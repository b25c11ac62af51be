---------------------------- MODULE MCAlgorithms ----------------------------
(* The inputs on which the pure functions are called.                      *)
EXTENDS Algorithms

Words(alphabet, n) == UNION {[1..k -> alphabet] : k \in 0..n}

\* Texts of up to three lines; a hunk of up to three lines, or two of up to two,
\* placed anywhere, in any order, with counts that are right or one too high;
\* notes on the final newline of the old side, the new, or both.
HunkLine(kind, text) == [kind |-> kind, text |-> text]
HunkLines == {HunkLine(k, t) : k \in {"context", "add", "remove"}, t \in {"a", "b"}}
FewLines == {HunkLine("context", "a"), HunkLine("remove", "b"), HunkLine("add", "a")}
Count(body, kind) == Len(SelectSeq(body, LAMBDA l : l.kind \notin {kind, "note"}))
Hunk(old, body, extra) ==
    <<[kind |-> "header", old |-> old, oldCount |-> Count(body, "add") + extra,
       newCount |-> Count(body, "remove")]>> \o body
Other(kind) == <<[kind |-> kind]>>
Text(lines, final, ends) == [lines |-> lines, final |-> final, ends |-> ends]
MCTexts ==
    {Text(l, TRUE, "LF") : l \in Words({"a", "b"}, 3) \ {<<>>}}
    \cup {Text(l, FALSE, "LF") : l \in Words({"a", "b"}, 2) \ {<<>>}}
    \cup {Text(<<"a", "b">>, TRUE, "CRLF"), Text(<<"">>, FALSE, "LF")}
MCDiffs ==
    {<<>>} \cup {Hunk(old, body, 0) : old \in 0..4, body \in Words(HunkLines, 2)}
    \cup {Hunk(old, body, 0) : old \in 1..2, body \in [1..3 -> HunkLines]}
    \cup {Hunk(1, body, 1) : body \in Words(FewLines, 2)}
    \cup {Other("junk") \o Hunk(1, <<HunkLine("context", "a")>>, 0) \o Other(k) : k \in {"blank", "junk"}}
    \cup {Hunk(old, <<HunkLine("remove", t)>> \o m \o <<HunkLine("add", u)>> \o n, 0) :
             old \in 1..2, t \in {"a", "b"}, u \in {"a", "b"},
             m \in {<<>>, Other("note")}, n \in {<<>>, Other("note")}}
    \cup {Hunk(2, <<HunkLine("context", "a")>> \o Other("note"), 0)}

    \cup {Hunk(i, b, 0) \o Hunk(j, c, 0) :
             i \in 1..3, j \in 1..3, b \in Words(FewLines, 2), c \in Words(FewLines, 2)}

\* A body that is a delimiter, no body, and frames one or both readers refuse.
Lines(lines) == FlattenSeq([i \in DOMAIN lines |-> IF i = 1 THEN <<lines[i]>> ELSE <<"CR", "LF", lines[i]>>])
Frame(lines, body) == [header |-> Lines(lines), body |-> body]
MCFrames ==
    {Frame(<<"len0", "other">>, <<>>), Frame(<<"len1", "other">>, <<"x">>),
     Frame(<<"other", "len4">>, <<"CR", "LF", "CR", "LF">>), Frame(<<"len4", "len1">>, <<"len0">>),
     Frame(<<"other">>, <<"x">>), Frame(<<"bad">>, <<"x">>), Frame(<<"len9">>, <<"x">>),
     Frame(<<"other", "other", "len1", "other">>, <<"x">>)}
MCStreams == Words(MCFrames, 2) \ {<<>>}

MCLispTexts ==
    Words({"(", ")", "]", "\"", "\\", ";", "nl", "#", "|", "?"}, 4)
    \cup Words({"(", ")", "[", "]"}, 6) \cup Words({"(", ")", "#", "|"}, 6)
    \cup Words({"(", ")", "\"", "\\"}, 5) \cup Words({"(", ";", "nl", ")"}, 5)
    \cup {<<"#", "|">> \o w : w \in Words({"#", "|"}, 6)}
MCLiterals ==
    {[literal |-> l, before |-> Words({"(", "[", "a"}, 2), after |-> Words({")", "]", ";"}, 2)] :
        l \in {<<" ", "?", "(", " ">>, <<" ", "?", "\\", ")", " ">>, <<" ", "#", "\\", "[", " ">>,
               <<" ", "#", "\\", "a", "a", " ">>, <<" ", "\\", "]", " ">>, <<" ", "\\", "a", "\"", " ">>}}

\* Symbols with each separator, with and without something on its sides.
MCSymbols ==
    ({p \o s \o n : p \in {<<>>, <<"a">>, <<"A">>, <<"b">>},
                    s \in {<<>>, <<"/">>, <<":">>, <<":", ":">>, <<"#", ":">>},
                    n \in {<<>>, <<"b">>, <<"b", "#">>}}
     \cup {<<"a", "/", "b", "/", "a">>, <<"a", "|">>, <<"#", "a">>, <<"1">>, <<"(">>}) \ {<<>>}
MCModes == {"emacs-lisp-mode", "clojure-mode", "lisp-mode", "text-mode"}

MCContents ==
    Words({"a", "b", " ", "(", "\"", ";", "nl", "#", "'", ",", "_"}, 4)
    \cup Words({"a", "\"", "\\"}, 5) \cup Words({"a", "#", "|"}, 5) \cup Words({"a", " ", ";", "nl"}, 5)
MCOldName == <<"a">>
MCNewNames == {<<"b">>, <<"a", "b">>, <<"#", "b">>, <<"@">>}

\* Forms two deep, within up to two forms that bind.
Variable(v) == [is |-> "variable", name |-> v]
Quoted(v) == [is |-> "quote", name |-> v]
Call(f, g) == [is |-> "call", first |-> f, second |-> g]
Lambda(v, f) == [is |-> "lambda", name |-> v, body |-> f]
Let(is, v, f, g) == [is |-> is, name |-> v, value |-> f, body |-> g]
Lets(v, values, bodies) == {Let("let", v, f, g) : f \in values, g \in bodies}
    \cup {Let("vector let", v, f, g) : f \in {h \in values : h.is # "quote"}, g \in bodies}
Atoms == {Variable("x"), Variable("y"), Quoted("x")}
Small == Atoms \cup {Call(f, g) : f \in Atoms, g \in Atoms} \cup {Lambda("x", f) : f \in Atoms}
         \cup UNION {Lets(v, Atoms, Atoms) : v \in {"x", "y"}}
MCForms == {Call(f, g) : f \in Small, g \in Atoms} \cup {Lambda("y", f) : f \in Small} \cup Small
           \cup Lets("x", Small, Atoms) \cup Lets("y", Atoms, Small)
Binder(v, tokens) == [name |-> v, tokens |-> tokens]
MCBinders ==
    Words({Binder("x", <<"(", "lambda", "(", "x", ")">>), Binder("y", <<"(", "defun", "g", "(", "y", ")">>),
           Binder("x", <<"(", "let", "(", "(", "x", "1", ")", ")">>),
           Binder("y", <<"(", "let", "[", "y", "1", "]">>)}, 2)
=============================================================================
