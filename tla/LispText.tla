------------------------------ MODULE LispText ------------------------------
(***************************************************************************)
(* How the server reads Lisp: the scanner of refactor-intelligence/src/    *)
(* scanner.ts, behind renames and parameter inference, and the checker of  *)
(* benchmark/src/structure.ts, behind the structural gates.  They are two  *)
(* programs, and read the same text.                                       *)
(*                                                                         *)
(* A text is a sequence of characters; "nl" is the newline and "bq" the    *)
(* backquote.                                                              *)
(***************************************************************************)
EXTENDS Naturals, Sequences, SequencesExt

Openers == {"(", "[", "{"}
Closers == {")", "]", "}"}
OpenerOf(c) == CASE c = ")" -> "(" [] c = "]" -> "[" [] c = "}" -> "{"
Spaces == {" ", "nl"}
Digits == {"1"}
Quoting == {"'", "bq", ","}
SymbolStops == Spaces \cup Openers \cup Closers \cup Quoting \cup {"\"", ";"}

CharAt(t, i) == IF i \in DOMAIN t THEN t[i] ELSE "none"
Two(t, i, a, b) == CharAt(t, i) = a /\ CharAt(t, i + 1) = b

-----------------------------------------------------------------------------
(* The scanner: where what begins at i ends, and whether it was closed.    *)

(* Mutant: comments do not nest.                                           *)
FlatBlockComment(t, i) ==
    LET from[j \in Nat] ==
            CASE j > Len(t) -> [end |-> j, closed |-> FALSE]
              [] Two(t, j, "|", "#") -> [end |-> j + 2, closed |-> TRUE]
              [] OTHER -> from[j + 1]
    IN from[i + 2]

\* Comments nest.
BlockComment(t, i) ==
    LET from[j \in Nat, depth \in Nat] ==
            IF depth = 0 \/ j > Len(t) THEN [end |-> j, closed |-> depth = 0]
            ELSE CASE Two(t, j, "#", "|") -> from[j + 2, depth + 1]
                   [] Two(t, j, "|", "#") -> from[j + 2, depth - 1]
                   [] OTHER -> from[j + 1, depth]
    IN from[i + 2, 1]

StringLiteral(t, i) ==
    LET from[j \in Nat] ==
            CASE j > Len(t) -> [end |-> Len(t) + 1, closed |-> FALSE]
              [] CharAt(t, j) = "\"" -> [end |-> j + 1, closed |-> TRUE]
              [] CharAt(t, j) = "\\" -> from[j + 2]
              [] OTHER -> from[j + 1]
    IN from[i + 1]

LineComment(t, i) ==
    LET ends == {j \in i..Len(t) : t[j] = "nl"}
    IN [end |-> IF ends = {} THEN Len(t) + 1 ELSE CHOOSE j \in ends : \A k \in ends : j <= k,
        closed |-> TRUE]

Symbol(t, i) ==
    LET stops == {j \in i..(Len(t) + 1) : j > Len(t) \/ t[j] \in SymbolStops \/ Two(t, j, "#", "|")}
    IN [end |-> CHOOSE j \in stops : \A k \in stops : j <= k, closed |-> TRUE]

Chars(n, i) == [end |-> i + n, closed |-> TRUE]

Numeric(value) == \A i \in DOMAIN value : value[i] \in Digits

\* The lexeme at i.  Signs and points of numbers are left out.
LexemeAt(t, i) ==
    LET c == t[i]
        as(type, e) == [type |-> type, value |-> SubSeq(t, i, e.end - 1), closed |-> e.closed]
        word == as("symbol", Symbol(t, i))
    IN CASE c \in Spaces -> as("space", Chars(1, i))
         [] c = ";" -> as("comment", LineComment(t, i))
         [] Two(t, i, "#", "|") -> as("comment", BlockComment(t, i))
         [] c = "\"" -> as("string", StringLiteral(t, i))
         [] Two(t, i, "#", "_") -> as("discard", Chars(2, i))
         [] Two(t, i, ",", "@") \/ Two(t, i, "#", "'") -> as("reader", Chars(2, i))
         [] c \in Openers \cup Closers -> as("delimiter", Chars(1, i))
         [] c \in Quoting /\ ~Two(t, i, ",", "@") -> as("delimiter", Chars(1, i))
         [] OTHER -> IF Numeric(word.value) THEN [word EXCEPT !.type = "number"] ELSE word

\* All of them, spaces, comments and strings included.
Lexemes(t) ==
    LET from[i \in Nat] ==
            IF i > Len(t) THEN <<>>
            ELSE LET e == LexemeAt(t, i) IN <<e>> \o from[i + Len(e.value)]
    IN from[1]

\* scanLisp: the tokens, and the first character of each, by its offset.
Trivia == {"space", "comment", "string"}
ScanLisp(t) ==
    LET all == Lexemes(t)
        end == [k \in DOMAIN all |-> Len(FlattenSeq([j \in 1..k |-> all[j].value]))]
        placed == [k \in DOMAIN all |->
                     [type |-> all[k].type, value |-> all[k].value,
                      start |-> end[k] - Len(all[k].value), end |-> end[k]]]
    IN [tokens |-> SelectSeq(placed, LAMBDA e : e.type \notin Trivia),
        diagnostics |-> Len(SelectSeq(all, LAMBDA e : ~e.closed \/ e.type = "discard"))]

\* checkLispBalance of scanner.ts: a closer takes the opener on top, right or
\* wrong, from the stack.
CloseDelimiter(s, token) ==
    LET c == Head(token.value) IN
    CASE c \in Openers -> [s EXCEPT !.stack = Append(@, c)]
      [] c \in Closers /\ s.stack = <<>> -> [s EXCEPT !.faults = @ + 1]
      [] c \in Closers /\ s.stack # <<>> ->
            [stack |-> Front(s.stack),
             faults |-> IF Last(s.stack) = OpenerOf(c) THEN s.faults ELSE s.faults + 1]
      [] OTHER -> s

ScannerFindsBalance(t) ==
    LET scanned == ScanLisp(t)
        end == FoldLeft(CloseDelimiter, [stack |-> <<>>, faults |-> scanned.diagnostics],
                        SelectSeq(scanned.tokens, LAMBDA e : e.type = "delimiter"))
    IN end.stack = <<>> /\ end.faults = 0

ValidLispSymbol(name) ==
    /\ name # <<>> /\ \A i \in DOMAIN name : name[i] \notin SymbolStops
    /\ ~Numeric(name)

-----------------------------------------------------------------------------
(* The checker of structure.ts: one pass, a mode, and a number of          *)
(* characters to pass over.                                                *)

Start == [mode |-> "code", depth |-> 0, skip |-> 0, stack |-> <<>>, faults |-> 0]
ToCode(s) == [s EXCEPT !.mode = "code"]
Enter(s, mode, skip) == [s EXCEPT !.mode = mode, !.skip = skip]

InComment(s, t, i) ==
    CASE s.mode = "line" -> IF t[i] = "nl" THEN ToCode(s) ELSE s
      [] s.mode = "block" /\ Two(t, i, "#", "|") -> [s EXCEPT !.depth = @ + 1, !.skip = 1]
      [] s.mode = "block" /\ Two(t, i, "|", "#") ->
            [s EXCEPT !.depth = @ - 1, !.skip = 1, !.mode = IF s.depth = 1 THEN "code" ELSE @]
      [] OTHER -> s

InString(s, t, i) ==
    CASE s.mode = "escaped" -> Enter(s, "string", 0)
      [] s.mode = "string" /\ t[i] = "\\" -> Enter(s, "escaped", 0)
      [] s.mode = "string" /\ t[i] = "\"" -> ToCode(s)
      [] OTHER -> s

\* In code: a closer that does not match puts the opener back.
InCode(s, t, i) ==
    LET c == t[i] IN
    CASE c = ";" -> Enter(s, "line", 0)
      [] Two(t, i, "#", "|") -> [Enter(s, "block", 1) EXCEPT !.depth = 1]
      [] c = "\"" -> Enter(s, "string", 0)
      [] c = "?" -> Enter(s, "code", IF CharAt(t, i + 1) = "\\" THEN 2 ELSE 1)
      [] Two(t, i, "#", "\\") -> Enter(s, "literal", 1)
      [] c = "\\" /\ (i = 1 \/ t[i - 1] \in Spaces \cup Openers \cup {"\"", "'"}) ->
            Enter(s, "literal", 0)
      [] c \in Openers -> [s EXCEPT !.stack = Append(@, c)]
      [] c \in Closers ->
            IF s.stack # <<>> /\ Last(s.stack) = OpenerOf(c) THEN [s EXCEPT !.stack = Front(@)]
            ELSE [s EXCEPT !.faults = @ + 1]
      [] OTHER -> s

\* The first character of a character's name is passed whatever it is; a
\* delimiter is the whole name.
InName(s, t, i) ==
    CASE s.mode = "literal" ->
            Enter(s, IF t[i] \in Openers \cup Closers THEN "code" ELSE "name", 0)
      [] s.mode = "name" /\ t[i] \in Spaces \cup Openers \cup Closers -> InCode(ToCode(s), t, i)
      [] OTHER -> s

CheckCharacter(s, t, i) ==
    CASE s.skip > 0 -> [s EXCEPT !.skip = @ - 1]
      [] s.skip = 0 /\ s.mode \in {"line", "block"} -> InComment(s, t, i)
      [] s.skip = 0 /\ s.mode \in {"string", "escaped"} -> InString(s, t, i)
      [] s.skip = 0 /\ s.mode \in {"literal", "name"} -> InName(s, t, i)
      [] s.skip = 0 /\ s.mode = "code" -> InCode(s, t, i)

StructureFindsBalance(t) ==
    LET end == FoldLeft(LAMBDA s, i : CheckCharacter(s, t, i), Start,
                        [i \in DOMAIN t |-> i])
    IN end.stack = <<>> /\ end.faults = 0 /\ end.mode \notin {"string", "escaped", "block"}

-----------------------------------------------------------------------------
(* What both should say of a text in which neither sees a character        *)
(* literal or a discarded form: its delimiters match as brackets do.       *)

Matched[d \in Seq(Openers \cup Closers)] ==
    \/ d = <<>>
    \/ \E k \in 2..Len(d) :
          /\ d[1] \in Openers /\ d[k] \in Closers /\ OpenerOf(d[k]) = d[1]
          /\ Matched[SubSeq(d, 2, k - 1)] /\ Matched[SubSeq(d, k + 1, Len(d))]

NoLiterals(t) ==
    \A k \in DOMAIN Lexemes(t) :
       LET e == Lexemes(t)[k] IN
       /\ e.type # "discard"
       /\ e.type = "symbol" => ToSet(e.value) \cap {"?", "\\"} = {}

DelimitersMatch(t) ==
    LET code == SelectSeq(Lexemes(t), LAMBDA e : e.type = "delimiter"
                                                 /\ Head(e.value) \in Openers \cup Closers)
    IN /\ \A k \in DOMAIN Lexemes(t) : Lexemes(t)[k].closed
       /\ Matched[FlattenSeq([k \in DOMAIN code |-> code[k].value])]
=============================================================================
