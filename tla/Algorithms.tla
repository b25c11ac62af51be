----------------------------- MODULE Algorithms -----------------------------
(***************************************************************************)
(* The pure functions the server relies on, each called on one input of a  *)
(* set, and compared with what it is meant to compute.  Nothing here       *)
(* interleaves: a behaviour is one call and its answer.                    *)
(***************************************************************************)
EXTENDS UnifiedDiff, Framing, SymbolRename, ExtractParameters

CONSTANTS
    \* What the functions are called on.
    Texts, Diffs,                   \* of applyUnifiedDiff
    Streams,                        \* of the readers: sequences of frames, good and bad
    LispTexts, Literals,            \* of the balance checkers
    Symbols, Modes,                 \* of prepareSymbolRename
    Contents, OldName, NewNames,    \* of a rename plan
    Forms, Binders                  \* of inferExtractParameters

ASSUME DiffAssumption ==
    /\ Texts \subseteq [lines : Seq(STRING), final : BOOLEAN, ends : {"LF", "CRLF"}]
    /\ Diffs \subseteq Seq(DiffLine)

\* A frame, from its first byte to its last.
BytesOf(f) == f.header \o Delimiter \o f.body

\* A frame a reader is to return: of its lengths the last, or the only one if the
\* reader is the host's, is that of the body, and nothing is too long.
WellFormed(reader, f) ==
    \E i \in DOMAIN f.header :
       /\ f.header[i] \in DOMAIN Declared /\ Declared[f.header[i]] = Len(f.body)
       /\ Len(f.body) <= MaxMessage /\ (reader = "host" => Len(f.header) <= MaxHeader)
       /\ \A j \in DOMAIN f.header :
             /\ f.header[j] # "bad"
             /\ f.header[j] \in DOMAIN Declared => j = i \/ (reader = "bridge" /\ j < i)

\* A header ends where its delimiter begins, and a body is as long as the last
\* length says, unless that is too long.  A header within three bytes of the host's
\* limit is left out: framing.mjs:19 may count the delimiter's first bytes too.
IsFrame(f) ==
    /\ Delimiters(f.header \o Delimiter) = {Len(f.header)}
    /\ \A i \in DOMAIN f.header :
          f.header[i] \in DOMAIN Declared =>
             \/ Declared[f.header[i]] = Len(f.body) \/ Declared[f.header[i]] > MaxMessage
             \/ \E j \in DOMAIN f.header : j > i /\ f.header[j] \in DOMAIN Declared
    /\ Len(f.header) <= MaxHeader => Len(f.header) + 3 <= MaxHeader

ASSUME StreamAssumption ==
    /\ MaxMessage \in Nat /\ MaxHeader \in Nat
    /\ Streams \subseteq Seq([header : Seq(Byte), body : Seq(Byte)]) \ {<<>>}
    /\ \A frames \in Streams : \A i \in DOMAIN frames : IsFrame(frames[i])

\* "none" is the character that is not there.
ASSUME SymbolAssumption == \A s \in Symbols : s \in Seq(STRING) /\ "none" \notin ToSet(s)

VARIABLES
    input,      \* the call
    answers     \* its answer, none before it

vars == <<input, answers>>

DiffCall == \E t \in Texts, d \in Diffs : input = [of |-> "diff", text |-> t, diff |-> d]

\* A stream is cut in two places, or after every byte.
FrameCall ==
    \E frames \in Streams, reader \in Readers :
       LET bytes == FlattenSeq([i \in DOMAIN frames |-> BytesOf(frames[i])])
           n == Len(bytes)
           call(chunks) == [of |-> "frames", reader |-> reader, frames |-> frames, chunks |-> chunks]
       IN \/ input = call([i \in 1..n |-> <<bytes[i]>>])
          \/ \E i \in 1..n : \E j \in i..n :
                input = call(<<SubSeq(bytes, 1, i), SubSeq(bytes, i + 1, j), SubSeq(bytes, j + 1, n)>>)

\* A text, or a character literal between two.
BalanceCall ==
    LET call(b, l, a) == [of |-> "balance", before |-> b, literal |-> l, after |-> a] IN
    \/ \E t \in LispTexts : input = call(t, <<>>, <<>>)
    \/ \E l \in Literals : \E b \in l.before, a \in l.after : input = call(b, l.literal, a)

SemanticsCall ==
    \E old \in Symbols, new \in Symbols, mode \in Modes, policy \in Policies \cup {"default"} :
       input = [of |-> "semantics", old |-> old, new |-> new, mode |-> mode, policy |-> policy]

\* Two files, the second of which may have changed since the plan.
RenameCall ==
    \E new \in NewNames, t \in Contents, u \in {OldName, OldName \o OldName} :
       input = [of |-> "rename", old |-> OldName, new |-> new,
                planned |-> <<t, OldName>>, current |-> <<t, u>>]

\* The selection is a form within forms that bind a variable each.
ExtractCall ==
    \E form \in Forms, around \in Binders :
       LET before == FlattenSeq([i \in DOMAIN around |-> around[i].tokens])
           selected == TokensOf(form)
       IN input = [of |-> "extract", form |-> form,
                   bound |-> {around[i].name : i \in DOMAIN around},
                   tokens |-> before \o selected \o [i \in DOMAIN around |-> ")"],
                   first |-> Len(before) + 1, last |-> Len(before) + Len(selected)]

Init ==
    /\ DiffCall \/ FrameCall \/ BalanceCall \/ SemanticsCall \/ RenameCall \/ ExtractCall
    /\ answers = <<>>

Answer(name, value) ==
    /\ answers = <<>> /\ input.of = name
    /\ answers' = <<value>> /\ UNCHANGED input

\* emacs_edit, operation apply_unified_diff.
ApplyPatch == Answer("diff", ApplyUnifiedDiff(input.text, input.diff))

\* A connection that gets a stream in chunks: how it is after each.
Receive ==
    Answer("frames",
        LET after[k \in 0..Len(input.chunks)] ==
                IF k = 0 THEN Opened(input.reader)
                ELSE Push(after[k - 1], input.chunks[k])
        IN [k \in 1..Len(input.chunks) |-> after[k]])

\* The check "lisp_balance" of a benchmark, and that of the reference agent.
CheckBalance ==
    LET text == input.before \o input.literal \o input.after
    IN Answer("balance", [structure |-> StructureFindsBalance(text),
                          scanner |-> ScannerFindsBalance(text)])

\* emacs_refactor, before a rename is planned; a policy of "default" is none.
PrepareSymbols ==
    LET lang == LanguageOf(input.mode)
        policy == IF input.policy = "default" THEN DefaultPolicy(lang) ELSE input.policy
    IN Answer("semantics", PrepareRename(input.old, input.new, lang, policy))

\* A plan for the files as they were, applied to them as they are.
PlanAndApply ==
    Answer("rename",
        IF WithinLimits(input.planned, input.old)
        THEN ApplyPlan(CreatePlan(input.planned, input.old, input.new), input.current)
        ELSE [status |-> "exceeds limits"])

\* The parameters of the selection input.first..input.last of the tokens.
InferParameters ==
    Answer("extract", InferExtractParameters(input.tokens, input.first, input.last))

Next == ApplyPatch \/ Receive \/ CheckBalance \/ PrepareSymbols \/ PlanAndApply \/ InferParameters

Spec == Init /\ [][Next]_vars

-----------------------------------------------------------------------------
(* What they are meant to compute.                                         *)

Answered(name) == answers # <<>> /\ input.of = name
TheAnswer == answers[1]

(* Applying a unified diff gives the text the diff stands for, and a diff  *)
(* that does not fit the text (an old side that is not there, hunks that   *)
(* overlap, counts that lie) changes nothing: the buffer is replaced by    *)
(* what comes out (toolRouter.ts:680).  The text is meant as a whole, with *)
(* its final newline and its line ends.  Left out, because the code        *)
(* differs there: a hunk without old lines goes one line too early; a text *)
(* without lines is one empty line, before and after; the final newline    *)
(* stays as it was, whatever a note in the diff says of it; CRLF becomes   *)
(* LF, and only whether the diff fits is stated of such texts.             *)
DiffMeansWhatItSays ==
    Answered("diff") =>
        LET parsed == Hunks(input.diff)
            hunks == parsed.hunks
            fits == parsed.valid /\ hunks # <<>> /\ FitsText(hunks, input.text.lines)
            inserts == \E k \in DOMAIN hunks : hunks[k].header.oldCount = 0 /\ hunks[k].header.old > 0
            meant == Meant(input.text, input.diff)
        IN ~inserts /\ ~IsEmpty(input.text) =>
              /\ (TheAnswer.status = "ok") <=> fits
              /\ fits /\ meant.lines # <<>> /\ meant.final = input.text.final
                 /\ meant.ends = "LF" => TheAnswer.text = meant

(* However a stream is cut into chunks, a reader returns each message as   *)
(* soon as its last byte is there, once, whole and in order, and never     *)
(* returns a byte of a message as one; when a frame is bad the reader      *)
(* fails, having returned nothing but messages before it (framing.ts,      *)
(* framing.mjs: bodies that look like headers, chunks that end inside a    *)
(* delimiter).  input.frames is the stream, frame by frame.                *)
FramesSurviveChunking ==
    Answered("frames") =>
        LET bad == {i \in DOMAIN input.frames : ~WellFormed(input.reader, input.frames[i])}
            bytes(i) == Len(FlattenSeq([j \in 1..i |-> BytesOf(input.frames[j])]))
            received(k) == Len(FlattenSeq(SubSeq(input.chunks, 1, k)))
            bodies(k) == LET whole == {i \in DOMAIN input.frames : bytes(i) <= received(k)}
                         IN [i \in 1..Cardinality(whole) |-> input.frames[i].body]
        IN \A k \in DOMAIN input.chunks :
              IF bad = {} THEN ~TheAnswer[k].failed /\ TheAnswer[k].frames = bodies(k)
              ELSE /\ IsPrefix(TheAnswer[k].frames, bodies(k))
                   /\ \A i \in bad : Len(TheAnswer[k].frames) < i
                   /\ k = Len(input.chunks) => TheAnswer[k].failed

(* The two balance checkers, written apart, agree with each other and with *)
(* the grammar of brackets: what is in a string or a (nested) comment does *)
(* not count, and these are closed (structure.ts:24, scanner.ts:103).  For *)
(* that of structure.ts a character literal between spaces does not count  *)
(* either.  The scanner knows none and reports every "#_"; texts with one  *)
(* are left out, and so are those with a "?" or a backslash in a symbol.   *)
BalanceIsMatching ==
    LET plain == input.before \o input.after
    IN Answered("balance") /\ NoLiterals(plain) =>
          /\ TheAnswer.structure <=> DelimitersMatch(plain)
          /\ input.literal = <<>> => (TheAnswer.scanner <=> DelimitersMatch(plain))

(* A rename that is to keep the qualification changes the last part of the *)
(* symbol and nothing else: not its namespace or package, not how it is    *)
(* separated, and it never makes or renames a keyword; "leaf_only" gives   *)
(* the leaf that was asked for.  In Common Lisp this is up to case         *)
(* (symbol-semantics.ts:110).                                              *)
QualificationIsKept ==
    Answered("semantics") /\ TheAnswer.status = "ok" =>
        LET lang == LanguageOf(input.mode)
            separator == CASE lang = "clojure" -> "/" [] lang = "common_lisp" -> ":" [] OTHER -> "none"
            cut(s) == IF Len(s) = 1 \/ separator \notin ToSet(s) THEN 0
                      ELSE CHOOSE i \in DOMAIN s : /\ s[i] = separator
                                                   /\ \A j \in (i + 1)..Len(s) : s[j] # separator
            qualifier(s) == Folded(SubSeq(s, 1, cut(s)), lang)
            leaf(s) == Folded(SubSeq(s, cut(s) + 1, Len(s)), lang)
            exact == input.policy = "exact"
                     \/ (input.policy = "default" /\ DefaultPolicy(lang) = "exact")
            new == TheAnswer.name
        IN /\ Head(input.old) # ":" /\ Head(new) # ":"
           /\ exact => new = input.new
           /\ ~exact => qualifier(new) = qualifier(input.old) /\ leaf(new) # leaf(input.old)
           /\ leaf(new) = leaf(input.new)

(* A rename changes the symbol wherever it is a symbol, and nothing else:  *)
(* read again, every file has the lexemes it had, spaces, comments and     *)
(* strings included, with the new name for the old, and the new name does  *)
(* not merge with what is next to it; if any file is not what was planned  *)
(* for, no file changes (rename-plan.ts:69-86).  New names that the reader *)
(* would not take as one symbol everywhere are left out (the plan admits   *)
(* "@x", and "#_x" outside Clojure).                                       *)
RenameTouchesOnlyTheSymbol ==
    Answered("rename") =>
        LET planned == {f \in DOMAIN input.planned :
                          EditsFor(input.planned[f], input.old) # <<>>}
            stale == \E f \in planned : input.current[f] # input.planned[f]
            renamed(e) == IF e.type = "symbol" /\ e.value = input.old
                          THEN [e EXCEPT !.value = input.new] ELSE e
            safe == Len(Lexemes(input.new)) = 1 /\ Lexemes(input.new)[1].type = "symbol"
                    /\ Head(input.new) # "@"
        IN /\ TheAnswer.status = "stale" <=> (stale /\ TheAnswer.status # "exceeds limits")
           /\ TheAnswer.status = "ok" /\ safe =>
                \A f \in DOMAIN input.current :
                   LET before == Lexemes(input.current[f])
                       after == Lexemes(TheAnswer.contents[f])
                   IN after = [k \in DOMAIN before |-> renamed(before[k])]

(* The parameters inferred for a selection are the variables that are free *)
(* in it and bound around it, the unresolved ones those free and not bound *)
(* (analysis.ts:117).  Left out: a name both bound in the selection and    *)
(* free elsewhere in it, which the code does not report; and Forms has no  *)
(* quoted value in a vector of bindings: the quote counts as a node, and   *)
(* the code takes the values after it for names.                           *)
ParametersAreFreeVariables ==
    Answered("extract") =>
        LET free == Free(input.form)
        IN free \cap BoundIn(input.form) = {} =>
              /\ TheAnswer.parameters = free \cap input.bound
              /\ TheAnswer.unresolved = free \ input.bound
=============================================================================
