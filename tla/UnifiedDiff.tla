----------------------------- MODULE UnifiedDiff ----------------------------
(***************************************************************************)
(* applyUnifiedDiff of protocol/src/unifiedDiff.ts, through which           *)
(* emacs.buffer.apply_patch makes the text that replaces a buffer's.       *)
(*                                                                         *)
(* A text is its lines, whether a newline ends the last, and how lines end *)
(* ("CRLF" if any line does so).  A diff is the sequence of its lines, each *)
(* read as a record of one of these kinds: "header" with old, oldCount and *)
(* newCount (the new start is read and never used); "context", "add" and   *)
(* "remove" with the text; "blank"; "note", that the line before it is not *)
(* ended by a newline; "junk".                                             *)
(***************************************************************************)
EXTENDS Naturals, Sequences, SequencesExt

\* What comes of a diff: a text, or one of two errors.
Patched(text) == [status |-> "ok", text |-> text]
Refused(code) == [status |-> code]
Malformed == "E_INVALID_ARGUMENT"
Conflict == "E_STATE_CONFLICT"

-----------------------------------------------------------------------------
(* parseHunks.                                                             *)

Body == {"context", "add", "remove"}
HeaderLine == [kind : {"header"}, old : Nat, oldCount : Nat, newCount : Nat]
Ignored == {"blank", "note"}
DiffLine == HeaderLine \cup [kind : Body, text : STRING] \cup [kind : Ignored \cup {"junk"}]

\* One line of the diff; lines before the first header are skipped.
ReadLine(parsed, line) ==
    LET n == Len(parsed.hunks) IN
    CASE line.kind = "header" ->
            [parsed EXCEPT !.hunks = Append(@, [header |-> line, lines |-> <<>>])]
      [] line.kind # "header" /\ (n = 0 \/ line.kind \in Ignored) -> parsed
      [] n > 0 /\ line.kind \in Body ->
            [parsed EXCEPT !.hunks[n].lines = Append(@, line)]
      [] n > 0 /\ line.kind = "junk" -> [parsed EXCEPT !.valid = FALSE]

Hunks(diff) == FoldLeft(ReadLine, [hunks |-> <<>>, valid |-> TRUE], diff)

-----------------------------------------------------------------------------
(* The loop over the hunks: what has been put out, how many lines of the   *)
(* source have been passed, and the first error.                           *)

TargetIndex(h) == IF h.header.old = 0 THEN 0 ELSE h.header.old - 1

(* Mutant: hunks may come in any order.                                    *)
OverlapsNothing(done, h) == FALSE

Overlaps(done, h) == TargetIndex(h) < done.passed

\* slice(from, to): nothing past the end.
Slice(lines, from, to) == SubSeq(lines, from + 1, IF to < Len(lines) THEN to ELSE Len(lines))

ApplyLine(source, done, line) ==
    CASE done.error # "" -> done
      [] done.error = "" /\ line.kind = "add" -> [done EXCEPT !.out = Append(@, line.text)]
      [] done.error = "" /\ line.kind # "add" ->
            IF done.passed >= Len(source) \/ source[done.passed + 1] # line.text
            THEN [done EXCEPT !.error = Conflict]
            ELSE [done EXCEPT !.passed = @ + 1,
                              !.out = IF line.kind = "context" THEN Append(@, line.text) ELSE @]

Seen(h, kinds) == Cardinality({i \in DOMAIN h.lines : h.lines[i].kind \in kinds})
CountsAgree(h) ==
    /\ Seen(h, {"context", "remove"}) = h.header.oldCount
    /\ Seen(h, {"context", "add"}) = h.header.newCount

ApplyHunk(source, done, h) ==
    IF done.error # "" THEN done
    ELSE IF Overlaps(done, h) THEN [done EXCEPT !.error = Malformed]
    ELSE LET start == [done EXCEPT !.passed = TargetIndex(h),
                          !.out = @ \o Slice(source, done.passed, TargetIndex(h))]
             end == FoldLeft(LAMBDA d, line : ApplyLine(source, d, line), start, h.lines)
         IN IF end.error = "" /\ ~CountsAgree(h) THEN [end EXCEPT !.error = Malformed] ELSE end

\* Joined with newlines, no line at all is one empty line.  Line ends become LF,
\* and the final newline is that of the source, whatever the diff's note says.
ApplyUnifiedDiff(text, diff) ==
    LET parsed == Hunks(diff)
        done == FoldLeft(LAMBDA d, h : ApplyHunk(text.lines, d, h),
                         [out |-> <<>>, passed |-> 0, error |-> ""], parsed.hunks)
        out == done.out \o Slice(text.lines, done.passed, Len(text.lines))
    IN IF ~parsed.valid \/ parsed.hunks = <<>> THEN Refused(Malformed)
       ELSE IF done.error # "" THEN Refused(done.error)
       ELSE Patched([lines |-> IF out = <<>> THEN <<"">> ELSE out, final |-> text.final, ends |-> "LF"])

-----------------------------------------------------------------------------
(* What a unified diff says, without a pass over the text: hunk k replaces *)
(* its old side, which begins after line Place(k), by its new side.        *)

Side(h, kinds) ==
    FoldLeft(LAMBDA side, line : IF line.kind \in kinds THEN Append(side, line.text) ELSE side,
             <<>>, h.lines)
OldSide(h) == Side(h, {"context", "remove"})
NewSide(h) == Side(h, {"context", "add"})

\* With lines on its old side a hunk begins at its first; without, it comes
\* after the line its header names.
Place(h) == IF h.header.oldCount = 0 \/ h.header.old = 0 THEN h.header.old ELSE h.header.old - 1

FitsText(hunks, lines) ==
    \A k \in 1..Len(hunks) :
       LET from == Place(hunks[k])
           to == from + Len(OldSide(hunks[k])) IN
       /\ CountsAgree(hunks[k])
       /\ to <= Len(lines) /\ SubSeq(lines, from + 1, to) = OldSide(hunks[k])
       /\ \A j \in 1..(k - 1) : Place(hunks[j]) + Len(OldSide(hunks[j])) <= from

\* The new sides in order, each followed by the lines up to the next hunk.
NewText(hunks, lines) ==
    LET next(k) == IF k = Len(hunks) THEN Len(lines) ELSE Place(hunks[k + 1])
        kept(k) == SubSeq(lines, Place(hunks[k]) + Len(OldSide(hunks[k])) + 1, next(k))
    IN SubSeq(lines, 1, Place(hunks[1]))
       \o FlattenSeq([k \in 1..Len(hunks) |-> NewSide(hunks[k]) \o kept(k)])

\* Whether a newline ends the last line afterwards: not if a note stands at a
\* line of the new side; if one stands at an old line only, there is one now;
\* a diff without notes leaves the end as it was.
Noted(diff, kinds) ==
    \E i \in 2..Len(diff) : diff[i].kind = "note" /\ diff[i - 1].kind \in kinds
FinalAfter(text, diff) ==
    ~Noted(diff, {"context", "add"}) /\ (text.final \/ Noted(diff, {"remove"}))

\* The text a diff that fits stands for, as a whole.
Meant(text, diff) ==
    [lines |-> NewText(Hunks(diff).hunks, text.lines),
     final |-> FinalAfter(text, diff), ends |-> text.ends]

\* A text of no lines at all, which the code takes for one empty line.
IsEmpty(text) == text.lines = <<"">> /\ ~text.final
=============================================================================
