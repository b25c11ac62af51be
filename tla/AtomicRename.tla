---------------------------- MODULE AtomicRename ----------------------------
(***************************************************************************)
(* What a project rename promises, whatever it is made of: it happens in   *)
(* all of its files in one step or not at all, taking it back gives all of *)
(* them the captured text again or none, and nothing typed since in that   *)
(* text is lost to it.  Only a human's own step changes one file alone.    *)
(***************************************************************************)
EXTENDS Naturals

CONSTANTS
    Files,
    Places,     \* the places of a file where a symbol may stand
    Words,      \* what may stand there
    Journals    \* ids under which a rename can be taken back

VARIABLES
    text,       \* file -> place -> word
    journal,    \* id -> the files of the rename -> their captured text
                \* before and after it: functions on the captured places
    steps       \* how often a human, or another program, did something

vars == <<text, journal, steps>>

NoRename == [f \in {} |-> {}]

Init ==
    /\ text \in [Files -> [Places -> Words]]
    /\ journal = [j \in Journals |-> NoRename]
    /\ steps = 0

Holds(t, captured) == \A p \in DOMAIN captured : t[p] = captured[p]

Rename(j, old, new) ==
    /\ journal[j] = NoRename /\ journal'[j] # NoRename
    /\ journal' = [journal EXCEPT ![j] = journal'[j]]
    /\ \A f \in Files :
          IF f \in DOMAIN journal'[j]
          THEN /\ Holds(text[f], journal'[j][f].before)
               /\ Holds(text'[f], journal'[j][f].after)
               /\ text'[f] # text[f]
               /\ \A p \in Places :
                     text'[f][p] # text[f][p] => text[f][p] = old /\ text'[f][p] = new
          ELSE text'[f] = text[f]
    /\ UNCHANGED steps

TakeBack(j) ==
    /\ journal[j] # NoRename
    /\ journal' = [journal EXCEPT ![j] = NoRename]
    /\ \A f \in Files :
          IF f \in DOMAIN journal[j]
          THEN Holds(text[f], journal[j][f].after) /\ Holds(text'[f], journal[j][f].before)
          ELSE text'[f] = text[f]
    /\ UNCHANGED steps

Forget(j) ==
    /\ journal' = [journal EXCEPT ![j] = NoRename]
    /\ UNCHANGED <<text, steps>>

Edit(f) ==
    /\ steps' = steps + 1
    /\ \A g \in Files \ {f} : text'[g] = text[g]
    /\ UNCHANGED journal

Next ==
    \/ \E j \in Journals :
          TakeBack(j) \/ Forget(j) \/ \E old, new \in Words : Rename(j, old, new)
    \/ \E f \in Files : Edit(f)

Spec == Init /\ [][Next]_vars
=============================================================================
