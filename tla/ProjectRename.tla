--------------------------- MODULE ProjectRename ----------------------------
(***************************************************************************)
(* The project rename of emacs-operator-refactor-intelligence.el: plan,    *)
(* apply to several buffers under change groups, journal, roll back.       *)
(*                                                                         *)
(* Emacs runs one thing at a time: no human step comes between the steps   *)
(* of apply or rollback.  But each buffer is changed on its own, a change  *)
(* can fail (read-only text, a hook), and what was planned or journalled   *)
(* waits while the human edits, saves, narrows, kills and reverts.         *)
(*                                                                         *)
(* Positions are abstracted to places where a symbol may stand, a digest   *)
(* to the text it is of.                                                   *)
(***************************************************************************)
EXTENDS Naturals, FiniteSets, Functions

CONSTANTS
    Files,
    Places,         \* the places of a file where a symbol may stand
    Narrowed,       \* the places a narrowed buffer shows
    Text0,          \* file -> place -> word, at first
    MaxPlans,       \* bound: plans kept at a time
    LastJournal,    \* bound: journals ever made, numbered as they are
    MaxSteps        \* bound: steps of the human and of other programs

Symbols == {"old", "new"}
Words == Symbols \cup {"typed", "gone"}      \* "gone": the place was deleted
Journals == 1..LastJournal
Texts == [Places -> Words]

ASSUME RenameAssumption ==
    /\ Narrowed \subseteq Places /\ Text0 \in [Files -> Texts]
    /\ MaxPlans \in Nat /\ LastJournal \in Nat /\ MaxSteps \in Nat

VARIABLES
    buf,        \* file -> its buffer
    disk,       \* file -> its text on disk
    sync,       \* file -> the buffer was read from, or written to, what is there
    plans,      \* emacs-operator--project-rename-plans; the id is the content
    journal,    \* emacs-operator--project-rename-journals
    made,       \* journals made so far
    op,         \* the apply or rollback in progress
    steps,      \* steps of the human and of other programs
    suspect     \* history: files whose flag a rollback set wrongly

filesystem == <<disk, sync>>
tables == <<plans, journal, made>>
vars == <<buf, filesystem, tables, op, steps, suspect>>

NoOp == [kind |-> "none"]
NoJournal == [f \in {} |-> {}]
Loaded(f) == [live |-> TRUE, text |-> disk[f], visible |-> Places, modified |-> FALSE]
Closed(f) == [Loaded(f) EXCEPT !.live = FALSE]

Init ==
    /\ disk = Text0 /\ sync = [f \in Files |-> TRUE]
    /\ buf = [f \in Files |-> Closed(f)]
    /\ plans = {} /\ journal = [j \in Journals |-> NoJournal] /\ made = 0
    /\ op = NoOp /\ steps = 0 /\ suspect = {}

\* What sha256 of the buffer sees: the text between point-min and point-max.
Digest(b) == Restrict(b.text, {p \in b.visible : b.text[p] # "gone"})

\* find-file-noselect of some files: those that no buffer visits are read.  (A
\* reread that it offers of a file changed on disk is a Revert before it.)
Visiting(S) == [f \in Files |-> IF f \in S /\ ~buf[f].live THEN Loaded(f) ELSE buf[f]]
Visit(S) ==
    /\ buf' = Visiting(S)
    /\ sync' = [f \in Files |-> sync[f] \/ (f \in S /\ ~buf[f].live)]

-----------------------------------------------------------------------------
(* Plan.                                                                   *)

Found(b, from) == {p \in b.visible : b.text[p] = from}

\* xref found occurrences in some files and visited them.
Plan(from, to, S) ==
    /\ op = NoOp
    /\ Visit(S)
    /\ LET hit == {f \in S : Found(Visiting(S)[f], from) # {}}
       IN plans' = plans \cup {[from |-> from, to |-> to,
              entries |-> [f \in hit |-> [sha |-> Digest(Visiting(S)[f]),
                                          edits |-> Found(Visiting(S)[f], from)]]]}
    /\ Cardinality(plans') <= MaxPlans
    /\ UNCHANGED <<disk, journal, made, op, steps, suspect>>

PlanExpires(p) ==
    /\ op = NoOp
    /\ plans' = plans \ {p}
    /\ UNCHANGED <<buf, filesystem, journal, made, op, steps, suspect>>

-----------------------------------------------------------------------------
(* Apply.                                                                  *)

\* Preflight stops at the first stale file, or at one that policy protects;
\* the files it came to are visited.
PreflightFails(S) ==
    /\ op = NoOp
    /\ Visit(S)
    /\ UNCHANGED <<disk, tables, op, steps, suspect>>

InDate(p) ==
    \A f \in DOMAIN p.entries :
        LET b == Visiting(DOMAIN p.entries)[f] IN
        /\ Digest(b) = p.entries[f].sha
        /\ \A e \in p.entries[f].edits : b.text[e] = p.from

ApplyBegin(p) ==
    /\ op = NoOp /\ p \in plans /\ made < LastJournal
    /\ InDate(p)
    /\ Visit(DOMAIN p.entries)
    /\ op' = [kind |-> "apply", plan |-> p, todo |-> DOMAIN p.entries,
              before |-> Restrict(Visiting(DOMAIN p.entries), DOMAIN p.entries)]
    /\ UNCHANGED <<disk, tables, steps, suspect>>

EditBuffer(f) ==
    /\ op.kind = "apply" /\ f \in op.todo
    /\ buf' = [buf EXCEPT ![f].modified = TRUE,
                          ![f].text = [p \in Places |->
                              IF p \in op.plan.entries[f].edits THEN op.plan.to ELSE @[p]]]
    /\ op' = [op EXCEPT !.todo = @ \ {f}]
    /\ UNCHANGED <<filesystem, tables, steps, suspect>>

\* The journal is built, the groups are accepted, the plan is dropped.
ApplyEnd ==
    /\ op.kind = "apply" /\ op.todo = {}
    /\ journal' = [journal EXCEPT ![made + 1] = [f \in DOMAIN op.before |->
          [before |-> Digest(op.before[f]), after |-> Digest(buf[f]),
           modified |-> op.before[f].modified,
           \* history: the file is not, or no longer, what the buffer was
           written |-> ~sync[f] \/ f \in suspect]]]
    /\ made' = made + 1
    /\ plans' = plans \ {op.plan}
    /\ op' = NoOp
    /\ UNCHANGED <<buf, filesystem, steps, suspect>>

-----------------------------------------------------------------------------
(* Rollback, commit, expiry.                                               *)

RollbackAllowed(j) ==
    \A f \in DOMAIN journal[j] :
        /\ Digest(Visiting(DOMAIN journal[j])[f]) = journal[j][f].after
        /\ sync[f] \/ ~buf[f].live

RollbackBegin(j) ==
    /\ op = NoOp /\ journal[j] # NoJournal
    /\ RollbackAllowed(j)
    /\ Visit(DOMAIN journal[j])
    /\ op' = [kind |-> "rollback", journal |-> j, todo |-> DOMAIN journal[j],
              before |-> Restrict(Visiting(DOMAIN journal[j]), DOMAIN journal[j])]
    /\ UNCHANGED <<disk, tables, steps, suspect>>

\* erase-buffer widens: what was captured takes the place of everything.
RestoreBuffer(f) ==
    /\ op.kind = "rollback" /\ f \in op.todo
    /\ LET captured == journal[op.journal][f].before
       IN buf' = [buf EXCEPT ![f] = [@ EXCEPT !.visible = Places, !.modified = TRUE,
              !.text = [p \in Places |->
                  IF p \in DOMAIN captured THEN captured[p] ELSE "gone"]]]
    /\ op' = [op EXCEPT !.todo = @ \ {f}]
    /\ UNCHANGED <<filesystem, tables, steps, suspect>>

(* Mutant: a buffer that was rolled back counts as saved.                  *)
RollbackEndAsSaved ==
    /\ op.kind = "rollback" /\ op.todo = {}
    /\ LET entries == journal[op.journal]
           lost(f) == \E p \in Places \ DOMAIN entries[f].before : op.before[f].text[p] # "gone"
       IN /\ buf' = [f \in Files |-> IF f \in DOMAIN entries
                        THEN [buf[f] EXCEPT !.modified = FALSE] ELSE buf[f]]
          /\ suspect' = suspect \cup {f \in DOMAIN entries : entries[f].written \/ lost(f)}
    /\ journal' = [journal EXCEPT ![op.journal] = NoJournal]
    /\ op' = NoOp
    /\ UNCHANGED <<filesystem, plans, made, steps>>

\* The flags become what they were before the rename, whatever was written or
\* lost since.
RollbackEnd ==
    /\ op.kind = "rollback" /\ op.todo = {}
    /\ LET entries == journal[op.journal]
           lost(f) == \E p \in Places \ DOMAIN entries[f].before : op.before[f].text[p] # "gone"
       IN /\ buf' = [f \in Files |-> IF f \in DOMAIN entries
                        THEN [buf[f] EXCEPT !.modified = entries[f].modified] ELSE buf[f]]
          /\ suspect' = suspect \cup {f \in DOMAIN entries : entries[f].written \/ lost(f)}
    /\ journal' = [journal EXCEPT ![op.journal] = NoJournal]
    /\ op' = NoOp
    /\ UNCHANGED <<filesystem, plans, made, steps>>

(* Mutant: only the group of the buffer whose change failed is cancelled.  *)
CancelOnlyTheLast ==
    /\ op # NoOp
    /\ op' = NoOp
    /\ UNCHANGED <<buf, filesystem, tables, steps, suspect>>

\* A change that fails cancels every group: texts and flags are as they were,
\* except that a buffer erase-buffer has widened stays wide.
Cancel ==
    /\ op # NoOp
    /\ buf' = [f \in Files |-> IF f \in DOMAIN op.before
                  THEN [op.before[f] EXCEPT !.visible = buf[f].visible] ELSE buf[f]]
    /\ op' = NoOp
    /\ UNCHANGED <<filesystem, tables, steps, suspect>>

\* commit, or the journal's time is over.
Commit(j) ==
    /\ op = NoOp
    /\ journal' = [journal EXCEPT ![j] = NoJournal]
    /\ UNCHANGED <<buf, filesystem, plans, made, op, steps, suspect>>

-----------------------------------------------------------------------------
(* The human, and other programs.                                          *)

Meanwhile == op = NoOp /\ steps < MaxSteps /\ steps' = steps + 1 /\ UNCHANGED <<plans, made, op>>

\* A file that is written is no longer what it was when a rename began.
Written(f) ==
    journal' = [j \in Journals |-> [g \in DOMAIN journal[j] |->
        [journal[j][g] EXCEPT !.written = @ \/ g = f]]]

Type(f, p) ==
    /\ Meanwhile /\ buf[f].live /\ p \in buf[f].visible
    /\ buf' = [buf EXCEPT ![f].text[p] = "typed", ![f].modified = TRUE]
    /\ UNCHANGED <<filesystem, journal, suspect>>

Narrow(f) ==
    /\ Meanwhile /\ buf[f].live
    /\ \E v \in {Narrowed, Places} \ {buf[f].visible} : buf' = [buf EXCEPT ![f].visible = v]
    /\ UNCHANGED <<filesystem, journal, suspect>>

Save(f) ==
    /\ Meanwhile /\ buf[f].live /\ buf[f].modified
    /\ disk' = [disk EXCEPT ![f] = buf[f].text] /\ sync' = [sync EXCEPT ![f] = TRUE]
    /\ buf' = [buf EXCEPT ![f].modified = FALSE]
    /\ Written(f) /\ suspect' = suspect \ {f}

Revert(f) ==
    /\ Meanwhile /\ buf[f].live
    /\ buf' = [buf EXCEPT ![f] = Loaded(f)] /\ sync' = [sync EXCEPT ![f] = TRUE]
    /\ suspect' = suspect \ {f}
    /\ UNCHANGED <<disk, journal>>

Kill(f) ==
    /\ Meanwhile /\ buf[f].live
    /\ buf' = [buf EXCEPT ![f] = Closed(f)] /\ sync' = [sync EXCEPT ![f] = TRUE]
    /\ suspect' = suspect \ {f}
    /\ UNCHANGED <<disk, journal>>

\* Another program writes the symbol, old or new, all over the file.
ExternalWrite(f, w) ==
    /\ Meanwhile
    /\ disk' = [disk EXCEPT ![f] = [p \in Places |-> w]]
    /\ IF buf[f].live
       THEN sync' = [sync EXCEPT ![f] = FALSE] /\ UNCHANGED buf
       ELSE buf' = [buf EXCEPT ![f].text = disk'[f]] /\ UNCHANGED sync
    /\ Written(f) /\ UNCHANGED suspect

Next ==
    \/ \E S \in SUBSET Files :
          \/ PreflightFails(S)
          \/ \E from, to \in Symbols : from # to /\ Plan(from, to, S)
    \/ \E p \in plans : PlanExpires(p) \/ ApplyBegin(p)
    \/ ApplyEnd \/ RollbackEnd \/ Cancel
    \/ \E j \in Journals : RollbackBegin(j) \/ Commit(j)
    \/ \E f \in Files :
          \/ EditBuffer(f) \/ RestoreBuffer(f)
          \/ Narrow(f) \/ Save(f) \/ Revert(f) \/ Kill(f)
          \/ \E p \in Places : Type(f, p)
          \/ \E w \in Symbols : ExternalWrite(f, w)

Spec == Init /\ [][Next]_vars

-----------------------------------------------------------------------------
(* Properties.                                                             *)

Partial == UNION {[S -> Words \ {"gone"}] : S \in SUBSET Places}

TypeOK ==
    /\ buf \in [Files -> [live : BOOLEAN, text : Texts, modified : BOOLEAN,
                          visible : {Narrowed, Places}]]
    /\ disk \in [Files -> Texts] /\ sync \in [Files -> BOOLEAN]
    /\ \A p \in plans : \A f \in DOMAIN p.entries :
          p.entries[f].sha \in Partial /\ p.entries[f].edits # {}
    /\ \A j \in Journals : \A f \in DOMAIN journal[j] :
          journal[j][f].before \in Partial /\ journal[j][f].after \in Partial
    /\ made \in 0..LastJournal /\ steps \in 0..MaxSteps
    /\ op.kind \in {"none", "apply", "rollback"} /\ suspect \subseteq Files

\* The rename, seen from outside of the running command: the files it has
\* begun to change are as they were until it ends.
Begun == IF op = NoOp THEN {} ELSE DOMAIN op.before
AR == INSTANCE AtomicRename WITH
    text <- [f \in Files |-> IF f \in Begun THEN op.before[f].text ELSE buf[f].text],
    journal <- [j \in Journals |-> [f \in DOMAIN journal[j] |->
        [before |-> journal[j][f].before, after |-> journal[j][f].after]]]

\* Apply and rollback implement AtomicRename: whichever buffer's change fails,
\* and whatever was done between plan, apply and rollback, each happens in all
\* of its files or in none, and takes nothing back over what was typed since
\* into the text that the apply captured.
RenameIsAtomic == AR!Spec

\* A buffer that is not marked as modified holds what its file holds, also
\* after a rename failed, was saved, or was taken back; except that a rollback
\* clears the mark of a buffer it has emptied of text outside the narrowing, or
\* whose file was written since the rename (or differed then already).
FlagIsHonest ==
    \A f \in Files :
        (op = NoOp /\ buf[f].live /\ ~buf[f].modified /\ sync[f] /\ f \notin suspect)
            => buf[f].text = disk[f]
=============================================================================
