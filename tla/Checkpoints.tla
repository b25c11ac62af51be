----------------------------- MODULE Checkpoints -----------------------------
(***************************************************************************)
(* emacs-operator-transaction.el: single-buffer checkpoints, taken,        *)
(* committed and rolled back by agents while the human goes on working in  *)
(* the same buffers.  Each bridge request runs to its end in Emacs's one   *)
(* thread, so it is one step; several agents (MCP server processes) may be *)
(* connected, and each acts on what it last observed.                      *)
(***************************************************************************)
EXTENDS EmacsBuffers

CONSTANTS
    Agents,     \* clients connected to the bridge
    Chk,        \* checkpoint ids: chk_<uuid>, never reused
    NoSnap      \* no snapshot was ever stored under this id

VARIABLES
    status,     \* id -> "open" while it is a key of emacs-operator--checkpoints
    snap,       \* id -> the snapshot stored under it, NoSnap when there is none
    seen        \* agent, buffer -> tick, range and text of its last observation

chkVars == <<status, snap, seen>>
vars == <<emacsVars, chkVars>>

Statuses == {"new", "open", "committed", "rolled_back", "cleared"}

Snapshot == [buffer   : Buffers,
             content  : Text,               \* the accessible text
             modified : BOOLEAN,
             humanSeq : Nat,
             file     : Files \cup {NoFile},
             fileText : Text,               \* its digest; Empty without a file
             \* history, for the properties only:
             full     : Text,               \* the whole text at that moment
             range    : SUBSET Segs,        \* the accessible portion
             honest   : BOOLEAN,            \* modified flag told the truth
             tracked  : BOOLEAN]            \* the after-change hook was on

ASSUME CheckpointsAssumption == NoSnap \notin Snapshot

Observation == [tick  : Nat,
                range : SUBSET Segs,        \* the part of the text it shows
                text  : Text]               \* Blank outside that part

FileText(f) == IF f = NoFile THEN Empty ELSE disk[f]

(* The modified flag may be believed: if it is off, the file holds the text. *)
HonestFlag(b) ==
    Visits(b) /\ ~buf[b].modified => buf[b].text = disk[buf[b].file]

Part(b, range) == [s \in Segs |-> IF s \in range THEN buf[b].text[s] ELSE Blank]

Accessible(b) == Part(b, buf[b].visible)

SnapshotOf(b) ==
    [buffer |-> b, content |-> Accessible(b), modified |-> buf[b].modified,
     humanSeq |-> buf[b].humanSeq, file |-> buf[b].file,
     fileText |-> FileText(buf[b].file),
     full |-> buf[b].text, range |-> buf[b].visible,
     honest |-> HonestFlag(b), tracked |-> buf[b].tracked]

Init ==
    /\ BuffersInit
    /\ status = [c \in Chk |-> "new"]
    /\ snap = [c \in Chk |-> NoSnap]
    /\ seen = [a \in Agents |-> [b \in Buffers |->
                   [tick |-> 0, range |-> {}, text |-> Empty]]]

(* state.observe shows a window around point, resource.read a range or all *)
(* from point-min to point-max: some part of what is accessible.  The      *)
(* answer carries the tick of the whole buffer.  (Bound: when the editing  *)
(* of a buffer has come to its end, so has the looking.)                   *)
Observe(a, b) ==
    /\ enabled /\ Live(b)
    /\ buf[b].tick < MaxTick
    /\ \E range \in SUBSET buf[b].visible :
          seen' = [seen EXCEPT ![a][b] = [tick  |-> buf[b].tick,
                                         range |-> range,
                                         text  |-> Part(b, range)]]
    /\ UNCHANGED <<emacsVars, status, snap>>

(* Mutant: an observation older than the buffer passes for current.        *)
LaxPrecondition(a, b) == seen[a][b].tick <= buf[b].tick

(* emacs-operator-check-precondition, with expected_buffer_tick given.     *)
Precondition(a, b) == seen[a][b].tick = buf[b].tick

(* edit.apply, with the tick precondition or (guarded = FALSE) without.    *)
Edit(a, b, s, w, guarded) ==
    /\ enabled
    /\ guarded => Precondition(a, b)
    /\ WriteRegion(b, s, w, "rpc")
    /\ UNCHANGED chkVars

CheckpointCreate(c, b) ==
    /\ enabled /\ Live(b)
    /\ status[c] = "new"
    /\ status' = [status EXCEPT ![c] = "open"]
    /\ snap' = [snap EXCEPT ![c] = SnapshotOf(b)]
    /\ UNCHANGED <<emacsVars, seen>>

(* Mutant: the snapshot is not removed from the table.                     *)
CommitWithoutRemoving(c) ==
    /\ enabled
    /\ status[c] = "open"
    /\ status' = [status EXCEPT ![c] = "committed"]
    /\ UNCHANGED <<emacsVars, snap, seen>>

CheckpointCommit(c) ==
    /\ enabled
    /\ status[c] = "open"
    /\ status' = [status EXCEPT ![c] = "committed"]
    /\ snap' = [snap EXCEPT ![c] = NoSnap]
    /\ UNCHANGED <<emacsVars, seen>>

(* Mutants: rollback does not compare the human's counts, or the files.    *)
RollbackIgnoringHuman(c) ==
    /\ Live(snap[c].buffer)
    /\ snap[c].fileText = FileText(snap[c].file)

RollbackIgnoringFile(c) ==
    /\ Live(snap[c].buffer)
    /\ snap[c].humanSeq = buf[snap[c].buffer].humanSeq

(* What rollback insists on: the buffer lives, the human has not been      *)
(* counted changing it, and the file named in the snapshot is as it was.   *)
RollbackAllowed(c) ==
    LET b == snap[c].buffer IN
    /\ Live(b)
    /\ snap[c].humanSeq = buf[b].humanSeq
    /\ snap[c].fileText = FileText(snap[c].file)

(* Mutant: rollback also restores the tick of its snapshot's time.         *)
RewoundBuffer(c) ==
    [buf[snap[c].buffer] EXCEPT !.text = snap[c].content, !.visible = Segs,
                                !.modified = snap[c].modified]

(* erase-buffer widens first, so what was hidden goes too; then the        *)
(* snapshot's text is inserted and its modified flag set.                  *)
RolledBackBuffer(c) ==
    LET b == snap[c].buffer IN
    [Changed(b, snap[c].content, "rpc") EXCEPT
        !.visible = Segs, !.modified = snap[c].modified]

CheckpointRollback(c) ==
    LET b == snap[c].buffer IN
    /\ enabled
    /\ status[c] = "open"
    /\ RollbackAllowed(c)
    /\ buf' = [buf EXCEPT ![b] = RolledBackBuffer(c)]
    /\ Attribute(b, snap[c].content, "rpc")
    /\ status' = [status EXCEPT ![c] = "rolled_back"]
    /\ snap' = [snap EXCEPT ![c] = NoSnap]
    /\ UNCHANGED <<disk, enabled, seen>>

(* emacs-operator-mode off: the bridge stops, the change hooks are removed *)
(* and emacs-operator-transaction-clear forgets every checkpoint.          *)
ModeOff ==
    /\ enabled
    /\ enabled' = FALSE
    /\ buf' = [b \in Buffers |-> [buf[b] EXCEPT !.tracked = FALSE]]
    /\ status' = [c \in Chk |-> IF status[c] = "open" THEN "cleared"
                                                      ELSE status[c]]
    /\ snap' = [c \in Chk |-> NoSnap]
    /\ UNCHANGED <<disk, author, seen>>

(* The mode on again: state-start hooks every buffer there is.             *)
ModeOn ==
    /\ ~enabled
    /\ enabled' = TRUE
    /\ buf' = [b \in Buffers |-> [buf[b] EXCEPT !.tracked = Live(b)]]
    /\ UNCHANGED <<disk, author, chkVars>>

AgentStep ==
    \/ \E a \in Agents, b \in Buffers :
        \/ Observe(a, b)
        \/ \E s \in Segs, w \in Words, g \in BOOLEAN : Edit(a, b, s, w, g)
    \/ \E c \in Chk :
        \/ \E b \in Buffers : CheckpointCreate(c, b)
        \/ CheckpointCommit(c)
        \/ CheckpointRollback(c)

Next ==
    \/ HumanStep /\ UNCHANGED chkVars
    \/ ForeignStep /\ UNCHANGED chkVars
    \/ AgentStep
    \/ ModeOff
    \/ ModeOn

Spec == Init /\ [][Next]_vars

-----------------------------------------------------------------------------
(* Every variable has its type, a snapshot is stored for exactly the open  *)
(* checkpoints, and none is open while the bridge is down                  *)
(* (emacs-operator-mode clears the table on its way out).                  *)
TypeOK ==
    /\ BuffersTypeOK
    /\ status \in [Chk -> Statuses]
    /\ snap \in [Chk -> Snapshot \cup {NoSnap}]
    /\ \A c \in Chk : (snap[c] = NoSnap) <=> (status[c] # "open")
    /\ \A c \in Chk : status[c] = "open" => enabled
    /\ seen \in [Agents -> [Buffers -> Observation]]

(* What an observation showed is what is there as long as its tick is the  *)
(* buffer's: no change, by anyone, through any path (rollback included),   *)
(* leaves the tick standing or brings an old tick back, and narrowing or   *)
(* widening in between moves the view and not the text.  This is what      *)
(* makes expected_buffer_tick worth sending.                               *)
SeenIsFresh ==
    \A a \in Agents, b \in Buffers :
        Live(b) /\ seen[a][b].tick = buf[b].tick =>
            \A s \in seen[a][b].range : seen[a][b].text[s] = buf[b].text[s]

(* An edit sent with the tick of an observation does what its agent        *)
(* planned: all the agent saw is afterwards as it saw it, but for the      *)
(* region it wrote, whatever the human, the other agents and their         *)
(* rollbacks did in between (check-precondition in edit.apply).  Nothing   *)
(* is promised of text it did not see, which the tick does not protect     *)
(* from being overwritten unseen.                                          *)
GuardedEditIsAsPlanned ==
    [][\A a \in Agents, b \in Buffers, s \in Segs, w \in Words :
        Edit(a, b, s, w, TRUE) =>
            \A r \in seen[a][b].range :
                buf'[b].text[r] = IF r = s THEN w ELSE seen[a][b].text[r]]_vars

RolledBack(c) == status[c] = "open" /\ status'[c] = "rolled_back"

(* A rollback never takes back what the human wrote: in a buffer whose     *)
(* changes the hook was counting when the checkpoint was taken, a region   *)
(* the human was the last to change, inside the portion the checkpoint     *)
(* covers, comes out of checkpoint.rollback as it went in.                 *)
RollbackKeepsHumanText ==
    [][\A c \in Chk : RolledBack(c) /\ snap[c].tracked =>
        \A s \in snap[c].range :
            author[snap[c].buffer][s] = "human" =>
                buf'[snap[c].buffer].text[s] = buf[snap[c].buffer].text[s]]_vars

(* Setting the modified flag from the snapshot does not tell Emacs that    *)
(* unsaved text is saved: after a rollback of a whole-buffer checkpoint    *)
(* of the file the buffer still visits, a flag that was truthful when the  *)
(* checkpoint was taken is truthful again.                                 *)
RollbackFlagIsHonest ==
    [][\A c \in Chk, b \in Buffers :
        /\ RolledBack(c)
        /\ snap[c].buffer = b
        /\ snap[c].range = Segs
        /\ snap[c].file = buf[b].file
        /\ snap[c].honest
        => HonestFlag(b)']_vars

(* The claim of the design document: a rollback restores the original text. *)
RollbackRestoresText ==
    [][\A c \in Chk : RolledBack(c) =>
            buf'[snap[c].buffer].text = snap[c].full]_vars

-----------------------------------------------------------------------------
(* The inductive strengthenings the proofs use.                            *)

(* Ticks only grow, so an observation is never ahead of the buffer.        *)
SeenInv ==
    \A a \in Agents, b \in Buffers :
        /\ buf[b].life = "unborn" => seen[a][b].tick = 0
        /\ Live(b) => seen[a][b].tick <= buf[b].tick

(* While the human's count still equals the snapshot's, what the human was *)
(* the last to write in the covered portion is what the snapshot holds.    *)
SnapInv ==
    \A c \in Chk : status[c] = "open" =>
        LET b == snap[c].buffer IN
        /\ buf[b].life # "unborn"
        /\ Live(b) => snap[c].humanSeq <= buf[b].humanSeq
        /\ Live(b) /\ snap[c].tracked => buf[b].tracked
        /\ Live(b) /\ snap[c].tracked /\ snap[c].humanSeq = buf[b].humanSeq
              => \A s \in snap[c].range :
                    author[b][s] = "human" => buf[b].text[s] = snap[c].content[s]

(* A truthful flag and a whole-buffer snapshot: if the snapshot says the   *)
(* buffer was unmodified, its text is the file's.                          *)
SnapFlagInv ==
    \A c \in Chk :
        /\ status[c] = "open"
        /\ snap[c].range = Segs /\ snap[c].honest
        /\ snap[c].file # NoFile /\ ~snap[c].modified
        => snap[c].content = snap[c].fileText

=============================================================================
