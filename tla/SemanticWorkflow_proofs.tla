----------------------- MODULE SemanticWorkflow_proofs -----------------------
(***************************************************************************)
(* Theorems about Checkpoints and about SemanticWorkflow, which drives one *)
(* checkpoint from the outside.  The first part knows nothing of the       *)
(* workflow: its theorems hold of any agents, for every set of buffers,    *)
(* regions and checkpoints.  The second part shows that a workflow is one  *)
(* of those agents, so that they hold of it too, and what its answers mean *)
(* for every operation, whatever times out or drops.                       *)
(***************************************************************************)
EXTENDS SemanticWorkflow, SequenceTheorems, TLAPS

USE DEF Statuses, Sources

LEMMA BlankText == Empty \in Text
  BY BuffersAssumption DEF Empty, Text

(* The records that steps put in place of a buffer are buffers.            *)
LEMMA NewBufferType ==
  ASSUME NEW t \in Text, NEW f \in Files \cup {NoFile}, NEW h \in BOOLEAN
  PROVE  NewBuffer(t, f, h) \in Buffer
  BY DEF NewBuffer, Buffer

LEMMA UnbornType ==
  /\ Unborn \in Buffer
  /\ [Unborn EXCEPT !.life = "killed"] \in Buffer
  BY BlankText, NewBufferType DEF Unborn, NewBuffer, Buffer

(* Changed, field by field: only text, modified, tick and humanSeq move.   *)
LEMMA ChangedFields ==
  ASSUME BuffersTypeOK, NEW b \in Buffers, NEW t \in Text, NEW src \in Sources
  PROVE  /\ Changed(b, t, src) \in Buffer
         /\ Changed(b, t, src).life = buf[b].life
         /\ Changed(b, t, src).text = t
         /\ Changed(b, t, src).tick = buf[b].tick + 1
         /\ Changed(b, t, src).humanSeq = SeqAfter(b, src)
         /\ Changed(b, t, src).tracked = buf[b].tracked
         /\ Changed(b, t, src).file = buf[b].file
<1> DEFINE k == buf[b].tick + 1
           q == SeqAfter(b, src)
<1>1. buf[b] \in Buffer /\ k \in Nat /\ q \in Nat
  BY DEF BuffersTypeOK, SeqAfter, Buffer
<1>2. Changed(b, t, src) = [buf[b] EXCEPT !.text = t, !.modified = TRUE,
                                          !.tick = k, !.humanSeq = q]
  BY DEF Changed
<1> HIDE DEF k, q
<1>3. /\ Changed(b, t, src) \in Buffer
      /\ Changed(b, t, src).life = buf[b].life
      /\ Changed(b, t, src).text = t
      /\ Changed(b, t, src).tick = k
      /\ Changed(b, t, src).humanSeq = q
      /\ Changed(b, t, src).tracked = buf[b].tracked
      /\ Changed(b, t, src).file = buf[b].file
  BY <1>1, <1>2 DEF Buffer
<1> QED
  BY <1>3 DEF k, q

(* Fields that neither the change hook nor the tick knows about can be set *)
(* on top of it (revert-buffer, rollback).                                 *)
LEMMA Retouched ==
  ASSUME NEW r \in Buffer, NEW m \in BOOLEAN
  PROVE  LET y == [r EXCEPT !.visible = Segs, !.modified = m]
         IN /\ y \in Buffer /\ y.life = r.life /\ y.text = r.text
            /\ y.tick = r.tick /\ y.humanSeq = r.humanSeq
            /\ y.tracked = r.tracked /\ y.modified = m /\ y.file = r.file
  BY DEF Buffer

LEMMA HookType ==
  ASSUME NEW r \in Buffer, NEW h \in BOOLEAN
  PROVE  [r EXCEPT !.tracked = h] \in Buffer
  BY DEF Buffer

LEMMA WrittenType ==
  ASSUME BuffersTypeOK, NEW b \in Buffers, NEW f \in Files, WrittenTo(b, f)
  PROVE  BuffersTypeOK'
<1> DEFINE r == [buf[b] EXCEPT !.modified = FALSE, !.file = f]
<1>1. buf[b] \in Buffer /\ buf[b].text \in Text
  BY DEF BuffersTypeOK, Buffer
<1>2. r \in Buffer
  BY <1>1 DEF Buffer
<1>3. /\ disk' = [disk EXCEPT ![f] = buf[b].text] /\ buf' = [buf EXCEPT ![b] = r]
      /\ UNCHANGED <<enabled, author>>
  BY DEF WrittenTo
<1> HIDE DEF r
<1> QED
  BY <1>1, <1>2, <1>3 DEF BuffersTypeOK

LEMMA AttributeType ==
  ASSUME BuffersTypeOK, NEW b \in Buffers, NEW t \in Text, NEW src \in Sources,
         Attribute(b, t, src)
  PROVE  author' \in [Buffers -> [Segs -> Sources]]
  BY DEF BuffersTypeOK, Attribute

LEMMA SnapshotType ==
  ASSUME BuffersTypeOK, NEW b \in Buffers
  PROVE  SnapshotOf(b) \in Snapshot
<1>1. Accessible(b) \in Text
  BY BuffersAssumption DEF BuffersTypeOK, Accessible, Part, Buffer, Text
<1>2. FileText(buf[b].file) \in Text
  BY BlankText DEF BuffersTypeOK, FileText, Buffer
<1>3. HonestFlag(b) \in BOOLEAN
  BY DEF HonestFlag
<1> QED
  BY <1>1, <1>2, <1>3 DEF BuffersTypeOK, SnapshotOf, Snapshot, Buffer

LEMMA WriteRegionType ==
  ASSUME BuffersTypeOK, NEW b \in Buffers, NEW s \in Segs, NEW w \in Words,
         NEW src \in Sources, WriteRegion(b, s, w, src)
  PROVE  BuffersTypeOK'
<1> DEFINE t == [buf[b].text EXCEPT ![s] = w]
<1>1. t \in Text
  BY DEF BuffersTypeOK, Buffer, Text
<1>2. /\ buf' = [buf EXCEPT ![b] = Changed(b, t, src)]
      /\ Attribute(b, t, src)
      /\ disk' = disk /\ enabled' = enabled
  BY DEF WriteRegion
<1> HIDE DEF t
<1>3. Changed(b, t, src) \in Buffer
  BY <1>1, ChangedFields
<1>4. author' \in [Buffers -> [Segs -> Sources]]
  BY <1>1, <1>2, AttributeType
<1> QED
  BY <1>2, <1>3, <1>4 DEF BuffersTypeOK

-----------------------------------------------------------------------------
(* Every step puts buffers where buffers were.                             *)
LEMMA HumanStepType ==
  ASSUME BuffersTypeOK, HumanStep
  PROVE  BuffersTypeOK'
<1>1. PICK b \in Buffers :
        \/ \E s \in Segs, w \in Words : HumanEdit(b, s, w)
        \/ \E region \in SUBSET Segs : Narrow(b, region)
        \/ Save(b)
        \/ \E f \in Files : WriteFile(b, f)
        \/ Revert(b)
        \/ Kill(b)
        \/ \E f \in Files : FindFile(b, f)
        \/ GetBufferCreate(b)
        \/ SetMajorMode(b)
  BY DEF HumanStep
<1>2. ASSUME NEW s \in Segs, NEW w \in Words, HumanEdit(b, s, w)
      PROVE  BuffersTypeOK'
  BY <1>2, WriteRegionType DEF HumanEdit
<1>3. ASSUME NEW region \in SUBSET Segs, Narrow(b, region)
      PROVE  BuffersTypeOK'
  <2> DEFINE r == [buf[b] EXCEPT !.visible = region]
  <2>1. buf[b] \in Buffer
    BY DEF BuffersTypeOK
  <2>2. r \in Buffer
    BY <2>1 DEF Buffer
  <2>3. buf' = [buf EXCEPT ![b] = r] /\ UNCHANGED <<disk, enabled, author>>
    BY <1>3 DEF Narrow
  <2> HIDE DEF r
  <2> QED
    BY <2>2, <2>3 DEF BuffersTypeOK
<1>4. CASE Save(b)
  <2>1. buf[b].file \in Files
    BY <1>4 DEF Save, Visits, BuffersTypeOK, Buffer
  <2> QED
    BY <1>4, <2>1, WrittenType DEF Save
<1>5. ASSUME NEW f \in Files, WriteFile(b, f)
      PROVE  BuffersTypeOK'
  BY <1>5, WrittenType DEF WriteFile
<1>6. CASE Revert(b)
  <2> DEFINE t == disk[buf[b].file]
  <2>1. t \in Text
    BY <1>6 DEF Revert, Visits, BuffersTypeOK, Buffer
  <2>2. buf' = [buf EXCEPT ![b] = [Changed(b, t, "human") EXCEPT
                  !.visible = Segs, !.modified = FALSE]]
    BY <1>6 DEF Revert
  <2>3. Attribute(b, t, "human") /\ disk' = disk /\ enabled' = enabled
    BY <1>6 DEF Revert
  <2> HIDE DEF t
  <2>4. author' \in [Buffers -> [Segs -> Sources]]
    BY <2>1, <2>3, AttributeType
  <2>5. [Changed(b, t, "human") EXCEPT !.visible = Segs,
                                       !.modified = FALSE] \in Buffer
    BY <2>1, ChangedFields, Retouched
  <2> QED
    BY <2>2, <2>3, <2>4, <2>5 DEF BuffersTypeOK
<1>7. CASE Kill(b)
  BY <1>7, UnbornType DEF Kill, BuffersTypeOK
<1>8. ASSUME NEW f \in Files, FindFile(b, f)
      PROVE  BuffersTypeOK'
  <2>1. NewBuffer(disk[f], f, enabled) \in Buffer
    BY NewBufferType DEF BuffersTypeOK
  <2> QED
    BY <1>8, <2>1 DEF FindFile, BuffersTypeOK
<1>9. CASE GetBufferCreate(b)
  <2>1. NewBuffer(Empty, NoFile, FALSE) \in Buffer
    BY NewBufferType, BlankText
  <2> QED
    BY <1>9, <2>1 DEF GetBufferCreate, BuffersTypeOK
<1>10. CASE SetMajorMode(b)
  <2> DEFINE r == [buf[b] EXCEPT !.tracked = TRUE]
  <2>1. r \in Buffer
    BY DEF BuffersTypeOK, Buffer
  <2>2. buf' = [buf EXCEPT ![b] = r] /\ UNCHANGED <<disk, enabled, author>>
    BY <1>10 DEF SetMajorMode
  <2> HIDE DEF r
  <2> QED
    BY <2>1, <2>2 DEF BuffersTypeOK
<1> QED
  BY <1>1, <1>2, <1>3, <1>4, <1>5, <1>6, <1>7, <1>8, <1>9, <1>10

LEMMA ForeignStepType ==
  ASSUME BuffersTypeOK, ForeignStep
  PROVE  BuffersTypeOK'
<1>1. PICK f \in Files, t \in InitTexts : ExternalWrite(f, t)
  BY DEF ForeignStep
<1>2. t \in Text
  BY BuffersAssumption
<1>3. buf' \in [Buffers -> Buffer]
  BY <1>1 DEF ExternalWrite, BuffersTypeOK, Buffer
<1> QED
  BY <1>1, <1>2, <1>3 DEF ExternalWrite, BuffersTypeOK

(* A rollback leaves a well-typed buffer: its one change is a change under *)
(* source rpc to the snapshot's text.                                      *)
LEMMA RollbackFacts ==
  ASSUME TypeOK, NEW c \in Chk, CheckpointRollback(c)
  PROVE  LET b == snap[c].buffer IN
         /\ b \in Buffers /\ Live(b) /\ snap[c] \in Snapshot
         /\ snap[c].humanSeq = buf[b].humanSeq
         /\ buf' = [buf EXCEPT ![b] = RolledBackBuffer(c)]
         /\ RolledBackBuffer(c) \in Buffer
         /\ RolledBackBuffer(c).life = buf[b].life
         /\ RolledBackBuffer(c).text = snap[c].content
         /\ RolledBackBuffer(c).tick = buf[b].tick + 1
         /\ RolledBackBuffer(c).humanSeq = buf[b].humanSeq
         /\ RolledBackBuffer(c).tracked = buf[b].tracked
         /\ RolledBackBuffer(c).modified = snap[c].modified
         /\ RolledBackBuffer(c).file = buf[b].file
         /\ Attribute(b, snap[c].content, "rpc")
         /\ author' \in [Buffers -> [Segs -> Sources]]
<1> DEFINE b == snap[c].buffer
           t == snap[c].content
           m == snap[c].modified
           r == Changed(b, t, "rpc")
<1>1. status[c] = "open" /\ snap[c] \in Snapshot
  BY DEF CheckpointRollback, TypeOK
<1>2. b \in Buffers /\ t \in Text /\ m \in BOOLEAN
  BY <1>1 DEF Snapshot
<1>3. /\ Live(b) /\ snap[c].humanSeq = buf[b].humanSeq
      /\ buf' = [buf EXCEPT ![b] = RolledBackBuffer(c)]
      /\ Attribute(b, t, "rpc")
  BY DEF CheckpointRollback, RollbackAllowed
<1>4. RolledBackBuffer(c) = [r EXCEPT !.visible = Segs, !.modified = m]
  BY DEF RolledBackBuffer
<1>5. SeqAfter(b, "rpc") = buf[b].humanSeq
  BY DEF SeqAfter
<1> HIDE DEF b, t, m
<1>6. BuffersTypeOK
  BY DEF TypeOK
<1>7. /\ r \in Buffer /\ r.life = buf[b].life /\ r.text = t
      /\ r.tick = buf[b].tick + 1 /\ r.humanSeq = SeqAfter(b, "rpc")
      /\ r.tracked = buf[b].tracked /\ r.file = buf[b].file
  BY <1>2, <1>6, ChangedFields
<1> HIDE DEF r
<1>8. /\ RolledBackBuffer(c) \in Buffer
      /\ RolledBackBuffer(c).life = buf[b].life
      /\ RolledBackBuffer(c).text = t
      /\ RolledBackBuffer(c).tick = buf[b].tick + 1
      /\ RolledBackBuffer(c).humanSeq = buf[b].humanSeq
      /\ RolledBackBuffer(c).tracked = buf[b].tracked
      /\ RolledBackBuffer(c).modified = m
      /\ RolledBackBuffer(c).file = buf[b].file
  <2> DEFINE y == [r EXCEPT !.visible = Segs, !.modified = m]
  <2>1. /\ y \in Buffer /\ y.life = r.life /\ y.text = r.text
        /\ y.tick = r.tick /\ y.humanSeq = r.humanSeq
        /\ y.tracked = r.tracked /\ y.modified = m /\ y.file = r.file
    BY <1>2, <1>7, Retouched
  <2>2. RolledBackBuffer(c) = y
    BY <1>4
  <2> HIDE DEF y
  <2> QED
    BY <2>1, <2>2, <1>5, <1>7
<1>9. author' \in [Buffers -> [Segs -> Sources]]
  BY <1>2, <1>3, <1>6, AttributeType
<1> QED
  BY <1>1, <1>2, <1>3, <1>8, <1>9 DEF b, t, m

LEMMA InitType == Init => TypeOK
<1> SUFFICES ASSUME Init PROVE TypeOK
  OBVIOUS
<1>1. disk \in [Files -> Text]
  BY BuffersAssumption DEF Init, BuffersInit
<1>2. \A f \in Files : NewBuffer(disk[f], f, TRUE) \in Buffer
  BY <1>1, NewBufferType
<1>3. NewBuffer(Empty, NoFile, TRUE) \in Buffer
  BY BlankText, NewBufferType
<1>4. buf \in [Buffers -> Buffer]
  <2> DEFINE F == {Unborn, NewBuffer(Empty, NoFile, TRUE)} \cup
                  {NewBuffer(disk[f], f, TRUE) : f \in Files}
  <2>1. buf \in [Buffers -> F]
    BY DEF Init, BuffersInit
  <2>2. F \subseteq Buffer
    BY <1>2, <1>3, UnbornType
  <2> HIDE DEF F
  <2> QED
    BY <2>1, <2>2
<1>5. BuffersTypeOK
  BY <1>1, <1>4 DEF Init, BuffersInit, BuffersTypeOK
<1> QED
  BY <1>5, BlankText DEF Init, TypeOK, Observation

LEMMA NextType == TypeOK /\ [Next]_vars => TypeOK'
<1> SUFFICES ASSUME TypeOK, [Next]_vars PROVE TypeOK'
  OBVIOUS
<1> USE DEF TypeOK
<1>1. CASE HumanStep /\ UNCHANGED chkVars
  <2>1. BuffersTypeOK' /\ enabled' = enabled
    BY <1>1, HumanStepType DEF HumanStep, HumanEdit, WriteRegion, Narrow, Save,
       WriteFile, WrittenTo, Revert, Kill, FindFile, GetBufferCreate, SetMajorMode
  <2> QED
    BY <1>1, <2>1 DEF chkVars
<1>2. CASE ForeignStep /\ UNCHANGED chkVars
  <2>1. BuffersTypeOK' /\ enabled' = enabled
    BY <1>2, ForeignStepType DEF ForeignStep, ExternalWrite
  <2> QED
    BY <1>2, <2>1 DEF chkVars
<1>3. ASSUME NEW a \in Agents, NEW b \in Buffers, Observe(a, b)
      PROVE  TypeOK'
  <2>1. ASSUME NEW range \in SUBSET buf[b].visible
        PROVE  [tick |-> buf[b].tick, range |-> range, text |-> Part(b, range)]
                  \in Observation
    BY <2>1, BuffersAssumption DEF BuffersTypeOK, Buffer, Observation, Part, Text
  <2> QED
    BY <1>3, <2>1 DEF Observe, emacsVars, BuffersTypeOK
<1>4. ASSUME NEW a \in Agents, NEW b \in Buffers, NEW s \in Segs,
             NEW w \in Words, NEW g \in BOOLEAN, Edit(a, b, s, w, g)
      PROVE  TypeOK'
  <2>1. BuffersTypeOK' /\ enabled' = enabled
    BY <1>4, WriteRegionType DEF Edit, WriteRegion
  <2> QED
    BY <1>4, <2>1 DEF Edit, chkVars
<1>5. ASSUME NEW c \in Chk, NEW b \in Buffers, CheckpointCreate(c, b)
      PROVE  TypeOK'
  <2>1. SnapshotOf(b) \in Snapshot
    BY SnapshotType
  <2>2. SnapshotOf(b) # NoSnap
    BY <2>1, CheckpointsAssumption
  <2> QED
    BY <1>5, <2>1, <2>2 DEF CheckpointCreate, emacsVars, BuffersTypeOK
<1>6. ASSUME NEW c \in Chk, CheckpointCommit(c)
      PROVE  TypeOK'
  BY <1>6 DEF CheckpointCommit, emacsVars, BuffersTypeOK
<1>7. ASSUME NEW c \in Chk, CheckpointRollback(c)
      PROVE  TypeOK'
  <2>1. BuffersTypeOK' /\ enabled' = enabled
    BY <1>7, RollbackFacts DEF BuffersTypeOK, CheckpointRollback
  <2> QED
    BY <1>7, <2>1 DEF CheckpointRollback
<1> DEFINE Hook(b, h) == [buf[b] EXCEPT !.tracked = h]
<1>h. ASSUME NEW b \in Buffers, NEW h \in BOOLEAN
      PROVE  Hook(b, h) \in Buffer
  <2>1. buf[b] \in Buffer
    BY DEF BuffersTypeOK
  <2> QED
    BY <2>1, HookType
<1>8. CASE ModeOff
  <2>1. buf' = [b \in Buffers |-> Hook(b, FALSE)]
    BY <1>8 DEF ModeOff
  <2> HIDE DEF Hook
  <2>2. buf' \in [Buffers -> Buffer]
    BY <1>h, <2>1
  <2> QED
    BY <1>8, <2>2 DEF ModeOff, BuffersTypeOK
<1>9. CASE ModeOn
  <2>1. buf' = [b \in Buffers |-> Hook(b, Live(b))]
    BY <1>9 DEF ModeOn
  <2>2. \A b \in Buffers : Live(b) \in BOOLEAN
    BY DEF Live
  <2> HIDE DEF Hook
  <2>3. buf' \in [Buffers -> Buffer]
    BY <1>h, <2>1, <2>2
  <2> QED
    BY <1>9, <2>3 DEF ModeOn, BuffersTypeOK, chkVars
<1>10. CASE UNCHANGED vars
  BY <1>10 DEF vars, emacsVars, chkVars, BuffersTypeOK
<1> QED
  BY <1>1, <1>2, <1>3, <1>4, <1>5, <1>6, <1>7, <1>8, <1>9, <1>10
     DEF Next, AgentStep

(* Every variable keeps its type, snapshots are stored for exactly the     *)
(* open checkpoints, and none is open while the bridge is down.            *)
THEOREM TypeCorrect == Spec => []TypeOK
  BY InitType, NextType, PTL DEF Spec

-----------------------------------------------------------------------------
(* What a step can do to one buffer, as far as text, tick and the human's  *)
(* count go.                                                               *)
Kept(b) ==
    /\ buf'[b].life = buf[b].life
    /\ buf'[b].text = buf[b].text
    /\ buf'[b].tick = buf[b].tick
    /\ buf'[b].humanSeq = buf[b].humanSeq
    /\ Live(b) /\ buf[b].tracked => buf'[b].tracked
    /\ author'[b] = author[b]

Altered(b, src) ==
    /\ Live(b)
    /\ buf'[b].life = buf[b].life
    /\ buf'[b].tick = buf[b].tick + 1
    /\ buf'[b].humanSeq = SeqAfter(b, src)
    /\ buf'[b].tracked = buf[b].tracked
    /\ \A s \in Segs : \/ author'[b][s] = src
                       \/ /\ author'[b][s] = author[b][s]
                          /\ buf'[b].text[s] = buf[b].text[s]

Born(b) == buf[b].life = "unborn" /\ buf'[b].life = "live" /\ buf'[b].tick = 1

Died(b) == Live(b) /\ buf'[b].life = "killed"

Evolves(b) ==
    Kept(b) \/ Altered(b, "human") \/ Altered(b, "rpc") \/ Born(b) \/ Died(b)

LEMMA AlteredBy ==
  ASSUME BuffersTypeOK, NEW b \in Buffers, NEW t \in Text, NEW src \in Sources,
         Live(b), Attribute(b, t, src),
         NEW r, buf' = [buf EXCEPT ![b] = r],
         r.life = buf[b].life, r.text = t, r.tick = buf[b].tick + 1,
         r.humanSeq = SeqAfter(b, src), r.tracked = buf[b].tracked
  PROVE  /\ Altered(b, src)
         /\ \A x \in Buffers \ {b} : Kept(x)
<1>1. buf'[b] = r /\ \A x \in Buffers \ {b} : buf'[x] = buf[x]
  BY DEF BuffersTypeOK
<1>2. /\ \A x \in Buffers \ {b} : author'[x] = author[x]
      /\ author'[b] = [s \in Segs |-> IF t[s] = buf[b].text[s]
                                      THEN author[b][s] ELSE src]
  BY DEF BuffersTypeOK, Attribute
<1>3. \A s \in Segs : \/ author'[b][s] = src
                      \/ /\ author'[b][s] = author[b][s]
                         /\ buf'[b].text[s] = buf[b].text[s]
  BY <1>1, <1>2
<1>4. \A x \in Buffers \ {b} : Kept(x)
  BY <1>1, <1>2 DEF Kept
<1>5. Altered(b, src)
  BY <1>1, <1>3 DEF Altered
<1> QED
  BY <1>4, <1>5

LEMMA WriteRegionEvolves ==
  ASSUME BuffersTypeOK, NEW b \in Buffers, NEW s \in Segs, NEW w \in Words,
         NEW src \in Sources, WriteRegion(b, s, w, src)
  PROVE  Altered(b, src) /\ \A x \in Buffers \ {b} : Kept(x)
<1> DEFINE t == [buf[b].text EXCEPT ![s] = w]
<1>1. t \in Text
  BY DEF BuffersTypeOK, Buffer, Text
<1>2. /\ Live(b)
      /\ buf' = [buf EXCEPT ![b] = Changed(b, t, src)]
      /\ Attribute(b, t, src)
  BY DEF WriteRegion
<1> HIDE DEF t
<1> DEFINE r == Changed(b, t, src)
<1>3. /\ r.life = buf[b].life /\ r.text = t /\ r.tick = buf[b].tick + 1
      /\ r.humanSeq = SeqAfter(b, src) /\ r.tracked = buf[b].tracked
  BY <1>1, ChangedFields
<1>4. buf' = [buf EXCEPT ![b] = r]
  BY <1>2
<1> HIDE DEF r
<1> QED
  BY <1>1, <1>2, <1>3, <1>4, AlteredBy

LEMMA HumanStepEvolves ==
  ASSUME BuffersTypeOK, HumanStep
  PROVE  \A x \in Buffers : Evolves(x)
<1>1. PICK b \in Buffers :
        \/ \E s \in Segs, w \in Words : HumanEdit(b, s, w)
        \/ \E region \in SUBSET Segs : Narrow(b, region)
        \/ Save(b)
        \/ \E f \in Files : WriteFile(b, f)
        \/ Revert(b)
        \/ Kill(b)
        \/ \E f \in Files : FindFile(b, f)
        \/ GetBufferCreate(b)
        \/ SetMajorMode(b)
  BY DEF HumanStep
<1>2. ASSUME NEW s \in Segs, NEW w \in Words, HumanEdit(b, s, w)
      PROVE  \A x \in Buffers : Evolves(x)
  BY <1>2, WriteRegionEvolves DEF HumanEdit, Evolves
<1>3. ASSUME NEW region \in SUBSET Segs, Narrow(b, region)
      PROVE  \A x \in Buffers : Evolves(x)
  BY <1>3 DEF Narrow, BuffersTypeOK, Buffer, Evolves, Kept
<1>w. ASSUME NEW f \in Files, WrittenTo(b, f)
      PROVE  \A x \in Buffers : Evolves(x)
  BY <1>w DEF WrittenTo, BuffersTypeOK, Buffer, Evolves, Kept
<1>4. CASE Save(b)
  <2>1. buf[b].file \in Files
    BY <1>4 DEF Save, Visits, BuffersTypeOK, Buffer
  <2> QED
    BY <1>4, <1>w, <2>1 DEF Save
<1>5. ASSUME NEW f \in Files, WriteFile(b, f)
      PROVE  \A x \in Buffers : Evolves(x)
  BY <1>5, <1>w DEF WriteFile
<1>6. CASE Revert(b)
  <2> DEFINE t == disk[buf[b].file]
             q == Changed(b, t, "human")
             r == [q EXCEPT !.visible = Segs, !.modified = FALSE]
  <2>1. t \in Text
    BY <1>6 DEF Revert, Visits, BuffersTypeOK, Buffer
  <2>2. Live(b) /\ buf' = [buf EXCEPT ![b] = r] /\ Attribute(b, t, "human")
    BY <1>6 DEF Revert
  <2> HIDE DEF t
  <2>q. /\ q \in Buffer /\ q.life = buf[b].life /\ q.text = t
        /\ q.tick = buf[b].tick + 1 /\ q.humanSeq = SeqAfter(b, "human")
        /\ q.tracked = buf[b].tracked
    BY <2>1, ChangedFields
  <2> HIDE DEF q
  <2>r. /\ r.life = q.life /\ r.text = q.text /\ r.tick = q.tick
        /\ r.humanSeq = q.humanSeq /\ r.tracked = q.tracked
    BY <2>q, Retouched
  <2> HIDE DEF r
  <2>3. /\ r.life = buf[b].life /\ r.text = t /\ r.tick = buf[b].tick + 1
        /\ r.humanSeq = SeqAfter(b, "human") /\ r.tracked = buf[b].tracked
    BY <2>q, <2>r
  <2>4. Altered(b, "human") /\ \A x \in Buffers \ {b} : Kept(x)
    BY <2>1, <2>2, <2>3, AlteredBy
  <2> QED
    BY <2>4 DEF Evolves
<1>7. CASE Kill(b)
  BY <1>7 DEF Kill, BuffersTypeOK, Evolves, Died, Kept, Unborn, NewBuffer
<1>8. ASSUME NEW f \in Files, FindFile(b, f)
      PROVE  \A x \in Buffers : Evolves(x)
  BY <1>8 DEF FindFile, BuffersTypeOK, Evolves, Born, Kept, NewBuffer
<1>9. CASE GetBufferCreate(b)
  BY <1>9 DEF GetBufferCreate, BuffersTypeOK, Evolves, Born, Kept, NewBuffer
<1>10. CASE SetMajorMode(b)
  BY <1>10 DEF SetMajorMode, BuffersTypeOK, Buffer, Evolves, Kept
<1> QED
  BY <1>1, <1>2, <1>3, <1>4, <1>5, <1>6, <1>7, <1>8, <1>9, <1>10

LEMMA ForeignStepEvolves ==
  ASSUME BuffersTypeOK, ForeignStep
  PROVE  \A x \in Buffers : Evolves(x)
  BY DEF ForeignStep, ExternalWrite, BuffersTypeOK, Buffer, Evolves, Kept

LEMMA RollbackEvolves ==
  ASSUME TypeOK, NEW c \in Chk, CheckpointRollback(c)
  PROVE  /\ Altered(snap[c].buffer, "rpc")
         /\ \A x \in Buffers \ {snap[c].buffer} : Kept(x)
<1> DEFINE b == snap[c].buffer
           r == RolledBackBuffer(c)
           t == snap[c].content
<1>1. /\ b \in Buffers /\ Live(b) /\ t \in Text
      /\ buf' = [buf EXCEPT ![b] = r]
      /\ Attribute(b, t, "rpc")
  BY RollbackFacts DEF Snapshot
<1>2. /\ r.life = buf[b].life /\ r.text = t /\ r.tick = buf[b].tick + 1
      /\ r.humanSeq = SeqAfter(b, "rpc") /\ r.tracked = buf[b].tracked
  BY RollbackFacts DEF SeqAfter
<1>3. BuffersTypeOK
  BY DEF TypeOK
<1> HIDE DEF b, r, t
<1>4. Altered(b, "rpc") /\ \A x \in Buffers \ {b} : Kept(x)
  BY <1>1, <1>2, <1>3, AlteredBy
<1> QED
  BY <1>4 DEF b

(* What a step does to every buffer, while the mode stays on or off.       *)
LEMMA NextEvolves ==
  ASSUME TypeOK, [Next]_vars, ~ModeOff
  PROVE  \A x \in Buffers : Evolves(x)
<1>1. BuffersTypeOK
  BY DEF TypeOK
<1>2. CASE HumanStep
  BY <1>1, <1>2, HumanStepEvolves
<1>3. CASE ForeignStep
  BY <1>1, <1>3, ForeignStepEvolves
<1>4. ASSUME UNCHANGED emacsVars
      PROVE  \A x \in Buffers : Evolves(x)
  BY <1>4 DEF emacsVars, Evolves, Kept
<1>5. ASSUME NEW a \in Agents, NEW b \in Buffers, NEW s \in Segs,
             NEW w \in Words, NEW g \in BOOLEAN, Edit(a, b, s, w, g)
      PROVE  \A x \in Buffers : Evolves(x)
  BY <1>1, <1>5, WriteRegionEvolves DEF Edit, Evolves
<1>6. ASSUME NEW c \in Chk, CheckpointRollback(c)
      PROVE  \A x \in Buffers : Evolves(x)
  BY <1>6, RollbackEvolves DEF Evolves
<1>7. CASE ModeOn
  <2>1. ASSUME NEW x \in Buffers PROVE Kept(x)
    <3>1. /\ buf'[x] = [buf[x] EXCEPT !.tracked = Live(x)]
          /\ author' = author /\ buf[x] \in Buffer
      BY <1>1, <1>7 DEF ModeOn, BuffersTypeOK
    <3> QED
      BY <3>1 DEF Kept, Buffer, Live
  <2> QED
    BY <2>1 DEF Evolves
<1> QED
  BY <1>2, <1>3, <1>4, <1>5, <1>6, <1>7
     DEF Next, AgentStep, Observe, CheckpointCreate, CheckpointCommit, vars

-----------------------------------------------------------------------------
(* Observations stay fresh.                                                *)
SeenFresh == SeenInv /\ SeenIsFresh

LEMMA SeenInit == Init => SeenFresh
<1> SUFFICES ASSUME Init PROVE SeenFresh
  OBVIOUS
<1>1. TypeOK
  BY InitType
<1>2. \A a \in Agents, b \in Buffers : seen[a][b].tick = 0
  BY DEF Init
<1>3. \A b \in Buffers : Live(b) => buf[b].tick = 1
  BY DEF Init, BuffersInit, Live, Unborn, NewBuffer
<1> QED
  BY <1>1, <1>2, <1>3 DEF SeenFresh, SeenInv, SeenIsFresh

LEMMA SeenNext == TypeOK /\ SeenFresh /\ [Next]_vars => SeenFresh'
<1> SUFFICES ASSUME TypeOK, SeenFresh, [Next]_vars,
                    NEW a \in Agents, NEW b \in Buffers
             PROVE  /\ buf'[b].life = "unborn" => seen'[a][b].tick = 0
                    /\ buf'[b].life = "live" => seen'[a][b].tick <= buf'[b].tick
                    /\ buf'[b].life = "live" /\ seen'[a][b].tick = buf'[b].tick
                          => \A s \in seen'[a][b].range :
                                seen'[a][b].text[s] = buf'[b].text[s]
  BY DEF SeenFresh, SeenInv, SeenIsFresh, Live
<1>1. /\ buf[b].tick \in Nat /\ seen[a][b].tick \in Nat
      /\ seen \in [Agents -> [Buffers -> Observation]]
  BY DEF TypeOK, BuffersTypeOK, Buffer, Observation
<1>2. /\ buf[b].life = "unborn" => seen[a][b].tick = 0
      /\ buf[b].life = "live" => seen[a][b].tick <= buf[b].tick
      /\ buf[b].life = "live" /\ seen[a][b].tick = buf[b].tick
            => \A s \in seen[a][b].range : seen[a][b].text[s] = buf[b].text[s]
  BY DEF SeenFresh, SeenInv, SeenIsFresh, Live
<1>3. ASSUME NEW a2 \in Agents, NEW b2 \in Buffers, Observe(a2, b2)
      PROVE  /\ buf' = buf
             /\ \/ seen'[a][b] = seen[a][b]
                \/ /\ buf[b].life = "live"
                   /\ seen'[a][b].tick = buf[b].tick
                   /\ \A s \in seen'[a][b].range :
                        seen'[a][b].text[s] = buf[b].text[s]
  <2>1. PICK range \in SUBSET buf[b2].visible :
            seen' = [seen EXCEPT ![a2][b2] = [tick  |-> buf[b2].tick,
                                              range |-> range,
                                              text  |-> Part(b2, range)]]
    BY <1>3 DEF Observe
  <2>2. buf' = buf /\ Live(b2)
    BY <1>3 DEF Observe, emacsVars
  <2>3. \A s \in range : Part(b2, range)[s] = buf[b2].text[s]
    BY DEF Part, TypeOK, BuffersTypeOK, Buffer
  <2>4. CASE a = a2 /\ b = b2
    <3>1. seen'[a][b] = [tick |-> buf[b].tick, range |-> range, text |-> Part(b, range)]
      BY <1>1, <2>1, <2>4
    <3> QED
      BY <2>2, <2>3, <2>4, <3>1 DEF Live
  <2>5. CASE ~(a = a2 /\ b = b2)
    BY <1>1, <2>1, <2>2, <2>5
  <2> QED
    BY <2>4, <2>5
<1>4. CASE ModeOff
  <2>1. seen' = seen /\ buf' = [x \in Buffers |-> [buf[x] EXCEPT !.tracked = FALSE]]
    BY <1>4 DEF ModeOff
  <2>2. buf[b] \in Buffer
    BY DEF TypeOK, BuffersTypeOK
  <2>3. /\ buf'[b].life = buf[b].life /\ buf'[b].tick = buf[b].tick
        /\ buf'[b].text = buf[b].text
    BY <2>1, <2>2 DEF Buffer
  <2> QED
    BY <1>2, <2>1, <2>3
<1>5. ASSUME seen' = seen, ~ModeOff
      PROVE  /\ buf'[b].life = "unborn" => seen'[a][b].tick = 0
             /\ buf'[b].life = "live" => seen'[a][b].tick <= buf'[b].tick
             /\ buf'[b].life = "live" /\ seen'[a][b].tick = buf'[b].tick
                   => \A s \in seen'[a][b].range :
                         seen'[a][b].text[s] = buf'[b].text[s]
  <2>1. Evolves(b)
    BY <1>5, NextEvolves
  <2> QED
    BY <1>1, <1>2, <1>5, <2>1
       DEF Evolves, Kept, Altered, Born, Died, Live
<1>6. seen' = seen \/ \E a2 \in Agents, b2 \in Buffers : Observe(a2, b2)
  BY DEF Next, AgentStep, Edit, CheckpointCreate, CheckpointCommit,
         CheckpointRollback, ModeOff, ModeOn, vars, chkVars
<1> QED
  BY <1>1, <1>2, <1>3, <1>4, <1>5, <1>6

(* An observation that still has the buffer's tick shows what is there,    *)
(* for any number of agents and checkpoints and with no bound on the ticks *)
(* but the one the actions carry.                                          *)
THEOREM SeenIsAlwaysFresh == Spec => []SeenIsFresh
<1>1. Spec => [](TypeOK /\ SeenFresh)
  BY InitType, NextType, SeenInit, SeenNext, PTL DEF Spec
<1> QED
  BY <1>1, PTL DEF SeenFresh

(* What an agent saw is, after its guarded edit, as the agent planned.     *)
THEOREM GuardedEditsAreAsPlanned == Spec => GuardedEditIsAsPlanned
<1> DEFINE Planned ==
             \A a \in Agents, b \in Buffers, s \in Segs, w \in Words :
                Edit(a, b, s, w, TRUE) =>
                    \A r \in seen[a][b].range :
                        buf'[b].text[r] = IF r = s THEN w ELSE seen[a][b].text[r]
<1>1. TypeOK /\ SeenIsFresh => Planned
  <2> SUFFICES ASSUME TypeOK, SeenIsFresh,
                      NEW a \in Agents, NEW b \in Buffers,
                      NEW s \in Segs, NEW w \in Words, Edit(a, b, s, w, TRUE),
                      NEW r \in seen[a][b].range
               PROVE  buf'[b].text[r] = IF r = s THEN w ELSE seen[a][b].text[r]
    OBVIOUS
  <2>1. r \in Segs /\ buf[b].text \in Text /\ buf \in [Buffers -> Buffer]
    BY DEF TypeOK, BuffersTypeOK, Buffer, Observation
  <2>2. Live(b) /\ seen[a][b].tick = buf[b].tick
    BY DEF Edit, Precondition, WriteRegion
  <2>3. seen[a][b].text[r] = buf[b].text[r]
    BY <2>2 DEF SeenIsFresh
  <2>4. buf'[b].text = [buf[b].text EXCEPT ![s] = w]
    BY <2>1 DEF Edit, WriteRegion, Changed, Buffer
  <2> QED
    BY <2>1, <2>3, <2>4 DEF Text
<1>2. TypeOK /\ SeenIsFresh /\ [Next]_vars => [Planned]_vars
  BY <1>1
<1>3. Spec => []TypeOK
  BY TypeCorrect
<1> QED
  BY <1>2, <1>3, SeenIsAlwaysFresh, PTL DEF Spec, GuardedEditIsAsPlanned

-----------------------------------------------------------------------------
(* Where an open checkpoint can come from.                                 *)
LEMMA OpenBefore ==
  ASSUME TypeOK, [Next]_vars, NEW c \in Chk, status'[c] = "open"
  PROVE  \/ status[c] = "open" /\ snap'[c] = snap[c] /\ ~ModeOff
         \/ \E b \in Buffers : CheckpointCreate(c, b)
<1>1. CASE UNCHANGED <<status, snap>>
  <2>1. ~ModeOff
    BY <1>1 DEF ModeOff, TypeOK
  <2> QED
    BY <1>1, <2>1
<1>2. ASSUME NEW d \in Chk, NEW b \in Buffers, CheckpointCreate(d, b)
      PROVE  \/ status[c] = "open" /\ snap'[c] = snap[c] /\ ~ModeOff
             \/ CheckpointCreate(c, b)
  BY <1>2 DEF CheckpointCreate, TypeOK, ModeOff, emacsVars
<1>3. ASSUME NEW d \in Chk, CheckpointCommit(d)
      PROVE  status[c] = "open" /\ snap'[c] = snap[c] /\ ~ModeOff
  BY <1>3 DEF CheckpointCommit, TypeOK, ModeOff, emacsVars
<1>4. ASSUME NEW d \in Chk, CheckpointRollback(d)
      PROVE  status[c] = "open" /\ snap'[c] = snap[c] /\ ~ModeOff
  BY <1>4 DEF CheckpointRollback, TypeOK, ModeOff
<1>5. ~ModeOff
  BY DEF ModeOff, TypeOK
<1> QED
  BY <1>1, <1>2, <1>3, <1>4, <1>5
     DEF Next, AgentStep, Observe, Edit, ModeOn, chkVars, vars

LEMMA SnapNext == TypeOK /\ SnapInv /\ [Next]_vars => SnapInv'
<1> SUFFICES ASSUME TypeOK, SnapInv, [Next]_vars,
                    NEW c \in Chk, status'[c] = "open"
             PROVE  LET b == snap'[c].buffer IN
                    /\ buf'[b].life # "unborn"
                    /\ buf'[b].life = "live" => snap'[c].humanSeq <= buf'[b].humanSeq
                    /\ buf'[b].life = "live" /\ snap'[c].tracked => buf'[b].tracked
                    /\ /\ buf'[b].life = "live" /\ snap'[c].tracked
                       /\ snap'[c].humanSeq = buf'[b].humanSeq
                       => \A s \in snap'[c].range : author'[b][s] = "human"
                              => buf'[b].text[s] = snap'[c].content[s]
  BY DEF SnapInv, Live
<1>1. ASSUME NEW b \in Buffers, CheckpointCreate(c, b)
      PROVE  /\ snap'[c] = SnapshotOf(b) /\ buf' = buf /\ Live(b)
             /\ snap'[c].range \subseteq Segs
  BY <1>1 DEF CheckpointCreate, TypeOK, BuffersTypeOK, Buffer, SnapshotOf, emacsVars
<1>2. CASE \E b \in Buffers : CheckpointCreate(c, b)
  <2> PICK b \in Buffers : CheckpointCreate(c, b)
    BY <1>2
  <2>1. snap'[c] = SnapshotOf(b) /\ buf' = buf /\ Live(b)
    BY <1>1
  <2>2. /\ snap'[c].buffer = b /\ snap'[c].range = buf[b].visible
        /\ snap'[c].humanSeq = buf[b].humanSeq
        /\ snap'[c].tracked = buf[b].tracked
        /\ snap'[c].content = Accessible(b)
    BY <2>1 DEF SnapshotOf
  <2>3. buf[b] \in Buffer
    BY DEF TypeOK, BuffersTypeOK
  <2>4. \A s \in buf[b].visible : Accessible(b)[s] = buf[b].text[s]
    BY <2>3 DEF Accessible, Part, Buffer
  <2> QED
    BY <2>1, <2>2, <2>3, <2>4 DEF Buffer, Live
<1>3. CASE status[c] = "open" /\ snap'[c] = snap[c] /\ ~ModeOff
  <2> DEFINE b == snap[c].buffer
  <2>1. /\ b \in Buffers /\ snap[c].humanSeq \in Nat
        /\ snap[c].range \subseteq Segs /\ snap[c] \in Snapshot
    BY <1>3 DEF TypeOK, Snapshot
  <2>2. /\ buf[b].life # "unborn"
        /\ Live(b) => snap[c].humanSeq <= buf[b].humanSeq
        /\ Live(b) /\ snap[c].tracked => buf[b].tracked
        /\ Live(b) /\ snap[c].tracked /\ snap[c].humanSeq = buf[b].humanSeq
              => \A s \in snap[c].range : author[b][s] = "human"
                     => buf[b].text[s] = snap[c].content[s]
    BY <1>3 DEF SnapInv
  <2> HIDE DEF b
  <2>3. Evolves(b)
    BY <1>3, <2>1, NextEvolves
  <2>4. buf[b].humanSeq \in Nat
    BY <2>1 DEF TypeOK, BuffersTypeOK, Buffer
  <2>5. /\ buf'[b].life # "unborn"
        /\ buf'[b].life = "live" => snap[c].humanSeq <= buf'[b].humanSeq
        /\ buf'[b].life = "live" /\ snap[c].tracked => buf'[b].tracked
        /\ /\ buf'[b].life = "live" /\ snap[c].tracked
           /\ snap[c].humanSeq = buf'[b].humanSeq
           => \A s \in snap[c].range : author'[b][s] = "human"
                  => buf'[b].text[s] = snap[c].content[s]
    <3>1. CASE Kept(b)
      BY <2>2, <3>1 DEF Kept, Live
    <3>2. CASE Altered(b, "human")
      BY <2>1, <2>2, <2>4, <3>2 DEF Altered, SeqAfter, Live
    <3>3. CASE Altered(b, "rpc")
      BY <2>1, <2>2, <2>4, <3>3 DEF Altered, SeqAfter, Live
    <3>4. CASE Born(b) \/ Died(b)
      BY <2>2, <3>4 DEF Born, Died
    <3> QED
      BY <2>3, <3>1, <3>2, <3>3, <3>4 DEF Evolves
  <2> QED
    BY <1>3, <2>5 DEF b
<1> QED
  BY <1>2, <1>3, OpenBefore

LEMMA SnapFlagNext == TypeOK /\ SnapFlagInv /\ [Next]_vars => SnapFlagInv'
<1> SUFFICES ASSUME TypeOK, SnapFlagInv, [Next]_vars,
                    NEW c \in Chk, status'[c] = "open",
                    snap'[c].range = Segs, snap'[c].honest,
                    snap'[c].file # NoFile, ~snap'[c].modified
             PROVE  snap'[c].content = snap'[c].fileText
  BY DEF SnapFlagInv
<1>1. ASSUME NEW b \in Buffers, CheckpointCreate(c, b)
      PROVE  snap'[c].content = snap'[c].fileText
  <2>1. snap'[c] = SnapshotOf(b) /\ buf[b] \in Buffer
    BY <1>1 DEF CheckpointCreate, TypeOK, BuffersTypeOK
  <2>h. snap'[c].honest = HonestFlag(b)
    BY <2>1 DEF SnapshotOf
  <2>m. /\ snap'[c].range = buf[b].visible /\ snap'[c].file = buf[b].file
        /\ snap'[c].modified = buf[b].modified
    BY <2>1 DEF SnapshotOf
  <2>2. buf[b].visible = Segs /\ buf[b].text = disk[buf[b].file]
    BY <2>h, <2>m DEF HonestFlag, Visits
  <2>3. Accessible(b) = buf[b].text
    BY <2>1, <2>2 DEF Accessible, Part, Buffer, Text
  <2>4. snap'[c].content = Accessible(b) /\ snap'[c].fileText = FileText(buf[b].file)
    BY <2>1 DEF SnapshotOf
  <2> QED
    BY <2>2, <2>3, <2>4, <2>m DEF FileText
<1>2. CASE status[c] = "open" /\ snap'[c] = snap[c]
  BY <1>2 DEF SnapFlagInv
<1>3. \/ status[c] = "open" /\ snap'[c] = snap[c]
      \/ \E b \in Buffers : CheckpointCreate(c, b)
  BY OpenBefore
<1> QED
  BY <1>1, <1>2, <1>3

LEMMA RolledBackBy ==
  ASSUME TypeOK, [Next]_vars, NEW c \in Chk, RolledBack(c)
  PROVE  CheckpointRollback(c)
<1>1. ASSUME NEW d \in Chk, CheckpointRollback(d) PROVE c = d
  BY <1>1 DEF CheckpointRollback, RolledBack, TypeOK
<1>2. ~ \E d \in Chk, b \in Buffers : CheckpointCreate(d, b)
  BY DEF CheckpointCreate, RolledBack, TypeOK
<1>3. ~ \E d \in Chk : CheckpointCommit(d)
  BY DEF CheckpointCommit, RolledBack, TypeOK
<1>4. ~ModeOff
  BY DEF ModeOff, RolledBack, TypeOK
<1>5. status' # status
  BY DEF RolledBack
<1> QED
  BY <1>1, <1>2, <1>3, <1>4, <1>5
     DEF Next, AgentStep, Observe, Edit, ModeOn, chkVars, vars

(* Rollback never takes back what the human wrote into a buffer whose      *)
(* changes were being counted when the checkpoint was taken.               *)
THEOREM HumanTextSurvivesRollback == Spec => RollbackKeepsHumanText
<1> DEFINE Keeps == \A c \in Chk : RolledBack(c) /\ snap[c].tracked =>
        \A s \in snap[c].range :
            author[snap[c].buffer][s] = "human" =>
                buf'[snap[c].buffer].text[s] = buf[snap[c].buffer].text[s]
<1>1. Init => SnapInv
  BY DEF Init, SnapInv
<1>2. ASSUME TypeOK, SnapInv, [Next]_vars PROVE Keeps
  <2> SUFFICES ASSUME NEW c \in Chk, RolledBack(c), snap[c].tracked,
                      NEW s \in snap[c].range,
                      author[snap[c].buffer][s] = "human"
               PROVE  buf'[snap[c].buffer].text[s] = buf[snap[c].buffer].text[s]
    OBVIOUS
  <2>1. CheckpointRollback(c)
    BY <1>2, RolledBackBy
  <2>2. /\ Live(snap[c].buffer)
        /\ snap[c].humanSeq = buf[snap[c].buffer].humanSeq
        /\ buf'[snap[c].buffer].text = snap[c].content
    BY <1>2, <2>1, RollbackFacts DEF TypeOK, BuffersTypeOK
  <2> QED
    BY <1>2, <2>2 DEF SnapInv, RolledBack
<1>3. TypeOK /\ SnapInv /\ [Next]_vars => [Keeps]_vars
  BY <1>2
<1> QED
  BY <1>1, <1>3, InitType, NextType, SnapNext, PTL
     DEF Spec, RollbackKeepsHumanText

(* The modified flag a rollback sets tells the truth about the file.       *)
THEOREM RollbackFlagsAreHonest == Spec => RollbackFlagIsHonest
<1> DEFINE Honest == \A c \in Chk, b \in Buffers :
        /\ RolledBack(c)
        /\ snap[c].buffer = b
        /\ snap[c].range = Segs
        /\ snap[c].file = buf[b].file
        /\ snap[c].honest
        => HonestFlag(b)'
<1>1. Init => SnapFlagInv
  BY DEF Init, SnapFlagInv
<1>2. ASSUME TypeOK, SnapFlagInv, [Next]_vars PROVE Honest
  <2> SUFFICES ASSUME NEW c \in Chk, NEW b \in Buffers, RolledBack(c),
                      snap[c].buffer = b, snap[c].range = Segs,
                      snap[c].file = buf[b].file, snap[c].honest,
                      buf'[b].file # NoFile, ~buf'[b].modified
               PROVE  buf'[b].text = disk'[buf'[b].file]
    BY DEF HonestFlag, Visits
  <2>1. CheckpointRollback(c)
    BY <1>2, RolledBackBy
  <2>2. /\ buf'[b] = RolledBackBuffer(c)
        /\ RolledBackBuffer(c).text = snap[c].content
        /\ RolledBackBuffer(c).modified = snap[c].modified
        /\ RolledBackBuffer(c).file = buf[b].file
    BY <1>2, <2>1, RollbackFacts DEF TypeOK, BuffersTypeOK
  <2>3. snap[c].fileText = FileText(snap[c].file) /\ disk' = disk
    BY <2>1 DEF CheckpointRollback, RollbackAllowed
  <2>4. snap[c].content = snap[c].fileText
    BY <1>2, <2>2 DEF SnapFlagInv, RolledBack
  <2>5. snap[c].fileText = disk[buf[b].file] /\ buf'[b].file = buf[b].file
    BY <2>2, <2>3 DEF FileText
  <2> QED
    BY <2>2, <2>3, <2>4, <2>5
<1>3. TypeOK /\ SnapFlagInv /\ [Next]_vars => [Honest]_vars
  BY <1>2
<1> QED
  BY <1>1, <1>3, InitType, NextType, SnapFlagNext, PTL
     DEF Spec, RollbackFlagIsHonest

-----------------------------------------------------------------------------
(* The second part: emacs_workflow.  Its methods by what they do to the    *)
(* buffer.                                                                 *)
Reads == {"look", "bounds"}
Writes == {"edit", "edit_more", "rename"}
Changes == Writes \cup {"babel"}
BodyMethods == {"look", "validate", "identity", "eval"} \cup Changes
Methods == BodyMethods \cup {"bounds", "create", "commit", "rollback"}

(* What is left of a plan: one commit and two looks at its end, a          *)
(* validation after every change, and the checkpoint still ahead, before   *)
(* any change, as long as the coordinator does not hold it.                *)
PlanRest(t, n, h) ==
    /\ \A i \in 1..n :
          /\ t[i] # "rollback"
          /\ t[i] = "commit" <=> i = n - 2
          /\ i > n - 2 => t[i] = "look"
          /\ t[i] \in Changes => \E j \in (i + 1)..n : t[j] = "validate"
          /\ h => t[i] # "create"
    /\ ~h =>
          /\ \E j \in 1..n : t[j] = "validate"
          /\ \E c \in 1..n :
                /\ t[c] = "create"
                /\ \A i \in 1..(c - 1) : t[i] \in Reads
                /\ \A i \in (c + 1)..n : t[i] # "create"

PlanInv == PlanRest(todo, Len(todo), held)

(* What comes after the rollback: its closing look, and emacs_workflow's   *)
(* own.                                                                    *)
Closing == IF cause = "rejected" THEN 2 ELSE 1

UndoRest(t, n, k) ==
    /\ n <= k + 2
    /\ \A i \in 1..n : t[i] = IF i = n - k THEN "rollback" ELSE "look"

UndoInv == UndoRest(todo, Len(todo), Closing)

(* The coordinator: what it waits for, and which plan it follows.          *)
CallInv ==
    /\ todo \in Seq(Methods)
    /\ waiting \in BOOLEAN /\ held \in BOOLEAN /\ connected \in BOOLEAN
    /\ cause \in {"none", "rejected", "error"}
    /\ outcome \in Outcomes /\ reply \in Replies
    /\ (todo = <<>>) <=> (outcome # "none")
    /\ waiting => connected /\ outcome = "none"
    /\ reply # "none" => waiting
    /\ reply = "bad" => cause = "none" /\ held
    /\ cause # "none" => held
    /\ outcome = "none" /\ cause = "none" => PlanInv
    /\ outcome = "none" /\ cause # "none" => UndoInv
    /\ outcome = "committed" => cause = "none"
    /\ outcome = "rolled_back" => cause = "rejected"

(* The request that is waited for is the last on the wire, or being        *)
(* evaluated; a request given up may be ahead of it, but only until the    *)
(* look that follows it has been answered.                                 *)
Late == outcome = "none" /\ cause = "error" /\ Len(todo) = 3

WireInv ==
    /\ wire \in Seq(Methods) /\ Len(wire) <= 2
    /\ Len(wire) = 2 => wire[2] = "look"
    /\ evaluating \in {"no", "eval", "babel"}
    /\ evaluating # "no" => enabled
    /\ reply # "none" => wire = <<>>
    /\ waiting /\ reply = "none" =>
          \/ wire # <<>> /\ wire[Len(wire)] = todo[1]
          \/ wire = <<>> /\ evaluating = todo[1] /\ cause = "none"
    /\ outcome = "none" /\ ~waiting => Len(wire) <= 1
    /\ outcome = "none" /\ ~Late => Len(wire) <= 1 /\ (~waiting => wire = <<>>)
    /\ outcome = "none" /\ cause # "error" /\ evaluating # "no" =>
          waiting /\ reply = "none" /\ wire = <<>>
    /\ outcome \in {"committed", "rolled_back"} => wire = <<>> /\ evaluating = "no"

(* What the agent last wrote is what validation last accepted, or what an  *)
(* evaluation wrote.                                                       *)
Earned ==
    Live(target) =>
        /\ validated # NoText
        /\ \A s \in Segs : author[target][s] = "rpc" =>
                buf[target].text[s] \in {validated[s], Effect}

(* With no validation left to come the text is earned, and so it is when a *)
(* commit is about to be read.                                             *)
ValidInv ==
    /\ outcome = "none" /\ cause = "none" /\
       (\A i \in 1..Len(todo) : todo[i] = "validate" => i = 1 /\ reply = "ok")
          => Earned
    /\ wire # <<>> /\ wire[1] = "commit" => evaluating = "no" /\ Earned

(* None of the proposal is in the buffer: before the checkpoint is held,   *)
(* after its rollback, and in the snapshot.                                *)
NoProposal == Live(target) => \A s \in Segs : buf[target].text[s] # Proposal

QuietInv ==
    /\ ~held => /\ NoProposal /\ evaluating = "no"
                /\ wire # <<>> => wire[1] \in Reads \cup {"create"}
    /\ wire # <<>> /\ wire[1] = "create" => ~held
    /\ wire # <<>> /\ wire[1] = "rollback" => cause # "none"
    /\ status[chk] = "rolled_back" =>
          NoProposal /\ cause # "none" /\ (wire # <<>> => wire[1] \notin Writes)
    /\ status[chk] = "open" =>
          snap[chk].buffer = target /\ \A s \in Segs : snap[chk].content[s] # Proposal

(* Past the commit the checkpoint is committed, past the rollback it is    *)
(* rolled back, and so it is when the call is answered.                    *)
SettleInv ==
    /\ outcome = "none" /\ cause = "none" /\ (Len(todo) <= 2 \/ (Len(todo) = 3 /\ reply = "ok"))
          => status[chk] = "committed"
    /\ outcome = "none" /\ cause # "none" /\
       (Len(todo) <= Closing \/ (Len(todo) = Closing + 1 /\ reply = "ok"))
          => status[chk] = "rolled_back"
    /\ outcome \in {"committed", "rolled_back"} => status[chk] = outcome
    /\ outcome = "error" /\ held => status[chk] \in {"committed", "rolled_back"}

(* The inductive invariant of the workflow, together with TypeOK.          *)
IInv == CallInv /\ WireInv /\ ValidInv /\ QuietInv /\ SettleInv

(* A body that ends its changes with a validation.                         *)
WellValidated(b) ==
    /\ b \in Seq(BodyMethods)
    /\ \E j \in 1..Len(b) : b[j] = "validate"
    /\ \A i \in 1..Len(b) : b[i] \in Changes => \E j \in (i + 1)..Len(b) : b[j] = "validate"

(* Two sequences end to end.                                               *)
LEMMA Joined ==
  ASSUME NEW S, NEW a \in Seq(S), NEW b \in Seq(S)
  PROVE  /\ a \o b \in Seq(S) /\ Len(a \o b) = Len(a) + Len(b)
         /\ Len(a) \in Nat /\ Len(b) \in Nat
         /\ \A i \in 1..Len(a) : (a \o b)[i] = a[i]
         /\ \A i \in 1..Len(b) : (a \o b)[Len(a) + i] = b[i]
         /\ \A i \in 1..Len(a \o b) :
               i \in 1..Len(a) \/ (i - Len(a) \in 1..Len(b) /\ i = Len(a) + (i - Len(a)))
<1>1. /\ a \o b \in Seq(S) /\ Len(a \o b) = Len(a) + Len(b)
      /\ \A i \in 1..(Len(a) + Len(b)) :
            (a \o b)[i] = IF i <= Len(a) THEN a[i] ELSE b[i - Len(a)]
  BY ConcatProperties
<1>2. Len(a) \in Nat /\ Len(b) \in Nat
  BY LenProperties
<1> QED
  BY <1>1, <1>2

(* A tool call is three requests.                                          *)
LEMMA ToolIs ==
  ASSUME NEW m \in BodyMethods
  PROVE  Tool(m) \in Seq(BodyMethods) /\ Len(Tool(m)) = 3
         /\ Tool(m)[1] = "look" /\ Tool(m)[2] = m /\ Tool(m)[3] = "look"
<1>1. "look" \in BodyMethods
  BY DEF BodyMethods
<1> QED
  BY <1>1 DEF Tool

(* Bodies are put together so that a validation comes after every change.  *)
LEMMA ValidateLast == WellValidated(Tool("validate"))
<1>1. "validate" \in BodyMethods /\ "validate" \notin Changes /\ "look" \notin Changes
  BY DEF BodyMethods, Changes, Writes
<1>2. /\ Tool("validate") \in Seq(BodyMethods) /\ Len(Tool("validate")) = 3
      /\ Tool("validate")[1] = "look" /\ Tool("validate")[2] = "validate"
      /\ Tool("validate")[3] = "look"
  BY <1>1, ToolIs
<1> QED
  BY <1>1, <1>2 DEF WellValidated

LEMMA Preceded ==
  ASSUME NEW a \in Seq(BodyMethods), NEW b, WellValidated(b)
  PROVE  WellValidated(a \o b)
<1> DEFINE c == a \o b
           n == Len(a)
<1>1. /\ c \in Seq(BodyMethods) /\ Len(c) = n + Len(b) /\ n \in Nat /\ Len(b) \in Nat
      /\ \A i \in 1..Len(b) : c[n + i] = b[i]
      /\ \A i \in 1..Len(c) : i \in 1..n \/ (i - n \in 1..Len(b) /\ i = n + (i - n))
  BY Joined DEF WellValidated
<1> HIDE DEF c, n
<1>2. PICK j \in 1..Len(b) : b[j] = "validate"
  BY DEF WellValidated
<1>3. n + j \in 1..Len(c) /\ c[n + j] = "validate"
  BY <1>1, <1>2
<1>4. ASSUME NEW i \in 1..Len(c), c[i] \in Changes
      PROVE  \E k \in (i + 1)..Len(c) : c[k] = "validate"
  <2>1. CASE i \in 1..n
    <3>1. n + j \in (i + 1)..Len(c)
      BY <1>1, <1>2, <2>1
    <3> QED
      BY <1>3, <3>1
  <2>2. CASE i \notin 1..n
    <3>1. i - n \in 1..Len(b) /\ c[i] = b[i - n]
      BY <1>1, <2>2
    <3>2. PICK k \in ((i - n) + 1)..Len(b) : b[k] = "validate"
      BY <1>4, <3>1 DEF WellValidated
    <3>3. n + k \in (i + 1)..Len(c) /\ k \in 1..Len(b)
      BY <1>1, <3>1, <3>2
    <3> QED
      BY <1>1, <3>2, <3>3
  <2> QED
    BY <2>1, <2>2
<1>5. WellValidated(c)
  BY <1>1, <1>3, <1>4 DEF WellValidated
<1> QED
  BY <1>5 DEF c

LEMMA Followed ==
  ASSUME NEW b, WellValidated(b), NEW d \in Seq(BodyMethods),
         \A i \in 1..Len(d) : d[i] \notin Changes
  PROVE  WellValidated(b \o d)
<1> DEFINE c == b \o d
           n == Len(b)
<1>1. /\ c \in Seq(BodyMethods) /\ Len(c) = n + Len(d) /\ n \in Nat /\ Len(d) \in Nat
      /\ \A i \in 1..n : c[i] = b[i]
      /\ \A i \in 1..Len(d) : c[n + i] = d[i]
      /\ \A i \in 1..Len(c) : i \in 1..n \/ (i - n \in 1..Len(d) /\ i = n + (i - n))
  BY Joined DEF WellValidated
<1> HIDE DEF c
<1>2. \E j \in 1..Len(c) : c[j] = "validate"
  <2>1. PICK j \in 1..n : b[j] = "validate"
    BY DEF WellValidated
  <2>2. j \in 1..Len(c) /\ c[j] = "validate"
    BY <1>1, <2>1
  <2> QED
    BY <2>2
<1>3. ASSUME NEW i \in 1..Len(c), c[i] \in Changes
      PROVE  \E k \in (i + 1)..Len(c) : c[k] = "validate"
  <2>1. i \in 1..n /\ b[i] \in Changes
    BY <1>1, <1>3
  <2>2. PICK k \in (i + 1)..n : b[k] = "validate"
    BY <2>1 DEF WellValidated
  <2>3. k \in (i + 1)..Len(c) /\ c[k] = "validate"
    BY <1>1, <2>1, <2>2
  <2> QED
    BY <2>3
<1>4. WellValidated(c)
  BY <1>1, <1>2, <1>3 DEF WellValidated
<1> QED
  BY <1>4 DEF c

(* Every body of every operation validates what it changed.                *)
LEMMA BodiesAreWellValidated ==
  ASSUME NEW op \in Operations, NEW body \in Bodies(op)
  PROVE  WellValidated(body)
<1>1. ASSUME NEW m \in {"edit", "edit_more", "rename", "eval", "babel", "validate"}
      PROVE  m \in BodyMethods /\ Tool(m) \in Seq(BodyMethods)
  BY ToolIs DEF BodyMethods, Changes, Writes
<1>2. /\ <<"identity">> \in Seq(BodyMethods)
      /\ \A i \in 1..Len(<<"identity">>) : <<"identity">>[i] \notin Changes
      /\ \A i \in 1..Len(Tool("eval")) : Tool("eval")[i] \notin Changes
  <2>1. "identity" \in BodyMethods /\ {"look", "identity", "eval"} \cap Changes = {}
    BY DEF BodyMethods, Changes, Writes
  <2>2. /\ <<"identity">> \in Seq(BodyMethods)
        /\ Len(<<"identity">>) = 1 /\ <<"identity">>[1] = "identity"
    BY <2>1
  <2>3. /\ Len(Tool("eval")) = 3 /\ Tool("eval")[1] = "look" /\ Tool("eval")[2] = "eval"
        /\ Tool("eval")[3] = "look"
    BY <1>1, ToolIs
  <2> QED
    BY <2>1, <2>2, <2>3
<1>3. ASSUME NEW b, WellValidated(b), NEW x \in EvaluatedOrNot(b)
      PROVE  WellValidated(x)
  BY <1>1, <1>2, <1>3, Followed DEF EvaluatedOrNot
<1>4. ASSUME NEW m \in {"edit", "rename"} PROVE WellValidated(Tool(m) \o Tool("validate"))
  BY <1>1, Preceded, ValidateLast
<1>5. Tool("edit") \o Tool("edit_more") \in Seq(BodyMethods)
  BY <1>1, Joined
<1>6. WellValidated(Tool("edit") \o Tool("edit_more") \o Tool("validate"))
  BY <1>5, Preceded, ValidateLast
<1>7. CASE op \in {"repair_lisp", "move_form", "transform_sexp"}
  BY <1>3, <1>4, <1>7 DEF Bodies, RepairLisp, ValidatedLispCommand
<1>8. CASE op = "rename_symbol"
  BY <1>3, <1>4, <1>8 DEF Bodies, RenameSymbol
<1>9. CASE op = "refactor_defun"
  <2>1. WellValidated(Tool("edit") \o Tool("validate") \o <<"identity">>)
    BY <1>2, <1>4, Followed
  <2> QED
    BY <1>3, <1>9, <2>1 DEF Bodies, RefactorDefun
<1>10. CASE op = "extract_function"
  <2>1. WellValidated(Tool("edit") \o Tool("validate") \o Tool("eval"))
    BY <1>1, <1>2, <1>4, Followed
  <2> QED
    BY <1>3, <1>4, <1>10, <2>1 DEF Bodies, ExtractFunction
<1>11. CASE op = "org_rewrite_subtree"
  BY <1>4, <1>6, <1>11 DEF Bodies, OrgRewriteSubtree
<1>12. CASE op = "org_build_section"
  <2> DEFINE built == Tool("edit") \o Tool("edit_more") \o Tool("validate")
  <2>1. built \in Seq(BodyMethods)
    BY <1>6 DEF WellValidated
  <2> HIDE DEF built
  <2>2. WellValidated(built \o Tool("validate"))
    BY <2>1, Preceded, ValidateLast
  <2>3. built \o Tool("babel") \in Seq(BodyMethods)
    BY <1>1, <2>1, Joined
  <2>4. WellValidated(built \o Tool("babel") \o Tool("validate"))
    BY <2>3, Preceded, ValidateLast
  <2> QED
    BY <1>12, <2>2, <2>4 DEF Bodies, OrgBuildSection, built
<1> QED
  BY <1>7, <1>8, <1>9, <1>10, <1>11, <1>12, WorkflowAssumption

(* A plan, request by request.                                             *)
LEMMA PlanIs ==
  ASSUME NEW h \in Seq({"look", "bounds"}), NEW body \in Seq(BodyMethods)
  PROVE  LET p == h \o Transaction(body) \o <<"look">>
             m == Len(h)
             n == Len(body)
         IN /\ p \in Seq(Methods) /\ Len(p) = m + n + 6 /\ m \in Nat /\ n \in Nat
            /\ \A i \in 1..(m + 1) : p[i] \in Reads
            /\ p[m + 2] = "create"
            /\ \A i \in 1..n : p[m + 2 + i] = body[i]
            /\ p[m + n + 3] = "look" /\ p[m + n + 4] = "commit"
            /\ p[m + n + 5] = "look" /\ p[m + n + 6] = "look"
<1> DEFINE p == h \o Transaction(body) \o <<"look">>
           m == Len(h)
           n == Len(body)
           start == <<"look", "create">>
           ends == Tool("commit")
           t == Transaction(body)
<1>1. /\ start \in Seq(Methods) /\ Len(start) = 2 /\ start[1] = "look" /\ start[2] = "create"
      /\ ends \in Seq(Methods) /\ Len(ends) = 3
      /\ ends[1] = "look" /\ ends[2] = "commit" /\ ends[3] = "look"
      /\ <<"look">> \in Seq(Methods) /\ Len(<<"look">>) = 1 /\ <<"look">>[1] = "look"
  <2>1. {"look", "create", "commit"} \subseteq Methods
    BY DEF Methods, BodyMethods
  <2> QED
    BY <2>1 DEF Tool
<1>2. h \in Seq(Methods) /\ body \in Seq(Methods) /\ m \in Nat /\ n \in Nat
      /\ \A i \in 1..m : h[i] \in Reads
  <2>1. {"look", "bounds"} \subseteq Methods /\ BodyMethods \subseteq Methods
        /\ Reads = {"look", "bounds"}
    BY DEF Methods, BodyMethods, Reads
  <2> QED
    BY <2>1, SeqMonotonic, LenProperties, ElementOfSeq
<1> HIDE DEF start, ends
<1>3. /\ t \in Seq(Methods) /\ Len(t) = n + 5 /\ t[1] = "look" /\ t[2] = "create"
      /\ \A i \in 1..n : t[2 + i] = body[i]
      /\ t[n + 3] = "look" /\ t[n + 4] = "commit" /\ t[n + 5] = "look"
  <2> DEFINE u == start \o body
  <2>1. /\ u \in Seq(Methods) /\ Len(u) = 2 + n
        /\ u[1] = "look" /\ u[2] = "create"
        /\ \A i \in 1..n : u[2 + i] = body[i]
    <3>1. /\ u \in Seq(Methods) /\ Len(u) = 2 + n
          /\ \A i \in 1..2 : u[i] = start[i]
          /\ \A i \in 1..n : u[2 + i] = body[i]
      <4>1. /\ u \in Seq(Methods) /\ Len(u) = Len(start) + n
            /\ \A i \in 1..Len(start) : u[i] = start[i]
            /\ \A i \in 1..n : u[Len(start) + i] = body[i]
        <5>1. start \in Seq(Methods) /\ body \in Seq(Methods)
          BY <1>1, <1>2
        <5> QED
          BY <5>1, Joined
      <4> HIDE DEF u
      <4> QED
        BY <1>1, <4>1
    <3> HIDE DEF u
    <3> QED
      BY <1>1, <3>1
  <2>2. t = u \o ends
    BY DEF Transaction, start, ends
  <2> HIDE DEF u, t
  <2>3. /\ t \in Seq(Methods) /\ Len(t) = (2 + n) + 3
        /\ \A i \in 1..(2 + n) : t[i] = u[i]
        /\ \A i \in 1..3 : t[(2 + n) + i] = ends[i]
    <3>1. /\ t \in Seq(Methods) /\ Len(t) = Len(u) + Len(ends)
          /\ \A i \in 1..Len(u) : t[i] = u[i]
          /\ \A i \in 1..Len(ends) : t[Len(u) + i] = ends[i]
      <4>1. u \in Seq(Methods) /\ ends \in Seq(Methods)
        BY <1>1, <2>1
      <4> QED
        BY <2>2, <4>1, Joined
    <3> QED
      BY <1>1, <2>1, <3>1
  <2>4. t[(2 + n) + 1] = "look" /\ t[(2 + n) + 2] = "commit" /\ t[(2 + n) + 3] = "look"
    BY <1>1, <2>3
  <2>5. /\ (2 + n) + 1 = n + 3 /\ (2 + n) + 2 = n + 4 /\ (2 + n) + 3 = n + 5
        /\ 1 \in 1..(2 + n) /\ 2 \in 1..(2 + n) /\ \A i \in 1..n : 2 + i \in 1..(2 + n)
    BY <1>2
  <2>6. t[n + 3] = "look" /\ t[n + 4] = "commit" /\ t[n + 5] = "look"
    BY <2>4, <2>5
  <2> QED
    BY <2>1, <2>3, <2>5, <2>6
<1> HIDE DEF t
<1> DEFINE q == h \o t
<1>4. /\ q \in Seq(Methods) /\ Len(q) = m + (n + 5)
      /\ \A i \in 1..m : q[i] = h[i]
      /\ \A i \in 1..(n + 5) : q[m + i] = t[i]
  <2>1. /\ q \in Seq(Methods) /\ Len(q) = m + Len(t)
        /\ \A i \in 1..m : q[i] = h[i]
        /\ \A i \in 1..Len(t) : q[m + i] = t[i]
    <3>1. h \in Seq(Methods) /\ t \in Seq(Methods)
      BY <1>2, <1>3
    <3> QED
      BY <3>1, Joined
  <2> HIDE DEF q, m, n
  <2> QED
    BY <1>3, <2>1
<1>5. p = q \o <<"look">>
  BY DEF t
<1> HIDE DEF p, q
<1>6. /\ p \in Seq(Methods) /\ Len(p) = (m + (n + 5)) + 1
      /\ \A i \in 1..(m + (n + 5)) : p[i] = q[i]
      /\ \A i \in 1..1 : p[(m + (n + 5)) + i] = "look"
  <2>1. /\ p \in Seq(Methods) /\ Len(p) = (m + (n + 5)) + 1
        /\ \A i \in 1..(m + (n + 5)) : p[i] = q[i]
        /\ \A i \in 1..1 : p[(m + (n + 5)) + i] = <<"look">>[i]
    <3> DEFINE look == <<"look">>
    <3>1. look \in Seq(Methods) /\ Len(look) = 1 /\ p = q \o look
      BY <1>1, <1>5
    <3> HIDE DEF look, m, n
    <3>2. /\ p \in Seq(Methods) /\ Len(p) = Len(q) + Len(look)
          /\ \A i \in 1..Len(q) : p[i] = q[i]
          /\ \A i \in 1..Len(look) : p[Len(q) + i] = look[i]
      <4>1. q \in Seq(Methods) /\ look \in Seq(Methods) /\ p = q \o look
        BY <1>4, <3>1
      <4> QED
        BY <4>1, Joined
    <3>3. /\ p \in Seq(Methods) /\ Len(p) = (m + (n + 5)) + 1
          /\ \A i \in 1..(m + (n + 5)) : p[i] = q[i]
          /\ \A i \in 1..1 : p[(m + (n + 5)) + i] = look[i]
      BY <1>4, <3>1, <3>2
    <3> QED
      BY <3>3 DEF look
  <2> QED
    BY <2>1
<1> HIDE DEF m, n
<1>7. \A i \in 1..(n + 5) : p[m + i] = t[i]
  <2> TAKE i \in 1..(n + 5)
  <2>1. m + i \in 1..(m + (n + 5))
    BY <1>2
  <2> QED
    BY <1>4, <1>6, <2>1
<1>8. \A i \in 1..m : p[i] = h[i]
  BY <1>2, <1>4, <1>6
<1>9. p[m + 1] = "look" /\ p[m + 2] = "create"
      /\ p[m + (n + 3)] = "look" /\ p[m + (n + 4)] = "commit" /\ p[m + (n + 5)] = "look"
  <2>1. 1 \in 1..(n + 5) /\ 2 \in 1..(n + 5) /\ n + 3 \in 1..(n + 5) /\ n + 4 \in 1..(n + 5)
        /\ n + 5 \in 1..(n + 5)
    BY <1>2
  <2>2. /\ p[m + 1] = t[1] /\ p[m + 2] = t[2]
        /\ p[m + (n + 3)] = t[n + 3] /\ p[m + (n + 4)] = t[n + 4] /\ p[m + (n + 5)] = t[n + 5]
    BY <1>7, <2>1
  <2> QED
    BY <1>3, <2>2
<1>10. \A i \in 1..n : p[m + 2 + i] = body[i]
  <2> TAKE i \in 1..n
  <2>1. 2 + i \in 1..(n + 5) /\ m + (2 + i) = m + 2 + i
    BY <1>2
  <2> QED
    BY <1>3, <1>7, <2>1
<1>11. \A i \in 1..(m + 1) : p[i] \in Reads
  <2> TAKE i \in 1..(m + 1)
  <2>1. i \in 1..m \/ i = m + 1
    BY <1>2
  <2>2. "look" \in Reads
    BY DEF Reads
  <2> QED
    BY <1>2, <1>8, <1>9, <2>1, <2>2
<1>12. /\ m + (n + 3) = m + n + 3 /\ m + (n + 4) = m + n + 4 /\ m + (n + 5) = m + n + 5
       /\ (m + (n + 5)) + 1 = m + n + 6
  BY <1>2
<1>13. p[m + n + 6] = "look"
  BY <1>6, <1>12
<1> QED
  BY <1>2, <1>6, <1>9, <1>10, <1>11, <1>12, <1>13 DEF p, m, n

(* Every plan of every operation starts out as PlanInv says.               *)
LEMMA PlansAreWell ==
  ASSUME NEW op \in Operations, todo \in Plans(op), held = FALSE
  PROVE  todo \in Seq(Methods) /\ Len(todo) > 3 /\ PlanInv
<1>1. PICK first \in Before(op), body \in Bodies(op) :
         todo = <<"look">> \o first \o Transaction(body) \o <<"look">>
  BY DEF Plans
<1>2. WellValidated(body) /\ body \in Seq(BodyMethods)
  BY BodiesAreWellValidated DEF WellValidated
<1>3. <<"look">> \o first \in Seq({"look", "bounds"})
  <2>1. first \in {<<>>, <<"look">>, <<"bounds">>}
    BY WorkflowAssumption DEF Before
  <2>2. /\ <<>> \in Seq({"look", "bounds"}) /\ <<"look">> \in Seq({"look", "bounds"})
        /\ <<"bounds">> \in Seq({"look", "bounds"})
    OBVIOUS
  <2> QED
    BY <2>1, <2>2, ConcatProperties
<1> DEFINE h == <<"look">> \o first
           m == Len(h)
           n == Len(body)
<1>4. /\ todo \in Seq(Methods) /\ Len(todo) = m + n + 6 /\ m \in Nat /\ n \in Nat
      /\ \A i \in 1..(m + 1) : todo[i] \in Reads
      /\ todo[m + 2] = "create"
      /\ \A i \in 1..n : todo[m + 2 + i] = body[i]
      /\ todo[m + n + 3] = "look" /\ todo[m + n + 4] = "commit"
      /\ todo[m + n + 5] = "look" /\ todo[m + n + 6] = "look"
  <2>1. todo = h \o Transaction(body) \o <<"look">> /\ h \in Seq({"look", "bounds"})
    BY <1>1, <1>3
  <2> HIDE DEF h
  <2> QED
    BY <1>2, <2>1, PlanIs
<1> HIDE DEF h, m
<1> DEFINE inBody(i) == i - (m + 2) \in 1..n /\ todo[i] = body[i - (m + 2)]
<1>5. \A i \in 1..Len(todo) :
         \/ i < m + 2 /\ todo[i] \in Reads
         \/ i = m + 2 /\ todo[i] = "create"
         \/ m + 2 < i /\ i < m + n + 3 /\ inBody(i)
         \/ i = m + n + 4 /\ todo[i] = "commit"
         \/ i > m + n + 2 /\ i # m + n + 4 /\ todo[i] = "look"
  <2> TAKE i \in 1..Len(todo)
  <2>1. CASE m + 2 < i /\ i < m + n + 3
    <3>1. i - (m + 2) \in 1..n /\ m + 2 + (i - (m + 2)) = i
      BY <1>4, <2>1
    <3> QED
      BY <1>4, <2>1, <3>1
  <2>2. CASE ~(m + 2 < i /\ i < m + n + 3)
    <3>1. \/ i \in 1..(m + 1) \/ i = m + 2 \/ i = m + n + 3 \/ i = m + n + 4
          \/ i = m + n + 5 \/ i = m + n + 6
      BY <1>4, <2>2
    <3> QED
      BY <1>4, <3>1
  <2> QED
    BY <2>1, <2>2
<1>6. \A i \in 1..n : body[i] \in BodyMethods
  BY <1>2, ElementOfSeq
<1> HIDE DEF n
<1>7. ASSUME NEW i \in 1..Len(todo), todo[i] \in Changes
      PROVE  \E j \in (i + 1)..Len(todo) : todo[j] = "validate"
  <2>1. i - (m + 2) \in 1..n /\ todo[i] = body[i - (m + 2)]
    BY <1>5, <1>7 DEF Reads, Changes, Writes
  <2>2. PICK j \in ((i - (m + 2)) + 1)..n : body[j] = "validate"
    BY <1>2, <1>7, <2>1 DEF WellValidated, n
  <2>3. m + 2 + j \in (i + 1)..Len(todo) /\ j \in 1..n
    BY <1>4, <2>1, <2>2
  <2> QED
    BY <1>4, <2>2, <2>3
<1>8. PICK j \in 1..n : body[j] = "validate"
  BY <1>2 DEF WellValidated, n
<1>9. m + 2 + j \in 1..Len(todo) /\ todo[m + 2 + j] = "validate"
  BY <1>4, <1>8
<1>10. \A i \in 1..Len(todo) : /\ todo[i] # "rollback"
                               /\ todo[i] = "commit" <=> i = Len(todo) - 2
                               /\ i > Len(todo) - 2 => todo[i] = "look"
  <2> TAKE i \in 1..Len(todo)
  <2>1. inBody(i) => todo[i] \in BodyMethods
    BY <1>6
  <2> QED
    BY <1>4, <1>5, <2>1 DEF Reads, BodyMethods, Changes, Writes
<1>11. /\ m + 2 \in 1..Len(todo)
       /\ \A i \in 1..((m + 2) - 1) : todo[i] \in Reads
       /\ \A i \in ((m + 2) + 1)..Len(todo) : todo[i] # "create"
  <2>1. \A i \in ((m + 2) + 1)..Len(todo) : i \in 1..Len(todo) /\ i > m + 2
    BY <1>4
  <2>2. \A i \in 1..Len(todo) : inBody(i) => todo[i] \in BodyMethods
    BY <1>6
  <2>3. \A i \in ((m + 2) + 1)..Len(todo) : todo[i] # "create"
    BY <1>4, <1>5, <2>1, <2>2 DEF BodyMethods, Changes, Writes
  <2> QED
    BY <1>4, <2>3
<1> QED
  BY <1>4, <1>7, <1>9, <1>10, <1>11 DEF PlanInv, PlanRest

(* The facts about sequences that the steps of the workflow need.          *)
LEMMA SeqFacts ==
  ASSUME NEW S, NEW s \in Seq(S)
  PROVE  /\ Len(s) \in Nat /\ (s = <<>> <=> Len(s) = 0)
         /\ \A i \in 1..Len(s) : s[i] \in S
         /\ s # <<>> => /\ Head(s) = s[1] /\ Head(s) \in S
                        /\ Tail(s) \in Seq(S) /\ Len(Tail(s)) = Len(s) - 1
                        /\ \A i \in 1..(Len(s) - 1) : Tail(s)[i] = s[i + 1]
<1>1. Len(s) \in Nat /\ (s = <<>> <=> Len(s) = 0)
  BY EmptySeq, LenProperties
<1>2. \A i \in 1..Len(s) : s[i] \in S
  BY ElementOfSeq
<1>3. CASE s # <<>>
  <2>1. Head(s) = s[1]
    BY <1>3
  <2>2. /\ Head(s) \in S /\ Tail(s) \in Seq(S) /\ Len(Tail(s)) = Len(s) - 1
        /\ \A i \in 1..Len(Tail(s)) : Tail(s)[i] = s[i + 1]
    BY <1>3, HeadTailProperties
  <2> QED
    BY <1>1, <1>2, <2>1, <2>2
<1> QED
  BY <1>1, <1>2, <1>3

(* What a step that is not Emacs's answer does to the buffer and the       *)
(* checkpoint.                                                             *)
World ==
    /\ enabled' = enabled \/ evaluating = "no"
    /\ NoProposal => NoProposal'
    /\ Earned => Earned'
    /\ status'[chk] = status[chk] \/ (status[chk] = "open" /\ status'[chk] = "cleared")
    /\ status'[chk] = "open" => snap'[chk] = snap[chk]

(* A step that leaves Emacs and its files alone is one of those.           *)
LEMMA NothingHappens ==
  ASSUME UNCHANGED <<vars, validated>>
  PROVE  World
  BY DEF World, NoProposal, Earned, Live, vars, emacsVars, chkVars

(* The requests of a rollback.                                             *)
LEMMA UndoIs ==
  /\ Undo("error") \in Seq(Methods) /\ Len(Undo("error")) = 3
  /\ \A i \in 1..3 : Undo("error")[i] = IF i = 2 THEN "rollback" ELSE "look"
  /\ Undo("rejected") \in Seq(Methods) /\ Len(Undo("rejected")) = 4
  /\ \A i \in 1..4 : Undo("rejected")[i] = IF i = 2 THEN "rollback" ELSE "look"
<1> DEFINE t == Tool("rollback")
           u == <<"look">>
           e == <<>>
<1>1. "look" \in Methods /\ "rollback" \in Methods
  BY DEF Methods, BodyMethods
<1>2. /\ t \in Seq(Methods) /\ Len(t) = 3
      /\ t[1] = "look" /\ t[2] = "rollback" /\ t[3] = "look"
      /\ u \in Seq(Methods) /\ Len(u) = 1 /\ u[1] = "look"
      /\ e \in Seq(Methods)
  BY <1>1 DEF Tool
<1>3. Undo("error") = t \o e /\ Undo("rejected") = t \o u
  BY DEF Undo
<1>4. t \o e = t
  BY <1>2, ConcatEmptySeq
<1> HIDE DEF t, u
<1>5. /\ t \o u \in Seq(Methods) /\ Len(t \o u) = Len(t) + Len(u)
      /\ \A i \in 1..Len(t) : (t \o u)[i] = t[i]
      /\ \A i \in 1..Len(u) : (t \o u)[Len(t) + i] = u[i]
  <2>1. t \in Seq(Methods) /\ u \in Seq(Methods)
    BY <1>2
  <2> QED
    BY <2>1, Joined
<1> DEFINE v == t \o u
<1>6. /\ v \in Seq(Methods) /\ Len(v) = 4
      /\ \A i \in 1..3 : v[i] = t[i]
      /\ v[4] = "look"
  <2>1. v[Len(t) + 1] = u[1]
    BY <1>2, <1>5
  <2> HIDE DEF v
  <2>2. v \in Seq(Methods) /\ Len(v) = Len(t) + Len(u) /\ \A i \in 1..Len(t) : v[i] = t[i]
    BY <1>5 DEF v
  <2> QED
    BY <1>2, <2>1, <2>2
<1> HIDE DEF v
<1>7. Undo("rejected") = v
  BY <1>3 DEF v
<1>8. \A i \in 1..3 : i = 1 \/ i = 2 \/ i = 3
  OBVIOUS
<1>9. \A i \in 1..4 : i \in 1..3 \/ i = 4
  OBVIOUS
<1>10. Undo("error") = t
  BY <1>3, <1>4
<1> QED
  BY <1>2, <1>6, <1>7, <1>8, <1>9, <1>10

(* A step that throws starts the rollback, or is the end of the call.      *)
LEMMA ThrowIs ==
  ASSUME CallInv, SettleInv, outcome = "none", Throw
  PROVE  /\ held' = held
         /\ \/ /\ cause = "none" /\ held /\ cause' = "error" /\ outcome' = "none"
               /\ todo' = Undo("error")
            \/ /\ cause' = cause /\ todo' = <<>> /\ outcome' \in {"error", "rollback_failed"}
               /\ outcome' = "error" /\ held => status[chk] \in {"committed", "rolled_back"}
<1>1. Len(todo) \in Nat /\ todo # <<>> /\ Len(todo) # 0
  BY SeqFacts DEF CallInv
<1>2. CASE cause = "none" /\ held /\ Len(todo) > 1
  BY <1>2 DEF Throw
<1>3. CASE ~(cause = "none" /\ held /\ Len(todo) > 1)
  <2>1. /\ outcome' = IF cause = "error" \/ (cause = "rejected" /\ Len(todo) > 1)
                      THEN "rollback_failed" ELSE "error"
        /\ todo' = <<>> /\ held' = held /\ cause' = cause
    BY <1>3 DEF Throw
  <2>2. ASSUME outcome' = "error", held PROVE status[chk] \in {"committed", "rolled_back"}
    <3>1. /\ cause \in {"none", "rejected", "error"} /\ cause # "error"
          /\ cause = "rejected" => Len(todo) <= 1
          /\ cause = "none" => Len(todo) <= 1
      BY <1>1, <1>3, <2>1, <2>2 DEF CallInv
    <3>2. Len(todo) <= 1
      BY <3>1
    <3> QED
      BY <1>1, <3>1, <3>2 DEF SettleInv, Closing
  <2> QED
    BY <2>1, <2>2
<1> QED
  BY <1>2, <1>3

(* Some of what is on the wire may be lost, from its end.                  *)
Cut == /\ wire' \in Seq(Methods) /\ Len(wire') <= Len(wire)
       /\ \A i \in 1..Len(wire') : wire'[i] = wire[i]

LEMMA CutIs ==
  ASSUME WireInv, Cut
  PROVE  /\ Len(wire) \in Nat /\ Len(wire') \in Nat
         /\ wire = <<>> <=> Len(wire) = 0
         /\ wire' = <<>> <=> Len(wire') = 0
         /\ wire' # <<>> => wire # <<>> /\ wire'[1] = wire[1]
         /\ Len(wire') <= 2 /\ (Len(wire') = 2 => wire'[2] = "look")
<1>1. /\ Len(wire) \in Nat /\ Len(wire') \in Nat
      /\ wire = <<>> <=> Len(wire) = 0
      /\ wire' = <<>> <=> Len(wire') = 0
  BY SeqFacts DEF WireInv, Cut
<1> QED
  BY <1>1 DEF WireInv, Cut

(* The current request is given up, by a timeout, a lost socket or an      *)
(* error: the coordinator throws, whatever Emacs will still do with it.    *)
LEMMA GaveUp ==
  ASSUME IInv, World, outcome = "none", Throw, waiting' = FALSE, reply' = "none",
         connected' \in BOOLEAN, Cut, UNCHANGED <<evaluating, validated>>
  PROVE  IInv'
<1> USE DEF IInv
<1>1. /\ held' = held
      /\ \/ /\ cause = "none" /\ held /\ cause' = "error" /\ outcome' = "none"
            /\ todo' = Undo("error")
         \/ /\ cause' = cause /\ todo' = <<>> /\ outcome' \in {"error", "rollback_failed"}
            /\ outcome' = "error" /\ held => status[chk] \in {"committed", "rolled_back"}
  BY ThrowIs
<1>2. /\ Len(wire) \in Nat /\ Len(wire') \in Nat /\ wire' \in Seq(Methods)
      /\ Len(wire') <= Len(wire)
      /\ wire = <<>> <=> Len(wire) = 0
      /\ wire' = <<>> <=> Len(wire') = 0
      /\ wire' # <<>> => wire # <<>> /\ wire'[1] = wire[1]
      /\ Len(wire') <= 2 /\ (Len(wire') = 2 => wire'[2] = "look")
  BY CutIs DEF Cut
<1>3. cause' # "none" \/ outcome' # "none"
  BY <1>1
<1>4. QuietInv'
  <2>1. cause # "none" => cause' # "none"
    BY <1>1
  <2>2. ~held => /\ NoProposal' /\ evaluating' = "no"
                 /\ (wire' # <<>> => wire'[1] \in Reads \cup {"create"})
    BY <1>2 DEF World, QuietInv
  <2>3. status'[chk] = "rolled_back" => status[chk] = "rolled_back"
    BY DEF World
  <2>4. status'[chk] = "open" => status[chk] = "open" /\ snap'[chk] = snap[chk]
    BY DEF World
  <2> QED
    BY <1>1, <1>2, <2>1, <2>2, <2>3, <2>4 DEF World, QuietInv
<1>5. ValidInv'
  BY <1>2, <1>3 DEF World, ValidInv
<1>6. /\ evaluating' \in {"no", "eval", "babel"} /\ (evaluating' # "no" => enabled')
  BY DEF WireInv, World
<1>7. status[chk] \in {"committed", "rolled_back"} => status'[chk] = status[chk]
  BY DEF World
<1>8. CASE outcome' = "none"
  <2>1. /\ cause = "none" /\ held /\ cause' = "error" /\ todo' \in Seq(Methods) /\ Len(todo') = 3
        /\ \A i \in 1..3 : todo'[i] = IF i = 2 THEN "rollback" ELSE "look"
    BY <1>1, <1>8, UndoIs
  <2>2. todo' # <<>>
    BY <2>1, SeqFacts
  <2>3. CallInv'
    <3>1. UndoInv'
      BY <2>1 DEF UndoInv, UndoRest, Closing
    <3> QED
      BY <1>1, <1>8, <2>1, <2>2, <3>1 DEF CallInv, Replies, Outcomes
  <2>4. Len(wire') <= 1
    BY <1>2, <2>1 DEF WireInv, Late
  <2>5. WireInv'
    BY <1>2, <1>6, <1>8, <2>1, <2>4 DEF WireInv, Late
  <2>6. SettleInv'
    BY <1>8, <2>1 DEF SettleInv, Closing
  <2> QED
    BY <1>4, <1>5, <2>3, <2>5, <2>6
<1>9. CASE outcome' # "none"
  <2>1. cause' = cause /\ todo' = <<>> /\ outcome' \in {"error", "rollback_failed"}
    BY <1>1, <1>9
  <2>2. <<>> \in Seq(Methods)
    BY EmptySeq
  <2>3. CallInv'
    BY <1>1, <1>9, <2>1, <2>2 DEF CallInv, Outcomes, Replies
  <2>4. WireInv'
    BY <1>2, <1>6, <2>1 DEF WireInv, Late
  <2>5. SettleInv'
    BY <1>1, <1>7, <2>1 DEF SettleInv
  <2> QED
    BY <1>4, <1>5, <2>3, <2>4, <2>5
<1> QED
  BY <1>8, <1>9

(* A step that the coordinator has no part in, and Emacs's answers         *)
(* neither.                                                                *)
LEMMA Aside ==
  ASSUME IInv, World, UNCHANGED <<callVars, wireVars, validated>>
  PROVE  IInv'
<1> USE DEF IInv
<1>1. UNCHANGED <<todo, waiting, held, cause, outcome,
                  wire, reply, connected, evaluating, validated>>
  BY DEF callVars, wireVars
<1>2. CallInv'
  BY <1>1 DEF CallInv, PlanInv, PlanRest, UndoInv, UndoRest, Closing
<1>3. WireInv'
  BY <1>1 DEF WireInv, World, Late
<1>4. ValidInv'
  BY <1>1 DEF ValidInv, World
<1>5. QuietInv'
  BY <1>1 DEF QuietInv, World
<1>6. SettleInv'
  BY <1>1 DEF SettleInv, World, Closing
<1> QED
  BY <1>2, <1>3, <1>4, <1>5, <1>6

(* The connection loses what it holds while the coordinator waits for      *)
(* nothing.                                                                *)
LEMMA Lost ==
  ASSUME IInv, World, ~waiting, waiting' = FALSE, reply' = "none", connected' \in BOOLEAN,
         Cut, UNCHANGED <<todo, held, cause, outcome, evaluating, validated>>
  PROVE  IInv'
<1>1. CallInv /\ WireInv /\ ValidInv /\ QuietInv /\ SettleInv
  BY DEF IInv
<1>2. /\ Len(wire) \in Nat /\ Len(wire') \in Nat /\ wire' \in Seq(Methods)
      /\ Len(wire') <= Len(wire)
      /\ wire = <<>> <=> Len(wire) = 0
      /\ wire' = <<>> <=> Len(wire') = 0
      /\ wire' # <<>> => wire # <<>> /\ wire'[1] = wire[1]
      /\ Len(wire') <= 2 /\ (Len(wire') = 2 => wire'[2] = "look")
  BY <1>1, CutIs DEF Cut
<1>3. reply = "none"
  BY <1>1 DEF CallInv
<1>4. CallInv'
  <2>1. PlanInv' <=> PlanInv
    BY DEF PlanInv, PlanRest
  <2>2. UndoInv' <=> UndoInv
    BY DEF UndoInv, UndoRest, Closing
  <2> QED
    BY <1>1, <1>3, <2>1, <2>2 DEF CallInv, Replies
<1>5. WireInv'
  BY <1>1, <1>2, <1>3 DEF WireInv, World, Late
<1>6. ValidInv'
  BY <1>1, <1>2, <1>3 DEF ValidInv, World
<1>7. QuietInv'
  <2>1. ~held => /\ NoProposal' /\ evaluating' = "no"
                 /\ (wire' # <<>> => wire'[1] \in Reads \cup {"create"})
    BY <1>1, <1>2 DEF World, QuietInv
  <2>2. status'[chk] = "rolled_back" => status[chk] = "rolled_back"
    BY DEF World
  <2>3. status'[chk] = "open" => status[chk] = "open" /\ snap'[chk] = snap[chk]
    BY DEF World
  <2> QED
    BY <1>1, <1>2, <2>1, <2>2, <2>3 DEF World, QuietInv
<1>8. SettleInv'
  BY <1>1, <1>3 DEF SettleInv, World, Closing
<1> QED
  BY <1>4, <1>5, <1>6, <1>7, <1>8 DEF IInv

(* What the coordinator may send next.                                     *)
LEMMA NextRequest ==
  ASSUME CallInv, outcome = "none"
  PROVE  /\ Len(todo) \in Nat /\ Len(todo) > 0 /\ todo # <<>> /\ Head(todo) = todo[1]
         /\ todo[1] \in Methods
         /\ cause # "none" => todo[1] = (IF Len(todo) = Closing + 1 THEN "rollback" ELSE "look")
         /\ cause = "none" => todo[1] # "rollback" /\ (todo[1] = "commit" <=> Len(todo) = 3)
         /\ ~held => cause = "none" /\ todo[1] \in Reads \cup {"create"}
         /\ todo[1] = "create" => ~held
<1>1. /\ Len(todo) \in Nat /\ Len(todo) > 0 /\ todo # <<>> /\ Head(todo) = todo[1]
      /\ todo[1] \in Methods
  BY SeqFacts DEF CallInv
<1>2. 1 \in 1..Len(todo)
  BY <1>1
<1>3. cause # "none" => todo[1] = (IF Len(todo) = Closing + 1 THEN "rollback" ELSE "look")
  <2>1. Closing \in {1, 2}
    BY DEF Closing
  <2>2. cause # "none" => todo[1] = IF 1 = Len(todo) - Closing THEN "rollback" ELSE "look"
    BY <1>2 DEF CallInv, UndoInv, UndoRest
  <2> QED
    BY <1>1, <2>1, <2>2
<1>4. CASE cause = "none"
  <2>1. PlanInv
    BY <1>4 DEF CallInv
  <2>2. todo[1] # "rollback" /\ (todo[1] = "commit" <=> 1 = Len(todo) - 2)
        /\ (held => todo[1] # "create")
    BY <1>2, <2>1 DEF PlanInv, PlanRest
  <2>3. ASSUME ~held PROVE todo[1] \in Reads \cup {"create"}
    <3>1. PICK c \in 1..Len(todo) : todo[c] = "create" /\ \A i \in 1..(c - 1) : todo[i] \in Reads
      BY <2>1, <2>3 DEF PlanInv, PlanRest
    <3>2. c = 1 \/ 1 \in 1..(c - 1)
      BY <1>1, <3>1
    <3> QED
      BY <3>1, <3>2
  <2> QED
    BY <1>1, <1>4, <2>2, <2>3
<1>5. CASE cause # "none"
  <2>1. held /\ todo[1] \in {"look", "rollback"}
    BY <1>3, <1>5 DEF CallInv
  <2> QED
    BY <1>1, <1>3, <1>5, <2>1
<1> QED
  BY <1>4, <1>5

(* The coordinator sends its current request.                              *)
LEMMA Sent ==
  ASSUME IInv, Send, connected
  PROVE  IInv'
<1>1. CallInv /\ WireInv /\ ValidInv /\ QuietInv /\ SettleInv
  BY DEF IInv
<1>s. /\ outcome = "none" /\ ~waiting /\ waiting' = TRUE
      /\ UNCHANGED <<todo, held, cause, outcome>>
      /\ UNCHANGED <<vars, reply, connected, evaluating, validated>>
  BY DEF Send
<1>2. /\ Len(todo) \in Nat /\ Len(todo) > 0 /\ todo # <<>> /\ Head(todo) = todo[1]
      /\ todo[1] \in Methods
      /\ cause # "none" => todo[1] = (IF Len(todo) = Closing + 1 THEN "rollback" ELSE "look")
      /\ cause = "none" => todo[1] # "rollback" /\ (todo[1] = "commit" <=> Len(todo) = 3)
      /\ ~held => cause = "none" /\ todo[1] \in Reads \cup {"create"}
      /\ todo[1] = "create" => ~held
  BY <1>1, <1>s, NextRequest
<1>3. /\ wire' \in Seq(Methods) /\ Len(wire') = Len(wire) + 1 /\ Len(wire) \in Nat
      /\ \A i \in 1..Len(wire) : wire'[i] = wire[i]
      /\ wire'[Len(wire) + 1] = todo[1]
      /\ (wire = <<>>) <=> (Len(wire) = 0)
  <2>1. wire \in Seq(Methods)
    BY <1>1 DEF WireInv
  <2> QED
    BY <1>2, <2>1, AppendProperties, SeqFacts DEF Send
<1>0. /\ Len(wire') = Len(wire) + 1 /\ Len(wire) \in Nat
      /\ (wire = <<>>) <=> (Len(wire) = 0)
  BY <1>3
<1>4. wire' # <<>>
  BY <1>3, SeqFacts
<1>5. reply = "none" /\ reply' = "none"
  BY <1>1, <1>s DEF CallInv
<1>6. Len(wire) <= 1 /\ (~Late => wire = <<>>)
  BY <1>1, <1>s DEF WireInv
<1>7. /\ evaluating' = evaluating
      /\ evaluating # "no" => cause = "error"
  BY <1>1, <1>s DEF WireInv
<1>8. /\ wire = <<>> => wire'[1] = todo[1]
      /\ wire # <<>> => wire'[1] = wire[1] /\ Late /\ Len(wire) = 1 /\ todo[1] = "look"
  <2>1. ASSUME wire # <<>> PROVE Late /\ Len(wire) = 1
    <3>1. Late /\ Len(wire) \in Nat /\ Len(wire) # 0 /\ Len(wire) <= 1
      BY <1>0, <1>6, <2>1
    <3> DEFINE n == Len(wire)
    <3>2. n \in Nat /\ n # 0 /\ n <= 1
      BY <3>1
    <3> HIDE DEF n
    <3>3. n = 1
      BY <3>2
    <3> QED
      BY <3>1, <3>3 DEF n
  <2>2. Late => todo[1] = "look"
    BY <1>2 DEF Late, Closing
  <2> QED
    BY <1>3, <2>1, <2>2
<1>9. UNCHANGED <<enabled, status, snap, buf, author, validated>>
  BY <1>s DEF vars, emacsVars, chkVars
<1>10. (Earned' <=> Earned) /\ (NoProposal' <=> NoProposal)
  BY <1>9 DEF Earned, NoProposal, Live
<1>11. CallInv'
  <2>1. PlanInv' <=> PlanInv
    BY <1>s DEF PlanInv, PlanRest
  <2>2. UndoInv' <=> UndoInv
    BY <1>s DEF UndoInv, UndoRest, Closing
  <2> QED
    BY <1>1, <1>s, <1>5, <2>1, <2>2 DEF CallInv, Replies
<1>12. WireInv'
  <2>1. wire'[Len(wire')] = todo'[1]
    BY <1>s, <1>3
  <2>2. Len(wire') <= 2 /\ (Len(wire') = 2 => wire'[2] = "look")
    <3>1. Len(wire') <= 2
      BY <1>0, <1>6
    <3>2. ASSUME Len(wire') = 2 PROVE wire'[2] = "look"
      <4> DEFINE n == Len(wire)
                 k == Len(wire')
      <4>1. n \in Nat /\ k = n + 1 /\ k = 2
        BY <1>0, <3>2
      <4> HIDE DEF n, k
      <4>2. n = 1
        BY <4>1
      <4>3. Len(wire) = 1
        BY <4>2 DEF n
      <4>4. wire # <<>>
        BY <1>0, <4>3
      <4> QED
        BY <1>3, <1>8, <4>3, <4>4
    <3> QED
      BY <3>1, <3>2
  <2>3. ~Late => Len(wire') = 1
    BY <1>0, <1>6
  <2>4. Late' <=> Late
    BY <1>s DEF Late
  <2> QED
    BY <1>1, <1>s, <1>0, <1>3, <1>4, <1>5, <1>7, <1>9, <2>1, <2>2, <2>3, <2>4 DEF WireInv
<1>13. ValidInv'
  <2>1. ASSUME wire'[1] = "commit" PROVE evaluating = "no" /\ Earned
    <3>1. CASE wire # <<>>
      BY <1>1, <1>8, <2>1, <3>1 DEF ValidInv
    <3>2. CASE wire = <<>>
      <4>1. cause = "none" /\ todo[1] = "commit" /\ Len(todo) = 3
        BY <1>2, <1>8, <2>1, <3>2
      <4>2. PlanInv
        BY <1>1, <1>s, <4>1 DEF CallInv
      <4>3. todo[2] = "look" /\ todo[3] = "look"
        BY <4>1, <4>2 DEF PlanInv, PlanRest
      <4>4. \A i \in 1..Len(todo) : todo[i] # "validate"
        BY <4>1, <4>3
      <4> QED
        BY <1>1, <1>s, <1>7, <4>1, <4>4 DEF ValidInv
    <3> QED
      BY <3>1, <3>2
  <2> QED
    BY <1>1, <1>s, <1>5, <1>7, <1>10, <2>1 DEF ValidInv
<1>14. QuietInv'
  <2>1. (wire'[1] = wire[1] /\ wire # <<>>) \/ wire'[1] = todo[1]
    BY <1>8
  <2>2. ~held => wire'[1] \in Reads \cup {"create"}
    BY <1>1, <1>2, <2>1 DEF QuietInv
  <2>3. wire'[1] = "create" => ~held
    BY <1>1, <1>2, <2>1 DEF QuietInv
  <2>4. wire'[1] = "rollback" => cause # "none"
    BY <1>1, <1>2, <2>1 DEF QuietInv
  <2>5. status[chk] = "rolled_back" => wire'[1] \notin Writes
    BY <1>1, <1>2, <2>1 DEF QuietInv, Writes
  <2> QED
    BY <1>1, <1>s, <1>7, <1>9, <1>10, <2>2, <2>3, <2>4, <2>5 DEF QuietInv
<1>15. SettleInv'
  BY <1>1, <1>s, <1>9 DEF SettleInv, Closing
<1> QED
  BY <1>11, <1>12, <1>13, <1>14, <1>15 DEF IInv

(* A plan without its first request, once that has been answered, is still *)
(* a plan; and so is what follows a rollback.                              *)
LEMMA PlanAdvances ==
  ASSUME NEW n \in Nat, n > 1, NEW h \in BOOLEAN, NEW g \in BOOLEAN, NEW t, NEW u,
         \A i \in 1..(n - 1) : u[i] = t[i + 1],
         g <=> (h \/ t[1] = "create"),
         PlanRest(t, n, h)
  PROVE  PlanRest(u, n - 1, g)
<1>1. n - 1 \in Nat /\ 1 \in 1..n
  OBVIOUS
<1>2. /\ \A i \in 1..(n - 1) : u[i] = t[i + 1] /\ i + 1 \in 1..n
      /\ \A j \in 2..n : u[j - 1] = t[j] /\ j - 1 \in 1..(n - 1)
  OBVIOUS
<1>3. \A i \in 1..n :
         /\ t[i] # "rollback"
         /\ t[i] = "commit" <=> i = n - 2
         /\ i > n - 2 => t[i] = "look"
         /\ t[i] \in Changes => \E j \in (i + 1)..n : t[j] = "validate"
         /\ h => t[i] # "create"
  BY DEF PlanRest
<1>4. ~h => /\ \E j \in 1..n : t[j] = "validate"
            /\ \E c \in 1..n :
                  /\ t[c] = "create"
                  /\ \A i \in 1..(c - 1) : t[i] \in Reads
                  /\ \A i \in (c + 1)..n : t[i] # "create"
  BY DEF PlanRest
<1>5. ASSUME NEW i \in 1..(n - 1)
      PROVE  /\ u[i] # "rollback"
             /\ u[i] = "commit" <=> i = (n - 1) - 2
             /\ i > (n - 1) - 2 => u[i] = "look"
             /\ u[i] \in Changes => \E j \in (i + 1)..(n - 1) : u[j] = "validate"
  <2>1. u[i] = t[i + 1] /\ i + 1 \in 1..n
    BY <1>2
  <2>2. /\ u[i] # "rollback"
        /\ u[i] = "commit" <=> i + 1 = n - 2
        /\ i + 1 > n - 2 => u[i] = "look"
    BY <1>3, <2>1
  <2>3. ASSUME u[i] \in Changes PROVE \E j \in (i + 1)..(n - 1) : u[j] = "validate"
    <3>1. PICK j \in ((i + 1) + 1)..n : t[j] = "validate"
      BY <1>3, <2>1, <2>3
    <3>2. j \in 2..n /\ j - 1 \in (i + 1)..(n - 1)
      OBVIOUS
    <3> QED
      BY <1>2, <3>1, <3>2
  <2>4. (i = (n - 1) - 2 <=> i + 1 = n - 2) /\ (i > (n - 1) - 2 <=> i + 1 > n - 2)
    OBVIOUS
  <2> QED
    BY <2>2, <2>3, <2>4
<1>6. ASSUME g, NEW i \in 1..(n - 1) PROVE u[i] # "create"
  <2>1. u[i] = t[i + 1] /\ i + 1 \in 1..n
    BY <1>2
  <2>2. CASE h
    BY <1>3, <2>1, <2>2
  <2>3. CASE ~h
    <3>1. t[1] = "create"
      BY <1>6, <2>3
    <3>2. PICK c \in 1..n : /\ t[c] = "create"
                            /\ \A j \in 1..(c - 1) : t[j] \in Reads
                            /\ \A j \in (c + 1)..n : t[j] # "create"
      BY <1>4, <2>3
    <3>3. c = 1
      <4>1. "create" \notin Reads
        BY DEF Reads
      <4>2. ~(1 \in 1..(c - 1))
        BY <3>1, <3>2, <4>1
      <4> QED
        BY <4>2
    <3>4. i + 1 \in (c + 1)..n
      BY <2>1, <3>3
    <3> QED
      BY <2>1, <3>2, <3>4
  <2> QED
    BY <2>2, <2>3
<1>7. ASSUME ~g
      PROVE  /\ \E j \in 1..(n - 1) : u[j] = "validate"
             /\ \E c \in 1..(n - 1) :
                   /\ u[c] = "create"
                   /\ \A i \in 1..(c - 1) : u[i] \in Reads
                   /\ \A i \in (c + 1)..(n - 1) : u[i] # "create"
  <2>1. ~h /\ t[1] # "create"
    BY <1>7
  <2>2. PICK j \in 1..n : t[j] = "validate"
    BY <1>4, <2>1
  <2>3. PICK c \in 1..n : /\ t[c] = "create"
                          /\ \A i \in 1..(c - 1) : t[i] \in Reads
                          /\ \A i \in (c + 1)..n : t[i] # "create"
    BY <1>4, <2>1
  <2>4. c \in 2..n
    BY <2>1, <2>3
  <2>5. t[1] \in Reads /\ "validate" \notin Reads
    BY <2>3, <2>4 DEF Reads
  <2>6. j \in 2..n
    BY <2>2, <2>5
  <2>7. u[j - 1] = "validate" /\ j - 1 \in 1..(n - 1)
    BY <1>2, <2>2, <2>6
  <2>8. u[c - 1] = "create" /\ c - 1 \in 1..(n - 1)
    BY <1>2, <2>3, <2>4
  <2>9. ASSUME NEW i \in 1..((c - 1) - 1) PROVE u[i] \in Reads
    <3>1. i \in 1..(n - 1) /\ i + 1 \in 1..(c - 1)
      BY <2>4
    <3> QED
      BY <1>2, <2>3, <3>1
  <2>10. ASSUME NEW i \in ((c - 1) + 1)..(n - 1) PROVE u[i] # "create"
    <3>1. i \in 1..(n - 1) /\ i + 1 \in (c + 1)..n
      BY <2>4
    <3> QED
      BY <1>2, <2>3, <3>1
  <2> QED
    BY <2>7, <2>8, <2>9, <2>10
<1> QED
  BY <1>5, <1>6, <1>7 DEF PlanRest

LEMMA UndoAdvances ==
  ASSUME NEW n \in Nat, NEW k \in {1, 2}, NEW t, NEW u,
         \A i \in 1..(n - 1) : u[i] = t[i + 1], n > 0,
         UndoRest(t, n, k)
  PROVE  UndoRest(u, n - 1, k)
<1>1. n <= k + 2 /\ \A i \in 1..n : t[i] = IF i = n - k THEN "rollback" ELSE "look"
  BY DEF UndoRest
<1>2. n - 1 <= k + 2
  BY <1>1
<1>3. ASSUME NEW i \in 1..(n - 1) PROVE u[i] = IF i = (n - 1) - k THEN "rollback" ELSE "look"
  <2>1. u[i] = t[i + 1] /\ i + 1 \in 1..n /\ (i + 1 = n - k <=> i = (n - 1) - k)
    OBVIOUS
  <2> QED
    BY <1>1, <2>1
<1> QED
  BY <1>2, <1>3 DEF UndoRest

(* A step of the coordinator that leaves Emacs and the wire as they are.   *)
Quiet == UNCHANGED <<vars, wire, connected, evaluating, validated>>

LEMMA QuietIs ==
  ASSUME Quiet
  PROVE  /\ World
         /\ UNCHANGED <<enabled, status, snap, wire, connected, evaluating, validated>>
         /\ (Earned' <=> Earned) /\ (NoProposal' <=> NoProposal)
<1>1. UNCHANGED <<buf, author, enabled, status, snap, wire, connected, evaluating, validated>>
  BY DEF Quiet, vars, emacsVars, chkVars
<1>2. (Earned' <=> Earned) /\ (NoProposal' <=> NoProposal)
  BY <1>1 DEF Earned, NoProposal, Live
<1> QED
  BY <1>1, <1>2 DEF World

(* When a reply has arrived, nothing is on the wire.                       *)
LEMMA Heard ==
  ASSUME IInv, waiting, reply # "none"
  PROVE  /\ CallInv /\ WireInv /\ ValidInv /\ QuietInv /\ SettleInv
         /\ outcome = "none" /\ connected /\ wire = <<>> /\ Len(wire) = 0
         /\ evaluating # "no" => cause = "error"
         /\ Len(todo) \in Nat /\ todo # <<>> /\ Len(todo) > 0 /\ Head(todo) = todo[1]
         /\ Tail(todo) \in Seq(Methods) /\ Len(Tail(todo)) = Len(todo) - 1
         /\ \A i \in 1..(Len(todo) - 1) : Tail(todo)[i] = todo[i + 1]
<1>1. CallInv /\ WireInv /\ ValidInv /\ QuietInv /\ SettleInv
  BY DEF IInv
<1>2. outcome = "none" /\ connected /\ wire = <<>>
  BY <1>1 DEF CallInv, WireInv
<1>3. Len(wire) = 0
  BY <1>1, <1>2, SeqFacts DEF WireInv
<1>4. evaluating # "no" => cause = "error"
  BY <1>1, <1>2 DEF WireInv
<1>5. todo \in Seq(Methods) /\ todo # <<>>
  BY <1>1, <1>2 DEF CallInv
<1>6. /\ Len(todo) \in Nat /\ Len(todo) # 0 /\ Head(todo) = todo[1]
      /\ Tail(todo) \in Seq(Methods) /\ Len(Tail(todo)) = Len(todo) - 1
      /\ \A i \in 1..(Len(todo) - 1) : Tail(todo)[i] = todo[i + 1]
  BY <1>5, SeqFacts
<1> QED
  BY <1>1, <1>2, <1>3, <1>4, <1>5, <1>6

(* A reply that rejects the proposal starts the rollback.                  *)
LEMMA Rejected ==
  ASSUME IInv, waiting, reply = "bad", waiting' = FALSE, reply' = "none", Reject, Quiet
  PROVE  IInv'
<1>1. /\ CallInv /\ WireInv /\ ValidInv /\ QuietInv /\ SettleInv
      /\ outcome = "none" /\ connected /\ wire = <<>> /\ Len(wire) = 0
      /\ evaluating # "no" => cause = "error"
  BY Heard
<1>2. /\ UNCHANGED <<enabled, status, snap, wire, connected, evaluating, validated>>
      /\ (Earned' <=> Earned) /\ (NoProposal' <=> NoProposal)
  BY QuietIs
<1>3. cause = "none" /\ held
  BY <1>1 DEF CallInv
<1>4. cause' = "rejected" /\ held' = held /\ outcome' = "none" /\ todo' = Undo("rejected")
  BY <1>1 DEF Reject
<1>5. /\ todo' \in Seq(Methods) /\ Len(todo') = 4
      /\ \A i \in 1..4 : todo'[i] = IF i = 2 THEN "rollback" ELSE "look"
  BY <1>4, UndoIs
<1>6. Closing' = 2
  BY <1>4 DEF Closing
<1>7. CallInv'
  <2>1. UndoInv'
    <3>1. UndoRest(todo', 4, 2)
      BY <1>5 DEF UndoRest
    <3> QED
      BY <1>5, <1>6, <3>1 DEF UndoInv
  <2>2. todo' # <<>>
    BY <1>5, SeqFacts
  <2>3. held' = TRUE /\ waiting' = FALSE /\ connected' \in BOOLEAN
    <3>1. held \in BOOLEAN /\ connected \in BOOLEAN
      BY <1>1 DEF CallInv
    <3> QED
      BY <1>2, <1>3, <1>4, <3>1
  <2> QED
    BY <1>4, <1>5, <2>1, <2>2, <2>3 DEF CallInv, Replies, Outcomes
<1>8. WireInv'
  BY <1>1, <1>2, <1>3, <1>4 DEF WireInv
<1>9. ValidInv'
  BY <1>1, <1>2, <1>4 DEF ValidInv
<1>10. QuietInv'
  BY <1>1, <1>2, <1>3, <1>4 DEF QuietInv
<1>11. SettleInv'
  BY <1>4, <1>5, <1>6 DEF SettleInv
<1> QED
  BY <1>7, <1>8, <1>9, <1>10, <1>11 DEF IInv

(* A reply that lets the workflow go on.                                   *)
LEMMA Advanced ==
  ASSUME IInv, waiting, reply = "ok", waiting' = FALSE, reply' = "none", Advance, Quiet
  PROVE  IInv'
<1> DEFINE n == Len(todo)
           k == Len(todo')
<1>1. /\ CallInv /\ WireInv /\ ValidInv /\ QuietInv /\ SettleInv
      /\ outcome = "none" /\ connected /\ wire = <<>> /\ Len(wire) = 0
      /\ evaluating # "no" => cause = "error"
      /\ n \in Nat /\ todo # <<>> /\ n > 0 /\ Head(todo) = todo[1]
      /\ Tail(todo) \in Seq(Methods) /\ Len(Tail(todo)) = n - 1
      /\ \A i \in 1..(n - 1) : Tail(todo)[i] = todo[i + 1]
  BY Heard
<1>2. /\ UNCHANGED <<enabled, status, snap, wire, connected, evaluating, validated>>
      /\ (Earned' <=> Earned) /\ (NoProposal' <=> NoProposal)
  BY QuietIs
<1>3. /\ todo' = Tail(todo)
      /\ held' = (held \/ todo[1] = "create")
      /\ cause' = cause
      /\ outcome' = IF n > 1 THEN "none"
                    ELSE CASE cause = "none" -> "committed"
                           [] cause = "rejected" -> "rolled_back"
                           [] cause = "error" -> "error"
  BY <1>1 DEF Advance
<1>4. /\ todo' \in Seq(Methods) /\ k = n - 1
      /\ \A i \in 1..(n - 1) : todo'[i] = todo[i + 1]
      /\ (todo' = <<>>) <=> (k = 0)
  <2>1. todo' \in Seq(Methods)
    BY <1>1, <1>3
  <2>2. (todo' = <<>>) <=> (k = 0)
    BY <2>1, SeqFacts
  <2> QED
    BY <1>1, <1>3, <2>1, <2>2
<1>5. /\ held \in BOOLEAN /\ held' \in BOOLEAN /\ connected' \in BOOLEAN /\ waiting' \in BOOLEAN
      /\ (held => held') /\ cause \in {"none", "rejected", "error"}
  <2>1. held \in BOOLEAN /\ connected \in BOOLEAN /\ cause \in {"none", "rejected", "error"}
    BY <1>1 DEF CallInv
  <2>2. held' \in BOOLEAN /\ (held => held')
    BY <1>3, <2>1
  <2> QED
    BY <1>2, <2>1, <2>2
<1>6. Closing' = Closing /\ Closing \in {1, 2}
  BY <1>3 DEF Closing
<1>7. /\ cause = "none" => PlanRest(todo, n, held)
      /\ cause # "none" => UndoRest(todo, n, Closing) /\ held
  BY <1>1 DEF CallInv, PlanInv, UndoInv
<1>8. /\ cause = "none" /\ (n <= 2 \/ n = 3) => status[chk] = "committed"
      /\ cause # "none" /\ (n <= Closing \/ n = Closing + 1) => status[chk] = "rolled_back"
  BY <1>1 DEF SettleInv
<1>9. cause = "none" /\ (\A i \in 1..n : todo[i] = "validate" => i = 1) => Earned
  BY <1>1 DEF ValidInv
<1>10. QuietInv'
  <2>1. ~held' => NoProposal' /\ evaluating' = "no"
    BY <1>1, <1>2, <1>5 DEF QuietInv
  <2> QED
    BY <1>1, <1>2, <1>3, <2>1 DEF QuietInv
<1>11. CASE n > 1
  <2>1. outcome' = "none" /\ k > 0 /\ todo' # <<>>
    BY <1>1, <1>3, <1>4, <1>11
  <2>2. cause = "none" => PlanRest(todo', n - 1, held')
    <3> HIDE DEF n
    <3> QED
      BY <1>1, <1>3, <1>4, <1>5, <1>7, <1>11, PlanAdvances
  <2>3. cause # "none" => UndoRest(todo', n - 1, Closing)
    <3> HIDE DEF n
    <3> QED
      BY <1>1, <1>4, <1>6, <1>7, UndoAdvances
  <2>4. CallInv'
    <3>1. (cause' = "none" => PlanInv') /\ (cause' # "none" => UndoInv')
      BY <1>3, <1>4, <1>6, <2>2, <2>3 DEF PlanInv, UndoInv
    <3> QED
      BY <1>3, <1>4, <1>5, <1>7, <2>1, <3>1 DEF CallInv, Replies, Outcomes
  <2>5. WireInv'
    BY <1>1, <1>2, <1>3, <2>1 DEF WireInv
  <2>6. ValidInv'
    <3>1. ASSUME cause = "none", \A i \in 1..k : todo'[i] # "validate" PROVE Earned
      <4>1. ASSUME NEW i \in 1..n, i # 1 PROVE todo[i] # "validate"
        <5> HIDE DEF n, k
        <5>1. i - 1 \in 1..(n - 1) /\ i - 1 \in 1..k /\ (i - 1) + 1 = i
          BY <1>1, <1>4, <4>1
        <5>2. todo'[i - 1] = todo[(i - 1) + 1]
          BY <1>4, <5>1
        <5> QED
          BY <3>1, <5>1, <5>2
      <4> QED
        BY <1>9, <3>1, <4>1
    <3> QED
      BY <1>1, <1>2, <1>3, <3>1 DEF ValidInv
  <2>7. SettleInv'
    <3>1. /\ cause = "none" /\ k <= 2 => status[chk] = "committed"
          /\ cause # "none" /\ k <= Closing => status[chk] = "rolled_back"
      <4> HIDE DEF n, k
      <4>1. (k <= 2 => n <= 2 \/ n = 3) /\ (k <= Closing => n <= Closing \/ n = Closing + 1)
        BY <1>1, <1>4, <1>6
      <4> QED
        BY <1>8, <4>1
    <3> QED
      BY <1>2, <1>3, <1>6, <2>1, <3>1 DEF SettleInv
  <2> QED
    BY <1>10, <2>4, <2>5, <2>6, <2>7 DEF IInv
<1>12. CASE ~(n > 1)
  <2>1. n = 1 /\ k = 0 /\ todo' = <<>>
    <3> HIDE DEF n, k
    <3> QED
      BY <1>1, <1>4, <1>12
  <2>2. /\ cause = "none" => outcome' = "committed" /\ status[chk] = "committed"
        /\ cause = "rejected" => outcome' = "rolled_back" /\ status[chk] = "rolled_back"
        /\ cause = "error" => outcome' = "error" /\ status[chk] = "rolled_back"
    <3>1. n <= 2 /\ n <= Closing
      BY <1>6, <2>1
    <3> QED
      BY <1>3, <1>8, <1>12, <3>1
  <2>3. outcome' # "none"
    BY <1>5, <2>2
  <2>4. CallInv'
    BY <1>3, <1>4, <1>5, <1>7, <2>1, <2>2, <2>3 DEF CallInv, Replies, Outcomes
  <2>5. WireInv'
    BY <1>1, <1>2, <1>5, <2>2, <2>3 DEF WireInv
  <2>6. ValidInv'
    BY <1>1, <1>2, <2>3 DEF ValidInv
  <2>7. SettleInv'
    BY <1>2, <1>5, <2>2, <2>3 DEF SettleInv
  <2> QED
    BY <1>10, <2>4, <2>5, <2>6, <2>7 DEF IInv
<1> QED
  BY <1>11, <1>12

(* The coordinator's steps.                                                *)
LEMMA WireStays ==
  ASSUME IInv, wire' = wire
  PROVE  Cut
  BY SeqFacts DEF IInv, WireInv, Cut

LEMMA ReceiveKeeps == IInv /\ Receive => IInv'
<1> SUFFICES ASSUME IInv, Receive PROVE IInv'
  OBVIOUS
<1>1. /\ waiting /\ reply # "none" /\ waiting' = FALSE /\ reply' = "none" /\ Quiet
      /\ CASE reply = "ok" -> Advance \/ (Questionable /\ Throw)
           [] reply = "bad" -> Reject
           [] reply = "error" -> Throw
  BY DEF Receive, Quiet
<1>2. reply \in {"ok", "bad", "error"} /\ outcome = "none" /\ connected
  BY <1>1, Heard DEF IInv, CallInv, Replies
<1>3. CASE Throw
  <2>1. World /\ UNCHANGED <<wire, connected, evaluating, validated>> /\ connected' \in BOOLEAN
    BY <1>1, <1>2, QuietIs DEF IInv, CallInv
  <2>2. Cut
    BY <2>1, WireStays
  <2> QED
    BY <1>1, <1>2, <1>3, <2>1, <2>2, GaveUp
<1>4. CASE reply = "ok" /\ Advance
  BY <1>1, <1>4, Advanced
<1>5. CASE reply = "bad"
  BY <1>1, <1>5, Rejected
<1> QED
  BY <1>1, <1>2, <1>3, <1>4, <1>5

LEMMA TimeoutKeeps == IInv /\ Timeout => IInv'
<1> SUFFICES ASSUME IInv, Timeout PROVE IInv'
  OBVIOUS
<1>1. /\ waiting /\ waiting' = FALSE /\ reply' = "none" /\ Throw
      /\ UNCHANGED <<vars, wire, connected, evaluating, validated>>
  BY DEF Timeout
<1>2. outcome = "none" /\ connected' \in BOOLEAN
  BY <1>1 DEF IInv, CallInv
<1>3. World
  BY <1>1, NothingHappens
<1>4. Cut
  BY <1>1, WireStays
<1> QED
  BY <1>1, <1>2, <1>3, <1>4, GaveUp

LEMMA SendKeeps == IInv /\ Send => IInv'
<1> SUFFICES ASSUME IInv, Send PROVE IInv'
  OBVIOUS
<1>1. CASE connected
  BY <1>1, Sent
<1>2. CASE ~connected
  <2>1. /\ outcome = "none" /\ ~waiting /\ Throw
        /\ UNCHANGED <<vars, wire, waiting, reply, connected, evaluating, validated>>
    BY <1>2 DEF Send
  <2>2. /\ waiting \in BOOLEAN /\ connected' \in BOOLEAN /\ reply' = "none"
    BY <2>1 DEF IInv, CallInv
  <2>3. waiting' = FALSE
    BY <2>1, <2>2
  <2>4. World
    BY <2>1, NothingHappens
  <2>5. Cut
    BY <2>1, WireStays
  <2> QED
    BY <2>1, <2>2, <2>3, <2>4, <2>5, GaveUp
<1> QED
  BY <1>1, <1>2

LEMMA DisconnectKeeps == IInv /\ Disconnect => IInv'
<1> SUFFICES ASSUME IInv, Disconnect PROVE IInv'
  OBVIOUS
<1>1. /\ connected' = FALSE /\ waiting' = FALSE /\ reply' = "none"
      /\ \E n \in 0..Len(wire) : wire' = SubSeq(wire, 1, n)
      /\ IF waiting THEN Throw ELSE UNCHANGED <<todo, held, cause, outcome>>
      /\ UNCHANGED <<vars, evaluating, validated>>
  BY DEF Disconnect
<1>2. World
  BY <1>1, NothingHappens
<1>3. Cut
  <2>1. wire \in Seq(Methods) /\ Len(wire) \in Nat
    BY SeqFacts DEF IInv, WireInv
  <2>2. PICK n \in 0..Len(wire) : wire' = SubSeq(wire, 1, n)
    BY <1>1
  <2>3. n \in Nat /\ n <= Len(wire)
    BY <2>1
  <2>4. \A i \in 1..n : wire[i] \in Methods
    BY <2>1, <2>3, SeqFacts
  <2>5. wire' \in Seq(Methods) /\ Len(wire') = n /\ \A i \in 1..n : wire'[i] = wire[i]
    BY <2>1, <2>2, <2>3, <2>4
  <2> QED
    BY <2>3, <2>5 DEF Cut
<1>4. CASE waiting
  <2>1. outcome = "none" /\ Throw
    BY <1>1, <1>4 DEF IInv, CallInv
  <2> QED
    BY <1>1, <1>2, <1>3, <2>1, GaveUp
<1>5. CASE ~waiting
  <2>1. UNCHANGED <<todo, held, cause, outcome>>
    BY <1>1, <1>5
  <2> QED
    BY <1>1, <1>2, <1>3, <1>5, <2>1, Lost
<1> QED
  BY <1>4, <1>5

(* When Emacs reads a request: outside a rollback it is the one that is    *)
(* waited for.                                                             *)
LEMMA Read ==
  ASSUME IInv, wire # <<>>
  PROVE  /\ CallInv /\ WireInv /\ ValidInv /\ QuietInv /\ SettleInv
         /\ wire \in Seq(Methods) /\ Len(wire) \in {1, 2} /\ Head(wire) = wire[1]
         /\ wire[1] \in Methods
         /\ Tail(wire) \in Seq(Methods) /\ Len(Tail(wire)) = Len(wire) - 1
         /\ Len(wire) = 1 <=> Tail(wire) = <<>>
         /\ Len(wire) = 2 => Tail(wire)[1] = "look" /\ wire[2] = "look"
         /\ reply = "none" /\ outcome \notin {"committed", "rolled_back"}
         /\ waiting => outcome = "none" /\ wire[Len(wire)] = todo[1]
         /\ waiting /\ Len(wire) = 1 => todo[1] = wire[1]
         /\ outcome = "none" /\ cause # "error" =>
               waiting /\ Len(wire) = 1 /\ evaluating = "no"
<1>1. CallInv /\ WireInv /\ ValidInv /\ QuietInv /\ SettleInv
  BY DEF IInv
<1>2. wire \in Seq(Methods) /\ Len(wire) <= 2 /\ (Len(wire) = 2 => wire[2] = "look")
  BY <1>1 DEF WireInv
<1>3. /\ Len(wire) \in Nat /\ Len(wire) # 0 /\ Head(wire) = wire[1] /\ wire[1] \in Methods
      /\ Tail(wire) \in Seq(Methods) /\ Len(Tail(wire)) = Len(wire) - 1
      /\ \A i \in 1..(Len(wire) - 1) : Tail(wire)[i] = wire[i + 1]
  BY <1>2, SeqFacts
<1>4. Len(wire) \in {1, 2}
  BY <1>2, <1>3
<1>5. Len(wire) = 1 <=> Tail(wire) = <<>>
  BY <1>3, <1>4, SeqFacts
<1>6. Len(wire) = 2 => Tail(wire)[1] = "look"
  BY <1>2, <1>3
<1>7. reply = "none" /\ outcome \notin {"committed", "rolled_back"}
  BY <1>1 DEF WireInv
<1>8. waiting => outcome = "none" /\ wire[Len(wire)] = todo[1]
  BY <1>1, <1>7 DEF CallInv, WireInv
<1>9. ASSUME outcome = "none", cause # "error"
      PROVE  waiting /\ Len(wire) = 1 /\ evaluating = "no"
  <2>1. ~Late
    BY <1>9 DEF Late
  <2>2. Len(wire) <= 1 /\ waiting
    BY <1>1, <1>9, <2>1 DEF WireInv
  <2>3. evaluating = "no"
    BY <1>1, <1>9 DEF WireInv
  <2> QED
    BY <1>4, <2>2, <2>3
<1> QED
  BY <1>1, <1>2, <1>3, <1>4, <1>5, <1>6, <1>7, <1>8, <1>9

(* What Emacs may do with the request it reads, when it answers r.         *)
AnswerWorld(r) ==
    /\ enabled' = enabled
    /\ status[chk] \in {"committed", "rolled_back"} => status'[chk] = status[chk]
    /\ wire[1] = "commit" /\ r = "ok" => status'[chk] = "committed"
    /\ wire[1] = "rollback" /\ r = "ok" => status'[chk] = "rolled_back"
    /\ status'[chk] = "rolled_back" => NoProposal' /\ cause # "none"
    /\ status'[chk] = "open" =>
          snap'[chk].buffer = target /\ \A s \in Segs : snap'[chk].content[s] # Proposal
    /\ ~held => NoProposal'
    /\ wire[1] \notin Writes /\ cause = "none" => (Earned => Earned')
    /\ wire[1] = "validate" /\ r = "ok" => Earned'
    /\ r = "bad" => wire[1] \in {"identity", "validate", "rename"}

LEMMA Answered ==
  ASSUME IInv, NEW r \in {"ok", "bad", "error"}, wire # <<>>, Answer(r), AnswerWorld(r),
         evaluating' = evaluating
  PROVE  IInv'
<1>1. /\ CallInv /\ WireInv /\ ValidInv /\ QuietInv /\ SettleInv
      /\ wire \in Seq(Methods) /\ Len(wire) \in {1, 2} /\ Head(wire) = wire[1]
      /\ wire[1] \in Methods
      /\ Tail(wire) \in Seq(Methods) /\ Len(Tail(wire)) = Len(wire) - 1
      /\ Len(wire) = 1 <=> Tail(wire) = <<>>
      /\ Len(wire) = 2 => Tail(wire)[1] = "look" /\ wire[2] = "look"
      /\ reply = "none" /\ outcome \notin {"committed", "rolled_back"}
      /\ waiting => outcome = "none" /\ wire[Len(wire)] = todo[1]
      /\ waiting /\ Len(wire) = 1 => todo[1] = wire[1]
      /\ outcome = "none" /\ cause # "error" =>
            waiting /\ Len(wire) = 1 /\ evaluating = "no"
  BY Read
<1>2. /\ wire' = Tail(wire)
      /\ reply' = IF waiting /\ Len(wire) = 1 THEN r ELSE "none"
      /\ UNCHANGED <<todo, waiting, held, cause, outcome, connected>>
  BY <1>1 DEF Answer, callVars
<1>3. wire' # <<>> => Len(wire) = 2 /\ wire'[1] = "look"
  BY <1>1, <1>2
<1>4. reply' # "none" => waiting /\ Len(wire) = 1 /\ reply' = r /\ todo[1] = wire[1]
  BY <1>1, <1>2
<1>5. outcome = "none" =>
         /\ Len(todo) \in Nat /\ Len(todo) > 0
         /\ cause # "none" => todo[1] = (IF Len(todo) = Closing + 1 THEN "rollback" ELSE "look")
         /\ cause = "none" => todo[1] # "rollback" /\ (todo[1] = "commit" <=> Len(todo) = 3)
         /\ ~held => cause = "none" /\ todo[1] \in Reads \cup {"create"}
  BY <1>1, NextRequest
<1>6. CallInv'
  <2>1. PlanInv' <=> PlanInv
    BY <1>2 DEF PlanInv, PlanRest
  <2>2. UndoInv' <=> UndoInv
    BY <1>2 DEF UndoInv, UndoRest, Closing
  <2>3. ASSUME reply' = "bad" PROVE cause = "none" /\ held
    <3>1. waiting /\ outcome = "none" /\ todo[1] \in {"identity", "validate", "rename"}
      BY <1>1, <1>4, <2>3 DEF AnswerWorld
    <3>2. todo[1] \notin Reads \cup {"create"} /\ todo[1] \notin {"look", "rollback"}
      BY <3>1 DEF Reads
    <3>3. cause = "none"
      BY <1>5, <3>1, <3>2
    <3>4. held
      BY <1>5, <3>1, <3>2
    <3> QED
      BY <3>3, <3>4
  <2>4. reply' \in Replies /\ (reply' # "none" => waiting)
    BY <1>2, <1>4 DEF Replies
  <2> QED
    BY <1>1, <1>2, <2>1, <2>2, <2>3, <2>4 DEF CallInv
<1>7. WireInv'
  <2>1. wire' \in Seq(Methods) /\ Len(wire') \in {0, 1} /\ Len(wire') = Len(wire) - 1
        /\ (wire' = <<>> <=> Len(wire') = 0)
    <3>1. wire' \in Seq(Methods) /\ Len(wire') = Len(wire) - 1
      BY <1>1, <1>2
    <3>2. wire' = <<>> <=> Len(wire') = 0
      BY <3>1, SeqFacts
    <3>3. CASE Len(wire) = 1
      BY <3>1, <3>2, <3>3
    <3>4. CASE Len(wire) = 2
      BY <3>1, <3>2, <3>4
    <3> QED
      BY <1>1, <3>3, <3>4
  <2>2. evaluating' \in {"no", "eval", "babel"} /\ (evaluating' # "no" => enabled')
    BY <1>1 DEF WireInv, AnswerWorld
  <2>3. reply' # "none" => wire' = <<>>
    BY <1>1, <1>2, <1>4
  <2>4. ASSUME waiting, reply' = "none" PROVE wire' # <<>> /\ wire'[Len(wire')] = todo[1]
    <3>1. Len(wire) = 2 /\ wire[2] = todo[1]
      BY <1>1, <1>2, <2>4
    <3>2. wire' # <<>> /\ Len(wire') = 1
      BY <1>1, <1>2, <2>1, <3>1
    <3> QED
      BY <1>1, <1>3, <3>1, <3>2
  <2>5. Late' <=> Late
    BY <1>2 DEF Late
  <2>6. ASSUME outcome = "none", ~Late PROVE wire' = <<>>
    <3>1. Len(wire) <= 1
      BY <1>1, <2>6 DEF WireInv
    <3> QED
      BY <1>1, <1>2, <3>1
  <2>7. outcome = "none" /\ cause # "error" => evaluating' = "no"
    BY <1>1
  <2>8. Len(wire') <= 1 /\ Len(wire') <= 2 /\ Len(wire') # 2
    <3>1. CASE Len(wire') = 0
      BY <3>1
    <3>2. CASE Len(wire') = 1
      BY <3>2
    <3> QED
      BY <2>1, <3>1, <3>2
  <2> QED
    BY <1>1, <1>2, <2>1, <2>2, <2>3, <2>4, <2>5, <2>6, <2>7, <2>8 DEF WireInv
<1>8. ValidInv'
  <2>1. ASSUME outcome = "none", cause = "none",
               \A i \in 1..Len(todo) : todo[i] = "validate" => i = 1 /\ reply' = "ok"
        PROVE  Earned'
    <3>1. waiting /\ Len(wire) = 1 /\ todo[1] = wire[1] /\ reply' = r /\ 1 \in 1..Len(todo)
      BY <1>1, <1>2, <1>5, <2>1
    <3>2. CASE todo[1] = "validate"
      BY <2>1, <3>1, <3>2 DEF AnswerWorld
    <3>3. CASE todo[1] # "validate"
      <4>1. \A i \in 1..Len(todo) : todo[i] # "validate"
        BY <2>1, <3>3
      <4>2. Earned
        BY <1>1, <2>1, <4>1 DEF ValidInv
      <4>3. PlanInv
        BY <1>1, <2>1 DEF CallInv
      <4>4. todo[1] \notin Changes
        <5>1. \A j \in (1 + 1)..Len(todo) : j \in 1..Len(todo)
          OBVIOUS
        <5> QED
          BY <3>1, <4>1, <4>3, <5>1 DEF PlanInv, PlanRest
      <4> QED
        BY <2>1, <3>1, <4>2, <4>4 DEF AnswerWorld, Changes
    <3> QED
      BY <3>2, <3>3
  <2> QED
    BY <1>2, <1>3, <2>1 DEF ValidInv
<1>9. QuietInv'
  <2>1. ~held => NoProposal' /\ evaluating = "no"
    BY <1>1 DEF AnswerWorld, QuietInv
  <2> QED
    BY <1>2, <1>3, <2>1 DEF QuietInv, AnswerWorld, Reads, Writes
<1>10. SettleInv'
  <2>1. ASSUME outcome = "none", cause = "none", Len(todo) <= 2 \/ (Len(todo) = 3 /\ reply' = "ok")
        PROVE  status'[chk] = "committed"
    <3>1. CASE Len(todo) <= 2
      BY <1>1, <2>1, <3>1 DEF SettleInv, AnswerWorld
    <3>2. CASE Len(todo) = 3 /\ reply' = "ok"
      <4>1. r = "ok" /\ wire[1] = "commit"
        BY <1>4, <1>5, <2>1, <3>2
      <4> QED
        BY <4>1 DEF AnswerWorld
    <3> QED
      BY <2>1, <3>1, <3>2
  <2>2. ASSUME outcome = "none", cause # "none",
               Len(todo) <= Closing \/ (Len(todo) = Closing + 1 /\ reply' = "ok")
        PROVE  status'[chk] = "rolled_back"
    <3>1. CASE Len(todo) <= Closing
      BY <1>1, <2>2, <3>1 DEF SettleInv, AnswerWorld
    <3>2. CASE Len(todo) = Closing + 1 /\ reply' = "ok"
      <4>1. r = "ok" /\ wire[1] = "rollback"
        BY <1>4, <1>5, <2>2, <3>2
      <4> QED
        BY <4>1 DEF AnswerWorld
    <3> QED
      BY <2>2, <3>1, <3>2
  <2>3. outcome = "error" /\ held => status'[chk] \in {"committed", "rolled_back"}
    BY <1>1 DEF SettleInv, AnswerWorld
  <2>4. Closing' = Closing
    BY <1>2 DEF Closing
  <2> QED
    BY <1>1, <1>2, <2>1, <2>2, <2>3, <2>4 DEF SettleInv
<1> QED
  BY <1>6, <1>7, <1>8, <1>9, <1>10 DEF IInv

(* A change of one region of the target buffer.                            *)
LEMMA TargetWritten ==
  ASSUME TypeOK, NEW s \in Segs, NEW w \in Words, NEW src \in Sources,
         WriteRegion(target, s, w, src)
  PROVE  /\ Live(target) /\ enabled' = enabled
         /\ \A x \in Segs :
               /\ buf'[target].text[x] = IF x = s THEN w ELSE buf[target].text[x]
               /\ author'[target][x] = IF x = s THEN src ELSE author[target][x]
<1> DEFINE t == [buf[target].text EXCEPT ![s] = w]
<1>1. /\ Live(target) /\ enabled' = enabled /\ w # buf[target].text[s]
      /\ buf' = [buf EXCEPT ![target] = Changed(target, t, src)]
      /\ Attribute(target, t, src)
  BY DEF WriteRegion
<1>2. /\ BuffersTypeOK /\ target \in Buffers /\ buf[target].text \in Text /\ t \in Text
      /\ buf \in [Buffers -> Buffer] /\ author \in [Buffers -> [Segs -> Sources]]
  BY WorkflowAssumption DEF TypeOK, BuffersTypeOK, Buffer, Text
<1>3. \A x \in Segs : t[x] = IF x = s THEN w ELSE buf[target].text[x]
  BY <1>2 DEF Text
<1> HIDE DEF t
<1>4. Changed(target, t, src).text = t
  BY <1>2, ChangedFields
<1>5. buf'[target] = Changed(target, t, src)
  BY <1>1, <1>2
<1>6. author'[target] = [x \in Segs |-> IF t[x] = buf[target].text[x]
                                        THEN author[target][x] ELSE src]
  BY <1>1, <1>2 DEF Attribute
<1> QED
  BY <1>1, <1>3, <1>4, <1>5, <1>6

(* Emacs's answers.                                                        *)
LEMMA Unmoved ==
  ASSUME IInv, NEW r \in {"ok", "bad", "error"}, UNCHANGED <<vars, validated>>,
         r = "ok" => wire[1] \notin {"commit", "rollback", "validate"},
         r = "bad" => wire[1] \in {"identity", "validate", "rename"}
  PROVE  AnswerWorld(r)
<1>1. UNCHANGED <<buf, author, enabled, status, snap, validated>>
  BY DEF vars, emacsVars, chkVars
<1>2. (Earned' <=> Earned) /\ (NoProposal' <=> NoProposal)
  BY <1>1 DEF Earned, NoProposal, Live
<1> QED
  BY <1>1, <1>2 DEF IInv, QuietInv, AnswerWorld

LEMMA RefuseKeeps == IInv /\ Refuse => IInv'
<1> SUFFICES ASSUME IInv, Refuse PROVE IInv'
  OBVIOUS
<1>1. /\ wire # <<>> /\ Answer("error")
      /\ UNCHANGED <<vars, validated>> /\ evaluating' = evaluating
  BY DEF Refuse, Reading
<1>2. AnswerWorld("error")
  BY <1>1, Unmoved
<1> QED
  BY <1>1, <1>2, Answered

LEMMA LookKeeps == IInv /\ Look => IInv'
<1> SUFFICES ASSUME IInv, Look PROVE IInv'
  OBVIOUS
<1>1. /\ wire # <<>> /\ Head(wire) \in {"look", "bounds"} /\ Answer("ok")
      /\ UNCHANGED <<vars, validated>> /\ evaluating' = evaluating
  BY DEF Look, Reading
<1>2. wire[1] \in {"look", "bounds"}
  BY <1>1, Read
<1>3. AnswerWorld("ok")
  BY <1>1, <1>2, Unmoved
<1> QED
  BY <1>1, <1>3, Answered

LEMMA IdentifyKeeps == IInv /\ Identify => IInv'
<1> SUFFICES ASSUME IInv, Identify PROVE IInv'
  OBVIOUS
<1>1. /\ wire # <<>> /\ Head(wire) = "identity" /\ \E r \in {"ok", "bad"} : Answer(r)
      /\ UNCHANGED <<vars, validated>> /\ evaluating' = evaluating
  BY DEF Identify, Reading
<1>2. wire[1] = "identity"
  BY <1>1, Read
<1>3. PICK r \in {"ok", "bad"} : Answer(r)
  BY <1>1
<1>4. AnswerWorld(r)
  BY <1>1, <1>2, Unmoved
<1> QED
  BY <1>1, <1>3, <1>4, Answered

LEMMA ValidateKeeps == TypeOK /\ IInv /\ Validate => IInv'
<1> SUFFICES ASSUME TypeOK, IInv, Validate PROVE IInv'
  OBVIOUS
<1>1. /\ wire # <<>> /\ Head(wire) = "validate" /\ evaluating' = evaluating /\ UNCHANGED vars
      /\ \/ Answer("ok") /\ validated' = buf[target].text
         \/ Answer("bad") /\ UNCHANGED validated
  BY DEF Validate, Reading
<1>2. wire[1] = "validate"
  BY <1>1, Read
<1>3. UNCHANGED <<buf, author, enabled, status, snap>>
  BY <1>1 DEF vars, emacsVars, chkVars
<1>4. CASE Answer("ok") /\ validated' = buf[target].text
  <2>1. buf[target].text \in Text
    BY WorkflowAssumption DEF TypeOK, BuffersTypeOK, Buffer
  <2>2. Earned'
    BY <1>3, <1>4, <2>1, WorkflowAssumption DEF Earned, Live
  <2>3. NoProposal' <=> NoProposal
    BY <1>3 DEF NoProposal, Live
  <2>4. AnswerWorld("ok")
    BY <1>2, <1>3, <2>2, <2>3 DEF IInv, QuietInv, AnswerWorld
  <2> QED
    BY <1>1, <1>4, <2>4, Answered
<1>5. CASE Answer("bad") /\ UNCHANGED validated
  <2>1. AnswerWorld("bad")
    BY <1>1, <1>2, <1>5, Unmoved
  <2> QED
    BY <1>1, <1>5, <2>1, Answered
<1> QED
  BY <1>1, <1>4, <1>5

LEMMA CreateKeeps == TypeOK /\ IInv /\ Create => IInv'
<1> SUFFICES ASSUME TypeOK, IInv, Create PROVE IInv'
  OBVIOUS
<1>1. /\ wire # <<>> /\ Head(wire) = "create" /\ Answer("ok") /\ CheckpointCreate(chk, target)
      /\ UNCHANGED <<evaluating, validated>>
  BY DEF Create, Reading
<1>2. wire[1] = "create"
  BY <1>1, Read
<1>3. /\ UNCHANGED <<buf, author, enabled, validated>> /\ Live(target)
      /\ status' = [status EXCEPT ![chk] = "open"]
      /\ snap' = [snap EXCEPT ![chk] = SnapshotOf(target)]
      /\ status[chk] = "new"
  BY <1>1 DEF CheckpointCreate, emacsVars
<1>4. status'[chk] = "open" /\ snap'[chk] = SnapshotOf(target)
  BY <1>3, WorkflowAssumption DEF TypeOK
<1>5. (Earned' <=> Earned) /\ (NoProposal' <=> NoProposal)
  BY <1>3 DEF Earned, NoProposal, Live
<1>6. ~held /\ NoProposal
  BY <1>1, <1>2 DEF IInv, QuietInv
<1>7. SnapshotOf(target).buffer = target /\ SnapshotOf(target).content = Accessible(target)
  BY DEF SnapshotOf
<1>8. \A s \in Segs : Accessible(target)[s] # Proposal
  BY <1>3, <1>6, WorkflowAssumption DEF Accessible, Part, NoProposal
<1>9. AnswerWorld("ok")
  BY <1>2, <1>3, <1>4, <1>5, <1>6, <1>7, <1>8 DEF AnswerWorld
<1> QED
  BY <1>1, <1>9, Answered

LEMMA ApplyEditKeeps == TypeOK /\ IInv /\ ApplyEdit => IInv'
<1> SUFFICES ASSUME TypeOK, IInv, ApplyEdit PROVE IInv'
  OBVIOUS
<1>1. /\ wire # <<>> /\ Head(wire) \in Writes
      /\ \/ \E s \in Segs : WriteRegion(target, s, Proposal, "rpc") /\ Answer("ok")
         \/ Head(wire) = "rename" /\ Answer("bad") /\ UNCHANGED emacsVars
      /\ UNCHANGED <<chkVars, evaluating, validated>>
  BY DEF ApplyEdit, Reading, Writes
<1>2. wire[1] = Head(wire)
  BY <1>1, Read
<1>3. CASE \E s \in Segs : WriteRegion(target, s, Proposal, "rpc") /\ Answer("ok")
  <2>1. PICK s \in Segs : WriteRegion(target, s, Proposal, "rpc")
    BY <1>3
  <2>2. enabled' = enabled
    BY <2>1 DEF WriteRegion
  <2>3. status' = status /\ snap' = snap
    BY <1>1 DEF chkVars
  <2>4. held /\ status[chk] # "rolled_back"
    BY <1>1, <1>2 DEF IInv, QuietInv, Reads, Writes
  <2>5. wire[1] \notin {"commit", "rollback", "validate"} /\ wire[1] \in Writes
    BY <1>1, <1>2 DEF Writes
  <2>6. AnswerWorld("ok")
    BY <2>2, <2>3, <2>4, <2>5 DEF IInv, QuietInv, AnswerWorld
  <2> QED
    BY <1>1, <1>3, <2>6, Answered
<1>4. CASE Head(wire) = "rename" /\ Answer("bad") /\ UNCHANGED emacsVars
  <2>1. UNCHANGED <<vars, validated>>
    BY <1>1, <1>4 DEF vars
  <2>2. AnswerWorld("bad")
    BY <1>2, <1>4, <2>1, Unmoved
  <2> QED
    BY <1>1, <1>4, <2>2, Answered
<1> QED
  BY <1>1, <1>3, <1>4

LEMMA CommitKeeps == TypeOK /\ IInv /\ Commit => IInv'
<1> SUFFICES ASSUME TypeOK, IInv, Commit PROVE IInv'
  OBVIOUS
<1>1. /\ wire # <<>> /\ Head(wire) = "commit" /\ Answer("ok") /\ CheckpointCommit(chk)
      /\ UNCHANGED <<evaluating, validated>>
  BY DEF Commit, Reading
<1>2. wire[1] = "commit"
  BY <1>1, Read
<1>3. /\ UNCHANGED <<buf, author, enabled, validated>>
      /\ status' = [status EXCEPT ![chk] = "committed"] /\ status[chk] = "open"
  BY <1>1 DEF CheckpointCommit, emacsVars
<1>4. status'[chk] = "committed"
  BY <1>3, WorkflowAssumption DEF TypeOK
<1>5. (Earned' <=> Earned) /\ (NoProposal' <=> NoProposal)
  BY <1>3 DEF Earned, NoProposal, Live
<1>6. AnswerWorld("ok")
  BY <1>2, <1>3, <1>4, <1>5 DEF IInv, QuietInv, AnswerWorld
<1> QED
  BY <1>1, <1>6, Answered

LEMMA RollbackKeeps == TypeOK /\ IInv /\ Rollback => IInv'
<1> SUFFICES ASSUME TypeOK, IInv, Rollback PROVE IInv'
  OBVIOUS
<1>1. /\ wire # <<>> /\ Head(wire) = "rollback" /\ Answer("ok") /\ CheckpointRollback(chk)
      /\ UNCHANGED <<evaluating, validated>>
  BY DEF Rollback, Reading
<1>2. wire[1] = "rollback"
  BY <1>1, Read
<1>3. cause # "none" /\ held
  BY <1>1, <1>2 DEF IInv, QuietInv, CallInv
<1>4. /\ enabled' = enabled /\ status[chk] = "open"
      /\ status' = [status EXCEPT ![chk] = "rolled_back"]
  BY <1>1 DEF CheckpointRollback
<1>5. status'[chk] = "rolled_back"
  BY <1>4, WorkflowAssumption DEF TypeOK
<1>6. snap[chk].buffer = target /\ \A s \in Segs : snap[chk].content[s] # Proposal
  BY <1>4 DEF IInv, QuietInv
<1>7. buf'[target].text = snap[chk].content
  <2>1. /\ buf' = [buf EXCEPT ![target] = RolledBackBuffer(chk)]
        /\ RolledBackBuffer(chk).text = snap[chk].content
    BY <1>1, <1>6, RollbackFacts, WorkflowAssumption
  <2>2. buf \in [Buffers -> Buffer] /\ target \in Buffers
    BY WorkflowAssumption DEF TypeOK, BuffersTypeOK
  <2>3. buf'[target] = RolledBackBuffer(chk)
    BY <2>1, <2>2
  <2> QED
    BY <2>1, <2>3
<1>8. NoProposal'
  BY <1>6, <1>7 DEF NoProposal
<1>9. AnswerWorld("ok")
  BY <1>2, <1>3, <1>4, <1>5, <1>8 DEF AnswerWorld
<1> QED
  BY <1>1, <1>9, Answered

(* Emacs begins an evaluation, and ends it.                                *)
LEMMA StartEvalKeeps == IInv /\ StartEval => IInv'
<1> SUFFICES ASSUME IInv, StartEval PROVE IInv'
  OBVIOUS
<1>1. /\ enabled /\ wire # <<>> /\ Head(wire) \in {"eval", "babel"} /\ evaluating = "no"
      /\ evaluating' = Head(wire) /\ wire' = Tail(wire)
      /\ UNCHANGED <<vars, reply, connected, validated>>
      /\ UNCHANGED <<todo, waiting, held, cause, outcome>>
  BY DEF StartEval, Reading, callVars
<1>2. /\ CallInv /\ WireInv /\ ValidInv /\ QuietInv /\ SettleInv
      /\ Len(wire) \in {1, 2} /\ Head(wire) = wire[1]
      /\ Tail(wire) \in Seq(Methods) /\ Len(Tail(wire)) = Len(wire) - 1
      /\ Len(wire) = 1 <=> Tail(wire) = <<>>
      /\ Len(wire) = 2 => Tail(wire)[1] = "look" /\ wire[2] = "look"
      /\ reply = "none" /\ outcome \notin {"committed", "rolled_back"}
      /\ waiting => outcome = "none" /\ wire[Len(wire)] = todo[1]
      /\ waiting /\ Len(wire) = 1 => todo[1] = wire[1]
      /\ outcome = "none" /\ cause # "error" => waiting /\ Len(wire) = 1
  BY <1>1, Read
<1>3. UNCHANGED <<buf, author, enabled, status, snap, validated>>
  BY <1>1 DEF vars, emacsVars, chkVars
<1>4. (Earned' <=> Earned) /\ (NoProposal' <=> NoProposal)
  BY <1>3 DEF Earned, NoProposal, Live
<1>5. wire' # <<>> => wire'[1] = "look"
  BY <1>1, <1>2
<1>6. CallInv'
  <2>1. PlanInv' <=> PlanInv
    BY <1>1 DEF PlanInv, PlanRest
  <2>2. UndoInv' <=> UndoInv
    BY <1>1 DEF UndoInv, UndoRest, Closing
  <2> QED
    BY <1>1, <1>2, <2>1, <2>2 DEF CallInv
<1>7. WireInv'
  <2>1. Late' <=> Late
    BY <1>1 DEF Late
  <2>2. CASE Len(wire) = 1
    <3>1. wire' = <<>> /\ wire' \in Seq(Methods) /\ Len(wire') = 0
      BY <1>1, <1>2, <2>2, EmptySeq
    <3>2. waiting => evaluating' = todo[1] /\ cause = "none"
      <4>1. ASSUME waiting PROVE todo[1] \in {"eval", "babel"} /\ outcome = "none"
        BY <1>1, <1>2, <2>2, <4>1
      <4> QED
        BY <1>1, <1>2, <2>2, <4>1, NextRequest
    <3> QED
      BY <1>1, <1>2, <1>3, <3>1, <3>2 DEF WireInv
  <2>3. CASE Len(wire) = 2
    <3>1. wire' # <<>> /\ wire' \in Seq(Methods) /\ Len(wire') = 1 /\ wire'[1] = "look"
      BY <1>1, <1>2, <2>3
    <3>2. waiting => wire'[Len(wire')] = todo[1]
      BY <1>2, <2>3, <3>1
    <3>3. outcome = "none" => Late
      BY <1>2, <2>3 DEF WireInv
    <3>4. outcome = "none" => cause = "error"
      BY <3>3 DEF Late
    <3> QED
      BY <1>1, <1>2, <1>3, <2>1, <3>1, <3>2, <3>3, <3>4 DEF WireInv
  <2> QED
    BY <1>2, <2>2, <2>3
<1>8. ValidInv'
  BY <1>1, <1>2, <1>4, <1>5 DEF ValidInv
<1>9. QuietInv'
  <2>1. held
    BY <1>1, <1>2 DEF QuietInv, Reads
  <2> QED
    BY <1>1, <1>2, <1>3, <1>4, <1>5, <2>1 DEF QuietInv, Writes
<1>10. SettleInv'
  BY <1>1, <1>2, <1>3 DEF SettleInv, Closing
<1> QED
  BY <1>6, <1>7, <1>8, <1>9, <1>10 DEF IInv

LEMMA FinishEvalKeeps == TypeOK /\ IInv /\ FinishEval => IInv'
<1> SUFFICES ASSUME TypeOK, IInv, FinishEval PROVE IInv'
  OBVIOUS
<1> DEFINE mine == waiting /\ todo[1] = evaluating
<1>1. CallInv /\ WireInv /\ ValidInv /\ QuietInv /\ SettleInv
  BY DEF IInv
<1>2. /\ evaluating # "no" /\ evaluating' = "no"
      /\ UNCHANGED <<status, snap, todo, waiting, held, cause, outcome, wire, connected, validated>>
      /\ \/ UNCHANGED emacsVars
         \/ \E s \in Segs : WriteRegion(target, s, WrittenBy(evaluating), "rpc")
  BY DEF FinishEval, chkVars, callVars
<1>3. PICK r \in {"ok", "bad", "error"} :
         reply' = IF waiting /\ Head(todo) = evaluating THEN r ELSE reply
  BY DEF FinishEval
<1>4. evaluating \in {"eval", "babel"} /\ held /\ enabled
      /\ outcome \notin {"committed", "rolled_back"}
  BY <1>1, <1>2 DEF WireInv, QuietInv
<1>5. outcome = "none" =>
         /\ Len(todo) > 0 /\ Len(todo) \in Nat /\ Head(todo) = todo[1]
         /\ cause # "none" => todo[1] = (IF Len(todo) = Closing + 1 THEN "rollback" ELSE "look")
         /\ cause = "none" => todo[1] # "rollback" /\ (todo[1] = "commit" <=> Len(todo) = 3)
  BY <1>1, NextRequest
<1>6. waiting => outcome = "none"
  BY <1>1 DEF CallInv
<1>7. mine => cause = "none"
  BY <1>4, <1>5, <1>6
<1>8. outcome = "none" /\ cause # "error" => mine /\ reply = "none" /\ wire = <<>>
  BY <1>1, <1>2 DEF WireInv
<1>9. (mine => reply' = r) /\ (~mine => reply' = reply)
  BY <1>3, <1>5, <1>6
<1>10. enabled' = enabled /\ (NoProposal => NoProposal')
  <2>1. CASE UNCHANGED emacsVars
    BY <2>1 DEF emacsVars, NoProposal, Live
  <2>2. ASSUME NEW s \in Segs, WriteRegion(target, s, WrittenBy(evaluating), "rpc")
        PROVE  enabled' = enabled /\ (NoProposal => NoProposal')
    <3>1. WrittenBy(evaluating) \in Words \ {Proposal}
      BY WorkflowAssumption DEF WrittenBy
    <3> QED
      BY <2>2, <3>1, TargetWritten DEF NoProposal
  <2> QED
    BY <1>2, <2>1, <2>2
<1>11. CallInv'
  <2>1. PlanInv' <=> PlanInv
    BY <1>2 DEF PlanInv, PlanRest
  <2>2. UndoInv' <=> UndoInv
    BY <1>2 DEF UndoInv, UndoRest, Closing
  <2>3. /\ reply' \in Replies /\ (reply' # "none" => waiting)
        /\ reply' = "bad" => cause = "none" /\ held
    BY <1>1, <1>4, <1>7, <1>9 DEF CallInv, Replies
  <2> QED
    BY <1>1, <1>2, <2>1, <2>2, <2>3 DEF CallInv
<1>12. WireInv'
  <2>1. Late' <=> Late
    BY <1>2 DEF Late
  <2>2. reply' # "none" => wire = <<>>
    BY <1>1, <1>6, <1>7, <1>8, <1>9 DEF WireInv
  <2>3. ASSUME waiting, reply' = "none" PROVE wire # <<>> /\ wire[Len(wire)] = todo[1]
    <3>1. ~mine /\ reply = "none"
      BY <1>9, <2>3
    <3> QED
      BY <1>1, <2>3, <3>1 DEF WireInv
  <2> QED
    BY <1>1, <1>2, <1>4, <2>1, <2>2, <2>3 DEF WireInv
<1>13. ValidInv'
  <2>1. ASSUME outcome = "none", cause = "none",
               \A i \in 1..Len(todo) : todo[i] = "validate" => i = 1 /\ reply' = "ok"
        PROVE  Earned'
    <3>1. mine /\ 1 \in 1..Len(todo)
      BY <1>5, <1>8, <2>1
    <3>2. \A i \in 1..Len(todo) : todo[i] # "validate"
      BY <1>4, <2>1, <3>1
    <3>3. Earned
      BY <1>1, <2>1, <3>2 DEF ValidInv
    <3>4. evaluating # "babel"
      <4>1. PlanInv
        BY <1>1, <2>1 DEF CallInv
      <4>2. \A j \in (1 + 1)..Len(todo) : j \in 1..Len(todo)
        OBVIOUS
      <4>3. todo[1] \notin Changes
        BY <3>1, <3>2, <4>1, <4>2 DEF PlanInv, PlanRest
      <4> QED
        BY <3>1, <4>3 DEF Changes
    <3>5. CASE UNCHANGED emacsVars
      BY <1>2, <3>3, <3>5 DEF emacsVars, Earned, Live
    <3>6. ASSUME NEW s \in Segs, WriteRegion(target, s, WrittenBy(evaluating), "rpc")
          PROVE  Earned'
      <4>1. WrittenBy(evaluating) = Effect /\ Effect \in Words
        BY <3>4, WorkflowAssumption DEF WrittenBy
      <4>2. /\ Live(target)
            /\ \A x \in Segs :
                  /\ buf'[target].text[x] = IF x = s THEN Effect ELSE buf[target].text[x]
                  /\ author'[target][x] = IF x = s THEN "rpc" ELSE author[target][x]
        BY <3>6, <4>1, TargetWritten
      <4> QED
        BY <1>2, <3>3, <4>2 DEF Earned
    <3> QED
      BY <1>2, <3>5, <3>6
  <2>2. ~(wire # <<>> /\ wire[1] = "commit")
    BY <1>1, <1>2 DEF ValidInv
  <2> QED
    BY <1>2, <2>1, <2>2 DEF ValidInv
<1>14. QuietInv'
  BY <1>1, <1>2, <1>4, <1>10 DEF QuietInv
<1>15. SettleInv'
  <2>1. Closing' = Closing
    BY <1>2 DEF Closing
  <2>2. ~(outcome = "none" /\ cause = "none" /\ Len(todo) = 3)
    BY <1>4, <1>5, <1>8
  <2>3. outcome = "none" /\ cause # "none" => reply' = reply
    BY <1>7, <1>9
  <2> QED
    BY <1>1, <1>2, <2>1, <2>2, <2>3 DEF SettleInv
<1> QED
  BY <1>11, <1>12, <1>13, <1>14, <1>15 DEF IInv

(* The steps the workflow has no part in.                                  *)
LEMMA HumanKeeps == TypeOK /\ IInv /\ Human => IInv'
<1> SUFFICES ASSUME TypeOK, IInv, Human PROVE IInv'
  OBVIOUS
<1>1. UNCHANGED <<chkVars, callVars, wireVars, validated>>
  BY DEF Human
<1>2. status' = status /\ snap' = snap /\ validated' = validated
  BY <1>1 DEF chkVars
<1>3. /\ buf \in [Buffers -> Buffer] /\ target \in Buffers
  BY WorkflowAssumption DEF TypeOK, BuffersTypeOK
<1>4. enabled' = enabled /\ (NoProposal => NoProposal') /\ (Earned => Earned')
  <2>1. ASSUME NEW s \in Segs, NEW w \in Words \ {Proposal, Result, Effect}, HumanEdit(target, s, w)
        PROVE  enabled' = enabled /\ (NoProposal => NoProposal') /\ (Earned => Earned')
    <3>1. /\ Live(target) /\ enabled' = enabled
          /\ \A x \in Segs :
                /\ buf'[target].text[x] = IF x = s THEN w ELSE buf[target].text[x]
                /\ author'[target][x] = IF x = s THEN "human" ELSE author[target][x]
      BY <2>1, TargetWritten DEF HumanEdit
    <3>2. NoProposal => NoProposal'
      BY <3>1 DEF NoProposal
    <3>3. Earned => Earned'
      BY <1>2, <3>1 DEF Earned
    <3> QED
      BY <3>1, <3>2, <3>3
  <2>2. ASSUME Save(target)
        PROVE  enabled' = enabled /\ (NoProposal => NoProposal') /\ (Earned => Earned')
    <3> DEFINE r == [buf[target] EXCEPT !.modified = FALSE, !.file = buf[target].file]
    <3>1. /\ buf' = [buf EXCEPT ![target] = r] /\ enabled' = enabled /\ author' = author
      BY <2>2 DEF Save, WrittenTo
    <3>2. r.text = buf[target].text /\ r.life = buf[target].life
      BY <1>3 DEF Buffer
    <3>3. buf'[target] = r
      BY <1>3, <3>1
    <3> HIDE DEF r
    <3>4. buf'[target].text = buf[target].text /\ buf'[target].life = buf[target].life
      BY <3>2, <3>3
    <3> QED
      BY <1>2, <3>1, <3>4 DEF Earned, NoProposal, Live
  <2>3. ASSUME Kill(target)
        PROVE  enabled' = enabled /\ (NoProposal => NoProposal') /\ (Earned => Earned')
    <3>1. buf'[target] = [Unborn EXCEPT !.life = "killed"] /\ enabled' = enabled
      BY <1>3, <2>3 DEF Kill
    <3>2. buf'[target].life = "killed"
      BY <3>1 DEF Unborn, NewBuffer
    <3> QED
      BY <3>1, <3>2 DEF Earned, NoProposal, Live
  <2> QED
    BY <2>1, <2>2, <2>3 DEF Human
<1>5. World
  BY <1>2, <1>4 DEF World
<1> QED
  BY <1>1, <1>5, Aside

LEMMA ForeignKeeps ==
  ASSUME IInv, ForeignStep, UNCHANGED <<chkVars, callVars, wireVars, validated>>
  PROVE  IInv'
<1>1. UNCHANGED <<buf, author, enabled, status, snap, validated>>
  BY DEF ForeignStep, ExternalWrite, chkVars
<1>2. World
  BY <1>1 DEF World, NoProposal, Earned, Live
<1> QED
  BY <1>2, Aside

LEMMA StopBridgeKeeps == TypeOK /\ IInv /\ StopBridge => IInv'
<1> SUFFICES ASSUME TypeOK, IInv, StopBridge PROVE IInv'
  OBVIOUS
<1>1. /\ evaluating = "no" /\ ModeOff
      /\ connected' = FALSE /\ wire' = <<>> /\ waiting' = FALSE /\ reply' = "none"
      /\ IF waiting THEN Throw ELSE UNCHANGED <<todo, held, cause, outcome>>
      /\ UNCHANGED <<evaluating, validated>>
  BY DEF StopBridge
<1>2. /\ buf' = [b \in Buffers |-> [buf[b] EXCEPT !.tracked = FALSE]]
      /\ status' = [c \in Chk |-> IF status[c] = "open" THEN "cleared" ELSE status[c]]
      /\ author' = author
  BY <1>1 DEF ModeOff
<1>3. /\ buf'[target].text = buf[target].text /\ buf'[target].life = buf[target].life
  <2>1. target \in Buffers /\ buf[target] \in Buffer
    BY WorkflowAssumption DEF TypeOK, BuffersTypeOK
  <2>2. buf'[target] = [buf[target] EXCEPT !.tracked = FALSE]
    BY <1>2, <2>1
  <2> QED
    BY <2>1, <2>2 DEF Buffer
<1>4. status'[chk] = IF status[chk] = "open" THEN "cleared" ELSE status[chk]
  BY <1>2, WorkflowAssumption
<1>5. World
  <2>1. validated' = validated /\ evaluating = "no"
    BY <1>1
  <2>2. NoProposal => NoProposal'
    BY <1>3 DEF NoProposal, Live
  <2>3. Earned => Earned'
    BY <1>2, <1>3, <2>1 DEF Earned, Live
  <2>4. /\ status'[chk] = status[chk] \/ (status[chk] = "open" /\ status'[chk] = "cleared")
        /\ status'[chk] # "open"
    BY <1>4
  <2> QED
    BY <2>1, <2>2, <2>3, <2>4 DEF World
<1>6. Cut
  <2>1. wire' \in Seq(Methods) /\ Len(wire') = 0
    BY <1>1, EmptySeq
  <2>2. Len(wire) \in Nat
    BY SeqFacts DEF IInv, WireInv
  <2> QED
    BY <2>1, <2>2 DEF Cut
<1>7. CASE waiting
  <2>1. outcome = "none" /\ Throw
    BY <1>1, <1>7 DEF IInv, CallInv
  <2> QED
    BY <1>1, <1>5, <1>6, <2>1, GaveUp
<1>8. CASE ~waiting
  <2>1. UNCHANGED <<todo, held, cause, outcome>>
    BY <1>1, <1>8
  <2> QED
    BY <1>1, <1>5, <1>6, <1>8, <2>1, Lost
<1> QED
  BY <1>7, <1>8

(* The invariant holds to begin with, and every step keeps it.             *)
LEMMA WorkflowInitOK == WorkflowInit => TypeOK /\ IInv
<1> SUFFICES ASSUME WorkflowInit PROVE TypeOK /\ IInv
  OBVIOUS
<1>1. /\ Init /\ Live(target) /\ \E op \in Operations : todo \in Plans(op)
      /\ waiting = FALSE /\ held = FALSE /\ cause = "none" /\ outcome = "none"
      /\ wire = <<>> /\ reply = "none" /\ connected = TRUE /\ evaluating = "no"
  BY DEF WorkflowInit
<1>2. TypeOK
  BY <1>1, InitType
<1>3. todo \in Seq(Methods) /\ Len(todo) > 3 /\ PlanInv
  BY <1>1, PlansAreWell
<1>4. Len(todo) \in Nat /\ todo # <<>>
  BY <1>3, SeqFacts
<1>5. wire \in Seq(Methods) /\ Len(wire) = 0
  BY <1>1, EmptySeq
<1>6. status[chk] = "new" /\ enabled = TRUE
  BY <1>1, WorkflowAssumption DEF Init, BuffersInit
<1>7. NoProposal
  <2> SUFFICES ASSUME NEW s \in Segs PROVE buf[target].text[s] # Proposal
    BY DEF NoProposal
  <2>1. /\ disk \in [Files -> InitTexts]
        /\ buf[target] \in {Unborn, NewBuffer(Empty, NoFile, TRUE)} \cup
                           {NewBuffer(disk[f], f, TRUE) : f \in Files}
    BY <1>1, WorkflowAssumption DEF Init, BuffersInit
  <2>2. buf[target].text = Empty \/ \E f \in Files : buf[target].text = disk[f]
    BY <2>1 DEF Unborn, NewBuffer
  <2> QED
    BY <2>1, <2>2, WorkflowAssumption DEF Empty
<1>8. CallInv
  BY <1>1, <1>3, <1>4 DEF CallInv, Outcomes, Replies
<1>9. WireInv
  BY <1>1, <1>5 DEF WireInv
<1>10. ValidInv
  <2>1. \E j \in 1..Len(todo) : todo[j] = "validate"
    BY <1>1, <1>3 DEF PlanInv, PlanRest
  <2> QED
    BY <1>1, <2>1 DEF ValidInv
<1>11. QuietInv
  BY <1>1, <1>6, <1>7 DEF QuietInv
<1>12. SettleInv
  BY <1>1, <1>3, <1>4 DEF SettleInv
<1> QED
  BY <1>2, <1>8, <1>9, <1>10, <1>11, <1>12 DEF IInv

LEMMA StutterKeeps == IInv /\ UNCHANGED workflowVars => IInv'
<1> SUFFICES ASSUME IInv, UNCHANGED workflowVars PROVE IInv'
  OBVIOUS
<1>1. UNCHANGED <<vars, callVars, wireVars, validated>>
  BY DEF workflowVars
<1>2. World
  BY <1>1, NothingHappens
<1> QED
  BY <1>1, <1>2, Aside

LEMMA WorkflowNextOK == TypeOK /\ IInv /\ [WorkflowNext]_workflowVars => IInv'
<1> SUFFICES ASSUME TypeOK, IInv, [WorkflowNext]_workflowVars PROVE IInv'
  OBVIOUS
<1>1. CASE Send \/ Receive \/ Timeout \/ Disconnect
  BY <1>1, SendKeeps, ReceiveKeeps, TimeoutKeeps, DisconnectKeeps
<1>2. CASE Emacs
  BY <1>2, RefuseKeeps, LookKeeps, IdentifyKeeps, CreateKeeps, ApplyEditKeeps, ValidateKeeps,
     StartEvalKeeps, FinishEvalKeeps, CommitKeeps, RollbackKeeps DEF Emacs
<1>3. CASE Human
  BY <1>3, HumanKeeps
<1>4. CASE StopBridge
  BY <1>4, StopBridgeKeeps
<1>5. CASE ForeignStep /\ UNCHANGED <<chkVars, callVars, wireVars, validated>>
  BY <1>5, ForeignKeeps
<1>6. CASE UNCHANGED workflowVars
  BY <1>6, StutterKeeps
<1> QED
  BY <1>1, <1>2, <1>3, <1>4, <1>5, <1>6 DEF WorkflowNext

-----------------------------------------------------------------------------
(* A workflow's step is a step of Checkpoints' human, of its files or of   *)
(* one of its agents, or none of them sees it.                             *)
LEMMA WorkflowStepIsCheckpointStep == IInv /\ [WorkflowNext]_workflowVars => [Next]_vars
<1> SUFFICES ASSUME IInv, [WorkflowNext]_workflowVars PROVE [Next]_vars
  OBVIOUS
<1>1. target \in Buffers /\ chk \in Chk /\ \E a : a \in Agents
  BY WorkflowAssumption
<1>2. PICK a \in Agents : TRUE
  BY <1>1
<1>3. ASSUME NEW s \in Segs, NEW w \in Words, enabled, WriteRegion(target, s, w, "rpc"),
             UNCHANGED chkVars
      PROVE  Next
  <2>1. Edit(a, target, s, w, FALSE)
    BY <1>3 DEF Edit
  <2>2. FALSE \in BOOLEAN
    OBVIOUS
  <2>3. AgentStep
    BY <1>1, <1>2, <2>1, <2>2 DEF AgentStep
  <2> QED
    BY <2>3 DEF Next
<1>4. CASE Send \/ Receive \/ Timeout \/ Disconnect
  BY <1>4 DEF Send, Receive, Timeout, Disconnect
<1>5. CASE Refuse \/ Look \/ Identify \/ Validate \/ StartEval
  BY <1>5 DEF Refuse, Look, Identify, Validate, StartEval
<1>6. CASE Create
  BY <1>1, <1>6 DEF Create, AgentStep, Next
<1>7. CASE Commit
  BY <1>1, <1>7 DEF Commit, AgentStep, Next
<1>8. CASE Rollback
  BY <1>1, <1>8 DEF Rollback, AgentStep, Next
<1>9. CASE ApplyEdit
  <2>1. CASE UNCHANGED emacsVars
    BY <1>9, <2>1 DEF ApplyEdit, vars
  <2>2. CASE \E s \in Segs : WriteRegion(target, s, Proposal, "rpc")
    BY <1>3, <1>9, <2>2, WorkflowAssumption DEF ApplyEdit, Reading
  <2> QED
    BY <1>9, <2>1, <2>2 DEF ApplyEdit
<1>10. CASE FinishEval
  <2>1. enabled /\ UNCHANGED chkVars
    BY <1>10 DEF FinishEval, IInv, WireInv
  <2>2. CASE UNCHANGED emacsVars
    BY <2>1, <2>2 DEF vars
  <2>3. CASE \E s \in Segs : WriteRegion(target, s, WrittenBy(evaluating), "rpc")
    <3>1. WrittenBy(evaluating) \in Words
      BY WorkflowAssumption DEF WrittenBy
    <3> QED
      BY <1>3, <2>1, <2>3, <3>1
  <2> QED
    BY <1>10, <2>2, <2>3 DEF FinishEval
<1>11. CASE Human
  <2>1. UNCHANGED chkVars
    BY <1>11 DEF Human
  <2>2. HumanStep
    BY <1>1, <1>11 DEF Human, HumanStep
  <2> QED
    BY <2>1, <2>2 DEF Next
<1>12. CASE StopBridge
  BY <1>12 DEF StopBridge, Next
<1>13. CASE ForeignStep /\ UNCHANGED <<chkVars, callVars, wireVars, validated>>
  BY <1>13 DEF Next
<1>14. CASE UNCHANGED workflowVars
  BY <1>14 DEF workflowVars
<1> QED
  BY <1>4, <1>5, <1>6, <1>7, <1>8, <1>9, <1>10, <1>11, <1>12, <1>13, <1>14
     DEF WorkflowNext, Emacs

LEMMA WorkflowInvariant == WorkflowSpec => [](TypeOK /\ IInv)
<1>1. TypeOK /\ IInv /\ [WorkflowNext]_workflowVars => (TypeOK /\ IInv)'
  BY NextType, WorkflowNextOK, WorkflowStepIsCheckpointStep
<1> QED
  BY <1>1, WorkflowInitOK, PTL DEF WorkflowSpec

(* emacs_workflow goes through nothing but the operations of Checkpoints:  *)
(* every run of the workflow, with its timeouts, its lost requests and its *)
(* evaluations, is a run of that module, with the coordinator as one of    *)
(* the agents.                                                             *)
THEOREM WorkflowImplementsCheckpoints == WorkflowSpec => Spec
<1>1. WorkflowInit => Init
  BY DEF WorkflowInit
<1> QED
  BY <1>1, WorkflowInvariant, WorkflowStepIsCheckpointStep, PTL DEF WorkflowSpec, Spec

(* So what Checkpoints promises the human holds of the workflow's rollback *)
(* too: it takes back nothing the human wrote under a counting hook.       *)
THEOREM WorkflowKeepsHumanText == WorkflowSpec => RollbackKeepsHumanText
  BY WorkflowImplementsCheckpoints, HumanTextSurvivesRollback, PTL

(* The workflow's variables keep their types, the coordinator waits only   *)
(* on a live socket, and nothing of the call is on the wire once it was    *)
(* answered without trouble.                                               *)
THEOREM WorkflowTypeCorrect == WorkflowSpec => []WorkflowTypeOK
<1>1. TypeOK /\ IInv => WorkflowTypeOK
  BY DEF IInv, CallInv, WireInv, WorkflowTypeOK
<1> QED
  BY <1>1, WorkflowInvariant, PTL

(* The answer of emacs_workflow tells what became of its checkpoint.       *)
THEOREM AnswersAreSettled == WorkflowSpec => []AnswerIsSettled
<1>1. IInv => AnswerIsSettled
  BY DEF IInv, SettleInv, AnswerIsSettled
<1> QED
  BY <1>1, WorkflowInvariant, PTL

(* After "rolled_back", or an error before the commit, no word of the      *)
(* proposal is in the buffer, and no request still on the wire brings one. *)
THEOREM ProposalsAreGone == WorkflowSpec => []ProposalIsGone
<1>1. ASSUME TypeOK, IInv PROVE ProposalIsGone
  <2> SUFFICES ASSUME outcome \in {"rolled_back", "error"}, status[chk] # "committed"
               PROVE  NoProposal
    BY DEF ProposalIsGone, Leftover, NoProposal
  <2>1. CASE held
    <3>1. status[chk] = "rolled_back"
      BY <1>1, <2>1 DEF IInv, SettleInv
    <3> QED
      BY <1>1, <3>1 DEF IInv, QuietInv
  <2>2. CASE ~held
    BY <1>1, <2>2 DEF IInv, QuietInv
  <2> QED
    BY <2>1, <2>2
<1> QED
  BY <1>1, WorkflowInvariant, PTL

LEMMA OnlyCommitCommits ==
  ASSUME [WorkflowNext]_workflowVars, status \in [Chk -> Statuses],
         status[chk] = "open", status'[chk] = "committed"
  PROVE  Commit
<1>1. chk \in Chk /\ status' # status
  BY WorkflowAssumption
<1>2. ~(Send \/ Receive \/ Timeout \/ Disconnect)
  BY <1>1 DEF Send, Receive, Timeout, Disconnect, vars, chkVars
<1>3. ~(Refuse \/ Look \/ Identify \/ Validate \/ StartEval \/ ApplyEdit \/ FinishEval)
  BY <1>1 DEF Refuse, Look, Identify, Validate, StartEval, ApplyEdit, FinishEval, vars, chkVars
<1>4. ~Create
  BY DEF Create, CheckpointCreate
<1>5. ~Rollback
  <2> SUFFICES ASSUME Rollback PROVE FALSE
    OBVIOUS
  <2>1. status' = [status EXCEPT ![chk] = "rolled_back"]
    BY DEF Rollback, CheckpointRollback
  <2> QED
    BY <1>1, <2>1
<1>6. ~StopBridge
  <2> SUFFICES ASSUME StopBridge PROVE FALSE
    OBVIOUS
  <2>1. status' = [c \in Chk |-> IF status[c] = "open" THEN "cleared" ELSE status[c]]
    BY DEF StopBridge, ModeOff
  <2> QED
    BY <1>1, <2>1
<1>7. ~Human /\ ~(ForeignStep /\ UNCHANGED <<chkVars, callVars, wireVars, validated>>)
      /\ ~UNCHANGED workflowVars
  BY <1>1 DEF Human, workflowVars, vars, chkVars
<1> QED
  BY <1>2, <1>3, <1>4, <1>5, <1>6, <1>7 DEF WorkflowNext, Emacs

(* What the workflow's edits and Babel blocks wrote is committed only as   *)
(* validation last accepted it, in every operation of emacs_workflow and   *)
(* however the human interleaves; an evaluation may have changed the text  *)
(* after that.                                                             *)
THEOREM CommitsAreEarned == WorkflowSpec => CommitIsEarned
<1> DEFINE Deserved == status[chk] = "open" /\ status'[chk] = "committed" /\ Live(target) =>
        /\ validated # NoText
        /\ \A s \in Segs : author[target][s] = "rpc" =>
                buf[target].text[s] \in {validated[s], Effect}
<1>1. ASSUME TypeOK, IInv, [WorkflowNext]_workflowVars PROVE Deserved
  <2> SUFFICES ASSUME status[chk] = "open", status'[chk] = "committed" PROVE Earned
    BY DEF Earned
  <2>1. Commit
    BY <1>1, OnlyCommitCommits DEF TypeOK
  <2>2. wire # <<>> /\ Head(wire) = "commit"
    BY <2>1 DEF Commit, Reading
  <2>3. wire[1] = "commit"
    BY <1>1, <2>2, Read
  <2> QED
    BY <1>1, <2>2, <2>3 DEF IInv, ValidInv
<1>2. TypeOK /\ IInv /\ [WorkflowNext]_workflowVars => [Deserved]_workflowVars
  BY <1>1
<1> QED
  BY <1>2, WorkflowInvariant, PTL DEF WorkflowSpec, CommitIsEarned

=============================================================================
