------------------------ MODULE ProjectRename_proofs ------------------------
(***************************************************************************)
(* For any files, places, texts and bounds: the project rename implements  *)
(* AtomicRename, and its flags are honest.                                 *)
(***************************************************************************)
EXTENDS ProjectRename, TLAPS

Buffer == [live : BOOLEAN, text : Texts, modified : BOOLEAN, visible : {Narrowed, Places}]
Entry == [before : Partial, after : Partial, modified : BOOLEAN, written : BOOLEAN]

IsPlan(p) ==
    /\ p.from \in Symbols /\ p.to \in Symbols /\ p.from # p.to
    /\ DOMAIN p.entries \subseteq Files
    /\ \A f \in DOMAIN p.entries : p.entries[f].edits \subseteq Places /\ p.entries[f].edits # {}

Types ==
    /\ buf \in [Files -> Buffer] /\ disk \in [Files -> Texts]
    /\ \A p \in plans : IsPlan(p)
    /\ journal = [j \in Journals |-> journal[j]]
    /\ \A j \in Journals : journal[j] \in [DOMAIN journal[j] -> Entry] /\ DOMAIN journal[j] \subseteq Files
    /\ made \in Nat /\ \A j \in Journals : j > made => journal[j] = NoJournal

\* A file without a buffer has the text of the disk.
ClosedInv == \A f \in Files : ~buf[f].live => buf[f].text = disk[f]

Renamed(f) ==
    [p \in Places |-> IF p \in op.plan.entries[f].edits THEN op.plan.to ELSE op.before[f].text[p]]

\* Each buffer of an apply under way is as before, or as the plan has it.
ApplyInv ==
    /\ op = [kind |-> "apply", plan |-> op.plan, todo |-> op.todo, before |-> op.before]
    /\ IsPlan(op.plan) /\ made < LastJournal
    /\ op.before \in [DOMAIN op.plan.entries -> Buffer] /\ op.todo \subseteq DOMAIN op.before
    /\ \A f \in DOMAIN op.before :
          /\ buf[f].live /\ op.before[f].live
          /\ \A e \in op.plan.entries[f].edits : op.before[f].text[e] = op.plan.from
          /\ buf[f].text = IF f \in op.todo THEN op.before[f].text ELSE Renamed(f)
          /\ f \notin op.todo => buf[f].modified

Restored(f) ==
    LET captured == journal[op.journal][f].before
    IN [p \in Places |-> IF p \in DOMAIN captured THEN captured[p] ELSE "gone"]

\* Each buffer of a rollback was as the apply left it; those done have
\* what was captured before that, and nothing else.
RollbackInv ==
    /\ op = [kind |-> "rollback", journal |-> op.journal, todo |-> op.todo, before |-> op.before]
    /\ op.journal \in Journals /\ journal[op.journal] # NoJournal
    /\ op.before \in [DOMAIN journal[op.journal] -> Buffer] /\ op.todo \subseteq DOMAIN op.before
    /\ \A f \in DOMAIN op.before :
          /\ buf[f].live /\ op.before[f].live
          /\ Digest(op.before[f]) = journal[op.journal][f].after
          /\ f \notin op.todo => buf[f].text = Restored(f)

OpInv ==
    \/ op = NoOp
    \/ op.kind = "apply" /\ ApplyInv
    \/ op.kind = "rollback" /\ RollbackInv

IInv == Types /\ ClosedInv /\ OpInv

-----------------------------------------------------------------------------
(* Texts, digests and visits.                                              *)

LEMMA DigestHolds ==
  ASSUME NEW b \in Buffer
  PROVE  Digest(b) \in Partial /\ AR!Holds(b.text, Digest(b))
<1> USE RenameAssumption
<1> DEFINE S == {p \in b.visible : b.text[p] # "gone"}
<1>1. b.text \in [Places -> Words] /\ S \in SUBSET Places
  BY DEF Buffer, Texts
<1>2. Digest(b) = [p \in S |-> b.text[p]]
  BY DEF Digest, Restrict
<1>3. Digest(b) \in [S -> Words \ {"gone"}]
  BY <1>1, <1>2
<1> QED
  BY <1>1, <1>2, <1>3 DEF Partial, AR!Holds

LEMMA VisitTypes ==
  ASSUME Types, ClosedInv, NEW S \in SUBSET Files
  PROVE  /\ Visiting(S) \in [Files -> Buffer]
         /\ \A f \in Files : /\ Visiting(S)[f].text = buf[f].text
                             /\ Visiting(S)[f] = buf[f] \/ Visiting(S)[f].live
                             /\ f \in S => Visiting(S)[f].live
<1>1. \A f \in Files : Loaded(f) \in Buffer /\ Loaded(f).text = disk[f] /\ Loaded(f).live
  BY DEF Types, Loaded, Buffer
<1> QED
  BY <1>1 DEF Visiting, Types, ClosedInv

-----------------------------------------------------------------------------
(* What AtomicRename sees.                                                 *)

TextOf == [f \in Files |-> IF f \in Begun THEN op.before[f].text ELSE buf[f].text]
JournalOf == [j \in Journals |-> [f \in DOMAIN journal[j] |->
    [before |-> journal[j][f].before, after |-> journal[j][f].after]]]

Unseen == TextOf' = TextOf /\ JournalOf' = JournalOf /\ steps' = steps

LEMMA UnseenIsStutter ==
  ASSUME Unseen
  PROVE  UNCHANGED AR!vars
BY DEF Unseen, TextOf, JournalOf, AR!vars

LEMMA SameJournal ==
  ASSUME journal' = journal
  PROVE  JournalOf' = JournalOf
BY DEF JournalOf

LEMMA IdleText ==
  ASSUME op = NoOp
  PROVE  TextOf = [f \in Files |-> buf[f].text]
BY DEF TextOf, Begun

LEMMA IdleText1 ==
  ASSUME op' = NoOp
  PROVE  TextOf' = [f \in Files |-> buf'[f].text]
BY DEF TextOf, Begun

\* Buffers are visited, nothing else happens to them.
LEMMA VisitStep ==
  ASSUME IInv, NEW S \in SUBSET Files, Visit(S), disk' = disk
  PROVE  /\ buf' \in [Files -> Buffer] /\ ClosedInv'
         /\ \A f \in Files : buf'[f].text = buf[f].text
<1>1. buf' = Visiting(S)
  BY DEF Visit
<1>2. /\ Visiting(S) \in [Files -> Buffer]
      /\ \A f \in Files : /\ Visiting(S)[f].text = buf[f].text
                          /\ Visiting(S)[f] = buf[f] \/ Visiting(S)[f].live
  BY VisitTypes DEF IInv
<1> QED
  BY <1>1, <1>2 DEF IInv, ClosedInv

LEMMA PlanStep ==
  ASSUME IInv, NEW from \in Symbols, NEW to \in Symbols, from # to, NEW S \in SUBSET Files,
         Plan(from, to, S)
  PROVE  IInv' /\ Unseen
<1> DEFINE B == Visiting(S)
           hit == {f \in S : Found(B[f], from) # {}}
           new == [from |-> from, to |-> to,
                   entries |-> [f \in hit |-> [sha |-> Digest(B[f]), edits |-> Found(B[f], from)]]]
<1>1. /\ op = NoOp /\ Visit(S) /\ plans' = plans \cup {new}
      /\ UNCHANGED <<disk, journal, made, op, steps, suspect>>
  BY DEF Plan
<1>2. /\ buf' \in [Files -> Buffer] /\ ClosedInv'
      /\ \A f \in Files : buf'[f].text = buf[f].text
  BY <1>1, VisitStep
<1>3. IsPlan(new)
  <2>1. \A f \in hit : Found(B[f], from) \subseteq Places /\ Found(B[f], from) # {}
    BY VisitTypes, RenameAssumption DEF IInv, Found, Buffer
  <2> QED
    BY <2>1 DEF IsPlan
<1>4. Types'
  BY <1>1, <1>2, <1>3 DEF IInv, Types, IsPlan
<1>5. OpInv'
  BY <1>1 DEF OpInv
<1>6. Unseen
  BY <1>1, <1>2, IdleText, IdleText1, SameJournal DEF Unseen
<1> QED
  BY <1>2, <1>4, <1>5, <1>6 DEF IInv

LEMMA TablesStep ==
  ASSUME IInv, (\E S \in SUBSET Files : PreflightFails(S)) \/ (\E p \in plans : PlanExpires(p))
  PROVE  IInv' /\ Unseen
<1>1. /\ op = NoOp /\ plans' \in SUBSET plans /\ UNCHANGED <<disk, journal, made, op, steps>>
      /\ buf' = buf \/ \E S \in SUBSET Files : Visit(S)
  BY DEF PreflightFails, PlanExpires, tables, filesystem
<1>2. /\ buf' \in [Files -> Buffer] /\ ClosedInv'
      /\ \A f \in Files : buf'[f].text = buf[f].text
  BY <1>1, VisitStep DEF IInv, Types, ClosedInv
<1>3. Types' /\ OpInv'
  BY <1>1, <1>2 DEF IInv, Types, OpInv, IsPlan
<1>4. Unseen
  BY <1>1, <1>2, IdleText, IdleText1, SameJournal DEF Unseen
<1> QED
  BY <1>2, <1>3, <1>4 DEF IInv

-----------------------------------------------------------------------------
(* A command begins: what it captures is what was there.                   *)

\* Common to the two: files D are captured.
LEMMA BeginStep ==
  ASSUME IInv, NEW D \in SUBSET Files, op = NoOp, Visit(D),
         op' # NoOp, op'.before = Restrict(Visiting(D), D),
         UNCHANGED <<disk, plans, journal, made, steps>>
  PROVE  /\ Types' /\ ClosedInv' /\ Unseen
         /\ op'.before \in [D -> Buffer]
         /\ \A f \in D : op'.before[f] = buf'[f] /\ buf'[f].live
<1>1. /\ buf' \in [Files -> Buffer] /\ ClosedInv'
      /\ \A f \in Files : buf'[f].text = buf[f].text
  BY VisitStep
<1>2. buf' = Visiting(D) /\ op'.before = [f \in D |-> Visiting(D)[f]]
  BY DEF Visit, Restrict
<1>3. op'.before \in [D -> Buffer] /\ \A f \in D : op'.before[f] = buf'[f] /\ buf'[f].live
  BY <1>1, <1>2, VisitTypes DEF IInv
<1>4. Types'
  BY <1>1 DEF IInv, Types, IsPlan
<1>5. TextOf' = TextOf
  <2>1. Begun' = D
    BY <1>3 DEF Begun
  <2>2. TextOf' = [f \in Files |-> buf'[f].text]
    BY <1>3, <2>1 DEF TextOf
  <2> QED
    BY <1>1, <2>2, IdleText
<1> QED
  BY <1>1, <1>3, <1>4, <1>5, SameJournal DEF Unseen

LEMMA ApplyBeginStep ==
  ASSUME IInv, NEW p \in plans, ApplyBegin(p)
  PROVE  IInv' /\ Unseen
<1> DEFINE D == DOMAIN p.entries
<1>1. /\ op = NoOp /\ made < LastJournal /\ InDate(p) /\ Visit(D) /\ IsPlan(p)
      /\ op' = [kind |-> "apply", plan |-> p, todo |-> D, before |-> Restrict(Visiting(D), D)]
      /\ UNCHANGED <<disk, plans, journal, made, steps, suspect>>
  BY DEF ApplyBegin, tables, IInv, Types
<1>2. D \in SUBSET Files /\ op' # NoOp /\ op'.kind = "apply"
  BY <1>1 DEF IsPlan, NoOp
<1>3. /\ Types' /\ ClosedInv' /\ Unseen
      /\ op'.before \in [D -> Buffer]
      /\ \A f \in D : op'.before[f] = buf'[f] /\ buf'[f].live
  BY <1>1, <1>2, BeginStep
<1>4. \A f \in D : \A e \in p.entries[f].edits : op'.before[f].text[e] = p.from
  BY <1>1, <1>3 DEF InDate, Visit
<1>5. ApplyInv'
  BY <1>1, <1>2, <1>3, <1>4 DEF ApplyInv, IsPlan
<1> QED
  BY <1>2, <1>3, <1>5 DEF IInv, OpInv

LEMMA RollbackBeginStep ==
  ASSUME IInv, NEW j \in Journals, RollbackBegin(j)
  PROVE  IInv' /\ Unseen
<1> DEFINE D == DOMAIN journal[j]
<1>1. /\ op = NoOp /\ journal[j] # NoJournal /\ RollbackAllowed(j) /\ Visit(D)
      /\ op' = [kind |-> "rollback", journal |-> j, todo |-> D, before |-> Restrict(Visiting(D), D)]
      /\ UNCHANGED <<disk, plans, journal, made, steps, suspect>>
  BY DEF RollbackBegin, tables
<1>2. D \in SUBSET Files /\ op' # NoOp /\ op'.kind = "rollback"
  BY <1>1 DEF IInv, Types, NoOp
<1>3. /\ Types' /\ ClosedInv' /\ Unseen
      /\ op'.before \in [D -> Buffer]
      /\ \A f \in D : op'.before[f] = buf'[f] /\ buf'[f].live
  BY <1>1, <1>2, BeginStep
<1>4. \A f \in D : Digest(op'.before[f]) = journal[j][f].after
  BY <1>1, <1>3 DEF RollbackAllowed, Visit
<1>5. RollbackInv'
  BY <1>1, <1>2, <1>3, <1>4 DEF RollbackInv, Digest, Restrict
<1> QED
  BY <1>2, <1>3, <1>5 DEF IInv, OpInv

-----------------------------------------------------------------------------
(* A command under way: its steps are unseen until it ends.                *)

LEMMA Applying ==
  ASSUME IInv, op.kind = "apply"
  PROVE  ApplyInv /\ op # NoOp /\ Begun = DOMAIN op.before
BY DEF IInv, OpInv, RollbackInv, NoOp, Begun

LEMMA RollingBack ==
  ASSUME IInv, op.kind = "rollback"
  PROVE  RollbackInv /\ op # NoOp /\ Begun = DOMAIN op.before
BY DEF IInv, OpInv, ApplyInv, NoOp, Begun

LEMMA EditBufferStep ==
  ASSUME IInv, NEW f \in Files, EditBuffer(f)
  PROVE  IInv' /\ Unseen
<1> DEFINE edits == op.plan.entries[f].edits
<1>1. /\ op.kind = "apply" /\ f \in op.todo
      /\ buf' = [buf EXCEPT ![f].modified = TRUE,
                            ![f].text = [p \in Places |-> IF p \in edits THEN op.plan.to ELSE @[p]]]
      /\ op' = [op EXCEPT !.todo = @ \ {f}]
      /\ UNCHANGED <<disk, sync, plans, journal, made, steps, suspect>>
  BY DEF EditBuffer, tables, filesystem
<1>2. ApplyInv /\ op # NoOp /\ Begun = DOMAIN op.before
  BY <1>1, Applying
<1>3. /\ op'.kind = "apply" /\ op'.plan = op.plan /\ op'.before = op.before
      /\ op'.todo = op.todo \ {f} /\ op' # NoOp
      /\ op' = [kind |-> "apply", plan |-> op'.plan, todo |-> op'.todo, before |-> op'.before]
  BY <1>1, <1>2 DEF ApplyInv, NoOp
<1>4. /\ f \in DOMAIN op.before /\ buf[f].text = op.before[f].text /\ buf[f] \in Buffer
      /\ op.before[f].text \in Texts /\ IsPlan(op.plan) /\ DOMAIN op.before \subseteq Files
  BY <1>1, <1>2 DEF ApplyInv, IInv, Types, IsPlan, Buffer
<1>5. buf'[f].text = Renamed(f) /\ \A g \in Files \ {f} : buf'[g] = buf[g]
  BY <1>1, <1>4 DEF IInv, Types, Renamed, Buffer
<1>6. buf' \in [Files -> Buffer] /\ ClosedInv'
  <2>1. Renamed(f) \in Texts
    BY <1>4 DEF Renamed, Texts, IsPlan, Words
  <2>2. buf'[f] \in Buffer /\ buf'[f].live = buf[f].live
    BY <1>1, <1>4, <1>5, <2>1 DEF IInv, Types, Buffer
  <2>3. buf' \in [Files -> Buffer]
    BY <1>1, <1>5, <2>2 DEF IInv, Types
  <2> QED
    BY <1>1, <1>2, <1>4, <1>5, <2>2, <2>3 DEF IInv, ClosedInv, ApplyInv
<1>7. ApplyInv'
  <2>1. \A g \in DOMAIN op.before : Renamed(g)' = Renamed(g)
    BY <1>3 DEF Renamed
  <2>2. ASSUME NEW g \in DOMAIN op.before
        PROVE  /\ buf'[g].live /\ op.before[g].live
               /\ \A e \in op.plan.entries[g].edits : op.before[g].text[e] = op.plan.from
               /\ buf'[g].text = IF g \in op'.todo THEN op.before[g].text ELSE Renamed(g)
               /\ g \notin op'.todo => buf'[g].modified
    <3>1. CASE g = f
      BY <1>1, <1>2, <1>3, <1>4, <1>5, <3>1 DEF ApplyInv, IInv, Types
    <3>2. CASE g # f
      BY <1>2, <1>3, <1>4, <1>5, <3>2 DEF ApplyInv
    <3> QED
      BY <3>1, <3>2
  <2>3. /\ IsPlan(op'.plan) /\ made' < LastJournal
        /\ op'.before \in [DOMAIN op'.plan.entries -> Buffer] /\ op'.todo \subseteq DOMAIN op'.before
    BY <1>1, <1>2, <1>3 DEF ApplyInv, IsPlan
  <2> QED
    BY <1>3, <2>1, <2>2, <2>3 DEF ApplyInv
<1>8. TextOf' = TextOf
  <2>1. Begun' = Begun
    BY <1>2, <1>3 DEF Begun
  <2> QED
    BY <1>2, <1>3, <1>4, <1>5, <2>1 DEF TextOf
<1>9. Types'
  BY <1>1, <1>6 DEF IInv, Types, IsPlan
<1> QED
  BY <1>1, <1>3, <1>6, <1>7, <1>8, <1>9, SameJournal DEF IInv, OpInv, Unseen

LEMMA RestoreBufferStep ==
  ASSUME IInv, NEW f \in Files, RestoreBuffer(f)
  PROVE  IInv' /\ Unseen
<1> DEFINE captured == journal[op.journal][f].before
<1>1. /\ op.kind = "rollback" /\ f \in op.todo
      /\ buf' = [buf EXCEPT ![f] = [@ EXCEPT !.visible = Places, !.modified = TRUE, !.text = Restored(f)]]
      /\ op' = [op EXCEPT !.todo = @ \ {f}]
      /\ UNCHANGED <<disk, sync, plans, journal, made, steps, suspect>>
  BY DEF RestoreBuffer, Restored, tables, filesystem
<1>2. RollbackInv /\ op # NoOp /\ Begun = DOMAIN op.before
  BY <1>1, RollingBack
<1>3. /\ op'.kind = "rollback" /\ op'.journal = op.journal /\ op'.before = op.before
      /\ op'.todo = op.todo \ {f} /\ op' # NoOp
      /\ op' = [kind |-> "rollback", journal |-> op'.journal, todo |-> op'.todo, before |-> op'.before]
  BY <1>1, <1>2 DEF RollbackInv, NoOp
<1>4. /\ f \in DOMAIN op.before /\ DOMAIN op.before = DOMAIN journal[op.journal]
      /\ buf[f] \in Buffer /\ captured \in Partial /\ DOMAIN op.before \subseteq Files
  BY <1>1, <1>2 DEF RollbackInv, IInv, Types, Entry
<1>5. Restored(f) \in Texts
  BY <1>4 DEF Partial, Texts, Words, Restored
<1>6. buf'[f].text = Restored(f) /\ \A g \in Files \ {f} : buf'[g] = buf[g]
  BY <1>1, <1>4 DEF IInv, Types, Buffer
<1>7. buf' \in [Files -> Buffer] /\ ClosedInv'
  <2>1. buf'[f] \in Buffer /\ buf'[f].live = buf[f].live
    BY <1>1, <1>4, <1>5 DEF IInv, Types, Buffer
  <2>2. buf' \in [Files -> Buffer]
    BY <1>1, <1>6, <2>1 DEF IInv, Types
  <2>3. buf[f].live
    BY <1>2, <1>4 DEF RollbackInv
  <2> QED
    BY <1>1, <1>6, <2>1, <2>2, <2>3 DEF IInv, ClosedInv
<1>8. RollbackInv'
  <2>1. ASSUME NEW g \in DOMAIN op.before
        PROVE  /\ buf'[g].live /\ op.before[g].live
               /\ Digest(op.before[g]) = journal[op.journal][g].after
               /\ g \notin op'.todo => buf'[g].text = Restored(g)
    <3>1. CASE g = f
      BY <1>1, <1>2, <1>3, <1>4, <1>5, <1>6, <3>1 DEF RollbackInv, IInv, Types
    <3>2. CASE g # f
      BY <1>2, <1>3, <1>4, <1>6, <3>2 DEF RollbackInv
    <3> QED
      BY <3>1, <3>2
  <2>2. \A g \in DOMAIN op.before : /\ Digest(op'.before[g]) = Digest(op.before[g])
                                     /\ Restored(g)' = Restored(g)
    BY <1>1, <1>3 DEF Restored
  <2>3. /\ op'.journal \in Journals /\ journal'[op'.journal] # NoJournal
        /\ op'.before \in [DOMAIN journal'[op'.journal] -> Buffer]
        /\ op'.todo \subseteq DOMAIN op'.before
    BY <1>1, <1>2, <1>3 DEF RollbackInv
  <2> QED
    BY <1>1, <1>3, <2>1, <2>2, <2>3 DEF RollbackInv
<1>9. TextOf' = TextOf
  <2>1. Begun' = Begun
    BY <1>2, <1>3 DEF Begun
  <2> QED
    BY <1>2, <1>3, <1>4, <1>6, <2>1 DEF TextOf
<1>10. Types'
  BY <1>1, <1>7 DEF IInv, Types, IsPlan
<1> QED
  BY <1>1, <1>3, <1>7, <1>8, <1>9, <1>10, SameJournal DEF IInv, OpInv, Unseen

-----------------------------------------------------------------------------
(* A command ends.                                                         *)

LEMMA ApplyEndStep ==
  ASSUME IInv, ApplyEnd, NEW j, j = made + 1,
         NEW from, NEW to, from = op.plan.from, to = op.plan.to
  PROVE  IInv' /\ (Unseen \/ AR!Rename(j, from, to))
<1> DEFINE D == DOMAIN op.before
           entry(f) == [before |-> Digest(op.before[f]), after |-> Digest(buf[f]),
                        modified |-> op.before[f].modified, written |-> ~sync[f] \/ f \in suspect]
           new == [f \in D |-> entry(f)]
<1>1. /\ op.kind = "apply" /\ op.todo = {} /\ op' = NoOp
      /\ journal' = [journal EXCEPT ![j] = new]
      /\ made' = j /\ plans' = plans \ {op.plan}
      /\ UNCHANGED <<buf, disk, sync, steps, suspect>>
  BY DEF ApplyEnd, filesystem
<1>2. ApplyInv /\ op # NoOp /\ Begun = D
  BY <1>1, Applying
<1>3. j \in Journals /\ journal[j] = NoJournal /\ made \in Nat
  BY <1>2, RenameAssumption DEF IInv, Types, ApplyInv, Journals
<1>4. D \subseteq Files /\ \A f \in D : op.before[f] \in Buffer /\ buf[f] \in Buffer
  BY <1>2 DEF ApplyInv, IsPlan, IInv, Types
<1>5. \A f \in D : /\ entry(f) \in Entry
                   /\ AR!Holds(op.before[f].text, entry(f).before)
                   /\ AR!Holds(buf[f].text, entry(f).after)
  BY <1>4, DigestHolds DEF Entry, Buffer
<1>6. Types'
  <2>1. new \in [D -> Entry] /\ DOMAIN new = D
    BY <1>5
  <2>2. /\ journal'[j] = new
        /\ \A i \in Journals \ {j} : journal'[i] = journal[i]
        /\ journal' = [i \in Journals |-> journal'[i]]
    BY <1>1, <1>3 DEF IInv, Types
  <2>3. \A i \in Journals : journal'[i] \in [DOMAIN journal'[i] -> Entry] /\ DOMAIN journal'[i] \subseteq Files
    BY <1>4, <2>1, <2>2 DEF IInv, Types
  <2>4. \A i \in Journals : i > j => journal'[i] = NoJournal
    BY <1>3, <2>2 DEF IInv, Types, Journals
  <2> QED
    BY <1>1, <1>3, <2>2, <2>3, <2>4 DEF IInv, Types, IsPlan
<1>7. IInv'
  BY <1>1, <1>6 DEF IInv, ClosedInv, OpInv
<1>8. /\ TextOf = [f \in Files |-> IF f \in D THEN op.before[f].text ELSE buf[f].text]
      /\ TextOf' = [f \in Files |-> buf[f].text]
  BY <1>1, <1>2, IdleText1 DEF TextOf
<1>9. CASE D = {}
  <2>1. new = NoJournal
    BY <1>9 DEF NoJournal
  <2>2. journal' = journal
    BY <1>1, <1>3, <2>1 DEF IInv, Types
  <2> QED
    BY <1>1, <1>7, <1>8, <1>9, <2>2, SameJournal DEF Unseen
<1>10. CASE D # {}
  <2> DEFINE seen == [f \in D |-> [before |-> entry(f).before, after |-> entry(f).after]]
  <2>1. /\ JournalOf[j] = AR!NoRename
        /\ JournalOf' = [JournalOf EXCEPT ![j] = seen] /\ JournalOf'[j] = seen
        /\ seen # AR!NoRename
    <3>1. JournalOf[j] = AR!NoRename
      BY <1>3 DEF JournalOf, NoJournal, AR!NoRename
    <3>2. JournalOf' = [JournalOf EXCEPT ![j] = seen]
      BY <1>1, <1>3 DEF JournalOf, IInv, Types
    <3>3. JournalOf'[j] = seen
      BY <1>3, <3>2 DEF JournalOf
    <3>4. seen # AR!NoRename
      BY <1>10 DEF AR!NoRename
    <3> QED
      BY <3>1, <3>2, <3>3, <3>4
  <2>2. \A f \in D : /\ AR!Holds(TextOf[f], seen[f].before) /\ AR!Holds(TextOf'[f], seen[f].after)
                     /\ TextOf'[f] = Renamed(f) /\ TextOf[f] = op.before[f].text
    BY <1>1, <1>2, <1>4, <1>5, <1>8 DEF ApplyInv
  <2>3. \A f \in D : /\ TextOf'[f] # TextOf[f]
                     /\ \A p \in Places : TextOf'[f][p] # TextOf[f][p] =>
                           TextOf[f][p] = op.plan.from /\ TextOf'[f][p] = op.plan.to
    <3> TAKE f \in D
    <3>1. PICK e \in op.plan.entries[f].edits : e \in Places
      BY <1>2 DEF ApplyInv, IsPlan
    <3>2. Renamed(f)[e] = op.plan.to /\ op.before[f].text[e] = op.plan.from
          /\ op.plan.from # op.plan.to
      BY <1>2, <3>1 DEF ApplyInv, IsPlan, Renamed
    <3>3. \A p \in Places : Renamed(f)[p] # op.before[f].text[p] =>
              op.before[f].text[p] = op.plan.from /\ Renamed(f)[p] = op.plan.to
      BY <1>2 DEF ApplyInv, Renamed
    <3> QED
      BY <2>2, <3>2, <3>3
  <2>4. \A f \in Files \ D : TextOf'[f] = TextOf[f]
    BY <1>8
  <2>5. AR!Rename(j, from, to)
    <3>1. /\ JournalOf[j] = AR!NoRename /\ JournalOf'[j] # AR!NoRename
          /\ JournalOf' = [JournalOf EXCEPT ![j] = JournalOf'[j]]
          /\ DOMAIN JournalOf'[j] = D /\ \A f \in D : JournalOf'[j][f] = seen[f]
      BY <2>1
    <3>2. ASSUME NEW f \in Files
          PROVE  IF f \in DOMAIN JournalOf'[j]
                 THEN /\ AR!Holds(TextOf[f], JournalOf'[j][f].before)
                      /\ AR!Holds(TextOf'[f], JournalOf'[j][f].after)
                      /\ TextOf'[f] # TextOf[f]
                      /\ \A p \in Places : TextOf'[f][p] # TextOf[f][p] =>
                            TextOf[f][p] = from /\ TextOf'[f][p] = to
                 ELSE TextOf'[f] = TextOf[f]
      <4>1. CASE f \in D
        <5>1. JournalOf'[j][f] = seen[f] /\ f \in DOMAIN JournalOf'[j]
          BY <3>1, <4>1
        <5>2. /\ AR!Holds(TextOf[f], seen[f].before) /\ AR!Holds(TextOf'[f], seen[f].after)
              /\ TextOf'[f] # TextOf[f]
              /\ \A p \in Places : TextOf'[f][p] # TextOf[f][p] =>
                    TextOf[f][p] = from /\ TextOf'[f][p] = to
          BY <2>2, <2>3, <4>1, Zenon
        <5> HIDE DEF seen
        <5> QED
          BY <5>1, <5>2, Zenon
      <4>2. CASE f \notin D
        BY <2>4, <3>1, <4>2
      <4> QED
        BY <4>1, <4>2
    <3>3. UNCHANGED steps
      BY <1>1
    <3> QED
      BY <3>1, <3>2, <3>3, Zenon DEF AR!Rename, TextOf, JournalOf
  <2> QED
    BY <1>7, <2>5
<1> QED
  BY <1>9, <1>10

LEMMA RollbackEndStep ==
  ASSUME IInv, RollbackEnd, NEW j, j = op.journal
  PROVE  IInv' /\ j \in Journals /\ AR!TakeBack(j)
<1> DEFINE D == DOMAIN journal[j]
<1>1. /\ op.kind = "rollback" /\ op.todo = {} /\ op' = NoOp
      /\ buf' = [f \in Files |-> IF f \in D
                    THEN [buf[f] EXCEPT !.modified = journal[j][f].modified] ELSE buf[f]]
      /\ journal' = [journal EXCEPT ![j] = NoJournal]
      /\ UNCHANGED <<disk, sync, plans, made, steps>>
  BY DEF RollbackEnd, filesystem
<1>2. RollbackInv /\ op # NoOp /\ Begun = DOMAIN op.before /\ DOMAIN op.before = D /\ j \in Journals
  BY <1>1, RollingBack DEF RollbackInv
<1>3. D \subseteq Files /\ \A f \in D : journal[j][f] \in Entry /\ buf[f] \in Buffer
                                       /\ op.before[f] \in Buffer
  BY <1>2 DEF RollbackInv, IInv, Types
<1>4. \A f \in Files : buf'[f] \in Buffer /\ buf'[f].text = buf[f].text /\ buf'[f].live = buf[f].live
  <2> TAKE f \in Files
  <2>1. buf[f] \in Buffer
    BY DEF IInv, Types
  <2>2. CASE f \in D
    <3>1. buf'[f] = [buf[f] EXCEPT !.modified = journal[j][f].modified]
      BY <1>1, <2>2
    <3>2. journal[j][f].modified \in BOOLEAN
      BY <1>3, <2>2 DEF Entry
    <3> QED
      BY <2>1, <3>1, <3>2 DEF Buffer
  <2>3. CASE f \notin D
    BY <1>1, <2>1, <2>3
  <2> QED
    BY <2>2, <2>3
<1>5. /\ journal'[j] = NoJournal
      /\ \A i \in Journals \ {j} : journal'[i] = journal[i]
      /\ journal' = [i \in Journals |-> journal'[i]]
  BY <1>1, <1>2 DEF IInv, Types
<1>6. Types'
  <2>1. \A i \in Journals : journal'[i] \in [DOMAIN journal'[i] -> Entry] /\ DOMAIN journal'[i] \subseteq Files
    BY <1>5 DEF IInv, Types, NoJournal
  <2>2. \A i \in Journals : i > made => journal'[i] = NoJournal
    BY <1>5 DEF IInv, Types
  <2>3. buf' \in [Files -> Buffer]
    BY <1>1, <1>4
  <2> QED
    BY <1>1, <1>5, <2>1, <2>2, <2>3 DEF IInv, Types, IsPlan
<1>7. IInv'
  BY <1>1, <1>4, <1>6 DEF IInv, ClosedInv, OpInv
<1>8. /\ TextOf = [f \in Files |-> IF f \in D THEN op.before[f].text ELSE buf[f].text]
      /\ TextOf' = [f \in Files |-> buf[f].text]
  BY <1>1, <1>2, <1>4, IdleText1 DEF TextOf
<1>9. JournalOf' = [JournalOf EXCEPT ![j] = AR!NoRename] /\ JournalOf[j] # AR!NoRename
  <2>1. JournalOf'[j] = AR!NoRename
    BY <1>2, <1>5 DEF JournalOf, NoJournal, AR!NoRename
  <2>2. \A i \in Journals \ {j} : JournalOf'[i] = JournalOf[i]
    BY <1>5 DEF JournalOf
  <2>3. D # {}
    BY <1>2 DEF RollbackInv, NoJournal, IInv, Types
  <2>4. JournalOf[j] # AR!NoRename
    BY <1>2, <2>3 DEF JournalOf, AR!NoRename
  <2> QED
    BY <1>2, <2>1, <2>2, <2>4 DEF JournalOf
<1>10. \A f \in D : /\ JournalOf[j][f].after = journal[j][f].after
                    /\ JournalOf[j][f].before = journal[j][f].before
  BY <1>2 DEF JournalOf
<1>11. \A f \in D : /\ AR!Holds(TextOf[f], JournalOf[j][f].after)
                    /\ AR!Holds(TextOf'[f], JournalOf[j][f].before)
  <2> TAKE f \in D
  <2>1. AR!Holds(op.before[f].text, journal[j][f].after)
    BY <1>2, <1>3, DigestHolds DEF RollbackInv
  <2>2. buf[f].text = Restored(f) /\ journal[j][f].before \in Partial
    BY <1>1, <1>2, <1>3 DEF RollbackInv, Entry
  <2>3. AR!Holds(buf[f].text, journal[j][f].before)
    BY <2>2 DEF Restored, Partial, AR!Holds
  <2> QED
    BY <1>3, <1>8, <1>10, <2>1, <2>3
<1>12. DOMAIN JournalOf[j] = D /\ \A f \in Files \ D : TextOf'[f] = TextOf[f]
  BY <1>2, <1>8 DEF JournalOf
<1>13. AR!TakeBack(j)
  BY <1>1, <1>9, <1>11, <1>12 DEF AR!TakeBack, TextOf, JournalOf
<1> QED
  BY <1>2, <1>7, <1>13

LEMMA CancelStep ==
  ASSUME IInv, Cancel
  PROVE  IInv' /\ Unseen
<1> DEFINE D == DOMAIN op.before
<1>1. /\ op # NoOp /\ op' = NoOp
      /\ buf' = [f \in Files |-> IF f \in D THEN [op.before[f] EXCEPT !.visible = buf[f].visible]
                                 ELSE buf[f]]
      /\ UNCHANGED <<disk, sync, plans, journal, made, steps>>
  BY DEF Cancel, filesystem, tables
<1>2. Begun = D /\ D \subseteq Files /\ \A f \in D : op.before[f] \in Buffer /\ op.before[f].live
  BY <1>1, Applying, RollingBack DEF IInv, OpInv, ApplyInv, RollbackInv, Types, IsPlan
<1>3. /\ \A f \in Files : buf'[f] \in Buffer
      /\ \A f \in D : buf'[f].text = op.before[f].text /\ buf'[f].live
  BY <1>1, <1>2 DEF IInv, Types, Buffer
<1>4. buf' \in [Files -> Buffer] /\ ClosedInv'
  BY <1>1, <1>3 DEF IInv, ClosedInv
<1>5. Types' /\ OpInv'
  BY <1>1, <1>4 DEF IInv, Types, IsPlan, OpInv
<1>6. TextOf' = TextOf
  BY <1>1, <1>2, <1>3, IdleText1 DEF TextOf
<1> QED
  BY <1>1, <1>4, <1>5, <1>6, SameJournal DEF IInv, Unseen

LEMMA CommitStep ==
  ASSUME IInv, NEW j \in Journals, Commit(j)
  PROVE  IInv' /\ AR!Forget(j)
<1>1. /\ op = NoOp /\ journal' = [journal EXCEPT ![j] = NoJournal]
      /\ UNCHANGED <<buf, disk, sync, plans, made, op, steps, suspect>>
  BY DEF Commit, filesystem
<1>2. /\ journal'[j] = NoJournal /\ \A i \in Journals \ {j} : journal'[i] = journal[i]
      /\ journal' = [i \in Journals |-> journal'[i]]
  BY <1>1 DEF IInv, Types
<1>3. Types'
  <2>1. \A i \in Journals : journal'[i] \in [DOMAIN journal'[i] -> Entry] /\ DOMAIN journal'[i] \subseteq Files
    BY <1>2 DEF IInv, Types, NoJournal
  <2>2. \A i \in Journals : i > made => journal'[i] = NoJournal
    BY <1>2 DEF IInv, Types
  <2> QED
    BY <1>1, <1>2, <2>1, <2>2 DEF IInv, Types, IsPlan
<1>4. JournalOf' = [JournalOf EXCEPT ![j] = AR!NoRename]
  <2>1. JournalOf'[j] = AR!NoRename
    BY <1>2 DEF JournalOf, NoJournal, AR!NoRename
  <2>2. \A i \in Journals \ {j} : JournalOf'[i] = JournalOf[i]
    BY <1>2 DEF JournalOf
  <2> QED
    BY <2>1, <2>2 DEF JournalOf
<1>5. TextOf' = TextOf
  BY <1>1, IdleText, IdleText1
<1> QED
  BY <1>1, <1>3, <1>4, <1>5 DEF IInv, ClosedInv, OpInv, AR!Forget, TextOf, JournalOf

-----------------------------------------------------------------------------
(* The human, and other programs: one file at a time.                      *)

LEMMA OutsideStep ==
  ASSUME IInv, NEW f \in Files, Meanwhile,
         buf' \in [Files -> Buffer], disk' \in [Files -> Texts],
         \A g \in Files \ {f} : buf'[g] = buf[g] /\ disk'[g] = disk[g],
         ~buf'[f].live => buf'[f].text = disk'[f],
         journal' = journal \/ Written(f)
  PROVE  IInv' /\ AR!Edit(f)
<1>1. /\ op = NoOp /\ op' = NoOp /\ steps' = steps + 1 /\ UNCHANGED <<plans, made>>
  BY DEF Meanwhile
<1>2. /\ JournalOf' = JournalOf /\ journal' = [j \in Journals |-> journal'[j]]
      /\ \A j \in Journals : /\ journal'[j] \in [DOMAIN journal'[j] -> Entry]
                             /\ DOMAIN journal'[j] = DOMAIN journal[j]
  <2>1. CASE journal' = journal
    BY <2>1, SameJournal DEF IInv, Types
  <2>2. CASE Written(f)
    <3> DEFINE marked(j, g) == [journal[j][g] EXCEPT !.written = @ \/ g = f]
    <3>1. journal' = [j \in Journals |-> [g \in DOMAIN journal[j] |-> marked(j, g)]]
      BY <2>2 DEF Written
    <3>2. ASSUME NEW j \in Journals, NEW g \in DOMAIN journal[j]
          PROVE  /\ marked(j, g) \in Entry
                 /\ marked(j, g).before = journal[j][g].before
                 /\ marked(j, g).after = journal[j][g].after
      <4>1. journal[j][g] \in Entry
        BY DEF IInv, Types
      <4>2. (journal[j][g].written \/ g = f) \in BOOLEAN
        BY <4>1 DEF Entry
      <4> QED
        BY <4>1, <4>2 DEF Entry
    <3> HIDE DEF marked
    <3>3. \A j \in Journals : journal'[j] = [g \in DOMAIN journal[j] |-> marked(j, g)]
      BY <3>1
    <3>4. \A j \in Journals : /\ journal'[j] \in [DOMAIN journal'[j] -> Entry]
                              /\ DOMAIN journal'[j] = DOMAIN journal[j]
                              /\ JournalOf'[j] = JournalOf[j]
      <4> TAKE j \in Journals
      <4>1. journal'[j] \in [DOMAIN journal[j] -> Entry] /\ DOMAIN journal'[j] = DOMAIN journal[j]
        BY <3>2, <3>3
      <4>2. \A g \in DOMAIN journal[j] : journal'[j][g] = marked(j, g)
        BY <3>3
      <4>3. JournalOf'[j] = [g \in DOMAIN journal'[j] |->
                [before |-> journal'[j][g].before, after |-> journal'[j][g].after]]
        BY DEF JournalOf
      <4>4. JournalOf[j] = [g \in DOMAIN journal[j] |->
                [before |-> journal[j][g].before, after |-> journal[j][g].after]]
        BY DEF JournalOf
      <4>5. \A g \in DOMAIN journal[j] : /\ journal'[j][g].before = journal[j][g].before
                                          /\ journal'[j][g].after = journal[j][g].after
        BY <3>2, <4>2
      <4>6. JournalOf'[j] = JournalOf[j]
        BY <4>1, <4>3, <4>4, <4>5
      <4> QED
        BY <4>1, <4>6
    <3> QED
      BY <3>1, <3>3, <3>4 DEF JournalOf
  <2> QED
    BY <2>1, <2>2
<1>3. \A j \in Journals : j > made => journal'[j] = NoJournal
  BY <1>2 DEF IInv, Types, NoJournal
<1>4. IInv'
  BY <1>1, <1>2, <1>3 DEF IInv, Types, IsPlan, ClosedInv, OpInv
<1>5. \A g \in Files \ {f} : TextOf'[g] = TextOf[g]
  BY <1>1, IdleText, IdleText1
<1> QED
  BY <1>1, <1>2, <1>4, <1>5 DEF AR!Edit, TextOf, JournalOf

LEMMA HumanStep ==
  ASSUME IInv, NEW f \in Files,
         \/ Narrow(f) \/ Save(f) \/ Revert(f) \/ Kill(f)
         \/ \E p \in Places : Type(f, p)
         \/ \E w \in Symbols : ExternalWrite(f, w)
  PROVE  IInv' /\ AR!Edit(f)
<1> USE RenameAssumption
<1>1. buf \in [Files -> Buffer] /\ disk \in [Files -> Texts]
  BY DEF IInv, Types
<1>2. CASE Narrow(f)
  <2>1. PICK v \in {Narrowed, Places} : buf' = [buf EXCEPT ![f].visible = v]
    BY <1>2 DEF Narrow
  <2>2. buf' \in [Files -> Buffer] /\ \A g \in Files \ {f} : buf'[g] = buf[g]
    BY <1>1, <2>1 DEF Buffer
  <2>3. buf'[f].live
    BY <1>1, <1>2, <2>1 DEF Narrow, Buffer
  <2> QED
    BY <1>1, <1>2, <2>2, <2>3, OutsideStep DEF Narrow, filesystem
<1>3. CASE Save(f)
  <2>1. buf' \in [Files -> Buffer] /\ \A g \in Files \ {f} : buf'[g] = buf[g]
    <3>1. [buf[f] EXCEPT !.modified = FALSE] \in Buffer
      BY <1>1 DEF Buffer
    <3> QED
      BY <1>1, <1>3, <3>1 DEF Save
  <2>2. disk' \in [Files -> Texts] /\ \A g \in Files \ {f} : disk'[g] = disk[g]
    BY <1>1, <1>3 DEF Save, Buffer
  <2>3. buf'[f].live
    BY <1>1, <1>3 DEF Save, Buffer
  <2> QED
    BY <1>3, <2>1, <2>2, <2>3, OutsideStep DEF Save
<1>4. CASE Revert(f) \/ Kill(f)
  <2>1. /\ Loaded(f) \in Buffer /\ Closed(f) \in Buffer
        /\ Loaded(f).text = disk[f] /\ Closed(f).text = disk[f]
    BY <1>1 DEF Loaded, Closed, Buffer
  <2>2. /\ buf' \in [Files -> Buffer] /\ buf'[f].text = disk[f]
        /\ \A g \in Files \ {f} : buf'[g] = buf[g]
    BY <1>1, <1>4, <2>1 DEF Revert, Kill
  <2> QED
    BY <1>1, <1>4, <2>2, OutsideStep DEF Revert, Kill
<1>5. ASSUME NEW p \in Places, Type(f, p) PROVE IInv' /\ AR!Edit(f)
  <2>1. buf' = [buf EXCEPT ![f].text[p] = "typed", ![f].modified = TRUE]
    BY <1>5 DEF Type
  <2>2. buf' \in [Files -> Buffer] /\ \A g \in Files \ {f} : buf'[g] = buf[g]
    <3> DEFINE r == [buf[f] EXCEPT !.text = [buf[f].text EXCEPT ![p] = "typed"], !.modified = TRUE]
    <3>1. buf[f].text \in Texts /\ "typed" \in Words
      BY <1>1 DEF Buffer, Words
    <3>2. [buf[f].text EXCEPT ![p] = "typed"] \in Texts
      BY <3>1 DEF Texts
    <3>3. r \in Buffer
      BY <1>1, <3>2 DEF Buffer
    <3>4. buf' = [buf EXCEPT ![f] = r]
      BY <1>1, <2>1
    <3> HIDE DEF r
    <3> QED
      BY <1>1, <3>3, <3>4
  <2>3. buf'[f].live
    BY <1>1, <1>5, <2>1 DEF Type, Buffer
  <2> QED
    BY <1>1, <1>5, <2>2, <2>3, OutsideStep DEF Type, filesystem
<1>6. ASSUME NEW w \in Symbols, ExternalWrite(f, w) PROVE IInv' /\ AR!Edit(f)
  <2>1. disk' = [disk EXCEPT ![f] = [p \in Places |-> w]]
        /\ buf' = IF buf[f].live THEN buf ELSE [buf EXCEPT ![f].text = disk'[f]]
    BY <1>6 DEF ExternalWrite
  <2>2. disk' \in [Files -> Texts] /\ \A g \in Files \ {f} : disk'[g] = disk[g]
    BY <1>1, <2>1 DEF Texts, Words
  <2>3. buf' \in [Files -> Buffer] /\ \A g \in Files \ {f} : buf'[g] = buf[g]
    BY <1>1, <2>1, <2>2 DEF Buffer
  <2>4. ~buf'[f].live => buf'[f].text = disk'[f]
    BY <1>1, <2>1 DEF Buffer
  <2> QED
    BY <1>6, <2>2, <2>3, <2>4, OutsideStep DEF ExternalWrite
<1> QED
  BY <1>2, <1>3, <1>4, <1>5, <1>6

-----------------------------------------------------------------------------
LEMMA InitIInv ==
  ASSUME Init
  PROVE  IInv /\ AR!Init
<1> USE RenameAssumption DEF Init
<1>1. buf \in [Files -> Buffer] /\ \A f \in Files : buf[f].text = disk[f]
  BY DEF Closed, Loaded, Buffer
<1>2. /\ journal = [j \in Journals |-> journal[j]]
      /\ \A j \in Journals : journal[j] \in [DOMAIN journal[j] -> Entry] /\ DOMAIN journal[j] \subseteq Files
  BY DEF NoJournal
<1>3. Types
  BY <1>1, <1>2 DEF Types
<1>4. IInv
  BY <1>1, <1>3 DEF IInv, ClosedInv, OpInv
<1>5. TextOf \in [Files -> [Places -> Words]]
  BY <1>1, IdleText DEF Texts
<1>6. JournalOf = [j \in Journals |-> AR!NoRename]
  BY DEF JournalOf, NoJournal, AR!NoRename
<1> QED
  BY <1>4, <1>5, <1>6 DEF AR!Init, TextOf, JournalOf

LEMMA StepRefines ==
  ASSUME IInv, [Next]_vars
  PROVE  IInv' /\ [AR!Next]_(AR!vars)
<1>1. CASE UNCHANGED vars
  <2>1. UNCHANGED <<buf, disk, sync, plans, journal, made, op, steps>>
    BY <1>1 DEF vars, filesystem, tables
  <2>2. TextOf' = TextOf
    BY <2>1 DEF TextOf, Begun
  <2>3. Types' /\ ClosedInv'
    BY <2>1 DEF IInv, Types, ClosedInv, IsPlan
  <2>4. OpInv'
    <3>1. ASSUME ApplyInv PROVE ApplyInv'
      <4>1. /\ (op = [kind |-> "apply", plan |-> op.plan, todo |-> op.todo, before |-> op.before])'
            /\ IsPlan(op.plan)' /\ (made < LastJournal)'
            /\ (op.before \in [DOMAIN op.plan.entries -> Buffer])'
            /\ (op.todo \subseteq DOMAIN op.before)'
        BY <2>1, <3>1 DEF ApplyInv, IsPlan
      <4>2. ASSUME NEW f \in DOMAIN op'.before
            PROVE  /\ buf'[f].live /\ op'.before[f].live
                   /\ \A e \in op'.plan.entries[f].edits : op'.before[f].text[e] = op'.plan.from
                   /\ buf'[f].text = IF f \in op'.todo THEN op'.before[f].text ELSE Renamed(f)'
                   /\ f \notin op'.todo => buf'[f].modified
        <5>1. buf' = buf /\ op' = op /\ f \in DOMAIN op.before
          BY <2>1, <4>2
        <5>2. Renamed(f)' = Renamed(f)
          BY <5>1 DEF Renamed
        <5> QED
          BY <3>1, <5>1, <5>2 DEF ApplyInv
      <4> QED
        BY <4>1, <4>2 DEF ApplyInv
    <3>2. RollbackInv => RollbackInv'
      BY <2>1 DEF RollbackInv, Restored, Digest, Restrict
    <3> QED
      BY <2>1, <3>1, <3>2 DEF IInv, OpInv
  <2> QED
    BY <2>1, <2>2, <2>3, <2>4, SameJournal, UnseenIsStutter DEF IInv, Unseen
<1>2. ASSUME NEW S \in SUBSET Files,
             PreflightFails(S) \/ \E from, to \in Symbols : from # to /\ Plan(from, to, S)
      PROVE  IInv' /\ [AR!Next]_(AR!vars)
  BY <1>2, PlanStep, TablesStep, UnseenIsStutter
<1>3. ASSUME NEW p \in plans, PlanExpires(p) \/ ApplyBegin(p) PROVE IInv' /\ [AR!Next]_(AR!vars)
  BY <1>3, TablesStep, ApplyBeginStep, UnseenIsStutter
<1>4. CASE ApplyEnd
  <2>1. /\ made + 1 \in Journals /\ op.plan.from \in Words /\ op.plan.to \in Words
    BY <1>4, Applying, RenameAssumption DEF ApplyEnd, ApplyInv, IsPlan, IInv, Types, Journals, Words
  <2>2. PICK j \in Journals, from, to \in Words :
            j = made + 1 /\ from = op.plan.from /\ to = op.plan.to
    BY <2>1
  <2>3. IInv' /\ (Unseen \/ AR!Rename(j, from, to))
    BY <1>4, <2>2, ApplyEndStep
  <2> QED
    BY <2>3, UnseenIsStutter DEF AR!Next
<1>5. CASE RollbackEnd
  <2>1. PICK j : j = op.journal
    OBVIOUS
  <2>2. IInv' /\ j \in Journals /\ AR!TakeBack(j)
    BY <1>5, <2>1, RollbackEndStep
  <2> QED
    BY <2>2 DEF AR!Next
<1>6. CASE Cancel
  BY <1>6, CancelStep, UnseenIsStutter
<1>7. ASSUME NEW j \in Journals, RollbackBegin(j) \/ Commit(j) PROVE IInv' /\ [AR!Next]_(AR!vars)
  BY <1>7, RollbackBeginStep, CommitStep, UnseenIsStutter DEF AR!Next
<1>8. ASSUME NEW f \in Files, EditBuffer(f) \/ RestoreBuffer(f) PROVE IInv' /\ [AR!Next]_(AR!vars)
  BY <1>8, EditBufferStep, RestoreBufferStep, UnseenIsStutter
<1>9. ASSUME NEW f \in Files,
             \/ Narrow(f) \/ Save(f) \/ Revert(f) \/ Kill(f)
             \/ \E p \in Places : Type(f, p)
             \/ \E w \in Symbols : ExternalWrite(f, w)
      PROVE  IInv' /\ [AR!Next]_(AR!vars)
  <2>1. IInv' /\ AR!Edit(f)
    BY <1>9, HumanStep
  <2> QED
    BY <2>1 DEF AR!Next
<1> QED
  BY <1>1, <1>2, <1>3, <1>4, <1>5, <1>6, <1>7, <1>8, <1>9 DEF Next

(* Apply and rollback of a project rename, which change one buffer after   *)
(* another and may fail at any, implement the atomic rename                *)
(* (emacs-operator-refactor-intelligence.el).                              *)
THEOREM Atomic == Spec => RenameIsAtomic
<1>1. Init => IInv /\ AR!Init
  BY InitIInv
<1>2. IInv /\ [Next]_vars => IInv' /\ [AR!Next]_(AR!vars)
  BY StepRefines
<1> QED
  BY <1>1, <1>2, PTL DEF Spec, RenameIsAtomic, AR!Spec

-----------------------------------------------------------------------------
(* What the flags mean, outside of the command under way.                  *)

Outer(f) == IF f \in Begun THEN op.before[f] ELSE buf[f]

\* A buffer that shows as unmodified is its file; what is gone in a buffer is
\* gone in its file, unless a rollback has lost it; and a rename that began
\* with an unmodified buffer has captured what the file still holds.
HonestFlag(f) == LET b == Outer(f) IN
    b.live /\ ~b.modified /\ sync[f] /\ f \notin suspect => b.text = disk[f]
NothingLost(f) == LET b == Outer(f) IN
    sync[f] /\ f \notin suspect =>
        \A p \in Places : b.text[p] = "gone" => disk[f][p] = "gone"
HonestJournal(j, f) ==
    ~journal[j][f].modified /\ ~journal[j][f].written =>
        \A p \in DOMAIN journal[j][f].before : disk[f][p] = journal[j][f].before[p]

FlagInv ==
    /\ sync \in [Files -> BOOLEAN]
    /\ \A f \in Files : HonestFlag(f) /\ NothingLost(f)
    /\ \A j \in Journals : \A f \in DOMAIN journal[j] : HonestJournal(j, f)

\* The ways in which a step keeps the flag of a file honest: nothing changes,
\* the text and the file become one, the file is overwritten from elsewhere, or
\* the buffer is marked.
Same(f) ==
    /\ Outer(f)'.text = Outer(f).text /\ Outer(f)'.modified = Outer(f).modified
    /\ Outer(f)'.live => Outer(f).live
    /\ sync'[f] = sync[f] /\ disk'[f] = disk[f] /\ (f \in suspect => f \in suspect')
Synced(f) == Outer(f)'.text = disk'[f]
Overwritten(f) == ~sync'[f]
Marked(f) ==
    /\ Outer(f)'.modified
    /\ \A p \in Places : Outer(f)'.text[p] = "gone" => Outer(f).text[p] = "gone"
    /\ sync'[f] = sync[f] /\ disk'[f] = disk[f] /\ (f \in suspect => f \in suspect')

Kept(f) == Same(f) \/ Synced(f) \/ Overwritten(f) \/ Marked(f)

LEMMA KeptFile ==
  ASSUME NEW f \in Files, HonestFlag(f), NothingLost(f), Kept(f)
  PROVE  HonestFlag(f)' /\ NothingLost(f)'
<1>1. CASE Same(f)
  BY <1>1 DEF Same, HonestFlag, NothingLost
<1>2. CASE Synced(f)
  BY <1>2 DEF Synced, HonestFlag, NothingLost
<1>3. CASE Overwritten(f)
  BY <1>3 DEF Overwritten, HonestFlag, NothingLost
<1>4. CASE Marked(f)
  BY <1>4 DEF Marked, HonestFlag, NothingLost
<1> QED
  BY <1>1, <1>2, <1>3, <1>4 DEF Kept

LEMMA KeptJournal ==
  ASSUME \A j \in Journals : \A f \in DOMAIN journal[j] : HonestJournal(j, f),
         journal' = journal, disk' = disk
  PROVE  \A j \in Journals : \A f \in DOMAIN journal'[j] : HonestJournal(j, f)'
BY DEF HonestJournal

\* A step that keeps every file and no journal is concerned.
LEMMA FilesKept ==
  ASSUME FlagInv, sync' \in [Files -> BOOLEAN], \A f \in Files : Kept(f),
         journal' = journal, disk' = disk
  PROVE  FlagInv'
<1>1. \A f \in Files : HonestFlag(f)' /\ NothingLost(f)'
  BY KeptFile DEF FlagInv
<1>2. \A j \in Journals : \A f \in DOMAIN journal'[j] : HonestJournal(j, f)'
  BY KeptJournal DEF FlagInv
<1> QED
  BY <1>1, <1>2 DEF FlagInv

LEMMA VisitKeeps ==
  ASSUME IInv, FlagInv, NEW S \in SUBSET Files, op = NoOp, Visit(S), UNCHANGED <<disk, suspect>>,
         \A f \in Files : Outer(f)' = buf'[f]
  PROVE  sync' \in [Files -> BOOLEAN] /\ \A f \in Files : Kept(f)
<1>1. \A f \in Files : Outer(f) = buf[f] /\ buf[f] \in Buffer
  BY DEF Outer, Begun, IInv, Types
<1>2. /\ buf' = [f \in Files |-> IF f \in S /\ ~buf[f].live THEN Loaded(f) ELSE buf[f]]
      /\ sync' = [f \in Files |-> sync[f] \/ (f \in S /\ ~buf[f].live)]
  BY DEF Visit, Visiting
<1>3. sync' \in [Files -> BOOLEAN]
  BY <1>2
<1>4. ASSUME NEW f \in Files PROVE Kept(f)
  <2>1. CASE f \in S /\ ~buf[f].live
    BY <1>2, <2>1 DEF Kept, Synced, Loaded
  <2>2. CASE ~(f \in S /\ ~buf[f].live)
    <3>1. buf'[f] = buf[f] /\ sync'[f] = sync[f]
      BY <1>2, <2>2 DEF FlagInv
    <3> QED
      BY <1>1, <3>1 DEF Kept, Same
  <2> QED
    BY <2>1, <2>2
<1> QED
  BY <1>3, <1>4

LEMMA IdleFlags ==
  ASSUME IInv, FlagInv,
         \/ \E S \in SUBSET Files, from, to \in Symbols : Plan(from, to, S)
         \/ \E S \in SUBSET Files : PreflightFails(S)
         \/ \E p \in plans : PlanExpires(p)
  PROVE  FlagInv'
<1>1. /\ op = NoOp /\ op' = NoOp /\ UNCHANGED <<disk, journal, suspect>>
      /\ (\E S \in SUBSET Files : Visit(S)) \/ UNCHANGED <<buf, sync>>
  BY DEF Plan, PreflightFails, PlanExpires, tables, filesystem
<1>2. \A f \in Files : Outer(f) = buf[f] /\ Outer(f)' = buf'[f]
  BY <1>1 DEF Outer, Begun
<1>3. CASE \E S \in SUBSET Files : Visit(S)
  BY <1>1, <1>2, <1>3, VisitKeeps, FilesKept
<1>4. CASE UNCHANGED <<buf, sync>>
  <2>1. \A f \in Files : Kept(f)
    BY <1>1, <1>2, <1>4 DEF Kept, Same
  <2> QED
    BY <1>1, <1>4, <2>1, FilesKept DEF FlagInv
<1> QED
  BY <1>1, <1>3, <1>4

LEMMA BeginFlags ==
  ASSUME IInv, FlagInv,
         (\E p \in plans : ApplyBegin(p)) \/ \E j \in Journals : RollbackBegin(j)
  PROVE  FlagInv'
<1>1. PICK D \in SUBSET Files :
          /\ op = NoOp /\ Visit(D) /\ UNCHANGED <<disk, journal, suspect>>
          /\ op' # NoOp /\ op'.before = Restrict(Visiting(D), D)
  <2>1. ASSUME NEW p \in plans, ApplyBegin(p)
        PROVE  \E D \in SUBSET Files :
                  /\ op = NoOp /\ Visit(D) /\ UNCHANGED <<disk, journal, suspect>>
                  /\ op' # NoOp /\ op'.before = Restrict(Visiting(D), D)
    BY <2>1 DEF ApplyBegin, tables, NoOp, IInv, Types, IsPlan
  <2>2. ASSUME NEW j \in Journals, RollbackBegin(j)
        PROVE  \E D \in SUBSET Files :
                  /\ op = NoOp /\ Visit(D) /\ UNCHANGED <<disk, journal, suspect>>
                  /\ op' # NoOp /\ op'.before = Restrict(Visiting(D), D)
    BY <2>2 DEF RollbackBegin, tables, NoOp, IInv, Types
  <2> QED
    BY <2>1, <2>2
<1>2. op'.before = [f \in D |-> buf'[f]]
  BY <1>1 DEF Restrict, Visit, Visiting
<1>3. \A f \in Files : Outer(f)' = buf'[f]
  BY <1>1, <1>2 DEF Outer, Begun
<1> QED
  BY <1>1, <1>3, VisitKeeps, FilesKept

\* The captured buffers stand for those that are being changed.
LEMMA CapturedKeep ==
  ASSUME IInv, FlagInv, op # NoOp, op' # NoOp, Begun = DOMAIN op.before, op'.before = op.before,
         NEW f \in DOMAIN op.before, \A g \in Files \ {f} : buf'[g] = buf[g],
         UNCHANGED <<sync, disk, journal, suspect>>
  PROVE  FlagInv'
<1>1. Begun' = Begun
  BY DEF Begun
<1>2. \A g \in Files : Outer(g)' = Outer(g)
  BY <1>1 DEF Outer
<1>3. \A g \in Files : Kept(g)
  BY <1>2 DEF Kept, Same
<1> QED
  BY <1>3, FilesKept DEF FlagInv

LEMMA UnderWayFlags ==
  ASSUME IInv, FlagInv, NEW f \in Files, EditBuffer(f) \/ RestoreBuffer(f)
  PROVE  FlagInv'
<1>1. \A g \in Files \ {f} : buf'[g] = buf[g]
  BY DEF EditBuffer, RestoreBuffer, IInv, Types
<1>2. UNCHANGED <<sync, disk, journal, suspect>>
  BY DEF EditBuffer, RestoreBuffer, filesystem, tables
<1>3. CASE EditBuffer(f)
  <2>1. /\ op.kind = "apply" /\ f \in op.todo /\ op' = [op EXCEPT !.todo = @ \ {f}]
    BY <1>3 DEF EditBuffer
  <2>2. ApplyInv /\ op # NoOp /\ Begun = DOMAIN op.before
    BY <2>1, Applying
  <2>3. op'.kind = "apply" /\ op'.before = op.before /\ f \in DOMAIN op.before
    BY <2>1, <2>2 DEF ApplyInv
  <2> QED
    BY <1>1, <1>2, <2>2, <2>3, CapturedKeep DEF NoOp
<1>4. CASE RestoreBuffer(f)
  <2>1. /\ op.kind = "rollback" /\ f \in op.todo /\ op' = [op EXCEPT !.todo = @ \ {f}]
    BY <1>4 DEF RestoreBuffer
  <2>2. RollbackInv /\ op # NoOp /\ Begun = DOMAIN op.before
    BY <2>1, RollingBack
  <2>3. op'.kind = "rollback" /\ op'.before = op.before /\ f \in DOMAIN op.before
    BY <2>1, <2>2 DEF RollbackInv
  <2> QED
    BY <1>1, <1>2, <2>2, <2>3, CapturedKeep DEF NoOp
<1> QED
  BY <1>3, <1>4

LEMMA CancelFlags ==
  ASSUME IInv, FlagInv, Cancel
  PROVE  FlagInv'
<1>1. /\ op # NoOp /\ op' = NoOp
      /\ buf' = [f \in Files |-> IF f \in DOMAIN op.before
                    THEN [op.before[f] EXCEPT !.visible = buf[f].visible] ELSE buf[f]]
      /\ UNCHANGED <<disk, sync, journal, suspect>>
  BY DEF Cancel, filesystem, tables
<1>2. Begun = DOMAIN op.before /\ \A f \in Begun : op.before[f] \in Buffer
  BY <1>1, Applying, RollingBack DEF IInv, OpInv, ApplyInv, RollbackInv
<1>3. \A f \in Files : Same(f)
  <2> TAKE f \in Files
  <2>1. Outer(f)' = buf'[f]
    BY <1>1 DEF Outer, Begun
  <2>2. /\ buf'[f].text = Outer(f).text /\ buf'[f].modified = Outer(f).modified
        /\ buf'[f].live = Outer(f).live
    BY <1>1, <1>2 DEF Outer, Buffer
  <2> QED
    BY <1>1, <2>1, <2>2 DEF Same
<1> QED
  BY <1>1, <1>3, FilesKept DEF FlagInv, Kept

LEMMA CommitFlags ==
  ASSUME IInv, FlagInv, NEW j \in Journals, Commit(j)
  PROVE  FlagInv'
<1>1. /\ op = NoOp /\ journal' = [journal EXCEPT ![j] = NoJournal]
      /\ UNCHANGED <<buf, disk, sync, op, suspect>>
  BY DEF Commit, filesystem
<1>2. journal'[j] = NoJournal /\ \A i \in Journals \ {j} : journal'[i] = journal[i]
  BY <1>1 DEF IInv, Types
<1>3. \A i \in Journals : \A f \in DOMAIN journal'[i] : HonestJournal(i, f)'
  BY <1>1, <1>2 DEF FlagInv, HonestJournal, NoJournal
<1>4. \A f \in Files : HonestFlag(f)' /\ NothingLost(f)'
  BY <1>1 DEF FlagInv, HonestFlag, NothingLost, Outer, Begun
<1> QED
  BY <1>1, <1>3, <1>4 DEF FlagInv

LEMMA ApplyEndFlags ==
  ASSUME IInv, FlagInv, ApplyEnd, NEW j, j = made + 1
  PROVE  FlagInv'
<1> DEFINE D == DOMAIN op.before
<1>1. /\ op.kind = "apply" /\ op.todo = {} /\ op' = NoOp
      /\ journal' = [journal EXCEPT ![j] = [f \in D |->
            [before |-> Digest(op.before[f]), after |-> Digest(buf[f]),
             modified |-> op.before[f].modified, written |-> ~sync[f] \/ f \in suspect]]]
      /\ UNCHANGED <<buf, disk, sync, suspect>>
  BY DEF ApplyEnd, filesystem
<1>2. ApplyInv /\ Begun = D /\ D \subseteq Files
  BY <1>1, Applying DEF ApplyInv, IsPlan
<1>3. \A f \in Files : Outer(f)' = buf[f]
  BY <1>1 DEF Outer, Begun
<1>4. ASSUME NEW f \in Files PROVE Kept(f)
  <2>1. CASE f \notin D
    BY <1>1, <1>2, <1>3, <2>1 DEF Kept, Same, Outer
  <2>2. CASE f \in D
    <3>1. buf[f].modified /\ buf[f].text = Renamed(f)
      BY <1>1, <1>2, <2>2 DEF ApplyInv
    <3>2. \A p \in Places : Renamed(f)[p] = "gone" => op.before[f].text[p] = "gone"
      BY <1>2 DEF Renamed, ApplyInv, IsPlan, Symbols
    <3> QED
      BY <1>1, <1>2, <1>3, <2>2, <3>1, <3>2 DEF Kept, Marked, Outer
  <2> QED
    BY <2>1, <2>2
<1>5. \A f \in Files : HonestFlag(f)' /\ NothingLost(f)'
  BY <1>4, KeptFile DEF FlagInv
<1>6. ASSUME NEW i \in Journals, NEW f \in DOMAIN journal'[i] PROVE HonestJournal(i, f)'
  <2>1. CASE i = j
    <3>1. /\ f \in D /\ journal'[i][f].before = Digest(op.before[f])
          /\ journal'[i][f].modified = op.before[f].modified
          /\ journal'[i][f].written = (~sync[f] \/ f \in suspect)
      BY <1>1, <2>1 DEF IInv, Types
    <3>2. HonestFlag(f) /\ Outer(f) = op.before[f] /\ op.before[f].live
      <4>1. HonestFlag(f)
        BY <1>2, <3>1 DEF FlagInv
      <4>2. Outer(f) = op.before[f] /\ op.before[f].live
        BY <1>2, <3>1 DEF Outer, ApplyInv
      <4> QED
        BY <4>1, <4>2
    <3>3. \A p \in DOMAIN Digest(op.before[f]) : Digest(op.before[f])[p] = op.before[f].text[p]
      BY DEF Digest, Restrict
    <3> QED
      <4>1. UNCHANGED <<disk, sync>>
        BY <1>1
      <4>2. ~op.before[f].modified /\ sync[f] /\ f \notin suspect => op.before[f].text = disk[f]
        BY <3>2 DEF HonestFlag
      <4> QED
        BY <3>1, <3>3, <4>1, <4>2 DEF HonestJournal
  <2>2. CASE i # j
    <3>1. journal'[i] = journal[i]
      BY <1>1, <2>2 DEF IInv, Types
    <3> QED
      BY <1>1, <3>1 DEF FlagInv, HonestJournal
  <2> QED
    BY <2>1, <2>2
<1> QED
  BY <1>1, <1>5, <1>6 DEF FlagInv

LEMMA RollbackEndFlags ==
  ASSUME IInv, FlagInv, RollbackEnd, NEW j, j = op.journal
  PROVE  FlagInv'
<1> DEFINE D == DOMAIN journal[j]
           lost(f) == \E p \in Places \ DOMAIN journal[j][f].before : op.before[f].text[p] # "gone"
<1>1. /\ op.kind = "rollback" /\ op.todo = {} /\ op' = NoOp
      /\ buf' = [f \in Files |-> IF f \in D
                    THEN [buf[f] EXCEPT !.modified = journal[j][f].modified] ELSE buf[f]]
      /\ suspect' = suspect \cup {f \in D : journal[j][f].written \/ lost(f)}
      /\ journal' = [journal EXCEPT ![j] = NoJournal]
      /\ UNCHANGED <<disk, sync>>
  BY DEF RollbackEnd, filesystem
<1>2. RollbackInv /\ Begun = D /\ DOMAIN op.before = D /\ j \in Journals /\ D \subseteq Files
  BY <1>1, RollingBack DEF RollbackInv, IInv, Types
<1>3. \A f \in Files : Outer(f)' = buf'[f]
  BY <1>1 DEF Outer, Begun
<1>4. ASSUME NEW f \in Files \ D PROVE HonestFlag(f)' /\ NothingLost(f)'
  BY <1>1, <1>2, <1>3, KeptFile DEF FlagInv, Kept, Same, Outer
<1>5. ASSUME NEW f \in D PROVE HonestFlag(f)' /\ NothingLost(f)'
  <2> DEFINE captured == journal[j][f].before
  <2>1. /\ buf'[f].text = Restored(f) /\ buf'[f].modified = journal[j][f].modified
        /\ disk[f] \in Texts /\ captured \in Partial /\ f \in Files
    BY <1>1, <1>2 DEF RollbackInv, IInv, Types, Buffer, Entry
  <2>2. f \notin suspect' => f \notin suspect /\ ~journal[j][f].written /\ ~lost(f)
    BY <1>1
  <2>3. NothingLost(f) /\ HonestJournal(j, f) /\ Outer(f) = op.before[f]
    BY <1>2, <2>1 DEF FlagInv, Outer
  <2>4. ASSUME NEW p \in Places, p \notin DOMAIN captured, sync'[f], f \notin suspect'
        PROVE  disk[f][p] = "gone"
    BY <1>1, <2>2, <2>3, <2>4 DEF NothingLost
  <2>5. \A p \in Places :
            Restored(f)[p] = IF p \in DOMAIN captured THEN captured[p] ELSE "gone"
    BY DEF Restored
  <2>6. NothingLost(f)'
    <3>1. \A p \in DOMAIN captured : captured[p] # "gone"
      BY <2>1 DEF Partial
    <3>2. SUFFICES ASSUME sync'[f], f \notin suspect', NEW p \in Places, Restored(f)[p] = "gone"
                   PROVE  disk[f][p] = "gone"
      <4>1. Outer(f)'.text = Restored(f) /\ disk' = disk
        BY <1>1, <1>3, <2>1
      <4> HIDE DEF captured
      <4> QED
        BY <4>1 DEF NothingLost
    <3>3. p \notin DOMAIN captured
      BY <2>5, <3>1, <3>2
    <3> QED
      BY <2>4, <3>2, <3>3
  <2>7. HonestFlag(f)'
    <3>1. SUFFICES ASSUME ~journal[j][f].modified, sync'[f], f \notin suspect'
                   PROVE  Restored(f) = disk[f]
      BY <1>1, <1>3, <2>1 DEF HonestFlag
    <3>2. \A p \in Places : Restored(f)[p] = disk[f][p]
      BY <2>2, <2>3, <2>4, <2>5, <3>1 DEF HonestJournal
    <3> QED
      BY <2>1, <3>2 DEF Restored, Texts
  <2> QED
    BY <2>6, <2>7
<1>6. ASSUME NEW i \in Journals, NEW f \in DOMAIN journal'[i] PROVE HonestJournal(i, f)'
  <2>1. i # j /\ journal'[i] = journal[i]
    BY <1>1, <1>2 DEF IInv, Types, NoJournal
  <2> QED
    BY <1>1, <2>1 DEF FlagInv, HonestJournal
<1> QED
  BY <1>1, <1>4, <1>5, <1>6 DEF FlagInv

\* A file is written: the journals that captured its text know it.
LEMMA WrittenJournal ==
  ASSUME IInv, FlagInv, NEW f \in Files, Written(f), \A g \in Files \ {f} : disk'[g] = disk[g]
  PROVE  \A j \in Journals : \A g \in DOMAIN journal'[j] : HonestJournal(j, g)'
<1> SUFFICES ASSUME NEW j \in Journals, NEW g \in DOMAIN journal'[j]
             PROVE  HonestJournal(j, g)'
  OBVIOUS
<1>1. journal'[j] = [h \in DOMAIN journal[j] |->
                        [journal[j][h] EXCEPT !.written = @ \/ h = f]]
  BY DEF Written
<1>2. g \in DOMAIN journal[j] /\ g \in Files /\ journal[j][g] \in Entry
  BY <1>1 DEF IInv, Types
<1>3. journal'[j][g] = [journal[j][g] EXCEPT !.written = @ \/ g = f]
  BY <1>1, <1>2
<1>4. /\ journal'[j][g].before = journal[j][g].before
      /\ journal'[j][g].modified = journal[j][g].modified
      /\ journal'[j][g].written <=> journal[j][g].written \/ g = f
  BY <1>2, <1>3 DEF Entry
<1> QED
  BY <1>2, <1>4 DEF HonestJournal, FlagInv

LEMMA OutsideFlags ==
  ASSUME IInv, FlagInv, NEW f \in Files, op = NoOp, op' = NoOp, Kept(f),
         sync' \in [Files -> BOOLEAN], suspect \ {f} \subseteq suspect',
         \A g \in Files \ {f} : buf'[g] = buf[g] /\ disk'[g] = disk[g] /\ sync'[g] = sync[g],
         Written(f) \/ (journal' = journal /\ disk' = disk)
  PROVE  FlagInv'
<1>1. \A g \in Files \ {f} : Kept(g)
  BY DEF Kept, Same, Outer, Begun
<1>2. \A g \in Files : HonestFlag(g)' /\ NothingLost(g)'
  BY <1>1, KeptFile DEF FlagInv
<1>3. \A j \in Journals : \A g \in DOMAIN journal'[j] : HonestJournal(j, g)'
  BY WrittenJournal, KeptJournal DEF FlagInv
<1> QED
  BY <1>2, <1>3 DEF FlagInv

LEMMA HumanFlags ==
  ASSUME IInv, FlagInv, NEW f \in Files,
         \/ Narrow(f) \/ Save(f) \/ Revert(f) \/ Kill(f)
         \/ \E p \in Places : Type(f, p)
         \/ \E w \in Symbols : ExternalWrite(f, w)
  PROVE  FlagInv'
<1>1. /\ buf \in [Files -> Buffer] /\ disk \in [Files -> Texts] /\ sync \in [Files -> BOOLEAN]
  BY DEF IInv, Types, FlagInv
<1>2. op = NoOp /\ op' = NoOp
  BY DEF Meanwhile, Narrow, Save, Revert, Kill, Type, ExternalWrite
<1>3. Outer(f) = buf[f] /\ Outer(f)' = buf'[f]
  BY <1>2 DEF Outer, Begun
<1>4. CASE Narrow(f)
  <2>1. PICK v : buf' = [buf EXCEPT ![f].visible = v]
    BY <1>4 DEF Narrow
  <2>2. buf'[f].text = buf[f].text /\ buf'[f].modified = buf[f].modified /\ buf'[f].live = buf[f].live
    BY <1>1, <2>1 DEF Buffer
  <2>3. UNCHANGED <<disk, sync, journal, suspect>> /\ \A g \in Files \ {f} : buf'[g] = buf[g]
    BY <1>1, <1>4, <2>1 DEF Narrow, filesystem
  <2>4. Kept(f)
    BY <1>3, <2>2, <2>3 DEF Kept, Same
  <2> QED
    BY <1>1, <1>2, <2>3, <2>4, OutsideFlags
<1>5. ASSUME NEW p \in Places, Type(f, p) PROVE FlagInv'
  <2>1. buf' = [buf EXCEPT ![f].text[p] = "typed", ![f].modified = TRUE]
    BY <1>5 DEF Type
  <2>2. buf'[f].modified /\ buf'[f].text = [buf[f].text EXCEPT ![p] = "typed"]
    BY <1>1, <2>1 DEF Buffer
  <2>3. \A q \in Places : buf'[f].text[q] = "gone" => buf[f].text[q] = "gone"
    BY <1>1, <2>2 DEF Buffer, Texts
  <2>4. UNCHANGED <<disk, sync, journal, suspect>> /\ \A g \in Files \ {f} : buf'[g] = buf[g]
    BY <1>1, <1>5, <2>1 DEF Type, filesystem
  <2>5. Kept(f)
    BY <1>3, <2>2, <2>3, <2>4 DEF Kept, Marked
  <2> QED
    BY <1>1, <1>2, <2>4, <2>5, OutsideFlags
<1>6. CASE Save(f)
  <2>1. /\ disk' = [disk EXCEPT ![f] = buf[f].text] /\ sync' = [sync EXCEPT ![f] = TRUE]
        /\ buf' = [buf EXCEPT ![f].modified = FALSE] /\ Written(f) /\ suspect' = suspect \ {f}
    BY <1>6 DEF Save
  <2>2. buf'[f].text = disk'[f]
    BY <1>1, <2>1 DEF Buffer
  <2>3. Kept(f)
    BY <1>3, <2>2 DEF Kept, Synced
  <2>4. /\ sync' \in [Files -> BOOLEAN]
        /\ \A g \in Files \ {f} : buf'[g] = buf[g] /\ disk'[g] = disk[g] /\ sync'[g] = sync[g]
    BY <1>1, <2>1
  <2> QED
    BY <1>2, <2>1, <2>3, <2>4, OutsideFlags
<1>7. CASE Revert(f) \/ Kill(f)
  <2>1. /\ buf' = [buf EXCEPT ![f] = Loaded(f)] \/ buf' = [buf EXCEPT ![f] = Closed(f)]
        /\ sync' = [sync EXCEPT ![f] = TRUE] /\ suspect' = suspect \ {f}
        /\ UNCHANGED <<disk, journal>>
    BY <1>7 DEF Revert, Kill
  <2>2. buf'[f].text = disk'[f]
    BY <1>1, <2>1 DEF Loaded, Closed
  <2>3. Kept(f)
    BY <1>3, <2>2 DEF Kept, Synced
  <2>4. /\ sync' \in [Files -> BOOLEAN]
        /\ \A g \in Files \ {f} : buf'[g] = buf[g] /\ sync'[g] = sync[g]
    BY <1>1, <2>1
  <2> QED
    BY <1>2, <2>1, <2>3, <2>4, OutsideFlags
<1>8. ASSUME NEW w \in Symbols, ExternalWrite(f, w) PROVE FlagInv'
  <2>1. /\ disk' = [disk EXCEPT ![f] = [p \in Places |-> w]] /\ Written(f) /\ suspect' = suspect
        /\ IF buf[f].live
           THEN sync' = [sync EXCEPT ![f] = FALSE] /\ buf' = buf
           ELSE buf' = [buf EXCEPT ![f].text = disk'[f]] /\ sync' = sync
    BY <1>8 DEF ExternalWrite
  <2>2. Kept(f)
    <3>1. CASE buf[f].live
      BY <1>1, <2>1, <3>1 DEF Kept, Overwritten
    <3>2. CASE ~buf[f].live
      <4>1. buf'[f].text = disk'[f]
        BY <1>1, <2>1, <3>2 DEF Buffer
      <4> QED
        BY <1>3, <4>1 DEF Kept, Synced
    <3> QED
      BY <3>1, <3>2
  <2>3. /\ sync' \in [Files -> BOOLEAN]
        /\ \A g \in Files \ {f} : buf'[g] = buf[g] /\ disk'[g] = disk[g] /\ sync'[g] = sync[g]
    BY <1>1, <2>1
  <2> QED
    BY <1>2, <2>1, <2>2, <2>3, OutsideFlags
<1> QED
  BY <1>4, <1>5, <1>6, <1>7, <1>8

-----------------------------------------------------------------------------
LEMMA InitFlags ==
  ASSUME Init
  PROVE  FlagInv
<1>1. \A f \in Files : Outer(f) = Closed(f) /\ Closed(f).text = disk[f]
  BY DEF Init, Outer, Begun, Closed, Loaded
<1>2. \A j \in Journals : DOMAIN journal[j] = {}
  BY DEF Init, NoJournal
<1> QED
  BY <1>1, <1>2 DEF Init, FlagInv, HonestFlag, NothingLost

LEMMA StepKeepsFlags ==
  ASSUME IInv, FlagInv, [Next]_vars
  PROVE  FlagInv'
<1>1. CASE UNCHANGED vars
  <2>1. UNCHANGED <<buf, disk, sync, journal, op, suspect>>
    BY <1>1 DEF vars, filesystem, tables
  <2> QED
    BY <2>1 DEF FlagInv, HonestFlag, NothingLost, HonestJournal, Outer, Begun
<1>2. CASE \/ \E S \in SUBSET Files, from, to \in Symbols : Plan(from, to, S)
           \/ \E S \in SUBSET Files : PreflightFails(S)
           \/ \E p \in plans : PlanExpires(p)
  BY <1>2, IdleFlags
<1>3. CASE (\E p \in plans : ApplyBegin(p)) \/ \E j \in Journals : RollbackBegin(j)
  BY <1>3, BeginFlags
<1>4. CASE ApplyEnd
  BY <1>4, ApplyEndFlags
<1>5. CASE RollbackEnd
  BY <1>5, RollbackEndFlags
<1>6. CASE Cancel
  BY <1>6, CancelFlags
<1>7. ASSUME NEW j \in Journals, Commit(j) PROVE FlagInv'
  BY <1>7, CommitFlags
<1>8. ASSUME NEW f \in Files, EditBuffer(f) \/ RestoreBuffer(f) PROVE FlagInv'
  BY <1>8, UnderWayFlags
<1>9. ASSUME NEW f \in Files,
             \/ Narrow(f) \/ Save(f) \/ Revert(f) \/ Kill(f)
             \/ \E p \in Places : Type(f, p)
             \/ \E w \in Symbols : ExternalWrite(f, w)
      PROVE  FlagInv'
  BY <1>9, HumanFlags
<1> QED
  BY <1>1, <1>2, <1>3, <1>4, <1>5, <1>6, <1>7, <1>8, <1>9 DEF Next

(* A buffer that is not marked as modified holds what its file holds,      *)
(* except where a rollback lost text outside the narrowing or the file was *)
(* written since the rename (emacs-operator-refactor-intelligence.el).     *)
THEOREM FlagsAreHonest == Spec => []FlagIsHonest
<1>1. Init => IInv /\ FlagInv
  BY InitIInv, InitFlags
<1>2. IInv /\ FlagInv /\ [Next]_vars => IInv' /\ FlagInv'
  BY StepRefines, StepKeepsFlags
<1>3. FlagInv => FlagIsHonest
  BY DEF FlagInv, HonestFlag, FlagIsHonest, Outer, Begun
<1> QED
  BY <1>1, <1>2, <1>3, PTL DEF Spec
=============================================================================
