-------------------------- MODULE ToolServer_proofs --------------------------
(***************************************************************************)
(* For any number of sessions, instances, request ids and any TTLs: the    *)
(* mutation lease keeps an Emacs instance to one open session at a time,   *)
(* and a request that is retried is answered from the cache.               *)
(***************************************************************************)
EXTENDS ToolServer, WellFoundedInduction, TLAPS

IInv == LeaseTypeOK /\ LeaseHasItsSession /\ LeaseInv

LEMMA InitIInv == Init => IInv
  BY ServerAssumption
  DEF Init, IInv, LeaseTypeOK, LeaseHasItsSession, LeaseInv, Session, Call,
      Idle, Tools, Reading, Mutating, Allowed, Steps, Errors

-----------------------------------------------------------------------------
(* What the session operations do to sessions and leases.                  *)

(* The relation between the managers before and after get, close or both:  *)
(* sessions are used or dropped, never opened or moved, and only a dropped *)
(* session's lease is given up.                                            *)
Settled ==
    /\ session' \in [Sessions -> Session]
    /\ owner' \in [Instances -> Sessions \cup {NoSession}]
    /\ \A s \in Sessions :
        /\ session'[s].instance = session[s].instance
        /\ session'[s].profile = session[s].profile
        /\ \/ session'[s].state = session[s].state
           \/ session[s].state = "open" /\ session'[s].state = "gone"
    /\ \A i \in Instances :
        \/ owner'[i] = owner[i] /\ (owner[i] # NoSession => session'[owner[i]].state = "open")
        \/ owner'[i] = NoSession /\ session'[owner[i]].state = "gone"

LEMMA NothingSettles ==
  ASSUME IInv, UNCHANGED managers
  PROVE  Settled
<1>1. session' = session /\ owner' = owner
  BY DEF managers
<1>2. /\ session \in [Sessions -> Session]
      /\ owner \in [Instances -> Sessions \cup {NoSession}]
      /\ \A i \in Instances : owner[i] # NoSession => session[owner[i]].state = "open"
  BY DEF IInv, LeaseTypeOK, LeaseHasItsSession, Open
<1> QED
  BY <1>1, <1>2 DEF Settled

LEMMA CloseSettles ==
  ASSUME IInv, NEW s \in Sessions, Close(s)
  PROVE  Settled
<1> USE ServerAssumption
<1>1. /\ session \in [Sessions -> Session]
      /\ owner \in [Instances -> Sessions \cup {NoSession}]
      /\ \A i \in Instances : owner[i] # NoSession =>
            session[owner[i]].state = "open" /\ session[owner[i]].instance = i
  BY DEF IInv, LeaseTypeOK, LeaseHasItsSession, Open, Lease
<1>2. CASE ~Open(s)
  BY <1>2, NothingSettles DEF Close
<1>3. CASE Open(s)
  <2>1. /\ session' = [session EXCEPT ![s].state = "gone"]
        /\ owner' = [owner EXCEPT ![session[s].instance] =
                        IF @ = s THEN NoSession ELSE @]
        /\ session[s].state = "open" /\ session[s].instance \in Instances
    BY <1>1, <1>3 DEF Close, Open, Lease, Session
  <2>2. /\ session'[s].state = "gone" /\ session'[s].instance = session[s].instance
        /\ session'[s].profile = session[s].profile
        /\ \A t \in Sessions \ {s} : session'[t] = session[t]
        /\ session' \in [Sessions -> Session]
    BY <1>1, <2>1 DEF Session
  <2>3. \A i \in Instances : owner'[i] = IF owner[i] = s THEN NoSession ELSE owner[i]
    BY <1>1, <2>1
  <2>4. owner' \in [Instances -> Sessions \cup {NoSession}]
    BY <1>1, <2>1
  <2>5. \A i \in Instances :
          \/ owner'[i] = owner[i] /\ (owner[i] # NoSession => session'[owner[i]].state = "open")
          \/ owner'[i] = NoSession /\ session'[owner[i]].state = "gone"
    BY <1>1, <2>2, <2>3
  <2> QED
    BY <2>1, <2>2, <2>4, <2>5 DEF Settled
<1> QED
  BY <1>2, <1>3

LEMMA TouchSettles ==
  ASSUME IInv, NEW s \in Sessions, Touch(s), UNCHANGED owner
  PROVE  Settled
<1>1. session' = [session EXCEPT ![s].used = now] /\ owner' = owner
  BY DEF Touch
<1>2. /\ session' \in [Sessions -> Session]
      /\ \A t \in Sessions : /\ session'[t].state = session[t].state
                             /\ session'[t].instance = session[t].instance
                             /\ session'[t].profile = session[t].profile
  BY <1>1 DEF IInv, LeaseTypeOK, Session
<1>3. /\ owner \in [Instances -> Sessions \cup {NoSession}]
      /\ \A i \in Instances : owner[i] # NoSession => session[owner[i]].state = "open"
  BY DEF IInv, LeaseTypeOK, LeaseHasItsSession, Open
<1> QED
  BY <1>1, <1>2, <1>3 DEF Settled

LEMMA GetSettles ==
  ASSUME IInv, NEW s \in Sessions, Get(s)
  PROVE  Settled
  BY CloseSettles, TouchSettles DEF Get

(* Leases are safe over any such change, as long as the call does not move *)
(* on to a stage at which it needs a lease, and only a call that has one   *)
(* becomes a mutator.                                                      *)
Sober ==
    /\ call' \in Call
    /\ now' \in Nat
    /\ \/ mutated' = mutated
       \/ call.step \in {"working", "nested"} /\ mutated' = mutated \cup {call.ses}
    /\ \/ call'.step \in {"idle", "answering"}
       \/ /\ call'.step = "connecting"
          /\ \/ call'.tool = "emacs_session_open"
             \/ call'.ses \in Sessions /\ session[call'.ses].state # "new"
       \/ /\ call.step \in {"working", "nested"} /\ call'.step \in {"working", "nested"}
          /\ call'.ses = call.ses /\ call'.tool = call.tool

(* A call that moves on, or fails, is a call still.                        *)
LEMMA CallAt ==
  ASSUME LeaseTypeOK, NEW step \in Steps, At(step)
  PROVE  call' \in Call /\ call'.step = step /\ call'.ses = call.ses /\ call'.tool = call.tool
<1>1. call \in Call /\ now \in Nat
  BY DEF LeaseTypeOK
<1> QED
  BY <1>1 DEF At, Call

LEMMA CallFailed ==
  ASSUME LeaseTypeOK, NEW code \in Errors, Failed(code)
  PROVE  call' \in Call /\ call'.step = "answering"
<1>1. call \in Call /\ now \in Nat /\ "answering" \in Steps
  BY DEF LeaseTypeOK, Steps
<1> QED
  BY <1>1 DEF Failed, Call

LEMMA SettledStep ==
  ASSUME IInv, Settled, Sober
  PROVE  IInv'
<1> USE ServerAssumption
<1>1. LeaseTypeOK'
  BY DEF IInv, LeaseTypeOK, LeaseInv, Settled, Sober, Mutating
<1>2. LeaseHasItsSession'
  BY DEF IInv, LeaseTypeOK, LeaseHasItsSession, Settled, Open, Lease, MayMutate
<1>3. \A s \in mutated' : /\ s \in Sessions
                          /\ session[s].state # "new" /\ MayMutate(s)
                          /\ Open(s) => owner[Lease(s)] = s
  BY DEF IInv, LeaseTypeOK, LeaseInv, Sober, Mutating
<1>4. \A s \in Sessions : /\ session[s].state # "new" => session'[s].state # "new"
                          /\ MayMutate(s) => MayMutate(s)'
  BY DEF Settled, MayMutate
<1>5. \A s \in Sessions :
        (Open(s) => owner[Lease(s)] = s) => (Open(s) => owner[Lease(s)] = s)'
  BY DEF IInv, LeaseTypeOK, Settled, Open, Lease, Session
<1>6. LeaseInv'
  <2>1. (\A s \in mutated : /\ session[s].state # "new" /\ MayMutate(s)
                            /\ Open(s) => owner[Lease(s)] = s)'
    BY <1>3, <1>4, <1>5
  <2>2. (call.step \in {"connecting", "working", "nested"} =>
          \/ call.tool = "emacs_session_open"
          \/ call.ses \in Sessions /\ session[call.ses].state # "new")'
    BY <1>4 DEF Sober, IInv, LeaseInv
  <2>3. (call.step \in {"working", "nested"} =>
          /\ call.tool \in Mutating /\ MayMutate(call.ses)
          /\ Open(call.ses) => owner[Lease(call.ses)] = call.ses)'
    BY <1>4, <1>5 DEF Sober, IInv, LeaseInv, Mutating
  <2> QED
    BY <2>1, <2>2, <2>3 DEF LeaseInv
<1> QED
  BY <1>1, <1>2, <1>6 DEF IInv

(* acquireMutation, from a call that knows its session.                    *)
LEMMA AcquireStep ==
  ASSUME IInv, call.tool \in Mutating, call.step \in {"connecting", "working"},
         MayMutate(call.ses), NEW step \in {"working", "nested"},
         AcquireMutation(call.ses, step), UNCHANGED <<now, mutated>>
  PROVE  IInv'
<1> USE ServerAssumption
<1> DEFINE s == call.ses
<1>0. s \in Sessions /\ session[s].state # "new" /\ Lease(s) \in Instances
  BY DEF IInv, LeaseInv, LeaseTypeOK, Mutating, Lease, Session
<1>1. CASE ~Usable(s)
  <2>1. Settled
    BY <1>0, <1>1, CloseSettles DEF AcquireMutation
  <2>2. Sober
    <3>1. call' \in Call /\ call'.step = "answering"
      BY <1>1, CallFailed DEF AcquireMutation, IInv, Errors
    <3> QED
      BY <3>1 DEF Sober, IInv, LeaseTypeOK
  <2> QED
    BY <2>1, <2>2, SettledStep
<1>2. CASE Usable(s) /\ owner[Lease(s)] \notin {NoSession, s}
  <2>1. Settled
    BY <1>0, <1>2, TouchSettles DEF AcquireMutation
  <2>2. Sober
    <3>1. call' \in Call /\ call'.step = "answering"
      BY <1>2, CallFailed DEF AcquireMutation, IInv, Errors
    <3> QED
      BY <3>1 DEF Sober, IInv, LeaseTypeOK
  <2> QED
    BY <2>1, <2>2, SettledStep
<1>3. CASE Usable(s) /\ owner[Lease(s)] \in {NoSession, s}
  <2>1. /\ session' = [session EXCEPT ![s].used = now]
        /\ owner' = [owner EXCEPT ![Lease(s)] = s]
        /\ call' = [call EXCEPT !.step = step, !.since = now]
    BY <1>3 DEF AcquireMutation, Touch, At
  <2>2. LeaseTypeOK'
    <3>1. session[s] \in Session /\ now \in Nat /\ session \in [Sessions -> Session]
      BY <1>0 DEF IInv, LeaseTypeOK
    <3>2. [session[s] EXCEPT !.used = now] \in Session
      BY <3>1 DEF Session
    <3>3. call' \in Call
      BY <1>3, CallAt DEF AcquireMutation, IInv, Steps
    <3> QED
      BY <1>0, <2>1, <3>1, <3>2, <3>3 DEF IInv, LeaseTypeOK
  <2>3. /\ \A t \in Sessions : /\ session'[t].state = session[t].state
                               /\ session'[t].instance = session[t].instance
                               /\ session'[t].profile = session[t].profile
        /\ Open(s)
    BY <1>3, <2>1 DEF IInv, LeaseTypeOK, Session, Usable
  <2>4. LeaseHasItsSession'
    BY <1>0, <2>1, <2>3 DEF IInv, LeaseTypeOK, LeaseHasItsSession, Open, Lease, MayMutate
  <2>5. \A t \in mutated : Open(t) /\ Lease(t) = Lease(s) => t = s
    BY <1>3 DEF IInv, LeaseTypeOK, LeaseInv
  <2>6. (\A t \in mutated : /\ session[t].state # "new" /\ MayMutate(t)
                            /\ Open(t) => owner[Lease(t)] = t)'
    BY <1>0, <2>1, <2>3, <2>5
    DEF IInv, LeaseTypeOK, LeaseInv, Open, Lease, MayMutate, Session
  <2>7. call'.step = step /\ call'.ses = s /\ call'.tool = call.tool
    BY <2>1 DEF IInv, LeaseTypeOK, Call
  <2>8. (owner[Lease(call.ses)] = call.ses /\ MayMutate(call.ses))'
    BY <1>0, <2>1, <2>3, <2>7 DEF Lease, MayMutate, IInv, LeaseTypeOK
  <2>9. LeaseInv'
    BY <1>0, <2>3, <2>6, <2>7, <2>8 DEF LeaseInv
  <2> QED
    BY <2>2, <2>4, <2>9 DEF IInv
<1> QED
  BY <1>1, <1>2, <1>3

(* A session comes into being: nobody has heard of it before.              *)
LEMMA OpenStep ==
  ASSUME IInv, NEW s \in Sessions, NEW i \in Instances, NEW p \in Profiles,
         OpenSession(s, i, p)
  PROVE  IInv'
<1> USE ServerAssumption
<1>1. /\ session[s].state = "new"
      /\ session' = [session EXCEPT ![s] =
                        [state |-> "open", instance |-> i, profile |-> p, used |-> now]]
      /\ call' = [call EXCEPT !.step = "answering", !.since = now]
      /\ owner' = owner /\ mutated' = mutated /\ now' = now
  BY DEF OpenSession, Created, At, history
<1>2. LeaseTypeOK'
  BY <1>1 DEF IInv, LeaseTypeOK, Session, Call, Steps
<1>3. s \notin mutated /\ \A j \in Instances : owner[j] # s
  BY <1>1 DEF IInv, LeaseInv, LeaseHasItsSession, Open
<1>4. \A t \in Sessions \ {s} : session'[t] = session[t]
  BY <1>1 DEF IInv, LeaseTypeOK
<1>5. LeaseHasItsSession'
  BY <1>1, <1>3, <1>4 DEF IInv, LeaseTypeOK, LeaseHasItsSession, Open, Lease, MayMutate
<1>6. call'.step = "answering"
  BY <1>1 DEF IInv, LeaseTypeOK, Call
<1>7. LeaseInv'
  BY <1>1, <1>3, <1>4, <1>6 DEF IInv, LeaseTypeOK, LeaseInv, Open, Lease, MayMutate
<1> QED
  BY <1>2, <1>5, <1>7 DEF IInv

LEMMA RestartStep ==
  ASSUME IInv, Forget
  PROVE  IInv'
<1> USE ServerAssumption
<1>1. /\ owner' = [i \in Instances |-> NoSession]
      /\ call' = Idle /\ mutated' = mutated /\ now' = now
  BY DEF Forget
<1>2. ASSUME NEW s \in Sessions
      PROVE  /\ session'[s] \in Session
             /\ session'[s].state # "open" /\ session'[s].profile = session[s].profile
             /\ session[s].state # "new" => session'[s].state # "new"
  <2>1. session'[s] = IF session[s].state = "open"
                      THEN [session[s] EXCEPT !.state = "gone"] ELSE session[s]
    BY DEF Forget, Open
  <2>2. session[s] \in Session
    BY DEF IInv, LeaseTypeOK
  <2> QED
    BY <2>1, <2>2 DEF Session
<1>3. session' \in [Sessions -> Session]
  <2>1. session' = [s \in Sessions |-> session'[s]]
    BY DEF Forget
  <2> QED
    BY <1>2, <2>1
<1>4. Idle \in Call /\ Idle.step = "idle"
  BY DEF Idle, Call, Tools, Reading, Steps, Errors
<1>5. LeaseTypeOK'
  BY <1>1, <1>3, <1>4 DEF IInv, LeaseTypeOK
<1>6. LeaseHasItsSession'
  BY <1>1 DEF LeaseHasItsSession
<1>7. LeaseInv'
  BY <1>1, <1>2, <1>4 DEF IInv, LeaseTypeOK, LeaseInv, Open, MayMutate
<1> QED
  BY <1>5, <1>6, <1>7 DEF IInv

-----------------------------------------------------------------------------
LEMMA IInvStep == IInv /\ [Next]_vars => IInv'
<1> SUFFICES ASSUME IInv, [Next]_vars
             PROVE  IInv'
  OBVIOUS
<1> USE ServerAssumption
<1> USE DEF IInv, LeaseTypeOK
<1>1. ASSUME NEW k \in Keys \cup {Fresh}, OpenCall(k)
      PROVE  IInv'
  <2>1. Settled
    BY <1>1, NothingSettles DEF OpenCall
  <2>2. Sober
    BY <1>1 DEF OpenCall, Begin, Sober, Call, Tools, Steps, Errors, history
  <2> QED
    BY <2>1, <2>2, SettledStep
<1>16. ASSUME NEW k \in Keys \cup {Fresh}, NEW tool \in Tools, SessionlessCall(tool, k)
       PROVE  IInv'
  <2>1. Settled
    BY <1>16, NothingSettles DEF SessionlessCall
  <2>2. Sober
    BY <1>16 DEF SessionlessCall, Begin, Sober, Call, Steps, Errors, history
  <2> QED
    BY <2>1, <2>2, SettledStep
<1>2. ASSUME NEW k \in Keys \cup {Fresh}, NEW s \in Sessions, CloseCall(k, s)
      PROVE  IInv'
  <2>1. Settled
    BY <1>2, CloseSettles DEF CloseCall
  <2>2. Sober
    BY <1>2 DEF CloseCall, Begin, Sober, Call, Tools, Steps, Errors, history
  <2> QED
    BY <2>1, <2>2, SettledStep
<1>3. ASSUME NEW k \in Keys \cup {Fresh}, NEW s \in Sessions, NEW tool \in Tools,
             SessionCall(tool, k, s)
      PROVE  IInv'
  <2>1. Settled
    BY <1>3, GetSettles DEF SessionCall
  <2>2. Sober
    BY <1>3 DEF SessionCall, Begin, Sober, Call, Steps, Errors, Usable, Open, history
  <2> QED
    BY <2>1, <2>2, SettledStep
<1>4. ASSUME NEW s \in Sessions, NEW i \in Instances, NEW p \in Profiles,
             OpenSession(s, i, p)
      PROVE  IInv'
  BY <1>4, OpenStep
<1>5. CASE Read
  <2>1. Settled
    BY <1>5, NothingSettles DEF Read
  <2>2. Sober
    <3>1. call' \in Call /\ call'.step = "answering"
      BY <1>5, CallAt DEF Read, Steps
    <3> QED
      BY <1>5, <3>1 DEF Read, Sober, history
  <2> QED
    BY <2>1, <2>2, SettledStep
<1>6. CASE Acquire
  <2>1. CASE MayMutate(call.ses)
    BY <1>6, <2>1, AcquireStep DEF Acquire, history
  <2>2. CASE ~MayMutate(call.ses)
    <3>1. Settled
      BY <1>6, <2>2, NothingSettles DEF Acquire
    <3>2. call' \in Call /\ call'.step = "answering"
      BY <1>6, <2>2, CallFailed DEF Acquire, Errors
    <3>3. Sober
      BY <1>6, <3>2 DEF Acquire, Sober, history
    <3> QED
      BY <3>1, <3>3, SettledStep
  <2> QED
    BY <2>1, <2>2
<1>7. CASE Edit \/ ChangeTarget
  <2>1. call.ses \in Sessions
    BY <1>7 DEF Edit, ChangeTarget, Working, LeaseInv, Mutating
  <2>2. Settled
    BY <1>7, <2>1, NothingSettles, GetSettles DEF Edit, ChangeTarget, UpdateTarget
  <2>3. Sober
    <3>1. call' \in Call /\ call'.step = "answering"
      BY <1>7, CallAt, CallFailed DEF Edit, ChangeTarget, Steps, Errors
    <3> QED
      BY <1>7, <3>1 DEF Edit, ChangeTarget, Working, Sober
  <2> QED
    BY <2>2, <2>3, SettledStep
<1>8. CASE NestedCall
  BY <1>8, AcquireStep DEF NestedCall, LeaseInv, Mutating, history
<1>9. CASE NestedAnswer
  <2>1. Settled
    BY <1>9, NothingSettles DEF NestedAnswer
  <2>2. Sober
    <3>1. /\ call' \in Call /\ call'.step = "working"
          /\ call'.ses = call.ses /\ call'.tool = call.tool
      BY <1>9, CallAt DEF NestedAnswer, Steps
    <3> QED
      BY <1>9, <3>1 DEF NestedAnswer, Sober
  <2> QED
    BY <2>1, <2>2, SettledStep
<1>10. CASE WorkflowEnd
  <2>1. call.ses \in Sessions
    BY <1>10 DEF WorkflowEnd, LeaseInv, Mutating
  <2>2. Settled
    BY <1>10, <2>1, GetSettles DEF WorkflowEnd
  <2>3. Sober
    <3>1. call' \in Call /\ call'.step = "answering"
      BY <1>10, CallAt, CallFailed DEF WorkflowEnd, Steps, Errors
    <3> QED
      BY <1>10, <3>1 DEF WorkflowEnd, Sober, history
  <2> QED
    BY <2>2, <2>3, SettledStep
<1>11. CASE Fail
  <2>1. Settled
    BY <1>11, NothingSettles DEF Fail
  <2>2. Sober
    <3>1. call' \in Call /\ call'.step = "answering"
      BY <1>11, CallFailed DEF Fail, Errors
    <3> QED
      BY <1>11, <3>1 DEF Fail, Sober
  <2> QED
    BY <2>1, <2>2, SettledStep
<1>12. CASE Answer \/ AnswerUnrecorded
  <2>1. Settled
    BY <1>12, NothingSettles DEF Answer, AnswerUnrecorded
  <2>2. Sober
    BY <1>12 DEF Answer, AnswerUnrecorded, Respond, Sober, Idle, Call, Tools, Reading, Steps, Errors
  <2> QED
    BY <2>1, <2>2, SettledStep
<1>13. CASE Tick
  BY <1>13 DEF Tick, managers, history, LeaseHasItsSession, LeaseInv, Open, Lease, MayMutate
<1>14. CASE NotARequest \/ Restart
  BY <1>14, RestartStep DEF NotARequest, Restart
<1>15. CASE UNCHANGED vars
  BY <1>15 DEF vars, managers, history, LeaseHasItsSession, LeaseInv, Open, Lease, MayMutate
<1> QED
  BY <1>1, <1>2, <1>3, <1>4, <1>5, <1>6, <1>7, <1>8, <1>9, <1>10, <1>11,
     <1>12, <1>13, <1>14, <1>15, <1>16 DEF Next

LEMMA IInvAlways == Spec => []IInv
  BY InitIInv, IInvStep, PTL DEF Spec

(* Every lease belongs to an open session of its instance whose profile    *)
(* allows changes: closing, expiry, failure, nested calls and restart      *)
(* leave none behind.                                                      *)
THEOREM LeasesHaveSessions == Spec => []LeaseHasItsSession
<1>1. IInv => LeaseHasItsSession
  BY DEF IInv
<1> QED
  BY <1>1, IInvAlways, PTL

(* Whoever changed an Emacs instance had a profile that allows it, and at  *)
(* most one of them is still open: PolicyEngine.assertMutation and the     *)
(* mutation lease of SessionManager do what they are for.                  *)
THEOREM OneMutator == Spec => []OneMutatorPerInstance
<1>1. IInv => OneMutatorPerInstance
  BY DEF IInv, LeaseTypeOK, LeaseInv, OneMutatorPerInstance
<1> QED
  BY <1>1, IInvAlways, PTL

-----------------------------------------------------------------------------
(* The cache: what idempotent retries rest on.                             *)

(* Induction, in the form the provers can use: over sets of numbers.       *)
LEMMA LeastNatural ==
  ASSUME NEW T \in SUBSET Nat, T # {}
  PROVE  \E m \in T : \A k \in T : m <= k
<1> DEFINE R == OpToRel(<, Nat)
<1>1. IsWellFoundedOn(R, Nat)
  BY NatLessThanWellFounded
<1>2. \A x, y \in Nat : y < x => <<y, x>> \in R
  BY DEF OpToRel
<1> HIDE DEF R
<1>3. PICK x \in T : \A y \in T : ~(<<y, x>> \in R)
  BY <1>1, WFMin, Zenon
<1>4. \A y \in T : ~(y < x)
  BY <1>2, <1>3
<1> QED
  BY <1>4

LEMMA Induction ==
  ASSUME NEW S \in SUBSET Nat, 0 \in S, \A n \in S : n + 1 \in S
  PROVE  Nat \subseteq S
<1>1. SUFFICES ASSUME Nat \ S # {} PROVE FALSE
  OBVIOUS
<1>2. PICK m \in Nat \ S : \A k \in Nat \ S : m <= k
  BY <1>1, LeastNatural
<1>3. m # 0 /\ m - 1 \in Nat /\ ~(m <= m - 1) /\ (m - 1) + 1 = m
  BY <1>2
<1> QED
  BY <1>2, <1>3

(* g holds what Selection has chosen from each of the first entries of c.  *)
Grows(g, c, A, j) ==
    /\ g[0] = <<>>
    /\ \A n \in 1..j : g[n] = IF n \in A THEN Append(g[n - 1], c[n]) ELSE g[n - 1]

(* The recursion of Selection has a solution.                              *)
LEMMA SelectionExists ==
  ASSUME NEW E, NEW c \in Seq(E), NEW A, NEW j \in 0..Len(c)
  PROVE  \E g \in [0..j -> Seq(E)] : Grows(g, c, A, j)
<1> DEFINE S == {n \in Nat : n <= Len(c) => \E g \in [0..n -> Seq(E)] : Grows(g, c, A, n)}
<1>1. 0 \in S
  <2>1. [n \in 0..0 |-> <<>>] \in [0..0 -> Seq(E)] /\ Grows([n \in 0..0 |-> <<>>], c, A, 0)
    BY DEF Grows
  <2> QED
    BY <2>1
<1>2. ASSUME NEW n \in S PROVE n + 1 \in S
  <2>1. CASE n + 1 > Len(c)
    BY <2>1
  <2>2. CASE n + 1 <= Len(c)
    <3>1. PICK g \in [0..n -> Seq(E)] : Grows(g, c, A, n)
      BY <2>2
    <3> DEFINE h == [i \in 0..(n + 1) |->
                        IF i <= n THEN g[i]
                        ELSE IF n + 1 \in A THEN Append(g[n], c[n + 1]) ELSE g[n]]
    <3>2. /\ n \in Nat /\ n \in 0..n /\ n + 1 \in 1..Len(c) /\ c[n + 1] \in E
          /\ g[n] \in Seq(E)
      BY <2>2
    <3>3. h \in [0..(n + 1) -> Seq(E)]
      BY <3>2
    <3>4. \A i \in 0..n : h[i] = g[i]
      BY <3>2
    <3>5. h[n + 1] = IF n + 1 \in A THEN Append(g[n], c[n + 1]) ELSE g[n]
      BY <3>2
    <3> HIDE DEF h
    <3>6. ASSUME NEW i \in 1..(n + 1)
          PROVE  h[i] = IF i \in A THEN Append(h[i - 1], c[i]) ELSE h[i - 1]
      <4>1. CASE i = n + 1
        <5>1. h[n] = g[n] /\ i - 1 = n
          BY <3>2, <3>4, <4>1
        <5> QED
          BY <3>5, <4>1, <5>1
      <4>2. CASE i # n + 1
        <5>1. i \in 1..n /\ i \in 0..n /\ i - 1 \in 0..n
          BY <3>2, <4>2
        <5>2. g[i] = IF i \in A THEN Append(g[i - 1], c[i]) ELSE g[i - 1]
          BY <3>1, <5>1 DEF Grows
        <5> QED
          BY <3>4, <5>1, <5>2
      <4> QED
        BY <4>1, <4>2
    <3>7. h[0] = <<>>
      <4>1. 0 \in 0..n
        BY <3>2
      <4> QED
        BY <3>1, <3>4, <4>1 DEF Grows
    <3>8. Grows(h, c, A, n + 1)
      BY <3>6, <3>7 DEF Grows
    <3> QED
      BY <3>3, <3>8
  <2> QED
    BY <2>1, <2>2
<1> HIDE DEF S
<1>3. Nat \subseteq S
  BY <1>1, <1>2, Induction DEF S
<1> QED
  BY <1>3 DEF S

(* Selection is the last of its stages.                                    *)
LEMMA SelectionGrows ==
  ASSUME NEW E, NEW c \in Seq(E), NEW A
  PROVE  \E g : Grows(g, c, A, Len(c)) /\ Selection(c, A) = g[Len(c)]
<1> DEFINE Body(f) == [n \in 0..Len(c) |->
              IF n = 0 THEN <<>>
              ELSE IF n \in A THEN Append(f[n - 1], c[n]) ELSE f[n - 1]]
           chosen == CHOOSE f : f = Body(f)
<1>1. PICK g \in [0..Len(c) -> Seq(E)] : Grows(g, c, A, Len(c))
  <2>1. Len(c) \in 0..Len(c)
    OBVIOUS
  <2> HIDE DEF Body, chosen
  <2> QED
    BY <2>1, SelectionExists
<1>2. g = Body(g)
  <2>1. Len(c) \in Nat /\ DOMAIN g = 0..Len(c)
    OBVIOUS
  <2>2. \A n \in 0..Len(c) : n # 0 => n \in 1..Len(c)
    BY <2>1
  <2>3. \A n \in 0..Len(c) : g[n] = Body(g)[n]
    BY <1>1, <2>2 DEF Grows
  <2> HIDE DEF Body
  <2>4. DOMAIN Body(g) = 0..Len(c) /\ Body(g) = [n \in 0..Len(c) |-> Body(g)[n]]
    BY DEF Body
  <2>5. g = [n \in 0..Len(c) |-> g[n]]
    BY <2>1
  <2> QED
    BY <2>3, <2>4, <2>5
<1>3. chosen = Body(chosen)
  BY <1>2, Zenon
<1>4. Selection(c, A) = chosen[Len(c)]
  BY DEF Selection
<1> HIDE DEF chosen
<1>5. DOMAIN chosen = 0..Len(c) /\ Grows(chosen, c, A, Len(c))
  <2>1. \A n \in 0..Len(c) : chosen[n] = Body(chosen)[n]
    BY <1>3
  <2>2. Len(c) \in Nat /\ 0 \in 0..Len(c) /\ \A n \in 1..Len(c) : n \in 0..Len(c) /\ n # 0
    OBVIOUS
  <2>3. DOMAIN chosen = 0..Len(c)
    BY <1>3
  <2> QED
    BY <2>1, <2>2, <2>3 DEF Grows
<1> QED
  BY <1>4, <1>5

(* What is selected is there, and no further from the end than it was:     *)
(* entries leave, none enters, and the order stays.                        *)
LEMMA SelectionFollows ==
  ASSUME NEW E, NEW c \in Seq(E), NEW A
  PROVE  /\ Selection(c, A) \in Seq(E)
         /\ Len(Selection(c, A)) <= Len(c)
         /\ \A i \in DOMAIN c \cap A : \E m \in DOMAIN Selection(c, A) :
               /\ Selection(c, A)[m] = c[i]
               /\ Len(Selection(c, A)) - m <= Len(c) - i
<1> DEFINE Good(d, n) ==
      /\ d \in Seq(E) /\ Len(d) <= n
      /\ \A i \in 1..n : i \in A =>
            \E m \in 1..Len(d) : d[m] = c[i] /\ Len(d) - m <= n - i
<1>1. PICK g : Grows(g, c, A, Len(c)) /\ Selection(c, A) = g[Len(c)]
  BY SelectionGrows
<1> DEFINE S == {n \in Nat : n <= Len(c) => Good(g[n], n)}
<1>2. 0 \in S
  <2>1. g[0] = <<>>
    BY <1>1 DEF Grows
  <2>2. Good(<<>>, 0)
    OBVIOUS
  <2> HIDE DEF Good
  <2> QED
    BY <2>1, <2>2
<1>3. ASSUME NEW n \in S PROVE n + 1 \in S
  <2>1. SUFFICES ASSUME n + 1 <= Len(c) PROVE Good(g[n + 1], n + 1)
    <3> HIDE DEF Good
    <3> QED
      OBVIOUS
  <2>2. Good(g[n], n) /\ n \in Nat /\ n + 1 \in 1..Len(c) /\ c[n + 1] \in E
    BY <2>1
  <2>3. g[n + 1] = IF n + 1 \in A THEN Append(g[n], c[n + 1]) ELSE g[n]
    <3>1. (n + 1) - 1 = n
      BY <2>2
    <3> QED
      BY <1>1, <2>2, <3>1 DEF Grows
  <2> DEFINE d == g[n]
             e == g[n + 1]
  <2>4. d \in Seq(E) /\ Len(d) \in Nat /\ Len(d) <= n
    BY <2>2
  <2>5. \A i \in 1..n : i \in A =>
            \E m \in 1..Len(d) : d[m] = c[i] /\ Len(d) - m <= n - i
    BY <2>2
  <2> HIDE DEF d
  <2>6. CASE n + 1 \in A
    <3>1. e = Append(d, c[n + 1])
      BY <2>3, <2>6 DEF d
    <3> HIDE DEF e
    <3>2. /\ e \in Seq(E) /\ Len(e) = Len(d) + 1 /\ e[Len(d) + 1] = c[n + 1]
          /\ \A m \in 1..Len(d) : e[m] = d[m]
      BY <2>2, <2>4, <3>1
    <3>3. ASSUME NEW i \in 1..(n + 1), i \in A
          PROVE  \E m \in 1..Len(e) : e[m] = c[i] /\ Len(e) - m <= (n + 1) - i
      <4>1. CASE i = n + 1
        <5>1. Len(e) \in 1..Len(e) /\ e[Len(e)] = c[i] /\ Len(e) - Len(e) <= (n + 1) - i
          BY <2>2, <2>4, <3>2, <4>1
        <5> QED
          BY <5>1
      <4>2. CASE i # n + 1
        <5>1. i \in 1..n
          BY <2>2, <4>2
        <5>2. PICK m \in 1..Len(d) : d[m] = c[i] /\ Len(d) - m <= n - i
          BY <2>5, <3>3, <5>1
        <5>3. e[m] = c[i]
          BY <3>2, <5>2
        <5>4. m \in 1..Len(e) /\ Len(e) - m <= (n + 1) - i
          BY <2>2, <2>4, <3>2, <5>1, <5>2
        <5> QED
          BY <5>3, <5>4
      <4> QED
        BY <4>1, <4>2
    <3>4. Len(e) <= n + 1
      BY <2>2, <2>4, <3>2
    <3> QED
      BY <3>2, <3>3, <3>4 DEF e
  <2>7. CASE n + 1 \notin A
    <3>1. e = d
      BY <2>3, <2>7 DEF d
    <3> HIDE DEF e
    <3>2. ASSUME NEW i \in 1..(n + 1), i \in A
          PROVE  \E m \in 1..Len(d) : d[m] = c[i] /\ Len(d) - m <= (n + 1) - i
      <4>1. i \in 1..n
        BY <2>2, <2>7, <3>2
      <4>2. PICK m \in 1..Len(d) : d[m] = c[i] /\ Len(d) - m <= n - i
        BY <2>5, <3>2, <4>1
      <4>3. Len(d) - m <= (n + 1) - i
        BY <2>2, <2>4, <4>1, <4>2
      <4> QED
        BY <4>2, <4>3
    <3>3. Len(d) <= n + 1
      BY <2>2, <2>4
    <3> QED
      BY <2>4, <3>1, <3>2, <3>3 DEF e
  <2> QED
    BY <2>6, <2>7
<1> HIDE DEF S, Good
<1>4. Nat \subseteq S
  <2>1. S \in SUBSET Nat
    BY DEF S
  <2> QED
    BY <1>2, <1>3, <2>1, Induction
<1>5. Good(g[Len(c)], Len(c))
  <2>1. Len(c) \in Nat
    OBVIOUS
  <2> QED
    BY <1>4, <2>1 DEF S
<1> QED
  BY <1>1, <1>5 DEF Good

(* Eviction keeps the last entries.                                        *)
LEMMA NewestFollows ==
  ASSUME NEW E, NEW c \in Seq(E), NEW n \in Nat
  PROVE  /\ Newest(c, n) \in Seq(E) /\ Len(Newest(c, n)) <= n
         /\ \A i \in DOMAIN c : Len(c) - i < n =>
               \E m \in DOMAIN Newest(c, n) :
                  Newest(c, n)[m] = c[i] /\ Len(Newest(c, n)) - m = Len(c) - i
<1>1. CASE Len(c) <= n
  BY <1>1 DEF Newest
<1>2. CASE Len(c) > n
  <2> DEFINE d == SubSeq(c, Len(c) - n + 1, Len(c))
  <2>1. /\ d \in Seq(E) /\ Len(d) = n
        /\ \A m \in 1..n : d[m] = c[Len(c) - n + m]
    BY <1>2
  <2>2. Newest(c, n) = d
    BY <1>2 DEF Newest
  <2> HIDE DEF d
  <2>3. ASSUME NEW i \in DOMAIN c, Len(c) - i < n
        PROVE  \E m \in DOMAIN d : d[m] = c[i] /\ Len(d) - m = Len(c) - i
    <3> DEFINE m == n - (Len(c) - i)
    <3>1. m \in 1..n /\ Len(c) - n + m = i /\ n - m = Len(c) - i
      BY <1>2, <2>3
    <3>2. m \in DOMAIN d
      BY <2>1, <3>1
    <3> HIDE DEF m
    <3> QED
      BY <2>1, <3>1, <3>2
  <2> QED
    BY <2>1, <2>2, <2>3
<1> QED
  BY <1>1, <1>2

CacheIInv == CacheTypeOK /\ CacheInv

LEMMA InitCache == Init => CacheIInv
<1> SUFFICES ASSUME Init PROVE CacheIInv
  OBVIOUS
<1> USE ServerAssumption
<1>1. cache = <<>> /\ answered = [k \in Keys |-> Forgotten]
  BY DEF Init
<1>2. Forgotten \in Answered /\ Forgotten.known = FALSE
  BY DEF Forgotten, Answered
<1>3. CacheTypeOK
  BY <1>1, <1>2 DEF CacheTypeOK
<1>4. CacheInv
  BY <1>1, <1>2 DEF CacheInv, Recent
<1> QED
  BY <1>3, <1>4 DEF CacheIInv

(* Nothing is stored, forgotten or answered, and time does not go back.    *)
LEMMA CacheRests ==
  ASSUME CacheIInv, now \in Nat, now' \in {now, now + 1}, UNCHANGED <<cache, answered>>
  PROVE  CacheIInv'
<1> USE ServerAssumption
<1>1. CacheTypeOK'
  BY DEF CacheIInv, CacheTypeOK
<1>2. \A k \in Keys : Recent(k)' => Recent(k)
  <2>1. \A k \in Keys : answered[k].at \in Nat
    BY DEF CacheIInv, CacheTypeOK, Answered
  <2> QED
    BY <2>1 DEF Recent
<1>3. CacheInv'
  BY <1>2 DEF CacheIInv, CacheInv
<1> QED
  BY <1>1, <1>3 DEF CacheIInv

(* get: what it drops has expired, so it was not a recent answer.          *)
LEMMA MissStep ==
  ASSUME CacheIInv, NEW k \in Keys \cup {Fresh}, k # Fresh => ~Hit(k),
         cache' = Missed(k), UNCHANGED <<now, answered>>
  PROVE  CacheIInv'
<1> USE ServerAssumption
<1> DEFINE d == Selection(cache, OfOthers(k))
<1>1. cache \in Seq(Entry) /\ Len(cache) <= CacheMax /\ answered \in [Keys -> Answered]
  BY DEF CacheIInv, CacheTypeOK
<1>2. /\ d \in Seq(Entry) /\ Len(d) <= Len(cache)
      /\ \A i \in DOMAIN cache \cap OfOthers(k) : \E m \in DOMAIN d :
            d[m] = cache[i] /\ Len(d) - m <= Len(cache) - i
  BY <1>1, SelectionFollows
<1>3. cache' = d /\ now' = now /\ answered' = answered
  BY DEF Missed
<1> HIDE DEF d
<1>4. CacheTypeOK'
  BY <1>1, <1>2, <1>3 DEF CacheTypeOK
<1>5. ASSUME NEW j \in Keys, Recent(j)'
      PROVE  \E m \in DOMAIN d : /\ d[m].key = j
                                  /\ d[m].expires = answered[j].at + CacheTTL
                                  /\ Len(d) <= m + answered[j].later
  <2>1. Recent(j)
    BY <1>3, <1>5 DEF Recent
  <2>2. PICK n \in DOMAIN cache : /\ cache[n].key = j
                                  /\ cache[n].expires = answered[j].at + CacheTTL
                                  /\ Len(cache) <= n + answered[j].later
    BY <2>1 DEF CacheIInv, CacheInv
  <2>3. now < cache[n].expires
    BY <2>1, <2>2 DEF Recent
  <2>4. j # k
    BY <2>2, <2>3 DEF Hit
  <2>5. n \in DOMAIN cache \cap OfOthers(k)
    BY <2>2, <2>4 DEF OfOthers
  <2>6. PICK m \in DOMAIN d : d[m] = cache[n] /\ Len(d) - m <= Len(cache) - n
    BY <1>2, <2>5
  <2>7. Len(d) <= m + answered[j].later
    <3>1. answered[j].later \in Nat
      BY <1>1 DEF Answered
    <3> QED
      BY <1>1, <1>2, <2>2, <2>6, <3>1
  <2> QED
    BY <2>2, <2>6, <2>7
<1>6. CacheInv'
  BY <1>3, <1>5 DEF CacheInv
<1> QED
  BY <1>4, <1>6 DEF CacheIInv

(* set: the answer is the newest entry, and each other one a place older.  *)
LEMMA StoreStep ==
  ASSUME CacheIInv, now \in Nat, NEW k \in Keys \cup {Fresh},
         cache' = Stored(k), Remembered(k), UNCHANGED now
  PROVE  CacheIInv'
<1> USE ServerAssumption
<1> DEFINE others == OfOthers(k) \cap Unexpired
           d == Selection(cache, others)
           e == Newest(d, CacheMax - 1)
           new == NewEntry(k)
<1>1. cache \in Seq(Entry) /\ Len(cache) <= CacheMax /\ answered \in [Keys -> Answered]
  BY DEF CacheIInv, CacheTypeOK
<1>2. /\ d \in Seq(Entry) /\ Len(d) <= Len(cache)
      /\ \A i \in DOMAIN cache \cap others : \E m \in DOMAIN d :
            d[m] = cache[i] /\ Len(d) - m <= Len(cache) - i
  BY <1>1, SelectionFollows
<1>3. cache' = Append(e, new) /\ now' = now
  BY DEF Stored, Kept
<1> HIDE DEF d
<1>4. /\ e \in Seq(Entry) /\ Len(e) <= CacheMax - 1
      /\ \A i \in DOMAIN d : Len(d) - i < CacheMax - 1 =>
            \E m \in DOMAIN e : e[m] = d[i] /\ Len(e) - m = Len(d) - i
  <2>1. CacheMax - 1 \in Nat
    OBVIOUS
  <2> QED
    BY <1>2, <2>1, NewestFollows
<1>5. new \in Entry /\ new.key = k /\ new.expires = now + CacheTTL
  BY DEF NewEntry, Entry
<1> HIDE DEF e, new
<1>6. /\ cache' \in Seq(Entry) /\ Len(cache') = Len(e) + 1
      /\ cache'[Len(e) + 1] = new /\ \A m \in 1..Len(e) : cache'[m] = e[m]
      /\ DOMAIN cache' = 1..(Len(e) + 1)
  BY <1>3, <1>4, <1>5
<1>7. ASSUME NEW j \in Keys
      PROVE  /\ answered'[j] \in Answered
             /\ j = k => answered'[j] = [at |-> now, later |-> 0, known |-> TRUE]
             /\ j # k => /\ answered'[j].at = answered[j].at
                         /\ answered'[j].known = answered[j].known
                         /\ answered'[j].later = IF answered[j].later < CacheMax
                                                  THEN answered[j].later + 1
                                                  ELSE answered[j].later
  <2> DEFINE was == answered[j]
  <2>1. was \in [at : Nat, later : 0..CacheMax, known : BOOLEAN]
    BY <1>1 DEF Answered
  <2>2. answered'[j] = IF j = k THEN [at |-> now, later |-> 0, known |-> TRUE]
                       ELSE [was EXCEPT !.later = IF @ < CacheMax THEN @ + 1 ELSE @]
    BY DEF Remembered
  <2> HIDE DEF was
  <2>3. CASE j = k
    BY <2>2, <2>3 DEF Answered
  <2>4. CASE j # k
    <3> DEFINE later == IF was.later < CacheMax THEN was.later + 1 ELSE was.later
    <3>1. later \in 0..CacheMax
      BY <2>1
    <3>2. answered'[j] = [was EXCEPT !.later = later]
      BY <2>2, <2>4
    <3> HIDE DEF later
    <3>3. was.at \in Nat /\ was.later \in 0..CacheMax
      BY <2>1
    <3>4. was.known \in BOOLEAN
      BY <2>1, Zenon
    <3>5. answered'[j] = [at |-> was.at, later |-> later, known |-> was.known]
      BY <2>1, <3>2
    <3>6. answered'[j] \in Answered
      BY <3>1, <3>3, <3>4, <3>5 DEF Answered
    <3>7. /\ answered'[j].at = was.at /\ answered'[j].known = was.known
          /\ answered'[j].later = later
      BY <3>5
    <3> QED
      BY <2>4, <3>6, <3>7 DEF later, was
  <2> QED
    BY <2>3, <2>4
<1>8. CacheTypeOK'
  <2>1. answered' \in [Keys -> Answered]
    <3>1. answered' = [j \in Keys |-> answered'[j]]
      BY DEF Remembered
    <3> QED
      BY <1>7, <3>1
  <2>2. Len(cache') <= CacheMax
    BY <1>4, <1>6
  <2> QED
    BY <1>6, <2>1, <2>2 DEF CacheTypeOK
<1>9. ASSUME NEW j \in Keys, Recent(j)'
      PROVE  \E m \in DOMAIN cache' : /\ cache'[m].key = j
                                       /\ cache'[m].expires = answered'[j].at + CacheTTL
                                       /\ Len(cache') <= m + answered'[j].later
  <2>1. CASE j = k
    <3>1. answered'[j].at = now /\ answered'[j].later = 0
      BY <1>7, <2>1
    <3>2. Len(cache') \in DOMAIN cache' /\ cache'[Len(cache')] = new
          /\ Len(cache') <= Len(cache') + 0
      BY <1>4, <1>6
    <3> QED
      BY <1>5, <2>1, <3>1, <3>2
  <2>2. CASE j # k
    <3> DEFINE later == answered[j].later
    <3>1. /\ later \in Nat /\ answered'[j].later = later + 1 /\ later + 1 < CacheMax
          /\ answered'[j].at = answered[j].at
      <4>1. answered[j].later \in 0..CacheMax
        BY <1>1 DEF Answered
      <4>2. answered'[j].later < CacheMax
        BY <1>9 DEF Recent
      <4> QED
        BY <1>7, <2>2, <4>1, <4>2
    <3>2. Recent(j)
      <4>1. /\ answered'[j].known = answered[j].known /\ answered'[j].known
            /\ now < answered'[j].at + CacheTTL
        BY <1>3, <1>7, <1>9, <2>2 DEF Recent
      <4> QED
        BY <3>1, <4>1 DEF Recent
    <3>3. PICK n \in DOMAIN cache : /\ cache[n].key = j
                                    /\ cache[n].expires = answered[j].at + CacheTTL
                                    /\ Len(cache) <= n + later
      BY <3>2 DEF CacheIInv, CacheInv
    <3>4. n \in DOMAIN cache \cap others
      BY <2>2, <3>2, <3>3 DEF OfOthers, Unexpired, Recent
    <3>5. PICK i \in DOMAIN d : d[i] = cache[n] /\ Len(d) - i <= Len(cache) - n
      BY <1>2, <3>4
    <3> HIDE DEF later
    <3>6. Len(d) - i < CacheMax - 1 /\ Len(d) - i <= later
      BY <1>1, <1>2, <3>1, <3>3, <3>5
    <3>7. PICK m \in DOMAIN e : e[m] = d[i] /\ Len(e) - m = Len(d) - i
      BY <1>4, <3>6
    <3>8. m \in DOMAIN cache' /\ cache'[m] = cache[n]
      <4>1. m \in 1..Len(e) /\ Len(e) \in Nat
        BY <1>4, <3>7
      <4>2. \A x \in Nat : 1..x \subseteq 1..(x + 1)
        OBVIOUS
      <4> QED
        BY <1>6, <3>5, <3>7, <4>1, <4>2
    <3>9. Len(cache') <= m + (later + 1)
      <4>1. Len(e) \in Nat /\ m \in Nat /\ later \in Nat /\ Len(e) - m <= later
        BY <1>4, <3>1, <3>6, <3>7
      <4>2. \A x, y, z \in Nat : x - y <= z => x + 1 <= y + (z + 1)
        OBVIOUS
      <4> QED
        BY <1>6, <4>1, <4>2
    <3> QED
      BY <3>1, <3>3, <3>8, <3>9
  <2> QED
    BY <2>1, <2>2
<1>10. CacheInv'
  BY <1>9 DEF CacheInv
<1> QED
  BY <1>8, <1>10 DEF CacheIInv

(* An answer that is not recorded is not promised again, and after a       *)
(* restart none is.                                                        *)
LEMMA ForgetStep ==
  ASSUME CacheIInv, UNCHANGED <<now, cache>>,
         answered' = [j \in Keys |-> IF j = call.key THEN Forgotten ELSE answered[j]]
  PROVE  CacheIInv'
<1> USE ServerAssumption
<1>1. Forgotten \in Answered /\ Forgotten.known = FALSE
  BY DEF Forgotten, Answered
<1>2. CacheTypeOK'
  BY <1>1 DEF CacheIInv, CacheTypeOK
<1>3. \A j \in Keys : Recent(j)' => Recent(j) /\ answered'[j] = answered[j]
  BY <1>1 DEF Recent
<1>4. CacheInv'
  BY <1>3 DEF CacheIInv, CacheInv
<1> QED
  BY <1>2, <1>4 DEF CacheIInv

LEMMA ForgetAll ==
  ASSUME cache' = <<>>, answered' = [j \in Keys |-> Forgotten]
  PROVE  CacheIInv'
<1> USE ServerAssumption
<1>1. Forgotten \in Answered /\ Forgotten.known = FALSE
  BY DEF Forgotten, Answered
<1>2. CacheTypeOK'
  BY <1>1 DEF CacheTypeOK
<1>3. CacheInv'
  BY <1>1 DEF CacheInv, Recent
<1> QED
  BY <1>2, <1>3 DEF CacheIInv

LEMMA CacheStep == IInv /\ CacheIInv /\ [Next]_vars => CacheIInv'
<1> SUFFICES ASSUME IInv, CacheIInv, [Next]_vars
             PROVE  CacheIInv'
  OBVIOUS
<1>0. now \in Nat /\ call \in Call
  BY DEF IInv, LeaseTypeOK
<1>1. ASSUME NEW k \in Keys \cup {Fresh}, NEW tool, NEW s, NEW step, NEW error,
             Begin(tool, k, s, step, error)
      PROVE  CacheIInv'
  BY <1>1, MissStep DEF Begin, history
<1>2. ASSUME NEW k \in Keys \cup {Fresh},
             OpenCall(k) \/ \E tool \in Tools : SessionlessCall(tool, k)
      PROVE  CacheIInv'
  BY <1>1, <1>2 DEF OpenCall, SessionlessCall
<1>3. ASSUME NEW k \in Keys \cup {Fresh}, NEW s \in Sessions,
             CloseCall(k, s) \/ \E tool \in Tools : SessionCall(tool, k, s)
      PROVE  CacheIInv'
  BY <1>1, <1>3 DEF CloseCall, SessionCall
<1>4. ASSUME NEW s \in Sessions, NEW i \in Instances, NEW p \in Profiles,
             OpenSession(s, i, p)
      PROVE  CacheIInv'
  BY <1>0, <1>4, CacheRests DEF OpenSession, history
<1>5. CASE Read \/ Acquire \/ Edit \/ ChangeTarget \/ NestedCall \/ WorkflowEnd \/ Fail
  BY <1>0, <1>5, CacheRests
  DEF Read, Acquire, Edit, ChangeTarget, Working, NestedCall, WorkflowEnd, Fail, history
<1>6. CASE NestedAnswer
  BY <1>0, <1>6, StoreStep DEF NestedAnswer
<1>7. CASE Answer
  <2>1. call.key \in Keys \cup {Fresh}
    BY <1>0 DEF Call
  <2> QED
    BY <1>0, <1>7, <2>1, StoreStep DEF Answer
<1>8. CASE AnswerUnrecorded
  BY <1>8, ForgetStep DEF AnswerUnrecorded
<1>9. CASE Tick
  BY <1>0, <1>9, CacheRests DEF Tick, history
<1>10. CASE NotARequest \/ Restart
  BY <1>10, ForgetAll DEF NotARequest, Restart, Forget
<1>11. CASE UNCHANGED vars
  BY <1>0, <1>11, CacheRests DEF vars, history
<1> QED
  BY <1>2, <1>3, <1>4, <1>5, <1>6, <1>7, <1>8, <1>9, <1>10, <1>11 DEF Next

LEMMA CacheAlways == Spec => [](IInv /\ CacheIInv)
<1>1. Init => IInv /\ CacheIInv
  BY InitIInv, InitCache
<1>2. IInv /\ CacheIInv /\ [Next]_vars => (IInv /\ CacheIInv)'
  BY IInvStep, CacheStep
<1> QED
  BY <1>1, <1>2, PTL DEF Spec

(* Sessions, leases, the call and the cache keep their types, and the      *)
(* cache never holds more answers than it may.                             *)
THEOREM TypeCorrect == Spec => []TypeOK
<1>1. IInv /\ CacheIInv => TypeOK
  BY DEF IInv, LeaseTypeOK, CacheIInv, CacheTypeOK, TypeOK
<1> QED
  BY <1>1, CacheAlways, PTL

(* A request id answered within the TTL, with fewer answers since than the *)
(* cache holds, is answered from the cache: the tool does not run again.   *)
THEOREM RetriesAreAnswered == Spec => RetryIsNotReexecuted
<1> DEFINE New == \A k \in Keys :
              call.step = "idle" /\ call'.step # "idle" /\ call'.key = k => ~Recent(k)
<1>1. IInv /\ CacheIInv /\ [Next]_vars => [New]_vars
  <2> SUFFICES ASSUME IInv, CacheIInv, [Next]_vars, NEW j \in Keys,
                      call.step = "idle", call'.step # "idle", call'.key = j, Recent(j)
               PROVE  FALSE
    OBVIOUS
  <2>1. Hit(j)
    <3>1. PICK n \in DOMAIN cache : /\ cache[n].key = j
                                    /\ cache[n].expires = answered[j].at + CacheTTL
      BY DEF CacheIInv, CacheInv
    <3> QED
      BY <3>1 DEF Hit, Recent
  <2>2. ASSUME NEW k \in Keys \cup {Fresh}, NEW tool, NEW s, NEW step, NEW error,
               Begin(tool, k, s, step, error)
        PROVE  FALSE
    <3>1. k = j /\ j # Fresh
      BY <2>2, ServerAssumption DEF Begin
    <3> QED
      BY <2>1, <2>2, <3>1 DEF Begin, Waiting
  <2>3. Idle.step = "idle"
    BY DEF Idle
  <2>4. CASE \E k \in Keys \cup {Fresh} :
               \/ OpenCall(k)
               \/ \E tool \in Tools : SessionlessCall(tool, k)
               \/ \E s \in Sessions : CloseCall(k, s)
               \/ \E s \in Sessions, tool \in Tools : SessionCall(tool, k, s)
    BY <2>2, <2>4 DEF OpenCall, SessionlessCall, CloseCall, SessionCall
  <2>5. CASE \/ \E s \in Sessions, i \in Instances, p \in Profiles : OpenSession(s, i, p)
             \/ Read \/ Acquire \/ Edit \/ ChangeTarget
             \/ NestedCall \/ NestedAnswer \/ WorkflowEnd
             \/ Fail \/ Answer \/ AnswerUnrecorded
    BY <2>5 DEF OpenSession, Read, Acquire, Edit, ChangeTarget, Working, NestedCall,
                NestedAnswer, WorkflowEnd, Fail, Answer, AnswerUnrecorded
  <2>6. CASE Tick \/ NotARequest \/ Restart \/ UNCHANGED vars
    BY <2>3, <2>6 DEF Tick, NotARequest, Restart, Forget, vars
  <2> QED
    BY <2>4, <2>5, <2>6 DEF Next
<1> QED
  BY <1>1, CacheAlways, PTL DEF Spec, RetryIsNotReexecuted

=============================================================================
