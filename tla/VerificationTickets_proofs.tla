---------------------- MODULE VerificationTickets_proofs ---------------------
(***************************************************************************)
(* For any number of tickets and sources, any limits and any table size:   *)
(* a ticket bounds the evaluations made on it, and each of them is of a    *)
(* source that has changed since the one before.                           *)
(***************************************************************************)
EXTENDS VerificationTickets, TLAPS

\* The types of what decides on a rerun; how many are kept does not.
TicketTypes ==
    /\ now \in Nat /\ source \in Sources
    /\ kept \subseteq Tickets /\ ticket \in [Tickets -> Ticket]
    /\ call \in Call
    /\ ran \in [Tickets -> Nat] /\ lost \in [Tickets -> Nat]
    /\ edited \in BOOLEAN /\ raced \subseteq Tickets

Attempts(t) == Len(ticket[t].attempts)
Calling(t) == call.step # "idle" /\ call.ticket = t
Answered(t) == call.step = "answered" /\ call.ticket = t

\* Every evaluation is an attempt, or lost, or that of the call in progress,
\* which the gate let in below the limit.
Counted ==
    \A t \in Tickets :
        /\ ran[t] = Attempts(t) + lost[t] + (IF Answered(t) THEN 1 ELSE 0)
        /\ Attempts(t) <= ticket[t].max
        /\ Calling(t) => 0 < Attempts(t) /\ Attempts(t) < ticket[t].max
        /\ Attempts(t) = 0 => lost[t] = 0 /\ t \notin kept

\* A source that may follow another in the attempts of a ticket.
Follows(new, old) ==
    new = Unknown \/ (old # Unknown /\ new.start = old.start /\ new.sha # old.sha)

\* What the gate has seen is still so, or the human has edited since.
Gated ==
    \A t \in Tickets :
        /\ call.step = "evaluating" /\ call.ticket = t /\ ~edited => Follows(source, Last(t).source)
        /\ Answered(t) /\ t \notin raced => Follows(call.attempt.source, Last(t).source)

\* RerunIsOfNewSource, one sequence of attempts at a time.
Renewed(s) == \A i \in 2..Len(s) : Follows(s[i].source, s[i - 1].source)
AllRenewed == \A t \in Tickets \ raced : Renewed(ticket[t].attempts)

IInv == TicketTypes /\ Counted /\ Gated /\ AllRenewed

-----------------------------------------------------------------------------
LEMMA InitIInv ==
  ASSUME Init
  PROVE  IInv
<1> USE TicketAssumption
<1>1. NoTicket \in Ticket /\ NoTicket.attempts = <<>> /\ NoTicket.max = 1
  BY DEF NoTicket, Ticket, Attempt
<1>2. Idle \in Call /\ Idle.step = "idle"
  BY DEF Idle, Call
<1>3. TicketTypes
  BY <1>1, <1>2 DEF Init, TicketTypes
<1>4. Counted
  BY <1>1, <1>2 DEF Init, Counted, Attempts, Answered, Calling
<1>5. Gated /\ AllRenewed
  BY <1>1, <1>2 DEF Init, Gated, AllRenewed, Renewed, Answered
<1> QED
  BY <1>3, <1>4, <1>5 DEF IInv

\* What is true of a call.
LEMMA CallTypes ==
  ASSUME NEW x \in Call
  PROVE  /\ x.step \in {"idle", "gate", "evaluating", "answered"}
         /\ x.step # "idle" => x.ticket \in Tickets
         /\ x.step = "answered" => x.attempt \in Attempt
         /\ x.step = "idle" <=> x = Idle
  BY DEF Call, Idle

LEMMA CallsAre ==
  ASSUME NEW t \in Tickets
  PROVE  /\ Idle \in Call /\ Idle.step = "idle"
         /\ [step |-> "gate", ticket |-> t] \in Call
         /\ [step |-> "evaluating", ticket |-> t] \in Call
         /\ \A a \in Attempt : [step |-> "answered", ticket |-> t, attempt |-> a] \in Call
  BY DEF Call, Idle

LEMMA EvaluationsAreAttempts ==
  ASSUME TicketTypes, NEW a \in Evaluations
  PROVE  a \in Attempt /\ a.source \in {source, Unknown}
  BY DEF Evaluations, Fingerprints, Attempt, TicketTypes

LEMMA PrunedIsKept == Pruned \subseteq kept
  BY DEF Pruned, Live

\* Steps that touch no ticket and begin or leave a call as it is.
LEMMA NothingHappens ==
  ASSUME IInv, now' \in Nat, kept' \subseteq kept,
         UNCHANGED <<source, ticket, call, ran, lost, edited, raced>>
  PROVE  IInv'
  BY DEF IInv, TicketTypes, Counted, Gated, AllRenewed, Attempts, Answered, Calling, Last, Follows

-----------------------------------------------------------------------------
(* The steps.                                                              *)

LEMMA BeginStep ==
  ASSUME IInv, NEW t \in Tickets, NEW max \in 1..MostAttempts, NEW risky \in BOOLEAN,
         Begin(t, max, risky)
  PROVE  IInv'
<1> USE TicketAssumption DEF IInv
<1>1. PICK a \in Evaluations :
         ticket' = [ticket EXCEPT ![t] = [max |-> max, risky |-> risky,
                                          attempts |-> <<a>>, expires |-> now + TTL]]
  BY DEF Begin, Created
<1> DEFINE new == [max |-> max, risky |-> risky, attempts |-> <<a>>, expires |-> now + TTL]
<1>2. /\ new \in Ticket
      /\ new.max = max /\ Len(new.attempts) = 1
  <2>1. a \in Attempt
    BY EvaluationsAreAttempts
  <2>2. <<a>> \in Seq(Attempt) /\ now + TTL \in Nat
    BY <2>1 DEF TicketTypes
  <2> QED
    BY <2>2 DEF Ticket
<1>3. /\ ticket' \in [Tickets -> Ticket] /\ ticket'[t] = new
      /\ \A u \in Tickets \ {t} : ticket'[u] = ticket[u]
  BY <1>1, <1>2 DEF TicketTypes
<1>4. /\ call = Idle /\ UNCHANGED <<now, source, call, lost, edited, raced>>
      /\ ran' = [ran EXCEPT ![t] = 1] /\ ticket[t].attempts = <<>>
      /\ kept' \subseteq kept \cup {t}
  BY PrunedIsKept DEF Begin, Created, Tickets
<1>5. call.step = "idle"
  BY <1>4, CallsAre
<1>6. TicketTypes'
  BY <1>3, <1>4 DEF TicketTypes
<1>7. Counted'
  <2>1. Attempts(t) = 0 /\ lost[t] = 0
    BY <1>4 DEF Attempts, Counted
  <2>2. /\ Attempts(t)' = 1 /\ ticket'[t].max >= 1
        /\ \A u \in Tickets \ {t} : Attempts(u)' = Attempts(u)
    BY <1>2, <1>3 DEF Attempts
  <2>3. ran'[t] = 1 /\ \A u \in Tickets \ {t} : ran'[u] = ran[u]
    BY <1>4 DEF TicketTypes
  <2>4. lost' = lost /\ \A u \in Tickets : ~Answered(u)' /\ ~Answered(u) /\ ~Calling(u)'
    BY <1>4, <1>5 DEF Answered, Calling
  <2> QED
    BY <1>3, <1>4, <2>1, <2>2, <2>3, <2>4 DEF Counted
<1>8. Gated'
  BY <1>4, <1>5 DEF Gated, Answered
<1>9. AllRenewed'
  <2>1. Renewed(new.attempts)
    BY <1>2 DEF Renewed
  <2> QED
    BY <1>3, <1>4, <2>1 DEF AllRenewed, Renewed
<1> QED
  BY <1>6, <1>7, <1>8, <1>9

LEMMA RerunStep ==
  ASSUME IInv, NEW t \in Tickets, Rerun(t)
  PROVE  IInv'
<1> USE DEF IInv
<1>1. /\ call = Idle /\ call.step = "idle"
      /\ UNCHANGED <<now, source, ticket, ran, lost, edited, raced>> /\ kept' \subseteq kept
  BY CallsAre, PrunedIsKept DEF Rerun, Found
<1>2. CASE call' = call
  BY <1>1, <1>2, NothingHappens DEF TicketTypes
<1>3. CASE t \in Pruned /\ MayRerun(t) /\ call' = [step |-> "gate", ticket |-> t]
  <2>1. /\ call' \in Call /\ call'.step = "gate" /\ call'.ticket = t
    BY <1>3, CallsAre
  <2>2. ticket[t] \in Ticket /\ Attempts(t) < ticket[t].max
    BY <1>3 DEF MayRerun, Attempts, TicketTypes
  <2>3. Attempts(t) # 0
    BY <1>3, PrunedIsKept DEF Counted
  <2> QED
    BY <1>1, <2>1, <2>2, <2>3 DEF TicketTypes, Counted, Gated, AllRenewed, Renewed, Attempts,
         Answered, Calling, Last
<1> QED
  BY <1>1, <1>2, <1>3 DEF Rerun, Found

LEMMA GateStep ==
  ASSUME IInv, NEW t \in Tickets, Gate(t)
  PROVE  IInv'
<1> USE DEF IInv
<1>1. /\ call.step = "gate" /\ call.ticket = t /\ edited' = FALSE
      /\ UNCHANGED <<now, source, kept, ticket, ran, lost, raced>>
  BY DEF Gate, table
<1>2. PICK current \in Fingerprints :
         call' = IF SourceIsNew(t, current) THEN [step |-> "evaluating", ticket |-> t] ELSE Idle
  BY DEF Gate
<1>3. CASE SourceIsNew(t, current)
  <2>1. call' \in Call /\ call'.step = "evaluating" /\ call'.ticket = t
    BY <1>2, <1>3, CallsAre
  <2>2. current = source /\ Follows(source, Last(t).source)
    BY <1>3 DEF SourceIsNew, Fingerprints, Follows
  <2>3. Last(t)' = Last(t)
    BY <1>1 DEF Last
  <2>4. TicketTypes' /\ AllRenewed'
    BY <1>1, <2>1 DEF TicketTypes, AllRenewed, Renewed
  <2>5. Counted'
    BY <1>1, <2>1 DEF Counted, Attempts, Answered, Calling
  <2>6. Gated'
    <3> SUFFICES ASSUME NEW u \in Tickets
                 PROVE  /\ call'.ticket = u => Follows(source, Last(u)'.source)
                        /\ ~Answered(u)'
      BY <1>1 DEF Gated
    <3> QED
      BY <1>1, <2>1, <2>2, <2>3 DEF Answered
  <2> QED
    BY <2>4, <2>5, <2>6
<1>4. CASE ~SourceIsNew(t, current)
  <2>1. call' \in Call /\ call'.step = "idle"
    BY <1>2, <1>4, CallsAre
  <2> QED
    BY <1>1, <2>1 DEF TicketTypes, Counted, Gated, AllRenewed, Attempts, Answered, Calling
<1> QED
  BY <1>3, <1>4

LEMMA EvaluateStep ==
  ASSUME IInv, NEW t \in Tickets, Evaluate(t)
  PROVE  IInv'
<1> USE DEF IInv
<1>1. PICK a \in Evaluations : call' = [step |-> "answered", ticket |-> t, attempt |-> a]
  BY DEF Evaluate
<1>2. /\ call.step = "evaluating" /\ call.ticket = t
      /\ ran' = [ran EXCEPT ![t] = @ + 1]
      /\ raced' = IF edited THEN raced \cup {t} ELSE raced
      /\ UNCHANGED <<now, source, kept, ticket, lost, edited>>
  BY DEF Evaluate, table
<1>3. a \in Attempt /\ a.source \in {source, Unknown}
  BY EvaluationsAreAttempts
<1>4. /\ call' \in Call /\ call'.step = "answered" /\ call'.ticket = t /\ call'.attempt = a
  BY <1>1, <1>3, CallsAre
<1>5. TicketTypes'
  BY <1>2, <1>4 DEF TicketTypes
<1>6. Counted'
  BY <1>2, <1>4 DEF TicketTypes, Counted, Attempts, Answered, Calling
<1>7. Gated'
  <2>1. t \notin raced' => Follows(source, Last(t).source)
    BY <1>2 DEF Gated
  <2>2. t \notin raced' => Follows(a.source, Last(t).source)
    BY <1>3, <2>1 DEF Follows
  <2> QED
    BY <1>2, <1>4, <2>2 DEF Gated, Answered, Last, Follows
<1>8. AllRenewed'
  BY <1>2 DEF AllRenewed
<1> QED
  BY <1>5, <1>6, <1>7, <1>8

\* The answer of an evaluation is lost, and the call is over.
LEMMA LossStep ==
  ASSUME IInv, NEW t \in Tickets, call.step = "answered", call.ticket = t,
         lost' = [lost EXCEPT ![t] = @ + 1], call' \in Call, call'.step = "idle", kept' \subseteq kept,
         UNCHANGED <<now, source, ticket, ran, edited, raced>>
  PROVE  IInv'
<1> USE DEF IInv
<1>1. TicketTypes'
  BY DEF TicketTypes
<1>2. Counted'
  <2>1. lost'[t] = lost[t] + 1 /\ \A u \in Tickets \ {t} : lost'[u] = lost[u]
    BY DEF TicketTypes
  <2>2. \A u \in Tickets : ~Answered(u)' /\ ~Calling(u)' /\ Attempts(u)' = Attempts(u)
    BY DEF Answered, Calling, Attempts
  <2>3. Answered(t) /\ Calling(t) /\ \A u \in Tickets \ {t} : ~Answered(u)
    BY DEF Answered, Calling
  <2>4. \A u \in Tickets : Attempts(u) \in Nat /\ lost[u] \in Nat /\ ran[u] \in Nat
    BY DEF TicketTypes, Ticket, Attempts
  <2> QED
    BY <2>1, <2>2, <2>3, <2>4 DEF Counted
<1>3. Gated' /\ AllRenewed'
  BY DEF Gated, AllRenewed, Answered
<1> QED
  BY <1>1, <1>2, <1>3

LEMMA TimedOutStep ==
  ASSUME IInv, NEW t \in Tickets, TimedOut(t)
  PROVE  IInv'
<1> USE DEF IInv
<1>1. /\ call.step = "answered" /\ call.ticket = t
      /\ lost' = [lost EXCEPT ![t] = @ + 1] /\ call' = Idle
      /\ UNCHANGED <<now, source, kept, ticket, ran, edited, raced>>
  BY DEF TimedOut, table
<1>2. call' \in Call /\ call'.step = "idle"
  BY <1>1, CallsAre
<1> QED
  BY <1>1, <1>2, LossStep

\* One more attempt that follows the last.
LEMMA AppendRenews ==
  ASSUME NEW s \in Seq(Attempt), NEW a \in Attempt, s # <<>>,
         Renewed(s), Follows(a.source, s[Len(s)].source)
  PROVE  Renewed(Append(s, a))
  BY DEF Renewed

LEMMA AppendStep ==
  ASSUME IInv, NEW t \in Tickets, Append1(t)
  PROVE  IInv'
<1> USE TicketAssumption DEF IInv
<1>1. /\ call.step = "answered" /\ call.ticket = t /\ call' = Idle
      /\ kept' \subseteq kept
      /\ UNCHANGED <<now, source, ran, edited, raced>>
  BY PrunedIsKept DEF Append1
<1>2. call' \in Call /\ call'.step = "idle" /\ call.attempt \in Attempt
  BY <1>1, CallsAre, CallTypes DEF TicketTypes
<1>3. CASE lost' = [lost EXCEPT ![t] = @ + 1] /\ UNCHANGED ticket
  BY <1>1, <1>2, <1>3, LossStep
<1>4. CASE /\ ticket' = [ticket EXCEPT ![t].attempts = Append(@, call.attempt),
                                       ![t].expires = now + TTL]
           /\ UNCHANGED lost
  <2> DEFINE old == ticket[t].attempts
  <2>1. old \in Seq(Attempt) /\ old # <<>> /\ now + TTL \in Nat
    BY <1>1 DEF TicketTypes, Ticket, Counted, Calling, Attempts
  <2>2. /\ ticket'[t].attempts = Append(old, call.attempt)
        /\ ticket'[t].max = ticket[t].max
        /\ \A u \in Tickets \ {t} : ticket'[u] = ticket[u]
        /\ ticket' \in [Tickets -> Ticket]
    <3> DEFINE new == [ticket[t] EXCEPT !.attempts = Append(old, call.attempt), !.expires = now + TTL]
    <3>1. ticket' = [ticket EXCEPT ![t] = new]
      BY <1>4
    <3>2. ticket[t] \in Ticket /\ Append(old, call.attempt) \in Seq(Attempt)
      BY <1>2, <2>1 DEF TicketTypes
    <3>3. new \in Ticket /\ new.attempts = Append(old, call.attempt) /\ new.max = ticket[t].max
      BY <2>1, <3>2 DEF Ticket
    <3> QED
      BY <3>1, <3>3 DEF TicketTypes
  <2>3. Attempts(t)' = Attempts(t) + 1 /\ \A u \in Tickets \ {t} : Attempts(u)' = Attempts(u)
    BY <1>2, <2>1, <2>2 DEF Attempts
  <2>4. TicketTypes'
    BY <1>1, <1>2, <1>4, <2>2 DEF TicketTypes
  <2>5. Counted'
    <3>1. /\ ran[t] = Attempts(t) + lost[t] + 1
          /\ 0 < Attempts(t) /\ Attempts(t) < ticket[t].max
      BY <1>1 DEF Counted, Answered, Calling
    <3>2. Attempts(t) \in Nat /\ lost[t] \in Nat /\ ticket[t].max \in Nat
      BY <2>1 DEF Attempts, TicketTypes, Ticket
    <3>3. \A u \in Tickets : ~Answered(u)' /\ ~Calling(u)'
      BY <1>2 DEF Answered, Calling
    <3>4. \A u \in Tickets \ {t} : ~Answered(u)
      BY <1>1 DEF Answered
    <3>5. /\ ran' = ran /\ lost' = lost /\ kept' \subseteq kept
          /\ \A u \in Tickets \ {t} : ticket'[u].max = ticket[u].max
      BY <1>1, <1>4, <2>2
    <3>6. ASSUME NEW u \in Tickets, u # t
          PROVE  /\ ran'[u] = Attempts(u)' + lost'[u] + 0 /\ Attempts(u)' <= ticket'[u].max
                 /\ Attempts(u)' = 0 => lost'[u] = 0 /\ u \notin kept'
      <4>1. /\ ran[u] = Attempts(u) + lost[u] + 0 /\ Attempts(u) <= ticket[u].max
            /\ Attempts(u) = 0 => lost[u] = 0 /\ u \notin kept
        BY <3>4, <3>6 DEF Counted
      <4>2. Attempts(u)' = Attempts(u) /\ ticket'[u].max = ticket[u].max
        BY <2>3, <3>5, <3>6
      <4> QED
        BY <3>5, <4>1, <4>2
    <3>7. /\ ran'[t] = Attempts(t)' + lost'[t] + 0 /\ Attempts(t)' <= ticket'[t].max
          /\ Attempts(t)' # 0
      <4>1. Attempts(t)' = Attempts(t) + 1
        BY <2>3
      <4>2. ticket'[t].max = ticket[t].max /\ ran'[t] = ran[t] /\ lost'[t] = lost[t]
        BY <2>2, <3>5
      <4> QED
        BY <3>1, <3>2, <4>1, <4>2
    <3> SUFFICES ASSUME NEW u \in Tickets
                 PROVE  /\ ran'[u] = Attempts(u)' + lost'[u] + 0 /\ Attempts(u)' <= ticket'[u].max
                        /\ Attempts(u)' = 0 => lost'[u] = 0 /\ u \notin kept'
      BY <3>3 DEF Counted
    <3> QED
      BY <3>6, <3>7
  <2>6. Gated'
    BY <1>2 DEF Gated, Answered
  <2>7. AllRenewed'
    <3>1. t \notin raced => Renewed(Append(old, call.attempt))
      <4>1. t \notin raced => Renewed(old) /\ Follows(call.attempt.source, old[Len(old)].source)
        BY <1>1 DEF AllRenewed, Gated, Answered, Last
      <4> QED
        BY <1>2, <2>1, <4>1, AppendRenews
    <3> QED
      BY <1>1, <2>2, <3>1 DEF AllRenewed
  <2> QED
    BY <2>4, <2>5, <2>6, <2>7
<1> QED
  BY <1>3, <1>4 DEF Append1

LEMMA EditStep ==
  ASSUME IInv, Edit
  PROVE  IInv'
<1> USE DEF IInv
<1>1. source' \in Sources /\ edited' = TRUE /\ UNCHANGED <<now, kept, ticket, call, ran, lost, raced>>
  BY DEF Edit, table
<1> QED
  BY <1>1 DEF TicketTypes, Counted, Gated, AllRenewed, Attempts, Answered, Calling, Last, Follows

LEMMA StepIInv ==
  ASSUME IInv, [Next]_vars
  PROVE  IInv'
<1>1. CASE Tick
  BY <1>1, NothingHappens DEF Tick, table, history, IInv, TicketTypes
<1>2. CASE Look
  BY <1>2, NothingHappens, PrunedIsKept DEF Look, IInv, TicketTypes
<1>3. ASSUME NEW t \in Tickets, Close(t) PROVE IInv'
  BY <1>3, NothingHappens, PrunedIsKept DEF Close, Found, IInv, TicketTypes
<1>4. CASE UNCHANGED vars
  BY <1>4, NothingHappens DEF vars, table, history, IInv, TicketTypes
<1> QED
  BY <1>1, <1>2, <1>3, <1>4, BeginStep, RerunStep, GateStep, EvaluateStep, AppendStep,
     TimedOutStep, EditStep DEF Next

\* The inductive invariant holds in every reachable state.
LEMMA Inductive == Spec => []IInv
<1>1. Init => IInv
  BY InitIInv
<1>2. IInv /\ [Next]_vars => IInv'
  BY StepIInv
<1> QED
  BY <1>1, <1>2, PTL DEF Spec

(* However calls, expiry, eviction and timeouts follow each other, a form  *)
(* is evaluated on a ticket max_attempts times, and once more for each     *)
(* evaluation whose answer was lost.                                       *)
THEOREM BoundedEvaluations == Spec => []EvaluationsAreBounded
<1>1. IInv => EvaluationsAreBounded
  <2> SUFFICES ASSUME IInv, NEW t \in Tickets PROVE ran[t] <= ticket[t].max + lost[t]
    BY DEF EvaluationsAreBounded
  <2>1. /\ Attempts(t) \in Nat /\ lost[t] \in Nat /\ ticket[t].max \in Nat
        /\ Answered(t) => Calling(t)
    BY DEF IInv, TicketTypes, Ticket, Attempts, Answered, Calling
  <2>2. /\ ran[t] = Attempts(t) + lost[t] + (IF Answered(t) THEN 1 ELSE 0)
        /\ Attempts(t) <= ticket[t].max
        /\ Calling(t) => Attempts(t) < ticket[t].max
    BY DEF IInv, Counted
  <2> QED
    BY <2>1, <2>2
<1> QED
  BY <1>1, Inductive, PTL

(* Between two recorded attempts the form has changed where it was, unless *)
(* the human edited between the gate's look and the evaluation.            *)
THEOREM RerunsAreOfNewSource == Spec => []RerunIsOfNewSource
<1>1. IInv => RerunIsOfNewSource
  BY DEF IInv, AllRenewed, Renewed, Follows, RerunIsOfNewSource
<1> QED
  BY <1>1, Inductive, PTL
=============================================================================
