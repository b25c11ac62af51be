------------------------ MODULE VerificationTickets -------------------------
(***************************************************************************)
(* The emacs_verification tool: an evaluation is run once, and again only  *)
(* as its ticket allows (VerificationTicketManager, and the rerun gate of  *)
(* toolRouter.ts).  Calls are handled one at a time; while one waits for   *)
(* Emacs the human edits, and time passes.  An evaluation may outlast the  *)
(* time its caller waits for it: it has run, and no attempt records it.    *)
(***************************************************************************)
EXTENDS Naturals, Sequences, FiniteSets

CONSTANTS
    Sources,        \* what the evaluated form can be: records [sha, start]
    Unknown,        \* the source of an attempt that carries no fingerprint
    MaxTickets,     \* VerificationTicketManager.maxTickets
    TTL,            \* its ttlMs
    MostAttempts,   \* highest value of max_attempts
    LastTicket,     \* bound: tickets ever created, numbered as they are
    MaxRuns,        \* bound: evaluations of one ticket (lost ones do not count
                    \* as attempts, so the code has no bound of its own)
    MaxClock        \* bound: the clock stops here

ASSUME TicketAssumption ==
    /\ Unknown \notin Sources
    /\ MaxTickets \in Nat \ {0} /\ TTL \in Nat \ {0} /\ MostAttempts \in Nat \ {0}
    /\ LastTicket \in Nat /\ MaxRuns \in Nat /\ MaxClock \in Nat

Tickets == 1..LastTicket

VARIABLES
    now,
    source,     \* the form at point, as Emacs has it
    kept,       \* keys of the tickets Map, which has them in the order they were
                \* created in: that of their numbers
    ticket,     \* id -> the ticket
    call,       \* the call being handled
    ran,        \* history: evaluations that Emacs ran for the ticket,
    lost,       \* those of them no attempt records,
    edited,     \* whether the source changed since the gate looked at it and
    raced       \* tickets with an attempt for which it had

table == <<kept, ticket>>
history == <<ran, lost, edited, raced>>
vars == <<now, source, table, call, history>>

Attempt == [source : Sources \cup {Unknown}, completed : BOOLEAN]
Ticket == [max : 1..MostAttempts, risky : BOOLEAN, attempts : Seq(Attempt), expires : Nat]
NoTicket == [max |-> 1, risky |-> FALSE, attempts |-> <<>>, expires |-> 0]
Idle == [step |-> "idle", ticket |-> 0]

Init ==
    /\ now = 0 /\ source \in Sources
    /\ kept = {} /\ ticket = [t \in Tickets |-> NoTicket]
    /\ call = Idle
    /\ ran = [t \in Tickets |-> 0] /\ lost = [t \in Tickets |-> 0]
    /\ edited = FALSE /\ raced = {}

-----------------------------------------------------------------------------
(* The manager.                                                            *)

Live == {t \in kept : ticket[t].expires > now}

\* prune: the expired ones go, then the oldest, until one more would fit.
\* Every call of the manager begins with it.
Pruned == {t \in Live : Cardinality({u \in Live : u >= t}) < MaxTickets}

\* get: a ticket of another session, or one that is not there, is an error.
Found(t) == t \in Pruned

\* create.
Created(t, max, risky, a) ==
    /\ kept' = Pruned \cup {t}
    /\ ticket' = [ticket EXCEPT ![t] = [max |-> max, risky |-> risky,
                                       attempts |-> <<a>>, expires |-> now + TTL]]

-----------------------------------------------------------------------------
(* The tool.                                                               *)

\* What Emacs tells of the source when it comes to it: hash and start, or nothing.
Fingerprints == {source, Unknown}

Evaluations == {[source |-> s, completed |-> b] : s \in Fingerprints, b \in BOOLEAN}

\* action "start": evaluated first, a ticket made of the answer.
Begin(t, max, risky) ==
    /\ call = Idle
    /\ \A u \in Tickets : ticket[u].attempts = <<>> <=> u >= t
    /\ \E a \in Evaluations : Created(t, max, risky, a)
    /\ ran' = [ran EXCEPT ![t] = 1]
    /\ UNCHANGED <<now, source, call, lost, edited, raced>>

\* action "status" or "close".
Look ==
    /\ call = Idle
    /\ kept' = Pruned
    /\ UNCHANGED <<now, source, ticket, call, ran, lost, edited, raced>>

Close(t) ==
    /\ call = Idle /\ Found(t)
    /\ kept' = Pruned \ {t}
    /\ UNCHANGED <<now, source, ticket, call, ran, lost, edited, raced>>

\* action "rerun", up to the request for the fingerprint.  (An error leaves the
\* pruned Map.)
Last(t) == ticket[t].attempts[Len(ticket[t].attempts)]

(* Mutant: the limit is one attempt too high.                              *)
MayRerunOnceMore(t) ==
    /\ ~Last(t).completed
    /\ Len(ticket[t].attempts) <= ticket[t].max
    /\ ~ticket[t].risky

MayRerun(t) ==
    /\ ~Last(t).completed
    /\ Len(ticket[t].attempts) < ticket[t].max
    /\ ~ticket[t].risky

Rerun(t) ==
    /\ call = Idle
    /\ kept' = Pruned
    /\ call' = IF Found(t) /\ MayRerun(t) THEN [step |-> "gate", ticket |-> t] ELSE call
    /\ UNCHANGED <<now, source, ticket, ran, lost, edited, raced>>

(* Mutant: a text that moved counts as changed.                            *)
SourceIsNewOrMoved(t, current) ==
    /\ Unknown \notin {Last(t).source, current}
    /\ current # Last(t).source

\* The fingerprint: the same place, another text, or the call stops.
SourceIsNew(t, current) ==
    /\ Unknown \notin {Last(t).source, current}
    /\ current.start = Last(t).source.start
    /\ current.sha # Last(t).source.sha

Gate(t) ==
    /\ call = [step |-> "gate", ticket |-> t]
    /\ \E current \in Fingerprints :
          call' = IF SourceIsNew(t, current) THEN [step |-> "evaluating", ticket |-> t] ELSE Idle
    /\ edited' = FALSE
    /\ UNCHANGED <<now, source, table, ran, lost, raced>>

\* Emacs evaluates, with no precondition on what it finds.  The answer comes
\* in time, and is appended unless the ticket is gone by then; or it does not.
Evaluate(t) ==
    /\ call = [step |-> "evaluating", ticket |-> t] /\ ran[t] < MaxRuns
    /\ \E a \in Evaluations : call' = [step |-> "answered", ticket |-> t, attempt |-> a]
    /\ ran' = [ran EXCEPT ![t] = @ + 1]
    /\ raced' = IF edited THEN raced \cup {t} ELSE raced
    /\ UNCHANGED <<now, source, table, lost, edited>>

Append1(t) ==
    /\ call.step = "answered" /\ call.ticket = t
    /\ kept' = Pruned
    /\ IF Found(t)
       THEN /\ ticket' = [ticket EXCEPT ![t].attempts = Append(@, call.attempt),
                                        ![t].expires = now + TTL]
            /\ UNCHANGED lost
       ELSE lost' = [lost EXCEPT ![t] = @ + 1] /\ UNCHANGED ticket
    /\ call' = Idle
    /\ UNCHANGED <<now, source, ran, edited, raced>>

\* client.request has timed out, before or after Emacs is done.
TimedOut(t) ==
    /\ call.step = "answered" /\ call.ticket = t
    /\ lost' = [lost EXCEPT ![t] = @ + 1]
    /\ call' = Idle
    /\ UNCHANGED <<now, source, table, ran, edited, raced>>

-----------------------------------------------------------------------------
Edit ==
    /\ \E s \in Sources \ {source} : source' = s
    /\ edited' = TRUE
    /\ UNCHANGED <<now, table, call, ran, lost, raced>>

Tick ==
    /\ now < MaxClock
    /\ now' = now + 1
    /\ UNCHANGED <<source, table, call, history>>

Next ==
    \/ Edit \/ Tick \/ Look
    \/ \E t \in Tickets :
          \/ \E max \in 1..MostAttempts, risky \in BOOLEAN : Begin(t, max, risky)
          \/ Close(t) \/ Rerun(t) \/ Gate(t) \/ Evaluate(t)
          \/ Append1(t) \/ TimedOut(t)

Spec == Init /\ [][Next]_vars

-----------------------------------------------------------------------------
(* Properties.                                                             *)

Call ==
    [step : {"idle"}, ticket : {0}]
    \cup [step : {"gate", "evaluating"}, ticket : Tickets]
    \cup [step : {"answered"}, ticket : Tickets, attempt : Attempt]

TypeOK ==
    /\ now \in Nat /\ source \in Sources
    /\ kept \subseteq Tickets /\ Cardinality(kept) <= MaxTickets
    /\ ticket \in [Tickets -> Ticket]
    /\ call \in Call
    /\ ran \in [Tickets -> Nat] /\ lost \in [Tickets -> Nat]
    /\ edited \in BOOLEAN /\ raced \subseteq Tickets

\* A ticket bounds how often its form is evaluated, with its side effects:
\* max_attempts times, and once more for each evaluation whose answer was lost
\* to a timeout or to the end of the ticket while it ran.
EvaluationsAreBounded ==
    \A t \in Tickets : ran[t] <= ticket[t].max + lost[t]

\* A repetition is of a changed form at the same place, each time: no recorded
\* attempt repeats its predecessor's source, unless the human edited between
\* the gate's look and the evaluation (which has no precondition).
RerunIsOfNewSource ==
    \A t \in Tickets \ raced : \A i \in 2..Len(ticket[t].attempts) :
        LET old == ticket[t].attempts[i - 1].source
            new == ticket[t].attempts[i].source
        IN new = Unknown \/ (old # Unknown /\ new.start = old.start /\ new.sha # old.sha)
=============================================================================
