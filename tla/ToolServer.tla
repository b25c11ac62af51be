----------------------------- MODULE ToolServer -----------------------------
(***************************************************************************)
(* What one MCP server process keeps between tool calls: the sessions and  *)
(* the mutation lease of each Emacs instance (SessionManager), and the     *)
(* answers it may have to repeat (IdempotencyCache), as ToolRouter.call    *)
(* uses them, and what a session's permission profile lets it change       *)
(* (PolicyEngine).  Lines from stdin are handled one after the other; a    *)
(* workflow makes further calls, under request ids of its own, inside its  *)
(* own.  Time passes while a call waits for Emacs.                         *)
(***************************************************************************)
EXTENDS Naturals, Sequences, FiniteSets

CONSTANTS
    Sessions,       \* session ids: ses_<uuid>, never reused
    NoSession,
    Instances,      \* Emacs instance ids
    Profiles,       \* permission profiles that clients ask for
    Keys,           \* cache keys <<tool, request id>> that callers choose
    Fresh,          \* the key of a call that brings no request id: never met again
    SessionTTL,     \* SessionManager.ttlMs
    CacheTTL,       \* IdempotencyCache.ttlMs
    CacheMax,       \* IdempotencyCache.maxEntries
    StepTime,       \* longest wait for one bridge request
    MaxClock        \* bound: the clock stops here

\* One name stands for all the tools that use the server's state alike.
Reading == {"emacs_observe"}                \* read, navigate, validate, capture, ...
Mutating == {"emacs_edit", "emacs_workflow"}    \* eval, keys, command, checkpoint, ...
Sessionless == {"emacs_instances"}          \* health, instances
Tools == {"emacs_session_open", "emacs_session_close"}
             \cup Sessionless \cup Reading \cup Mutating

\* What each permission profile allows.
Allowed ==
    [read_only      |-> {},
     workspace_edit |-> {"mutations"},
     trusted_local  |-> {"mutations", "nativeKeys", "nativeCapture", "structuredEval",
                         "saveOutsideWorkspace"}]

ASSUME ServerAssumption ==
    /\ NoSession \notin Sessions
    /\ Profiles \subseteq DOMAIN Allowed
    /\ \A k \in Keys : k[1] \in Tools
    /\ Fresh \notin Keys
    /\ SessionTTL \in Nat \ {0} /\ CacheTTL \in Nat \ {0} /\ CacheMax \in Nat \ {0}
    /\ StepTime \in Nat /\ MaxClock \in Nat

VARIABLES
    now,            \* the clock both managers read
    session,        \* id -> its state, instance and profile, when it was last used
    owner,          \* instance -> the session that has its mutation lease
    cache,          \* the stored answers, oldest first
    call,           \* the call being handled
    mutated,        \* history: sessions whose calls have changed something
    answered        \* history: key -> when it was answered, and how many since

managers == <<session, owner>>
history == <<mutated, answered>>
vars == <<now, managers, cache, call, history>>

Steps == {"idle", "connecting", "working", "nested", "answering"}
Errors == {"none", "E_MUTATION_LOCKED", "E_POLICY_DENIED", "other"}

Session == [state : {"new", "open", "gone"}, instance : Instances,
            profile : DOMAIN Allowed, used : Nat]
Entry == [key : Keys \cup {Fresh}, expires : Nat]
Call == [tool : Tools, key : Keys \cup {Fresh}, ses : Sessions \cup {NoSession},
         step : Steps, since : Nat, error : Errors]
Answered == [at : Nat, later : 0..CacheMax, known : BOOLEAN]

Idle == [tool |-> "emacs_observe", key |-> Fresh, ses |-> NoSession,
         step |-> "idle", since |-> 0, error |-> "none"]
Forgotten == [at |-> 0, later |-> 0, known |-> FALSE]

Init ==
    /\ now = 0
    /\ session \in [Sessions -> [state : {"new"}, instance : Instances,
                                 profile : {"read_only"}, used : {0}]]
    /\ owner = [i \in Instances |-> NoSession]
    /\ cache = <<>>
    /\ call = Idle
    /\ mutated = {}
    /\ answered = [k \in Keys |-> Forgotten]

-----------------------------------------------------------------------------
(* SessionManager.                                                         *)

Open(s) == session[s].state = "open"
Expired(s) == now - session[s].used > SessionTTL
Usable(s) == Open(s) /\ ~Expired(s)
Lease(s) == session[s].instance

(* PolicyEngine.assertMutation.                                            *)
MayMutate(s) == "mutations" \in Allowed[session[s].profile]

Created(s, i, p) ==
    session' = [session EXCEPT ![s] =
                   [state |-> "open", instance |-> i, profile |-> p, used |-> now]]

Touch(s) == session' = [session EXCEPT ![s].used = now]

(* Mutant: the lease is given up whoever holds it.                         *)
CloseAnyones(s) ==
    IF Open(s)
    THEN /\ session' = [session EXCEPT ![s].state = "gone"]
         /\ owner' = [owner EXCEPT ![Lease(s)] = NoSession]
    ELSE UNCHANGED managers

(* Mutant: a session is dropped without its lease.                         *)
CloseKeepingLease(s) ==
    IF Open(s)
    THEN session' = [session EXCEPT ![s].state = "gone"] /\ UNCHANGED owner
    ELSE UNCHANGED managers

Close(s) ==
    IF Open(s)
    THEN /\ session' = [session EXCEPT ![s].state = "gone"]
         /\ owner' = [owner EXCEPT ![Lease(s)] = IF @ = s THEN NoSession ELSE @]
    ELSE UNCHANGED managers

(* get and requireMutable: an unused session is closed when it is asked    *)
(* for, and only then.                                                     *)
Get(s) == IF Usable(s) THEN Touch(s) /\ UNCHANGED owner ELSE Close(s)

(* The session looks at another buffer or window from now on; which one is *)
(* not part of the model, that it must still be usable is.                 *)
UpdateTarget(s) == Get(s)

-----------------------------------------------------------------------------
(* IdempotencyCache.                                                       *)

Hit(k) == \E n \in DOMAIN cache : cache[n].key = k /\ now < cache[n].expires

Newest(c, n) == IF Len(c) <= n THEN c ELSE SubSeq(c, Len(c) - n + 1, Len(c))

\* What is left of a sequence when only the positions in some set stay.
Selection(c, positions) ==
    LET chosen[n \in 0..Len(c)] ==
            IF n = 0 THEN <<>>
            ELSE IF n \in positions THEN Append(chosen[n - 1], c[n]) ELSE chosen[n - 1]
    IN chosen[Len(c)]

OfOthers(k) == {n \in DOMAIN cache : cache[n].key # k \/ cache[n].key = Fresh}
Unexpired == {n \in DOMAIN cache : now < cache[n].expires}

(* get that finds nothing removes the answer if it has expired.            *)
Missed(k) == Selection(cache, OfOthers(k))

NewEntry(k) == [key |-> k, expires |-> now + CacheTTL]

(* Unexpired answers to other requests.                                    *)
Kept(k) == Selection(cache, OfOthers(k) \cap Unexpired)

(* Mutants: one entry too many, or too few, is evicted.                    *)
StoredTight(k) == Append(Newest(Kept(k), CacheMax - 2), NewEntry(k))
StoredRoomy(k) == Append(Newest(Kept(k), CacheMax), NewEntry(k))

(* set: expired answers and an old one to k go, then the oldest if need be. *)
Stored(k) == Append(Newest(Kept(k), CacheMax - 1), NewEntry(k))

Remembered(k) ==
    answered' = [j \in Keys |->
        IF j = k THEN [at |-> now, later |-> 0, known |-> TRUE]
        ELSE [answered[j] EXCEPT !.later = IF @ < CacheMax THEN @ + 1 ELSE @]]

-----------------------------------------------------------------------------
(* ToolRouter.call, for one line of stdin after the other.                 *)

\* server.ts: the queue has come to the next line.
Waiting == call.step = "idle"

\* McpWireServer.handle: the envelope, or the exception, goes out as a
\* JSON-RPC response.  Lines that call no tool are answered and change nothing.
Respond == call' = Idle

At(step) == call' = [call EXCEPT !.step = step, !.since = now]
Failed(code) == call' = [call EXCEPT !.step = "answering", !.since = now,
                                     !.error = code]

Begin(tool, k, s, step, error) ==
    /\ Waiting
    /\ IF k = Fresh THEN TRUE ELSE k[1] = tool /\ ~Hit(k)
    /\ cache' = Missed(k)
    /\ call' = [tool |-> tool, key |-> k, ses |-> s, step |-> step,
                since |-> now, error |-> error]
    /\ UNCHANGED <<now, history>>

OpenCall(k) ==
    /\ Begin("emacs_session_open", k, NoSession, "connecting", "none")
    /\ UNCHANGED managers

(* emacs_health and emacs_instances ask nothing of the session manager.    *)
SessionlessCall(tool, k) ==
    /\ tool \in Sessionless
    /\ Begin(tool, k, NoSession, "answering", "none")
    /\ UNCHANGED managers

CloseCall(k, s) ==
    /\ Begin("emacs_session_close", k, s, "answering",
             IF Usable(s) THEN "none" ELSE "other")
    /\ Close(s)

(* Every other tool first looks its session up, then reaches for Emacs.    *)
SessionCall(tool, k, s) ==
    /\ tool \in Reading \cup Mutating
    /\ IF Usable(s) THEN Begin(tool, k, s, "connecting", "none")
                    ELSE Begin(tool, k, s, "answering", "other")
    /\ Get(s)

(* Emacs has answered initialize, resolve and observe: the session exists. *)
OpenSession(s, i, p) ==
    /\ call.tool = "emacs_session_open" /\ call.step = "connecting"
    /\ session[s].state = "new"
    /\ Created(s, i, p)
    /\ At("answering")
    /\ UNCHANGED <<now, owner, cache, history>>

Read ==
    /\ call.tool \in Reading /\ call.step = "connecting"
    /\ At("answering")
    /\ UNCHANGED <<now, managers, cache, history>>

(* acquireMutation: the session must be usable and the lease free or its.  *)
AcquireMutation(s, step) ==
    IF ~Usable(s) THEN Close(s) /\ Failed("other")
    ELSE IF owner[Lease(s)] \in {NoSession, s}
         THEN Touch(s) /\ owner' = [owner EXCEPT ![Lease(s)] = s] /\ At(step)
         ELSE Touch(s) /\ UNCHANGED owner /\ Failed("E_MUTATION_LOCKED")

(* A profile that is read-only is refused before the lease is touched.     *)
Acquire ==
    /\ call.tool \in Mutating /\ call.step = "connecting"
    /\ IF MayMutate(call.ses)
       THEN AcquireMutation(call.ses, "working")
       ELSE UNCHANGED managers /\ Failed("E_POLICY_DENIED")
    /\ UNCHANGED <<now, cache, history>>

Working(tool) ==
    /\ call.tool = tool /\ call.step = "working"
    /\ UNCHANGED <<now, cache, answered>>

(* The change reaches Emacs: emacs_edit, emacs_checkpoint, emacs_rollback.  *)
Edit ==
    /\ Working("emacs_edit")
    /\ mutated' = mutated \cup {call.ses}
    /\ UNCHANGED managers /\ At("answering")

(* emacs_key_sequence and emacs_command change Emacs like emacs_edit, and  *)
(* then the session's target, which looks the session up again.            *)
ChangeTarget ==
    /\ Working("emacs_edit")
    /\ mutated' = mutated \cup {call.ses}
    /\ UpdateTarget(call.ses)
    /\ IF Usable(call.ses) THEN At("answering") ELSE Failed("other")

(* workflowStep: a call inside the call, with a request id nobody knows.   *)
NestedCall ==
    /\ call.tool = "emacs_workflow" /\ call.step = "working"
    /\ AcquireMutation(call.ses, "nested")
    /\ UNCHANGED <<now, cache, history>>

NestedAnswer ==
    /\ call.step = "nested"
    /\ mutated' \in {mutated, mutated \cup {call.ses}}
    /\ At("working")
    /\ cache' = Stored(Fresh)
    /\ Remembered(Fresh)
    /\ UNCHANGED <<now, managers>>

WorkflowEnd ==
    /\ call.tool = "emacs_workflow" /\ call.step = "working"
    /\ Get(call.ses)
    /\ IF Usable(call.ses) THEN At("answering") ELSE Failed("other")
    /\ UNCHANGED <<now, cache, history>>

(* A refused argument or policy, a bridge error, a timeout; a change that  *)
(* timed out may have been made all the same.                              *)
Fail ==
    /\ call.step \in {"connecting", "working", "nested"}
    /\ mutated' \in {mutated} \cup
                    (IF call.step = "connecting" THEN {} ELSE {mutated \cup {call.ses}})
    /\ Failed("other")
    /\ UNCHANGED <<now, managers, cache, answered>>

Answer ==
    /\ call.step = "answering"
    /\ cache' = Stored(call.key)
    /\ Remembered(call.key)
    /\ Respond
    /\ UNCHANGED <<now, managers, mutated>>

(* The audit file cannot be written: call throws, nothing is stored, and   *)
(* the client gets a JSON-RPC error.                                       *)
AnswerUnrecorded ==
    /\ call.step = "answering"
    /\ Respond
    /\ answered' = [k \in Keys |-> IF k = call.key THEN Forgotten ELSE answered[k]]
    /\ UNCHANGED <<now, managers, cache, mutated>>

Tick ==
    /\ now < MaxClock
    /\ call.step # "idle" => now < call.since + StepTime
    /\ now' = now + 1
    /\ UNCHANGED <<managers, cache, call, history>>

(* The process ends and its client starts another: nothing is persisted.   *)
Forget ==
    /\ session' = [s \in Sessions |->
          IF Open(s) THEN [session[s] EXCEPT !.state = "gone"] ELSE session[s]]
    /\ owner' = [i \in Instances |-> NoSession]
    /\ cache' = <<>>
    /\ call' = Idle
    /\ answered' = [k \in Keys |-> Forgotten]
    /\ UNCHANGED <<now, mutated>>

(* A line that is JSON but no request (null, a number): handle throws      *)
(* before its try, nobody handles the rejected promise of the queue, and   *)
(* Node ends the process.                                                  *)
NotARequest == Waiting /\ Forget

(* The process is killed, or its client is.                                *)
Restart == Forget

Next ==
    \/ \E k \in Keys \cup {Fresh} :
        \/ OpenCall(k)
        \/ \E tool \in Tools : SessionlessCall(tool, k)
        \/ \E s \in Sessions : CloseCall(k, s)
        \/ \E s \in Sessions, tool \in Tools : SessionCall(tool, k, s)
    \/ \E s \in Sessions, i \in Instances, p \in Profiles : OpenSession(s, i, p)
    \/ Read \/ Acquire \/ Edit \/ ChangeTarget
    \/ NestedCall \/ NestedAnswer \/ WorkflowEnd
    \/ Fail \/ Answer \/ AnswerUnrecorded
    \/ Tick \/ NotARequest \/ Restart

Spec == Init /\ [][Next]_vars

-----------------------------------------------------------------------------
(* Every variable has its type, and the cache keeps to its capacity.       *)
TypeOK ==
    /\ now \in Nat
    /\ session \in [Sessions -> Session]
    /\ owner \in [Instances -> Sessions \cup {NoSession}]
    /\ cache \in Seq(Entry) /\ Len(cache) <= CacheMax
    /\ call \in Call
    /\ mutated \in SUBSET Sessions
    /\ answered \in [Keys -> Answered]

(* No session with a read-only profile has changed anything, be it by a    *)
(* call inside a call, and no two sessions that are both still open have   *)
(* changed the same Emacs: whoever changed it holds it until it is closed, *)
(* expires or dies with the server, whatever the failures in between.      *)
OneMutatorPerInstance ==
    /\ \A s \in mutated : MayMutate(s)
    /\ \A s, t \in mutated :
          Open(s) /\ Open(t) /\ Lease(s) = Lease(t) => s = t

(* A lease belongs to an open session of that instance that may use it:    *)
(* closing, expiring and restarting leave no lease behind that nobody      *)
(* could give up, and a client that may only read keeps no one else out.   *)
LeaseHasItsSession ==
    \A i \in Instances :
        owner[i] # NoSession =>
            Open(owner[i]) /\ Lease(owner[i]) = i /\ MayMutate(owner[i])

Recent(k) ==
    /\ answered[k].known
    /\ now < answered[k].at + CacheTTL
    /\ answered[k].later < CacheMax

(* A request id that was answered within the TTL, with fewer answers since *)
(* than the cache holds (those of nested calls included), is not executed  *)
(* again.                                                                  *)
RetryIsNotReexecuted ==
    [][\A k \in Keys :
        call.step = "idle" /\ call'.step # "idle" /\ call'.key = k
            => ~Recent(k)]_vars

-----------------------------------------------------------------------------
(* The inductive strengthenings the proofs use.                            *)

(* The part of the type invariant that is about leases.                    *)
LeaseTypeOK ==
    /\ session \in [Sessions -> Session]
    /\ owner \in [Instances -> Sessions \cup {NoSession}]
    /\ call \in Call
    /\ mutated \in SUBSET Sessions
    /\ now \in Nat

(* An open session that has changed its Emacs, or whose call has got as    *)
(* far as changing it, holds the lease.                                    *)
LeaseInv ==
    /\ \A s \in mutated : /\ session[s].state # "new" /\ MayMutate(s)
                          /\ Open(s) => owner[Lease(s)] = s
    /\ call.step \in {"connecting", "working", "nested"} =>
          \/ call.tool = "emacs_session_open"
          \/ call.ses \in Sessions /\ session[call.ses].state # "new"
    /\ call.step \in {"working", "nested"} =>
          /\ call.tool \in Mutating /\ MayMutate(call.ses)
          /\ Open(call.ses) => owner[Lease(call.ses)] = call.ses

(* The part of the type invariant that is about answers.                   *)
CacheTypeOK ==
    /\ cache \in Seq(Entry) /\ Len(cache) <= CacheMax
    /\ answered \in [Keys -> Answered]

(* A recent answer is in the cache, before no more entries than there have *)
(* been answers since: as long as these are fewer than the cache holds, it *)
(* is not among those that are evicted.                                    *)
CacheInv ==
    \A k \in Keys : Recent(k) =>
        \E n \in DOMAIN cache :
            /\ cache[n].key = k
            /\ cache[n].expires = answered[k].at + CacheTTL
            /\ Len(cache) <= n + answered[k].later

=============================================================================
