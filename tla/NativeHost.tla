----------------------------- MODULE NativeHost -----------------------------
(***************************************************************************)
(* The Linux native host and its clients: the connections and requests of  *)
(* apps/linux-host/src/host.mjs, the operation queue and helper processes  *)
(* of x11-backend.mjs, and the DriverRPCClient and AutoPlatformDriver of   *)
(* platformDriver.ts on the other side of the socket.                      *)
(*                                                                         *)
(* Requests of one connection are handled in turn; operations that touch   *)
(* the window system queue up across connections; each runs in a process   *)
(* of its own, which receives signals and may hang.  A caller may give up  *)
(* at any time, and what it asked for goes on without it.                  *)
(***************************************************************************)
EXTENDS Naturals, Sequences, FiniteSets

CONSTANTS
    Keys,           \* key codes of the X server
    MaxConnections, \* MAX_CONNECTIONS
    LastConn,       \* bound: connections ever made, numbered as they are
    LastReq         \* bound: requests ever sent (ids driver_<uuid>), likewise

ASSUME HostAssumption == MaxConnections \in Nat /\ LastConn \in Nat /\ LastReq \in Nat

Conns == 1..LastConn
Reqs == 1..LastReq

VARIABLES
    host,               \* "up"; "closing": signalled, backend closed; "gone"
    sock,               \* the two ends of each connection
    authorized,         \* connections whose token was right
    connectionCount,
    chain,              \* connection -> its requests not done, oldest first
    tail,               \* operations in #operationTail, the head may be running
    req,                \* request -> its connection, method and stage
    call,               \* request -> what its caller has seen
    helper,             \* request -> its helper process
    down,               \* keys that synthetic presses hold down in the X server
    killed              \* history: some helper was killed with SIGKILL

hostVars == <<host, sock, authorized, connectionCount>>
queues == <<chain, tail>>
xVars == <<helper, down, killed>>
vars == <<hostVars, queues, req, call, xVars>>

\* A sequence that presses no key stands for driver.focus, frontmost,
\* restore_application and capture: one queued operation, one helper.
\* driver.capabilities and permissions probe the window system as
\* driver.initialize does for a new connection.
Methods == {"driver.initialize", "driver.key_sequence", "driver.cancel_all"}
Stages == {"unsent", "chained", "probing", "queued", "running", "done"}
\* "unknown": its timer ran out, or the connection was lost.
Outcomes == {"none", "waiting", "result", "error", "unknown"}

\* signal: what it has been sent; "due": by the timer, SIGKILL follows in 250 ms.
Helper == [signal : {"none", "term", "due"}, hung : BOOLEAN, held : SUBSET Keys]
NewHelper == [signal |-> "none", hung |-> FALSE, held |-> {}]

Init ==
    /\ host = "up"
    /\ sock = [c \in Conns |-> "none"]
    /\ authorized = {} /\ connectionCount = 0
    /\ chain = [c \in Conns |-> <<>>] /\ tail = <<>>
    /\ req = [r \in Reqs |-> [conn |-> 0, method |-> "driver.initialize", stage |-> "unsent"]]
    /\ call = [r \in Reqs |-> "none"]
    /\ helper = [r \in Reqs |-> NewHelper]
    /\ down = {} /\ killed = FALSE

-----------------------------------------------------------------------------
(* The client's side of a connection.                                      *)

Of(c) == {r \in Reqs : req[r].conn = c}
Waiting(c) == {r \in Of(c) : call[r] = "waiting"}
Initialized(c) ==
    \E r \in Of(c) : req[r].method = "driver.initialize" /\ call[r] = "result"
Ready(c) == sock[c] = "open" /\ Initialized(c)

\* close, onClose, onSocketError: every pending request is rejected.
RejectAll(cs) ==
    [r \in Reqs |-> IF req[r].conn \in cs /\ call[r] = "waiting" THEN "unknown" ELSE call[r]]

Write(c, r, m) ==
    /\ \A s \in Reqs : req[s].stage = "unsent" <=> s >= r
    /\ req' = [req EXCEPT ![r] = [conn |-> c, method |-> m, stage |-> "chained"]]
    /\ chain' = [chain EXCEPT ![c] = Append(@, r)]

\* connectAndInitialize.  A host that has its fill of connections destroys
\* the new one.
Connect(c, r) ==
    /\ host = "up" /\ \A d \in Conns : sock[d] = "none" <=> d >= c
    /\ IF connectionCount >= MaxConnections
       THEN /\ sock' = [sock EXCEPT ![c] = "closed"]
            /\ UNCHANGED <<connectionCount, chain, req, call>>
       ELSE /\ sock' = [sock EXCEPT ![c] = "open"]
            /\ connectionCount' = connectionCount + 1
            /\ Write(c, r, "driver.initialize")
            /\ call' = [call EXCEPT ![r] = "waiting"]
    /\ UNCHANGED <<host, authorized, tail, xVars>>

\* A method of AutoPlatformDriver: its caller waits for one at a time.
Request(c, r, m) ==
    /\ Ready(c) /\ Waiting(c) = {}
    /\ m # "driver.initialize"
    /\ Write(c, r, m)
    /\ call' = [call EXCEPT ![r] = "waiting"]
    /\ UNCHANGED <<hostVars, tail, xVars>>

(* Mutant: sockets that were closed, or turned away, are counted off too.  *)
ClosedForAll(cs) ==
    LET open == {c \in cs : sock[c] = "open"} IN
    /\ sock' = [c \in Conns |-> IF c \in open THEN "closed" ELSE sock[c]]
    /\ connectionCount' = connectionCount - Cardinality({c \in cs : sock[c] # "none"})
    /\ authorized' = authorized \ open

\* The socket closes, at either end: the server forgets it, the client
\* rejects what it waits for.  Requests and operations under way go on.
Closed(cs) ==
    LET open == {c \in cs : sock[c] = "open"} IN
    /\ sock' = [c \in Conns |-> IF c \in open THEN "closed" ELSE sock[c]]
    /\ connectionCount' = connectionCount - Cardinality(open)
    /\ authorized' = authorized \ open

\* A client closes: AutoPlatformDriver.close, the finally of cancelAll, a
\* failed initialize, or the end of its process.
ClientClose(c) ==
    /\ sock[c] = "open"
    /\ Closed({c})
    /\ call' = RejectAll({c})
    /\ UNCHANGED <<host, queues, req, xVars>>

\* socket.setTimeout(30_000): nothing was sent or received for so long, be it
\* that a long sequence is under way for this very connection.
IdleTimeout(c) ==
    /\ host = "up" /\ sock[c] = "open"
    /\ Closed({c})
    /\ call' = RejectAll({c})
    /\ UNCHANGED <<host, queues, req, xVars>>

\* The request's own timer: the entry is deleted, the request stays where it
\* is.  When it is driver.initialize, the client closes.
RequestTimeout(r) ==
    /\ call[r] = "waiting"
    /\ call' = [call EXCEPT ![r] = "unknown"]
    /\ IF req[r].method = "driver.initialize"
       THEN Closed({req[r].conn})
       ELSE UNCHANGED <<sock, connectionCount, authorized>>
    /\ UNCHANGED <<host, queues, req, xVars>>

-----------------------------------------------------------------------------
(* The host: one step of a connection's chain.                             *)

Alive(r) == req[r].stage \in {"probing", "running"}

\* onData finds the pending entry, if the socket and the entry still exist.
Reply(r, answer) ==
    call' = IF sock[req[r].conn] = "open" /\ call[r] = "waiting"
            THEN [call EXCEPT ![r] = answer]
            ELSE call

Done(r, answer) ==
    /\ req' = [req EXCEPT ![r].stage = "done"]
    /\ chain' = [chain EXCEPT ![req[r].conn] = Tail(@)]
    /\ Reply(r, answer)

\* AbortController.abort of everything that runs: SIGTERM, and no SIGKILL.
Aborted ==
    [r \in Reqs |-> IF Alive(r) /\ helper[r].signal = "none"
                    THEN [helper[r] EXCEPT !.signal = "term"]
                    ELSE helper[r]]

Turn(c, r) == chain[c] # <<>> /\ r = Head(chain[c]) /\ req[r].stage = "chained"
Stage(r, s) == req' = [req EXCEPT ![r].stage = s]

\* "if (socket.destroyed) return"
Skip(c, r) ==
    /\ Turn(c, r) /\ sock[c] # "open" /\ host # "gone"
    /\ Stage(r, "done")
    /\ chain' = [chain EXCEPT ![c] = Tail(@)]
    /\ UNCHANGED <<hostVars, tail, call, xVars>>

\* driver.initialize with the token of the record: right, or one that a
\* former host left.  The capabilities come from a helper outside the queue.
Probe(c, r) ==
    /\ Turn(c, r) /\ sock[c] = "open"
    /\ req[r].method = "driver.initialize"
    /\ authorized' = authorized \cup {c}
    /\ Stage(r, "probing")
    /\ UNCHANGED <<host, sock, connectionCount, queues, call, xVars>>

\* A wrong token, arguments that do not validate, one request too many.
Refuse(c, r) ==
    /\ Turn(c, r) /\ sock[c] = "open"
    /\ Done(r, "error")
    /\ UNCHANGED <<hostVars, tail, xVars>>

\* #serialize: validated, the operation joins the queue of all connections.
Enqueue(c, r) ==
    /\ Turn(c, r) /\ sock[c] = "open" /\ c \in authorized
    /\ req[r].method = "driver.key_sequence"
    /\ Stage(r, "queued")
    /\ tail' = Append(tail, r)
    /\ UNCHANGED <<hostVars, chain, call, xVars>>

\* driver.cancel_all: what runs now is told to stop; what is queued is not.
CancelAll(c, r) ==
    /\ Turn(c, r) /\ sock[c] = "open" /\ c \in authorized
    /\ req[r].method = "driver.cancel_all"
    /\ helper' = Aborted
    /\ Done(r, "result")
    /\ UNCHANGED <<hostVars, tail, down, killed>>

Next1(c, r) ==
    \/ Skip(c, r) \/ Probe(c, r) \/ Refuse(c, r) \/ Enqueue(c, r) \/ CancelAll(c, r)

(* Mutant: operations of different connections do not wait for each other. *)
StartAtOnce(r) ==
    /\ host # "gone" /\ (\E i \in 1..Len(tail) : tail[i] = r) /\ req[r].stage = "queued"
    /\ IF host = "closing"
       THEN Done(r, "error") /\ tail' = Tail(tail)
       ELSE Stage(r, "running") /\ UNCHANGED <<chain, call, tail>>
    /\ UNCHANGED <<hostVars, xVars>>

\* The queue comes to this operation.
Start(r) ==
    /\ host # "gone" /\ tail # <<>> /\ r = Head(tail) /\ req[r].stage = "queued"
    /\ IF host = "closing"
       THEN Done(r, "error") /\ tail' = Tail(tail)
       ELSE Stage(r, "running") /\ UNCHANGED <<chain, call, tail>>
    /\ UNCHANGED <<hostVars, xVars>>

\* The helper has closed its output: runProcess resolves, the operation
\* settles, and the next one may start.  (A host that is gone sees nothing.)
Settle(r, answer) ==
    IF host = "gone"
    THEN Stage(r, "done") /\ UNCHANGED <<queues, call>>
    ELSE /\ Done(r, answer)
         /\ tail' = IF req[r].stage = "running" THEN Tail(tail) ELSE tail

-----------------------------------------------------------------------------
(* The helper process, and the timer over it.                              *)

Working(r) == Alive(r) /\ ~helper[r].hung
Sequencing(r) == Working(r) /\ req[r].stage = "running"

\* An event of the plan, which starts only while no signal was seen.
KeyDown(r, k) ==
    /\ Sequencing(r) /\ helper[r].signal = "none" /\ k \notin helper[r].held
    /\ helper' = [helper EXCEPT ![r].held = @ \cup {k}]
    /\ down' = down \cup {k}
    /\ UNCHANGED <<hostVars, queues, req, call, killed>>

KeyUp(r, k) ==
    /\ Sequencing(r) /\ helper[r].signal = "none" /\ k \in helper[r].held
    /\ helper' = [helper EXCEPT ![r].held = @ \ {k}]
    /\ down' = down \ {k}
    /\ UNCHANGED <<hostVars, queues, req, call, killed>>

(* Mutant: a sequence that ends early does not release what it holds.      *)
SequenceEndsHolding(r, answer) ==
    /\ Sequencing(r)
    /\ answer = "result" => helper[r].held = {} \/ helper[r].signal # "none"
    /\ helper' = [helper EXCEPT ![r] = NewHelper]
    /\ Settle(r, answer)
    /\ UNCHANGED <<hostVars, down, killed>>

\* The end of the plan, of a signalled sequence, or of one that failed (focus
\* lost, no such key): release_held, then one line of JSON.
SequenceEnds(r, answer) ==
    /\ Sequencing(r)
    /\ answer = "result" => helper[r].held = {} \/ helper[r].signal # "none"
    /\ helper' = [helper EXCEPT ![r] = NewHelper]
    /\ down' = down \ helper[r].held
    /\ Settle(r, answer)
    /\ UNCHANGED <<hostVars, killed>>

\* A helper that reports the capabilities ends: by itself, or of a signal and
\* without its line.
ProbeEnds(r, answer) ==
    /\ req[r].stage = "probing"
    /\ ~helper[r].hung \/ helper[r].signal # "none"
    /\ answer = "result" => ~helper[r].hung
    /\ helper' = [helper EXCEPT ![r] = NewHelper]
    /\ Settle(r, answer)
    /\ UNCHANGED <<hostVars, down, killed>>

\* A call into a window system that does not answer.  (After the host is gone
\* it would make no difference to anybody.)
Hang(r) ==
    /\ Working(r) /\ host # "gone"
    /\ helper' = [helper EXCEPT ![r].hung = TRUE]
    /\ UNCHANGED <<hostVars, queues, req, call, down, killed>>

(* Mutant: the timer answers the caller, before the helper has closed.     *)
HelperTimeoutAnswers(r) ==
    /\ Alive(r) /\ host # "gone" /\ helper[r].signal # "due"
    /\ helper' = [helper EXCEPT ![r].signal = "due"]
    /\ Reply(r, "error")
    /\ UNCHANGED <<hostVars, queues, req, down, killed>>

\* setTimeout(timeoutMs) of runProcess, which the host's process must live for.
HelperTimeout(r) ==
    /\ Alive(r) /\ host # "gone" /\ helper[r].signal # "due"
    /\ helper' = [helper EXCEPT ![r].signal = "due"]
    /\ UNCHANGED <<hostVars, queues, req, call, down, killed>>

(* Mutant: the second signal is one that a hung process can ignore.        *)
KillPolitely(r) ==
    /\ Alive(r) /\ host # "gone" /\ helper[r].signal = "due" /\ ~helper[r].hung
    /\ helper' = [helper EXCEPT ![r] = NewHelper]
    /\ killed' = TRUE
    /\ Settle(r, "error")
    /\ UNCHANGED <<hostVars, down>>

\* SIGKILL: what the process holds down stays down.
Kill(r) ==
    /\ Alive(r) /\ host # "gone" /\ helper[r].signal = "due"
    /\ helper' = [helper EXCEPT ![r] = NewHelper]
    /\ killed' = TRUE
    /\ Settle(r, "error")
    /\ UNCHANGED <<hostVars, down>>

-----------------------------------------------------------------------------
(* Shutdown by SIGINT, SIGTERM or SIGHUP.                                  *)

\* cancelAll, then close and the sockets' destruction, without a pause that
\* lets another request in.
Shutdown ==
    /\ host = "up"
    /\ host' = "closing"
    /\ helper' = Aborted
    /\ Closed(Conns)
    /\ call' = RejectAll(Conns)
    /\ UNCHANGED <<queues, req, down, killed>>

\* server.close is done and the process exits: its promises die with it, its
\* detached helpers do not.
Exit ==
    /\ host = "closing"
    /\ host' = "gone"
    /\ chain' = [c \in Conns |-> <<>>] /\ tail' = <<>>
    /\ req' = [r \in Reqs |-> IF req[r].stage \in {"chained", "queued"}
                              THEN [req[r] EXCEPT !.stage = "done"] ELSE req[r]]
    /\ UNCHANGED <<sock, authorized, connectionCount, call, xVars>>

-----------------------------------------------------------------------------
ClientNext ==
    \/ \E c \in Conns, r \in Reqs :
          Connect(c, r) \/ \E m \in Methods : Request(c, r, m)
    \/ \E c \in Conns : ClientClose(c)
    \/ \E r \in Reqs : RequestTimeout(r)

HostStep(r) == Start(r) \/ \E c \in Conns : Next1(c, r)

Timer(r) == HelperTimeout(r) \/ Kill(r)

HelperNext(r) ==
    \/ Hang(r)
    \/ \E answer \in {"result", "error"} : SequenceEnds(r, answer) \/ ProbeEnds(r, answer)
    \/ \E k \in Keys : KeyDown(r, k) \/ KeyUp(r, k)

Next ==
    \/ ClientNext
    \/ \E c \in Conns : IdleTimeout(c)
    \/ \E r \in Reqs : HostStep(r) \/ HelperNext(r) \/ Timer(r)
    \/ Shutdown \/ Exit

\* The host's event loop runs what is ready and its timers fire.  Nothing is
\* asked of the clients, of the helpers or of the window system.
Fairness == \A r \in Reqs : WF_vars(HostStep(r)) /\ WF_vars(Timer(r))

Spec == Init /\ [][Next]_vars /\ Fairness

-----------------------------------------------------------------------------
(* Properties.                                                             *)

TypeOK ==
    /\ host \in {"up", "closing", "gone"}
    /\ sock \in [Conns -> {"none", "open", "closed"}]
    /\ authorized \subseteq Conns
    /\ connectionCount \in Nat
    /\ chain \in [Conns -> Seq(Reqs)] /\ tail \in Seq(Reqs)
    /\ req \in [Reqs -> [conn : Conns \cup {0}, method : Methods, stage : Stages]]
    /\ call \in [Reqs -> Outcomes]
    /\ helper \in [Reqs -> Helper]
    /\ down \subseteq Keys /\ killed \in BOOLEAN

Typing == {r \in Reqs : req[r].stage = "running"}

\* Two clients never type or move the focus at once, whoever has given up,
\* timed out or closed its connection (#serialize, x11-backend.mjs).
OneHelperTypes == \A r, s \in Typing : r = s

\* A key is down only while the sequence that pressed it is alive to release
\* it (release_held), unless a helper had to be killed: that one leaves its
\* keys down, and nothing in the host ever releases them.
DownKeysHaveAHelper == killed \/ down \subseteq UNION {helper[r].held : r \in Typing}

\* The limit on connections counts the sockets that are open, whichever way
\* they closed and however many were turned away (host.mjs).
ConnectionsAreCounted ==
    /\ connectionCount = Cardinality({c \in Conns : sock[c] = "open"})
    /\ connectionCount <= MaxConnections

\* A caller that got an answer from the host, be it an error, knows that no
\* process works on its request any more.  (One that timed out or lost its
\* connection knows no such thing.)
AnsweredMeansOver ==
    \A r \in Reqs : call[r] \in {"result", "error"} => req[r].stage = "done"

\* While the host lives, a queued operation gets its turn and comes to an end,
\* though the helper before it may hang: the timer's SIGKILL sees to it.
EveryOperationEnds ==
    \A r \in Reqs :
        req[r].stage \in {"queued", "running"} ~> (req[r].stage = "done" \/ host = "gone")
=============================================================================
