-------------------------- MODULE BridgeConnection --------------------------
(***************************************************************************)
(* The wire between the MCP server and Emacs: BridgeRegistry's cached      *)
(* BridgeClient, the frames it sends, and the process filter of            *)
(* emacs-operator-bridge.el that cuts the byte stream into requests.       *)
(*                                                                         *)
(* The client waits for one request at a time, but a request it has given  *)
(* up on is still on its way.  An evaluation or a wait in Emacs calls      *)
(* accept-process-output, so the filter may be entered again while an      *)
(* activation of it is in the middle of its chunk.  A frame is two pieces, *)
(* because TCP may split it anywhere, once.                                *)
(***************************************************************************)
EXTENDS Naturals, Sequences, Functions

CONSTANTS
    MaxRequests,    \* bound: requests sent on one connection
    MaxEpoch        \* bound: times Emacs starts its bridge

ASSUME ConnectionAssumption == MaxRequests \in Nat \ {0} /\ MaxEpoch \in Nat \ {0}

VARIABLES
    epoch,      \* the current instance: a fresh id, port and token per start
    serving,    \* its record is live and its server listens
    client,     \* the cached BridgeClient: its instance, and whether connected
    pending,    \* the request that is waited for, 0 when none
    opened,     \* what the last emacs_session_open met
    link,       \* Emacs has the connection's process
    toEmacs,    \* pieces of frames that Emacs has not read
    toClient,   \* replies that Node has not read
    kept,       \* the process property emacs-operator-pending
    stack,      \* activations of the filter: rest of its data, request it is in
    sent,       \* history of this connection: requests 1..sent were sent,
    slow,       \* those of them that make Emacs wait for a process,
    started,    \* those dispatched, in that order, and
    late        \* whether any of them timed out

nodeVars == <<client, pending, opened>>
filterVars == <<kept, stack>>
history == <<sent, slow, started, late>>
vars == <<epoch, serving, nodeVars, link, toEmacs, toClient, filterVars, history>>

Requests == 1..MaxRequests
Piece == [req : Requests, half : {1, 2}]
Frame(r) == <<[req |-> r, half |-> 1], [req |-> r, half |-> 2]>>

Init ==
    /\ epoch = 1 /\ serving = TRUE
    /\ client = [epoch |-> 0, connected |-> FALSE]
    /\ pending = 0 /\ opened = "none"
    /\ link = FALSE /\ toEmacs = <<>> /\ toClient = <<>>
    /\ kept = <<>> /\ stack = <<>>
    /\ sent = 0 /\ slow = {} /\ started = <<>> /\ late = FALSE

-----------------------------------------------------------------------------
(* The MCP server.                                                         *)

\* discoverInstances: the instance has a record, and lives.
Discoverable == serving

Cached == client.epoch = epoch

(* findRecord: there is no record, or Emacs has been too busy to renew its *)
(* heartbeat for 20 s; a client that is connected stays so.                *)
NotFound ==
    /\ pending = 0
    /\ ~Discoverable \/ stack # <<>>
    /\ opened' = "E_INSTANCE_NOT_FOUND"
    /\ UNCHANGED <<epoch, serving, client, pending, link, toEmacs, toClient,
                   filterVars, history>>

\* connectAndInitialize: the socket is open, and Emacs has accepted the token.
Initialized ==
    /\ client' = [epoch |-> epoch, connected |-> TRUE]
    /\ link' = TRUE /\ opened' = "ok"

(* BridgeRegistry has no client for this instance, whose id is new: one    *)
(* connects and initializes.  A former instance's is followed no further.  *)
Connect ==
    /\ Discoverable /\ ~Cached /\ stack = <<>>
    /\ Initialized
    /\ toEmacs' = <<>> /\ toClient' = <<>> /\ kept' = <<>>
    /\ sent' = 0 /\ slow' = {} /\ started' = <<>> /\ late' = FALSE
    /\ UNCHANGED <<epoch, serving, pending, stack>>

(* It does not: the token file is malformed or open to others, or Emacs is *)
(* too busy to answer within 10 s.  The registry does not keep the client. *)
ConnectFails ==
    /\ Discoverable /\ ~Cached /\ pending = 0
    /\ opened' \in {"E_AUTH_FAILED", "E_COMMAND_TIMEOUT"}
    /\ UNCHANGED <<epoch, serving, client, pending, link, toEmacs, toClient,
                   filterVars, history>>

(* emacs_session_open with a client in the cache asks it to describe the   *)
(* instance, whatever has become of its socket.                            *)
Reopen ==
    /\ Discoverable /\ Cached /\ pending = 0
    /\ ~client.connected
    /\ opened' = "E_EMACS_DISCONNECTED"
    /\ UNCHANGED <<epoch, serving, client, pending, link, toEmacs, toClient,
                   filterVars, history>>

Transmit(r) ==
    /\ sent' = r /\ pending' = r
    /\ slow' \in {slow, slow \cup {r}}
    /\ toEmacs' = IF link THEN toEmacs \o Frame(r) ELSE toEmacs

(* Mutant: a request is sent before the last one is answered.              *)
SendEagerly ==
    /\ Discoverable /\ Cached /\ client.connected /\ sent < MaxRequests
    /\ Transmit(sent + 1)
    /\ UNCHANGED <<epoch, serving, client, opened, link, toClient, filterVars,
                   started, late>>

(* BridgeClient.request, for any tool; tools wait for its answer.          *)
Send ==
    /\ Discoverable /\ Cached /\ client.connected /\ sent < MaxRequests
    /\ pending = 0
    /\ Transmit(sent + 1)
    /\ UNCHANGED <<epoch, serving, client, opened, link, toClient, filterVars,
                   started, late>>

(* onData: a reply that nobody waits for is dropped.                       *)
Receive ==
    /\ toClient # <<>>
    /\ toClient' = Tail(toClient)
    /\ pending' = IF pending = Head(toClient) THEN 0 ELSE pending
    /\ UNCHANGED <<epoch, serving, client, opened, link, toEmacs, filterVars,
                   history>>

(* Mutant: a timeout gives the connection up without destroying the socket. *)
TimeoutHangsUp ==
    /\ pending # 0
    /\ pending' = 0 /\ late' = TRUE
    /\ client' = [client EXCEPT !.connected = FALSE]
    /\ UNCHANGED <<epoch, serving, opened, link, toEmacs, toClient,
                   filterVars, sent, slow, started>>

(* request gives up after 10 s; what was written is not taken back.        *)
Timeout ==
    /\ pending # 0
    /\ pending' = 0 /\ late' = TRUE
    /\ UNCHANGED <<epoch, serving, client, opened, link, toEmacs, toClient,
                   filterVars, sent, slow, started>>

(* onClose rejects the pending request; the registry keeps the client.     *)
OnClose ==
    /\ client.connected /\ ~link /\ toClient = <<>>
    /\ client' = [client EXCEPT !.connected = FALSE]
    /\ pending' = 0
    /\ UNCHANGED <<epoch, serving, opened, link, toEmacs, toClient, filterVars,
                   history>>

-----------------------------------------------------------------------------
(* Emacs: emacs-operator--client-filter, one step per frame.               *)

Top == stack[Len(stack)]
Pop == SubSeq(stack, 1, Len(stack) - 1)
InLoop == stack # <<>> /\ Top.busy = 0
Whole(data) == Len(data) >= 2 /\ SubSeq(data, 1, 2) = Frame(data[1].req)

\* What is in front of the next whole frame: nothing, or the end of a frame
\* whose beginning is lost, which the unanchored header search skips.
Skipped(data) == IF data # <<>> /\ data[1].half = 2 THEN 1 ELSE 0
Parsable(data) == Whole(SubSeq(data, 1 + Skipped(data), Len(data)))
Torn(data) == data # <<>> /\ ~Whole(data) /\ (Len(data) > 1 \/ data[1].half = 2)

(* A chunk arrives, when Emacs waits for input: idle, or inside a request  *)
(* that waits for a process.  The filter starts from the process property. *)
FilterBegin ==
    /\ link /\ toEmacs # <<>>
    /\ stack # <<>> => Top.busy # 0
    /\ \E n \in 1..Len(toEmacs) :
        /\ stack' = Append(stack, [data |-> kept \o SubSeq(toEmacs, 1, n), busy |-> 0])
        /\ toEmacs' = SubSeq(toEmacs, n + 1, Len(toEmacs))
    /\ UNCHANGED <<epoch, serving, nodeVars, link, toClient, kept, history>>

Reply(r) == toClient' = IF link THEN Append(toClient, r) ELSE toClient

(* Mutant: the frame is dispatched before it is taken off the data.        *)
DispatchFirst ==
    /\ InLoop /\ Parsable(Top.data)
    /\ LET k == Skipped(Top.data)
           r == Top.data[k + 1].req
       IN  /\ started' = Append(started, r)
           /\ stack' = Append(Pop, [data |-> Top.data, busy |-> IF r \in slow THEN r ELSE 0])
           /\ IF r \in slow THEN UNCHANGED toClient ELSE Reply(r)
    /\ UNCHANGED <<epoch, serving, nodeVars, link, toEmacs, kept, sent, slow, late>>

(* The next frame is whole: its request is dispatched, and answered at     *)
(* once unless it waits for a process.                                     *)
Dispatch ==
    /\ InLoop /\ Parsable(Top.data)
    /\ LET k == Skipped(Top.data)
           r == Top.data[k + 1].req
       IN  /\ started' = Append(started, r)
           /\ stack' = Append(Pop, [data |-> SubSeq(Top.data, k + 3, Len(Top.data)),
                                    busy |-> IF r \in slow THEN r ELSE 0])
           /\ IF r \in slow THEN UNCHANGED toClient ELSE Reply(r)
    /\ UNCHANGED <<epoch, serving, nodeVars, link, toEmacs, kept, sent, slow, late>>

(* The evaluation or the wait inside the innermost activation is over.     *)
Finish ==
    /\ stack # <<>> /\ Top.busy # 0
    /\ stack' = Append(Pop, [Top EXCEPT !.busy = 0])
    /\ Reply(Top.busy)
    /\ UNCHANGED <<epoch, serving, nodeVars, link, toEmacs, kept, history>>

(* No whole frame is left: the rest replaces whatever the property holds.  *)
FilterEnd ==
    /\ InLoop /\ ~Parsable(Top.data)
    /\ kept' = Top.data
    /\ stack' = Pop
    /\ UNCHANGED <<epoch, serving, nodeVars, link, toEmacs, toClient, history>>

(* Pieces of two frames run together: a header without a length or a body  *)
(* that is not JSON ends the filter and the connection.                    *)
FilterError ==
    /\ InLoop /\ Torn(Top.data)
    /\ stack' = Pop
    /\ link' = FALSE /\ toEmacs' = <<>>
    /\ UNCHANGED <<epoch, serving, nodeVars, toClient, kept, history>>

(* The mode is turned off, or Emacs dies, in which case the instance's     *)
(* last replies may be lost; then a new instance starts.                   *)
BridgeStop ==
    /\ serving
    /\ serving' = FALSE /\ link' = FALSE
    /\ toEmacs' = <<>> /\ kept' = <<>> /\ stack' = <<>>
    /\ \E n \in 0..Len(toClient) : toClient' = SubSeq(toClient, 1, n)
    /\ UNCHANGED <<epoch, nodeVars, history>>

BridgeStart ==
    /\ ~serving /\ epoch < MaxEpoch
    /\ serving' = TRUE /\ epoch' = epoch + 1
    /\ UNCHANGED <<nodeVars, link, toEmacs, toClient, filterVars, history>>

Next ==
    \/ NotFound \/ Connect \/ ConnectFails \/ Reopen \/ Send \/ Receive \/ Timeout \/ OnClose
    \/ FilterBegin \/ Dispatch \/ Finish \/ FilterEnd \/ FilterError
    \/ BridgeStop \/ BridgeStart

Spec == Init /\ [][Next]_vars

-----------------------------------------------------------------------------
(* Every variable has its type; only the innermost activation is in its    *)
(* loop, and Emacs has no process for a connection Node knows is closed.   *)
TypeOK ==
    /\ epoch \in 1..MaxEpoch /\ serving \in BOOLEAN
    /\ client \in [epoch : 0..MaxEpoch, connected : BOOLEAN]
    /\ pending \in 0..MaxRequests
    /\ opened \in {"none", "ok", "E_INSTANCE_NOT_FOUND", "E_AUTH_FAILED",
                   "E_COMMAND_TIMEOUT", "E_EMACS_DISCONNECTED"}
    /\ link \in BOOLEAN /\ late \in BOOLEAN
    /\ toEmacs \in Seq(Piece) /\ kept \in Seq(Piece)
    /\ toClient \in Seq(Requests) /\ started \in Seq(Requests)
    /\ stack \in Seq([data : Seq(Piece), busy : 0..MaxRequests])
    /\ sent \in 0..MaxRequests /\ slow \in SUBSET (1..sent)
    /\ \A n \in 1..(Len(stack) - 1) : stack[n].busy # 0
    /\ link => client.connected /\ Cached

(* Nothing is executed twice: however the filter is re-entered, and        *)
(* whichever leftovers it starts from, no frame is dispatched again.       *)
NothingRunsTwice == IsInjective(started)

(* As long as no request has timed out on a connection, every request is   *)
(* dispatched, in the order sent, whatever the chunks: waiting for each    *)
(* answer is what keeps the filter from being re-entered with data.        *)
PromptRequestsAreAllServed ==
    link /\ ~late =>
        /\ started = [n \in 1..Len(started) |-> n]
        /\ pending = 0 => Len(started) = sent
        /\ pending # 0 => Len(started) \in {sent - 1, sent}

(* The design document (14.2): the filter must support a body split over   *)
(* several chunks.  When everything that was sent on a living connection   *)
(* has been read, everything sent has been dispatched.                     *)
SplitRequestsAreServed ==
    link /\ stack = <<>> /\ toEmacs = <<>> /\ kept = <<>> => Len(started) = sent

=============================================================================
