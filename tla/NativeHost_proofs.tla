-------------------------- MODULE NativeHost_proofs --------------------------
(***************************************************************************)
(* For any number of keys, connections and requests: operations that touch *)
(* the window system exclude each other, keys are held down by somebody    *)
(* who will release them, connections are counted, and an answer means the *)
(* end of the work.                                                        *)
(* And for any number of hosts and clients: unless two hosts came or went  *)
(* at the same time, one host runs, holds the lock and has its token on    *)
(* disk, and no client that follows the record is turned away.             *)
(***************************************************************************)
EXTENDS NativeHost, HostRuntime, FiniteSetTheorems, SequenceTheorems, TLAPS

(* Module NativeHost.                                                      *)

Open == {c \in Conns : sock[c] = "open"}
Active == {"probing", "queued", "running"}

\* A connection's requests are its own; the one that is under way is first.
ChainInv ==
    /\ \A c \in Conns : \A i \in 1..Len(chain[c]) :
          req[chain[c][i]].conn = c /\ req[chain[c][i]].stage # "unsent"
    /\ \A r \in Reqs : req[r].stage \in Active /\ host # "gone" =>
          /\ req[r].conn \in Conns
          /\ chain[req[r].conn] # <<>> /\ r = Head(chain[req[r].conn])

\* What runs is the head of the queue, as long as there is a queue.
QueueInv == \A r \in Typing : host = "gone" \/ (tail # <<>> /\ r = Head(tail))

SocketTypes ==
    /\ sock \in [Conns -> {"none", "open", "closed"}] /\ authorized \subseteq Conns
    /\ connectionCount \in Nat
ReqTypes ==
    /\ chain \in [Conns -> Seq(Reqs)] /\ call \in [Reqs -> Outcomes]
    /\ req \in [Reqs -> [conn : Conns \cup {0}, method : Methods, stage : Stages]]
    /\ \A r \in Reqs : call[r] = "waiting" => req[r].conn \in Conns
HelperTypes ==
    /\ host \in {"up", "closing", "gone"} /\ tail \in Seq(Reqs)
    /\ helper \in [Reqs -> Helper] /\ down \subseteq Keys /\ killed \in BOOLEAN

\* Each part of the invariant has variables of its own.
SocketInv == SocketTypes /\ ConnectionsAreCounted
ReqInv == ReqTypes /\ ChainInv /\ AnsweredMeansOver
TypingInv == QueueInv /\ OneHelperTypes /\ DownKeysHaveAHelper

IInv == SocketInv /\ HelperTypes /\ ReqInv /\ TypingInv

-----------------------------------------------------------------------------
(* Sequences and sets.                                                     *)

LEMMA OneMore ==
  ASSUME NEW S, NEW s \in Seq(S), NEW x \in S
  PROVE  /\ Append(s, x) \in Seq(S) /\ Append(s, x) # <<>>
         /\ s # <<>> => Head(Append(s, x)) = Head(s)
         /\ \A i \in 1..Len(Append(s, x)) :
               Append(s, x)[i] = x \/ (i \in 1..Len(s) /\ Append(s, x)[i] = s[i])
  OBVIOUS

LEMMA OneLess ==
  ASSUME NEW S, NEW s \in Seq(S), s # <<>>
  PROVE  /\ Tail(s) \in Seq(S) /\ Head(s) \in S /\ Head(s) = s[1] /\ 1 \in 1..Len(s)
         /\ \A i \in 1..Len(Tail(s)) : i + 1 \in 1..Len(s) /\ Tail(s)[i] = s[i + 1]
  OBVIOUS

LEMMA OpenIsFinite == IsFiniteSet(Open) /\ Cardinality(Open) \in Nat
<1>1. IsFiniteSet(Conns)
  BY HostAssumption, FS_Interval DEF Conns
<1>2. Open \subseteq Conns
  BY DEF Open
<1> QED
  BY <1>1, <1>2, FS_Subset, FS_CardinalityType

-----------------------------------------------------------------------------
(* Connections.                                                            *)

LEMMA ClosedCounts ==
  ASSUME SocketInv, NEW cs \in SUBSET Conns, Closed(cs)
  PROVE  SocketInv'
<1> USE DEF SocketInv
<1> DEFINE gone == {c \in cs : sock[c] = "open"}
<1>1. /\ sock' = [c \in Conns |-> IF c \in gone THEN "closed" ELSE sock[c]]
      /\ connectionCount' = connectionCount - Cardinality(gone)
      /\ authorized' = authorized \ gone
  BY DEF Closed
<1>2. /\ connectionCount = Cardinality(Open) /\ connectionCount <= MaxConnections
      /\ ConnectionsAreCounted' <=> /\ connectionCount' = Cardinality(Open')
                                    /\ connectionCount' <= MaxConnections
  BY DEF ConnectionsAreCounted, Open
<1>3. gone \subseteq Open /\ Open' = Open \ gone
  BY <1>1 DEF Open, SocketTypes
<1>4. /\ IsFiniteSet(gone) /\ Cardinality(gone) \in Nat
      /\ Cardinality(Open \ gone) = Cardinality(Open) - Cardinality(Open \cap gone)
      /\ Open \cap gone = gone /\ Cardinality(gone) <= Cardinality(Open)
  BY <1>3, OpenIsFinite, FS_Subset, FS_Difference, FS_CardinalityType
<1>5. connectionCount' = Cardinality(Open') /\ connectionCount' <= MaxConnections
      /\ connectionCount' \in Nat
  BY <1>1, <1>2, <1>3, <1>4, OpenIsFinite, HostAssumption
<1> QED
  BY <1>1, <1>2, <1>5 DEF SocketTypes

LEMMA ConnectCounts ==
  ASSUME SocketInv, NEW c \in Conns, NEW r \in Reqs, Connect(c, r)
  PROVE  SocketInv'
<1> USE DEF SocketInv
<1>1. /\ connectionCount = Cardinality(Open) /\ connectionCount <= MaxConnections
      /\ connectionCount \in Nat /\ sock \in [Conns -> {"none", "open", "closed"}]
      /\ ConnectionsAreCounted' <=> /\ connectionCount' = Cardinality(Open')
                                    /\ connectionCount' <= MaxConnections
  BY DEF ConnectionsAreCounted, Open, SocketTypes
<1>2. c \notin Open
  <2>1. sock[c] = "none"
    BY DEF Connect, Conns
  <2> QED
    BY <2>1 DEF Open
<1>3. authorized' \subseteq Conns
  BY DEF Connect, SocketTypes
<1>4. CASE connectionCount >= MaxConnections
  <2>1. sock' = [sock EXCEPT ![c] = "closed"] /\ connectionCount' = connectionCount
    BY <1>4 DEF Connect
  <2>2. Open' = Open
    BY <1>1, <1>2, <2>1 DEF Open
  <2> QED
    BY <1>1, <1>3, <2>1, <2>2 DEF SocketTypes
<1>5. CASE ~(connectionCount >= MaxConnections)
  <2>1. sock' = [sock EXCEPT ![c] = "open"] /\ connectionCount' = connectionCount + 1
    BY <1>5 DEF Connect
  <2>2. Open' = Open \cup {c}
    BY <1>1, <2>1 DEF Open
  <2>3. Cardinality(Open') = Cardinality(Open) + 1
    BY <1>2, <2>2, OpenIsFinite, FS_AddElement
  <2> QED
    BY <1>1, <1>3, <1>5, <2>1, <2>3, HostAssumption DEF SocketTypes
<1> QED
  BY <1>4, <1>5

-----------------------------------------------------------------------------
(* Requests: they are sent, go on a stage, and are done.                   *)

\* Its connection's turn is with request r.
First(r) ==
    /\ req[r].conn \in Conns /\ req[r].stage \notin {"unsent", "done"}
    /\ chain[req[r].conn] # <<>> /\ r = Head(chain[req[r].conn])

\* Request r alone changes its stage, to s.
Moves(r, s) ==
    /\ req'[r].stage = s
    /\ \A q \in Reqs : q # r => req'[q] = req[q]

LEMMA WriteStep ==
  ASSUME ReqInv, NEW c \in Conns, NEW r \in Reqs, NEW m \in Methods, Write(c, r, m),
         call' = [call EXCEPT ![r] = "waiting"], host' = host
  PROVE  ReqInv' /\ Moves(r, "chained") /\ req[r].stage = "unsent"
<1> USE DEF ReqInv, ReqTypes
<1>1. /\ req[r].stage = "unsent"
      /\ req' = [req EXCEPT ![r] = [conn |-> c, method |-> m, stage |-> "chained"]]
      /\ chain' = [chain EXCEPT ![c] = Append(@, r)]
  BY DEF Write, Reqs
<1>2. /\ req'[r] = [conn |-> c, method |-> m, stage |-> "chained"] /\ Moves(r, "chained")
      /\ \A q \in Reqs : q # r => req'[q] = req[q]
  BY <1>1 DEF Moves
<1>3. ReqTypes'
  <2>1. Append(chain[c], r) \in Seq(Reqs)
    BY OneMore
  <2>2. [conn |-> c, method |-> m, stage |-> "chained"]
           \in [conn : Conns \cup {0}, method : Methods, stage : Stages]
    BY DEF Stages
  <2> QED
    BY <1>1, <2>1, <2>2 DEF Outcomes
<1>4. ASSUME NEW d \in Conns, NEW i \in 1..Len(chain'[d])
      PROVE  req'[chain'[d][i]].conn = d /\ req'[chain'[d][i]].stage # "unsent"
  <2>1. CASE chain'[d][i] = r /\ d = c
    BY <1>2, <2>1
  <2>2. CASE i \in 1..Len(chain[d]) /\ chain'[d][i] = chain[d][i]
    <3>1. chain[d][i] \in Reqs /\ chain[d][i] # r
      BY <1>1, <2>2 DEF ChainInv
    <3> QED
      BY <1>2, <2>2, <3>1 DEF ChainInv
  <2> QED
    BY <1>1, <2>1, <2>2, OneMore
<1>5. ASSUME NEW q \in Reqs, req'[q].stage \in Active, host' # "gone"
      PROVE  /\ req'[q].conn \in Conns
             /\ chain'[req'[q].conn] # <<>> /\ q = Head(chain'[req'[q].conn])
  <2>1. q # r /\ req'[q] = req[q]
    BY <1>2, <1>5 DEF Active
  <2>2. req[q].conn \in Conns /\ chain[req[q].conn] # <<>> /\ q = Head(chain[req[q].conn])
    BY <1>5, <2>1 DEF ChainInv
  <2>3. CASE req[q].conn = c
    BY <1>1, <2>1, <2>2, <2>3, OneMore
  <2>4. CASE req[q].conn # c
    BY <1>1, <2>1, <2>2, <2>4
  <2> QED
    BY <2>3, <2>4
<1>6. AnsweredMeansOver'
  BY <1>1, <1>2 DEF AnsweredMeansOver
<1>7. ChainInv'
  BY <1>4, <1>5 DEF ChainInv
<1> QED
  BY <1>1, <1>2, <1>3, <1>6, <1>7

LEMMA StageStep ==
  ASSUME ReqInv, NEW r \in Reqs, NEW s \in Active, First(r), Stage(r, s),
         UNCHANGED <<chain, call, host>>
  PROVE  ReqInv' /\ Moves(r, s)
<1> USE DEF ReqInv, ReqTypes
<1>1. /\ req' = [req EXCEPT ![r].stage = s]
      /\ req'[r].stage = s /\ req'[r].conn = req[r].conn
      /\ \A q \in Reqs : q # r => req'[q] = req[q]
  BY DEF Stage
<1>2. ReqTypes'
  BY <1>1 DEF Active, Stages
<1>3. ChainInv'
  <2>1. \A q \in Reqs : req'[q].conn = req[q].conn
                        /\ (req[q].stage # "unsent" => req'[q].stage # "unsent")
    BY <1>1 DEF Active
  <2>2. ASSUME NEW d \in Conns, NEW i \in 1..Len(chain'[d])
        PROVE  req'[chain'[d][i]].conn = d /\ req'[chain'[d][i]].stage # "unsent"
    <3>1. chain[d][i] \in Reqs
      OBVIOUS
    <3> QED
      BY <2>1, <3>1 DEF ChainInv
  <2> QED
    BY <1>1, <2>1, <2>2 DEF ChainInv, First
<1>4. AnsweredMeansOver'
  BY <1>1 DEF AnsweredMeansOver, First
<1> QED
  BY <1>1, <1>2, <1>3, <1>4 DEF Moves

LEMMA DoneStep ==
  ASSUME ReqInv, NEW r \in Reqs, First(r), host' = host, Stage(r, "done"),
         chain' = [chain EXCEPT ![req[r].conn] = Tail(@)],
         call' = call \/ \E answer \in {"result", "error"} : Reply(r, answer)
  PROVE  ReqInv' /\ Moves(r, "done")
<1> USE DEF ReqInv, ReqTypes
<1> DEFINE c == req[r].conn
<1>1. /\ req' = [req EXCEPT ![r].stage = "done"]
      /\ chain' = [chain EXCEPT ![c] = Tail(@)]
      /\ call' = call \/ \E answer \in {"result", "error"} : call' = [call EXCEPT ![r] = answer]
  BY DEF Stage, Reply
<1>2. /\ req'[r].stage = "done" /\ req'[r].conn = c
      /\ \A q \in Reqs : q # r => req'[q] = req[q]
  BY <1>1
<1>3. c \in Conns /\ chain[c] # <<>> /\ r = Head(chain[c])
  BY DEF First
<1>4. ReqTypes'
  <2>1. Tail(chain[c]) \in Seq(Reqs)
    BY <1>3, OneLess
  <2>2. chain' \in [Conns -> Seq(Reqs)]
    BY <1>1, <2>1
  <2>3. req' \in [Reqs -> [conn : Conns \cup {0}, method : Methods, stage : Stages]]
    BY <1>1 DEF Stages
  <2>4. call' \in [Reqs -> Outcomes] /\ \A q \in Reqs : call'[q] = "waiting" => call[q] = "waiting"
    BY <1>1 DEF Outcomes
  <2>5. \A q \in Reqs : call'[q] = "waiting" => req'[q].conn \in Conns
    BY <1>2, <2>4
  <2> QED
    BY <2>2, <2>3, <2>4, <2>5
<1>5. ASSUME NEW d \in Conns, NEW i \in 1..Len(chain'[d])
      PROVE  req'[chain'[d][i]].conn = d /\ req'[chain'[d][i]].stage # "unsent"
  <2>1. PICK j \in 1..Len(chain[d]) : chain'[d][i] = chain[d][j]
    BY <1>1, <1>3, OneLess
  <2>2. chain[d][j] \in Reqs
    OBVIOUS
  <2> QED
    BY <1>2, <2>1, <2>2 DEF ChainInv
<1>6. ASSUME NEW q \in Reqs, req'[q].stage \in Active, host' # "gone"
      PROVE  /\ req'[q].conn \in Conns
             /\ chain'[req'[q].conn] # <<>> /\ q = Head(chain'[req'[q].conn])
  <2>1. q # r /\ req'[q] = req[q]
    BY <1>2, <1>6 DEF Active
  <2>2. req[q].conn \in Conns /\ chain[req[q].conn] # <<>> /\ q = Head(chain[req[q].conn])
    BY <1>6, <2>1 DEF ChainInv
  <2>3. req[q].conn # c
    BY <1>3, <2>1, <2>2
  <2> QED
    BY <1>1, <2>1, <2>2, <2>3
<1>7. ChainInv'
  BY <1>5, <1>6 DEF ChainInv
<1>8. AnsweredMeansOver'
  BY <1>1, <1>2 DEF AnsweredMeansOver
<1> QED
  BY <1>2, <1>4, <1>7, <1>8 DEF Moves

\* A helper of a host that is gone ends unseen.
LEMMA UnseenStep ==
  ASSUME ReqInv, NEW r \in Reqs, host = "gone", Stage(r, "done"),
         UNCHANGED <<chain, call, host>>
  PROVE  ReqInv' /\ Moves(r, "done")
<1> USE DEF ReqInv, ReqTypes
<1>1. /\ req' = [req EXCEPT ![r].stage = "done"]
      /\ req'[r].stage = "done" /\ req'[r].conn = req[r].conn
      /\ \A q \in Reqs : q # r => req'[q] = req[q]
  BY DEF Stage
<1>2. ReqTypes'
  BY <1>1 DEF Stages
<1>3. ASSUME NEW d \in Conns, NEW i \in 1..Len(chain'[d])
      PROVE  req'[chain'[d][i]].conn = d /\ req'[chain'[d][i]].stage # "unsent"
  <2>1. chain[d][i] \in Reqs
    OBVIOUS
  <2> QED
    BY <1>1, <2>1 DEF ChainInv
<1>4. ChainInv' /\ AnsweredMeansOver'
  BY <1>1, <1>3 DEF ChainInv, AnsweredMeansOver
<1> QED
  BY <1>1, <1>2, <1>4 DEF Moves

LEMMA TurnIsFirst ==
  ASSUME ReqInv, NEW c \in Conns, NEW r \in Reqs, Turn(c, r)
  PROVE  First(r) /\ req[r].conn = c
<1>1. chain[c] \in Seq(Reqs) /\ chain[c] # <<>> /\ r = Head(chain[c])
      /\ req[r].stage = "chained"
  BY DEF ReqInv, ReqTypes, Turn
<1>2. req[r].conn = c
  BY <1>1, OneLess DEF ReqInv, ChainInv
<1> QED
  BY <1>1, <1>2 DEF First

LEMMA ActiveIsFirst ==
  ASSUME ReqInv, NEW r \in Reqs, req[r].stage \in Active, host # "gone"
  PROVE  First(r)
BY DEF ReqInv, ChainInv, First, Active

-----------------------------------------------------------------------------
(* The window system.                                                      *)

LEMMA NothingTyped ==
  ASSUME TypingInv,
         \A q \in Reqs : req'[q].stage = "running" <=> req[q].stage = "running",
         \A q \in Typing : helper'[q].held = helper[q].held,
         killed' \/ UNCHANGED <<down, killed>>,
         \/ host' = "gone"
         \/ host # "gone" /\ (tail # <<>> => tail' # <<>> /\ Head(tail') = Head(tail))
  PROVE  TypingInv'
<1>1. Typing' = Typing
  BY DEF Typing
<1>2. QueueInv' /\ OneHelperTypes'
  BY <1>1 DEF TypingInv, QueueInv, OneHelperTypes
<1>3. UNION {helper'[q].held : q \in Typing'} = UNION {helper[q].held : q \in Typing}
  BY <1>1
<1>4. DownKeysHaveAHelper'
  BY <1>3 DEF TypingInv, DownKeysHaveAHelper
<1> QED
  BY <1>2, <1>4 DEF TypingInv

LEMMA TypingEnds ==
  ASSUME TypingInv, NEW r \in Typing, Moves(r, "done"),
         killed' \/ (killed' = killed /\ down' = down \ helper[r].held)
  PROVE  TypingInv'
<1>1. Typing = {r}
  BY DEF TypingInv, OneHelperTypes
<1>2. Typing' = {}
  BY <1>1 DEF Moves, Typing
<1>3. UNION {helper[q].held : q \in Typing} = helper[r].held
  BY <1>1
<1>4. killed' \/ down' = {}
  BY <1>3 DEF TypingInv, DownKeysHaveAHelper
<1> QED
  BY <1>2, <1>4 DEF TypingInv, QueueInv, OneHelperTypes, DownKeysHaveAHelper

\* What types begins when nothing did.
LEMMA TypingStarts ==
  ASSUME TypingInv, NEW r \in Reqs, host # "gone", tail # <<>>, r = Head(tail),
         req[r].stage = "queued", Moves(r, "running"), UNCHANGED <<tail, down, killed>>
  PROVE  TypingInv'
<1>1. Typing = {}
  BY DEF TypingInv, QueueInv, Typing
<1>2. Typing' = {r}
  BY <1>1 DEF Moves, Typing
<1>3. killed' \/ down' = {}
  BY <1>1 DEF TypingInv, DownKeysHaveAHelper
<1> QED
  BY <1>2, <1>3 DEF TypingInv, QueueInv, OneHelperTypes, DownKeysHaveAHelper

\* A key goes down, or up, in the hand of the one that types.
LEMMA KeyMoves ==
  ASSUME TypingInv, helper \in [Reqs -> Helper], NEW r \in Typing, NEW k \in Keys,
         UNCHANGED <<req, host, tail, killed>>,
         \/ /\ helper' = [helper EXCEPT ![r].held = @ \cup {k}]
            /\ down' = down \cup {k}
         \/ /\ helper' = [helper EXCEPT ![r].held = @ \ {k}]
            /\ down' = down \ {k}
  PROVE  TypingInv'
<1>1. Typing = {r} /\ Typing' = Typing
  BY DEF TypingInv, OneHelperTypes, Typing
<1>2. /\ UNION {helper[q].held : q \in Typing} = helper[r].held
      /\ UNION {helper'[q].held : q \in Typing'} = helper'[r].held
  BY <1>1
<1>3. r \in Reqs /\ helper[r] \in Helper
  BY DEF Typing
<1>4. killed \/ down' \subseteq helper'[r].held
  BY <1>2, <1>3 DEF TypingInv, DownKeysHaveAHelper, Helper
<1> QED
  BY <1>1, <1>2, <1>4 DEF TypingInv, QueueInv, OneHelperTypes, DownKeysHaveAHelper

LEMMA AbortedTypes ==
  ASSUME helper \in [Reqs -> Helper]
  PROVE  /\ Aborted \in [Reqs -> Helper]
         /\ \A q \in Reqs : Aborted[q].held = helper[q].held
<1>1. \A q \in Reqs : helper[q] \in Helper /\ [helper[q] EXCEPT !.signal = "term"] \in Helper
                      /\ [helper[q] EXCEPT !.signal = "term"].held = helper[q].held
  BY DEF Helper
<1> QED
  BY <1>1 DEF Aborted

-----------------------------------------------------------------------------
(* The steps.                                                              *)

LEMMA SameSockets ==
  ASSUME SocketInv, UNCHANGED <<sock, authorized, connectionCount>>
  PROVE  SocketInv'
BY DEF SocketInv, SocketTypes, ConnectionsAreCounted

LEMMA SameRequests ==
  ASSUME ReqInv, UNCHANGED <<req, chain, call, host>>
  PROVE  ReqInv'
BY DEF ReqInv, ReqTypes, ChainInv, AnsweredMeansOver

\* Callers give up: nobody gets an answer by that.
LEMMA CallersGiveUp ==
  ASSUME ReqInv, UNCHANGED <<req, chain>>, host' = host \/ (host = "up" /\ host' = "closing"),
         call' \in [Reqs -> Outcomes],
         \A q \in Reqs : call'[q] = call[q] \/ call'[q] = "unknown"
  PROVE  ReqInv'
BY DEF ReqInv, ReqTypes, ChainInv, AnsweredMeansOver

LEMMA SameTyping ==
  ASSUME TypingInv, HelperTypes, UNCHANGED <<req, tail, helper, down, killed>>,
         host' = host \/ (host = "up" /\ host' = "closing")
  PROVE  TypingInv' /\ HelperTypes'
BY DEF TypingInv, QueueInv, OneHelperTypes, DownKeysHaveAHelper, Typing, HelperTypes

LEMMA ClientStep ==
  ASSUME IInv, ClientNext \/ \E c \in Conns : IdleTimeout(c)
  PROVE  IInv'
<1> USE DEF IInv
<1>1. ASSUME NEW c \in Conns, NEW r \in Reqs, Connect(c, r) PROVE IInv'
  <2>1. SocketInv'
    BY <1>1, ConnectCounts
  <2>2. host' = host /\ UNCHANGED <<tail, helper, down, killed>>
    BY <1>1 DEF Connect, xVars
  <2>3. CASE UNCHANGED <<chain, req, call>>
    BY <2>1, <2>2, <2>3, SameTyping, SameRequests
  <2>4. CASE Write(c, r, "driver.initialize") /\ call' = [call EXCEPT ![r] = "waiting"]
    <3>1. ReqInv' /\ Moves(r, "chained") /\ req[r].stage = "unsent"
      BY <2>2, <2>4, WriteStep DEF Methods
    <3>2. TypingInv' /\ HelperTypes'
      BY <2>2, <3>1, NothingTyped DEF Moves, HelperTypes
    <3> QED
      BY <2>1, <3>1, <3>2
  <2> QED
    BY <1>1, <2>3, <2>4 DEF Connect
<1>2. ASSUME NEW c \in Conns, NEW r \in Reqs, NEW m \in Methods, Request(c, r, m) PROVE IInv'
  <2>1. /\ Write(c, r, m) /\ call' = [call EXCEPT ![r] = "waiting"]
        /\ UNCHANGED <<host, sock, authorized, connectionCount, tail, helper, down, killed>>
    BY <1>2 DEF Request, hostVars, xVars
  <2>2. ReqInv' /\ Moves(r, "chained") /\ req[r].stage = "unsent"
    BY <2>1, WriteStep
  <2>3. TypingInv' /\ HelperTypes'
    BY <2>1, <2>2, NothingTyped DEF Moves, HelperTypes
  <2> QED
    BY <2>1, <2>2, <2>3, SameSockets
<1>3. ASSUME NEW cs \in SUBSET Conns, Closed(cs), call' = RejectAll(cs),
             UNCHANGED <<host, queues, req, xVars>>
      PROVE  IInv'
  <2>1. /\ call' \in [Reqs -> Outcomes]
        /\ \A q \in Reqs : call'[q] = call[q] \/ call'[q] = "unknown"
    BY <1>3 DEF RejectAll, ReqInv, ReqTypes, Outcomes
  <2> QED
    BY <1>3, <2>1, ClosedCounts, CallersGiveUp, SameTyping DEF queues, xVars
<1>4. ASSUME NEW c \in Conns, ClientClose(c) \/ IdleTimeout(c) PROVE IInv'
  BY <1>3, <1>4 DEF ClientClose, IdleTimeout
<1>5. ASSUME NEW r \in Reqs, RequestTimeout(r) PROVE IInv'
  <2>1. /\ call' = [call EXCEPT ![r] = "unknown"]
        /\ UNCHANGED <<host, chain, tail, req, helper, down, killed>>
    BY <1>5 DEF RequestTimeout, queues, xVars
  <2>2. SocketInv'
    <3>1. CASE UNCHANGED <<sock, connectionCount, authorized>>
      BY <3>1, SameSockets
    <3>2. CASE Closed({req[r].conn})
      <4>1. {req[r].conn} \in SUBSET Conns
        BY <1>5 DEF RequestTimeout, ReqInv, ReqTypes
      <4> QED
        BY <3>2, <4>1, ClosedCounts
    <3> QED
      BY <1>5, <3>1, <3>2 DEF RequestTimeout
  <2>3. ReqInv'
    BY <2>1, CallersGiveUp DEF ReqInv, ReqTypes, Outcomes
  <2> QED
    BY <2>1, <2>2, <2>3, SameTyping
<1> QED
  BY <1>1, <1>2, <1>4, <1>5 DEF ClientNext

LEMMA HostStepInv ==
  ASSUME IInv, NEW r \in Reqs, HostStep(r)
  PROVE  IInv'
<1> USE DEF IInv
<1>1. ASSUME NEW c \in Conns, Skip(c, r) \/ Refuse(c, r) \/ CancelAll(c, r) PROVE IInv'
  <2>1. /\ Turn(c, r) /\ UNCHANGED <<host, sock, authorized, connectionCount, tail, down, killed>>
        /\ helper' = helper \/ helper' = Aborted
        /\ \/ \E answer \in {"result", "error"} : Done(r, answer)
           \/ /\ Stage(r, "done") /\ UNCHANGED call
              /\ chain' = [chain EXCEPT ![c] = Tail(@)]
    BY <1>1 DEF Skip, Refuse, CancelAll, hostVars, xVars
  <2>2. First(r) /\ req[r].conn = c /\ req[r].stage = "chained"
    BY <2>1, TurnIsFirst DEF Turn
  <2>3. ReqInv' /\ Moves(r, "done")
    BY <2>1, <2>2, DoneStep DEF Done, Stage
  <2>4. helper' \in [Reqs -> Helper] /\ \A q \in Reqs : helper'[q].held = helper[q].held
    BY <2>1, AbortedTypes DEF HelperTypes
  <2>5. TypingInv' /\ HelperTypes'
    BY <2>1, <2>2, <2>3, <2>4, NothingTyped DEF Moves, HelperTypes, Typing
  <2> QED
    BY <2>1, <2>3, <2>5, SameSockets
<1>2. ASSUME NEW c \in Conns, Probe(c, r) PROVE IInv'
  <2>1. /\ Turn(c, r) /\ Stage(r, "probing") /\ authorized' = authorized \cup {c}
        /\ UNCHANGED <<host, sock, connectionCount, chain, tail, call, helper, down, killed>>
    BY <1>2 DEF Probe, queues, xVars
  <2>2. First(r) /\ req[r].stage = "chained"
    BY <2>1, TurnIsFirst DEF Turn
  <2>3. ReqInv' /\ Moves(r, "probing")
    BY <2>1, <2>2, StageStep DEF Active
  <2>4. TypingInv' /\ HelperTypes'
    BY <2>1, <2>2, <2>3, NothingTyped DEF Moves, HelperTypes
  <2>5. SocketInv'
    BY <2>1 DEF SocketInv, SocketTypes, ConnectionsAreCounted
  <2> QED
    BY <2>3, <2>4, <2>5
<1>3. ASSUME NEW c \in Conns, Enqueue(c, r) PROVE IInv'
  <2>1. /\ Turn(c, r) /\ Stage(r, "queued") /\ tail' = Append(tail, r)
        /\ UNCHANGED <<host, sock, connectionCount, authorized, chain, call, helper, down, killed>>
    BY <1>3 DEF Enqueue, hostVars, xVars
  <2>2. First(r) /\ req[r].stage = "chained"
    BY <2>1, TurnIsFirst DEF Turn
  <2>3. ReqInv' /\ Moves(r, "queued")
    BY <2>1, <2>2, StageStep DEF Active
  <2>4. /\ tail' \in Seq(Reqs) /\ tail' # <<>>
        /\ tail # <<>> => Head(tail') = Head(tail)
    BY <2>1, OneMore DEF HelperTypes
  <2>5. TypingInv' /\ HelperTypes'
    BY <2>1, <2>2, <2>3, <2>4, NothingTyped DEF Moves, HelperTypes
  <2> QED
    BY <2>1, <2>3, <2>5, SameSockets
<1>4. ASSUME Start(r) PROVE IInv'
  <2>1. /\ host # "gone" /\ tail # <<>> /\ r = Head(tail) /\ req[r].stage = "queued"
        /\ UNCHANGED <<host, sock, authorized, connectionCount, helper, down, killed>>
    BY <1>4 DEF Start, hostVars, xVars
  <2>2. First(r)
    BY <2>1, ActiveIsFirst DEF Active
  <2>3. CASE Done(r, "error") /\ tail' = Tail(tail)
    <3>1. ReqInv' /\ Moves(r, "done")
      BY <2>1, <2>2, <2>3, DoneStep DEF Done, Stage
    <3>2. Typing = {} /\ Typing' = {}
      BY <2>1, <3>1 DEF TypingInv, QueueInv, Typing, Moves
    <3>3. TypingInv'
      BY <2>1, <3>2 DEF TypingInv, QueueInv, OneHelperTypes, DownKeysHaveAHelper
    <3>4. HelperTypes'
      BY <2>1, <2>3, OneLess DEF HelperTypes
    <3> QED
      BY <2>1, <3>1, <3>3, <3>4, SameSockets
  <2>4. CASE Stage(r, "running") /\ UNCHANGED <<chain, call, tail>>
    <3>1. ReqInv' /\ Moves(r, "running")
      BY <2>1, <2>2, <2>4, StageStep DEF Active
    <3>2. TypingInv' /\ HelperTypes'
      BY <2>1, <2>4, <3>1, TypingStarts DEF HelperTypes
    <3> QED
      BY <2>1, <3>1, <3>2, SameSockets
  <2> QED
    BY <1>4, <2>3, <2>4 DEF Start
<1> QED
  BY <1>1, <1>2, <1>3, <1>4 DEF HostStep, Next1

\* What runs or probes, works for the first request, if the host lives.
LEMMA SettleStep ==
  ASSUME IInv, NEW r \in Reqs, req[r].stage \in {"probing", "running"},
         NEW answer \in {"result", "error"}, Settle(r, answer), host' = host,
         helper' = [helper EXCEPT ![r] = NewHelper], down' \in SUBSET down,
         \/ killed'
         \/ req[r].stage = "probing" /\ UNCHANGED <<down, killed>>
         \/ req[r].stage = "running" /\ killed' = killed /\ down' = down \ helper[r].held,
         killed' \in BOOLEAN,
         UNCHANGED <<sock, authorized, connectionCount>>
  PROVE  IInv'
<1> USE DEF IInv
<1>1. ReqInv' /\ Moves(r, "done") /\ tail' \in Seq(Reqs)
  <2>1. CASE host = "gone"
    BY <2>1, UnseenStep DEF Settle, queues, HelperTypes
  <2>2. CASE host # "gone"
    <3>1. First(r)
      BY <2>2, ActiveIsFirst DEF Active
    <3>2. ReqInv' /\ Moves(r, "done")
      BY <2>2, <3>1, DoneStep DEF Settle, Done, Stage
    <3>3. tail' = IF req[r].stage = "running" THEN Tail(tail) ELSE tail
      BY <2>2 DEF Settle
    <3>4. req[r].stage = "running" => tail # <<>>
      BY <2>2 DEF TypingInv, QueueInv, Typing
    <3> QED
      BY <3>2, <3>3, <3>4, OneLess DEF HelperTypes
  <2> QED
    BY <2>1, <2>2
<1>2. HelperTypes'
  <2>1. NewHelper \in Helper
    BY DEF NewHelper, Helper
  <2> QED
    BY <1>1, <2>1 DEF HelperTypes
<1>3. TypingInv'
  <2>1. CASE req[r].stage = "running"
    BY <1>1, <2>1, TypingEnds DEF Typing
  <2>2. CASE req[r].stage = "probing"
    <3>1. /\ \A q \in Reqs : req'[q].stage = "running" <=> req[q].stage = "running"
          /\ \A q \in Typing : helper'[q].held = helper[q].held
      BY <1>1, <2>2 DEF Moves, Typing, HelperTypes
    <3>2. host # "gone" => tail' = tail
      BY <2>2 DEF Settle
    <3> QED
      BY <2>2, <3>1, <3>2, NothingTyped
  <2> QED
    BY <2>1, <2>2
<1> QED
  BY <1>1, <1>2, <1>3, SameSockets

LEMMA HelperStep ==
  ASSUME IInv, NEW r \in Reqs, HelperNext(r) \/ Timer(r)
  PROVE  IInv'
<1> USE DEF IInv
<1>1. ASSUME NEW answer \in {"result", "error"}, SequenceEnds(r, answer) PROVE IInv'
  BY <1>1, SettleStep DEF SequenceEnds, Sequencing, Working, Alive, hostVars, HelperTypes
<1>2. ASSUME NEW answer \in {"result", "error"}, ProbeEnds(r, answer) PROVE IInv'
  BY <1>2, SettleStep DEF ProbeEnds, hostVars, HelperTypes
<1>3. CASE Kill(r)
  BY <1>3, SettleStep DEF Kill, Alive, hostVars, HelperTypes
<1>4. CASE Hang(r) \/ HelperTimeout(r)
  <2>1. /\ UNCHANGED <<host, sock, authorized, connectionCount, chain, tail, req, call, down, killed>>
        /\ \/ helper' = [helper EXCEPT ![r].hung = TRUE]
           \/ helper' = [helper EXCEPT ![r].signal = "due"]
    BY <1>4 DEF Hang, HelperTimeout, hostVars, queues
  <2>2. helper' \in [Reqs -> Helper] /\ \A q \in Reqs : helper'[q].held = helper[q].held
    <3>1. CASE helper' = [helper EXCEPT ![r].hung = TRUE]
      BY <3>1 DEF HelperTypes, Helper
    <3>2. CASE helper' = [helper EXCEPT ![r].signal = "due"]
      BY <3>2 DEF HelperTypes, Helper
    <3> QED
      BY <2>1, <3>1, <3>2
  <2>3. TypingInv'
    BY <2>1, <2>2, NothingTyped DEF Typing, TypingInv, QueueInv, OneHelperTypes
  <2> QED
    BY <2>1, <2>2, <2>3, SameSockets, SameRequests DEF HelperTypes
<1>5. ASSUME NEW k \in Keys, KeyDown(r, k) \/ KeyUp(r, k) PROVE IInv'
  <2>1. /\ r \in Typing
        /\ UNCHANGED <<host, sock, authorized, connectionCount, chain, tail, req, call, killed>>
        /\ \/ /\ helper' = [helper EXCEPT ![r].held = @ \cup {k}]
              /\ down' = down \cup {k}
           \/ /\ helper' = [helper EXCEPT ![r].held = @ \ {k}]
              /\ down' = down \ {k}
    BY <1>5 DEF KeyDown, KeyUp, Sequencing, Typing, hostVars, queues
  <2>2. TypingInv'
    BY <2>1, KeyMoves DEF HelperTypes
  <2>3. helper' \in [Reqs -> Helper] /\ down' \subseteq Keys
    BY <2>1 DEF HelperTypes, Helper
  <2> QED
    BY <2>1, <2>2, <2>3, SameSockets, SameRequests DEF HelperTypes
<1> QED
  BY <1>1, <1>2, <1>3, <1>4, <1>5 DEF HelperNext, Timer

LEMMA ShutdownStep ==
  ASSUME IInv, Shutdown
  PROVE  IInv'
<1> USE DEF IInv
<1>1. /\ host = "up" /\ host' = "closing" /\ helper' = Aborted /\ Closed(Conns)
      /\ call' = RejectAll(Conns) /\ UNCHANGED <<chain, tail, req, down, killed>>
  BY DEF Shutdown, queues
<1>2. /\ call' \in [Reqs -> Outcomes]
      /\ \A q \in Reqs : call'[q] = call[q] \/ call'[q] = "unknown"
  BY <1>1 DEF RejectAll, ReqInv, ReqTypes, Outcomes
<1>3. helper' \in [Reqs -> Helper] /\ \A q \in Reqs : helper'[q].held = helper[q].held
  BY <1>1, AbortedTypes DEF HelperTypes
<1>4. TypingInv'
  BY <1>1, <1>3, NothingTyped DEF Typing
<1> QED
  BY <1>1, <1>2, <1>3, <1>4, ClosedCounts, CallersGiveUp DEF HelperTypes

LEMMA ExitStep ==
  ASSUME IInv, Exit
  PROVE  IInv'
<1> USE DEF IInv
<1>1. /\ host' = "gone" /\ chain' = [c \in Conns |-> <<>>] /\ tail' = <<>>
      /\ req' = [r \in Reqs |-> IF req[r].stage \in {"chained", "queued"}
                                THEN [req[r] EXCEPT !.stage = "done"] ELSE req[r]]
      /\ UNCHANGED <<sock, authorized, connectionCount, call, helper, down, killed>>
  BY DEF Exit, xVars
<1>2. \A r \in Reqs : /\ req'[r].stage = "running" <=> req[r].stage = "running"
                      /\ req[r].stage = "done" => req'[r].stage = "done"
                      /\ req'[r].conn = req[r].conn
  BY <1>1 DEF ReqInv, ReqTypes
<1>3. ReqTypes'
  <2>1. \A r \in Reqs : req'[r] \in [conn : Conns \cup {0}, method : Methods, stage : Stages]
    BY <1>1 DEF ReqInv, ReqTypes, Stages
  <2>2. req' \in [Reqs -> [conn : Conns \cup {0}, method : Methods, stage : Stages]]
    BY <1>1, <2>1
  <2>3. chain' \in [Conns -> Seq(Reqs)]
    BY <1>1
  <2> QED
    BY <1>1, <1>2, <2>2, <2>3 DEF ReqInv, ReqTypes
<1>4. ChainInv'
  BY <1>1 DEF ChainInv
<1>5. AnsweredMeansOver'
  BY <1>1, <1>2 DEF ReqInv, AnsweredMeansOver
<1>6. TypingInv'
  BY <1>1, <1>2, NothingTyped
<1>7. HelperTypes'
  BY <1>1 DEF HelperTypes
<1> QED
  BY <1>1, <1>3, <1>4, <1>5, <1>6, <1>7, SameSockets DEF ReqInv

LEMMA InitIInv ==
  ASSUME Init
  PROVE  IInv
<1> USE DEF Init, IInv
<1>1. Open = {} /\ Typing = {}
  BY DEF Open, Typing
<1>2. SocketInv
  <2>1. Cardinality({c \in Conns : sock[c] = "open"}) = 0
    BY <1>1, FS_EmptySet DEF Open
  <2>2. SocketTypes
    BY DEF SocketTypes
  <2> QED
    BY <2>1, <2>2, HostAssumption DEF SocketInv, ConnectionsAreCounted
<1>3. HelperTypes
  <2>1. NewHelper \in Helper
    BY DEF NewHelper, Helper
  <2>2. helper \in [Reqs -> Helper]
    BY <2>1
  <2>3. host \in {"up", "closing", "gone"} /\ tail \in Seq(Reqs) /\ down \subseteq Keys
    OBVIOUS
  <2>4. killed \in BOOLEAN
    OBVIOUS
  <2> QED
    BY <2>2, <2>3, <2>4 DEF HelperTypes
<1>4. ReqInv
  BY DEF ReqInv, ReqTypes, ChainInv, AnsweredMeansOver, Outcomes, Methods, Stages, Active
<1>5. TypingInv
  BY <1>1 DEF TypingInv, QueueInv, OneHelperTypes, DownKeysHaveAHelper
<1> QED
  BY <1>2, <1>3, <1>4, <1>5

LEMMA StepIInv ==
  ASSUME IInv, [Next]_vars
  PROVE  IInv'
<1>1. CASE UNCHANGED vars
  <2>1. UNCHANGED <<host, sock, authorized, connectionCount, chain, tail, req, call,
                    helper, down, killed>>
    BY <1>1 DEF vars, hostVars, queues, xVars
  <2> QED
    BY <2>1, SameSockets, SameRequests, SameTyping DEF IInv
<1> QED
  BY <1>1, ClientStep, HostStepInv, HelperStep, ShutdownStep, ExitStep DEF Next

\* The inductive invariant holds in every reachable state.
LEMMA Inductive == Spec => []IInv
<1>1. Init => IInv
  BY InitIInv
<1>2. IInv /\ [Next]_vars => IInv'
  BY StepIInv
<1> QED
  BY <1>1, <1>2, PTL DEF Spec

(* Every variable of the native host has its type (host.mjs,               *)
(* x11-backend.mjs, platformDriver.ts).                                    *)
THEOREM HostTypes == Spec => []TypeOK
<1>1. IInv => TypeOK
  BY DEF IInv, SocketInv, SocketTypes, ReqInv, ReqTypes, HelperTypes, TypeOK
<1> QED
  BY <1>1, Inductive, PTL

(* Whatever clients give up and however connections close, at most one     *)
(* operation touches the window system (#serialize of x11-backend.mjs).    *)
THEOREM OperationsExclude == Spec => []OneHelperTypes
<1>1. IInv => OneHelperTypes
  BY DEF IInv, TypingInv
<1> QED
  BY <1>1, Inductive, PTL

(* Unless a helper had to be killed, every key that is down is held by a   *)
(* sequence that will release it (release_held, apps/linux-host).          *)
THEOREM KeysAreHeld == Spec => []DownKeysHaveAHelper
<1>1. IInv => DownKeysHaveAHelper
  BY DEF IInv, TypingInv
<1> QED
  BY <1>1, Inductive, PTL

(* connectionCount of host.mjs is the number of open sockets, and at most  *)
(* MAX_CONNECTIONS.                                                        *)
THEOREM ConnectionCount == Spec => []ConnectionsAreCounted
<1>1. IInv => ConnectionsAreCounted
  BY DEF IInv, SocketInv
<1> QED
  BY <1>1, Inductive, PTL

(* A request that the host has answered is one nobody works on any more    *)
(* (runProcess, handleRequest).                                            *)
THEOREM AnswersAreFinal == Spec => []AnsweredMeansOver
<1>1. IInv => AnsweredMeansOver
  BY DEF IInv, ReqInv
<1> QED
  BY <1>1, Inductive, PTL

-----------------------------------------------------------------------------
(* Module HostRuntime.                                                     *)

\* Phases in which a host knows that nobody else runs; in which the lock
\* file holds its pid.
Alone == (Starting \cup Stopping) \ {"create", "inspect"}
Holding == {"record", "token", "newtoken", "listen"}

\* What the files are while hosts come and go one after the other.
InOrder ==
    /\ \A g, h \in Hosts : ComingOrGoing(g) /\ ComingOrGoing(h) => g = h
    /\ \A h \in Hosts : At(h, "running") => lock = h /\ token = h
    /\ \A h \in Hosts : phase[h] \in Alone => \A g \in Hosts : ~At(g, "running")
    /\ \A h \in Hosts : At(h, "write") => lock = Empty
    /\ \A h \in Hosts : phase[h] \in Holding => lock = h
    /\ \A h \in Hosts : At(h, "listen") => token = h

\* A client follows the record of a host that was there when it read it.
ReadersFollowHosts == \A c \in Clients : client[c].step = "reading" => client[c].host \in Hosts

RuntimeInv == RuntimeTypeOK /\ ReadersFollowHosts /\ (raced \/ InOrder) /\ DeniedMeansARace

LEMMA InitRuntimeInv ==
  ASSUME RuntimeInit
  PROVE  RuntimeInv
<1>1. RuntimeTypeOK
  <2>1. phase \in [Hosts -> Phases] /\ attempt \in [Hosts -> {1, 2}] /\ raced \in BOOLEAN
    BY DEF RuntimeInit, Phases
  <2>2. /\ lock \in Hosts \cup {Nobody, Absent, Empty} /\ token \in Hosts \cup {Nobody, Absent}
        /\ record \in [host : Hosts \cup {Nobody, Absent}, fresh : BOOLEAN]
    <3>1. NoRecord \in [host : Hosts \cup {Nobody, Absent}, fresh : BOOLEAN]
      BY DEF NoRecord
    <3>2. [host |-> Nobody, fresh |-> TRUE] \in [host : Hosts \cup {Nobody, Absent}, fresh : BOOLEAN]
      OBVIOUS
    <3> QED
      BY <3>1, <3>2 DEF RuntimeInit
  <2>3. client \in [Clients -> [step : {"idle", "reading", "connected", "denied", "unavailable"},
                               host : Hosts \cup {Nobody}]]
    BY DEF RuntimeInit, NoTarget
  <2> QED
    BY <2>1, <2>2, <2>3 DEF RuntimeTypeOK
<1>2. ReadersFollowHosts /\ DeniedMeansARace
  BY DEF RuntimeInit, ReadersFollowHosts, DeniedMeansARace, NoTarget
<1>3. InOrder
  BY DEF RuntimeInit, InOrder, At, ComingOrGoing, Alone, Holding, Starting, Stopping, Acquiring, Preparing
<1> QED
  BY <1>1, <1>2, <1>3 DEF RuntimeInv

-----------------------------------------------------------------------------
(* Types.                                                                  *)

LEMMA GotoType ==
  ASSUME RuntimeTypeOK, NEW h \in Hosts, NEW p \in Phases, Goto(h, p)
  PROVE  phase' \in [Hosts -> Phases] /\ raced' \in BOOLEAN
  BY DEF RuntimeTypeOK, Goto

LEMMA TypeStep ==
  ASSUME RuntimeTypeOK, [RuntimeNext]_runtimeVars
  PROVE  RuntimeTypeOK'
<1> USE DEF RuntimeTypeOK, NoRecord, WriteRecord, Replaced
<1>1. ASSUME NEW h \in Hosts, StartHost(h) PROVE RuntimeTypeOK'
  BY <1>1, GotoType DEF StartHost, files, Phases, Starting, Acquiring
<1>2. ASSUME NEW h \in Hosts, CreateLock(h) PROVE RuntimeTypeOK'
  BY <1>2, GotoType DEF CreateLock, Phases, Starting, Acquiring
<1>3. ASSUME NEW h \in Hosts, WriteLock(h) PROVE RuntimeTypeOK'
  BY <1>3, GotoType DEF WriteLock, Phases, Starting, Preparing
<1>4. ASSUME NEW h \in Hosts, InspectLock(h) PROVE RuntimeTypeOK'
  BY <1>4, GotoType DEF InspectLock, files, Phases, Starting, Acquiring
<1>5. ASSUME NEW h \in Hosts, UnlinkLock(h) PROVE RuntimeTypeOK'
  BY <1>5, GotoType DEF UnlinkLock, Phases, Starting, Acquiring
<1>6. ASSUME NEW h \in Hosts, RemoveRecord(h) PROVE RuntimeTypeOK'
  BY <1>6, GotoType DEF RemoveRecord, Phases, Starting, Preparing
<1>7. ASSUME NEW h \in Hosts, RemoveToken(h) PROVE RuntimeTypeOK'
  BY <1>7, GotoType DEF RemoveToken, Phases, Starting, Preparing
<1>8. ASSUME NEW h \in Hosts, CreateToken(h) PROVE RuntimeTypeOK'
  BY <1>8, GotoType DEF CreateToken, Phases, Starting, Preparing
<1>9. ASSUME NEW h \in Hosts, AbandonLock(h) PROVE RuntimeTypeOK'
  BY <1>9, GotoType DEF AbandonLock, Phases
<1>10. ASSUME NEW h \in Hosts, Listen(h) PROVE RuntimeTypeOK'
  BY <1>10, GotoType DEF Listen, Phases
<1>11. ASSUME NEW h \in Hosts, Stop(h) PROVE RuntimeTypeOK'
  <2>1. {"stop1", "stop2", "stop3", "exit1", "exit2", "exit3", "dead"} \subseteq Phases
    BY DEF Phases, Stopping
  <2>2. ASSUME NEW p1 \in Phases, NEW p2 \in Phases, NEW p3 \in Phases, NEW after \in Phases,
               Cleanup(h, p1, p2, p3, after)
        PROVE  RuntimeTypeOK'
    <3>1. phase' \in [Hosts -> Phases] /\ raced' \in BOOLEAN
      BY <2>2, GotoType DEF Cleanup
    <3>2. NoRecord \in [host : Hosts \cup {Nobody, Absent}, fresh : BOOLEAN]
      BY DEF NoRecord
    <3>3. record' \in [host : Hosts \cup {Nobody, Absent}, fresh : BOOLEAN]
      BY <2>2, <3>2 DEF Cleanup
    <3>4. lock' \in Hosts \cup {Nobody, Absent, Empty} /\ token' \in Hosts \cup {Nobody, Absent}
      BY <2>2 DEF Cleanup
    <3> QED
      BY <1>11, <3>1, <3>3, <3>4 DEF Stop
  <2> QED
    BY <1>11, <2>1, <2>2 DEF Stop
<1>12. ASSUME NEW h \in Hosts, Heartbeat(h) \/ Signal(h) \/ Crash(h) PROVE RuntimeTypeOK'
  <2>1. CASE Heartbeat(h)
    BY <2>1 DEF Heartbeat
  <2>2. CASE Signal(h)
    BY <2>2, GotoType DEF Signal, files, Phases, Stopping
  <2>3. CASE Crash(h)
    BY <2>3, GotoType DEF Crash, files, Phases
  <2> QED
    BY <1>12, <2>1, <2>2, <2>3
<1>13. CASE GrowStale
  BY <1>13 DEF GrowStale
<1>14. ASSUME NEW c \in Clients, ReadRecord(c) PROVE RuntimeTypeOK'
  <2>1. Discoverable => record.host \in Hosts
    BY DEF Discoverable, IsAlive
  <2> QED
    BY <1>14, <2>1 DEF ReadRecord, files
<1>15. ASSUME NEW c \in Clients, Authenticate(c) PROVE RuntimeTypeOK'
  BY <1>15 DEF Authenticate, files
<1>16. CASE UNCHANGED runtimeVars
  BY <1>16 DEF runtimeVars, files
<1> QED
  BY <1>1, <1>2, <1>3, <1>4, <1>5, <1>6, <1>7, <1>8, <1>9, <1>10, <1>11, <1>12, <1>13,
     <1>14, <1>15, <1>16 DEF RuntimeNext, Step

-----------------------------------------------------------------------------
(* Order.                                                                  *)

Lone == \A g, h \in Hosts : ComingOrGoing(g) /\ ComingOrGoing(h) => g = h

\* A step that does not race moves one host, and if that one comes or goes
\* then no other does.
LEMMA GotoInOrder ==
  ASSUME RuntimeTypeOK, raced \/ InOrder, NEW h \in Hosts, NEW p \in Phases, Goto(h, p), ~raced'
  PROVE  /\ InOrder /\ Lone'
         /\ phase'[h] = p
         /\ \A g \in Hosts \ {h} : phase'[g] = phase[g]
         /\ p \in Starting \cup Stopping => \A g \in Hosts \ {h} : ~ComingOrGoing(g)
<1>1. /\ ~raced
      /\ p \in Starting \cup Stopping => \A g \in Hosts \ {h} : ~ComingOrGoing(g)
  BY DEF Goto, RuntimeTypeOK
<1>2. phase'[h] = p /\ \A g \in Hosts \ {h} : phase'[g] = phase[g]
  BY DEF Goto, RuntimeTypeOK
<1>3. InOrder
  BY <1>1
<1>4. \A f, g \in Hosts : ComingOrGoing(f) /\ ComingOrGoing(g) => f = g
  BY <1>3 DEF InOrder
<1>5. Lone'
  BY <1>1, <1>2, <1>4 DEF Lone, ComingOrGoing
<1> QED
  BY <1>1, <1>2, <1>3, <1>5

LEMMA OrderStep ==
  ASSUME RuntimeTypeOK, raced \/ InOrder, [RuntimeNext]_runtimeVars
  PROVE  raced' \/ InOrder'
<1> SUFFICES ASSUME ~raced' PROVE InOrder'
  OBVIOUS
<1> USE RuntimeAssumption DEF RuntimeTypeOK, InOrder, Lone, At, Alone, Holding, Phases, Starting, Stopping, Acquiring, Preparing
<1>1. ASSUME NEW h \in Hosts, StartHost(h) PROVE InOrder'
  BY <1>1, GotoInOrder DEF StartHost, files, ComingOrGoing
<1>2. ASSUME NEW h \in Hosts, CreateLock(h) PROVE InOrder'
  BY <1>2, GotoInOrder DEF CreateLock, ComingOrGoing
<1>3. ASSUME NEW h \in Hosts, WriteLock(h) PROVE InOrder'
  BY <1>3, GotoInOrder DEF WriteLock, ComingOrGoing
<1>4. ASSUME NEW h \in Hosts, InspectLock(h) PROVE InOrder'
  BY <1>4, GotoInOrder DEF InspectLock, IsAlive, files, ComingOrGoing
<1>5. ASSUME NEW h \in Hosts, UnlinkLock(h) PROVE InOrder'
  BY <1>5, GotoInOrder DEF UnlinkLock, ComingOrGoing
<1>6. ASSUME NEW h \in Hosts, RemoveRecord(h) PROVE InOrder'
  BY <1>6, GotoInOrder DEF RemoveRecord, ComingOrGoing
<1>7. ASSUME NEW h \in Hosts, RemoveToken(h) PROVE InOrder'
  BY <1>7, GotoInOrder DEF RemoveToken, ComingOrGoing
<1>8. ASSUME NEW h \in Hosts, CreateToken(h) PROVE InOrder'
  BY <1>8, GotoInOrder DEF CreateToken, ComingOrGoing
<1>9. ASSUME NEW h \in Hosts, AbandonLock(h) PROVE InOrder'
  BY <1>9, GotoInOrder DEF AbandonLock, ComingOrGoing
<1>10. ASSUME NEW h \in Hosts, Listen(h) PROVE InOrder'
  BY <1>10, GotoInOrder DEF Listen, ComingOrGoing
<1>11. ASSUME NEW h \in Hosts, Stop(h) PROVE InOrder'
  <2>1. ASSUME Cleanup(h, "stop1", "stop2", "stop3", "exit1") PROVE InOrder'
    BY <1>11, <2>1, GotoInOrder DEF Stop, Cleanup, ComingOrGoing
  <2>2. ASSUME Cleanup(h, "exit1", "exit2", "exit3", "dead") PROVE InOrder'
    BY <1>11, <2>2, GotoInOrder DEF Stop, Cleanup, ComingOrGoing
  <2> QED
    BY <1>11, <2>1, <2>2 DEF Stop
<1>12. ASSUME NEW h \in Hosts, Heartbeat(h) PROVE InOrder'
  BY <1>12 DEF Heartbeat, ComingOrGoing
<1>13. ASSUME NEW h \in Hosts, Signal(h) PROVE InOrder'
  BY <1>13, GotoInOrder DEF Signal, files, ComingOrGoing
<1>14. ASSUME NEW h \in Hosts, Crash(h) PROVE InOrder'
  BY <1>14, GotoInOrder DEF Crash, files, ComingOrGoing
<1>15. ASSUME GrowStale \/ UNCHANGED runtimeVars \/ \E c \in Clients : ReadRecord(c) \/ Authenticate(c)
       PROVE  InOrder'
  BY <1>15 DEF GrowStale, ReadRecord, Authenticate, runtimeVars, files, ComingOrGoing
<1> QED
  BY <1>1, <1>2, <1>3, <1>4, <1>5, <1>6, <1>7, <1>8, <1>9, <1>10, <1>11, <1>12, <1>13,
     <1>14, <1>15 DEF RuntimeNext, Step

-----------------------------------------------------------------------------
(* Clients, and the theorems.                                              *)

LEMMA ReadersStep ==
  ASSUME RuntimeInv, [RuntimeNext]_runtimeVars
  PROVE  ReadersFollowHosts' /\ DeniedMeansARace'
<1> USE DEF RuntimeInv, ReadersFollowHosts, DeniedMeansARace
<1>1. raced => raced'
  BY DEF RuntimeNext, Step, StartHost, CreateLock, WriteLock, InspectLock, UnlinkLock, RemoveRecord,
         RemoveToken, CreateToken, AbandonLock, Listen, Stop, Cleanup, Heartbeat, Signal, Crash,
         GrowStale, ReadRecord, Authenticate, Goto, runtimeVars
<1>2. CASE client' = client
  BY <1>1, <1>2
<1>3. ASSUME NEW c \in Clients, ReadRecord(c) PROVE ReadersFollowHosts' /\ DeniedMeansARace'
  <2>1. Discoverable => record.host \in Hosts
    BY DEF Discoverable, IsAlive
  <2> QED
    BY <1>1, <1>3, <2>1 DEF ReadRecord, RuntimeTypeOK
<1>4. ASSUME NEW c \in Clients, Authenticate(c) PROVE ReadersFollowHosts' /\ DeniedMeansARace'
  <2>1. /\ \A d \in Clients : client'[d].host = client[d].host
        /\ \A d \in Clients \ {c} : client'[d] = client[d]
        /\ client'[c].step \in {"unavailable", "connected", "denied"}
    BY <1>4 DEF Authenticate, RuntimeTypeOK
  <2>2. client'[c].step = "denied" => raced
    <3> SUFFICES ASSUME client'[c].step = "denied" PROVE raced
      OBVIOUS
    <3>1. client[c].host \in Hosts
      BY <1>4 DEF Authenticate
    <3>2. At(client[c].host, "running") /\ token # client[c].host
      BY <1>4 DEF Authenticate, RuntimeTypeOK
    <3> QED
      BY <3>1, <3>2 DEF InOrder
  <2> QED
    BY <1>1, <2>1, <2>2
<1>5. CASE \E h \in Hosts : StartHost(h) \/ Step(h) \/ Heartbeat(h) \/ Signal(h) \/ Crash(h)
  BY <1>2, <1>5 DEF Step, StartHost, CreateLock, WriteLock, InspectLock, UnlinkLock, RemoveRecord,
         RemoveToken, CreateToken, AbandonLock, Listen, Stop, Heartbeat, Signal, Crash
<1>6. CASE GrowStale \/ UNCHANGED runtimeVars
  BY <1>2, <1>6 DEF GrowStale, runtimeVars
<1> QED
  BY <1>3, <1>4, <1>5, <1>6 DEF RuntimeNext

LEMMA StepRuntimeInv ==
  ASSUME RuntimeInv, [RuntimeNext]_runtimeVars
  PROVE  RuntimeInv'
  BY TypeStep, OrderStep, ReadersStep DEF RuntimeInv

\* The inductive invariant holds in every reachable state.
LEMMA RuntimeInductive == RuntimeSpec => []RuntimeInv
<1>1. RuntimeInit => RuntimeInv
  BY InitRuntimeInv
<1>2. RuntimeInv /\ [RuntimeNext]_runtimeVars => RuntimeInv'
  BY StepRuntimeInv
<1> QED
  BY <1>1, <1>2, PTL DEF RuntimeSpec

(* The phases of the hosts and the contents of the lock, token and record  *)
(* files stay what createDriverRuntime makes of them.                      *)
THEOREM RuntimeTypes == RuntimeSpec => []RuntimeTypeOK
<1>1. RuntimeInv => RuntimeTypeOK
  BY DEF RuntimeInv
<1> QED
  BY <1>1, RuntimeInductive, PTL

(* acquireRuntimeLock does its work: two running hosts mean that two hosts *)
(* once came or went at the same time.                                     *)
THEOREM OneHost == RuntimeSpec => []OneHostRuns
<1>1. RuntimeInv => OneHostRuns
  BY DEF RuntimeInv, InOrder, OneHostRuns
<1> QED
  BY <1>1, RuntimeInductive, PTL

(* A running host holds the lock, and the token on disk is its own.        *)
THEOREM HostIsFound == RuntimeSpec => []RunningHostIsFound
<1>1. RuntimeInv => RunningHostIsFound
  BY DEF RuntimeInv, InOrder, RunningHostIsFound
<1> QED
  BY <1>1, RuntimeInductive, PTL

(* A host refuses the token a client read beside its record only after     *)
(* such a race.                                                            *)
THEOREM DenialsAreRaces == RuntimeSpec => []DeniedMeansARace
<1>1. RuntimeInv => DeniedMeansARace
  BY DEF RuntimeInv
<1> QED
  BY <1>1, RuntimeInductive, PTL
=============================================================================
