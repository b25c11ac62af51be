----------------------- MODULE BridgeConnection_proofs -----------------------
(***************************************************************************)
(* For any number of requests and of restarts of the bridge: however the   *)
(* process filter is entered again, and wherever the stream is cut, no     *)
(* request is dispatched twice, and none is lost while nothing times out.  *)
(***************************************************************************)
EXTENDS BridgeConnection, SequenceTheorems, TLAPS

Activation == [data : Seq(Piece), busy : 0..MaxRequests]

\* Where frames end, from a position on.
Ends(d, p) == {i \in p..Len(d) : d[i].half = 2}

Waiting == {r \in 1..sent : \A n \in 1..Len(started) : started[n] # r}
Unstarted(d, p, w) == \A i \in Ends(d, p) : d[i].req \in w
Once(d, p) == \A i, j \in Ends(d, p) : d[i].req = d[j].req => i = j
Apart(d, p, e, q) == \A i \in Ends(d, p), j \in Ends(e, q) : d[i].req # e[j].req

\* An activation whose data is Stuck dispatches nothing, whatever arrives; what
\* it leaves in the process property starts the next ones, which are stuck too.
\* All others have frames to dispatch that nobody else has.
Stuck(d) == ~Parsable(d) /\ Ends(d, 2) # {}
Sound(d, w, wire) == Once(d, 2) /\ Unstarted(d, 2, w) /\ Apart(d, 2, wire, 1)

StackInv(s, w, wire) ==
    \A n \in 1..Len(s) : ~Stuck(s[n].data) =>
        /\ Sound(s[n].data, w, wire)
        /\ \A m \in 1..Len(s) : m # n /\ ~Stuck(s[m].data) => Apart(s[n].data, 2, s[m].data, 2)

IInv ==
    /\ TypeOK /\ (link => serving)
    /\ NothingRunsTwice /\ \A n \in 1..Len(started) : started[n] \in 1..sent
    /\ ~Parsable(kept)
    /\ Once(toEmacs, 1) /\ Unstarted(toEmacs, 1, Waiting)
    /\ StackInv(stack, Waiting, toEmacs)

-----------------------------------------------------------------------------
(* Pieces in sequence.                                                     *)

LEMMA Cut ==
  ASSUME NEW d \in Seq(Piece), NEW k \in Nat
  PROVE  LET e == SubSeq(d, k + 1, Len(d)) IN
         /\ e \in Seq(Piece) /\ Len(e) = IF k <= Len(d) THEN Len(d) - k ELSE 0
         /\ \A i \in 1..Len(e) : e[i] = d[i + k]
<1>1. Len(d) \in Nat /\ \A i \in 1..Len(d) : d[i] \in Piece
  BY LenProperties, ElementOfSeq
<1>2. \A i \in (k + 1)..Len(d) : d[i] \in Piece
  BY <1>1
<1>3. LET e == SubSeq(d, k + 1, Len(d)) IN
      /\ e \in Seq(Piece) /\ Len(e) = IF k + 1 <= Len(d) THEN Len(d) - (k + 1) + 1 ELSE 0
      /\ \A i \in 1..(Len(d) - (k + 1) + 1) : e[i] = d[(k + 1) + i - 1]
  BY <1>1, <1>2, SubSeqProperties
<1> QED
  BY <1>1, <1>3

LEMMA Pair ==
  ASSUME NEW S, NEW a \in S, NEW b \in S
  PROVE  <<a, b>> \in Seq(S) /\ Len(<<a, b>>) = 2
OBVIOUS

LEMMA WholeAt ==
  ASSUME NEW d \in Seq(Piece)
  PROVE  Whole(d) <=> /\ Len(d) >= 2 /\ d[1].half = 1
                      /\ d[2].half = 2 /\ d[2].req = d[1].req
<1>1. Len(d) \in Nat /\ \A i \in 1..Len(d) : d[i] \in Piece
  BY LenProperties, ElementOfSeq
<1>2. CASE Len(d) < 2
  BY <1>1, <1>2 DEF Whole
<1>3. CASE Len(d) >= 2
  <2> DEFINE e == SubSeq(d, 1, 2)
             f == Frame(d[1].req)
  <2>1. d[1] \in Piece /\ d[2] \in Piece
    BY <1>1, <1>3
  <2>2. /\ e \in Seq(Piece) /\ Len(e) = 2 /\ e[1] = d[1] /\ e[2] = d[2]
    <3>1. \A i \in 1..2 : d[i] \in Piece
      BY <1>1, <1>3
    <3>2. \A i \in 1..(2 - 1 + 1) : e[i] = d[1 + i - 1]
      BY <3>1, SubSeqProperties
    <3>3. e \in Seq(Piece) /\ Len(e) = 2
      BY <3>1, SubSeqProperties
    <3> HIDE DEF e
    <3> QED
      BY <3>2, <3>3
  <2>3. f[1] = [req |-> d[1].req, half |-> 1] /\ f[2] = [req |-> d[1].req, half |-> 2]
    BY DEF Frame
  <2>4. f \in Seq(Piece) /\ Len(f) = 2
    <3>1. [req |-> d[1].req, half |-> 1] \in Piece /\ [req |-> d[1].req, half |-> 2] \in Piece
      BY <2>1 DEF Piece
    <3> QED
      BY <3>1, Pair DEF Frame
  <2> HIDE DEF e, f
  <2>5. e = f <=> e[1] = f[1] /\ e[2] = f[2]
    <3>1. ASSUME e[1] = f[1], e[2] = f[2] PROVE e = f
      <4>1. \A i \in 1..Len(e) : e[i] = f[i]
        BY <2>2, <3>1
      <4> QED
        BY <2>2, <2>4, <4>1, SeqEqual
    <3> QED
      BY <3>1
  <2>6. d[1] = f[1] <=> d[1].half = 1
    BY <2>1, <2>3 DEF Piece
  <2>7. d[2] = f[2] <=> d[2].half = 2 /\ d[2].req = d[1].req
    BY <2>1, <2>3 DEF Piece
  <2> QED
    BY <1>3, <2>2, <2>5, <2>6, <2>7 DEF Whole, e, f
<1> QED
  BY <1>1, <1>2, <1>3

LEMMA ParsableAt ==
  ASSUME NEW d \in Seq(Piece)
  PROVE  /\ Skipped(d) \in {0, 1}
         /\ Parsable(d) <=> LET k == Skipped(d) IN
                /\ Len(d) >= k + 2 /\ d[k + 1].half = 1
                /\ d[k + 2].half = 2 /\ d[k + 2].req = d[k + 1].req
<1> DEFINE k == Skipped(d)
           e == SubSeq(d, 1 + k, Len(d))
<1>1. k \in {0, 1} /\ Len(d) \in Nat
  BY LenProperties DEF Skipped
<1>2. /\ e \in Seq(Piece) /\ Len(e) = IF k <= Len(d) THEN Len(d) - k ELSE 0
      /\ \A i \in 1..Len(e) : e[i] = d[i + k]
  <2>1. e = SubSeq(d, k + 1, Len(d)) /\ k \in Nat
    BY <1>1
  <2> HIDE DEF k
  <2> QED
    BY <2>1, Cut
<1>3. Whole(e) <=> /\ Len(e) >= 2 /\ e[1].half = 1
                   /\ e[2].half = 2 /\ e[2].req = e[1].req
  BY <1>2, WholeAt
<1>4. CASE Len(e) >= 2
  <2> HIDE DEF e, k
  <2>1. e[1] = d[k + 1] /\ e[2] = d[k + 2] /\ Len(d) >= k + 2
    BY <1>1, <1>2, <1>4
  <2> QED
    BY <1>1, <1>3, <1>4, <2>1 DEF Parsable, e, k
<1>5. CASE ~(Len(e) >= 2)
  <2> HIDE DEF e, k
  <2>1. ~(Len(d) >= k + 2)
    BY <1>1, <1>2, <1>5
  <2> QED
    BY <1>1, <1>3, <1>5, <2>1 DEF Parsable, e, k
<1> QED
  BY <1>1, <1>2, <1>4, <1>5

LEMMA Joined ==
  ASSUME NEW d \in Seq(Piece), NEW c \in Seq(Piece)
  PROVE  /\ d \o c \in Seq(Piece) /\ Len(d \o c) = Len(d) + Len(c)
         /\ Len(d) \in Nat /\ Len(c) \in Nat
         /\ \A i \in 1..Len(d) : (d \o c)[i] = d[i]
         /\ \A i \in 1..Len(c) : (d \o c)[Len(d) + i] = c[i]
BY ConcatProperties, LenProperties

\* What cannot be parsed and has the end of a frame in it never can be.
LEMMA StuckStays ==
  ASSUME NEW d \in Seq(Piece), NEW c \in Seq(Piece), Stuck(d)
  PROVE  Stuck(d \o c)
<1> DEFINE e == d \o c
<1>1. /\ e \in Seq(Piece) /\ Len(e) = Len(d) + Len(c) /\ Len(d) \in Nat /\ Len(c) \in Nat
      /\ \A i \in 1..Len(d) : e[i] = d[i]
  BY Joined
<1>2. PICK i \in 2..Len(d) : d[i].half = 2
  BY DEF Stuck, Ends
<1> HIDE DEF e
<1>3. Ends(e, 2) # {}
  BY <1>1, <1>2 DEF Ends
<1>4. d # <<>> /\ e # <<>> /\ Skipped(e) = Skipped(d)
  BY <1>1, <1>2 DEF Skipped
<1>5. ~Parsable(e)
  <2>1. /\ Skipped(d) \in {0, 1}
        /\ ~(LET k == Skipped(d) IN
                /\ Len(d) >= k + 2 /\ d[k + 1].half = 1
                /\ d[k + 2].half = 2 /\ d[k + 2].req = d[k + 1].req)
    BY ParsableAt DEF Stuck
  <2>2. CASE Len(d) >= Skipped(d) + 2
    BY <1>1, <1>4, <2>1, <2>2, ParsableAt
  <2>3. CASE ~(Len(d) >= Skipped(d) + 2)
    <3>1. Skipped(d) = 1 /\ Len(d) = 2 /\ i = 2
      <4>1. i \in Nat /\ 2 <= i /\ i <= Len(d) /\ Len(d) \in Nat
        BY <1>1, <1>2
      <4>2. CASE Skipped(d) = 0
        BY <2>3, <4>1, <4>2
      <4>3. CASE Skipped(d) = 1
        <5>1. ~(Len(d) >= 1 + 2)
          BY <2>3, <4>3
        <5>2. \A m, n \in Nat : 2 <= m /\ m <= n /\ ~(n >= 1 + 2) => n = 2 /\ m = 2
          OBVIOUS
        <5>3. Len(d) = 2 /\ i = 2
          BY <4>1, <5>1, <5>2
        <5> QED
          BY <4>3, <5>3
      <4> QED
        BY <2>1, <4>2, <4>3
    <3>2. e[2].half = 2
      BY <1>1, <1>2, <3>1
    <3> QED
      BY <1>1, <1>4, <3>1, <3>2, ParsableAt
  <2> QED
    BY <2>2, <2>3
<1> QED
  BY <1>3, <1>5 DEF Stuck, e

LEMMA PopProperties ==
  ASSUME NEW S, NEW s \in Seq(S), s # <<>>
  PROVE  LET t == SubSeq(s, 1, Len(s) - 1) IN
         /\ Len(s) \in Nat \ {0} /\ s[Len(s)] \in S
         /\ t \in Seq(S) /\ Len(t) = Len(s) - 1 /\ \A i \in 1..Len(t) : t[i] = s[i]
<1>1. Len(s) \in Nat \ {0} /\ \A i \in 1..Len(s) : s[i] \in S
  BY LenProperties, ElementOfSeq, EmptySeq
<1>2. \A i \in 1..(Len(s) - 1) : s[i] \in S
  BY <1>1
<1>3. LET t == SubSeq(s, 1, Len(s) - 1) IN
      /\ t \in Seq(S) /\ Len(t) = IF 1 <= Len(s) - 1 THEN Len(s) - 1 - 1 + 1 ELSE 0
      /\ \A i \in 1..(Len(s) - 1 - 1 + 1) : t[i] = s[1 + i - 1]
  BY <1>1, <1>2, SubSeqProperties
<1> DEFINE t == SubSeq(s, 1, Len(s) - 1)
<1>4. /\ t \in Seq(S) /\ Len(t) = IF 1 <= Len(s) - 1 THEN Len(s) - 1 - 1 + 1 ELSE 0
      /\ \A i \in 1..(Len(s) - 1 - 1 + 1) : t[i] = s[1 + i - 1]
  BY <1>3
<1> HIDE DEF t
<1>5. Len(t) = Len(s) - 1 /\ \A i \in 1..Len(t) : t[i] = s[i]
  <2>1. Len(t) = Len(s) - 1
    <3>1. Len(s) \in Nat /\ Len(s) # 0 /\ Len(t) = IF 1 <= Len(s) - 1 THEN Len(s) - 1 - 1 + 1 ELSE 0
      BY <1>1, <1>4
    <3>2. \A n \in Nat : n # 0 => (IF 1 <= n - 1 THEN n - 1 - 1 + 1 ELSE 0) = n - 1
      OBVIOUS
    <3> QED
      BY <3>1, <3>2
  <2>2. ASSUME NEW i \in 1..Len(t) PROVE t[i] = s[i]
    <3>1. i \in 1..(Len(s) - 1 - 1 + 1) /\ 1 + i - 1 = i
      BY <1>1, <2>1
    <3> QED
      BY <1>4, <3>1
  <2> QED
    BY <2>1, <2>2
<1> QED
  BY <1>1, <1>4, <1>5 DEF t

\* The innermost activation is another.
LEMMA NewTop ==
  ASSUME NEW S, NEW s \in Seq(S), s # <<>>, NEW a \in S
  PROVE  LET t == Append(SubSeq(s, 1, Len(s) - 1), a) IN
         /\ t \in Seq(S) /\ Len(t) = Len(s) /\ t[Len(s)] = a
         /\ \A i \in 1..(Len(s) - 1) : t[i] = s[i]
BY PopProperties, AppendProperties

-----------------------------------------------------------------------------
(* Types.                                                                  *)

LEMMA StackTop ==
  ASSUME TypeOK, stack # <<>>
  PROVE  /\ Len(stack) \in Nat \ {0} /\ stack \in Seq(Activation) /\ Top = stack[Len(stack)]
         /\ Top \in Activation /\ Top.data \in Seq(Piece) /\ Top.busy \in 0..MaxRequests
<1>1. stack \in Seq(Activation)
  BY DEF TypeOK, Activation
<1>2. Len(stack) \in Nat \ {0} /\ Top \in Activation
  BY <1>1, PopProperties DEF Top
<1> QED
  BY <1>1, <1>2 DEF Activation, Top

\* An activation below the innermost waits.
Waits(s) == \A n \in 1..(Len(s) - 1) : s[n].busy # 0

LEMMA PopTypes ==
  ASSUME TypeOK, stack # <<>>
  PROVE  /\ Pop \in Seq(Activation) /\ Len(Pop) = Len(stack) - 1
         /\ \A n \in 1..Len(Pop) : Pop[n] = stack[n]
         /\ Waits(Pop)
<1>1. /\ Pop \in Seq(Activation) /\ Len(Pop) = Len(stack) - 1 /\ Len(stack) \in Nat \ {0}
      /\ \A n \in 1..Len(Pop) : Pop[n] = stack[n]
  BY StackTop, PopProperties DEF Pop
<1>2. ASSUME NEW n \in 1..(Len(Pop) - 1) PROVE Pop[n].busy # 0
  <2>1. n \in 1..Len(Pop) /\ n \in 1..(Len(stack) - 1)
    BY <1>1
  <2> QED
    BY <1>1, <2>1 DEF TypeOK
<1> QED
  BY <1>1, <1>2 DEF Waits

Typed == TypeOK /\ (link => serving)

LEMMA TopTypes ==
  ASSUME Typed, stack # <<>>, NEW a \in Activation, stack' = Append(Pop, a)
  PROVE  /\ stack' \in Seq(Activation) /\ Len(stack') = Len(stack) /\ stack'[Len(stack)] = a
         /\ \A n \in 1..(Len(stack) - 1) : stack'[n] = stack[n]
         /\ Waits(stack')
<1> DEFINE t == Append(Pop, a)
<1>1. /\ t \in Seq(Activation) /\ Len(t) = Len(stack) /\ t[Len(stack)] = a
      /\ \A n \in 1..(Len(stack) - 1) : t[n] = stack[n]
  BY StackTop, NewTop DEF Pop, Typed
<1>2. Len(stack) \in Nat /\ \A n \in 1..(Len(stack) - 1) : stack[n].busy # 0
  BY DEF Typed, TypeOK
<1> HIDE DEF t
<1>3. Waits(t)
  BY <1>1, <1>2 DEF Waits
<1>4. stack' = t
  BY DEF t
<1> QED
  BY <1>1, <1>3, <1>4, Zenon

LEMMA NodeTypes ==
  ASSUME Typed,
         \/ NotFound \/ Connect \/ ConnectFails \/ Reopen
         \/ Receive \/ Timeout \/ OnClose \/ BridgeStart
  PROVE  Typed'
<1> USE ConnectionAssumption
<1>1. CASE Connect
  <2>1. /\ serving /\ client' = [epoch |-> epoch, connected |-> TRUE] /\ link' = TRUE
        /\ opened' = "ok" /\ toEmacs' = <<>> /\ toClient' = <<>> /\ kept' = <<>>
        /\ sent' = 0 /\ slow' = {} /\ started' = <<>> /\ late' = FALSE
        /\ UNCHANGED <<epoch, serving, pending, stack>>
    BY <1>1 DEF Connect, Initialized, Discoverable
  <2>2. epoch \in 1..MaxEpoch /\ epoch \in 0..MaxEpoch
    BY DEF Typed, TypeOK
  <2>3. client' \in [epoch : 0..MaxEpoch, connected : BOOLEAN] /\ client'.connected /\ Cached'
    BY <2>1, <2>2 DEF Cached
  <2>4. \A S : <<>> \in Seq(S)
    BY EmptySeq
  <2>5. /\ toEmacs' \in Seq(Piece) /\ kept' \in Seq(Piece)
        /\ toClient' \in Seq(Requests) /\ started' \in Seq(Requests)
    BY <2>1, <2>4
  <2>6. sent' \in 0..MaxRequests /\ slow' \in SUBSET (1..sent')
    BY <2>1
  <2>7. /\ epoch' \in 1..MaxEpoch /\ serving' \in BOOLEAN /\ pending' \in 0..MaxRequests
        /\ opened' \in {"none", "ok", "E_INSTANCE_NOT_FOUND", "E_AUTH_FAILED",
                        "E_COMMAND_TIMEOUT", "E_EMACS_DISCONNECTED"}
        /\ link' \in BOOLEAN /\ late' \in BOOLEAN /\ (link' => client'.connected /\ Cached')
        /\ link' => serving'
    BY <2>1, <2>3 DEF Typed, TypeOK
  <2>8. /\ stack' \in Seq([data : Seq(Piece), busy : 0..MaxRequests])
        /\ \A n \in 1..(Len(stack') - 1) : stack'[n].busy # 0
    BY <2>1 DEF Typed, TypeOK
  <2> QED
    BY <2>3, <2>5, <2>6, <2>7, <2>8 DEF Typed, TypeOK
<1>2. CASE NotFound \/ ConnectFails \/ Reopen
  <2>1. opened' \in {"none", "ok", "E_INSTANCE_NOT_FOUND", "E_AUTH_FAILED",
                     "E_COMMAND_TIMEOUT", "E_EMACS_DISCONNECTED"}
    BY <1>2 DEF NotFound, ConnectFails, Reopen
  <2>2. UNCHANGED <<epoch, serving, client, pending, link, toEmacs, toClient, kept, stack,
                    sent, slow, started, late>>
    BY <1>2 DEF NotFound, ConnectFails, Reopen, filterVars, history
  <2> QED
    BY <2>1, <2>2 DEF Typed, TypeOK, Cached
<1>3. CASE Receive
  <2>1. Tail(toClient) \in Seq(Requests) /\ Head(toClient) \in Requests
    BY <1>3 DEF Typed, TypeOK, Receive
  <2> QED
    BY <1>3, <2>1 DEF Typed, TypeOK, Receive, Cached, filterVars, history
<1>4. CASE Timeout
  BY <1>4 DEF Typed, TypeOK, Timeout, Cached, filterVars
<1>5. CASE OnClose
  <2>1. /\ ~link /\ pending' = 0 /\ client' = [client EXCEPT !.connected = FALSE]
        /\ UNCHANGED <<epoch, serving, opened, link, toEmacs, toClient, kept, stack,
                       sent, slow, started, late>>
    BY <1>5 DEF OnClose, filterVars, history
  <2>2. client' \in [epoch : 0..MaxEpoch, connected : BOOLEAN]
    BY <2>1 DEF Typed, TypeOK
  <2> QED
    BY <2>1, <2>2 DEF Typed, TypeOK
<1>6. CASE BridgeStart
  BY <1>6 DEF Typed, TypeOK, BridgeStart, Cached, nodeVars, filterVars, history
<1> QED
  BY <1>1, <1>2, <1>3, <1>4, <1>5, <1>6

LEMMA FrameTypes ==
  ASSUME NEW r \in Requests
  PROVE  /\ Frame(r) \in Seq(Piece) /\ Len(Frame(r)) = 2
         /\ Frame(r)[1] = [req |-> r, half |-> 1] /\ Frame(r)[2] = [req |-> r, half |-> 2]
<1>1. [req |-> r, half |-> 1] \in Piece /\ [req |-> r, half |-> 2] \in Piece
  BY DEF Piece
<1> QED
  BY <1>1, Pair DEF Frame

LEMMA SendTypes ==
  ASSUME Typed, Send
  PROVE  Typed' /\ sent + 1 \in Requests
<1> USE ConnectionAssumption
<1>1. sent + 1 \in Requests /\ sent \in Nat
  BY DEF Typed, TypeOK, Send, Requests
<1>2. toEmacs' \in Seq(Piece)
  BY <1>1, FrameTypes, Joined DEF Typed, TypeOK, Send, Transmit
<1>3. /\ sent' = sent + 1 /\ pending' = sent + 1
      /\ UNCHANGED <<epoch, serving, client, opened, link, toClient, kept, stack, started, late>>
  BY DEF Send, Transmit, filterVars
<1>4. slow' \in SUBSET (1..sent')
  BY <1>1, <1>3 DEF Send, Transmit, Typed, TypeOK
<1> QED
  BY <1>1, <1>2, <1>3, <1>4 DEF Typed, TypeOK, Requests, Cached

LEMMA StopTypes ==
  ASSUME Typed, BridgeStop
  PROVE  Typed'
<1>1. PICK n \in 0..Len(toClient) : toClient' = SubSeq(toClient, 1, n)
  BY DEF BridgeStop
<1>2. toClient' \in Seq(Requests)
  <2>1. n \in Int /\ \A i \in 1..n : toClient[i] \in Requests
    BY LenProperties, ElementOfSeq DEF Typed, TypeOK
  <2> QED
    BY <1>1, <2>1, SubSeqProperties
<1>3. /\ serving' = FALSE /\ link' = FALSE
      /\ toEmacs' = <<>> /\ kept' = <<>> /\ stack' = <<>>
      /\ UNCHANGED <<epoch, client, pending, opened, sent, slow, started, late>>
  BY DEF BridgeStop, nodeVars, history
<1>4. \A S : <<>> \in Seq(S)
  BY EmptySeq
<1>5. \A k \in 1..(Len(stack') - 1) : stack'[k].busy # 0
  BY <1>3
<1> QED
  BY <1>2, <1>3, <1>4, <1>5 DEF Typed, TypeOK

\* The filter's steps change the filter's variables, the replies and, when it
\* fails, the link.
LEMMA FilterTypes ==
  ASSUME Typed,
         UNCHANGED <<epoch, serving, client, pending, opened, sent, slow, late>>,
         link' = link \/ link' = FALSE,
         toEmacs' \in Seq(Piece), kept' \in Seq(Piece), toClient' \in Seq(Requests),
         started' \in Seq(Requests), stack' \in Seq(Activation), Waits(stack')
  PROVE  Typed'
<1>1. link' => client'.connected /\ Cached'
  BY DEF Typed, TypeOK, Cached
<1>2. stack' \in Seq([data : Seq(Piece), busy : 0..MaxRequests])
  BY DEF Activation
<1>3. \A n \in 1..(Len(stack') - 1) : stack'[n].busy # 0
  BY DEF Waits
<1>4. link' \in BOOLEAN /\ serving' \in BOOLEAN /\ (link' => serving')
  <2>1. link \in BOOLEAN /\ serving \in BOOLEAN /\ (link => serving) /\ serving' = serving
    BY DEF Typed, TypeOK
  <2>2. CASE link' = link
    BY <2>1, <2>2
  <2>3. CASE link' = FALSE
    BY <2>1, <2>3
  <2> QED
    BY <2>2, <2>3
<1>5. /\ epoch' \in 1..MaxEpoch /\ client' \in [epoch : 0..MaxEpoch, connected : BOOLEAN]
      /\ pending' \in 0..MaxRequests
      /\ opened' \in {"none", "ok", "E_INSTANCE_NOT_FOUND", "E_AUTH_FAILED",
                      "E_COMMAND_TIMEOUT", "E_EMACS_DISCONNECTED"}
      /\ late' \in BOOLEAN /\ sent' \in 0..MaxRequests /\ slow' \in SUBSET (1..sent')
  BY DEF Typed, TypeOK
<1> QED
  BY <1>1, <1>2, <1>3, <1>4, <1>5 DEF Typed, TypeOK

LEMMA Replied ==
  ASSUME Typed, NEW r \in Requests, Reply(r)
  PROVE  toClient' \in Seq(Requests)
BY AppendProperties DEF Typed, TypeOK, Reply

LEMMA BeginTypes ==
  ASSUME Typed, FilterBegin
  PROVE  /\ Typed'
         /\ \E n \in 1..Len(toEmacs) :
               LET c == SubSeq(toEmacs, 1, n) IN
               /\ c \in Seq(Piece) /\ Len(c) = n /\ \A i \in 1..n : c[i] = toEmacs[i]
               /\ toEmacs' = SubSeq(toEmacs, n + 1, Len(toEmacs))
               /\ stack' = Append(stack, [data |-> kept \o c, busy |-> 0])
               /\ [data |-> kept \o c, busy |-> 0] \in Activation
<1>1. PICK n \in 1..Len(toEmacs) :
          /\ stack' = Append(stack, [data |-> kept \o SubSeq(toEmacs, 1, n), busy |-> 0])
          /\ toEmacs' = SubSeq(toEmacs, n + 1, Len(toEmacs))
  BY DEF FilterBegin
<1> DEFINE c == SubSeq(toEmacs, 1, n)
           a == [data |-> kept \o c, busy |-> 0]
<1>2. toEmacs \in Seq(Piece) /\ kept \in Seq(Piece) /\ Len(toEmacs) \in Nat /\ stack \in Seq(Activation)
  BY LenProperties DEF Typed, TypeOK, Activation
<1>3. c \in Seq(Piece) /\ Len(c) = n /\ \A i \in 1..n : c[i] = toEmacs[i]
  <2>1. n \in Int /\ 1 <= n /\ \A i \in 1..n : toEmacs[i] \in Piece
    BY <1>2, ElementOfSeq
  <2>2. c \in Seq(Piece) /\ Len(c) = IF 1 <= n THEN n - 1 + 1 ELSE 0
    BY <2>1, SubSeqProperties
  <2>3. \A i \in 1..(n - 1 + 1) : c[i] = toEmacs[1 + i - 1]
    BY <2>1, SubSeqProperties
  <2> HIDE DEF c
  <2>4. ASSUME NEW i \in 1..n PROVE c[i] = toEmacs[i]
    <3>1. i \in 1..(n - 1 + 1) /\ 1 + i - 1 = i
      BY <2>1
    <3> QED
      BY <2>3, <3>1
  <2>5. Len(c) = n
    BY <2>1, <2>2
  <2> QED
    BY <2>2, <2>4, <2>5
<1>4. toEmacs' \in Seq(Piece)
  <2>1. n \in Nat
    BY <1>2
  <2> QED
    BY <1>1, <1>2, <2>1, Cut
<1> HIDE DEF c
<1>5. a \in Activation
  <2>1. kept \o c \in Seq(Piece)
    BY <1>2, <1>3, Joined
  <2> QED
    BY <2>1, ConnectionAssumption DEF Activation
<1> HIDE DEF a
<1>6. stack' = Append(stack, a)
  BY <1>1 DEF a, c
<1>7. /\ stack' \in Seq(Activation) /\ Len(stack') = Len(stack) + 1 /\ Len(stack) \in Nat
      /\ \A i \in 1..Len(stack) : stack'[i] = stack[i]
  BY <1>2, <1>5, <1>6, AppendProperties, LenProperties
<1>8. Waits(stack')
  <2>1. CASE stack = <<>>
    BY <1>7, <2>1 DEF Waits
  <2>2. CASE stack # <<>>
    <3>1. stack[Len(stack)].busy # 0 /\ Len(stack) # 0
      BY <1>2, <2>2 DEF FilterBegin, Top
    <3>2. ASSUME NEW i \in 1..Len(stack) PROVE stack[i].busy # 0
      <4>1. i = Len(stack) \/ i \in 1..(Len(stack) - 1)
        BY <1>7
      <4> QED
        BY <3>1, <4>1 DEF Typed, TypeOK
    <3>3. Len(stack') - 1 = Len(stack)
      BY <1>7
    <3> QED
      BY <1>7, <3>2, <3>3 DEF Waits
  <2> QED
    BY <2>1, <2>2
<1>9. Typed'
  BY <1>2, <1>4, <1>7, <1>8, FilterTypes DEF FilterBegin, nodeVars, history, Typed, TypeOK
<1> QED
  BY <1>1, <1>3, <1>5, <1>6, <1>9 DEF a, c

-----------------------------------------------------------------------------
(* Frames.                                                                 *)

LEMMA WaitingTypes ==
  ASSUME Typed
  PROVE  sent \in Nat /\ Waiting \subseteq 1..sent
BY ConnectionAssumption DEF Typed, TypeOK, Waiting

\* Some activations are gone, or all that was to be read.
LEMMA FewerFrames ==
  ASSUME IInv, Typed', UNCHANGED <<started, sent>>,
         toEmacs' = toEmacs \/ toEmacs' = <<>>,
         Len(stack') <= Len(stack),
         \A n \in 1..Len(stack') : stack'[n].data = stack[n].data,
         ~Parsable(kept')
  PROVE  IInv'
<1>1. Waiting' = Waiting
  BY DEF Waiting
<1>2. Once(toEmacs', 1) /\ Unstarted(toEmacs', 1, Waiting)
  <2>1. CASE toEmacs' = toEmacs
    BY <2>1 DEF IInv
  <2>2. CASE toEmacs' = <<>>
    BY <2>2 DEF Ends, Once, Unstarted
  <2> QED
    BY <2>1, <2>2
<1>3. \A d : Sound(d, Waiting, toEmacs) => Sound(d, Waiting, toEmacs')
  <2>1. CASE toEmacs' = toEmacs
    BY <2>1
  <2>2. CASE toEmacs' = <<>>
    BY <2>2 DEF Ends, Apart, Sound
  <2> QED
    BY <2>1, <2>2
<1>4. Len(stack) \in Nat /\ Len(stack') \in Nat
  BY LenProperties DEF Typed, TypeOK, IInv
<1>5. StackInv(stack', Waiting, toEmacs')
  <2> SUFFICES ASSUME NEW n \in 1..Len(stack'), ~Stuck(stack'[n].data)
               PROVE  /\ Sound(stack'[n].data, Waiting, toEmacs')
                      /\ \A m \in 1..Len(stack') : m # n /\ ~Stuck(stack'[m].data) =>
                            Apart(stack'[n].data, 2, stack'[m].data, 2)
    BY DEF StackInv
  <2>1. \A m \in 1..Len(stack') : m \in 1..Len(stack)
    BY <1>4
  <2>2. Sound(stack[n].data, Waiting, toEmacs)
        /\ \A m \in 1..Len(stack) : m # n /\ ~Stuck(stack[m].data) =>
              Apart(stack[n].data, 2, stack[m].data, 2)
    BY <2>1 DEF IInv, StackInv
  <2> QED
    BY <1>3, <2>1, <2>2
<1> QED
  BY <1>1, <1>2, <1>5 DEF IInv, Typed, NothingRunsTwice

LEMMA EmptyData == ~Parsable(<<>>) /\ <<>> \in Seq(Piece)
<1>1. <<>> \in Seq(Piece) /\ Len(<<>>) = 0
  BY EmptySeq
<1>2. Skipped(<<>>) = 0
  BY DEF Skipped
<1>3. Parsable(<<>>) => Len(<<>>) >= 0 + 2
  BY <1>1, <1>2, ParsableAt
<1>4. ~(0 >= 0 + 2)
  OBVIOUS
<1> QED
  BY <1>1, <1>3, <1>4

LEMMA NodeStep ==
  ASSUME IInv,
         \/ NotFound \/ Connect \/ ConnectFails \/ Reopen
         \/ Receive \/ Timeout \/ OnClose \/ BridgeStart \/ BridgeStop
  PROVE  IInv'
<1>1. Typed /\ Typed'
  BY NodeTypes, StopTypes DEF IInv, Typed
<1>2. CASE \/ NotFound \/ ConnectFails \/ Reopen
           \/ Receive \/ Timeout \/ OnClose \/ BridgeStart
  <2>1. UNCHANGED <<toEmacs, kept, stack, started, sent>>
    BY <1>2 DEF NotFound, ConnectFails, Reopen, Receive, Timeout, OnClose, BridgeStart,
                nodeVars, filterVars, history
  <2>2. Len(stack) <= Len(stack)
    BY LenProperties DEF IInv, TypeOK
  <2> QED
    BY <1>1, <2>1, <2>2, FewerFrames DEF IInv
<1>3. CASE BridgeStop
  <2>1. /\ toEmacs' = <<>> /\ kept' = <<>> /\ stack' = <<>> /\ UNCHANGED <<started, sent>>
    BY <1>3 DEF BridgeStop, history
  <2>2. Len(stack') <= Len(stack) /\ \A n \in 1..Len(stack') : stack'[n].data = stack[n].data
    BY <2>1, LenProperties DEF IInv, TypeOK
  <2> QED
    BY <1>1, <2>1, <2>2, EmptyData, FewerFrames
<1>4. CASE Connect
  <2>1. /\ toEmacs' = <<>> /\ kept' = <<>> /\ stack' = <<>> /\ started' = <<>>
    BY <1>4 DEF Connect
  <2> QED
    BY <1>1, <2>1, EmptyData DEF IInv, Typed, NothingRunsTwice, IsInjective, Once, Unstarted, Ends, StackInv
<1> QED
  BY <1>2, <1>3, <1>4

LEMMA FilterStep ==
  ASSUME IInv, Finish \/ FilterEnd \/ FilterError
  PROVE  IInv'
<1>1. Typed /\ stack # <<>>
  BY DEF IInv, Typed, Finish, FilterEnd, FilterError, InLoop
<1>2. /\ Len(stack) \in Nat \ {0} /\ Top = stack[Len(stack)]
      /\ Top \in Activation /\ Top.data \in Seq(Piece) /\ Top.busy \in 0..MaxRequests
  BY <1>1, StackTop DEF Typed
<1>3. CASE Finish
  <2> DEFINE a == [Top EXCEPT !.busy = 0]
  <2>1. Top.busy \in Requests /\ Reply(Top.busy) /\ stack' = Append(Pop, a)
    BY <1>2, <1>3 DEF Finish, Requests
  <2>2. /\ UNCHANGED <<epoch, serving, client, pending, opened, link, toEmacs, kept,
                      sent, slow, started, late>>
    BY <1>3 DEF Finish, nodeVars, history
  <2>3. a \in Activation /\ a.data = Top.data
    BY <1>2, ConnectionAssumption DEF Activation
  <2> HIDE DEF a
  <2>4. /\ stack' \in Seq(Activation) /\ Len(stack') = Len(stack) /\ stack'[Len(stack)] = a
        /\ \A n \in 1..(Len(stack) - 1) : stack'[n] = stack[n]
        /\ Waits(stack')
    BY <1>1, <2>1, <2>3, TopTypes, Zenon
  <2>5. toClient' \in Seq(Requests)
    BY <1>1, <2>1, Replied
  <2>6. Typed'
    BY <1>1, <2>2, <2>4, <2>5, FilterTypes DEF Typed, TypeOK
  <2>7. ASSUME NEW n \in 1..Len(stack') PROVE stack'[n].data = stack[n].data
    <3>1. n = Len(stack) \/ n \in 1..(Len(stack) - 1)
      BY <1>2, <2>4
    <3> QED
      BY <1>2, <2>3, <2>4, <3>1
  <2>8. Len(stack') <= Len(stack)
    BY <1>2, <2>4
  <2> QED
    BY <2>2, <2>6, <2>7, <2>8, FewerFrames DEF IInv
<1>4. CASE FilterEnd \/ FilterError
  <2>2. /\ UNCHANGED <<epoch, serving, client, pending, opened, toClient, sent, slow, started, late>>
        /\ link' = link \/ link' = FALSE
        /\ stack' = Pop /\ (toEmacs' = toEmacs \/ toEmacs' = <<>>)
        /\ kept' = kept \/ (kept' = Top.data /\ ~Parsable(Top.data))
    BY <1>4 DEF FilterEnd, FilterError, nodeVars, history
  <2>3. /\ Pop \in Seq(Activation) /\ Len(Pop) = Len(stack) - 1
        /\ \A n \in 1..Len(Pop) : Pop[n] = stack[n]
        /\ Waits(Pop)
    BY <1>1, PopTypes DEF Typed
  <2>4. kept' \in Seq(Piece) /\ toEmacs' \in Seq(Piece) /\ ~Parsable(kept')
    BY <1>1, <1>2, <2>2, EmptyData DEF IInv, Typed, TypeOK
  <2>5. Typed'
    BY <1>1, <2>2, <2>3, <2>4, FilterTypes DEF Typed, TypeOK
  <2>6. Len(stack') <= Len(stack) /\ \A n \in 1..Len(stack') : stack'[n].data = stack[n].data
    BY <1>2, <2>2, <2>3
  <2> QED
    BY <2>2, <2>4, <2>5, <2>6, FewerFrames
<1> QED
  BY <1>3, <1>4

\* A request is sent: it is larger than any before.
LEMMA SendStep ==
  ASSUME IInv, Send
  PROVE  IInv'
<1> DEFINE r == sent + 1
<1>1. Typed /\ Typed' /\ r \in Requests /\ sent \in Nat
  BY SendTypes, WaitingTypes DEF IInv, Typed
<1>2. /\ sent' = r /\ UNCHANGED <<kept, stack, started>>
      /\ toEmacs' = toEmacs \/ toEmacs' = toEmacs \o Frame(r)
  BY DEF Send, Transmit, filterVars
<1>3. /\ toEmacs \in Seq(Piece) /\ Len(toEmacs) \in Nat
      /\ \A n \in 1..Len(started) : started[n] \in 1..sent
  BY <1>1, LenProperties DEF IInv, TypeOK
<1>4. Waiting \subseteq 1..sent /\ Waiting' = Waiting \cup {r}
  BY <1>1, <1>2, <1>3, WaitingTypes DEF Waiting
<1> HIDE DEF r
<1>5. r \notin Waiting
  BY <1>1, <1>4 DEF r
<1>6. \A i \in Ends(toEmacs', 1) :
          \/ i \in Ends(toEmacs, 1) /\ toEmacs'[i] = toEmacs[i]
          \/ i = Len(toEmacs) + 2 /\ toEmacs'[i].req = r
  <2>1. CASE toEmacs' = toEmacs
    BY <2>1
  <2>2. CASE toEmacs' = toEmacs \o Frame(r)
    <3>1. /\ Frame(r) \in Seq(Piece) /\ Len(Frame(r)) = 2
          /\ Frame(r)[1].half = 1 /\ Frame(r)[2].req = r
      <4>1. /\ Frame(r) \in Seq(Piece) /\ Len(Frame(r)) = 2
            /\ Frame(r)[1] = [req |-> r, half |-> 1] /\ Frame(r)[2] = [req |-> r, half |-> 2]
        BY <1>1, FrameTypes
      <4> QED
        BY <4>1
    <3>2. /\ Len(toEmacs') = Len(toEmacs) + 2
          /\ \A i \in 1..Len(toEmacs) : toEmacs'[i] = toEmacs[i]
          /\ \A i \in 1..2 : toEmacs'[Len(toEmacs) + i] = Frame(r)[i]
      <4>1. toEmacs \in Seq(Piece) /\ Frame(r) \in Seq(Piece)
        BY <1>3, <3>1
      <4>2. /\ Len(toEmacs \o Frame(r)) = Len(toEmacs) + Len(Frame(r))
            /\ \A i \in 1..Len(toEmacs) : (toEmacs \o Frame(r))[i] = toEmacs[i]
            /\ \A i \in 1..Len(Frame(r)) : (toEmacs \o Frame(r))[Len(toEmacs) + i] = Frame(r)[i]
        BY <4>1, Joined
      <4> QED
        BY <2>2, <3>1, <4>2
    <3>3. toEmacs'[Len(toEmacs) + 1].half = 1 /\ toEmacs'[Len(toEmacs) + 2].req = r
      BY <3>1, <3>2
    <3> QED
      BY <1>3, <3>2, <3>3 DEF Ends
  <2> QED
    BY <1>2, <2>1, <2>2
<1>7. Unstarted(toEmacs', 1, Waiting')
  BY <1>4, <1>6 DEF IInv, Unstarted
<1>8. Once(toEmacs', 1)
  <2> SUFFICES ASSUME NEW i \in Ends(toEmacs', 1), NEW j \in Ends(toEmacs', 1),
                      toEmacs'[i].req = toEmacs'[j].req
               PROVE  i = j
    BY DEF Once
  <2>1. \A k \in Ends(toEmacs, 1) : toEmacs[k].req # r
    BY <1>5 DEF IInv, Unstarted
  <2>2. CASE i \in Ends(toEmacs, 1) /\ toEmacs'[i] = toEmacs[i]
    BY <1>6, <2>1, <2>2 DEF IInv, Once
  <2>3. CASE i = Len(toEmacs) + 2 /\ toEmacs'[i].req = r
    BY <1>6, <2>1, <2>3
  <2> QED
    BY <1>6, <2>2, <2>3
<1>9. ASSUME NEW d, Sound(d, Waiting, toEmacs) PROVE Sound(d, Waiting', toEmacs')
  <2>1. Unstarted(d, 2, Waiting')
    BY <1>4, <1>9 DEF Sound, Unstarted
  <2>2. Apart(d, 2, toEmacs', 1)
    <3>1. \A i \in Ends(d, 2) : d[i].req # r
      BY <1>5, <1>9 DEF Sound, Unstarted
    <3> QED
      BY <1>6, <1>9, <3>1 DEF Sound, Apart
  <2> QED
    BY <1>9, <2>1, <2>2 DEF Sound
<1>10. StackInv(stack', Waiting', toEmacs')
  BY <1>2, <1>9 DEF IInv, StackInv
<1>11. \A n \in 1..Len(started) : started[n] \in 1..sent'
  BY <1>1, <1>2, <1>3 DEF r
<1> QED
  BY <1>1, <1>2, <1>7, <1>8, <1>10, <1>11 DEF IInv, Typed, NothingRunsTwice

\* The filter is entered: what it may dispatch has just been read.
LEMMA BeginStep ==
  ASSUME IInv, FilterBegin
  PROVE  IInv'
<1>1. Typed /\ Typed'
  BY BeginTypes DEF IInv, Typed
<1>2. PICK n \in 1..Len(toEmacs) :
          LET c == SubSeq(toEmacs, 1, n) IN
          /\ c \in Seq(Piece) /\ Len(c) = n /\ \A i \in 1..n : c[i] = toEmacs[i]
          /\ toEmacs' = SubSeq(toEmacs, n + 1, Len(toEmacs))
          /\ stack' = Append(stack, [data |-> kept \o c, busy |-> 0])
          /\ [data |-> kept \o c, busy |-> 0] \in Activation
  BY <1>1, BeginTypes
<1> DEFINE c == SubSeq(toEmacs, 1, n)
           d == kept \o c
<1>3. c \in Seq(Piece) /\ Len(c) = n /\ \A i \in 1..n : c[i] = toEmacs[i]
  BY <1>2
<1>4. /\ toEmacs \in Seq(Piece) /\ kept \in Seq(Piece) /\ stack \in Seq(Activation)
      /\ Len(toEmacs) \in Nat /\ Len(kept) \in Nat /\ Len(stack) \in Nat /\ n \in Nat
  BY <1>1, LenProperties DEF Typed, TypeOK, Activation
<1>5. UNCHANGED <<kept, started, sent>> /\ Waiting' = Waiting
  BY DEF FilterBegin, history, Waiting
<1>6. /\ Len(toEmacs') = Len(toEmacs) - n
      /\ \A i \in 1..Len(toEmacs') : toEmacs'[i] = toEmacs[i + n]
  <2>1. toEmacs' = SubSeq(toEmacs, n + 1, Len(toEmacs)) /\ n <= Len(toEmacs)
    BY <1>2, <1>4
  <2> HIDE DEF c
  <2>2. /\ Len(toEmacs') = IF n <= Len(toEmacs) THEN Len(toEmacs) - n ELSE 0
        /\ \A i \in 1..Len(toEmacs') : toEmacs'[i] = toEmacs[i + n]
    BY <1>4, <2>1, Cut
  <2> QED
    BY <2>1, <2>2
<1>7. \A i \in Ends(toEmacs', 1) : i + n \in Ends(toEmacs, 1) /\ toEmacs'[i] = toEmacs[i + n]
  BY <1>4, <1>6 DEF Ends
<1>8. Unstarted(toEmacs', 1, Waiting') /\ Once(toEmacs', 1)
  <2>1. Unstarted(toEmacs', 1, Waiting')
    BY <1>5, <1>7 DEF IInv, Unstarted
  <2>2. ASSUME NEW i \in Ends(toEmacs', 1), NEW j \in Ends(toEmacs', 1),
               toEmacs'[i].req = toEmacs'[j].req
        PROVE  i = j
    <3>1. i + n = j + n
      BY <1>7, <2>2 DEF IInv, Once
    <3>2. i \in Nat /\ j \in Nat
      BY <1>4, <1>6 DEF Ends
    <3> QED
      BY <1>4, <3>1, <3>2
  <2> QED
    BY <2>1, <2>2 DEF Once
<1>9. \A e : Sound(e, Waiting, toEmacs) => Sound(e, Waiting', toEmacs')
  BY <1>5, <1>7 DEF Sound, Apart
<1>10. ASSUME ~Stuck(d)
       PROVE  \A i \in Ends(d, 2) : /\ i - Len(kept) \in Ends(toEmacs, 1)
                                    /\ i - Len(kept) <= n
                                    /\ d[i] = toEmacs[i - Len(kept)]
  <2>1. Ends(kept, 2) = {}
    BY <1>3, <1>4, <1>10, StuckStays DEF IInv, Stuck
  <2>2. /\ Len(d) = Len(kept) + n
        /\ \A i \in 1..Len(kept) : d[i] = kept[i]
        /\ \A i \in 1..n : d[Len(kept) + i] = c[i]
    <3>1. d = kept \o c
      OBVIOUS
    <3> HIDE DEF d, c
    <3> QED
      BY <1>3, <1>4, <3>1, Joined
  <2> HIDE DEF d, c
  <2> TAKE i \in Ends(d, 2)
  <2>3. i \in Nat /\ 2 <= i /\ i <= Len(kept) + n /\ d[i].half = 2
    BY <1>4, <2>2 DEF Ends
  <2>4. ASSUME i <= Len(kept) PROVE FALSE
    <3>1. i \in 1..Len(kept) /\ i \in 2..Len(kept)
      BY <1>4, <2>3, <2>4
    <3>2. kept[i].half = 2
      BY <2>2, <2>3, <3>1
    <3> QED
      BY <2>1, <3>1, <3>2 DEF Ends
  <2>5. /\ i - Len(kept) \in 1..n /\ i = Len(kept) + (i - Len(kept))
        /\ i - Len(kept) \in 1..Len(toEmacs) /\ i - Len(kept) <= n
    BY <1>4, <2>3, <2>4
  <2>6. d[i] = toEmacs[i - Len(kept)]
    BY <1>3, <2>2, <2>5
  <2> QED
    BY <2>3, <2>5, <2>6 DEF Ends
<1>11. ASSUME ~Stuck(d)
       PROVE  /\ Sound(d, Waiting', toEmacs')
              /\ \A e : Sound(e, Waiting, toEmacs) => Apart(e, 2, d, 2) /\ Apart(d, 2, e, 2)
  <2> HIDE DEF d
  <2>1. \A i \in Ends(d, 2) : /\ i - Len(kept) \in Ends(toEmacs, 1)
                              /\ i - Len(kept) <= n /\ i \in Nat
                              /\ d[i] = toEmacs[i - Len(kept)]
    BY <1>10, <1>11 DEF Ends
  <2>2. Unstarted(d, 2, Waiting')
    BY <1>5, <2>1 DEF IInv, Unstarted
  <2>3. ASSUME NEW i \in Ends(d, 2), NEW j \in Ends(d, 2), d[i].req = d[j].req
        PROVE  i = j
    <3>1. i - Len(kept) = j - Len(kept) /\ i \in Nat /\ j \in Nat
      BY <2>1, <2>3 DEF IInv, Once
    <3> QED
      BY <1>4, <3>1
  <2>4. ASSUME NEW i \in Ends(d, 2), NEW j \in Ends(toEmacs', 1), d[i].req = toEmacs'[j].req
        PROVE  FALSE
    <3>1. i - Len(kept) = j + n
      BY <1>7, <2>1, <2>4 DEF IInv, Once
    <3>2. j \in Nat /\ j >= 1 /\ i - Len(kept) <= n
      BY <1>6, <2>1 DEF Ends
    <3> QED
      BY <1>4, <2>1, <3>1, <3>2
  <2>5. \A e : Sound(e, Waiting, toEmacs) => Apart(e, 2, d, 2) /\ Apart(d, 2, e, 2)
    BY <2>1 DEF Sound, Apart
  <2> QED
    BY <2>2, <2>3, <2>4, <2>5 DEF Sound, Once, Apart
<1> DEFINE a == [data |-> d, busy |-> 0]
<1>12. /\ Len(stack') = Len(stack) + 1 /\ stack'[Len(stack) + 1].data = d
       /\ \A m \in 1..Len(stack) : stack'[m] = stack[m]
  <2>1. stack' = Append(stack, a) /\ a \in Activation /\ a.data = d
    BY <1>2
  <2> HIDE DEF a
  <2> QED
    BY <1>4, <2>1, AppendProperties
<1> HIDE DEF d
<1>13. StackInv(stack', Waiting', toEmacs')
  <2> SUFFICES ASSUME NEW m \in 1..Len(stack'), ~Stuck(stack'[m].data)
               PROVE  /\ Sound(stack'[m].data, Waiting', toEmacs')
                      /\ \A k \in 1..Len(stack') : k # m /\ ~Stuck(stack'[k].data) =>
                            Apart(stack'[m].data, 2, stack'[k].data, 2)
    BY DEF StackInv
  <2>1. \A k \in 1..Len(stack') : k \in 1..Len(stack) \/ k = Len(stack) + 1
    BY <1>4, <1>12
  <2>2. \A k \in 1..Len(stack) : ~Stuck(stack[k].data) => Sound(stack[k].data, Waiting, toEmacs)
    BY DEF IInv, StackInv
  <2>3. CASE m \in 1..Len(stack)
    <3>1. Sound(stack[m].data, Waiting, toEmacs)
      BY <1>12, <2>2, <2>3
    <3>2. ASSUME NEW k \in 1..Len(stack'), k # m, ~Stuck(stack'[k].data)
          PROVE  Apart(stack'[m].data, 2, stack'[k].data, 2)
      <4>1. CASE k \in 1..Len(stack)
        BY <1>12, <2>3, <3>2, <4>1 DEF IInv, StackInv
      <4>2. CASE k = Len(stack) + 1
        BY <1>11, <1>12, <2>3, <3>1, <3>2, <4>2
      <4> QED
        BY <2>1, <4>1, <4>2
    <3> QED
      BY <1>9, <1>12, <2>3, <3>1, <3>2
  <2>4. CASE m = Len(stack) + 1
    <3>1. \A k \in 1..Len(stack') : k # m => k \in 1..Len(stack)
      BY <2>1, <2>4
    <3> QED
      BY <1>11, <1>12, <2>2, <2>4, <3>1
  <2> QED
    BY <2>1, <2>3, <2>4
<1> QED
  BY <1>1, <1>5, <1>8, <1>13 DEF IInv, Typed, NothingRunsTwice

\* A frame is dispatched: nobody else has its end, nor has its own activation
\* any longer.
LEMMA DispatchStep ==
  ASSUME IInv, Dispatch
  PROVE  IInv'
<1> DEFINE d == Top.data
           k == Skipped(d)
           r == d[k + 1].req
           e == SubSeq(d, k + 3, Len(d))
           a == [data |-> e, busy |-> IF r \in slow THEN r ELSE 0]
           top == Len(stack)
<1>1. Typed /\ stack # <<>>
  BY DEF IInv, Typed, Dispatch, InLoop
<1>2. /\ top \in Nat \ {0} /\ Top = stack[top] /\ d \in Seq(Piece) /\ Len(d) \in Nat
      /\ Parsable(d)
  BY <1>1, StackTop, LenProperties DEF Typed, Dispatch
<1>3. /\ k \in {0, 1} /\ Len(d) >= k + 2 /\ d[k + 2].half = 2 /\ d[k + 2].req = r
  BY <1>2, ParsableAt
<1>4. /\ started' = Append(started, r) /\ stack' = Append(Pop, a)
      /\ toClient' = toClient \/ Reply(r)
      /\ UNCHANGED <<epoch, serving, client, pending, opened, link, toEmacs, kept, sent, slow, late>>
  BY DEF Dispatch, nodeVars
<1> HIDE DEF d, k, a
<1>5. k + 2 \in Ends(d, 2) /\ r \in Requests
  <2>1. k + 2 \in 2..Len(d) /\ k + 2 \in 1..Len(d)
    BY <1>2, <1>3
  <2>2. d[k + 2] \in Piece
    BY <1>2, <2>1, ElementOfSeq
  <2> QED
    BY <1>3, <2>1, <2>2 DEF Ends, Piece
<1> HIDE DEF r
<1>6. /\ e \in Seq(Piece) /\ \A i \in Ends(e, 2) : /\ i + k + 2 \in Ends(d, 2) /\ i + k + 2 # k + 2
                                                   /\ e[i] = d[i + k + 2]
  <2>1. k + 2 \in Nat /\ e = SubSeq(d, (k + 2) + 1, Len(d)) /\ k + 2 <= Len(d)
    BY <1>2, <1>3
  <2> HIDE DEF e
  <2>2. /\ e \in Seq(Piece) /\ Len(e) = IF k + 2 <= Len(d) THEN Len(d) - (k + 2) ELSE 0
        /\ \A i \in 1..Len(e) : e[i] = d[i + (k + 2)]
    BY <1>2, <2>1, Cut
  <2>3. Len(e) = Len(d) - (k + 2)
    BY <2>1, <2>2
  <2>4. ASSUME NEW i \in Ends(e, 2)
        PROVE  i + k + 2 \in Ends(d, 2) /\ i + k + 2 # k + 2 /\ e[i] = d[i + k + 2]
    <3>1. i \in Nat /\ 2 <= i /\ i <= Len(d) - (k + 2) /\ e[i].half = 2 /\ i \in 1..Len(e)
      BY <1>2, <1>3, <2>3 DEF Ends
    <3>2. i + (k + 2) = i + k + 2 /\ i + k + 2 \in 2..Len(d) /\ i + k + 2 # k + 2
      BY <1>2, <1>3, <3>1
    <3> QED
      BY <2>2, <3>1, <3>2 DEF Ends
  <2> QED
    BY <2>2, <2>4
<1>7. /\ Once(d, 2) /\ Unstarted(d, 2, Waiting) /\ Apart(d, 2, toEmacs, 1)
      /\ \A m \in 1..top : m # top /\ ~Stuck(stack[m].data) => Apart(d, 2, stack[m].data, 2)
                                                            /\ Apart(stack[m].data, 2, d, 2)
  <2>1. ~Stuck(d) /\ top \in 1..top /\ d = stack[top].data
    BY <1>2 DEF Stuck, d
  <2> QED
    BY <2>1 DEF IInv, StackInv, Sound
<1>8. /\ r \in Waiting /\ Waiting' = Waiting \ {r}
      /\ NothingRunsTwice' /\ \A n \in 1..Len(started') : started'[n] \in 1..sent
      /\ started' \in Seq(Requests)
  <2>1. r \in Waiting
    BY <1>3, <1>5, <1>7 DEF Unstarted
  <2>2. /\ started' \in Seq(Requests) /\ Len(started') = Len(started) + 1 /\ Len(started) \in Nat
        /\ \A n \in 1..Len(started) : started'[n] = started[n]
        /\ started'[Len(started) + 1] = r
        /\ DOMAIN started = 1..Len(started) /\ DOMAIN started' = 1..Len(started')
    BY <1>1, <1>4, <1>5, AppendProperties, LenProperties DEF Typed, TypeOK
  <2>3. \A n \in 1..Len(started') : n \in 1..Len(started) \/ n = Len(started) + 1
    BY <2>2
  <2>4. Waiting' = Waiting \ {r}
    BY <1>4, <2>2, <2>3 DEF Waiting
  <2>5. NothingRunsTwice'
    BY <2>1, <2>2, <2>3 DEF IInv, NothingRunsTwice, IsInjective, Waiting
  <2>6. \A n \in 1..Len(started') : started'[n] \in 1..sent
    BY <2>1, <2>2, <2>3 DEF IInv, Waiting
  <2> QED
    BY <2>1, <2>2, <2>4, <2>5, <2>6
<1> HIDE DEF e
\* The end of the dispatched frame is the only one of its request.
<1>9. /\ \A i \in Ends(e, 2) : e[i].req # r
      /\ \A i \in Ends(toEmacs, 1) : toEmacs[i].req # r
      /\ \A m \in 1..top : m # top /\ ~Stuck(stack[m].data) =>
            \A i \in Ends(stack[m].data, 2) : stack[m].data[i].req # r
  BY <1>3, <1>5, <1>6, <1>7 DEF Once, Apart
<1>10. Unstarted(toEmacs', 1, Waiting')
  BY <1>4, <1>8, <1>9 DEF IInv, Unstarted
<1>11. Sound(e, Waiting', toEmacs')
  <2>1. Once(e, 2)
    <3> SUFFICES ASSUME NEW i \in Ends(e, 2), NEW j \in Ends(e, 2), e[i].req = e[j].req
                 PROVE  i = j
      BY DEF Once
    <3>1. i + k + 2 = j + k + 2
      BY <1>6, <1>7 DEF Once
    <3>2. i \in Nat /\ j \in Nat /\ k \in Nat
      BY <1>3, <1>6, LenProperties DEF Ends
    <3> QED
      BY <3>1, <3>2
  <2>2. Unstarted(e, 2, Waiting')
    BY <1>6, <1>7, <1>8, <1>9 DEF Unstarted
  <2>3. Apart(e, 2, toEmacs, 1)
    BY <1>6, <1>7 DEF Apart
  <2> QED
    BY <1>4, <2>1, <2>2, <2>3 DEF Sound
<1>12. a \in Activation /\ a.data = e
  BY <1>5, <1>6, ConnectionAssumption DEF Activation, a, Requests
<1>13. /\ stack' \in Seq(Activation) /\ Len(stack') = top /\ stack'[top].data = e
       /\ \A n \in 1..(top - 1) : stack'[n] = stack[n]
       /\ Waits(stack')
  <2>1. Typed /\ stack # <<>> /\ stack' = Append(Pop, a) /\ top = Len(stack)
    BY <1>1, <1>4 DEF top
  <2> QED
    BY <1>12, <2>1, TopTypes
<1>14. StackInv(stack', Waiting', toEmacs')
  <2> SUFFICES ASSUME NEW m \in 1..top, ~Stuck(stack'[m].data)
               PROVE  /\ Sound(stack'[m].data, Waiting', toEmacs')
                      /\ \A n \in 1..top : n # m /\ ~Stuck(stack'[n].data) =>
                            Apart(stack'[m].data, 2, stack'[n].data, 2)
    BY <1>13 DEF StackInv
  <2>1. \A n \in 1..top : n # top => n \in 1..(top - 1) /\ stack'[n] = stack[n]
    BY <1>2, <1>13
  <2>2. \A n \in 1..top : n # top /\ ~Stuck(stack[n].data) =>
            Apart(e, 2, stack[n].data, 2) /\ Apart(stack[n].data, 2, e, 2)
    BY <1>6, <1>7 DEF Apart
  <2>3. CASE m = top
    BY <1>11, <1>13, <2>1, <2>2, <2>3
  <2>4. CASE m # top
    <3>1. stack'[m] = stack[m] /\ Sound(stack[m].data, Waiting, toEmacs)
      BY <2>1, <2>4 DEF IInv, StackInv
    <3>2. Sound(stack[m].data, Waiting', toEmacs')
      BY <1>4, <1>8, <1>9, <2>4, <3>1 DEF Sound, Unstarted
    <3>3. ASSUME NEW n \in 1..top, n # m, ~Stuck(stack'[n].data)
          PROVE  Apart(stack[m].data, 2, stack'[n].data, 2)
      <4>1. CASE n = top
        BY <1>13, <2>2, <2>4, <3>1, <4>1
      <4>2. CASE n # top
        BY <2>1, <3>1, <3>3, <4>2 DEF IInv, StackInv
      <4> QED
        BY <4>1, <4>2
    <3> QED
      BY <3>1, <3>2, <3>3
  <2> QED
    BY <2>3, <2>4
<1>15. Typed'
  <2>1. toClient' \in Seq(Requests)
    BY <1>1, <1>4, <1>5, Replied DEF Typed, TypeOK
  <2> QED
    BY <1>1, <1>4, <1>8, <1>13, <2>1, FilterTypes DEF Typed, TypeOK
<1> QED
  BY <1>4, <1>8, <1>10, <1>14, <1>15 DEF IInv, Typed

-----------------------------------------------------------------------------
LEMMA InitIInv == Init => IInv
<1> SUFFICES ASSUME Init PROVE IInv
  OBVIOUS
<1>1. \A S : <<>> \in Seq(S)
  BY EmptySeq
<1>2. TypeOK
  <2>1. /\ client \in [epoch : 0..MaxEpoch, connected : BOOLEAN] /\ epoch \in 1..MaxEpoch
        /\ pending \in 0..MaxRequests /\ sent \in 0..MaxRequests /\ slow \in SUBSET (1..sent)
    BY ConnectionAssumption DEF Init
  <2>2. \A n \in 1..(Len(stack) - 1) : stack[n].busy # 0
    BY DEF Init
  <2>3. /\ toEmacs \in Seq(Piece) /\ kept \in Seq(Piece) /\ toClient \in Seq(Requests)
        /\ started \in Seq(Requests) /\ stack \in Seq([data : Seq(Piece), busy : 0..MaxRequests])
    BY <1>1 DEF Init
  <2> QED
    BY <2>1, <2>2, <2>3 DEF Init, TypeOK
<1> QED
  BY <1>2, EmptyData
  DEF Init, IInv, NothingRunsTwice, IsInjective, Once, Unstarted, Ends, StackInv

LEMMA StepIInv == IInv /\ [Next]_vars => IInv'
<1> SUFFICES ASSUME IInv, [Next]_vars PROVE IInv'
  OBVIOUS
<1>1. CASE UNCHANGED vars
  <2>1. UNCHANGED <<epoch, serving, client, pending, opened, link, toEmacs, toClient,
                    kept, stack, sent, slow, started, late>>
    BY <1>1 DEF vars, nodeVars, filterVars, history
  <2> QED
    BY <2>1 DEF IInv, TypeOK, Cached, NothingRunsTwice, Waiting
<1>2. CASE \/ NotFound \/ Connect \/ ConnectFails \/ Reopen
           \/ Receive \/ Timeout \/ OnClose \/ BridgeStart \/ BridgeStop
  BY <1>2, NodeStep
<1>3. CASE Send
  BY <1>3, SendStep
<1>4. CASE FilterBegin
  BY <1>4, BeginStep
<1>5. CASE Dispatch
  BY <1>5, DispatchStep
<1>6. CASE Finish \/ FilterEnd \/ FilterError
  BY <1>6, FilterStep
<1> QED
  BY <1>1, <1>2, <1>3, <1>4, <1>5, <1>6 DEF Next

(* The client and the filter keep their types, and Emacs has no process    *)
(* for a connection that Node knows is closed (bridgeClient.ts,            *)
(* emacs-operator-bridge.el).                                              *)
THEOREM ConnectionTypes == Spec => []TypeOK
<1>1. IInv => TypeOK
  BY DEF IInv
<1> QED
  BY InitIInv, StepIInv, <1>1, PTL DEF Spec

(* However the process filter is entered again, and whichever leftovers an *)
(* activation starts from, no request is dispatched twice                  *)
(* (emacs-operator--client-filter).                                        *)
THEOREM NoDoubleRun == Spec => []NothingRunsTwice
<1>1. IInv => NothingRunsTwice
  BY DEF IInv
<1> QED
  BY InitIInv, StepIInv, <1>1, PTL DEF Spec

-----------------------------------------------------------------------------
(* As long as nothing has timed out, the wire and the filter hold nothing  *)
(* but the request that is waited for.                                     *)

Unparsed == IF stack = <<>> THEN kept ELSE stack[1].data
InNoRequest == stack # <<>> => stack[1].busy = 0

\* The last request is on its way, in Emacs, or dispatched and answered; the
\* answer is on its way or received.  (A new connection may find the server
\* waiting for a request of the last one.)
Coming ==
    /\ InNoRequest /\ Unparsed \o toEmacs = Frame(sent)
    /\ sent # 0 /\ pending = sent /\ toClient = <<>> /\ Len(started) = sent - 1
Served ==
    /\ InNoRequest /\ Unparsed = <<>> /\ toEmacs = <<>>
    /\ Len(started) = sent
    /\ \/ pending = 0 /\ toClient = <<>>
       \/ pending # 0 /\ toClient = <<>> /\ sent = 0
       \/ pending = sent /\ sent # 0 /\ toClient = <<sent>>
Running ==
    /\ stack # <<>> /\ stack[1].busy = sent /\ Unparsed = <<>> /\ toEmacs = <<>>
    /\ sent # 0 /\ pending = sent /\ toClient = <<>> /\ Len(started) = sent

\* One activation at most, and in it and on the wire only that.
Prompt ==
    /\ Len(stack) <= 1 /\ \A n \in 1..Len(started) : started[n] = n
    /\ Coming \/ Running \/ Served

PromptInv == link /\ ~late => Prompt

LEMMA FrameProperties ==
  ASSUME NEW r \in Requests
  PROVE  /\ Frame(r) \in Seq(Piece) /\ Len(Frame(r)) = 2
         /\ Skipped(Frame(r)) = 0 /\ Frame(r)[1].req = r
         /\ SubSeq(Frame(r), 3, 2) = <<>>
<1>1. [req |-> r, half |-> 1] \in Piece /\ [req |-> r, half |-> 2] \in Piece
  BY DEF Piece
<1>2. Frame(r) \in Seq(Piece) /\ Len(Frame(r)) = 2
  BY <1>1 DEF Frame
<1>3. Frame(r)[1] = [req |-> r, half |-> 1]
  BY <1>1 DEF Frame
<1>4. Frame(r)[1].req = r /\ Frame(r)[1].half # 2
  BY <1>3
<1>5. SubSeq(Frame(r), 3, 2) = <<>>
  BY SubSeqEmpty
<1> QED
  BY <1>2, <1>4, <1>5 DEF Skipped

LEMMA Regrouped ==
  ASSUME NEW a \in Seq(Piece), NEW b \in Seq(Piece), NEW c \in Seq(Piece)
  PROVE  (a \o b) \o c = a \o (b \o c)
  BY ConcatAssociative

LEMMA OneActivation ==
  ASSUME TypeOK, Len(stack) <= 1, stack # <<>>
  PROVE  /\ Len(stack) = 1 /\ Top = stack[1] /\ Pop = <<>>
         /\ Unparsed = Top.data
         /\ \A a : Append(Pop, a) = <<a>>
<1>1. /\ Len(stack) \in Nat \ {0} /\ Top = stack[Len(stack)]
  BY StackTop
<1>2. Len(stack) = 1
  <2>1. \A n \in Nat \ {0} : n <= 1 => n = 1
    OBVIOUS
  <2> QED
    BY <1>1, <2>1
<1>3. Pop \in Seq(Activation) /\ Len(Pop) = 0
  BY <1>2, PopTypes
<1>4. Pop = <<>>
  BY <1>3, EmptySeq
<1>5. \A a : Append(Pop, a) = <<a>>
  BY <1>4
<1> QED
  BY <1>1, <1>2, <1>4, <1>5 DEF Unparsed

(* Nothing of the stream moves, nor of what is waited for.                 *)
LEMMA PromptRests ==
  ASSUME Prompt, UNCHANGED <<pending, toEmacs, toClient, kept, stack, sent, started>>
  PROVE  Prompt'
  BY DEF Prompt, Coming, Running, Served, InNoRequest, Unparsed

LEMMA PromptNode ==
  ASSUME IInv, PromptInv,
         \/ NotFound \/ Connect \/ ConnectFails \/ Reopen
         \/ Receive \/ Timeout \/ OnClose \/ BridgeStart \/ BridgeStop
  PROVE  PromptInv'
<1>1. CASE Connect
  <2>1. /\ toEmacs' = <<>> /\ toClient' = <<>> /\ kept' = <<>> /\ stack' = <<>>
        /\ sent' = 0 /\ started' = <<>>
    BY <1>1 DEF Connect
  <2>2. Served' /\ Len(stack') <= 1 /\ \A n \in 1..Len(started') : started'[n] = n
    BY <2>1 DEF Served, InNoRequest, Unparsed
  <2> QED
    BY <2>2 DEF PromptInv, Prompt
<1>2. CASE Timeout \/ BridgeStop
  BY <1>2 DEF Timeout, BridgeStop, PromptInv
<1>3. CASE NotFound \/ ConnectFails \/ Reopen \/ BridgeStart
  <2>1. UNCHANGED <<link, late, pending, toEmacs, toClient, kept, stack, sent, started>>
    BY <1>3 DEF NotFound, ConnectFails, Reopen, BridgeStart, nodeVars, filterVars, history
  <2> QED
    BY <2>1, PromptRests DEF PromptInv, Prompt
<1>4. CASE OnClose
  <2>1. ~link'
    BY <1>4 DEF OnClose
  <2> QED
    BY <2>1 DEF PromptInv
<1>5. CASE Receive
  <2> SUFFICES ASSUME link, ~late PROVE Prompt'
    BY <1>5 DEF Receive, history, PromptInv, Prompt
  <2>1. /\ toClient # <<>> /\ toClient' = Tail(toClient)
        /\ pending' = IF pending = Head(toClient) THEN 0 ELSE pending
        /\ UNCHANGED <<toEmacs, kept, stack, sent, started>>
    BY <1>5 DEF Receive, filterVars, history
  <2>2. Prompt
    BY DEF PromptInv, Prompt
  <2>3. Served /\ pending = sent /\ toClient = <<sent>>
    BY <2>1, <2>2 DEF Prompt, Coming, Running, Served
  <2>4. toClient' = <<>> /\ pending' = 0
    BY <2>1, <2>3
  <2>5. Served'
    BY <2>1, <2>3, <2>4 DEF Served, InNoRequest, Unparsed
  <2> QED
    BY <2>1, <2>2, <2>5 DEF Prompt
<1> QED
  BY <1>1, <1>2, <1>3, <1>4, <1>5

LEMMA PromptSend ==
  ASSUME IInv, Prompt, link, Send
  PROVE  Prompt'
<1>1. /\ sent \in Nat /\ sent + 1 \in Requests /\ toEmacs \in Seq(Piece)
      /\ Len(started) \in Nat
  BY SendTypes, WaitingTypes, LenProperties DEF IInv, TypeOK, Typed
<1>2. /\ pending = 0 /\ sent' = sent + 1 /\ pending' = sent + 1
      /\ toEmacs' = toEmacs \o Frame(sent + 1)
      /\ UNCHANGED <<toClient, kept, stack, started>>
  BY DEF Send, Transmit, filterVars
<1>3. Served /\ toClient = <<>>
  BY <1>2 DEF Prompt, Coming, Running, Served
<1>4. Frame(sent + 1) \in Seq(Piece)
  BY <1>1, FrameProperties
<1>5. /\ Unparsed' = <<>> /\ toEmacs' = Frame(sent') /\ <<>> \o toEmacs' = Frame(sent')
  <2>1. <<>> \o Frame(sent + 1) = Frame(sent + 1)
    BY <1>4, ConcatEmptySeq
  <2> QED
    BY <1>2, <1>3, <2>1 DEF Served, Unparsed
<1>6. Coming'
  <2>1. Len(started) = sent' - 1 /\ sent' # 0
    BY <1>1, <1>2, <1>3 DEF Served
  <2> QED
    BY <1>2, <1>3, <1>5, <2>1 DEF Coming, Served, InNoRequest
<1> QED
  BY <1>2, <1>6 DEF Prompt

LEMMA PromptBegin ==
  ASSUME IInv, Prompt, FilterBegin
  PROVE  Prompt'
<1>1. /\ toEmacs # <<>> /\ (stack # <<>> => Top.busy # 0)
      /\ UNCHANGED <<pending, toClient, kept, sent, started>>
  BY DEF FilterBegin, nodeVars, history
<1>2. Coming
  BY <1>1 DEF Prompt, Running, Served
<1>3. stack = <<>>
  <2> SUFFICES ASSUME stack # <<>> PROVE FALSE
    OBVIOUS
  <2>1. Top = stack[1]
    BY OneActivation DEF IInv, Prompt
  <2> QED
    BY <1>1, <1>2, <2>1 DEF Coming, InNoRequest
<1>4. kept \o toEmacs = Frame(sent)
  BY <1>2, <1>3 DEF Coming, Unparsed
<1>5. /\ sent \in Requests /\ kept \in Seq(Piece) /\ toEmacs \in Seq(Piece)
  BY <1>2 DEF IInv, TypeOK, Coming, Requests
<1>6. PICK n \in 1..Len(toEmacs) :
        /\ stack' = Append(stack, [data |-> kept \o SubSeq(toEmacs, 1, n), busy |-> 0])
        /\ toEmacs' = SubSeq(toEmacs, n + 1, Len(toEmacs))
  BY DEF FilterBegin
<1> DEFINE data == kept \o SubSeq(toEmacs, 1, n)
<1>7. data \o toEmacs' = Frame(sent)
  <2> DEFINE read == SubSeq(toEmacs, 1, n)
             rest == SubSeq(toEmacs, n + 1, Len(toEmacs))
  <2>1. /\ Len(toEmacs) \in Nat /\ n \in Nat /\ 1 <= n /\ n <= Len(toEmacs)
        /\ \A i \in 1..Len(toEmacs) : toEmacs[i] \in Piece
    BY <1>5, LenProperties, ElementOfSeq
  <2>2. read \o rest = toEmacs
    <3>1. /\ 1 \in 1..(Len(toEmacs) + 1) /\ n \in (1 - 1)..Len(toEmacs)
          /\ Len(toEmacs) \in n..Len(toEmacs)
      BY <2>1
    <3> QED
      BY <1>5, <3>1, ConcatAdjacentSubSeq, SubSeqFull
  <2>3. read \in Seq(Piece) /\ rest \in Seq(Piece)
    BY <1>5, <2>1, SubSeqProperties
  <2> HIDE DEF read, rest
  <2>4. (kept \o read) \o rest = kept \o (read \o rest)
    <3>1. kept \in Seq(Piece)
      BY <1>5
    <3> QED
      BY <2>3, <3>1, Regrouped
  <2>5. data = kept \o read /\ toEmacs' = rest
    BY <1>6 DEF read, rest
  <2> HIDE DEF data
  <2>6. data \o toEmacs' = kept \o (read \o rest)
    BY <2>4, <2>5, Zenon
  <2> QED
    BY <1>4, <2>2, <2>6, Zenon
<1>8. stack' = <<[data |-> data, busy |-> 0]>>
  BY <1>3, <1>6 DEF data
<1>9. Len(stack') = 1 /\ stack' # <<>> /\ stack'[1].data = data /\ stack'[1].busy = 0
  BY <1>8
<1>10. Coming'
  BY <1>1, <1>2, <1>7, <1>9 DEF Coming, InNoRequest, Unparsed
<1> QED
  BY <1>1, <1>9, <1>10 DEF Prompt

LEMMA PromptDispatch ==
  ASSUME IInv, Prompt, link, Dispatch
  PROVE  Prompt'
<1>1. /\ stack # <<>> /\ Top.busy = 0 /\ Parsable(Top.data)
      /\ UNCHANGED <<pending, link, toEmacs, kept, sent>>
  BY DEF Dispatch, InLoop, nodeVars
<1>2. /\ Len(stack) = 1 /\ Top = stack[1] /\ Unparsed = Top.data
      /\ \A a : Append(Pop, a) = <<a>>
  BY <1>1, OneActivation DEF IInv, Prompt
<1>3. Coming
  BY <1>1, <1>2, EmptyData DEF Prompt, Running, Served
<1>4. sent \in Requests /\ started \in Seq(Requests) /\ Len(started) = sent - 1
  BY <1>3 DEF IInv, TypeOK, Coming, Requests
<1>5. Top.data = Frame(sent) /\ toEmacs = <<>>
  <2>1. /\ Top.data \in Seq(Piece) /\ toEmacs \in Seq(Piece)
        /\ Top.data \o toEmacs = Frame(sent)
    BY <1>1, <1>2, <1>3, StackTop DEF IInv, TypeOK, Coming
  <2>2. Len(Top.data) >= 2 /\ Len(Top.data) + Len(toEmacs) = 2
    <3>1. Skipped(Top.data) \in {0, 1} /\ Len(Top.data) >= Skipped(Top.data) + 2
      BY <1>1, <2>1, ParsableAt DEF Skipped
    <3>2. Len(Top.data) \in Nat
      BY <2>1, LenProperties
    <3>3. Len(Top.data \o toEmacs) = Len(Top.data) + Len(toEmacs)
      BY <2>1, ConcatProperties
    <3>4. Len(Frame(sent)) = 2
      BY <1>4, FrameProperties
    <3>5. Len(Top.data) + Len(toEmacs) = 2
      BY <2>1, <3>3, <3>4, Zenon
    <3> QED
      BY <3>1, <3>2, <3>5
  <2>3. Len(toEmacs) = 0
    BY <2>1, <2>2, LenProperties
  <2>4. toEmacs = <<>>
    BY <2>1, <2>3, EmptySeq
  <2> QED
    BY <2>1, <2>4, ConcatEmptySeq
<1>6. Skipped(Top.data) = 0 /\ Top.data[0 + 1].req = sent
      /\ SubSeq(Top.data, 0 + 3, Len(Top.data)) = <<>>
  <2>1. 0 + 1 = 1 /\ 0 + 3 = 3
    OBVIOUS
  <2> QED
    BY <1>4, <1>5, <2>1, FrameProperties
<1> DEFINE busy == IF sent \in slow THEN sent ELSE 0
<1>7. /\ started' = Append(started, sent)
      /\ stack' = <<[data |-> <<>>, busy |-> busy]>>
      /\ IF sent \in slow THEN UNCHANGED toClient ELSE Reply(sent)
  BY <1>2, <1>6 DEF Dispatch
<1>8. /\ stack' # <<>> /\ Len(stack') = 1
      /\ stack'[1].data = <<>> /\ stack'[1].busy = busy
  BY <1>7
<1>9. /\ Len(started') = sent /\ started'[sent] = sent
      /\ \A n \in 1..Len(started') : started'[n] = n
  <2>1. /\ Len(started') = Len(started) + 1 /\ started'[Len(started) + 1] = sent
        /\ \A n \in 1..Len(started) : started'[n] = started[n]
    BY <1>4, <1>7
  <2>2. \A n \in 1..Len(started) : started[n] = n
    BY DEF Prompt
  <2> QED
    BY <1>4, <2>1, <2>2 DEF Requests
<1>10. toClient' = IF sent \in slow THEN <<>> ELSE <<sent>>
  <2>1. toClient = <<>>
    BY <1>3 DEF Coming
  <2> QED
    BY <1>7, <2>1 DEF Reply
<1>11. /\ toEmacs' = <<>> /\ Unparsed' = <<>> /\ pending' = sent' /\ sent' = sent /\ sent # 0
       /\ Len(started') = sent'
  BY <1>1, <1>3, <1>5, <1>8, <1>9 DEF Unparsed, Coming
<1>12. CASE sent \in slow
  <2>1. Running'
    BY <1>8, <1>10, <1>11, <1>12 DEF Running
  <2> QED
    BY <1>8, <1>9, <2>1 DEF Prompt
<1>13. CASE sent \notin slow
  <2>1. Served'
    BY <1>8, <1>10, <1>11, <1>13 DEF Served, InNoRequest
  <2> QED
    BY <1>8, <1>9, <2>1 DEF Prompt
<1> QED
  BY <1>12, <1>13

LEMMA PromptFinish ==
  ASSUME IInv, Prompt, link, Finish
  PROVE  Prompt'
<1>1. /\ stack # <<>> /\ Top.busy # 0 /\ Reply(Top.busy)
      /\ stack' = Append(Pop, [Top EXCEPT !.busy = 0])
      /\ UNCHANGED <<pending, link, toEmacs, kept, sent, started>>
  BY DEF Finish, nodeVars, history
<1>2. /\ Top = stack[1] /\ Unparsed = Top.data /\ Top \in Activation
      /\ \A a : Append(Pop, a) = <<a>>
  BY <1>1, OneActivation, StackTop DEF IInv, Prompt
<1>3. Running
  BY <1>1, <1>2 DEF Prompt, Coming, Served, InNoRequest
<1>4. toClient' = <<sent>>
  BY <1>1, <1>2, <1>3 DEF Running, Reply
<1>5. /\ stack' # <<>> /\ Len(stack') = 1
      /\ stack'[1].data = <<>> /\ stack'[1].busy = 0
  <2>1. [Top EXCEPT !.busy = 0] = [data |-> <<>>, busy |-> 0]
    <3>1. Top.data = <<>> /\ Top \in [data : Seq(Piece), busy : 0..MaxRequests]
      BY <1>2, <1>3 DEF Running, Activation
    <3> QED
      BY <3>1
  <2>2. stack' = <<[data |-> <<>>, busy |-> 0]>>
    BY <1>1, <1>2, <2>1
  <2> QED
    BY <2>2
<1>6. Served'
  BY <1>1, <1>3, <1>4, <1>5 DEF Running, Served, InNoRequest, Unparsed
<1> QED
  BY <1>1, <1>5, <1>6 DEF Prompt

LEMMA PromptEnd ==
  ASSUME IInv, Prompt, FilterEnd
  PROVE  Prompt'
<1>1. /\ stack # <<>> /\ Top.busy = 0 /\ kept' = Top.data /\ stack' = Pop
      /\ UNCHANGED <<pending, toEmacs, toClient, sent, started>>
  BY DEF FilterEnd, InLoop, nodeVars, history
<1>2. Top = stack[1] /\ Unparsed = Top.data /\ Pop = <<>>
  BY <1>1, OneActivation DEF IInv, Prompt
<1>3. Unparsed' = Unparsed /\ stack' = <<>> /\ Len(stack') <= 1
  BY <1>1, <1>2 DEF Unparsed
<1>4. ~Running
  BY <1>1, <1>2 DEF Running
<1>5. Coming' \/ Served'
  BY <1>1, <1>3, <1>4 DEF Prompt, Coming, Served, InNoRequest
<1> QED
  BY <1>1, <1>3, <1>5 DEF Prompt

LEMMA StepPrompt == IInv /\ PromptInv /\ [Next]_vars => PromptInv'
<1> SUFFICES ASSUME IInv, PromptInv, [Next]_vars PROVE PromptInv'
  OBVIOUS
<1>1. CASE UNCHANGED vars
  <2>1. UNCHANGED <<link, late, pending, toEmacs, toClient, kept, stack, sent, started>>
    BY <1>1 DEF vars, nodeVars, filterVars, history
  <2> QED
    BY <2>1, PromptRests DEF PromptInv, Prompt
<1>2. CASE \/ NotFound \/ Connect \/ ConnectFails \/ Reopen
           \/ Receive \/ Timeout \/ OnClose \/ BridgeStart \/ BridgeStop
  BY <1>2, PromptNode
<1>3. CASE FilterError
  BY <1>3 DEF FilterError, PromptInv
<1>4. CASE Send \/ FilterBegin \/ Dispatch \/ Finish \/ FilterEnd
  <2>1. link' = link /\ late' = late
    BY <1>4 DEF Send, FilterBegin, Dispatch, Finish, FilterEnd, history
  <2>2. link /\ ~late => Prompt'
    BY <1>4, PromptSend, PromptBegin, PromptDispatch, PromptFinish, PromptEnd
    DEF PromptInv, Prompt
  <2> QED
    BY <2>1, <2>2 DEF PromptInv, Prompt
<1> QED
  BY <1>1, <1>2, <1>3, <1>4 DEF Next

(* On a connection on which nothing has timed out every request is         *)
(* dispatched, in the order sent, before the next one is sent: one request *)
(* at a time is what keeps the process filter from being entered again     *)
(* with data to read (bridgeClient.ts, emacs-operator--client-filter).     *)
THEOREM PromptRequests == Spec => []PromptRequestsAreAllServed
<1>1. Init => PromptInv
  BY DEF Init, PromptInv
<1>2. IInv /\ PromptInv => PromptRequestsAreAllServed
  <2> SUFFICES ASSUME IInv, PromptInv, link, ~late
               PROVE  /\ started = [n \in 1..Len(started) |-> n]
                      /\ pending = 0 => Len(started) = sent
                      /\ pending # 0 => Len(started) \in {sent - 1, sent}
    BY DEF PromptRequestsAreAllServed
  <2>1. started \in Seq(Requests) /\ sent \in Nat
    BY DEF IInv, TypeOK
  <2>2. started = [n \in 1..Len(started) |-> n]
    <3>1. started = [n \in 1..Len(started) |-> started[n]]
      BY <2>1, LenProperties
    <3>2. \A n \in 1..Len(started) : started[n] = n
      BY DEF PromptInv, Prompt
    <3> QED
      BY <3>1, <3>2
  <2>3. Len(started) = sent \/ (Len(started) = sent - 1 /\ pending = sent /\ sent # 0)
    BY DEF PromptInv, Prompt, Coming, Running, Served
  <2> QED
    BY <2>1, <2>2, <2>3
<1> QED
  BY InitIInv, StepIInv, StepPrompt, <1>1, <1>2, PTL DEF Spec
=============================================================================
