-------------------------- MODULE Algorithms_proofs --------------------------
(***************************************************************************)
(* For any stream of frames, good and bad: it does not matter how the      *)
(* connection cuts it into chunks; what comes out after each are the       *)
(* bodies that are there whole, and never that of a bad frame.  For any    *)
(* symbols: a rename that is to keep their qualification keeps it.  For    *)
(* any text and any unified diff: what comes out is the text the diff      *)
(* stands for, or nothing when it does not fit.                            *)
(***************************************************************************)
EXTENDS Algorithms, FiniteSetTheorems, SequenceTheorems, WellFoundedInduction, TLAPS

(***************************************************************************)
(* The readers of frames (module Framing).  What they do is a loop, so it  *)
(* is reasoned about round by round: a round that reads a frame reads the  *)
(* same one when more bytes are there, and after as many rounds as there   *)
(* are bytes no frame is left to read.                                     *)
(***************************************************************************)

LEMMA LeastNatural ==
  ASSUME NEW T \in SUBSET Nat, T # {}
  PROVE  \E m \in T : \A k \in T : m <= k
<1> DEFINE R == OpToRel(<, Nat)
<1>1. IsWellFoundedOn(R, Nat)
  BY NatLessThanWellFounded
<1>2. \A x, y \in Nat : y < x => <<y, x>> \in R
  BY DEF OpToRel
<1> HIDE DEF R
<1>3. PICK x \in T : \A y \in T : ~(<<y, x>> \in R)
  BY <1>1, WFMin, Zenon
<1>4. \A y \in T : ~(y < x)
  BY <1>2, <1>3
<1> QED
  BY <1>4

LEMMA Induction ==
  ASSUME NEW S \in SUBSET Nat, 0 \in S, \A n \in S : n + 1 \in S
  PROVE  Nat \subseteq S
<1>1. SUFFICES ASSUME Nat \ S # {} PROVE FALSE
  OBVIOUS
<1>2. PICK m \in Nat \ S : \A k \in Nat \ S : m <= k
  BY <1>1, LeastNatural
<1>3. m # 0 /\ m - 1 \in Nat /\ ~(m <= m - 1) /\ (m - 1) + 1 = m
  BY <1>2
<1> QED
  BY <1>2, <1>3

(* Appended bytes do not move the end of a header that is there.           *)
LEMMA DelimiterIsThere ==
  ASSUME NEW b \in Seq(Byte), Delimiters(b) # {}
  PROVE  /\ HeaderEnd(b) \in Delimiters(b)
         /\ \A j \in Delimiters(b) : HeaderEnd(b) <= j
         /\ HeaderEnd(b) \in Nat /\ HeaderEnd(b) + 4 <= Len(b)
<1>1. Delimiters(b) \in SUBSET Nat
  BY DEF Delimiters
<1>2. PICK m \in Delimiters(b) : \A k \in Delimiters(b) : m <= k
  BY <1>1, LeastNatural
<1>3. HeaderEnd(b) \in Delimiters(b) /\ \A j \in Delimiters(b) : HeaderEnd(b) <= j
  BY <1>2 DEF HeaderEnd
<1>4. \A i \in Delimiters(b) : i \in Nat /\ i + 4 <= Len(b)
  <2>1. Len(b) \in Nat
    OBVIOUS
  <2> QED
    BY <2>1 DEF Delimiters
<1> QED
  BY <1>3, <1>4

LEMMA SameDelimiters ==
  ASSUME NEW b \in Seq(Byte), NEW y \in Seq(Byte)
  PROVE  /\ b \o y \in Seq(Byte) /\ Len(b \o y) = Len(b) + Len(y)
         /\ \A i \in Nat : i + 4 <= Len(b) => (i \in Delimiters(b \o y) <=> i \in Delimiters(b))
<1>1. b \o y \in Seq(Byte) /\ Len(b \o y) = Len(b) + Len(y) /\ Len(b) \in Nat /\ Len(y) \in Nat
  BY ConcatProperties
<1>2. ASSUME NEW i \in Nat, i + 4 <= Len(b)
      PROVE  i \in Delimiters(b \o y) <=> i \in Delimiters(b)
  <2>1. i + 1 \in 1..Len(b) /\ i + 4 \in 1..Len(b)
    BY <1>1, <1>2
  <2>2. SubSeq(b \o y, i + 1, i + 4) = SubSeq(b, i + 1, i + 4)
    BY <2>1, SubSeqOfConcat1
  <2>3. i \in 0..(Len(b) - 4) /\ i \in 0..(Len(b \o y) - 4)
    BY <1>1, <1>2
  <2> QED
    BY <2>2, <2>3 DEF Delimiters
<1> QED
  BY <1>1, <1>2

LEMMA SameHeader ==
  ASSUME NEW b \in Seq(Byte), NEW y \in Seq(Byte), Delimiters(b) # {}
  PROVE  /\ Delimiters(b \o y) # {} /\ HeaderEnd(b \o y) = HeaderEnd(b)
         /\ SubSeq(b \o y, 1, HeaderEnd(b)) = SubSeq(b, 1, HeaderEnd(b))
<1> DEFINE e == HeaderEnd(b)
           f == HeaderEnd(b \o y)
<1>1. e \in Delimiters(b) /\ (\A j \in Delimiters(b) : e <= j) /\ e \in Nat /\ e + 4 <= Len(b)
  BY DelimiterIsThere
<1>2. b \o y \in Seq(Byte) /\ e \in Delimiters(b \o y)
  BY <1>1, SameDelimiters
<1>3. f \in Delimiters(b \o y) /\ (\A j \in Delimiters(b \o y) : f <= j) /\ f \in Nat
  BY <1>2, DelimiterIsThere
<1> HIDE DEF e, f
<1>4. f <= e
  BY <1>2, <1>3
<1>5. Len(b) \in Nat
  OBVIOUS
<1>6. f \in Delimiters(b)
  BY <1>1, <1>3, <1>4, <1>5, SameDelimiters
<1>7. f = e
  BY <1>1, <1>3, <1>4, <1>6
<1>8. SubSeq(b \o y, 1, e) = SubSeq(b, 1, e)
  <2>1. CASE e = 0
    BY <2>1, SubSeqEmpty
  <2>2. CASE e # 0
    <3>1. 1 \in 1..Len(b) /\ e \in 1..Len(b)
      BY <1>1, <1>5, <2>2
    <3> QED
      BY <3>1, SubSeqOfConcat1
  <2> QED
    BY <2>1, <2>2
<1> QED
  BY <1>2, <1>7, <1>8 DEF e, f

(* A header that is not refused declares a length.                         *)
LEMMA LengthIsDeclared ==
  ASSUME NEW reader, NEW h \in Seq(Byte), ~Refuses(reader, h)
  PROVE  DeclaredLength(h) \in Nat
<1> DEFINE T == Lengths(h)
<1>1. T # {} /\ T \in SUBSET (1..Len(h)) /\ Len(h) \in Nat
  BY DEF Refuses, Lengths
<1>2. \A i \in T : h[i] \in DOMAIN Declared
  BY DEF Refuses, Lengths
<1> HIDE DEF T
<1>3. \E m \in T : \A k \in T : m >= k
  <2> DEFINE U == {Len(h) - i : i \in T}
  <2>1. U \in SUBSET Nat /\ U # {}
    <3>1. \A i \in T : i \in Nat /\ i <= Len(h)
      BY <1>1
    <3>2. \A i \in T : Len(h) - i \in Nat
      BY <1>1, <3>1
    <3>3. PICK i \in T : TRUE
      BY <1>1
    <3> QED
      BY <3>2, <3>3
  <2>2. PICK u \in U : \A v \in U : u <= v
    BY <2>1, LeastNatural
  <2>3. PICK m \in T : u = Len(h) - m
    BY <2>2
  <2>4. \A k \in T : Len(h) - m <= Len(h) - k
    BY <2>2, <2>3
  <2>5. \A k \in T : m >= k
    BY <1>1, <2>4
  <2> QED
    BY <2>5
<1>4. Max(T) \in T
  BY <1>3 DEF Max
<1>5. h[Max(T)] \in DOMAIN Declared
  BY <1>2, <1>4
<1>6. \A x \in DOMAIN Declared : Declared[x] \in Nat
  BY DEF Declared
<1>7. DeclaredLength(h) = Declared[h[Max(T)]]
  BY DEF DeclaredLength, T
<1> QED
  BY <1>5, <1>6, <1>7

-----------------------------------------------------------------------------
(* One round of the loop.                                                  *)

\* More bytes have come; more frames had been read before.
Longer(r, y) == [r EXCEPT !.buffer = @ \o y]
Prepended(o, r) == [r EXCEPT !.out = o \o @]

Reads(r) == ~r.failed /\ Complete(r)

LEMMA CompleteFrame ==
  ASSUME NEW r \in Reading, Complete(r)
  PROVE  /\ Delimiters(r.buffer) # {} /\ HeaderEnd(r.buffer) \in Nat
         /\ BodyEnd(r.buffer) \in Nat /\ BodyEnd(r.buffer) <= Len(r.buffer)
         /\ HeaderEnd(r.buffer) + 4 <= BodyEnd(r.buffer) /\ Len(r.buffer) \in Nat
<1> DEFINE e == HeaderEnd(r.buffer)
           h == SubSeq(r.buffer, 1, e)
<1>1. r.buffer \in Seq(Byte)
  BY DEF Reading
<1>2. Delimiters(r.buffer) # {} /\ BodyEnd(r.buffer) <= Len(r.buffer) /\ ~Refuses(r.reader, h)
  BY DEF Complete, Failing
<1>3. e \in Nat /\ e + 4 <= Len(r.buffer) /\ Len(r.buffer) \in Nat
  BY <1>1, <1>2, DelimiterIsThere
<1>4. h \in Seq(Byte)
  <2>1. \A i \in 1..e : r.buffer[i] \in Byte
    BY <1>1, <1>3
  <2> QED
    BY <1>3, <2>1, SubSeqProperties
<1>5. DeclaredLength(h) \in Nat
  BY <1>2, <1>4, LengthIsDeclared
<1>6. BodyEnd(r.buffer) = e + 4 + DeclaredLength(h)
  BY DEF BodyEnd
<1> HIDE DEF e, h
<1>7. e + 4 + DeclaredLength(h) \in Nat /\ e + 4 <= e + 4 + DeclaredLength(h)
  BY <1>3, <1>5
<1> QED
  BY <1>2, <1>3, <1>6, <1>7 DEF e

(* A frame that was read: what it is, and what is left.                    *)
BodyOf(r) == SubSeq(r.buffer, HeaderEnd(r.buffer) + 5, BodyEnd(r.buffer))
Left(r) == SubSeq(r.buffer, BodyEnd(r.buffer) + 1, Len(r.buffer))

LEMMA RoundReads ==
  ASSUME NEW r \in Reading, Reads(r)
  PROVE  /\ Round(r) = [r EXCEPT !.out = Append(@, BodyOf(r)), !.buffer = Left(r)]
         /\ BodyOf(r) \in Message /\ Left(r) \in Seq(Byte)
         /\ Round(r) \in Reading /\ ~Round(r).failed
         /\ Round(r).reader = r.reader
         /\ Round(r).buffer = Left(r) /\ Round(r).out = Append(r.out, BodyOf(r))
         /\ Len(Round(r).buffer) < Len(r.buffer)
<1> DEFINE b == r.buffer
           e == HeaderEnd(r.buffer)
           f == BodyEnd(r.buffer)
<1>1. e \in Nat /\ f \in Nat /\ f <= Len(b) /\ e + 4 <= f /\ Len(b) \in Nat
  BY CompleteFrame DEF Reads
<1>2. b \in Seq(Byte) /\ r.out \in Seq(Message)
  BY DEF Reading
<1>3. BodyOf(r) = SubSeq(b, e + 5, f) /\ Left(r) = SubSeq(b, f + 1, Len(b))
  BY DEF BodyOf, Left
<1>4. Round(r) = [r EXCEPT !.out = Append(@, BodyOf(r)), !.buffer = Left(r)]
  BY DEF Round, Reads, Complete, BodyOf, Left
<1> HIDE DEF b, e, f
<1>5. BodyOf(r) \in Message
  <2>1. \A i \in (e + 5)..f : i \in 1..Len(b)
    BY <1>1
  <2>2. \A i \in (e + 5)..f : b[i] \in Byte
    BY <1>2, <2>1
  <2>3. e + 5 \in Int /\ f \in Int
    BY <1>1
  <2> QED
    BY <1>3, <2>2, <2>3, SubSeqProperties DEF Message
<1>6. Left(r) \in Seq(Byte) /\ Len(Left(r)) < Len(b)
  <2>1. \A i \in (f + 1)..Len(b) : i \in 1..Len(b)
    BY <1>1
  <2>2. \A i \in (f + 1)..Len(b) : b[i] \in Byte
    BY <1>2, <2>1
  <2>3. f + 1 \in Int /\ Len(b) \in Int
    BY <1>1
  <2>4. /\ Left(r) \in Seq(Byte)
        /\ Len(Left(r)) = IF f + 1 <= Len(b) THEN Len(b) - (f + 1) + 1 ELSE 0
    BY <1>3, <2>2, <2>3, SubSeqProperties
  <2> HIDE DEF Left
  <2> QED
    BY <1>1, <2>4
<1>7. Append(r.out, BodyOf(r)) \in Seq(Message)
  BY <1>2, <1>5
<1>8. ~r.failed
  BY DEF Reads
<1> QED
  BY <1>4, <1>5, <1>6, <1>7, <1>8 DEF Reading, b

LEMMA RoundRests ==
  ASSUME NEW r \in Reading, ~Reads(r)
  PROVE  /\ Round(r) = r \/ Round(r) = [r EXCEPT !.failed = TRUE]
         /\ Round(r) \in Reading /\ ~Reads(Round(r)) /\ Round(Round(r)) = Round(r)
         /\ r.failed => Round(r).failed
<1>1. CASE r.failed
  <2>1. Round(r) = r
    BY <1>1 DEF Round
  <2> QED
    BY <1>1, <2>1
<1>2. CASE ~r.failed /\ Failing(r)
  <2>1. Round(r) = [r EXCEPT !.failed = TRUE]
    BY <1>2 DEF Round
  <2>2. Round(r) \in Reading /\ Round(r).failed
    BY <2>1 DEF Reading
  <2>3. Round(Round(r)) = Round(r) /\ ~Reads(Round(r))
    BY <2>2 DEF Round, Reads
  <2> QED
    BY <2>1, <2>2, <2>3
<1>3. CASE ~r.failed /\ ~Failing(r)
  <2>1. ~Complete(r)
    BY <1>3 DEF Reads
  <2>2. Round(r) = r
    BY <1>3, <2>1 DEF Round
  <2> QED
    BY <1>3, <2>2
<1> QED
  BY <1>1, <1>2, <1>3

LEMMA RoundTypes ==
  ASSUME NEW r \in Reading
  PROVE  /\ Round(r) \in Reading /\ Round(r).reader = r.reader
         /\ r.failed => Round(r) = r
         /\ Len(Round(r).buffer) <= Len(r.buffer)
<1>1. Len(r.buffer) \in Nat /\ Len(r.buffer) <= Len(r.buffer)
  BY DEF Reading
<1>2. CASE Reads(r)
  <2>1. /\ Round(r) \in Reading /\ Round(r).reader = r.reader
        /\ Len(Round(r).buffer) < Len(r.buffer) /\ ~r.failed
    BY <1>2, RoundReads DEF Reads
  <2>2. Len(Round(r).buffer) \in Nat
    BY <2>1 DEF Reading
  <2> QED
    BY <1>1, <2>1, <2>2
<1>3. CASE ~Reads(r)
  <2>1. /\ Round(r) = r \/ Round(r) = [r EXCEPT !.failed = TRUE]
        /\ Round(r) \in Reading
    BY <1>3, RoundRests
  <2>2. Round(r).reader = r.reader /\ Round(r).buffer = r.buffer
    BY <2>1 DEF Reading
  <2>3. r.failed => Round(r) = r
    BY DEF Round
  <2> QED
    BY <1>1, <2>1, <2>2, <2>3
<1> QED
  BY <1>2, <1>3

LEMMA PartOfLonger ==
  ASSUME NEW b \in Seq(Byte), NEW y \in Seq(Byte),
         NEW m \in Nat \ {0}, NEW n \in Nat, n <= Len(b)
  PROVE  SubSeq(b \o y, m, n) = SubSeq(b, m, n)
<1>1. CASE n < m
  BY <1>1, SubSeqEmpty
<1>2. CASE m <= n
  <2>1. Len(b) \in Nat /\ m \in 1..Len(b) /\ n \in 1..Len(b)
    BY <1>2
  <2> QED
    BY <2>1, SubSeqOfConcat1
<1> QED
  BY <1>1, <1>2

LEMMA Adjacent ==
  ASSUME NEW w \in Seq(Byte), NEW m \in Nat \ {0}, NEW k \in Nat,
         m - 1 <= k, k <= Len(w)
  PROVE  SubSeq(w, m, k) \o SubSeq(w, k + 1, Len(w)) = SubSeq(w, m, Len(w))
<1>1. Len(w) \in Nat
  OBVIOUS
<1>2. m \in 1..(Len(w) + 1) /\ k \in (m - 1)..Len(w) /\ Len(w) \in k..Len(w)
  BY <1>1
<1> QED
  BY <1>2, ConcatAdjacentSubSeq

LEMMA RestOfLonger ==
  ASSUME NEW b \in Seq(Byte), NEW y \in Seq(Byte), NEW f \in Nat, f <= Len(b)
  PROVE  SubSeq(b \o y, f + 1, Len(b \o y)) = SubSeq(b, f + 1, Len(b)) \o y
<1> DEFINE w == b \o y
           n == Len(b)
<1>1. w \in Seq(Byte) /\ Len(w) = n + Len(y) /\ n \in Nat /\ Len(y) \in Nat
  BY ConcatProperties
<1>2. SubSeq(w, f + 1, n) = SubSeq(b, f + 1, n)
  <2>1. f + 1 \in Nat \ {0} /\ n <= Len(b) /\ n \in Nat
    BY <1>1
  <2> QED
    BY <2>1, PartOfLonger
<1>3. SubSeq(w, n + 1, Len(w)) = y
  <2>1. CASE Len(y) = 0
    <3>1. y = <<>>
      BY <2>1, EmptySeq
    <3>2. n + 1 \in Int /\ Len(w) \in Int /\ Len(w) < n + 1
      BY <1>1, <2>1
    <3> QED
      BY <3>1, <3>2, SubSeqEmpty
  <2>2. CASE Len(y) # 0
    <3>1. n + 1 \in (n + 1)..(n + Len(y)) /\ Len(w) \in (n + 1)..(n + Len(y))
      BY <1>1, <2>2
    <3>2. SubSeq(w, n + 1, Len(w)) = SubSeq(y, n + 1 - n, Len(w) - n)
      BY <3>1, SubSeqOfConcat2
    <3>3. n + 1 - n = 1 /\ Len(w) - n = Len(y)
      BY <1>1
    <3> QED
      BY <3>2, <3>3, SubSeqFull
  <2> QED
    BY <2>1, <2>2
<1> HIDE DEF w, n
<1>4. f + 1 \in Nat \ {0} /\ f + 1 - 1 <= n /\ n <= Len(w)
  BY <1>1 DEF n
<1>5. SubSeq(w, f + 1, n) \o SubSeq(w, n + 1, Len(w)) = SubSeq(w, f + 1, Len(w))
  <2> DEFINE g == f + 1
  <2>1. g \in Nat \ {0} /\ g - 1 <= n /\ n <= Len(w) /\ n \in Nat
    BY <1>1, <1>4
  <2> HIDE DEF g
  <2>2. SubSeq(w, g, n) \o SubSeq(w, n + 1, Len(w)) = SubSeq(w, g, Len(w))
    BY <1>1, <2>1, Adjacent, Zenon
  <2> QED
    BY <2>2 DEF g
<1>6. SubSeq(w, f + 1, Len(w)) = SubSeq(b, f + 1, n) \o y
  BY <1>2, <1>3, <1>5
<1> QED
  BY <1>6 DEF w, n

LEMMA LongerTypes ==
  ASSUME NEW r \in Reading, NEW y \in Seq(Byte)
  PROVE  /\ Longer(r, y) \in Reading /\ Longer(r, y).buffer = r.buffer \o y
         /\ Longer(r, y).reader = r.reader /\ Longer(r, y).failed = r.failed
         /\ Longer(r, y).out = r.out
<1>1. r.buffer \in Seq(Byte) /\ r.buffer \o y \in Seq(Byte)
  BY ConcatProperties DEF Reading
<1> QED
  BY <1>1 DEF Longer, Reading

(* A round that reads a frame reads the same one if more bytes are there.  *)
LEMMA RoundLonger ==
  ASSUME NEW r \in Reading, NEW y \in Seq(Byte), Reads(r)
  PROVE  Reads(Longer(r, y)) /\ Round(Longer(r, y)) = Longer(Round(r), y)
<1> DEFINE b == r.buffer
           s == Longer(r, y)
           e == HeaderEnd(b)
           f == BodyEnd(b)
<1>1. /\ s \in Reading /\ s.buffer = b \o y /\ s.reader = r.reader
      /\ s.failed = r.failed /\ s.out = r.out
  BY LongerTypes
<1>2. /\ Delimiters(b) # {} /\ e \in Nat /\ f \in Nat /\ f <= Len(b)
      /\ e + 4 <= f /\ Len(b) \in Nat
  BY CompleteFrame DEF Reads
<1>3. b \in Seq(Byte)
  BY DEF Reading
<1>4. b \o y \in Seq(Byte) /\ Len(b \o y) = Len(b) + Len(y) /\ Len(y) \in Nat
  BY <1>3, ConcatProperties
<1>5. /\ Delimiters(b \o y) # {} /\ HeaderEnd(b \o y) = e
      /\ SubSeq(b \o y, 1, e) = SubSeq(b, 1, e)
  BY <1>2, <1>3, SameHeader
<1>6. BodyEnd(b \o y) = f
  BY <1>5 DEF BodyEnd
<1>7. ~Refuses(r.reader, SubSeq(b, 1, e))
  BY DEF Reads, Complete, Failing
<1>8. ~Failing(s)
  BY <1>1, <1>5, <1>7 DEF Failing
<1>9. f <= Len(b \o y)
  BY <1>2, <1>4
<1>10. Reads(s)
  BY <1>1, <1>5, <1>6, <1>8, <1>9 DEF Reads, Complete
<1>11. BodyOf(s) = BodyOf(r)
  <2>1. e + 5 \in Nat \ {0}
    BY <1>2
  <2>2. SubSeq(b \o y, e + 5, f) = SubSeq(b, e + 5, f)
    BY <1>2, <1>3, <2>1, PartOfLonger
  <2> QED
    BY <1>1, <1>5, <1>6, <2>2 DEF BodyOf
<1>12. Left(s) = Left(r) \o y
  <2>1. SubSeq(b \o y, f + 1, Len(b \o y)) = SubSeq(b, f + 1, Len(b)) \o y
    BY <1>2, <1>3, RestOfLonger
  <2> QED
    BY <1>1, <1>6, <2>1 DEF Left
<1>13. Round(s) = [s EXCEPT !.out = Append(@, BodyOf(s)), !.buffer = Left(s)]
  BY <1>1, <1>10, RoundReads
<1>14. Round(r) = [r EXCEPT !.out = Append(@, BodyOf(r)), !.buffer = Left(r)] /\ Round(r) \in Reading
  BY RoundReads
<1> HIDE DEF b, e, f
<1>15. [s EXCEPT !.out = Append(@, BodyOf(r)), !.buffer = Left(r) \o y]
         = [[r EXCEPT !.out = Append(@, BodyOf(r)), !.buffer = Left(r)] EXCEPT !.buffer = @ \o y]
  BY DEF Reading, Longer
<1> QED
  BY <1>10, <1>11, <1>12, <1>13, <1>14, <1>15 DEF Longer

(* What the bridge's reader refuses, it refuses whatever comes after it.   *)
LEMMA RoundFails ==
  ASSUME NEW r \in Reading, NEW y \in Seq(Byte), r.reader = "bridge",
         ~r.failed, Round(r).failed
  PROVE  Round(Longer(r, y)).failed
<1> DEFINE b == r.buffer
           s == Longer(r, y)
<1>1. /\ s \in Reading /\ s.buffer = b \o y /\ s.reader = r.reader /\ s.failed = r.failed
  BY LongerTypes
<1>2. b \in Seq(Byte)
  BY DEF Reading
<1>3. Failing(r)
  <2>1. CASE Reads(r)
    BY <2>1, RoundReads
  <2>2. CASE ~Reads(r) /\ ~Failing(r)
    <3>1. Round(r) = r
      BY <2>2 DEF Round, Reads
    <3> QED
      BY <3>1
  <2> QED
    BY <2>1, <2>2
<1>4. Delimiters(b) # {} /\ Refuses(r.reader, SubSeq(b, 1, HeaderEnd(b)))
  BY <1>3 DEF Failing
<1>5. /\ Delimiters(b \o y) # {} /\ HeaderEnd(b \o y) = HeaderEnd(b)
      /\ SubSeq(b \o y, 1, HeaderEnd(b)) = SubSeq(b, 1, HeaderEnd(b))
  BY <1>2, <1>4, SameHeader
<1>6. Failing(s)
  BY <1>1, <1>4, <1>5 DEF Failing
<1>7. Round(s) = [s EXCEPT !.failed = TRUE]
  BY <1>1, <1>6 DEF Round
<1>8. [s EXCEPT !.failed = TRUE].failed
  BY <1>1, Zenon DEF Reading
<1> QED
  BY <1>7, <1>8

LEMMA AppendedAfter ==
  ASSUME NEW o \in Seq(Message), NEW q \in Seq(Message), NEW x \in Message
  PROVE  Append(o \o q, x) = o \o Append(q, x)
  OBVIOUS

(* What had been read before makes no difference to a round.               *)
LEMMA RoundPrepended ==
  ASSUME NEW r \in Reading, NEW o \in Seq(Message)
  PROVE  Prepended(o, r) \in Reading /\ Round(Prepended(o, r)) = Prepended(o, Round(r))
<1> DEFINE s == Prepended(o, r)
<1>1. o \o r.out \in Seq(Message) /\ r.out \in Seq(Message)
  BY ConcatProperties DEF Reading
<1>2. /\ s \in Reading /\ s.buffer = r.buffer /\ s.reader = r.reader /\ s.failed = r.failed
      /\ s.out = o \o r.out
  BY <1>1 DEF Prepended, Reading
<1>3. /\ Failing(s) = Failing(r) /\ Complete(s) = Complete(r)
      /\ BodyOf(s) = BodyOf(r) /\ Left(s) = Left(r) /\ Reads(s) = Reads(r)
  BY <1>2 DEF Failing, Complete, BodyOf, Left, Reads
<1>4. CASE Reads(r)
  <2>1. /\ Round(r) = [r EXCEPT !.out = Append(@, BodyOf(r)), !.buffer = Left(r)]
        /\ BodyOf(r) \in Message
    BY <1>4, RoundReads
  <2>2. Round(s) = [s EXCEPT !.out = Append(@, BodyOf(s)), !.buffer = Left(s)]
    BY <1>2, <1>3, <1>4, RoundReads
  <2>3. Append(o \o r.out, BodyOf(r)) = o \o Append(r.out, BodyOf(r))
    BY <1>1, <2>1, AppendedAfter
  <2>4. [s EXCEPT !.out = o \o Append(r.out, BodyOf(r)), !.buffer = Left(r)]
          = Prepended(o, [r EXCEPT !.out = Append(@, BodyOf(r)), !.buffer = Left(r)])
    BY DEF Prepended, Reading
  <2>5. Round(s) = [s EXCEPT !.out = o \o Append(r.out, BodyOf(r)), !.buffer = Left(r)]
    <3> HIDE DEF s
    <3> QED
      BY <1>2, <1>3, <2>2, <2>3
  <2> QED
    BY <1>2, <2>1, <2>4, <2>5
<1>5. CASE ~Reads(r) /\ (r.failed \/ ~Failing(r))
  <2>1. Round(r) = r
    BY <1>5 DEF Round, Reads
  <2>2. Round(s) = s
    BY <1>2, <1>3, <1>5 DEF Round, Reads
  <2> QED
    BY <1>2, <2>1, <2>2
<1>6. CASE ~r.failed /\ Failing(r)
  <2>1. Round(r) = [r EXCEPT !.failed = TRUE]
    BY <1>6 DEF Round
  <2>2. Round(s) = [s EXCEPT !.failed = TRUE]
    BY <1>2, <1>3, <1>6 DEF Round
  <2>3. [s EXCEPT !.failed = TRUE] = Prepended(o, [r EXCEPT !.failed = TRUE])
    BY DEF Prepended, Reading
  <2> QED
    BY <1>2, <2>1, <2>2, <2>3
<1> QED
  BY <1>4, <1>5, <1>6

-----------------------------------------------------------------------------
(* The loop, round by round.                                               *)

Rounds(g, r, j) == g[0] = r /\ \A n \in 1..j : g[n] = Round(g[n - 1])
Loop(f, r) == f[0] = r /\ \A n \in Nat : f[n + 1] = Round(f[n])

LEMMA RoundsAgree ==
  ASSUME NEW r, NEW g, NEW h, NEW i \in Nat, NEW j \in Nat,
         Rounds(g, r, i), Rounds(h, r, j)
  PROVE  \A n \in Nat : n <= i /\ n <= j => g[n] = h[n]
<1> DEFINE S == {n \in Nat : n <= i /\ n <= j => g[n] = h[n]}
<1>1. 0 \in S
  BY DEF Rounds
<1>2. ASSUME NEW n \in S PROVE n + 1 \in S
  <2>1. SUFFICES ASSUME n + 1 <= i, n + 1 <= j PROVE g[n + 1] = h[n + 1]
    OBVIOUS
  <2>2. /\ n \in Nat /\ n <= i /\ n <= j /\ (n + 1) - 1 = n
        /\ n + 1 \in 1..i /\ n + 1 \in 1..j
    BY <2>1
  <2>3. g[n] = h[n]
    BY <2>2
  <2>4. g[n + 1] = Round(g[n]) /\ h[n + 1] = Round(h[n])
    <3> HIDE DEF S
    <3>1. g[n + 1] = Round(g[(n + 1) - 1]) /\ h[n + 1] = Round(h[(n + 1) - 1])
      BY <2>2 DEF Rounds
    <3> QED
      BY <2>2, <3>1
  <2> QED
    BY <2>3, <2>4
<1> HIDE DEF S
<1>3. S \in SUBSET Nat
  BY DEF S
<1>4. Nat \subseteq S
  BY <1>1, <1>2, <1>3, Induction
<1> QED
  BY <1>4 DEF S

LEMMA RoundsExist ==
  ASSUME NEW r \in Reading
  PROVE  \A j \in Nat : \E g \in [0..j -> Reading] : Rounds(g, r, j)
<1> DEFINE S == {j \in Nat : \E g \in [0..j -> Reading] : Rounds(g, r, j)}
<1>1. 0 \in S
  <2>1. [n \in 0..0 |-> r] \in [0..0 -> Reading] /\ Rounds([n \in 0..0 |-> r], r, 0)
    BY DEF Rounds
  <2> QED
    BY <2>1
<1>2. ASSUME NEW j \in S PROVE j + 1 \in S
  <2>1. PICK g \in [0..j -> Reading] : Rounds(g, r, j)
    OBVIOUS
  <2> DEFINE h == [n \in 0..(j + 1) |-> IF n <= j THEN g[n] ELSE Round(g[j])]
  <2>2. j \in Nat /\ j \in 0..j /\ 0 \in 0..j
    OBVIOUS
  <2>3. g[j] \in Reading /\ Round(g[j]) \in Reading
    BY <2>1, <2>2, RoundTypes
  <2>4. h \in [0..(j + 1) -> Reading]
    BY <2>2, <2>3
  <2>5. (\A n \in 0..j : h[n] = g[n]) /\ h[j + 1] = Round(g[j])
    BY <2>2
  <2> HIDE DEF h, S
  <2>6. ASSUME NEW n \in 1..(j + 1) PROVE h[n] = Round(h[n - 1])
    <3>1. CASE n = j + 1
      <4>1. n - 1 = j /\ h[j] = g[j]
        BY <2>2, <2>5, <3>1
      <4> QED
        BY <2>5, <3>1, <4>1
    <3>2. CASE n # j + 1
      <4>1. n \in 1..j /\ n \in 0..j /\ n - 1 \in 0..j
        BY <2>2, <3>2
      <4>2. g[n] = Round(g[n - 1])
        BY <2>1, <4>1 DEF Rounds
      <4> QED
        BY <2>5, <4>1, <4>2
    <3> QED
      BY <3>1, <3>2
  <2>7. h[0] = r
    BY <2>1, <2>2, <2>5 DEF Rounds
  <2>8. Rounds(h, r, j + 1)
    BY <2>6, <2>7 DEF Rounds
  <2> QED
    BY <2>2, <2>4, <2>8 DEF S
<1> HIDE DEF S
<1>3. S \in SUBSET Nat
  BY DEF S
<1>4. Nat \subseteq S
  BY <1>1, <1>2, <1>3, Induction
<1> QED
  BY <1>4 DEF S

LEMMA LoopExists ==
  ASSUME NEW r \in Reading
  PROVE  \E f \in [Nat -> Reading] : Loop(f, r)
<1> DEFINE first(n) == CHOOSE g \in [0..n -> Reading] : Rounds(g, r, n)
           f == [n \in Nat |-> first(n)[n]]
<1>1. ASSUME NEW n \in Nat
      PROVE  first(n) \in [0..n -> Reading] /\ Rounds(first(n), r, n)
  BY RoundsExist
<1>2. ASSUME NEW n \in Nat PROVE first(n)[n] \in Reading
  <2>1. n \in 0..n
    OBVIOUS
  <2> HIDE DEF first
  <2> QED
    BY <1>1, <2>1
<1> HIDE DEF first
<1>3. f \in [Nat -> Reading]
  BY <1>2
<1>4. f[0] = r
  BY <1>1 DEF Rounds
<1>5. ASSUME NEW n \in Nat PROVE f[n + 1] = Round(f[n])
  <2>1. n + 1 \in Nat /\ n + 1 \in 1..(n + 1) /\ (n + 1) - 1 = n /\ n <= n /\ n <= n + 1
    OBVIOUS
  <2>2. Rounds(first(n), r, n) /\ Rounds(first(n + 1), r, n + 1)
    BY <1>1, <2>1
  <2>3. first(n)[n] = first(n + 1)[n]
    BY <2>1, <2>2, RoundsAgree
  <2>4. first(n + 1)[n + 1] = Round(first(n + 1)[(n + 1) - 1])
    BY <2>1, <2>2 DEF Rounds
  <2>5. f[n + 1] = first(n + 1)[n + 1] /\ f[n] = first(n)[n]
    BY <2>1
  <2> HIDE DEF f
  <2> QED
    BY <2>1, <2>3, <2>4, <2>5
<1> HIDE DEF f
<1> QED
  BY <1>3, <1>4, <1>5 DEF Loop

LEMMA LoopRounds ==
  ASSUME NEW r, NEW f, NEW j \in Nat, Loop(f, r)
  PROVE  Rounds(f, r, j)
<1>1. ASSUME NEW n \in 1..j PROVE f[n] = Round(f[n - 1])
  <2>1. n - 1 \in Nat /\ (n - 1) + 1 = n
    OBVIOUS
  <2>2. f[(n - 1) + 1] = Round(f[n - 1])
    BY <2>1 DEF Loop
  <2> QED
    BY <2>1, <2>2
<1> QED
  BY <1>1 DEF Rounds, Loop

(* Take is where the loop is after as many rounds as there are bytes.      *)
LEMMA TakeIsLoop ==
  ASSUME NEW r \in Reading, NEW f \in [Nat -> Reading], Loop(f, r)
  PROVE  Take(r) = f[Len(r.buffer) + 1]
<1> DEFINE N == Len(r.buffer) + 1
           Again(h) == [n \in 0..N |-> IF n = 0 THEN r ELSE Round(h[n - 1])]
           after == CHOOSE h : h = Again(h)
           g == [n \in 0..N |-> f[n]]
<1>1. Take(r) = after[N]
  BY DEF Take
<1>2. N \in Nat
  BY DEF Reading
<1> HIDE DEF N
<1>3. Rounds(f, r, N)
  BY <1>2, LoopRounds
<1>4. g = Again(g)
  <2>1. ASSUME NEW n \in 0..N PROVE g[n] = IF n = 0 THEN r ELSE Round(g[n - 1])
    <3>1. CASE n = 0
      BY <1>3, <3>1 DEF Rounds
    <3>2. CASE n # 0
      <4>1. n \in 1..N /\ n - 1 \in 0..N
        BY <1>2, <3>2
      <4>2. f[n] = Round(f[n - 1])
        BY <1>3, <4>1 DEF Rounds
      <4> QED
        BY <3>2, <4>1, <4>2
    <3> QED
      BY <3>1, <3>2
  <2>2. g = [n \in 0..N |-> g[n]]
    OBVIOUS
  <2> HIDE DEF g
  <2> QED
    BY <2>1, <2>2
<1>5. after = Again(after)
  BY <1>4, Zenon
<1> HIDE DEF after, g
<1>6. Rounds(after, r, N)
  <2>1. \A n \in 0..N : after[n] = IF n = 0 THEN r ELSE Round(after[n - 1])
    BY <1>5
  <2>2. 0 \in 0..N /\ \A n \in 1..N : n \in 0..N /\ n # 0
    BY <1>2
  <2> QED
    BY <2>1, <2>2 DEF Rounds
<1>7. after[N] = f[N]
  <2>1. N <= N
    BY <1>2
  <2> QED
    BY <1>2, <1>3, <1>6, <2>1, RoundsAgree
<1> QED
  BY <1>1, <1>7 DEF N

LEMMA HasLength ==
  ASSUME NEW r \in Reading
  PROVE  Len(r.buffer) \in Nat
  BY DEF Reading

(* After as many rounds as there are bytes, no frame is left to read.      *)
LEMMA LoopSettles ==
  ASSUME NEW r \in Reading, NEW f \in [Nat -> Reading], Loop(f, r)
  PROVE  \A n \in Nat : n >= Len(r.buffer) =>
            ~Reads(f[n]) /\ f[n + 1] = f[Len(r.buffer) + 1]
<1> DEFINE L == Len(r.buffer)
           S == {n \in Nat : ~Reads(f[n]) \/ Len(f[n].buffer) + n <= L}
           T == {n \in Nat : f[L + n + 1] = f[L + 1]}
<1>1. L \in Nat /\ \A n \in Nat : Len(f[n].buffer) \in Nat
  <2>1. \A n \in Nat : f[n] \in Reading
    OBVIOUS
  <2> QED
    BY <2>1, HasLength
<1>2. 0 \in S
  <2>1. f[0] = r
    BY DEF Loop
  <2> QED
    BY <1>1, <2>1
<1> HIDE DEF L
<1>3. ASSUME NEW n \in S PROVE n + 1 \in S
  <2>1. n \in Nat /\ n + 1 \in Nat /\ f[n] \in Reading /\ f[n + 1] \in Reading
    OBVIOUS
  <2>2. f[n + 1] = Round(f[n])
    BY <2>1 DEF Loop
  <2>3. CASE Reads(f[n])
    <3>1. Len(f[n + 1].buffer) < Len(f[n].buffer)
      BY <2>1, <2>2, <2>3, RoundReads
    <3>2. Len(f[n].buffer) + n <= L
      BY <2>3
    <3>3. \A x, y, z, w \in Nat : x < y /\ y + z <= w => x + (z + 1) <= w
      OBVIOUS
    <3>4. Len(f[n + 1].buffer) + (n + 1) <= L
      BY <1>1, <2>1, <3>1, <3>2, <3>3
    <3> QED
      BY <2>1, <3>4
  <2>4. CASE ~Reads(f[n])
    BY <2>1, <2>2, <2>4, RoundRests
  <2> QED
    BY <2>3, <2>4
<1>4. S \in SUBSET Nat /\ T \in SUBSET Nat
  OBVIOUS
<1> HIDE DEF S, T
<1>5. Nat \subseteq S
  BY <1>2, <1>3, <1>4, Induction
<1>6. ASSUME NEW n \in Nat, n >= L PROVE ~Reads(f[n])
  <2>1. ~Reads(f[n]) \/ Len(f[n].buffer) + n <= L
    BY <1>5 DEF S
  <2>2. CASE Len(f[n].buffer) + n <= L
    <3>1. \A x, y, z \in Nat : x + y <= z /\ y >= z => x = 0
      OBVIOUS
    <3>2. Len(f[n].buffer) = 0
      BY <1>1, <1>6, <2>2, <3>1
    <3>3. ASSUME Reads(f[n]) PROVE FALSE
      <4>1. f[n] \in Reading
        OBVIOUS
      <4>2. Len(Round(f[n]).buffer) < Len(f[n].buffer) /\ Round(f[n]) \in Reading
        BY <3>3, <4>1, RoundReads
      <4>3. Len(Round(f[n]).buffer) \in Nat
        BY <4>2 DEF Reading
      <4> QED
        BY <3>2, <4>2, <4>3
    <3> QED
      BY <3>3
  <2> QED
    BY <2>1, <2>2
<1>7. 0 \in T
  BY <1>1 DEF T
<1>8. ASSUME NEW n \in T PROVE n + 1 \in T
  <2>1. n \in Nat /\ f[L + n + 1] = f[L + 1]
    BY DEF T
  <2>2. /\ L + n \in Nat /\ L + n >= L /\ L + n + 1 \in Nat
        /\ L + (n + 1) + 1 = (L + n + 1) + 1
    BY <1>1, <2>1
  <2>3. f[L + n] \in Reading /\ ~Reads(f[L + n])
    BY <1>6, <2>2
  <2>4. f[L + n + 1] = Round(f[L + n]) /\ f[(L + n + 1) + 1] = Round(f[L + n + 1])
    BY <2>2 DEF Loop
  <2>5. f[L + (n + 1) + 1] = f[L + 1]
    BY <2>1, <2>2, <2>3, <2>4, RoundRests
  <2> QED
    BY <2>1, <2>5 DEF T
<1>9. Nat \subseteq T
  BY <1>4, <1>7, <1>8, Induction
<1>10. ASSUME NEW n \in Nat, n >= L PROVE f[n + 1] = f[L + 1]
  <2>1. n - L \in Nat /\ L + (n - L) + 1 = n + 1
    BY <1>1, <1>10
  <2>2. n - L \in T
    BY <1>9, <2>1
  <2>3. f[L + (n - L) + 1] = f[L + 1]
    BY <2>2 DEF T
  <2> QED
    BY <2>1, <2>3
<1> QED
  BY <1>6, <1>10 DEF L

(* So Take is where the loop is after any larger number of rounds.         *)
LEMMA TakeIsEnd ==
  ASSUME NEW r \in Reading, NEW f \in [Nat -> Reading], Loop(f, r)
  PROVE  \A n \in Nat : n > Len(r.buffer) => Take(r) = f[n]
<1> SUFFICES ASSUME NEW n \in Nat, n > Len(r.buffer) PROVE Take(r) = f[n]
  OBVIOUS
<1>1. Len(r.buffer) \in Nat
  BY DEF Reading
<1>2. n - 1 \in Nat /\ n - 1 >= Len(r.buffer) /\ (n - 1) + 1 = n
  BY <1>1
<1>3. f[(n - 1) + 1] = f[Len(r.buffer) + 1]
  BY <1>2, LoopSettles
<1> QED
  BY <1>2, <1>3, TakeIsLoop

LEMMA TakeTypes ==
  ASSUME NEW r \in Reading
  PROVE  Take(r) \in Reading /\ Take(r).reader = r.reader
<1>1. PICK f \in [Nat -> Reading] : Loop(f, r)
  BY LoopExists
<1> DEFINE S == {n \in Nat : f[n].reader = r.reader}
<1>2. 0 \in S
  BY <1>1 DEF Loop
<1>3. ASSUME NEW n \in S PROVE n + 1 \in S
  <2>1. f[n + 1] = Round(f[n]) /\ f[n] \in Reading /\ n + 1 \in Nat
    BY <1>1 DEF Loop
  <2> QED
    BY <2>1, RoundTypes
<1>4. S \in SUBSET Nat
  OBVIOUS
<1> HIDE DEF S
<1>5. Nat \subseteq S
  BY <1>2, <1>3, <1>4, Induction
<1>6. Len(r.buffer) + 1 \in Nat
  BY DEF Reading
<1>7. Take(r) = f[Len(r.buffer) + 1]
  BY <1>1, TakeIsLoop
<1> QED
  BY <1>5, <1>6, <1>7 DEF S

LEMMA LoopLater ==
  ASSUME NEW r \in Reading, NEW f \in [Nat -> Reading], Loop(f, r), NEW k \in Nat
  PROVE  \E g \in [Nat -> Reading] : Loop(g, f[k]) /\ \A n \in Nat : g[n] = f[n + k]
<1> DEFINE g == [n \in Nat |-> f[n + k]]
<1>1. g \in [Nat -> Reading] /\ \A n \in Nat : g[n] = f[n + k]
  OBVIOUS
<1> HIDE DEF g
<1>2. g[0] = f[k]
  BY <1>1
<1>3. ASSUME NEW n \in Nat PROVE g[n + 1] = Round(g[n])
  <2>1. n + k \in Nat /\ (n + 1) + k = (n + k) + 1
    OBVIOUS
  <2>2. f[(n + k) + 1] = Round(f[n + k])
    BY <2>1 DEF Loop
  <2> QED
    BY <1>1, <2>1, <2>2
<1> QED
  BY <1>1, <1>2, <1>3 DEF Loop

(* With more bytes there, the loop goes through the same states.           *)
LEMMA LoopLonger ==
  ASSUME NEW r \in Reading, NEW y \in Seq(Byte),
         NEW f \in [Nat -> Reading], NEW g \in [Nat -> Reading],
         Loop(f, r), Loop(g, Longer(r, y))
  PROVE  \A n \in Nat : ~f[n].failed => \E k \in Nat : g[k] = Longer(f[n], y)
<1> DEFINE S == {n \in Nat : ~f[n].failed => \E k \in Nat : g[k] = Longer(f[n], y)}
<1>1. 0 \in S
  BY DEF Loop
<1>2. ASSUME NEW n \in S PROVE n + 1 \in S
  <2>1. n \in Nat /\ n + 1 \in Nat /\ f[n] \in Reading
    OBVIOUS
  <2>2. f[n + 1] = Round(f[n])
    BY <2>1 DEF Loop
  <2>3. SUFFICES ASSUME ~f[n + 1].failed PROVE \E k \in Nat : g[k] = Longer(f[n + 1], y)
    BY <2>1
  <2>4. ~f[n].failed
    BY <2>1, <2>2, <2>3, RoundTypes
  <2>5. PICK k \in Nat : g[k] = Longer(f[n], y)
    BY <2>4
  <2>6. k + 1 \in Nat /\ g[k + 1] = Round(g[k])
    BY DEF Loop
  <2> HIDE DEF S
  <2>7. CASE Reads(f[n])
    <3>1. Round(Longer(f[n], y)) = Longer(Round(f[n]), y)
      BY <2>1, <2>7, RoundLonger
    <3> QED
      BY <2>2, <2>5, <2>6, <3>1
  <2>8. CASE ~Reads(f[n])
    <3>1. Round(f[n]) = f[n] \/ Round(f[n]) = [f[n] EXCEPT !.failed = TRUE]
      BY <2>1, <2>8, RoundRests
    <3>2. [f[n] EXCEPT !.failed = TRUE].failed
      BY <2>1 DEF Reading
    <3>3. f[n + 1] = f[n]
      BY <2>2, <2>3, <3>1, <3>2
    <3> QED
      BY <2>5, <3>3
  <2> QED
    BY <2>7, <2>8
<1>3. S \in SUBSET Nat
  OBVIOUS
<1> HIDE DEF S
<1>4. Nat \subseteq S
  BY <1>1, <1>2, <1>3, Induction
<1> QED
  BY <1>4 DEF S

(* What the loop did not choke on may as well have come in two pieces.     *)
LEMMA TakeLonger ==
  ASSUME NEW r \in Reading, NEW y \in Seq(Byte), ~Take(r).failed
  PROVE  Take(Longer(r, y)) = Take(Longer(Take(r), y))
<1>1. Longer(r, y) \in Reading
  BY LongerTypes
<1>2. PICK f \in [Nat -> Reading] : Loop(f, r)
  BY LoopExists
<1>3. PICK g \in [Nat -> Reading] : Loop(g, Longer(r, y))
  BY <1>1, LoopExists
<1>4. PICK m \in Nat : Take(r) = f[m]
  <2>1. Len(r.buffer) + 1 \in Nat
    BY DEF Reading
  <2> QED
    BY <1>2, <2>1, TakeIsLoop
<1>5. PICK k \in Nat : g[k] = Longer(Take(r), y)
  BY <1>2, <1>3, <1>4, LoopLonger
<1>6. PICK h \in [Nat -> Reading] : Loop(h, g[k]) /\ \A n \in Nat : h[n] = g[n + k]
  BY <1>1, <1>3, LoopLater
<1> DEFINE a == Len(Longer(r, y).buffer)
           b == Len(g[k].buffer)
           n == a + b + 1
<1>7. a \in Nat /\ b \in Nat
  <2>1. g[k] \in Reading
    OBVIOUS
  <2> QED
    BY <1>1, <2>1, HasLength
<1>8. n \in Nat /\ n > b /\ n + k \in Nat /\ n + k > a
  <2> HIDE DEF a, b
  <2> QED
    BY <1>7
<1>9. Take(g[k]) = h[n]
  <2> HIDE DEF n
  <2>1. n > Len(g[k].buffer) /\ g[k] \in Reading
    BY <1>8
  <2> QED
    BY <1>6, <1>8, <2>1, TakeIsEnd
<1>10. Take(Longer(r, y)) = g[n + k]
  <2> HIDE DEF n
  <2>1. n + k > Len(Longer(r, y).buffer)
    BY <1>8
  <2> QED
    BY <1>1, <1>3, <1>8, <2>1, TakeIsEnd
<1>11. h[n] = g[n + k]
  BY <1>6, <1>8
<1> QED
  BY <1>5, <1>9, <1>10, <1>11

(* What the bridge's reader chokes on, it chokes on with more bytes there. *)
LEMMA TakeFails ==
  ASSUME NEW r \in Reading, NEW y \in Seq(Byte), r.reader = "bridge", Take(r).failed
  PROVE  Take(Longer(r, y)).failed \/ r.failed
<1> SUFFICES ASSUME ~r.failed PROVE Take(Longer(r, y)).failed
  OBVIOUS
<1>1. Longer(r, y) \in Reading
  BY LongerTypes
<1>2. PICK f \in [Nat -> Reading] : Loop(f, r)
  BY LoopExists
<1>3. PICK g \in [Nat -> Reading] : Loop(g, Longer(r, y))
  BY <1>1, LoopExists
<1> DEFINE S == {n \in Nat : f[n].reader = "bridge"
                             /\ (f[n].failed => \E k \in Nat : g[k].failed)}
<1>4. 0 \in S
  BY <1>2 DEF Loop
<1>5. ASSUME NEW n \in S PROVE n + 1 \in S
  <2>1. /\ n \in Nat /\ n + 1 \in Nat /\ f[n] \in Reading /\ f[n].reader = "bridge"
        /\ f[n].failed => \E k \in Nat : g[k].failed
    OBVIOUS
  <2>2. f[n + 1] = Round(f[n])
    BY <1>2, <2>1 DEF Loop
  <2>3. f[n + 1].reader = "bridge"
    BY <2>1, <2>2, RoundTypes
  <2>4. ASSUME f[n + 1].failed PROVE \E k \in Nat : g[k].failed
    <3>1. CASE f[n].failed
      BY <2>1, <3>1
    <3>2. CASE ~f[n].failed
      <4>1. PICK k \in Nat : g[k] = Longer(f[n], y)
        BY <1>2, <1>3, <2>1, <3>2, LoopLonger
      <4>2. Round(Longer(f[n], y)).failed
        BY <2>1, <2>2, <2>4, <3>2, RoundFails
      <4>3. k + 1 \in Nat /\ g[k + 1] = Round(g[k])
        BY <1>3 DEF Loop
      <4>4. g[k + 1].failed
        BY <4>1, <4>2, <4>3
      <4> QED
        BY <4>3, <4>4
    <3> QED
      BY <3>1, <3>2
  <2> QED
    BY <2>1, <2>3, <2>4
<1>6. S \in SUBSET Nat
  OBVIOUS
<1> HIDE DEF S
<1>7. Nat \subseteq S
  BY <1>4, <1>5, <1>6, Induction
<1>8. PICK k \in Nat : g[k].failed
  <2>1. Len(r.buffer) + 1 \in Nat
    BY DEF Reading
  <2>2. Take(r) = f[Len(r.buffer) + 1]
    BY <1>2, TakeIsLoop
  <2> QED
    BY <1>7, <2>1, <2>2 DEF S
<1>9. PICK h \in [Nat -> Reading] : Loop(h, g[k]) /\ \A n \in Nat : h[n] = g[n + k]
  BY <1>1, <1>3, LoopLater
<1> DEFINE T == {n \in Nat : h[n].failed}
<1>10. 0 \in T
  BY <1>8, <1>9 DEF Loop
<1>11. ASSUME NEW n \in T PROVE n + 1 \in T
  <2>1. n \in Nat /\ h[n] \in Reading /\ h[n].failed /\ h[n + 1] = Round(h[n])
    BY <1>9 DEF Loop
  <2>2. h[n + 1].failed
    BY <2>1, RoundTypes
  <2> QED
    BY <2>1, <2>2
<1>12. T \in SUBSET Nat
  OBVIOUS
<1> HIDE DEF T
<1>13. Nat \subseteq T
  BY <1>10, <1>11, <1>12, Induction
<1> DEFINE a == Len(Longer(r, y).buffer)
<1>14. a \in Nat /\ a + 1 \in Nat /\ (a + 1) + k \in Nat /\ (a + 1) + k > a
  <2>1. a \in Nat
    BY <1>1, HasLength
  <2> HIDE DEF a
  <2> QED
    BY <2>1
<1>15. Take(Longer(r, y)) = g[(a + 1) + k]
  BY <1>1, <1>3, <1>14, TakeIsEnd
<1>16. h[a + 1].failed /\ h[a + 1] = g[(a + 1) + k]
  BY <1>9, <1>13, <1>14 DEF T
<1> QED
  BY <1>15, <1>16

(* Frames that had been read before stay before those that are read.       *)
LEMMA TakePrepended ==
  ASSUME NEW r \in Reading, NEW o \in Seq(Message)
  PROVE  Prepended(o, r) \in Reading /\ Take(Prepended(o, r)) = Prepended(o, Take(r))
<1> DEFINE s == Prepended(o, r)
<1>1. s \in Reading
  BY RoundPrepended
<1>2. s.buffer = r.buffer
  BY DEF Prepended, Reading
<1>3. PICK f \in [Nat -> Reading] : Loop(f, r)
  BY LoopExists
<1>4. PICK g \in [Nat -> Reading] : Loop(g, s)
  BY <1>1, LoopExists
<1> HIDE DEF s
<1> DEFINE S == {n \in Nat : g[n] = Prepended(o, f[n])}
<1>5. 0 \in S
  BY <1>3, <1>4 DEF Loop, s
<1>6. ASSUME NEW n \in S PROVE n + 1 \in S
  <2>1. n \in Nat /\ n + 1 \in Nat /\ g[n] = Prepended(o, f[n]) /\ f[n] \in Reading
    OBVIOUS
  <2>2. g[n + 1] = Round(g[n]) /\ f[n + 1] = Round(f[n])
    BY <1>3, <1>4, <2>1 DEF Loop
  <2>3. g[n + 1] = Prepended(o, f[n + 1])
    BY <2>1, <2>2, RoundPrepended
  <2> QED
    BY <2>1, <2>3
<1>7. S \in SUBSET Nat
  OBVIOUS
<1> HIDE DEF S
<1>8. Nat \subseteq S
  BY <1>5, <1>6, <1>7, Induction
<1>9. Len(r.buffer) + 1 \in Nat
  BY DEF Reading
<1>10. Take(r) = f[Len(r.buffer) + 1] /\ Take(s) = g[Len(s.buffer) + 1]
  BY <1>1, <1>3, <1>4, TakeIsLoop
<1>11. g[Len(r.buffer) + 1] = Prepended(o, f[Len(r.buffer) + 1])
  BY <1>8, <1>9 DEF S
<1> QED
  BY <1>1, <1>2, <1>10, <1>11 DEF s

-----------------------------------------------------------------------------
(* push, and a connection that gets a chunk after another.                 *)

Connection == [reader : Readers, buffer : Seq(Byte), frames : Seq(Message), failed : BOOLEAN]
\* The state the loop starts in, and what becomes of the connection.
Started(c, x) == [reader |-> c.reader, buffer |-> c.buffer \o x, out |-> <<>>, failed |-> FALSE]

Ended(c, t) ==
    [reader |-> c.reader, buffer |-> t.buffer, failed |-> t.failed,
     frames |-> IF t.failed THEN c.frames ELSE c.frames \o t.out]

LEMMA RecordsChanged ==
  ASSUME NEW r \in Reading
  PROVE  \A z : /\ [r EXCEPT !.buffer = z] = [reader |-> r.reader, buffer |-> z,
                                              out |-> r.out, failed |-> r.failed]
               /\ [r EXCEPT !.out = z] = [reader |-> r.reader, buffer |-> r.buffer,
                                           out |-> z, failed |-> r.failed]
  BY DEF Reading

LEMMA LongerIs ==
  ASSUME NEW r \in Reading, NEW y
  PROVE  Longer(r, y) = [reader |-> r.reader, buffer |-> r.buffer \o y,
                         out |-> r.out, failed |-> r.failed]
  BY RecordsChanged DEF Longer

LEMMA PrependedIs ==
  ASSUME NEW r \in Reading, NEW o
  PROVE  Prepended(o, r) = [reader |-> r.reader, buffer |-> r.buffer,
                            out |-> o \o r.out, failed |-> r.failed]
  BY RecordsChanged DEF Prepended

LEMMA PrependedFields ==
  ASSUME NEW r \in Reading, NEW o \in Seq(Message)
  PROVE  /\ Prepended(o, r).buffer = r.buffer /\ Prepended(o, r).failed = r.failed
         /\ Prepended(o, r).out = o \o r.out
  BY DEF Prepended, Reading

LEMMA PushFailed ==
  ASSUME NEW c \in Connection, NEW x \in Seq(Byte), c.failed
  PROVE  Push(c, x) = c
  BY DEF Push

LEMMA StartedTypes ==
  ASSUME NEW c \in Connection, NEW x \in Seq(Byte)
  PROVE  Started(c, x) \in Reading /\ ~Started(c, x).failed /\ Started(c, x).reader = c.reader
<1>1. c.buffer \o x \in Seq(Byte)
  BY ConcatProperties DEF Connection
<1>2. <<>> \in Seq(Message)
  OBVIOUS
<1> QED
  BY <1>1, <1>2 DEF Started, Reading, Connection

LEMMA PushIs ==
  ASSUME NEW c \in Connection, NEW x \in Seq(Byte), ~c.failed
  PROVE  /\ Push(c, x) = Ended(c, Take(Started(c, x)))
         /\ Take(Started(c, x)) \in Reading /\ Push(c, x) \in Connection
<1> DEFINE t == Take(Started(c, x))
<1>1. t \in Reading
  BY StartedTypes, TakeTypes
<1> HIDE DEF t
<1>3. /\ c.frames \in Seq(Message) /\ t.out \in Seq(Message) /\ t.buffer \in Seq(Byte)
      /\ t.failed \in BOOLEAN /\ c.reader \in Readers
  BY <1>1 DEF Connection, Reading
<1>4. c.frames \o t.out \in Seq(Message)
  BY <1>3, ConcatProperties
<1>5. Push(c, x) = Ended(c, t)
  BY DEF Push, Started, Ended, t
<1>6. Ended(c, t) \in Connection
  BY <1>3, <1>4 DEF Connection, Ended
<1> QED
  BY <1>1, <1>5, <1>6 DEF t

LEMMA PushTypes ==
  ASSUME NEW c \in Connection, NEW x \in Seq(Byte)
  PROVE  Push(c, x) \in Connection /\ Push(c, x).reader = c.reader
<1>1. CASE c.failed
  BY <1>1, PushFailed
<1>2. CASE ~c.failed
  <2>1. Push(c, x) = Ended(c, Take(Started(c, x))) /\ Push(c, x) \in Connection
    BY <1>2, PushIs
  <2> QED
    BY <2>1 DEF Ended
<1> QED
  BY <1>1, <1>2

LEMMA Regrouped ==
  ASSUME NEW a \in Seq(Byte), NEW b \in Seq(Byte), NEW c \in Seq(Byte)
  PROVE  (a \o b) \o c = a \o (b \o c)
  BY ConcatAssociative

LEMMA RegroupedMessages ==
  ASSUME NEW a \in Seq(Message), NEW b \in Seq(Message), NEW c \in Seq(Message)
  PROVE  (a \o b) \o c = a \o (b \o c)
  BY ConcatAssociative

(* A chunk and the next one do what the two together do: the same frames   *)
(* and the same bytes left, as long as the reader does not throw.  It does *)
(* so in both cases or in none, if it did not throw at the first chunk;    *)
(* and the bridge's reader whether it did or not.  (The host's may throw   *)
(* only because a chunk ends within the delimiter of a header as long as   *)
(* its limit: what it has got by then is too long for a header.)           *)
THEOREM ChunksDoNotMatter ==
  ASSUME NEW c \in Connection, NEW x \in Seq(Byte), NEW y \in Seq(Byte)
  PROVE  /\ ~Push(Push(c, x), y).failed => Push(Push(c, x), y) = Push(c, x \o y)
         /\ c.reader = "bridge" \/ ~Push(c, x).failed =>
               Push(Push(c, x), y).failed = Push(c, x \o y).failed
<1> DEFINE r == Started(c, x)
           t == Take(r)
           d == Push(c, x)
           all == Started(c, x \o y)
<1>0. x \o y \in Seq(Byte)
  BY ConcatProperties
<1>1. CASE c.failed
  <2>1. d = c /\ Push(c, y) = c /\ Push(c, x \o y) = c
    BY <1>0, <1>1, PushFailed
  <2> QED
    BY <2>1
<1>2. CASE ~c.failed
  <2>1. r \in Reading /\ ~r.failed /\ r.reader = c.reader /\ all \in Reading
    BY <1>0, StartedTypes
  <2>2. t \in Reading /\ t.reader = r.reader
    BY <2>1, TakeTypes
  <2>3. d = Ended(c, t) /\ d \in Connection
    BY <1>2, PushIs
  <2>4. all = Longer(r, y)
    <3>1. c.buffer \in Seq(Byte)
      BY DEF Connection
    <3>2. c.buffer \o (x \o y) = (c.buffer \o x) \o y
      BY <3>1, Regrouped
    <3>3. Longer(r, y) = [reader |-> r.reader, buffer |-> r.buffer \o y,
                          out |-> r.out, failed |-> r.failed]
      <4> HIDE DEF r
      <4> QED
        BY <2>1, LongerIs
    <3> QED
      BY <3>2, <3>3 DEF Started
  <2>5. Push(c, x \o y) = Ended(c, Take(all)) /\ Take(all) \in Reading
    BY <1>0, <1>2, PushIs
  <2> HIDE DEF r, t, d, all
  <2>6. CASE t.failed
    <3>1. d.failed
      BY <2>3, <2>6 DEF Ended
    <3>2. Push(d, y) = d
      BY <2>3, <3>1, PushFailed
    <3>3. d.failed = TRUE
      BY <2>3, <3>1, Zenon DEF Connection
    <3>4. ASSUME c.reader = "bridge" PROVE Take(all).failed = TRUE
      <4>1. Take(all).failed
        BY <2>1, <2>4, <2>6, <3>4, TakeFails DEF t
      <4> QED
        BY <2>5, <4>1, Zenon DEF Reading
    <3>5. Push(c, x \o y).failed = Take(all).failed
      BY <2>5 DEF Ended
    <3>6. /\ Push(d, y).failed
          /\ c.reader = "bridge" \/ ~d.failed => Push(d, y).failed = Push(c, x \o y).failed
      BY <3>1, <3>2, <3>3, <3>4, <3>5
    <3> QED
      BY <3>6 DEF d
  <2>7. CASE ~t.failed
    <3> DEFINE s == Started(d, y)
               u == Take(s)
    <3>1. s \in Reading
      BY <2>3, StartedTypes
    <3>2. u \in Reading
      BY <3>1, TakeTypes
    <3>3. ~d.failed /\ d.frames = c.frames \o t.out /\ d.reader = c.reader /\ d.buffer = t.buffer
      BY <2>3, <2>7 DEF Ended
    <3>4. Push(d, y) = Ended(d, u)
      BY <2>3, <3>3, PushIs
    <3>5. t.out \in Seq(Message)
      BY <2>2 DEF Reading
    <3>6. Longer(t, y) = Prepended(t.out, s)
      <4>1. t.out \o <<>> = t.out
        BY <3>5, ConcatEmptySeq
      <4>2. s.reader = d.reader /\ s.buffer = d.buffer \o y /\ s.out = <<>> /\ s.failed = FALSE
        BY DEF Started
      <4>3. t.failed = FALSE
        BY <2>2, <2>7, Zenon DEF Reading
      <4> HIDE DEF s
      <4>4. Prepended(t.out, s) = [reader |-> d.reader, buffer |-> d.buffer \o y,
                                   out |-> t.out, failed |-> FALSE]
        BY <3>1, <4>1, <4>2, PrependedIs
      <4>5. Longer(t, y) = [reader |-> t.reader, buffer |-> t.buffer \o y,
                            out |-> t.out, failed |-> FALSE]
        BY <2>2, <4>3, LongerIs
      <4> QED
        BY <2>1, <2>2, <3>3, <4>4, <4>5
    <3> HIDE DEF s, u
    <3>7. Take(all) = Take(Longer(t, y))
      BY <2>1, <2>4, <2>7, TakeLonger DEF t
    <3>8. Take(all) = Prepended(t.out, u)
      BY <3>1, <3>5, <3>6, <3>7, TakePrepended DEF u
    <3>9. /\ Take(all).buffer = u.buffer /\ Take(all).failed = u.failed
          /\ Take(all).out = t.out \o u.out
      BY <3>2, <3>5, <3>8, PrependedFields
    <3>10. (c.frames \o t.out) \o u.out = c.frames \o (t.out \o u.out)
      <4>1. c.frames \in Seq(Message) /\ u.out \in Seq(Message)
        BY <3>2 DEF Connection, Reading
      <4> QED
        BY <3>5, <4>1, RegroupedMessages
    <3>11. Push(d, y).failed = u.failed /\ Push(c, x \o y).failed = u.failed
      BY <2>5, <3>4, <3>9 DEF Ended
    <3>12. ASSUME ~u.failed PROVE Push(d, y) = Push(c, x \o y)
      BY <2>5, <3>3, <3>4, <3>9, <3>10, <3>12 DEF Ended
    <3> QED
      BY <3>11, <3>12 DEF d
  <2> QED
    BY <2>6, <2>7
<1> QED
  BY <1>1, <1>2

(* A connection gets chunks: total is what it has got by then, after what  *)
(* has become of it.                                                       *)
Arriving(start, chunks, total, after) ==
    /\ chunks \in Seq(Seq(Byte))
    /\ total \in [0..Len(chunks) -> Seq(Byte)] /\ total[0] = <<>>
    /\ after \in [0..Len(chunks) -> Connection] /\ after[0] = start
    /\ \A i \in 1..Len(chunks) : /\ total[i] = total[i - 1] \o chunks[i]
                                 /\ after[i] = Push(after[i - 1], chunks[i])

(* However many chunks there are, and wherever they are cut, a connection  *)
(* that has not thrown is where it would be had the bytes come at once.    *)
(* It has thrown only if it would have at what one of the chunks brought   *)
(* it to; and the bridge's reader if and only if it would then.            *)
THEOREM AnyCutWillDo ==
  ASSUME NEW start \in Connection, NEW chunks, NEW total, NEW after,
         Arriving(start, chunks, total, after)
  PROVE  \A i \in 1..Len(chunks) :
            /\ ~after[i].failed => after[i] = Push(start, total[i])
            /\ start.reader = "bridge" => after[i].failed = Push(start, total[i]).failed
            /\ after[i].failed => \E j \in 1..i : Push(start, total[j]).failed
<1> DEFINE Fine(i) ==
             /\ ~after[i].failed => after[i] = Push(start, total[i])
             /\ start.reader = "bridge" => after[i].failed = Push(start, total[i]).failed
             /\ after[i].failed => \E j \in 1..i : Push(start, total[j]).failed
           S == {n \in Nat : n + 1 <= Len(chunks) => Fine(n + 1)}
<1>1. /\ Len(chunks) \in Nat /\ \A i \in 1..Len(chunks) : chunks[i] \in Seq(Byte)
      /\ total \in [0..Len(chunks) -> Seq(Byte)] /\ total[0] = <<>>
      /\ after \in [0..Len(chunks) -> Connection] /\ after[0] = start
  BY DEF Arriving
<1> DEFINE L == Len(chunks)
<1>2. ASSUME 1 <= L PROVE Fine(1)
  <2>1. 1 \in 1..L /\ 1 - 1 = 0
    BY <1>1, <1>2
  <2>2. after[1] = Push(after[0], chunks[1]) /\ total[1] = total[0] \o chunks[1]
    BY <2>1 DEF Arriving
  <2>3. total[0] = <<>> /\ chunks[1] \in Seq(Byte) /\ after[0] = start
    BY <1>1, <2>1
  <2>4. total[1] = chunks[1]
    BY <2>2, <2>3, ConcatEmptySeq
  <2>5. after[1] = Push(start, total[1]) /\ 1 \in 1..1
    BY <2>2, <2>3, <2>4
  <2> QED
    BY <2>5
<1> HIDE DEF L
<1>3. ASSUME NEW n \in Nat, n + 1 + 1 <= L, Fine(n + 1) PROVE Fine(n + 1 + 1)
  <2> DEFINE i == n + 1
  <2>1. /\ i \in 0..L /\ i + 1 \in 1..L /\ (i + 1) - 1 = i
    BY <1>1, <1>3 DEF L
  <2>2. after[i + 1] = Push(after[i], chunks[i + 1]) /\ total[i + 1] = total[i] \o chunks[i + 1]
    <3> HIDE DEF i
    <3>1. \A m \in 1..L : /\ after[m] = Push(after[m - 1], chunks[m])
                          /\ total[m] = total[m - 1] \o chunks[m]
      BY DEF Arriving, L
    <3> QED
      BY <2>1, <3>1
  <2>3. after[i] \in Connection /\ total[i] \in Seq(Byte) /\ chunks[i + 1] \in Seq(Byte)
    <3> HIDE DEF i
    <3> QED
      BY <1>1, <2>1 DEF L
  <2> DEFINE p == Push(start, total[i])
             ch == chunks[i + 1]
  <2>4. p \in Connection
    BY <2>3, PushTypes
  <2>5. /\ ~Push(p, ch).failed => Push(p, ch) = Push(start, total[i + 1])
        /\ start.reader = "bridge" \/ ~p.failed =>
              Push(p, ch).failed = Push(start, total[i + 1]).failed
    BY <2>2, <2>3, ChunksDoNotMatter
  <2>6. Fine(i)
    BY <1>3
  <2>7. CASE ~after[i].failed
    <3>1. after[i + 1] = Push(p, ch) /\ ~p.failed
      BY <2>2, <2>6, <2>7
    <3>2. after[i + 1].failed = Push(start, total[i + 1]).failed /\ i + 1 \in 1..(i + 1)
      BY <2>5, <3>1
    <3> HIDE DEF i, p, ch
    <3> QED
      BY <2>5, <3>1, <3>2 DEF i, p
  <2>8. CASE after[i].failed
    <3>1. after[i + 1] = after[i]
      BY <2>2, <2>3, <2>8, PushFailed
    <3>2. ASSUME start.reader = "bridge"
          PROVE  after[i + 1].failed = Push(start, total[i + 1]).failed
      <4>1. after[i].failed = p.failed
        BY <2>6, <3>2
      <4>2. Push(p, ch) = p
        BY <2>3, <2>4, <2>8, <4>1, PushFailed
      <4> QED
        BY <2>5, <3>1, <3>2, <4>1, <4>2
    <3>3. PICK j \in 1..i : Push(start, total[j]).failed
      BY <2>6, <2>8
    <3>4. j \in 1..(i + 1)
      BY <2>1
    <3> QED
      BY <2>8, <3>1, <3>2, <3>3, <3>4
  <2> QED
    BY <2>7, <2>8
<1>4. 0 \in S
  BY <1>2 DEF L
<1>5. ASSUME NEW n \in S PROVE n + 1 \in S
  <2>1. n \in Nat /\ (n + 1 <= L => Fine(n + 1))
    BY DEF L
  <2> HIDE DEF Fine
  <2>2. n + 1 \in Nat /\ (n + 1 + 1 <= L => n + 1 <= L)
    BY <1>1, <2>1 DEF L
  <2>3. n + 1 + 1 <= L => Fine(n + 1 + 1)
    BY <1>3, <2>1, <2>2
  <2> QED
    BY <2>2, <2>3 DEF L
<1>6. S \in SUBSET Nat
  OBVIOUS
<1> HIDE DEF S, Fine
<1>7. Nat \subseteq S
  BY <1>4, <1>5, <1>6, Induction
<1>8. ASSUME NEW i \in 1..L PROVE Fine(i)
  <2>1. i - 1 \in Nat /\ (i - 1) + 1 = i /\ i <= L
    BY <1>1 DEF L
  <2>2. (i - 1) + 1 <= L => Fine((i - 1) + 1)
    BY <1>7, <2>1 DEF S, L
  <2> QED
    BY <2>1, <2>2
<1> QED
  BY <1>8 DEF Fine, L

-----------------------------------------------------------------------------
(* A stream of frames.                                                     *)

\* The header has lengths the reader takes, no delimiter before its end, and
\* it declares the length of the body.  (The body may hold anything.)
Framed == [header : Seq(Byte), body : Message]
WellFramed(reader, f) ==
    /\ Delimiters(f.header \o Delimiter) = {Len(f.header)}
    /\ ~Refuses(reader, f.header)
    /\ Len(f.body) = DeclaredLength(f.header)

\* The host's reader may see a header and part of its delimiter, and no more.
HasRoom(reader, f) == reader = "host" => Len(f.header) + 3 <= MaxHeader

\* A stream of frames; and what is to come after each of them.
Stream(reader, frames, rest) ==
    /\ frames \in Seq(Framed)
    /\ \A i \in DOMAIN frames : WellFramed(reader, frames[i]) /\ HasRoom(reader, frames[i])
    /\ rest \in [0..Len(frames) -> Seq(Byte)] /\ rest[Len(frames)] = <<>>
    /\ \A i \in 1..Len(frames) : rest[i - 1] = BytesOf(frames[i]) \o rest[i]

LEMMA Joined ==
  ASSUME NEW a \in Seq(Byte), NEW b \in Seq(Byte)
  PROVE  /\ a \o b \in Seq(Byte) /\ Len(a \o b) = Len(a) + Len(b)
         /\ Len(a) \in Nat /\ Len(b) \in Nat
  BY ConcatProperties

LEMMA DelimiterTypes ==
  Delimiter \in Seq(Byte) /\ Len(Delimiter) = 4
<1>1. "CR" \in Byte /\ "LF" \in Byte
  BY DEF Byte, Declared
<1>2. \A a, b \in Byte : <<a, b, a, b>> \in Seq(Byte) /\ Len(<<a, b, a, b>>) = 4
  OBVIOUS
<1> QED
  BY <1>1, <1>2 DEF Delimiter

LEMMA FrameTypes ==
  ASSUME NEW f \in Framed
  PROVE  /\ f.header \in Seq(Byte) /\ f.body \in Seq(Byte)
         /\ f.header \o Delimiter \in Seq(Byte)
         /\ Len(f.header \o Delimiter) = Len(f.header) + 4
         /\ BytesOf(f) \in Seq(Byte)
         /\ Len(BytesOf(f)) = Len(f.header) + 4 + Len(f.body)
         /\ Len(f.header) \in Nat /\ Len(f.body) \in Nat
<1>1. f.header \in Seq(Byte) /\ f.body \in Seq(Byte)
  BY DEF Framed, Message
<1>2. Delimiter \in Seq(Byte) /\ Len(Delimiter) = 4
  BY DelimiterTypes
<1> DEFINE h == f.header
           b == f.body
<1> HIDE DEF h, b
<1>3. h \in Seq(Byte) /\ b \in Seq(Byte)
  BY <1>1 DEF h, b
<1>4. /\ h \o Delimiter \in Seq(Byte) /\ Len(h \o Delimiter) = Len(h) + Len(Delimiter)
      /\ Len(h) \in Nat
  BY <1>2, <1>3, Joined
<1> DEFINE d == h \o Delimiter
<1> HIDE DEF d
<1>5. /\ d \o b \in Seq(Byte) /\ Len(d \o b) = Len(d) + Len(b) /\ Len(b) \in Nat
  BY <1>3, <1>4, Joined DEF d
<1>6. Len(d) = Len(h) + 4 /\ Len(d \o b) = Len(h) + 4 + Len(b)
  BY <1>2, <1>4, <1>5 DEF d
<1> QED
  BY <1>1, <1>4, <1>5, <1>6 DEF BytesOf, h, b, d

LEMMA HeaderOfFrame ==
  ASSUME NEW f \in Framed, Delimiters(f.header \o Delimiter) = {Len(f.header)}
  PROVE  /\ Delimiters(BytesOf(f)) # {} /\ HeaderEnd(BytesOf(f)) = Len(f.header)
         /\ SubSeq(BytesOf(f), 1, Len(f.header)) = f.header
<1> DEFINE h == f.header
           d == f.header \o Delimiter
           b == f.body
<1>1. /\ h \in Seq(Byte) /\ b \in Seq(Byte) /\ d \in Seq(Byte)
      /\ Len(d) = Len(h) + 4 /\ Len(h) \in Nat
  BY FrameTypes
<1>2. Delimiters(d) = {Len(h)} /\ Delimiters(d) # {}
  OBVIOUS
<1>3. d = h \o Delimiter /\ BytesOf(f) = d \o b
  BY DEF BytesOf
<1>4. Delimiter \in Seq(Byte)
  BY DelimiterTypes
<1> HIDE DEF h, d, b
<1>5. HeaderEnd(d) = Len(h)
  BY <1>1, <1>2, DelimiterIsThere
<1>6. Delimiters(d \o b) # {} /\ HeaderEnd(d \o b) = Len(h)
  BY <1>1, <1>2, <1>5, SameHeader
<1>7. SubSeq(d \o b, 1, Len(h)) = SubSeq(d, 1, Len(h))
  <2>1. Len(h) <= Len(d) /\ 1 \in Nat \ {0}
    BY <1>1
  <2> QED
    BY <1>1, <2>1, PartOfLonger
<1>8. SubSeq(d, 1, Len(h)) = h
  <2>1. SubSeq(h \o Delimiter, 1, Len(h)) = SubSeq(h, 1, Len(h))
    <3>1. Len(h) <= Len(h) /\ 1 \in Nat \ {0}
      BY <1>1
    <3> QED
      BY <1>1, <1>4, <3>1, PartOfLonger
  <2>2. SubSeq(h, 1, Len(h)) = h
    BY <1>1, SubSeqFull
  <2> QED
    BY <1>3, <2>1, <2>2
<1> QED
  BY <1>3, <1>6, <1>7, <1>8 DEF h

LEMMA NothingToRead ==
  ASSUME MaxHeader \in Nat, NEW r \in Reading, r.buffer = <<>>, ~r.failed
  PROVE  Round(r) = r
<1>1. Len(r.buffer) = 0
  OBVIOUS
<1>2. Delimiters(r.buffer) = {}
  BY <1>1 DEF Delimiters
<1>3. ~Failing(r)
  BY <1>1, <1>2 DEF Failing
<1>4. ~Complete(r)
  BY <1>2 DEF Complete
<1> QED
  BY <1>3, <1>4 DEF Round

(* A frame at the head of the buffer is the one that is read.              *)
LEMMA RoundOfFrame ==
  ASSUME NEW r \in Reading, ~r.failed, NEW f \in Framed, WellFramed(r.reader, f),
         NEW y \in Seq(Byte), r.buffer = BytesOf(f) \o y
  PROVE  /\ Round(r) \in Reading /\ ~Round(r).failed /\ Round(r).reader = r.reader
         /\ Round(r).buffer = y /\ Round(r).out = Append(r.out, f.body)
<1> DEFINE b == BytesOf(f)
           w == b \o y
           h == f.header
           d == f.header \o Delimiter
           m == f.body
<1>1. /\ b \in Seq(Byte) /\ d \in Seq(Byte) /\ m \in Seq(Byte) /\ h \in Seq(Byte)
      /\ Len(h) \in Nat /\ Len(m) \in Nat
      /\ Len(d) = Len(h) + 4 /\ Len(b) = Len(h) + 4 + Len(m)
  BY FrameTypes
<1>2. b = d \o m
  BY DEF BytesOf
<1>3. Delimiters(b) # {} /\ HeaderEnd(b) = Len(h) /\ SubSeq(b, 1, Len(h)) = h
  BY HeaderOfFrame DEF WellFramed
<1>4. ~Refuses(r.reader, h) /\ DeclaredLength(h) = Len(m)
  BY DEF WellFramed
<1> HIDE DEF b, h, d, m
<1>5. w \in Seq(Byte) /\ Len(w) = Len(b) + Len(y) /\ Len(y) \in Nat /\ r.buffer = w
  BY <1>1, Joined DEF b
<1>6. Delimiters(w) # {} /\ HeaderEnd(w) = Len(h) /\ SubSeq(w, 1, Len(h)) = h
  BY <1>1, <1>3, SameHeader
<1> HIDE DEF w
<1>7. BodyEnd(w) = Len(b)
  BY <1>1, <1>4, <1>6 DEF BodyEnd
<1>8. Reads(r)
  <2>1. ~Failing(r)
    BY <1>4, <1>5, <1>6 DEF Failing
  <2>2. BodyEnd(w) <= Len(w)
    BY <1>1, <1>5, <1>7
  <2> QED
    BY <1>5, <1>6, <2>1, <2>2 DEF Reads, Complete
<1>9. BodyOf(r) = m
  <2>1. BodyOf(r) = SubSeq(w, Len(d) + 1, Len(b))
    <3>1. Len(h) + 5 = Len(d) + 1
      BY <1>1
    <3> QED
      BY <1>5, <1>6, <1>7, <3>1 DEF BodyOf
  <2>2. SubSeq(w, Len(d) + 1, Len(b)) = SubSeq(b, Len(d) + 1, Len(b))
    <3>1. Len(d) + 1 \in Nat \ {0} /\ Len(b) \in Nat /\ Len(b) <= Len(b)
      BY <1>1
    <3> DEFINE g == Len(d) + 1
               n == Len(b)
    <3> HIDE DEF g, n
    <3>2. SubSeq(b \o y, g, n) = SubSeq(b, g, n)
      BY <1>1, <3>1, PartOfLonger DEF g, n
    <3> QED
      BY <3>2 DEF g, n, w
  <2>3. SubSeq(d \o m, Len(d) + 1, Len(d \o m)) = SubSeq(d, Len(d) + 1, Len(d)) \o m
    <3>1. Len(d) \in Nat /\ Len(d) <= Len(d)
      BY <1>1
    <3> QED
      BY <1>1, <3>1, RestOfLonger
  <2>4. SubSeq(d, Len(d) + 1, Len(d)) = <<>>
    <3>1. Len(d) + 1 \in Int /\ Len(d) \in Int /\ Len(d) < Len(d) + 1
      BY <1>1
    <3> QED
      BY <3>1, SubSeqEmpty
  <2>5. <<>> \o m = m
    BY <1>1, ConcatEmptySeq
  <2> QED
    BY <1>2, <2>1, <2>2, <2>3, <2>4, <2>5
<1>10. Left(r) = y
  <2>1. SubSeq(b \o y, Len(b) + 1, Len(b \o y)) = SubSeq(b, Len(b) + 1, Len(b)) \o y
    <3>1. Len(b) \in Nat /\ Len(b) <= Len(b)
      BY <1>1
    <3> QED
      BY <1>1, <3>1, RestOfLonger
  <2>2. SubSeq(b, Len(b) + 1, Len(b)) = <<>>
    <3>1. Len(b) + 1 \in Int /\ Len(b) \in Int /\ Len(b) < Len(b) + 1
      BY <1>1
    <3> QED
      BY <3>1, SubSeqEmpty
  <2>3. <<>> \o y = y
    BY ConcatEmptySeq
  <2> QED
    BY <1>5, <1>7, <2>1, <2>2, <2>3 DEF Left, w
<1> QED
  BY <1>8, <1>9, <1>10, RoundReads DEF m

(* A piece that ends within a frame gives the reader no cause to throw.    *)
LEMMA PieceOfFrame ==
  ASSUME MaxHeader \in Nat, NEW r \in Reading, NEW f \in Framed,
         WellFramed(r.reader, f), HasRoom(r.reader, f),
         NEW y \in Seq(Byte), NEW z \in Seq(Byte), r.buffer \o z = BytesOf(f) \o y
  PROVE  ~Failing(r)
<1> DEFINE b == BytesOf(f)
           v == r.buffer
           h == f.header
<1>1. b \in Seq(Byte) /\ h \in Seq(Byte) /\ Len(h) \in Nat /\ v \in Seq(Byte)
  BY FrameTypes DEF Reading
<1>2. Delimiters(b) # {} /\ HeaderEnd(b) = Len(h) /\ SubSeq(b, 1, Len(h)) = h
  BY HeaderOfFrame DEF WellFramed
<1>3. ~Refuses(r.reader, h) /\ (r.reader = "host" => Len(h) + 3 <= MaxHeader)
  BY DEF WellFramed, HasRoom
<1>4. v \o z = b \o y
  OBVIOUS
<1> HIDE DEF b, h
<1> DEFINE w == b \o y
<1>5. Delimiters(w) # {} /\ HeaderEnd(w) = Len(h) /\ SubSeq(w, 1, Len(h)) = h
  BY <1>1, <1>2, SameHeader
<1>6. CASE Delimiters(v) # {}
  <2>1. HeaderEnd(v \o z) = HeaderEnd(v)
        /\ SubSeq(v \o z, 1, HeaderEnd(v)) = SubSeq(v, 1, HeaderEnd(v))
    BY <1>1, <1>6, SameHeader
  <2>2. SubSeq(v, 1, HeaderEnd(v)) = h
    BY <1>4, <1>5, <2>1
  <2> QED
    BY <1>3, <1>6, <2>2 DEF Failing
<1>7. CASE Delimiters(v) = {}
  <2>1. Len(h) \in Delimiters(w) /\ w \in Seq(Byte)
    <3>1. w \in Seq(Byte)
      BY <1>1, Joined
    <3> HIDE DEF w
    <3> QED
      BY <1>5, <3>1, DelimiterIsThere
  <2>2. ~(Len(h) + 4 <= Len(v))
    <3>1. Len(h) \in Delimiters(v \o z)
      BY <1>4, <2>1
    <3> QED
      BY <1>1, <1>7, <3>1, SameDelimiters
  <2>3. Len(v) \in Nat
    BY <1>1
  <2>4. r.reader = "host" => ~(Len(v) > MaxHeader)
    <3>1. \A l, k, q \in Nat : l + 3 <= q /\ ~(l + 4 <= k) => ~(k > q)
      OBVIOUS
    <3> HIDE DEF v
    <3> QED
      BY <1>1, <1>3, <2>2, <2>3, <3>1
  <2> QED
    BY <1>7, <2>4 DEF Failing
<1> QED
  BY <1>6, <1>7

(* What the loop finds in a stream of frames that is all there: one frame  *)
(* after another, and then nothing.                                        *)
LEMMA StreamLoop ==
  ASSUME MaxHeader \in Nat, NEW r \in Reading, ~r.failed, r.out = <<>>,
         NEW frames, NEW rest, Stream(r.reader, frames, rest), r.buffer = rest[0],
         NEW g \in [Nat -> Reading], Loop(g, r)
  PROVE  /\ \A n \in 0..Len(frames) :
              /\ ~g[n].failed /\ g[n].reader = r.reader /\ g[n].buffer = rest[n]
              /\ Len(g[n].out) = n /\ \A i \in 1..n : g[n].out[i] = frames[i].body
         /\ \A n \in Nat : n >= Len(frames) => g[n] = g[Len(frames)]
<1> DEFINE L == Len(frames)
           There(n) ==
              /\ ~g[n].failed /\ g[n].reader = r.reader /\ g[n].buffer = rest[n]
              /\ Len(g[n].out) = n /\ \A i \in 1..n : g[n].out[i] = frames[i].body
           S == {n \in Nat : n <= L => There(n)}
           T == {n \in Nat : n >= L => g[n] = g[L]}
<1>0. /\ frames \in Seq(Framed) /\ rest \in [0..Len(frames) -> Seq(Byte)]
      /\ \A i \in DOMAIN frames : WellFramed(r.reader, frames[i]) /\ HasRoom(r.reader, frames[i])
  BY DEF Stream
<1>1. L \in Nat /\ DOMAIN frames = 1..L /\ \A i \in 1..L : frames[i] \in Framed
  BY <1>0
<1>2. 0 \in S
  <2>1. g[0] = r
    BY DEF Loop
  <2>2. Len(<<>>) = 0 /\ 1..0 = {}
    OBVIOUS
  <2> QED
    BY <2>1, <2>2
<1>3. ASSUME NEW n \in Nat, n + 1 <= L, There(n) PROVE There(n + 1)
  <2> DEFINE i == n + 1
             x == g[n]
             f == frames[i]
  <2>1. i \in 1..L /\ i - 1 = n /\ i \in 0..L /\ n \in 0..L /\ i \in Nat
    BY <1>1, <1>3
  <2> HIDE DEF L
  <2>2. x \in Reading /\ g[i] = Round(x)
    BY <1>3 DEF Loop
  <2>3. f \in Framed /\ WellFramed(x.reader, f)
    BY <1>0, <1>1, <1>3, <2>1
  <2>4. rest[n] = BytesOf(f) \o rest[i] /\ rest[i] \in Seq(Byte)
    <3>1. \A k \in 1..L : rest[k - 1] = BytesOf(frames[k]) \o rest[k]
      BY DEF Stream, L
    <3> HIDE DEF i
    <3>2. rest[i] \in Seq(Byte)
      BY <1>0, <2>1 DEF L
    <3> QED
      BY <2>1, <3>1, <3>2
  <2>5. x.buffer = BytesOf(f) \o rest[i] /\ ~x.failed
    BY <1>3, <2>4
  <2> HIDE DEF i, x, f
  <2>6. /\ g[i] \in Reading /\ ~g[i].failed /\ g[i].reader = x.reader
        /\ g[i].buffer = rest[i] /\ g[i].out = Append(x.out, f.body)
    <3> DEFINE y == rest[i]
    <3>1. y \in Seq(Byte) /\ x.buffer = BytesOf(f) \o y
      BY <2>4, <2>5
    <3> HIDE DEF y
    <3>2. /\ Round(x) \in Reading /\ ~Round(x).failed /\ Round(x).reader = x.reader
          /\ Round(x).buffer = y /\ Round(x).out = Append(x.out, f.body)
      BY <2>2, <2>3, <2>5, <3>1, RoundOfFrame
    <3> QED
      BY <2>2, <3>2 DEF y
  <2>7. Len(g[i].out) = i /\ \A k \in 1..i : g[i].out[k] = frames[k].body
    <3> DEFINE o == x.out
               m == f.body
    <3>1. o \in Seq(Message) /\ m \in Message
      BY <2>2, <2>3 DEF Reading, Framed
    <3>2. Len(o) = n /\ \A k \in 1..n : o[k] = frames[k].body
      BY <1>3 DEF x
    <3>3. m = frames[i].body
      BY DEF f
    <3> HIDE DEF o, m
    <3>4. Len(Append(o, m)) = n + 1
      BY <3>1, <3>2
    <3>5. \A k \in 1..n : Append(o, m)[k] = o[k]
      BY <3>1, <3>2
    <3>6. Append(o, m)[n + 1] = m
      BY <3>1, <3>2
    <3>7. \A k \in 1..(n + 1) : k \in 1..n \/ k = n + 1
      BY <1>3
    <3>8. Append(o, m) = g[i].out
      BY <2>6 DEF o, m
    <3> QED
      BY <3>2, <3>3, <3>4, <3>5, <3>6, <3>7, <3>8 DEF i
  <2>8. g[i].reader = r.reader
    BY <1>3, <2>6 DEF x
  <2> QED
    BY <2>6, <2>7, <2>8 DEF i
<1>4. ASSUME NEW n \in S PROVE n + 1 \in S
  <2>1. n \in Nat /\ (n <= L => There(n))
    BY DEF L
  <2> HIDE DEF There
  <2>2. n + 1 \in Nat /\ (n + 1 <= L => n <= L)
    BY <1>1, <2>1 DEF L
  <2>3. n + 1 <= L => There(n + 1)
    BY <1>3, <2>1, <2>2
  <2> QED
    BY <2>2, <2>3
<1>5. S \in SUBSET Nat /\ T \in SUBSET Nat
  OBVIOUS
<1> HIDE DEF S, There
<1>6. Nat \subseteq S
  BY <1>2, <1>4, <1>5, Induction
<1>7. \A n \in 0..L : There(n)
  <2>1. \A n \in 0..L : n \in Nat /\ n <= L
    BY <1>1
  <2> QED
    BY <1>6, <2>1 DEF S
<1>8. Round(g[L]) = g[L]
  <2>1. L \in 0..L /\ g[L] \in Reading
    BY <1>1
  <2>2. rest[L] = <<>>
    BY DEF Stream
  <2>3. g[L].buffer = <<>> /\ ~g[L].failed
    BY <1>7, <2>1, <2>2 DEF There
  <2> HIDE DEF L
  <2> QED
    BY <2>1, <2>3, NothingToRead
<1>9. 0 \in T
  <2>1. 0 >= L => L = 0
    BY <1>1
  <2> QED
    BY <2>1
<1>10. ASSUME NEW n \in T PROVE n + 1 \in T
  <2>1. n \in Nat /\ n + 1 \in Nat /\ (n >= L => g[n] = g[L])
    OBVIOUS
  <2>2. g[n + 1] = Round(g[n])
    BY <2>1 DEF Loop
  <2> HIDE DEF L
  <2>3. n + 1 >= L => n >= L \/ n + 1 = L
    BY <1>1, <2>1
  <2> QED
    BY <1>8, <2>1, <2>2, <2>3
<1> HIDE DEF T
<1>11. Nat \subseteq T
  BY <1>5, <1>9, <1>10, Induction
<1> QED
  BY <1>7, <1>11 DEF T, There, L

(* A piece of a stream of frames, with the rest still to come.             *)
LEMMA PieceOfStream ==
  ASSUME MaxHeader \in Nat, NEW r \in Reading, ~r.failed, r.out = <<>>,
         NEW frames, NEW rest, Stream(r.reader, frames, rest),
         NEW z \in Seq(Byte), r.buffer \o z = rest[0]
  PROVE  ~Take(r).failed
<1> DEFINE L == Len(frames)
           all == Longer(r, z)
<1>0. /\ frames \in Seq(Framed) /\ rest \in [0..Len(frames) -> Seq(Byte)]
      /\ \A i \in DOMAIN frames : WellFramed(r.reader, frames[i]) /\ HasRoom(r.reader, frames[i])
  BY DEF Stream
<1>1. L \in Nat /\ DOMAIN frames = 1..L /\ \A i \in 1..L : frames[i] \in Framed
  BY <1>0
<1>2. /\ all \in Reading /\ all.buffer = rest[0] /\ all.reader = r.reader /\ ~all.failed
      /\ all.out = <<>>
  <2>1. /\ all \in Reading /\ all.buffer = r.buffer \o z /\ all.reader = r.reader
        /\ all.failed = r.failed /\ all.out = r.out
    BY LongerTypes
  <2> HIDE DEF all
  <2> QED
    BY <2>1
<1>3. PICK f \in [Nat -> Reading] : Loop(f, r)
  BY LoopExists
<1>4. PICK g \in [Nat -> Reading] : Loop(g, all)
  BY <1>2, LoopExists
<1>5. /\ \A n \in 0..L : g[n].reader = r.reader /\ g[n].buffer = rest[n]
      /\ \A n \in Nat : n >= L => g[n] = g[L]
  <2> HIDE DEF all
  <2>1. Stream(all.reader, frames, rest)
    BY <1>2
  <2>2. /\ \A n \in 0..Len(frames) :
              /\ ~g[n].failed /\ g[n].reader = all.reader /\ g[n].buffer = rest[n]
              /\ Len(g[n].out) = n /\ \A i \in 1..n : g[n].out[i] = frames[i].body
        /\ \A n \in Nat : n >= Len(frames) => g[n] = g[Len(frames)]
    BY <1>2, <1>4, <2>1, StreamLoop
  <2> QED
    BY <1>2, <2>2
<1> DEFINE S == {n \in Nat : ~f[n].failed}
<1>6. 0 \in S
  BY <1>3 DEF Loop
<1>7. ASSUME NEW n \in S PROVE n + 1 \in S
  <2> DEFINE x == f[n]
  <2>1. n \in Nat /\ n + 1 \in Nat /\ x \in Reading /\ ~x.failed /\ f[n + 1] = Round(x)
    <3>1. n \in Nat /\ ~f[n].failed
      OBVIOUS
    <3> HIDE DEF S
    <3>2. n + 1 \in Nat /\ f[n] \in Reading
      BY <3>1
    <3>3. f[n + 1] = Round(f[n])
      BY <1>3, <3>1, Zenon DEF Loop
    <3> QED
      BY <3>1, <3>2, <3>3
  <2>2. PICK k \in Nat : g[k] = Longer(x, z)
    <3>1. Loop(g, Longer(r, z))
      BY <1>4
    <3>2. \A m \in Nat : ~f[m].failed => \E k \in Nat : g[k] = Longer(f[m], z)
      <4> HIDE DEF all, x, S
      <4> QED
        BY <1>3, <3>1, LoopLonger
    <3> QED
      BY <2>1, <3>2
  <2> HIDE DEF x
  <2>3. Longer(x, z).buffer = x.buffer \o z /\ Longer(x, z).reader = x.reader
    BY <2>1, LongerTypes
  <2>4. PICK j \in 0..L : g[k] = g[j]
    <3>1. CASE k <= L
      <4>1. k \in 0..L
        BY <1>1, <3>1
      <4> QED
        BY <4>1
    <3>2. CASE ~(k <= L)
      <4>1. k >= L /\ L \in 0..L
        BY <1>1, <3>2
      <4> QED
        BY <1>5, <4>1
    <3> QED
      BY <3>1, <3>2
  <2>5. x.reader = r.reader /\ x.buffer \o z = rest[j]
    BY <1>5, <2>2, <2>3, <2>4
  <2>6. ~Failing(x)
    <3>1. CASE j = L
      <4>1. x.buffer \in Seq(Byte) /\ x.buffer \o z = <<>>
        BY <2>1, <2>5, <3>1 DEF Reading, Stream
      <4>2. Len(x.buffer) = 0
        <5>1. /\ Len(x.buffer \o z) = Len(x.buffer) + Len(z)
              /\ Len(x.buffer) \in Nat /\ Len(z) \in Nat
          BY <4>1, Joined
        <5>2. Len(<<>>) = 0
          OBVIOUS
        <5> QED
          BY <4>1, <5>1, <5>2
      <4>3. Delimiters(x.buffer) = {}
        BY <4>2 DEF Delimiters
      <4> QED
        BY <4>2, <4>3 DEF Failing
    <3>2. CASE j # L
      <4> DEFINE i == j + 1
                 h == frames[i]
      <4>1. i \in 1..L /\ i - 1 = j /\ i \in 0..L
        <5>1. \A m \in Nat : \A q \in 0..m :
                 q # m => q + 1 \in 1..m /\ (q + 1) - 1 = q /\ q + 1 \in 0..m
          OBVIOUS
        <5> HIDE DEF L
        <5> QED
          BY <1>1, <3>2, <5>1
      <4>2. h \in Framed /\ WellFramed(x.reader, h) /\ HasRoom(x.reader, h)
        BY <1>0, <1>1, <2>5, <4>1
      <4>3. rest[j] = BytesOf(h) \o rest[i] /\ rest[i] \in Seq(Byte)
        <5>1. \A q \in 1..L : rest[q - 1] = BytesOf(frames[q]) \o rest[q]
          BY DEF Stream
        <5> HIDE DEF i, L
        <5>2. rest[i] \in Seq(Byte)
          BY <1>0, <4>1 DEF L
        <5> QED
          BY <4>1, <5>1, <5>2
      <4> HIDE DEF i, h
      <4> QED
        BY <2>1, <2>5, <4>2, <4>3, PieceOfFrame
    <3> QED
      BY <3>1, <3>2
  <2>7. ~Round(x).failed
    <3>1. CASE Reads(x)
      BY <2>1, <3>1, RoundReads
    <3>2. CASE ~Reads(x)
      BY <2>1, <2>6, <3>2 DEF Round, Reads
    <3> QED
      BY <3>1, <3>2
  <2> QED
    BY <2>1, <2>7
<1>8. S \in SUBSET Nat
  OBVIOUS
<1> HIDE DEF S
<1>9. Nat \subseteq S
  BY <1>6, <1>7, <1>8, Induction
<1>10. Len(r.buffer) + 1 \in Nat
  BY DEF Reading
<1> QED
  BY <1>3, <1>9, <1>10, TakeIsLoop DEF S

(* A stream of frames, in whatever chunks it comes: when the last chunk    *)
(* has come, the connection has returned the bodies of all the frames, in  *)
(* their order, nothing else, and has no byte left; it has not thrown.     *)
THEOREM FramesArriveWhole ==
  ASSUME MaxHeader \in Nat, NEW reader \in Readers,
         NEW frames, NEW rest, Stream(reader, frames, rest),
         NEW chunks, NEW total, NEW after, Arriving(Opened(reader), chunks, total, after),
         chunks # <<>>, total[Len(chunks)] = rest[0]
  PROVE  after[Len(chunks)] =
            [reader |-> reader, buffer |-> <<>>, failed |-> FALSE,
             frames |-> [i \in 1..Len(frames) |-> frames[i].body]]
<1> DEFINE K == Len(chunks)
           L == Len(frames)
           c == Opened(reader)
           T == {n \in Nat : n <= K => \E z \in Seq(Byte) : total[K - n] \o z = rest[0]}
<1>1. /\ K \in Nat /\ K >= 1 /\ \A i \in 1..K : chunks[i] \in Seq(Byte)
      /\ L \in Nat /\ \A i \in 0..K : total[i] \in Seq(Byte)
  <2>1. K \in Nat /\ L \in Nat /\ \A i \in 1..K : chunks[i] \in Seq(Byte)
    BY DEF Arriving, Stream
  <2>2. K # 0
    BY EmptySeq DEF Arriving
  <2>3. \A i \in 0..K : total[i] \in Seq(Byte)
    BY DEF Arriving
  <2> HIDE DEF K
  <2>4. K >= 1
    BY <2>1, <2>2
  <2> QED
    BY <2>1, <2>3, <2>4
<1>0. /\ frames \in Seq(Framed) /\ rest \in [0..L -> Seq(Byte)]
  BY DEF Stream
<1>2. c \in Connection /\ ~c.failed /\ c.reader = reader /\ c.buffer = <<>> /\ c.frames = <<>>
  <2>1. <<>> \in Seq(Byte) /\ <<>> \in Seq(Message)
    OBVIOUS
  <2> QED
    BY <2>1 DEF Opened, Connection
<1> HIDE DEF c
<1>3. 0 \in T
  <2>1. rest[0] \o <<>> = rest[0] /\ <<>> \in Seq(Byte) /\ K - 0 = K
    <3>1. 0 \in 0..L
      BY <1>1
    <3>2. rest[0] \in Seq(Byte)
      BY <1>0, <3>1
    <3> QED
      BY <1>1, <3>2, ConcatEmptySeq
  <2> QED
    BY <2>1
<1> HIDE DEF K, L
<1>4. ASSUME NEW n \in T PROVE n + 1 \in T
  <2>1. n \in Nat /\ n + 1 \in Nat
    OBVIOUS
  <2>2. SUFFICES ASSUME n + 1 <= K PROVE \E z \in Seq(Byte) : total[K - (n + 1)] \o z = rest[0]
    BY <2>1
  <2>3. PICK z \in Seq(Byte) : total[K - n] \o z = rest[0]
    <3>1. n <= K
      BY <1>1, <2>1, <2>2
    <3> QED
      BY <3>1
  <2> DEFINE i == K - n
  <2>4. i \in 1..K /\ i - 1 = K - (n + 1) /\ i - 1 \in 0..K
    BY <1>1, <2>1, <2>2
  <2> HIDE DEF i
  <2>5. total[i] = total[i - 1] \o chunks[i]
    <3>1. \A m \in 1..K : total[m] = total[m - 1] \o chunks[m]
      BY DEF Arriving, K
    <3> QED
      BY <2>4, <3>1
  <2> DEFINE a == total[i - 1]
             b == chunks[i]
  <2>6. a \in Seq(Byte) /\ b \in Seq(Byte)
    BY <1>1, <2>4
  <2> HIDE DEF a, b
  <2>7. (a \o b) \o z = a \o (b \o z) /\ b \o z \in Seq(Byte)
    BY <2>6, Regrouped, Joined
  <2>8. a \o (b \o z) = rest[0]
    BY <2>3, <2>5, <2>7 DEF a, b, i
  <2> QED
    BY <2>4, <2>7, <2>8 DEF a
<1>5. T \in SUBSET Nat
  OBVIOUS
<1> HIDE DEF T
<1>6. Nat \subseteq T
  BY <1>3, <1>4, <1>5, Induction
(* What has come by then is a piece of the stream.                         *)
<1>7. ASSUME NEW j \in 1..K PROVE ~Push(c, total[j]).failed
  <2> DEFINE a == total[j]
             r == Started(c, a)
  <2>1. a \in Seq(Byte)
    <3>1. j \in 0..K
      BY <1>1
    <3> QED
      BY <1>1, <3>1
  <2>2. PICK z \in Seq(Byte) : a \o z = rest[0]
    <3>1. K - j \in Nat /\ K - j <= K /\ K - (K - j) = j
      BY <1>1
    <3>2. \A n \in Nat : n <= K => \E z \in Seq(Byte) : total[K - n] \o z = rest[0]
      BY <1>6 DEF T
    <3>3. \E z \in Seq(Byte) : total[K - (K - j)] \o z = rest[0]
      BY <3>1, <3>2
    <3> QED
      BY <3>1, <3>3
  <2> HIDE DEF a
  <2>3. r \in Reading /\ ~r.failed /\ r.reader = reader
    BY <1>2, <2>1, StartedTypes
  <2>4. r.buffer = a /\ r.out = <<>>
    <3>1. <<>> \o a = a
      BY <2>1, ConcatEmptySeq
    <3> QED
      BY <1>2, <3>1 DEF Started
  <2> HIDE DEF r
  <2>5. ~Take(r).failed
    BY <2>2, <2>3, <2>4, PieceOfStream
  <2>6. Push(c, a) = Ended(c, Take(r))
    BY <1>2, <2>1, PushIs DEF r
  <2> QED
    BY <2>5, <2>6 DEF Ended, a
<1>8. ~after[K].failed /\ after[K] = Push(c, rest[0])
  <2>1. K \in 1..K
    BY <1>1
  <2>2. \A i \in 1..K :
            /\ ~after[i].failed => after[i] = Push(c, total[i])
            /\ after[i].failed => \E j \in 1..i : Push(c, total[j]).failed
    <3>1. Arriving(c, chunks, total, after)
      BY DEF c
    <3>2. \A i \in 1..Len(chunks) :
             /\ ~after[i].failed => after[i] = Push(c, total[i])
             /\ c.reader = "bridge" => after[i].failed = Push(c, total[i]).failed
             /\ after[i].failed => \E j \in 1..i : Push(c, total[j]).failed
      BY <1>2, <3>1, AnyCutWillDo
    <3> QED
      BY <3>2 DEF K
  <2>3. after[K].failed => \E j \in 1..K : Push(c, total[j]).failed
    BY <2>1, <2>2
  <2>4. ~after[K].failed
    BY <1>7, <2>3
  <2> QED
    BY <2>1, <2>2, <2>4 DEF K
(* And so it is where it would be had the stream come at once.             *)
<1> DEFINE s == Started(c, rest[0])
           t == Take(s)
           bodies == [i \in 1..L |-> frames[i].body]
<1>9. rest[0] \in Seq(Byte)
  <2>1. 0 \in 0..L
    BY <1>1
  <2> QED
    BY <1>0, <2>1
<1>10. s \in Reading /\ ~s.failed /\ s.reader = reader
  BY <1>2, <1>9, StartedTypes
<1>11. s.buffer = rest[0] /\ s.out = <<>>
  <2>1. <<>> \o rest[0] = rest[0]
    BY <1>9, ConcatEmptySeq
  <2> QED
    BY <1>2, <2>1 DEF Started
<1> HIDE DEF s
<1>12. PICK g \in [Nat -> Reading] : Loop(g, s)
  BY <1>10, LoopExists
<1>13. /\ \A n \in 0..L :
            /\ ~g[n].failed /\ g[n].reader = reader /\ g[n].buffer = rest[n]
            /\ Len(g[n].out) = n /\ \A i \in 1..n : g[n].out[i] = frames[i].body
       /\ \A n \in Nat : n >= L => g[n] = g[L]
  BY <1>10, <1>11, <1>12, StreamLoop DEF L
<1>14. t = g[L]
  <2> DEFINE B == Len(s.buffer)
             n == B + L + 1
  <2>1. B \in Nat
    BY <1>10, HasLength
  <2> HIDE DEF B
  <2>2. n \in Nat /\ n > B /\ n >= L
    BY <1>1, <2>1
  <2> HIDE DEF n
  <2>3. t = g[n]
    BY <1>10, <1>12, <2>2, TakeIsEnd DEF B
  <2> QED
    BY <1>13, <2>2, <2>3
<1>15. L \in 0..L /\ rest[L] = <<>>
  BY <1>1 DEF Stream, L
<1>16. t \in Reading /\ ~t.failed /\ t.buffer = <<>> /\ Len(t.out) = L
       /\ \A i \in 1..L : t.out[i] = frames[i].body
  <2>1. g[L] \in Reading
    BY <1>1
  <2> QED
    BY <1>13, <1>14, <1>15, <2>1
<1> HIDE DEF t
<1>17. t.failed = FALSE
  BY <1>16, Zenon DEF Reading
<1>18. t.out = bodies
  <2>1. t.out \in Seq(Message)
    BY <1>16 DEF Reading
  <2>2. \A i \in 1..L : frames[i].body \in Message
    <3>1. \A i \in 1..L : frames[i] \in Framed
      BY <1>0 DEF L
    <3> QED
      BY <3>1 DEF Framed
  <2>3. bodies \in Seq(Message) /\ Len(bodies) = L
    BY <1>1, <2>2, IsASeq
  <2>4. \A i \in 1..L : t.out[i] = bodies[i]
    BY <1>16
  <2> HIDE DEF bodies
  <2> QED
    BY <1>16, <2>1, <2>3, <2>4, SeqEqual
<1> HIDE DEF bodies
<1>19. <<>> \o t.out = t.out
  <2>1. t.out \in Seq(Message)
    BY <1>16 DEF Reading
  <2> QED
    BY <2>1, ConcatEmptySeq
<1>20. Push(c, rest[0]) = Ended(c, t)
  BY <1>2, <1>9, PushIs DEF s, t
<1>21. Ended(c, t) = [reader |-> reader, buffer |-> <<>>, failed |-> FALSE, frames |-> bodies]
  BY <1>2, <1>16, <1>17, <1>18, <1>19 DEF Ended
<1> QED
  BY <1>8, <1>20, <1>21 DEF K, L, bodies

-----------------------------------------------------------------------------
(***************************************************************************)
(* The renaming of symbols (module SymbolRename).  A symbol that may be    *)
(* renamed is read whole, or in two parts at its last separator; a new     *)
(* name with the qualifier and the separator of the old one differs from   *)
(* it in the last part.                                                    *)
(***************************************************************************)

(* The bounds of a finite set of places.                                   *)
LEMMA MinIs ==
  ASSUME NEW T \in SUBSET Nat, T # {}
  PROVE  Min(T) \in T /\ \A k \in T : Min(T) <= k
<1>1. PICK m \in T : \A k \in T : m <= k
  BY LeastNatural
<1> QED
  BY <1>1 DEF Min

LEMMA MaxIs ==
  ASSUME NEW T \in SUBSET Nat, T # {}, NEW n \in Nat, \A k \in T : k <= n
  PROVE  Max(T) \in T /\ \A k \in T : Max(T) >= k
<1> DEFINE U == {m \in Nat : \A k \in T : k <= m}
<1>1. U \in SUBSET Nat /\ U # {}
  OBVIOUS
<1>2. PICK m \in U : \A k \in U : m <= k
  BY <1>1, LeastNatural
<1>3. m \in T
  <2>1. SUFFICES ASSUME m \notin T PROVE FALSE
    OBVIOUS
  <2>2. \A k \in T : k \in Nat /\ k <= m /\ k # m
    BY <1>2, <2>1
  <2>3. m # 0
    <3>1. PICK k \in T : TRUE
      OBVIOUS
    <3> QED
      BY <2>2, <3>1
  <2>4. m - 1 \in Nat /\ ~(m <= m - 1) /\ \A k \in T : k <= m - 1
    BY <1>2, <2>2, <2>3
  <2>5. m - 1 \in U
    BY <2>4
  <2> QED
    BY <1>2, <2>4, <2>5
<1> QED
  BY <1>2, <1>3 DEF Max

LEMMA Remainders ==
  \A n \in Nat : n % (n + 1) = n /\ (n + 1) % (n + 1) = 0 /\ \A k \in 0..n : k % (n + 1) = k
OBVIOUS

\* STRING, said so that the provers see that the separators are in it.
Letter == STRING \cup {":", "/"}

(* indexOf and lastIndexOf of symbol-semantics.ts.                         *)
LEMMA FirstIs ==
  ASSUME NEW s \in Seq(Letter), NEW sep \in {Slash, Colon, Colons}
  PROVE  /\ Places(s, sep) \in SUBSET (1..Len(s))
         /\ Places(s, sep) = {} => First(s, sep) = 0
         /\ Places(s, sep) # {} => /\ First(s, sep) \in Places(s, sep)
                                   /\ \A k \in Places(s, sep) : First(s, sep) <= k
<1> DEFINE n == Len(s)
           P == Places(s, sep)
           T == P \cup {n + 1}
<1>1. n \in Nat /\ P \in SUBSET (1..n)
  <2>1. Len(sep) \in {1, 2}
    BY DEF Slash, Colon, Colons
  <2>2. \A k \in {1, 2} : n - k + 1 \in Int /\ 1..(n - k + 1) \in SUBSET (1..n)
    OBVIOUS
  <2>3. P \in SUBSET (1..(n - Len(sep) + 1))
    BY DEF Places
  <2> HIDE DEF n, P
  <2>4. 1..(n - Len(sep) + 1) \in SUBSET (1..n)
    BY <2>1, <2>2
  <2>5. Len(s) \in Nat
    OBVIOUS
  <2> QED
    BY <2>3, <2>4, <2>5 DEF n
<1> HIDE DEF n, P
<1>2. Min(T) \in T /\ \A k \in T : Min(T) <= k
  <2>1. T \in SUBSET Nat /\ T # {}
    BY <1>1
  <2> HIDE DEF T
  <2> QED
    BY <2>1, MinIs
<1>3. First(s, sep) = Min(T) % (n + 1)
  BY DEF First, n, P
<1> DEFINE m == Min(T)
<1>4. m \in T /\ \A k \in T : m <= k
  BY <1>2
<1> HIDE DEF m
<1>5. ASSUME P = {} PROVE m % (n + 1) = 0
  <2>1. m = n + 1
    BY <1>4, <1>5
  <2> QED
    BY <1>1, <2>1, Remainders
<1>6. ASSUME P # {} PROVE m \in P /\ m % (n + 1) = m
  <2>1. m \in P
    <3>1. PICK k \in P : TRUE
      BY <1>6
    <3>2. k \in T /\ k # n + 1 /\ k <= n /\ k \in Nat
      BY <1>1, <3>1
    <3>3. m <= k /\ m \in T
      BY <1>4, <3>2
    <3>4. m # n + 1
      BY <1>1, <3>2, <3>3
    <3> QED
      BY <3>3, <3>4
  <2>2. m \in 0..n
    BY <1>1, <2>1
  <2> QED
    BY <1>1, <2>1, <2>2, Remainders
<1> QED
  BY <1>1, <1>3, <1>4, <1>5, <1>6 DEF n, P, m

LEMMA FinalIs ==
  ASSUME NEW s \in Seq(Letter), NEW sep \in {Slash, Colon, Colons}, Places(s, sep) # {}
  PROVE  Final(s, sep) \in Places(s, sep) /\ \A k \in Places(s, sep) : k <= Final(s, sep)
<1> DEFINE T == Places(s, sep) \cup {0}
<1>1. Len(s) \in Nat /\ Places(s, sep) \in SUBSET (1..Len(s))
  BY FirstIs
<1>2. T \in SUBSET Nat /\ T # {} /\ \A k \in T : k <= Len(s)
  BY <1>1
<1> HIDE DEF T
<1>3. Max(T) \in T /\ \A k \in T : Max(T) >= k
  BY <1>1, <1>2, MaxIs
<1> DEFINE m == Max(T)
           P == Places(s, sep)
<1>4. m \in P
  <2>1. PICK k \in P : TRUE
    OBVIOUS
  <2>2. k \in T /\ k \in Nat /\ k >= 1
    BY <1>1, <2>1 DEF T
  <2>3. m \in Nat /\ m >= k
    BY <1>2, <1>3, <2>2
  <2>4. m # 0
    BY <2>2, <2>3
  <2> QED
    BY <1>3, <2>4 DEF T
<1>5. \A k \in P : k \in T /\ k \in Nat /\ k <= m /\ m \in Nat
  BY <1>1, <1>2, <1>3 DEF T
<1>6. Final(s, sep) = m
  BY DEF T, Final
<1> QED
  BY <1>4, <1>5, <1>6

(* Sequences cut in two.                                                   *)
LEMMA PartIs ==
  ASSUME NEW S, NEW s \in Seq(S), NEW m \in Nat \ {0}, NEW n \in Nat, n <= Len(s)
  PROVE  /\ SubSeq(s, m, n) \in Seq(S)
         /\ Len(SubSeq(s, m, n)) = IF m <= n THEN n - m + 1 ELSE 0
         /\ \A i \in 1..(n - m + 1) : SubSeq(s, m, n)[i] = s[m + i - 1]
<1>1. \A i \in m..n : s[i] \in S
  <2>1. \A i \in m..n : i \in 1..Len(s)
    OBVIOUS
  <2> QED
    BY <2>1, ElementOfSeq
<1> QED
  BY <1>1, SubSeqProperties

LEMMA TwoParts ==
  ASSUME NEW S, NEW s \in Seq(S), NEW k \in 0..Len(s)
  PROVE  /\ s = SubSeq(s, 1, k) \o SubSeq(s, k + 1, Len(s))
         /\ SubSeq(s, 1, k) \in Seq(S) /\ SubSeq(s, k + 1, Len(s)) \in Seq(S)
         /\ Len(SubSeq(s, 1, k)) = k /\ Len(SubSeq(s, k + 1, Len(s))) = Len(s) - k
<1>1. Len(s) \in Nat /\ k \in Nat /\ k <= Len(s)
  BY LenProperties
<1>2. 1 \in 1..(Len(s) + 1) /\ k \in (1 - 1)..Len(s) /\ Len(s) \in k..Len(s)
  BY <1>1
<1>3. SubSeq(s, 1, k) \o SubSeq(s, k + 1, Len(s)) = SubSeq(s, 1, Len(s))
  BY <1>2, ConcatAdjacentSubSeq
<1>4. SubSeq(s, 1, Len(s)) = s
  BY SubSeqFull
<1>5. /\ 1 \in Nat \ {0} /\ k + 1 \in Nat \ {0} /\ k - 1 + 1 = k
      /\ k + 1 <= Len(s) => Len(s) - (k + 1) + 1 = Len(s) - k
      /\ ~(k + 1 <= Len(s)) => Len(s) - k = 0
      /\ ~(1 <= k) => k = 0
  BY <1>1
<1>6. /\ SubSeq(s, 1, k) \in Seq(S)
      /\ Len(SubSeq(s, 1, k)) = IF 1 <= k THEN k - 1 + 1 ELSE 0
  BY <1>1, <1>5, PartIs
<1>7. /\ SubSeq(s, k + 1, Len(s)) \in Seq(S)
      /\ Len(SubSeq(s, k + 1, Len(s))) =
            IF k + 1 <= Len(s) THEN Len(s) - (k + 1) + 1 ELSE 0
  BY <1>1, <1>5, PartIs
<1> QED
  BY <1>3, <1>4, <1>5, <1>6, <1>7

LEMMA OneIsASeq ==
  ASSUME NEW S, NEW c \in S
  PROVE  <<c>> \in Seq(S) /\ Len(<<c>>) = 1 /\ <<c>>[1] = c
OBVIOUS

LEMMA TwoIsASeq ==
  ASSUME NEW S, NEW c \in S, NEW d \in S
  PROVE  <<c, d>> \in Seq(S) /\ Len(<<c, d>>) = 2 /\ <<c, d>>[1] = c /\ <<c, d>>[2] = d
OBVIOUS

LEMMA PlacesOfOne ==
  ASSUME NEW s \in Seq(Letter), NEW c \in Letter
  PROVE  Places(s, <<c>>) = {i \in 1..Len(s) : s[i] = c}
<1>1. ASSUME NEW i \in 1..Len(s)
      PROVE  i + 1 - 1 = i /\ Len(SubSeq(s, i, i)) = 1 /\ SubSeq(s, i, i)[1] = s[i]
             /\ SubSeq(s, i, i) \in Seq(Letter)
  <2>1. i \in Nat \ {0} /\ i \in Nat /\ i <= Len(s) /\ i <= i /\ i - i + 1 = 1 /\ i + 1 - 1 = i
        /\ 1 \in 1..(i - i + 1)
    OBVIOUS
  <2>2. /\ SubSeq(s, i, i) \in Seq(Letter)
        /\ Len(SubSeq(s, i, i)) = IF i <= i THEN i - i + 1 ELSE 0
        /\ \A j \in 1..(i - i + 1) : SubSeq(s, i, i)[j] = s[i + j - 1]
    <3>1. i \in Nat \ {0} /\ i \in Nat /\ i <= Len(s)
      BY <2>1
    <3> QED
      <4> DEFINE m == i
                 n == i
      <4>1. m \in Nat \ {0} /\ n \in Nat /\ n <= Len(s)
        BY <3>1
      <4> HIDE DEF m, n
      <4>2. /\ SubSeq(s, m, n) \in Seq(Letter)
            /\ Len(SubSeq(s, m, n)) = IF m <= n THEN n - m + 1 ELSE 0
            /\ \A j \in 1..(n - m + 1) : SubSeq(s, m, n)[j] = s[m + j - 1]
        BY <4>1, PartIs
      <4> QED
        BY <4>2, Zenon DEF m, n
  <2>3. SubSeq(s, i, i)[1] = s[i + 1 - 1]
    BY <2>1, <2>2, Zenon
  <2> QED
    BY <2>1, <2>2, <2>3
<1>2. Len(<<c>>) = 1 /\ Len(s) - 1 + 1 = Len(s) /\ <<c>> \in Seq(Letter) /\ <<c>>[1] = c
  <2>1. <<c>> \in Seq(Letter) /\ Len(<<c>>) = 1 /\ <<c>>[1] = c
    BY OneIsASeq
  <2>2. Len(s) - 1 + 1 = Len(s)
    OBVIOUS
  <2> QED
    BY <2>1, <2>2
<1>3. ASSUME NEW i \in 1..Len(s) PROVE SubSeq(s, i, i) = <<c>> <=> s[i] = c
  <2>1. ASSUME s[i] = c PROVE SubSeq(s, i, i) = <<c>>
    <3> DEFINE t == SubSeq(s, i, i)
    <3>1. t \in Seq(Letter) /\ Len(t) = 1 /\ t[1] = c
      BY <1>1, <2>1
    <3> HIDE DEF t
    <3>2. \A j \in 1..Len(t) : j = 1
      BY <3>1
    <3>3. \A j \in 1..Len(t) : t[j] = <<c>>[j]
      BY <1>2, <3>1, <3>2
    <3> QED
      BY <1>2, <3>1, <3>3, SeqEqual DEF t
  <2>2. ASSUME SubSeq(s, i, i) = <<c>> PROVE s[i] = c
    BY <1>1, <1>2, <2>2
  <2> QED
    BY <2>1, <2>2
<1>4. Places(s, <<c>>) = {i \in 1..Len(s) : SubSeq(s, i, i) = <<c>>}
  BY <1>1, <1>2 DEF Places
<1> QED
  BY <1>3, <1>4

LEMMA PlacesOfTwo ==
  ASSUME NEW s \in Seq(Letter)
  PROVE  Places(s, Colons) = {i \in 1..(Len(s) - 1) : s[i] = ":" /\ s[i + 1] = ":"}
<1> DEFINE n == Len(s)
<1>1. /\ n \in Nat /\ Len(Colons) = 2 /\ n - 2 + 1 = n - 1 /\ Colons \in Seq(Letter)
      /\ Colons[1] = ":" /\ Colons[2] = ":" /\ 1..2 = {1, 2}
  <2>1. ":" \in Letter
    BY DEF Letter
  <2>2. /\ Colons \in Seq(Letter) /\ Len(Colons) = 2 /\ Colons[1] = ":" /\ Colons[2] = ":"
    BY <2>1, TwoIsASeq DEF Colons
  <2>3. n \in Nat /\ n - 2 + 1 = n - 1 /\ 1..2 = {1, 2}
    OBVIOUS
  <2> QED
    BY <2>2, <2>3
<1>2. ASSUME NEW i \in 1..(n - 1)
      PROVE  i + 2 - 1 = i + 1 /\ (SubSeq(s, i, i + 1) = Colons <=> s[i] = ":" /\ s[i + 1] = ":")
  <2> DEFINE t == SubSeq(s, i, i + 1)
             j == i + 1
  <2>1. /\ i \in Nat \ {0} /\ j \in Nat /\ j <= Len(s) /\ i <= j /\ j - i + 1 = 2
        /\ i + 1 - 1 = i /\ i + 2 - 1 = j /\ 1 \in 1..2 /\ 2 \in 1..2
    BY <1>1
  <2> HIDE DEF j
  <2>2. /\ SubSeq(s, i, j) \in Seq(Letter) /\ Len(SubSeq(s, i, j)) = 2
        /\ \A k \in 1..2 : SubSeq(s, i, j)[k] = s[i + k - 1]
    BY <2>1, PartIs
  <2>3. t \in Seq(Letter) /\ Len(t) = 2 /\ t[1] = s[i] /\ t[2] = s[j]
    BY <2>1, <2>2 DEF j
  <2> HIDE DEF t
  <2>4. ASSUME s[i] = ":", s[j] = ":" PROVE t = Colons
    <3>1. \A k \in 1..Len(t) : k = 1 \/ k = 2
      BY <2>3
    <3>2. \A k \in 1..Len(t) : t[k] = Colons[k]
      BY <1>1, <2>3, <2>4, <3>1
    <3> QED
      BY <1>1, <2>3, <3>2, SeqEqual
  <2>5. ASSUME t = Colons PROVE s[i] = ":" /\ s[j] = ":"
    BY <1>1, <2>3, <2>5
  <2> QED
    BY <2>1, <2>4, <2>5 DEF t, j
<1> QED
  BY <1>1, <1>2 DEF Places

Separator(lang) == CASE lang = "clojure" -> "/" [] lang = "common_lisp" -> ":" [] OTHER -> "none"

\* A symbol is read as a name, or as a name behind its last separator.
Whole(s, d, c) ==
    /\ d.qualifier = <<>> /\ d.separator = <<>> /\ d.name = s
    /\ Len(s) = 1 \/ c \notin ToSet(s)
Divided(s, d, c, k) ==
    /\ k \in 2..(Len(s) - 1) /\ s[k] = c /\ \A j \in (k + 1)..Len(s) : s[j] # c
    /\ d.qualifier \in Seq(Letter) /\ d.separator \in Seq(Letter) /\ d.qualifier # <<>>
    /\ d.separator # <<>>
    /\ d.qualifier \o d.separator = SubSeq(s, 1, k) /\ d.name = From(s, k + 1)

LEMMA Recorded ==
  ASSUME NEW s, NEW lang, NEW kind
  PROVE  /\ ~Fixed(s, lang, kind).renameable
         /\ Plain(s, lang).identity = Folded(s, lang) /\ Plain(s, lang).renameable
         /\ Plain(s, lang).qualifier = <<>> /\ Plain(s, lang).separator = <<>>
         /\ Plain(s, lang).name = s
BY DEF Fixed, Plain

LEMMA QualifiedIs ==
  ASSUME NEW s, NEW lang, NEW sep, NEW kind, Qualified(s, lang, sep, kind).renameable
  PROVE  /\ First(s, sep) # 1 /\ First(s, sep) = Final(s, sep)
         /\ From(s, First(s, sep) + Len(sep)) # <<>>
         /\ sep = Colons => First(From(s, First(s, sep) + Len(sep)), Colon) = 0
         /\ Qualified(s, lang, sep, kind).qualifier = SubSeq(s, 1, First(s, sep) - 1)
         /\ Qualified(s, lang, sep, kind).separator = sep
         /\ Qualified(s, lang, sep, kind).name = From(s, First(s, sep) + Len(sep))
         /\ Qualified(s, lang, sep, kind).identity = Folded(s, lang)
<1> DEFINE d == Qualified(s, lang, sep, kind)
           i == First(s, sep)
           name == From(s, i + Len(sep))
           whole == [Plain(s, lang) EXCEPT !.kind = kind, !.qualifier = SubSeq(s, 1, i - 1),
                                           !.separator = sep, !.name = name]
           wrong == i = 1 \/ i # Final(s, sep) \/ name = <<>>
                    \/ (sep = Colons /\ First(name, Colon) # 0)
<1>1. d = IF wrong THEN Fixed(s, lang, "invalid_symbol") ELSE whole
  BY DEF Qualified
<1>2. ~Fixed(s, lang, "invalid_symbol").renameable
  BY Recorded
<1>3. /\ whole.qualifier = SubSeq(s, 1, i - 1) /\ whole.separator = sep
      /\ whole.name = name /\ whole.identity = Folded(s, lang)
  <2> DEFINE q == SubSeq(s, 1, i - 1)
  <2> HIDE DEF q, i, name
  <2> QED
    BY DEF Plain
<1> HIDE DEF whole, wrong, d
<1>4. ~wrong /\ d = whole
  BY <1>1, <1>2 DEF d
<1> HIDE DEF i, name
<1>5. i # 1 /\ i = Final(s, sep) /\ name # <<>> /\ (sep = Colons => First(name, Colon) = 0)
  BY <1>4, Zenon DEF wrong
<1> QED
  BY <1>3, <1>4, <1>5 DEF d, i, name

LEMMA EndsWith ==
  ASSUME NEW S, NEW s \in Seq(S), NEW k \in 2..Len(s)
  PROVE  /\ SubSeq(s, 1, k - 1) \o <<s[k]>> = SubSeq(s, 1, k)
         /\ SubSeq(s, 1, k - 1) \in Seq(S) /\ SubSeq(s, 1, k - 1) # <<>>
<1>1. 1 \in 1..Len(s) /\ k \in 1..Len(s) /\ k - 1 \in Nat /\ k - 1 <= Len(s) /\ 1 <= k - 1
      /\ (k - 1) - 1 + 1 = k - 1
  OBVIOUS
<1>2. SubSeq(s, 1, k) = SubSeq(s, 1, k - 1) \o <<s[k]>>
  BY <1>1, SubSeqRecursiveSecond
<1>3. SubSeq(s, 1, k - 1) \in Seq(S) /\ Len(SubSeq(s, 1, k - 1)) = k - 1
  <2> DEFINE n == k - 1
  <2>1. n \in Nat /\ n <= Len(s) /\ 1 \in Nat \ {0} /\ 1 <= n /\ n - 1 + 1 = n
    BY <1>1
  <2> HIDE DEF n
  <2>2. SubSeq(s, 1, n) \in Seq(S) /\ Len(SubSeq(s, 1, n)) = n
    BY <2>1, PartIs
  <2> QED
    BY <2>2 DEF n
<1>4. SubSeq(s, 1, k - 1) # <<>>
  <2>1. Len(<<>>) = 0 /\ k - 1 # 0
    BY <1>1
  <2> QED
    BY <1>3, <2>1
<1> QED
  BY <1>2, <1>3, <1>4

LEMMA FromIsEmpty ==
  ASSUME NEW S, NEW s \in Seq(S), NEW k \in Nat, From(s, k + 1) # <<>>
  PROVE  k < Len(s)
<1>1. SUFFICES ASSUME ~(k < Len(s)) PROVE FALSE
  OBVIOUS
<1>2. k + 1 \in Int /\ Len(s) \in Int /\ Len(s) < k + 1
  BY <1>1
<1> QED
  BY <1>2, SubSeqEmpty DEF From

Single(sep, c) == sep = <<c>>

(* One separator of one character.                                         *)
LEMMA DividedByOne ==
  ASSUME NEW s \in Seq(Letter), NEW lang, NEW kind, NEW c \in {"/", ":"}, NEW sep, Single(sep, c),
         First(s, sep) # 0, Qualified(s, lang, sep, kind).renameable
  PROVE  \E k : Divided(s, Qualified(s, lang, sep, kind), c, k)
<1> DEFINE d == Qualified(s, lang, sep, kind)
           i == First(s, sep)
<1>1. c \in Letter /\ sep \in {Slash, Colon, Colons} /\ Len(sep) = 1 /\ sep \in Seq(Letter)
      /\ sep # <<>>
  <2>1. c \in Letter /\ sep \in {Slash, Colon, Colons}
    BY DEF Letter, Slash, Colon, Single
  <2>2. Len(sep) = 1 /\ sep \in Seq(Letter)
    BY <2>1, OneIsASeq DEF Single
  <2>3. Len(sep) # Len(<<>>)
    BY <2>2
  <2>4. sep # <<>>
    <3> HIDE DEF d, i
    <3> QED
      BY <2>3, Zenon
  <2> QED
    BY <2>1, <2>2, <2>4
<1>2. Places(s, sep) = {j \in 1..Len(s) : s[j] = c}
  BY <1>1, PlacesOfOne DEF Single
<1>3. i \in Places(s, sep) /\ Places(s, sep) # {}
  BY <1>1, FirstIs
<1>4. /\ i # 1 /\ i = Final(s, sep) /\ From(s, i + Len(sep)) # <<>>
      /\ d.qualifier = SubSeq(s, 1, i - 1) /\ d.separator = sep
      /\ d.name = From(s, i + Len(sep))
  BY QualifiedIs
<1>5. \A j \in Places(s, sep) : j <= i
  BY <1>1, <1>3, <1>4, FinalIs
<1> HIDE DEF i, d
<1>6. i \in 1..Len(s) /\ i \in Nat /\ s[i] = c /\ Len(s) \in Nat
  BY <1>2, <1>3
<1>7. i < Len(s)
  BY <1>1, <1>4, <1>6, FromIsEmpty
<1>8. i \in 2..(Len(s) - 1) /\ i \in 2..Len(s)
  BY <1>4, <1>6, <1>7
<1>9. \A j \in (i + 1)..Len(s) : s[j] # c
  <2>1. \A j \in (i + 1)..Len(s) : j \in 1..Len(s) /\ ~(j <= i)
    BY <1>6
  <2> QED
    BY <1>2, <1>5, <2>1
<1>10. /\ SubSeq(s, 1, i - 1) \o <<c>> = SubSeq(s, 1, i)
       /\ SubSeq(s, 1, i - 1) \in Seq(Letter) /\ SubSeq(s, 1, i - 1) # <<>>
  BY <1>6, <1>8, EndsWith
<1>11. Divided(s, d, c, i)
  BY <1>1, <1>4, <1>6, <1>8, <1>9, <1>10 DEF Divided, Single
<1> QED
  BY <1>11 DEF d

LEMMA TwoMore ==
  ASSUME NEW S, NEW q \in Seq(S), NEW c \in S
  PROVE  q \o <<c, c>> = (q \o <<c>>) \o <<c>>
OBVIOUS

(* The two colons of a name that its package does not export.              *)
LEMMA DividedByTwo ==
  ASSUME NEW s \in Seq(Letter), NEW lang, NEW kind,
         First(s, Colons) # 0, Qualified(s, lang, Colons, kind).renameable
  PROVE  \E k : Divided(s, Qualified(s, lang, Colons, kind), ":", k)
<1> DEFINE d == Qualified(s, lang, Colons, kind)
           i == First(s, Colons)
           name == From(s, i + 2)
<1>1. ":" \in Letter /\ Len(Colons) = 2 /\ Colons \in Seq(Letter) /\ Colons[1] = ":"
      /\ Colons[2] = ":" /\ Colons \in {Slash, Colon, Colons}
  BY TwoIsASeq DEF Letter, Colons
<1>2. Places(s, Colons) = {j \in 1..(Len(s) - 1) : s[j] = ":" /\ s[j + 1] = ":"}
  BY PlacesOfTwo
<1>3. i \in Places(s, Colons)
  BY <1>1, FirstIs
<1>4. /\ i # 1 /\ name # <<>> /\ First(name, Colon) = 0
      /\ d.qualifier = SubSeq(s, 1, i - 1) /\ d.separator = Colons /\ d.name = name
  <2>1. name = From(s, i + Len(Colons))
    BY <1>1, Zenon
  <2> HIDE DEF name
  <2>2. /\ i # 1 /\ From(s, i + Len(Colons)) # <<>>
        /\ First(From(s, i + Len(Colons)), Colon) = 0
        /\ d.qualifier = SubSeq(s, 1, i - 1) /\ d.separator = Colons
        /\ d.name = From(s, i + Len(Colons))
    BY QualifiedIs
  <2> QED
    BY <2>1, <2>2
<1> HIDE DEF i, d
<1>5. i \in 2..(Len(s) - 1) /\ i \in 2..Len(s) /\ i + 1 \in 2..Len(s) /\ i \in Nat /\ Len(s) \in Nat
      /\ s[i] = ":" /\ s[i + 1] = ":" /\ i + 1 \in Nat /\ (i + 1) + 1 = i + 2 /\ (i + 1) - 1 = i
  BY <1>2, <1>3, <1>4
<1>6. i + 1 < Len(s)
  BY <1>4, <1>5, FromIsEmpty
<1>7. /\ SubSeq(s, 1, i - 1) \o <<":">> = SubSeq(s, 1, i)
      /\ SubSeq(s, 1, i) \o <<":">> = SubSeq(s, 1, i + 1)
      /\ SubSeq(s, 1, i - 1) \in Seq(Letter) /\ SubSeq(s, 1, i - 1) # <<>>
  <2> DEFINE n == i + 1
  <2>1. n \in 2..Len(s) /\ n - 1 = i /\ s[n] = ":"
    BY <1>5
  <2> HIDE DEF n
  <2>2. SubSeq(s, 1, n - 1) \o <<s[n]>> = SubSeq(s, 1, n)
    BY <2>1, EndsWith
  <2>3. /\ SubSeq(s, 1, i - 1) \o <<s[i]>> = SubSeq(s, 1, i)
        /\ SubSeq(s, 1, i - 1) \in Seq(Letter) /\ SubSeq(s, 1, i - 1) # <<>>
    BY <1>5, EndsWith
  <2> QED
    BY <1>5, <2>1, <2>2, <2>3 DEF n
<1>8. SubSeq(s, 1, i - 1) \o Colons = SubSeq(s, 1, i + 1)
  <2> DEFINE q == SubSeq(s, 1, i - 1)
  <2>1. q \o Colons = (q \o <<":">>) \o <<":">>
    <3>1. q \in Seq(Letter)
      BY <1>7
    <3> HIDE DEF q
    <3> QED
      BY <1>1, <3>1, TwoMore DEF Colons
  <2> QED
    BY <1>7, <2>1
<1>9. \A j \in (i + 2)..Len(s) : s[j] # ":"
  <2>1. name \in Seq(Letter) /\ Len(name) = Len(s) - i - 1
        /\ \A j \in 1..(Len(s) - i - 1) : name[j] = s[j + i + 1]
    <3> DEFINE m == i + 2
    <3>1. m \in Nat \ {0} /\ m <= Len(s) /\ Len(s) - m + 1 = Len(s) - i - 1
          /\ \A j \in Nat : m + j - 1 = j + i + 1
      BY <1>5, <1>6
    <3> HIDE DEF m
    <3>2. /\ SubSeq(s, m, Len(s)) \in Seq(Letter) /\ Len(SubSeq(s, m, Len(s))) = Len(s) - m + 1
          /\ \A j \in 1..(Len(s) - m + 1) : SubSeq(s, m, Len(s))[j] = s[m + j - 1]
      BY <1>5, <3>1, PartIs
    <3>3. name = SubSeq(s, m, Len(s))
      BY DEF From, m
    <3> HIDE DEF name
    <3>4. \A j \in 1..(Len(s) - i - 1) : j \in Nat /\ j \in 1..(Len(s) - m + 1)
      BY <3>1
    <3> QED
      BY <3>1, <3>2, <3>3, <3>4
  <2> HIDE DEF name
  <2>2. Places(name, Colon) = {j \in 1..Len(name) : name[j] = ":"}
    BY <1>1, <2>1, PlacesOfOne DEF Colon
  <2>3. Colon \in {Slash, Colon, Colons} /\ 0 \notin 1..Len(name)
    BY <2>1
  <2>4. Places(name, Colon) = {}
    BY <1>4, <2>1, <2>2, <2>3, FirstIs
  <2>5. \A j \in (i + 2)..Len(s) : /\ j - i - 1 \in 1..(Len(s) - i - 1)
                                  /\ (j - i - 1) + i + 1 = j
    BY <1>5
  <2>6. \A j \in (i + 2)..Len(s) : name[j - i - 1] = s[j] /\ j - i - 1 \in 1..Len(name)
    BY <2>1, <2>5
  <2> QED
    BY <2>2, <2>4, <2>6
<1>10. Colons # <<>>
  <2>1. Len(Colons) # Len(<<>>)
    BY <1>1
  <2> QED
    BY <2>1, Zenon
<1>11. i + 1 \in 2..(Len(s) - 1) /\ \A j \in (i + 1 + 1)..Len(s) : s[j] # ":"
  BY <1>5, <1>6, <1>9
<1>12. d.name = From(s, i + 1 + 1)
  BY <1>4, <1>5
<1>13. d.qualifier # <<>> /\ d.separator # <<>> /\ d.qualifier \in Seq(Letter)
       /\ d.separator \in Seq(Letter) /\ d.qualifier \o d.separator = SubSeq(s, 1, i + 1)
  BY <1>1, <1>4, <1>7, <1>8, <1>10
<1> HIDE DEF name
<1>14. Divided(s, d, ":", i + 1)
  BY <1>5, <1>11, <1>12, <1>13 DEF Divided
<1> QED
  BY <1>14 DEF d

(***************************************************************************)
(* describeLispSymbol, of a symbol that may be renamed.                    *)
(***************************************************************************)
LEMMA NoPlace ==
  ASSUME NEW s \in Seq(Letter), NEW c \in {"/", ":"}, NEW sep, Single(sep, c), First(s, sep) = 0
  PROVE  c \notin ToSet(s)
<1>1. c \in Letter /\ sep \in {Slash, Colon, Colons}
  BY DEF Letter, Slash, Colon, Single
<1>2. Places(s, sep) = {j \in 1..Len(s) : s[j] = c}
  BY <1>1, PlacesOfOne DEF Single
<1>3. 0 \notin Places(s, sep)
  BY <1>2
<1>4. Places(s, sep) = {}
  BY <1>1, <1>3, FirstIs
<1> QED
  BY <1>2, <1>4 DEF ToSet

LEMMA DescribedGeneric ==
  ASSUME NEW s \in Seq(Letter), s # <<>>, NEW lang \in {"generic", "elisp"}, "none" \notin ToSet(s),
         Describe(s, lang).renameable
  PROVE  /\ Describe(s, lang).identity = Folded(s, lang) /\ Head(s) # ":"
         /\ Whole(s, Describe(s, lang), Separator(lang))
<1>1. /\ ~Fixed(s, lang, "escaped_or_reader_sensitive").renameable
      /\ ~Fixed(s, lang, "keyword").renameable
  BY Recorded
<1>2. Describe(s, lang) = Plain(s, lang) /\ Head(s) # ":"
  BY <1>1 DEF Describe
<1>3. Separator(lang) = "none"
  BY DEF Separator
<1> QED
  BY <1>2, <1>3, Recorded DEF Whole

LEMMA DescribedClojure ==
  ASSUME NEW s \in Seq(Letter), s # <<>>, Describe(s, "clojure").renameable
  PROVE  /\ Describe(s, "clojure").identity = Folded(s, "clojure") /\ Head(s) # ":"
         /\ \/ Whole(s, Describe(s, "clojure"), "/")
            \/ \E k : Divided(s, Describe(s, "clojure"), "/", k)
<1> DEFINE q == Qualified(s, "clojure", Slash, "qualified_symbol")
           p == Plain(s, "clojure")
<1>1. \A kind : ~Fixed(s, "clojure", kind).renameable
  BY Recorded
<1>2. Describe(s, "clojure") = InClojure(s) /\ InClojure(s).renameable
  BY <1>1 DEF Describe
<1> HIDE DEF q, p
<1>3. Head(s) # ":" /\ (\/ InClojure(s) = q /\ First(s, Slash) # 0
                        \/ InClojure(s) = p /\ (s = Slash \/ First(s, Slash) = 0))
  BY <1>1, <1>2 DEF InClojure, q, p
<1>4. Single(Slash, "/")
  BY DEF Single, Slash
<1>5. CASE InClojure(s) = q /\ First(s, Slash) # 0
  <2>1. \E k : Divided(s, q, "/", k)
    BY <1>2, <1>4, <1>5, DividedByOne DEF q
  <2>2. q.identity = Folded(s, "clojure")
    BY <1>2, <1>5, QualifiedIs DEF q
  <2> QED
    BY <1>2, <1>3, <1>5, <2>1, <2>2
<1>6. CASE InClojure(s) = p /\ (s = Slash \/ First(s, Slash) = 0)
  <2>1. Len(s) = 1 \/ "/" \notin ToSet(s)
    <3>1. CASE s = Slash
      BY <3>1, OneIsASeq DEF Slash
    <3>2. CASE First(s, Slash) = 0
      BY <1>4, <3>2, NoPlace
    <3> QED
      BY <1>6, <3>1, <3>2
  <2>2. p.identity = Folded(s, "clojure") /\ p.qualifier = <<>> /\ p.separator = <<>> /\ p.name = s
    BY Recorded DEF p
  <2>3. Whole(s, p, "/")
    BY <2>1, <2>2 DEF Whole
  <2> QED
    BY <1>2, <1>3, <1>6, <2>2, <2>3
<1> QED
  BY <1>3, <1>5, <1>6

LEMMA DescribedCommonLisp ==
  ASSUME NEW s \in Seq(Letter), s # <<>>, Describe(s, "common_lisp").renameable
  PROVE  /\ Describe(s, "common_lisp").identity = Folded(s, "common_lisp") /\ Head(s) # ":"
         /\ \/ Whole(s, Describe(s, "common_lisp"), ":")
            \/ \E k : Divided(s, Describe(s, "common_lisp"), ":", k)
<1> DEFINE q == Qualified(s, "common_lisp", Colons, "package_internal_symbol")
           r == Qualified(s, "common_lisp", Colon, "package_external_symbol")
           p == Plain(s, "common_lisp")
<1>1. \A kind : ~Fixed(s, "common_lisp", kind).renameable
  BY Recorded
<1>2. Describe(s, "common_lisp") = InCommonLisp(s) /\ InCommonLisp(s).renameable
  BY <1>1 DEF Describe
<1> HIDE DEF q, r, p
<1>3. Head(s) # ":" /\ (\/ InCommonLisp(s) = q /\ First(s, Colons) # 0
                        \/ InCommonLisp(s) = r /\ First(s, Colon) # 0
                        \/ InCommonLisp(s) = p /\ First(s, Colon) = 0)
  BY <1>1, <1>2 DEF InCommonLisp, q, r, p
<1>4. Single(Colon, ":")
  BY DEF Single, Colon
<1>5. CASE InCommonLisp(s) = q /\ First(s, Colons) # 0
  <2>1. \E k : Divided(s, q, ":", k)
    BY <1>2, <1>5, DividedByTwo DEF q
  <2>2. q.identity = Folded(s, "common_lisp")
    BY <1>2, <1>5, QualifiedIs DEF q
  <2> QED
    BY <1>2, <1>3, <1>5, <2>1, <2>2
<1>6. CASE InCommonLisp(s) = r /\ First(s, Colon) # 0
  <2>1. \E k : Divided(s, r, ":", k)
    BY <1>2, <1>4, <1>6, DividedByOne DEF r
  <2>2. r.identity = Folded(s, "common_lisp")
    BY <1>2, <1>6, QualifiedIs DEF r
  <2> QED
    BY <1>2, <1>3, <1>6, <2>1, <2>2
<1>7. CASE InCommonLisp(s) = p /\ First(s, Colon) = 0
  <2>1. ":" \notin ToSet(s)
    BY <1>4, <1>7, NoPlace
  <2>2. p.identity = Folded(s, "common_lisp") /\ p.qualifier = <<>> /\ p.separator = <<>>
        /\ p.name = s
    BY Recorded DEF p
  <2>3. Whole(s, p, ":")
    BY <2>1, <2>2 DEF Whole
  <2> QED
    BY <1>2, <1>3, <1>7, <2>2, <2>3
<1> QED
  BY <1>3, <1>5, <1>6, <1>7

LEMMA Described ==
  ASSUME NEW s \in Seq(Letter), s # <<>>, NEW lang \in Languages, "none" \notin ToSet(s),
         Describe(s, lang).renameable
  PROVE  /\ Describe(s, lang).identity = Folded(s, lang) /\ Head(s) # ":"
         /\ \/ Whole(s, Describe(s, lang), Separator(lang))
            \/ \E k : Divided(s, Describe(s, lang), Separator(lang), k)
<1>1. CASE lang \in {"generic", "elisp"}
  BY <1>1, DescribedGeneric
<1>2. CASE lang = "clojure"
  <2>1. Separator(lang) = "/"
    BY <1>2 DEF Separator
  <2> QED
    BY <1>2, <2>1, DescribedClojure
<1>3. CASE lang = "common_lisp"
  <2>1. Separator(lang) = ":"
    BY <1>3 DEF Separator
  <2> QED
    BY <1>3, <2>1, DescribedCommonLisp
<1> QED
  BY <1>1, <1>2, <1>3 DEF Languages

\* Where a symbol is cut in two: after its last separator.
Cut(s, c) ==
    IF Len(s) = 1 \/ c \notin ToSet(s) THEN 0
    ELSE CHOOSE i \in DOMAIN s : s[i] = c /\ \A j \in (i + 1)..Len(s) : s[j] # c

LEMMA CutOfWhole ==
  ASSUME NEW s \in Seq(Letter), s # <<>>, NEW d, NEW c, Whole(s, d, c)
  PROVE  /\ Cut(s, c) = 0 /\ d.qualifier \in Seq(Letter) /\ d.separator \in Seq(Letter)
         /\ d.qualifier \o d.separator = SubSeq(s, 1, 0)
<1>1. Cut(s, c) = 0
  BY DEF Cut, Whole
<1>2. SubSeq(s, 1, 0) = <<>>
  BY SubSeqEmpty
<1>3. <<>> \in Seq(Letter) /\ <<>> \o <<>> = <<>>
  OBVIOUS
<1> QED
  BY <1>1, <1>2, <1>3 DEF Whole

LEMMA CutOfDivided ==
  ASSUME NEW s \in Seq(Letter), NEW d, NEW c, NEW k, Divided(s, d, c, k)
  PROVE  Cut(s, c) = k
<1>1. k \in 2..(Len(s) - 1) /\ s[k] = c /\ \A j \in (k + 1)..Len(s) : s[j] # c
  BY DEF Divided
<1> DEFINE P(i) == s[i] = c /\ \A j \in (i + 1)..Len(s) : s[j] # c
           m == CHOOSE i \in DOMAIN s : P(i)
<1>2. k \in DOMAIN s /\ P(k) /\ Len(s) \in Nat /\ DOMAIN s = 1..Len(s) /\ Len(s) # 1
  BY <1>1
<1>3. m \in DOMAIN s /\ P(m)
  <2> HIDE DEF P
  <2> QED
    BY <1>2
<1>4. c \in ToSet(s)
  BY <1>1, <1>2 DEF ToSet
<1>5. Cut(s, c) = m
  BY <1>2, <1>4, Zenon DEF Cut
<1> HIDE DEF m
<1>6. m \in Nat /\ k \in Nat /\ (m < k => k \in (m + 1)..Len(s))
      /\ (k < m => m \in (k + 1)..Len(s))
  BY <1>2, <1>3
<1>7. m = k
  BY <1>2, <1>3, <1>6
<1> QED
  BY <1>5, <1>7

(* What a rename needs to know of a symbol: where it is cut, and that its  *)
(* qualifier and separator are what is before the cut.                     *)
LEMMA CutIs ==
  ASSUME NEW s \in Seq(Letter), s # <<>>, NEW lang \in Languages, "none" \notin ToSet(s),
         Describe(s, lang).renameable
  PROVE  /\ Cut(s, Separator(lang)) \in 0..Len(s)
         /\ Describe(s, lang).qualifier \in Seq(Letter)
         /\ Describe(s, lang).separator \in Seq(Letter)
         /\ Describe(s, lang).qualifier \o Describe(s, lang).separator
              = SubSeq(s, 1, Cut(s, Separator(lang)))
<1> DEFINE d == Describe(s, lang)
           c == Separator(lang)
<1>1. Whole(s, d, c) \/ \E k : Divided(s, d, c, k)
  BY Described
<1> HIDE DEF d, c
<1>2. CASE Whole(s, d, c)
  <2>1. 0 \in 0..Len(s)
    OBVIOUS
  <2>2. /\ Cut(s, c) = 0 /\ d.qualifier \in Seq(Letter) /\ d.separator \in Seq(Letter)
        /\ d.qualifier \o d.separator = SubSeq(s, 1, 0)
    BY <1>2, CutOfWhole
  <2> QED
    BY <2>1, <2>2 DEF d, c
<1>3. CASE \E k : Divided(s, d, c, k)
  <2>1. PICK k : Divided(s, d, c, k)
    BY <1>3
  <2>2. Cut(s, c) = k
    BY <2>1, CutOfDivided
  <2>3. /\ k \in 0..Len(s) /\ d.qualifier \in Seq(Letter) /\ d.separator \in Seq(Letter)
        /\ d.qualifier \o d.separator = SubSeq(s, 1, k)
    BY <2>1 DEF Divided
  <2> QED
    BY <2>2, <2>3 DEF d, c
<1> QED
  BY <1>1, <1>2, <1>3

\* The characters of a name in upper case.
Cased == Letter \cup {"A"}

LEMMA UpperIs ==
  ASSUME NEW s \in Seq(Letter)
  PROVE  /\ Upper(s) \in Seq(Cased) /\ Len(Upper(s)) = Len(s)
         /\ \A i \in 1..Len(s) : Upper(s)[i] = IF s[i] = "a" THEN "A" ELSE s[i]
<1>1. \A i \in DOMAIN s : (IF s[i] = "a" THEN "A" ELSE s[i]) \in Cased
  BY DEF Cased
<1> QED
  BY <1>1 DEF Upper

LEMMA FoldedConcat ==
  ASSUME NEW s \in Seq(Letter), NEW t \in Seq(Letter), NEW lang
  PROVE  Folded(s \o t, lang) = Folded(s, lang) \o Folded(t, lang)
<1>1. Upper(s \o t) = Upper(s) \o Upper(t)
  <2> DEFINE r == s \o t
  <2>1. r \in Seq(Letter) /\ Len(r) = Len(s) + Len(t)
        /\ \A i \in 1..Len(r) : r[i] = IF i <= Len(s) THEN s[i] ELSE t[i - Len(s)]
    OBVIOUS
  <2> HIDE DEF r
  <2> DEFINE u == Upper(s)
             v == Upper(t)
             w == Upper(r)
  <2>2. u \in Seq(Cased) /\ Len(u) = Len(s)
        /\ \A i \in 1..Len(s) : u[i] = IF s[i] = "a" THEN "A" ELSE s[i]
    BY UpperIs
  <2>3. v \in Seq(Cased) /\ Len(v) = Len(t)
        /\ \A i \in 1..Len(t) : v[i] = IF t[i] = "a" THEN "A" ELSE t[i]
    BY UpperIs
  <2>4. w \in Seq(Cased) /\ Len(w) = Len(r)
        /\ \A i \in 1..Len(r) : w[i] = IF r[i] = "a" THEN "A" ELSE r[i]
    BY <2>1, UpperIs
  <2> HIDE DEF u, v, w
  <2>5. w = u \o v
    <3> DEFINE x == u \o v
    <3>1. x \in Seq(Cased) /\ Len(x) = Len(u) + Len(v)
          /\ \A i \in 1..(Len(u) + Len(v)) : x[i] = IF i <= Len(u) THEN u[i] ELSE v[i - Len(u)]
      <4>1. u \in Seq(Cased) /\ v \in Seq(Cased)
        BY <2>2, <2>3
      <4>2. /\ u \o v \in Seq(Cased) /\ Len(u \o v) = Len(u) + Len(v)
            /\ \A i \in 1..(Len(u) + Len(v)) :
                  (u \o v)[i] = IF i <= Len(u) THEN u[i] ELSE v[i - Len(u)]
        BY <4>1, ConcatProperties, Zenon
      <4> QED
        BY <4>2, Zenon
    <3> HIDE DEF x
    <3>2. Len(w) = Len(x)
      BY <2>1, <2>2, <2>3, <2>4, <3>1
    <3>3. \A i \in 1..Len(x) : w[i] = x[i]
      <4>1. TAKE i \in 1..Len(x)
      <4>2. i \in 1..Len(r) /\ Len(u) = Len(s)
        BY <2>1, <2>2, <2>3, <3>1
      <4>3. CASE i <= Len(s)
        <5>1. i \in 1..Len(s)
          BY <4>2, <4>3
        <5> QED
          BY <2>1, <2>2, <2>4, <3>1, <4>2, <4>3, <5>1
      <4>4. CASE ~(i <= Len(s))
        <5>1. i - Len(s) \in 1..Len(t)
          BY <2>1, <4>2, <4>4
        <5> QED
          <6> DEFINE j == i - Len(s)
          <6>1. r[i] = t[j] /\ w[i] = IF r[i] = "a" THEN "A" ELSE r[i]
            BY <2>1, <2>4, <4>2, <4>4, Zenon
          <6>2. x[i] = v[j]
            BY <3>1, <4>2, <4>4, Zenon
          <6>3. v[j] = IF t[j] = "a" THEN "A" ELSE t[j]
            BY <2>3, <5>1, Zenon
          <6> QED
            BY <6>1, <6>2, <6>3, Zenon
      <4> QED
        BY <4>3, <4>4
    <3>4. w = x
      BY <2>4, <3>1, <3>2, <3>3, SeqEqual
    <3> QED
      BY <3>4 DEF x
  <2> QED
    BY <2>5 DEF r, u, v, w
<1> QED
  BY <1>1 DEF Folded

(***************************************************************************)
(* prepareSymbolRename.                                                    *)
(***************************************************************************)
\* A plan to rename: d, e and f describe the old, the asked and the new name.
Prepares(old, asked, new, d, e, f, lang, policy) ==
    /\ old # <<>> /\ asked # <<>> /\ d.renameable /\ f.renameable
    /\ d.identity # f.identity /\ (policy # "exact" => SameQualification(d, f, lang))
    /\ \/ new = asked
       \/ /\ policy = "leaf_only" /\ d.qualifier # <<>> /\ e.qualifier = <<>>
          /\ e.renameable /\ new = d.qualifier \o d.separator \o e.name

LEMMA Prepared ==
  ASSUME NEW old, NEW asked, NEW lang, NEW policy,
         PrepareRename(old, asked, lang, policy).status = "ok"
  PROVE  Prepares(old, asked, PrepareRename(old, asked, lang, policy).name,
                  Describe(old, lang), Describe(asked, lang),
                  Describe(PrepareRename(old, asked, lang, policy).name, lang), lang, policy)
<1> DEFINE n == EffectiveNew(old, asked, lang, policy)
           d == Describe(old, lang)
           f == Describe(n, lang)
           p == PrepareRename(old, asked, lang, policy)
           answer(code) == [status |-> code, name |-> n]
<1> HIDE DEF n, d, f
<1>1. p = CASE ~ValidLispSymbol(old) \/ ~ValidLispSymbol(asked) -> answer("TypeError")
           [] OTHER ->
                IF ~d.renameable \/ ~f.renameable THEN answer("E_SYMBOL_NOT_RENAMEABLE")
                ELSE IF d.identity = f.identity THEN answer("E_SYMBOL_IDENTITY_UNCHANGED")
                ELSE IF policy # "exact" /\ ~SameQualification(d, f, lang)
                THEN answer("E_SYMBOL_QUALIFICATION_CHANGE")
                ELSE answer("ok")
  BY DEF PrepareRename, n, d, f
<1>2. \A code : answer(code).status = code /\ answer(code).name = n
  OBVIOUS
<1> HIDE DEF answer
<1>3. /\ ValidLispSymbol(old) /\ ValidLispSymbol(asked) /\ d.renameable /\ f.renameable
      /\ d.identity # f.identity /\ (policy # "exact" => SameQualification(d, f, lang))
      /\ p = answer("ok")
  <2>1. p.status = "ok"
    OBVIOUS
  <2> HIDE DEF p
  <2> QED
    BY <1>1, <1>2, <2>1
<1>4. p.name = n
  BY <1>2, <1>3
<1>5. old # <<>> /\ asked # <<>>
  BY <1>3 DEF ValidLispSymbol
<1>6. n = asked \/ /\ policy = "leaf_only" /\ d.qualifier # <<>>
                   /\ Describe(asked, lang).qualifier = <<>> /\ Describe(asked, lang).renameable
                   /\ n = d.qualifier \o d.separator \o Describe(asked, lang).name
  BY Zenon DEF EffectiveNew, n, d
<1> HIDE DEF p
<1> DEFINE e == Describe(asked, lang)
<1> HIDE DEF e
<1>7. Prepares(old, asked, n, d, e, f, lang, policy)
  BY <1>3, <1>5, <1>6, Zenon DEF Prepares, e
<1> QED
  BY <1>4, <1>7, Zenon DEF p, d, e, f

\* Read as one or the other.
IsRead(s, d, c) == Whole(s, d, c) \/ \E j : Divided(s, d, c, j)

Joins(new, s, k, t) == new = SubSeq(s, 1, k) \o t

LEMMA LeafOfJoined ==
  ASSUME NEW old \in Seq(Letter), NEW asked \in Seq(Letter), NEW c, asked # <<>>,
         NEW k \in 2..(Len(old) - 1), old[k] = c, Len(asked) = 1 \/ c \notin ToSet(asked),
         NEW new, Joins(new, old, k, asked), NEW d,
         IsRead(new, d, c)
  PROVE  Cut(new, c) = k /\ SubSeq(new, k + 1, Len(new)) = asked
<1> DEFINE p == SubSeq(old, 1, k)
<1>1. /\ p \in Seq(Letter) /\ Len(p) = k /\ p[k] = c /\ k \in Nat /\ k >= 2
      /\ Len(asked) \in Nat /\ Len(asked) # 0
  <2>1. /\ 1 \in Nat \ {0} /\ k \in Nat /\ k <= Len(old) /\ 1 <= k /\ k - 1 + 1 = k
        /\ k \in 1..(k - 1 + 1) /\ 1 + k - 1 = k /\ k >= 2
    OBVIOUS
  <2>2. /\ SubSeq(old, 1, k) \in Seq(Letter)
        /\ Len(SubSeq(old, 1, k)) = IF 1 <= k THEN k - 1 + 1 ELSE 0
        /\ \A i \in 1..(k - 1 + 1) : SubSeq(old, 1, k)[i] = old[1 + i - 1]
    BY <2>1, PartIs
  <2> HIDE DEF p
  <2> QED
    BY <2>1, <2>2 DEF p
<1> HIDE DEF p
<1>2. /\ new \in Seq(Letter) /\ Len(new) = k + Len(asked)
      /\ \A i \in 1..(k + Len(asked)) : new[i] = IF i <= k THEN p[i] ELSE asked[i - k]
  <2>1. new = p \o asked
    BY DEF p, Joins
  <2>2. /\ p \o asked \in Seq(Letter) /\ Len(p \o asked) = Len(p) + Len(asked)
        /\ \A i \in 1..(Len(p) + Len(asked)) :
              (p \o asked)[i] = IF i <= Len(p) THEN p[i] ELSE asked[i - Len(p)]
    BY <1>1, ConcatProperties, Zenon
  <2> QED
    BY <1>1, <2>1, <2>2
<1>3. new[k] = c /\ k \in 1..Len(new)
  BY <1>1, <1>2
<1>4. ~Whole(new, d, c)
  <2>1. c \in ToSet(new) /\ Len(new) # 1
    BY <1>1, <1>2, <1>3 DEF ToSet
  <2> QED
    BY <2>1 DEF Whole
<1>5. PICK j : Divided(new, d, c, j)
  BY <1>4 DEF IsRead
<1>6. j \in 2..(Len(new) - 1) /\ new[j] = c /\ \A i \in (j + 1)..Len(new) : new[i] # c
  BY <1>5 DEF Divided
<1>7. j >= k
  <2>1. j < k => k \in (j + 1)..Len(new)
    BY <1>2, <1>3, <1>6
  <2> QED
    BY <1>1, <1>3, <1>6, <2>1
<1>8. j <= k
  <2>1. CASE Len(asked) = 1
    BY <1>1, <1>2, <1>6, <2>1
  <2>2. CASE c \notin ToSet(asked)
    <3>1. SUFFICES ASSUME j > k PROVE FALSE
      BY <1>1, <1>6
    <3>2. j - k \in 1..Len(asked) /\ new[j] = asked[j - k]
      BY <1>1, <1>2, <1>6, <3>1
    <3>3. asked[j - k] \in ToSet(asked)
      BY <3>2 DEF ToSet
    <3> QED
      BY <1>6, <2>2, <3>2, <3>3
  <2> QED
    BY <2>1, <2>2
<1>9. j = k
  BY <1>1, <1>6, <1>7, <1>8
<1>10. Cut(new, c) = k
  BY <1>2, <1>5, <1>9, CutOfDivided
<1>11. SubSeq(new, k + 1, Len(new)) = asked
  <2> DEFINE q == SubSeq(new, k + 1, Len(new))
             m == k + 1
  <2>1. m \in Nat \ {0} /\ Len(new) \in Nat /\ Len(new) <= Len(new) /\ m <= Len(new)
        /\ Len(new) - m + 1 = Len(asked)
        /\ \A i \in 1..Len(asked) : i \in Nat /\ m + i - 1 = k + i
    BY <1>1, <1>2
  <2>2. q = SubSeq(new, m, Len(new))
    OBVIOUS
  <2> HIDE DEF m, q
  <2>3. /\ SubSeq(new, m, Len(new)) \in Seq(Letter)
        /\ Len(SubSeq(new, m, Len(new))) = IF m <= Len(new) THEN Len(new) - m + 1 ELSE 0
        /\ \A i \in 1..(Len(new) - m + 1) : SubSeq(new, m, Len(new))[i] = new[m + i - 1]
    BY <1>2, <2>1, PartIs
  <2>4. q \in Seq(Letter) /\ Len(q) = Len(asked) /\ \A i \in 1..Len(asked) : q[i] = new[k + i]
    BY <2>1, <2>2, <2>3
  <2>5. \A i \in 1..Len(asked) : k + i \in 1..(k + Len(asked)) /\ ~(k + i <= k) /\ k + i - k = i
    BY <1>1
  <2>6. ASSUME NEW i \in 1..Len(q) PROVE q[i] = asked[i]
    <3> DEFINE n == k + i
    <3>1. i \in 1..Len(asked)
      BY <2>4, <2>6
    <3>2. n \in 1..(k + Len(asked)) /\ ~(n <= k) /\ n - k = i
      BY <2>5, <3>1
    <3>3. q[i] = new[n]
      BY <2>4, <3>1
    <3> HIDE DEF n
    <3>4. new[n] = asked[n - k]
      BY <1>2, <3>2
    <3> QED
      BY <3>2, <3>3, <3>4
  <2>7. q = asked
    BY <2>4, <2>6, SeqEqual
  <2> QED
    BY <2>7 DEF q
<1> QED
  BY <1>10, <1>11

LEMMA NamesWhatIsAsked ==
  ASSUME NEW old, NEW asked, NEW c, NEW d, NEW e,
         Whole(old, d, c) \/ \E k : Divided(old, d, c, k),
         Whole(asked, e, c) \/ \E k : Divided(asked, e, c, k),
         d.qualifier # <<>>, e.qualifier = <<>>
  PROVE  /\ \E k \in 2..(Len(old) - 1) :
              old[k] = c /\ Joins(d.qualifier \o d.separator \o e.name, old, k, asked)
         /\ Len(asked) = 1 \/ c \notin ToSet(asked)
<1>1. PICK k : Divided(old, d, c, k)
  BY DEF Whole
<1>2. Whole(asked, e, c)
  BY DEF Divided
<1>3. e.name = asked /\ (Len(asked) = 1 \/ c \notin ToSet(asked))
  BY <1>2 DEF Whole
<1>4. /\ k \in 2..(Len(old) - 1) /\ old[k] = c
      /\ d.qualifier \o d.separator = SubSeq(old, 1, k)
  BY <1>1 DEF Divided
<1>5. Joins(d.qualifier \o d.separator \o e.name, old, k, asked)
  BY <1>3, <1>4, Zenon DEF Joins
<1> QED
  BY <1>3, <1>4, <1>5

LEMMA JoinsOfLetters ==
  ASSUME NEW old \in Seq(Letter), NEW asked \in Seq(Letter), NEW k \in 0..Len(old), NEW new,
         Joins(new, old, k, asked), NEW x, x \notin ToSet(old), x \notin ToSet(asked)
  PROVE  new \in Seq(Letter) /\ x \notin ToSet(new) /\ (asked # <<>> => new # <<>>)
<1> DEFINE p == SubSeq(old, 1, k)
<1>1. p \in Seq(Letter) /\ Len(p) = k /\ k \in Nat /\ \A i \in 1..k : p[i] = old[i] /\ i \in 1..Len(old)
  <2>1. /\ 1 \in Nat \ {0} /\ k \in Nat /\ k <= Len(old) /\ k - 1 + 1 = k
        /\ (IF 1 <= k THEN k - 1 + 1 ELSE 0) = k
        /\ \A i \in 1..k : i \in 1..(k - 1 + 1) /\ 1 + i - 1 = i /\ i \in 1..Len(old)
    OBVIOUS
  <2>2. /\ SubSeq(old, 1, k) \in Seq(Letter)
        /\ Len(SubSeq(old, 1, k)) = IF 1 <= k THEN k - 1 + 1 ELSE 0
        /\ \A i \in 1..(k - 1 + 1) : SubSeq(old, 1, k)[i] = old[1 + i - 1]
    BY <2>1, PartIs
  <2> HIDE DEF p
  <2> QED
    BY <2>1, <2>2 DEF p
<1> HIDE DEF p
<1>2. /\ new \in Seq(Letter) /\ Len(new) = k + Len(asked) /\ Len(asked) \in Nat
      /\ \A i \in 1..(k + Len(asked)) : new[i] = IF i <= k THEN p[i] ELSE asked[i - k]
  <2>1. new = p \o asked
    BY DEF p, Joins
  <2>2. /\ p \o asked \in Seq(Letter) /\ Len(p \o asked) = Len(p) + Len(asked)
        /\ \A i \in 1..(Len(p) + Len(asked)) :
              (p \o asked)[i] = IF i <= Len(p) THEN p[i] ELSE asked[i - Len(p)]
    BY <1>1, ConcatProperties, Zenon
  <2> QED
    BY <1>1, <2>1, <2>2
<1>3. ASSUME NEW i \in 1..Len(new) PROVE new[i] # x
  <2>1. CASE i <= k
    <3>1. i \in 1..k
      BY <1>1, <2>1
    <3>2. new[i] = old[i] /\ i \in 1..Len(old)
      BY <1>1, <1>2, <2>1, <3>1
    <3> QED
      BY <3>2 DEF ToSet
  <2>2. CASE ~(i <= k)
    <3>1. i - k \in 1..Len(asked) /\ i \in 1..(k + Len(asked))
      BY <1>1, <1>2, <2>2
    <3>2. new[i] = asked[i - k]
      BY <1>2, <2>2, <3>1
    <3> QED
      BY <3>1, <3>2 DEF ToSet
  <2> QED
    BY <2>1, <2>2
<1>4. x \notin ToSet(new)
  BY <1>2, <1>3 DEF ToSet
<1>5. asked # <<>> => new # <<>>
  <2>1. asked # <<>> => Len(asked) # 0
    OBVIOUS
  <2>2. new = <<>> => Len(new) = 0
    OBVIOUS
  <2> QED
    BY <1>1, <1>2, <2>1, <2>2
<1> QED
  BY <1>2, <1>4, <1>5

\* The two parts of a symbol, as its language compares them.
Qualification(s, lang) == Folded(SubSeq(s, 1, Cut(s, Separator(lang))), lang)
LeafOf(s, lang) == Folded(SubSeq(s, Cut(s, Separator(lang)) + 1, Len(s)), lang)

LEMMA Parted ==
  ASSUME NEW s \in Seq(Letter), s # <<>>, NEW lang \in Languages, "none" \notin ToSet(s),
         Describe(s, lang).renameable
  PROVE  /\ Qualification(s, lang) = Folded(Describe(s, lang).qualifier, lang)
                                     \o Folded(Describe(s, lang).separator, lang)
         /\ Folded(s, lang) = Qualification(s, lang) \o LeafOf(s, lang)
<1> DEFINE d == Describe(s, lang)
           k == Cut(s, Separator(lang))
           p == SubSeq(s, 1, k)
           q == SubSeq(s, k + 1, Len(s))
<1>1. /\ k \in 0..Len(s) /\ d.qualifier \in Seq(Letter) /\ d.separator \in Seq(Letter)
      /\ d.qualifier \o d.separator = p
  BY CutIs
<1>2. Qualification(s, lang) = Folded(p, lang) /\ LeafOf(s, lang) = Folded(q, lang)
  BY DEF Qualification, LeafOf
<1>3. s = p \o q /\ p \in Seq(Letter) /\ q \in Seq(Letter)
  <2> HIDE DEF k
  <2> QED
    BY <1>1, TwoParts
<1> HIDE DEF d, p, q
<1>4. Folded(d.qualifier \o d.separator, lang)
        = Folded(d.qualifier, lang) \o Folded(d.separator, lang)
  <2> DEFINE a == d.qualifier
             b == d.separator
  <2>1. a \in Seq(Letter) /\ b \in Seq(Letter)
    BY <1>1
  <2> HIDE DEF a, b
  <2>2. Folded(a \o b, lang) = Folded(a, lang) \o Folded(b, lang)
    BY <2>1, FoldedConcat
  <2> QED
    BY <2>2 DEF a, b
<1>5. Folded(p \o q, lang) = Folded(p, lang) \o Folded(q, lang)
  <2>1. p \in Seq(Letter) /\ q \in Seq(Letter)
    BY <1>3
  <2> QED
    BY <2>1, FoldedConcat
<1> QED
  BY <1>1, <1>2, <1>3, <1>4, <1>5 DEF d

Keeps(old, asked, new, lang, policy) ==
    /\ Head(old) # ":" /\ Head(new) # ":"
    /\ policy = "exact" => new = asked
    /\ policy # "exact" => /\ Qualification(new, lang) = Qualification(old, lang)
                           /\ LeafOf(new, lang) # LeafOf(old, lang)
    /\ LeafOf(new, lang) = LeafOf(asked, lang)

LEMMA RenameKeeps ==
  ASSUME NEW old \in Seq(Letter), NEW asked \in Seq(Letter), NEW lang \in Languages, NEW policy,
         "none" \notin ToSet(old), "none" \notin ToSet(asked),
         PrepareRename(old, asked, lang, policy).status = "ok"
  PROVE  Keeps(old, asked, PrepareRename(old, asked, lang, policy).name, lang, policy)
<1> DEFINE new == PrepareRename(old, asked, lang, policy).name
           d == Describe(old, lang)
           e == Describe(asked, lang)
           f == Describe(new, lang)
           c == Separator(lang)
<1>1. /\ old # <<>> /\ asked # <<>> /\ d.renameable /\ f.renameable
      /\ d.identity # f.identity /\ (policy # "exact" => SameQualification(d, f, lang))
      /\ \/ new = asked
         \/ /\ policy = "leaf_only" /\ d.qualifier # <<>> /\ e.qualifier = <<>>
            /\ e.renameable /\ new = d.qualifier \o d.separator \o e.name
  <2>1. Prepares(old, asked, new, d, e, f, lang, policy)
    BY Prepared, Zenon
  <2> HIDE DEF d, e, f, new
  <2> QED
    BY <2>1 DEF Prepares
<1> HIDE DEF d, e, f, c, new
<1>7. ASSUME new # asked
      PROVE  /\ \E k \in 2..(Len(old) - 1) : old[k] = c /\ Joins(new, old, k, asked)
             /\ Len(asked) = 1 \/ c \notin ToSet(asked)
  <2>1. /\ d.renameable /\ d.qualifier # <<>> /\ e.qualifier = <<>>
        /\ e.renameable /\ new = d.qualifier \o d.separator \o e.name
    BY <1>1, <1>7
  <2>2. Whole(old, d, c) \/ \E k : Divided(old, d, c, k)
    BY <1>1, <2>1, Described, Zenon DEF d, c
  <2>3. Whole(asked, e, c) \/ \E k : Divided(asked, e, c, k)
    BY <1>1, <2>1, Described, Zenon DEF e, c
  <2>4. /\ \E k \in 2..(Len(old) - 1) :
              old[k] = c /\ Joins(d.qualifier \o d.separator \o e.name, old, k, asked)
        /\ Len(asked) = 1 \/ c \notin ToSet(asked)
    BY <2>1, <2>2, <2>3, NamesWhatIsAsked, Zenon
  <2> QED
    BY <2>1, <2>4, Zenon
<1>2. ASSUME new # asked
      PROVE  policy = "leaf_only" /\ LeafOf(new, lang) = LeafOf(asked, lang)
  <2>1. /\ policy = "leaf_only" /\ d.qualifier # <<>> /\ e.qualifier = <<>>
        /\ e.renameable /\ new = d.qualifier \o d.separator \o e.name
    BY <1>1, <1>2
  <2>2. PICK k \in 2..(Len(old) - 1) : old[k] = c /\ Joins(new, old, k, asked)
    BY <1>2, <1>7
  <2>3. Len(asked) = 1 \/ c \notin ToSet(asked)
    BY <1>2, <1>7
  <2>4. Joins(new, old, k, asked) /\ k \in 0..Len(old)
    BY <2>2
  <2>5. new \in Seq(Letter) /\ "none" \notin ToSet(new) /\ new # <<>>
    BY <1>1, <2>4, JoinsOfLetters
  <2>6. f.identity = Folded(new, lang) /\ Head(new) # ":"
        /\ (Whole(new, f, c) \/ \E j : Divided(new, f, c, j))
    BY <1>1, <2>5, Described DEF f, c
  <2>7. Cut(new, c) = k /\ SubSeq(new, k + 1, Len(new)) = asked
    <3>1. asked # <<>> /\ old[k] = c /\ Joins(new, old, k, asked)
      BY <1>1, <2>2, Zenon
    <3>2. IsRead(new, f, c)
      BY <2>6, Zenon DEF IsRead
    <3> QED
      BY <2>2, <2>3, <3>1, <3>2, LeafOfJoined
  <2>8. Cut(asked, c) = 0
    BY <2>3 DEF Cut
  <2>9. SubSeq(asked, 0 + 1, Len(asked)) = asked
    BY SubSeqFull
  <2>10. LeafOf(new, lang) = Folded(asked, lang) /\ LeafOf(asked, lang) = Folded(asked, lang)
    BY <2>7, <2>8, <2>9, Zenon DEF LeafOf, c
  <2> QED
    BY <2>1, <2>5, <2>10
<1>3. new \in Seq(Letter) /\ "none" \notin ToSet(new) /\ new # <<>>
  <2>1. CASE new = asked
    BY <1>1, <2>1
  <2>2. CASE new # asked
    <3>1. PICK k \in 2..(Len(old) - 1) : Joins(new, old, k, asked)
      BY <1>7, <2>2
    <3>2. k \in 0..Len(old)
      OBVIOUS
    <3> QED
      BY <1>1, <3>1, <3>2, JoinsOfLetters
  <2> QED
    BY <2>1, <2>2
<1>4. LeafOf(new, lang) = LeafOf(asked, lang) /\ (new = asked \/ policy = "leaf_only")
  BY <1>1, <1>2
<1>5. /\ d.identity = Folded(old, lang) /\ f.identity = Folded(new, lang)
      /\ Head(old) # ":" /\ Head(new) # ":"
  <2>1. Describe(old, lang).renameable /\ Describe(new, lang).renameable
    BY <1>1 DEF d, f
  <2>2. Describe(old, lang).identity = Folded(old, lang) /\ Head(old) # ":"
    BY <1>1, <2>1, Described
  <2>3. Describe(new, lang).identity = Folded(new, lang) /\ Head(new) # ":"
    BY <1>3, <2>1, Described
  <2> QED
    BY <2>2, <2>3 DEF d, f
<1>6. ASSUME policy # "exact"
      PROVE  Qualification(new, lang) = Qualification(old, lang) /\ LeafOf(new, lang) # LeafOf(old, lang)
  <2>1. /\ Qualification(old, lang) = Folded(d.qualifier, lang) \o Folded(d.separator, lang)
        /\ Folded(old, lang) = Qualification(old, lang) \o LeafOf(old, lang)
    BY <1>1, Parted DEF d
  <2>2. /\ Qualification(new, lang) = Folded(f.qualifier, lang) \o Folded(f.separator, lang)
        /\ Folded(new, lang) = Qualification(new, lang) \o LeafOf(new, lang)
    BY <1>1, <1>3, Parted DEF f
  <2>3. d.separator = f.separator /\ Folded(d.qualifier, lang) = Folded(f.qualifier, lang)
    BY <1>1, <1>6 DEF SameQualification
  <2>4. Qualification(new, lang) = Qualification(old, lang)
    BY <2>1, <2>2, <2>3
  <2> QED
    BY <1>1, <1>5, <2>1, <2>2, <2>4
<1>8. Keeps(old, asked, new, lang, policy)
  BY <1>1, <1>4, <1>5, <1>6, Zenon DEF Keeps
<1> QED
  BY <1>8 DEF new

-----------------------------------------------------------------------------
(* The call: what it asks for, and its answer.                             *)

SemanticsInput ==
    input.of = "semantics" =>
        /\ input.old \in Symbols /\ input.new \in Symbols
        /\ input.policy \in Policies \cup {"default"}

PolicyInForce ==
    IF input.policy = "default" THEN DefaultPolicy(LanguageOf(input.mode)) ELSE input.policy

SemanticsKept ==
    Answered("semantics") /\ TheAnswer.status = "ok" =>
        Keeps(input.old, input.new, TheAnswer.name, LanguageOf(input.mode), PolicyInForce)

SemanticsInv == SemanticsInput /\ SemanticsKept

LEMMA KeptIsMeant ==
  SemanticsKept => QualificationIsKept
<1> DEFINE lang == LanguageOf(input.mode)
           exact == input.policy = "exact"
                    \/ (input.policy = "default" /\ DefaultPolicy(lang) = "exact")
<1>1. PolicyInForce = "exact" <=> exact
  BY DEF PolicyInForce
<1> HIDE DEF exact
<1>2. SUFFICES ASSUME Keeps(input.old, input.new, TheAnswer.name, lang, PolicyInForce),
                      Answered("semantics"), TheAnswer.status = "ok"
               PROVE  QualificationIsKept
  BY Zenon DEF SemanticsKept, QualificationIsKept
<1>3. /\ Head(input.old) # ":" /\ Head(TheAnswer.name) # ":"
      /\ exact => TheAnswer.name = input.new
      /\ ~exact => /\ Qualification(TheAnswer.name, lang) = Qualification(input.old, lang)
                   /\ LeafOf(TheAnswer.name, lang) # LeafOf(input.old, lang)
      /\ LeafOf(TheAnswer.name, lang) = LeafOf(input.new, lang)
  BY <1>1, <1>2, Zenon DEF Keeps
<1> QED
  BY <1>3, Zenon DEF QualificationIsKept, Qualification, LeafOf, Cut, Separator, exact

LEMMA InitSemantics ==
  Init => SemanticsInv
<1> SUFFICES ASSUME Init PROVE SemanticsInv
  OBVIOUS
<1>1. answers = <<>> /\ (DiffCall \/ FrameCall \/ BalanceCall \/ SemanticsCall \/ RenameCall \/ ExtractCall)
  BY DEF Init
<1>2. SemanticsKept
  BY <1>1 DEF SemanticsKept, Answered
<1>3. SemanticsInput
  <2>1. DiffCall => input.of # "semantics"
    BY DEF DiffCall
  <2>2. FrameCall => input.of # "semantics"
    BY DEF FrameCall
  <2>3. BalanceCall => input.of # "semantics"
    BY DEF BalanceCall
  <2>4. SemanticsCall => SemanticsInput
    BY DEF SemanticsCall, SemanticsInput
  <2>5. RenameCall => input.of # "semantics"
    BY DEF RenameCall
  <2>6. ExtractCall => input.of # "semantics"
    BY DEF ExtractCall
  <2> QED
    BY <1>1, <2>1, <2>2, <2>3, <2>4, <2>5, <2>6 DEF SemanticsInput
<1> QED
  BY <1>2, <1>3 DEF SemanticsInv

LEMMA AnswerIs ==
  ASSUME NEW name, NEW value, Answer(name, value)
  PROVE  input' = input /\ answers' = <<value>> /\ input.of = name
BY DEF Answer

LEMMA LanguageIs ==
  ASSUME NEW mode
  PROVE  LanguageOf(mode) \in Languages
BY DEF LanguageOf, Languages

LEMMA StepSemantics ==
  SemanticsInv /\ [Next]_vars => SemanticsInv'
<1> SUFFICES ASSUME SemanticsInv, [Next]_vars PROVE SemanticsInv'
  OBVIOUS
<1>1. CASE PrepareSymbols
  <2> DEFINE lang == LanguageOf(input.mode)
             policy == IF input.policy = "default" THEN DefaultPolicy(lang) ELSE input.policy
             value == PrepareRename(input.old, input.new, lang, policy)
  <2>1. input' = input /\ answers' = <<value>> /\ input.of = "semantics"
    BY <1>1, AnswerIs DEF PrepareSymbols
  <2>2. lang \in Languages
    BY LanguageIs
  <2>3. input.old \in Seq(STRING) /\ input.new \in Seq(STRING)
        /\ "none" \notin ToSet(input.old) /\ "none" \notin ToSet(input.new)
    BY <2>1, SymbolAssumption DEF SemanticsInv, SemanticsInput
  <2>4. input.old \in Seq(Letter) /\ input.new \in Seq(Letter)
    BY <2>3 DEF Letter
  <2>5. TheAnswer' = value
    BY <2>1 DEF TheAnswer
  <2> HIDE DEF lang, policy, value
  <2>7. ASSUME value.status = "ok"
        PROVE  Keeps(input.old, input.new, value.name, lang, policy)
    BY <2>2, <2>3, <2>4, <2>7, RenameKeeps, Zenon DEF value
  <2>8. SemanticsKept'
    BY <2>1, <2>5, <2>7, Zenon DEF SemanticsKept, PolicyInForce, lang, policy
  <2>9. SemanticsInput'
    BY <2>1 DEF SemanticsInv, SemanticsInput
  <2> QED
    BY <2>8, <2>9 DEF SemanticsInv
<1>2. ASSUME NEW name, NEW value, Answer(name, value), name # "semantics"
      PROVE  SemanticsInv'
  <2>1. input' = input /\ input.of # "semantics"
    BY <1>2, AnswerIs
  <2> QED
    BY <2>1 DEF SemanticsInv, SemanticsInput, SemanticsKept, Answered
<1>3. CASE ApplyPatch
  BY <1>2, <1>3 DEF ApplyPatch
<1>4. CASE Receive
  BY <1>2, <1>4 DEF Receive
<1>5. CASE CheckBalance
  BY <1>2, <1>5 DEF CheckBalance
<1>6. CASE PlanAndApply
  BY <1>2, <1>6 DEF PlanAndApply
<1>7. CASE InferParameters
  BY <1>2, <1>7 DEF InferParameters
<1>8. CASE UNCHANGED vars
  BY <1>8 DEF vars, SemanticsInv, SemanticsInput, SemanticsKept, Answered, TheAnswer, PolicyInForce
<1> QED
  BY <1>1, <1>3, <1>4, <1>5, <1>6, <1>7, <1>8 DEF Next

(* A rename that is to keep the qualification of a symbol keeps it, in     *)
(* every language, whatever the symbols (symbol-semantics.ts:110).         *)
THEOREM RenamesKeepQualification == Spec => []QualificationIsKept
<1>1. Init => SemanticsInv
  BY InitSemantics
<1>2. SemanticsInv /\ [Next]_vars => SemanticsInv'
  BY StepSemantics
<1>3. SemanticsInv => QualificationIsKept
  BY KeptIsMeant DEF SemanticsInv
<1> QED
  BY <1>1, <1>2, <1>3, PTL DEF Spec

-----------------------------------------------------------------------------
(***************************************************************************)
(* Folds over sequences (community modules), element by element.           *)
(***************************************************************************)
LEMMA LastOfSome ==
  ASSUME NEW n \in Nat, NEW s \in SUBSET (1..n), s # {}
  PROVE  Max(s) \in s /\ Max(s) \in 1..n /\ \A k \in s : k <= Max(s)
<1>1. s \in SUBSET Nat /\ \A k \in s : k <= n
  OBVIOUS
<1>2. Max(s) \in s /\ \A k \in s : Max(s) >= k
  BY <1>1, MaxIs
<1>3. \A k \in s : k \in Nat
  BY <1>1
<1> QED
  BY <1>2, <1>3

LEMMA LastOfAll ==
  ASSUME NEW n \in Nat \ {0}
  PROVE  Max(1..n) = n /\ (1..n) \ {n} = 1..(n - 1) /\ 1..n # {}
<1>1. n \in 1..n /\ 1..n \in SUBSET (1..n) /\ n \in Nat
  OBVIOUS
<1>2. Max(1..n) \in 1..n /\ \A k \in 1..n : k <= Max(1..n)
  BY <1>1, LastOfSome
<1>3. Max(1..n) = n
  <2> DEFINE m == Max(1..n)
  <2>1. m \in 1..n /\ n <= m
    BY <1>1, <1>2
  <2> HIDE DEF m
  <2>2. m = n
    BY <2>1
  <2> QED
    BY <2>2 DEF m
<1>4. (1..n) \ {n} = 1..(n - 1)
  OBVIOUS
<1> QED
  BY <1>1, <1>3, <1>4

\* h is the table of the sets of 1..n of which a fold is the last entry.
Table(h, n, b, F) ==
    \A s \in SUBSET (1..n) : h[s] = IF s = {} THEN b ELSE F[<<h[s \ {Max(s)}], Max(s)>>]

LEMMA TablesExist ==
  ASSUME NEW N \in Nat, NEW A, NEW b \in A,
         NEW F, \A a \in A, k \in 1..N : F[<<a, k>>] \in A
  PROVE  \E h \in [SUBSET (1..N) -> A] : Table(h, N, b, F)
<1> DEFINE T == {n \in Nat : n <= N => \E h \in [SUBSET (1..n) -> A] : Table(h, n, b, F)}
<1>1. 0 \in T
  <2> DEFINE h == [s \in SUBSET (1..0) |-> b]
  <2>1. h \in [SUBSET (1..0) -> A] /\ 1..0 = {}
    OBVIOUS
  <2>2. \A s \in SUBSET (1..0) : s = {} /\ h[s] = b
    BY <2>1
  <2> HIDE DEF h
  <2>3. Table(h, 0, b, F)
    BY <2>2 DEF Table
  <2> QED
    BY <2>1, <2>3
<1>2. ASSUME NEW n \in T PROVE n + 1 \in T
  <2>1. n \in Nat /\ n + 1 \in Nat /\ (n + 1 <= N => n <= N)
    OBVIOUS
  <2>2. SUFFICES ASSUME n + 1 <= N
                 PROVE  \E h \in [SUBSET (1..(n + 1)) -> A] : Table(h, n + 1, b, F)
    BY <2>1
  <2>3. PICK h \in [SUBSET (1..n) -> A] : Table(h, n, b, F)
    BY <2>1, <2>2
  <2> DEFINE m == n + 1
  <2>4. m \in 1..N /\ m \in 1..m /\ m \in Nat /\ m \notin 1..n /\ 1..n \in SUBSET (1..m)
        /\ \A k \in 1..m : k <= m
    BY <2>1, <2>2
  <2>5. \A s \in SUBSET (1..m) : s \ {m} \in SUBSET (1..n) /\ (m \notin s => s \in SUBSET (1..n))
    BY <2>1
  <2> HIDE DEF m
  <2> DEFINE k == [s \in SUBSET (1..m) |-> IF m \in s THEN F[<<h[s \ {m}], m>>] ELSE h[s]]
  <2>6. k \in [SUBSET (1..m) -> A]
    <3>1. \A s \in SUBSET (1..m) : h[s \ {m}] \in A /\ (m \notin s => h[s] \in A)
      BY <2>5
    <3>2. \A s \in SUBSET (1..m) : F[<<h[s \ {m}], m>>] \in A
      BY <2>4, <3>1
    <3> QED
      BY <3>1, <3>2
  <2>7. \A s \in SUBSET (1..m) : k[s] = IF m \in s THEN F[<<h[s \ {m}], m>>] ELSE h[s]
    OBVIOUS
  <2> HIDE DEF k
  <2>8. ASSUME NEW s \in SUBSET (1..m)
        PROVE  k[s] = IF s = {} THEN b ELSE F[<<k[s \ {Max(s)}], Max(s)>>]
    <3>1. CASE s = {}
      <4>1. k[s] = h[s] /\ s \in SUBSET (1..n)
        BY <2>7, <3>1
      <4> QED
        BY <2>3, <3>1, <4>1 DEF Table
    <3>2. CASE m \in s
      <4> DEFINE x == Max(s)
      <4>1. x \in s /\ x \in 1..m /\ \A j \in s : j <= x
        BY <2>4, <3>2, LastOfSome
      <4> HIDE DEF x
      <4>2. x = m
        BY <2>4, <3>2, <4>1
      <4>3. s \ {m} \in SUBSET (1..m) /\ m \notin s \ {m}
        OBVIOUS
      <4>4. k[s \ {m}] = h[s \ {m}]
        BY <2>7, <4>3
      <4>5. k[s] = F[<<k[s \ {x}], x>>]
        BY <2>7, <3>2, <4>2, <4>4
      <4> QED
        BY <3>2, <4>5 DEF x
    <3>3. CASE s # {} /\ m \notin s
      <4> DEFINE x == Max(s)
      <4>1. s \in SUBSET (1..n)
        BY <2>5, <3>3
      <4>2. x \in s
        BY <2>1, <3>3, <4>1, LastOfSome
      <4>3. h[s] = F[<<h[s \ {x}], x>>]
        BY <2>3, <3>3, <4>1 DEF Table
      <4> HIDE DEF x
      <4>4. s \ {x} \in SUBSET (1..m) /\ m \notin s \ {x}
        BY <3>3
      <4>5. k[s] = h[s] /\ k[s \ {x}] = h[s \ {x}]
        BY <2>7, <3>3, <4>4
      <4> QED
        BY <3>3, <4>3, <4>5 DEF x
    <3> QED
      BY <3>1, <3>2, <3>3
  <2>9. Table(k, m, b, F)
    BY <2>8 DEF Table
  <2> QED
    BY <2>6, <2>9 DEF m
<1>3. T \in SUBSET Nat
  OBVIOUS
<1> HIDE DEF T
<1>4. Nat \subseteq T
  BY <1>1, <1>2, <1>3, Induction
<1>5. N \in Nat /\ N <= N
  OBVIOUS
<1> QED
  BY <1>4, <1>5 DEF T

\* What a loop has come to after each of N steps.
Goes(g, N, b, F) == g[0] = b /\ \A k \in 1..N : g[k] = F[<<g[k - 1], k>>]

LEMMA TableGoes ==
  ASSUME NEW N \in Nat, NEW A, NEW b \in A, NEW F, NEW h,
         \A a \in A, k \in 1..N : F[<<a, k>>] \in A, Table(h, N, b, F)
  PROVE  \E g \in [0..N -> A] : Goes(g, N, b, F) /\ g[N] = h[1..N]
<1> DEFINE g == [k \in 0..N |-> h[1..k]]
           T == {k \in Nat : k <= N => h[1..k] \in A}
<1>1. ASSUME NEW k \in 1..N PROVE h[1..k] = F[<<h[1..(k - 1)], k>>]
  <2>1. k \in Nat \ {0} /\ 1..k \in SUBSET (1..N)
    OBVIOUS
  <2>2. Max(1..k) = k /\ (1..k) \ {k} = 1..(k - 1) /\ 1..k # {}
    BY <2>1, LastOfAll
  <2>3. h[1..k] = F[<<h[(1..k) \ {Max(1..k)}], Max(1..k)>>]
    BY <2>1, <2>2, Zenon DEF Table
  <2> QED
    BY <2>2, <2>3, Zenon
<1>2. h[1..0] = b
  <2>1. 1..0 = {} /\ {} \in SUBSET (1..N)
    OBVIOUS
  <2> QED
    BY <2>1 DEF Table
<1>3. 0 \in T
  BY <1>2
<1>4. ASSUME NEW k \in T PROVE k + 1 \in T
  <2>1. k \in Nat /\ k + 1 \in Nat /\ (k + 1) - 1 = k
        /\ (k + 1 <= N => k <= N /\ k + 1 \in 1..N)
    OBVIOUS
  <2>2. ASSUME k + 1 <= N PROVE h[1..(k + 1)] \in A
    <3> DEFINE m == k + 1
    <3>1. m \in 1..N /\ m - 1 = k /\ h[1..k] \in A
      BY <2>1, <2>2
    <3> HIDE DEF m
    <3>2. h[1..m] = F[<<h[1..k], m>>]
      BY <1>1, <3>1
    <3> QED
      BY <3>1, <3>2 DEF m
  <2> QED
    BY <2>1, <2>2
<1>5. T \in SUBSET Nat
  OBVIOUS
<1> HIDE DEF T
<1>6. Nat \subseteq T
  BY <1>3, <1>4, <1>5, Induction
<1>7. g \in [0..N -> A]
  <2>1. ASSUME NEW k \in 0..N PROVE h[1..k] \in A
    <3>1. k \in T /\ k \in Nat /\ k <= N
      BY <1>6
    <3> QED
      BY <3>1 DEF T
  <2> QED
    BY <2>1
<1>8. Goes(g, N, b, F)
  <2>1. 0 \in 0..N /\ \A k \in 1..N : k \in 0..N /\ k - 1 \in 0..N
    OBVIOUS
  <2>2. g[0] = h[1..0] /\ \A k \in 1..N : g[k] = h[1..k] /\ g[k - 1] = h[1..(k - 1)]
    BY <2>1
  <2> HIDE DEF g
  <2> QED
    BY <1>1, <1>2, <2>2 DEF Goes
<1>9. g[N] = h[1..N]
  OBVIOUS
<1> QED
  BY <1>7, <1>8, <1>9

(***************************************************************************)
(* Unified diffs (module UnifiedDiff): the loops, line by line.            *)
(***************************************************************************)
BodyLine == [kind : Body, text : STRING]
Hunk == [header : HeaderLine, lines : Seq(BodyLine)]
Parsed == [hunks : Seq(Hunk), valid : BOOLEAN]
Done == [out : Seq(STRING), passed : Nat, error : {"", Malformed, Conflict}]

OneSide(side, line, kinds) == IF line.kind \in kinds THEN Append(side, line.text) ELSE side

LEMMA OneSideTypes ==
  ASSUME NEW a \in Seq(STRING), NEW line \in BodyLine, NEW kinds
  PROVE  OneSide(a, line, kinds) \in Seq(STRING)
<1>1. line.text \in STRING
  BY DEF BodyLine
<1>2. Append(a, line.text) \in Seq(STRING)
  BY <1>1, AppendProperties
<1> QED
  BY <1>2 DEF OneSide

\* g[k] is the side of the first k lines.
SideRun(g, h, kinds, N) ==
    /\ \A k \in 0..N : g[k] \in Seq(STRING)
    /\ g[0] = <<>> /\ \A k \in 1..N : g[k] = OneSide(g[k - 1], h.lines[k], kinds)
    /\ Side(h, kinds) = g[N]

LEMMA SideGoes ==
  ASSUME NEW h \in Hunk, NEW kinds, NEW N \in Nat, DOMAIN h.lines = 1..N
  PROVE  \E g : SideRun(g, h, kinds, N)
<1>0. \A k \in 1..N : h.lines[k] \in BodyLine
  BY DEF Hunk
<1> DEFINE A == Seq(STRING)
           b == <<>>
           e == h.lines
           Eq(t) == t = [s \in SUBSET (1..N) |->
                            IF s = {} THEN b ELSE OneSide(t[s \ {Max(s)}], e[Max(s)], kinds)]
           it == CHOOSE t : Eq(t)
           F == [x \in A \X (1..N) |-> OneSide(x[1], e[x[2]], kinds)]
           G == [x \in (A \cup {it[s] : s \in SUBSET (1..N)}) \X (1..N) |->
                    OneSide(x[1], e[x[2]], kinds)]
<1>1. \A a \in A, k \in 1..N : OneSide(a, e[k], kinds) \in A
  BY <1>0, OneSideTypes
<1>2. b \in A
  OBVIOUS
<1>3. Side(h, kinds) = it[1..N]
  BY Zenon DEF Side, FoldLeft, MapThenFoldSet, OneSide
<1> HIDE DEF A, b, e
<1>4. \E t : Eq(t)
  <2>1. \A a \in A, k \in 1..N : F[<<a, k>>] = OneSide(a, e[k], kinds)
    OBVIOUS
  <2> HIDE DEF F
  <2>2. \A a \in A, k \in 1..N : F[<<a, k>>] \in A
    BY <1>1, <2>1
  <2>3. PICK t \in [SUBSET (1..N) -> A] : Table(t, N, b, F)
    BY <1>2, <2>2, TablesExist
  <2>4. ASSUME NEW s \in SUBSET (1..N), s # {}
        PROVE  t[s] = OneSide(t[s \ {Max(s)}], e[Max(s)], kinds)
    <3>1. Max(s) \in 1..N /\ s \ {Max(s)} \in SUBSET (1..N)
      BY <2>4, LastOfSome
    <3>2. t[s] = F[<<t[s \ {Max(s)}], Max(s)>>] /\ t[s \ {Max(s)}] \in A
      BY <2>3, <2>4, <3>1 DEF Table
    <3> QED
      BY <2>1, <3>1, <3>2
  <2>5. t[{}] = b
    BY <2>3 DEF Table
  <2>6. Eq(t)
    BY <2>4, <2>5
  <2> QED
    BY <2>6
<1>5. Eq(it)
  <2> HIDE DEF Eq
  <2> QED
    BY <1>4
<1> HIDE DEF it
<1>6. Table(it, N, b, G)
  <2>1. ASSUME NEW s \in SUBSET (1..N), s # {}
        PROVE  it[s] = G[<<it[s \ {Max(s)}], Max(s)>>]
    <3>1. Max(s) \in 1..N /\ s \ {Max(s)} \in SUBSET (1..N)
      BY <2>1, LastOfSome
    <3>2. it[s] = OneSide(it[s \ {Max(s)}], e[Max(s)], kinds)
      BY <1>5, <2>1
    <3> QED
      BY <3>1, <3>2
  <2>2. it[{}] = b
    BY <1>5
  <2> HIDE DEF G
  <2> QED
    BY <2>1, <2>2 DEF Table
<1>7. \A a \in A, k \in 1..N : G[<<a, k>>] = OneSide(a, e[k], kinds)
  OBVIOUS
<1> HIDE DEF G, F, Eq
<1>8. \A a \in A, k \in 1..N : G[<<a, k>>] \in A
  BY <1>1, <1>7
<1>9. PICK g \in [0..N -> A] : Goes(g, N, b, G) /\ g[N] = it[1..N]
  BY <1>2, <1>6, <1>8, TableGoes
<1>10. ASSUME NEW k \in 1..N PROVE g[k] = OneSide(g[k - 1], e[k], kinds)
  <2>1. k - 1 \in 0..N
    OBVIOUS
  <2>2. g[k] = G[<<g[k - 1], k>>] /\ g[k - 1] \in A
    BY <1>9, <2>1 DEF Goes
  <2> QED
    BY <1>7, <2>2
<1>11. g[0] = b /\ Side(h, kinds) = g[N]
  BY <1>3, <1>9 DEF Goes
<1>12. \A k \in 0..N : g[k] \in A
  BY <1>9
<1>13. SideRun(g, h, kinds, N)
  BY <1>10, <1>11, <1>12, Zenon DEF SideRun, A, b, e
<1> QED
  BY <1>13

LEMMA ApplyLineTypes ==
  ASSUME NEW source \in Seq(STRING), NEW a \in Done, NEW line \in BodyLine
  PROVE  /\ ApplyLine(source, a, line) \in Done
         /\ a.error # "" => ApplyLine(source, a, line) = a
         /\ a.error = "" /\ line.kind = "add" =>
               /\ ApplyLine(source, a, line).error = ""
               /\ ApplyLine(source, a, line).passed = a.passed
               /\ ApplyLine(source, a, line).out = Append(a.out, line.text)
         /\ a.error = "" /\ line.kind # "add" =>
               /\ ApplyLine(source, a, line).error = ""
                    <=> a.passed + 1 <= Len(source) /\ source[a.passed + 1] = line.text
               /\ ApplyLine(source, a, line).error = "" =>
                     /\ ApplyLine(source, a, line).passed = a.passed + 1
                     /\ ApplyLine(source, a, line).out
                          = IF line.kind = "context" THEN Append(a.out, line.text) ELSE a.out
<1>1. /\ line.text \in STRING /\ a.out \in Seq(STRING) /\ a.passed \in Nat
      /\ a.error \in {"", Malformed, Conflict}
      /\ Append(a.out, line.text) \in Seq(STRING) /\ a.passed + 1 \in Nat /\ Len(source) \in Nat
      /\ (a.passed >= Len(source) <=> ~(a.passed + 1 <= Len(source)))
  <2>1. line.text \in STRING
    BY DEF BodyLine
  <2>2. /\ a.out \in Seq(STRING) /\ a.passed \in Nat /\ a.error \in {"", Malformed, Conflict}
    BY DEF Done
  <2>3. Append(a.out, line.text) \in Seq(STRING)
    BY <2>1, <2>2, AppendProperties
  <2>4. Len(source) \in Nat
    OBVIOUS
  <2>5. \A m, n \in Nat : m + 1 \in Nat /\ (m >= n <=> ~(m + 1 <= n))
    OBVIOUS
  <2> QED
    BY <2>1, <2>2, <2>3, <2>4, <2>5, Zenon
<1> DEFINE p == ApplyLine(source, a, line)
           o == Append(a.out, line.text)
           n == a.passed + 1
<1>2. CASE a.error # ""
  <2>1. p = a
    BY <1>2 DEF ApplyLine
  <2> QED
    BY <1>2, <2>1
<1>3. CASE a.error = "" /\ line.kind = "add"
  <2>1. p = [a EXCEPT !.out = o]
    BY <1>3 DEF ApplyLine
  <2> HIDE DEF p, o
  <2>2. p \in Done /\ p.error = "" /\ p.passed = a.passed /\ p.out = o
    BY <1>1, <1>3, <2>1 DEF Done, o
  <2> QED
    BY <1>3, <2>2 DEF p, o
<1>4. CASE a.error = "" /\ line.kind # "add" /\ ~(n <= Len(source) /\ source[n] = line.text)
  <2>1. p = [a EXCEPT !.error = Conflict]
    BY <1>1, <1>4 DEF ApplyLine
  <2> HIDE DEF p
  <2>2. p \in Done /\ p.error # ""
    BY <1>1, <2>1 DEF Done, Conflict
  <2> QED
    BY <1>4, <2>2 DEF p
<1>5. CASE a.error = "" /\ line.kind # "add" /\ n <= Len(source) /\ source[n] = line.text
  <2> DEFINE q == IF line.kind = "context" THEN o ELSE a.out
  <2>1. p = [a EXCEPT !.passed = n, !.out = q]
    BY <1>1, <1>5 DEF ApplyLine
  <2>2. q \in Seq(STRING) /\ n \in Nat
    BY <1>1
  <2> HIDE DEF p, q, n
  <2>3. p \in Done /\ p.error = "" /\ p.passed = n /\ p.out = q
    BY <1>1, <1>5, <2>1, <2>2 DEF Done
  <2> QED
    BY <1>5, <2>3 DEF p, q, n, o
<1> QED
  BY <1>2, <1>3, <1>4, <1>5

LinesOf(source, start, lines) ==
    FoldLeft(LAMBDA d, line : ApplyLine(source, d, line), start, lines)

LinesRun(g, source, start, lines, N) ==
    /\ \A k \in 0..N : g[k] \in Done
    /\ g[0] = start /\ \A k \in 1..N : g[k] = ApplyLine(source, g[k - 1], lines[k])
    /\ LinesOf(source, start, lines) = g[N]

LEMMA LinesGo ==
  ASSUME NEW source \in Seq(STRING), NEW start \in Done, NEW lines \in Seq(BodyLine),
         NEW N \in Nat, DOMAIN lines = 1..N
  PROVE  \E g : LinesRun(g, source, start, lines, N)
<1>0. \A k \in 1..N : lines[k] \in BodyLine
  OBVIOUS
<1> DEFINE A == Done
           b == start
           e == lines
           Eq(t) == t = [s \in SUBSET (1..N) |->
                            IF s = {} THEN b ELSE ApplyLine(source, t[s \ {Max(s)}], e[Max(s)])]
           it == CHOOSE t : Eq(t)
           F == [x \in A \X (1..N) |-> ApplyLine(source, x[1], e[x[2]])]
           G == [x \in (A \cup {it[s] : s \in SUBSET (1..N)}) \X (1..N) |->
                    ApplyLine(source, x[1], e[x[2]])]
<1>1. \A a \in A, k \in 1..N : ApplyLine(source, a, e[k]) \in A
  BY <1>0, ApplyLineTypes
<1>2. b \in A
  OBVIOUS
<1>3. LinesOf(source, start, lines) = it[1..N]
  BY Zenon DEF LinesOf, FoldLeft, MapThenFoldSet
<1> HIDE DEF A, b, e
<1>4. \E t : Eq(t)
  <2>1. \A a \in A, k \in 1..N : F[<<a, k>>] = ApplyLine(source, a, e[k])
    OBVIOUS
  <2> HIDE DEF F
  <2>2. \A a \in A, k \in 1..N : F[<<a, k>>] \in A
    BY <1>1, <2>1
  <2>3. PICK t \in [SUBSET (1..N) -> A] : Table(t, N, b, F)
    BY <1>2, <2>2, TablesExist
  <2>4. ASSUME NEW s \in SUBSET (1..N), s # {}
        PROVE  t[s] = ApplyLine(source, t[s \ {Max(s)}], e[Max(s)])
    <3>1. Max(s) \in 1..N /\ s \ {Max(s)} \in SUBSET (1..N)
      BY <2>4, LastOfSome
    <3>2. t[s] = F[<<t[s \ {Max(s)}], Max(s)>>] /\ t[s \ {Max(s)}] \in A
      BY <2>3, <2>4, <3>1 DEF Table
    <3> QED
      BY <2>1, <3>1, <3>2
  <2>5. t[{}] = b
    BY <2>3 DEF Table
  <2>6. Eq(t)
    BY <2>4, <2>5
  <2> QED
    BY <2>6
<1>5. Eq(it)
  <2> HIDE DEF Eq
  <2> QED
    BY <1>4
<1> HIDE DEF it
<1>6. Table(it, N, b, G)
  <2>1. ASSUME NEW s \in SUBSET (1..N), s # {}
        PROVE  it[s] = G[<<it[s \ {Max(s)}], Max(s)>>]
    <3>1. Max(s) \in 1..N /\ s \ {Max(s)} \in SUBSET (1..N)
      BY <2>1, LastOfSome
    <3>2. it[s] = ApplyLine(source, it[s \ {Max(s)}], e[Max(s)])
      BY <1>5, <2>1
    <3> QED
      BY <3>1, <3>2
  <2>2. it[{}] = b
    BY <1>5
  <2> HIDE DEF G
  <2> QED
    BY <2>1, <2>2 DEF Table
<1>7. \A a \in A, k \in 1..N : G[<<a, k>>] = ApplyLine(source, a, e[k])
  OBVIOUS
<1> HIDE DEF G, F, Eq
<1>8. \A a \in A, k \in 1..N : G[<<a, k>>] \in A
  BY <1>1, <1>7
<1>9. PICK g \in [0..N -> A] : Goes(g, N, b, G) /\ g[N] = it[1..N]
  BY <1>2, <1>6, <1>8, TableGoes
<1>10. ASSUME NEW k \in 1..N PROVE g[k] = ApplyLine(source, g[k - 1], e[k])
  <2>1. k - 1 \in 0..N
    OBVIOUS
  <2>2. g[k] = G[<<g[k - 1], k>>] /\ g[k - 1] \in A
    BY <1>9, <2>1 DEF Goes
  <2> QED
    BY <1>7, <2>2
<1>11. g[0] = b /\ LinesOf(source, start, lines) = g[N]
  BY <1>3, <1>9 DEF Goes
<1>12. \A k \in 0..N : g[k] \in A
  BY <1>9
<1>13. LinesRun(g, source, start, lines, N)
  BY <1>10, <1>11, <1>12, Zenon DEF LinesRun, A, b, e
<1> QED
  BY <1>13

\* Arithmetic, apart from what it is used on.
LEMMA Counting ==
  /\ \A a, b \in Nat : /\ a + (b + 1) = (a + b) + 1 /\ b + 1 \in 1..(b + 1)
                       /\ \A i \in 1..(b + 1) : i \in 1..b \/ i = b + 1
                       /\ \A i \in 1..b : i \in 1..(b + 1)
  /\ \A a, b \in Nat : a + 1 <= b => a + 1 \in 1..b /\ a \in 0..b /\ a <= b
  /\ \A i \in 1..0 : FALSE
  /\ \A a, b, c \in Nat : a <= b /\ b <= c => a <= c
  /\ \A a \in Nat : /\ a <= a /\ a \in 0..a /\ a + 0 = a /\ a + 1 \in Nat /\ (a + 1) - 1 = a
                    /\ a + 1 # 0 /\ 0 <= a /\ (a # 0 => a \in 1..a)
OBVIOUS

LEMMA Elements ==
  ASSUME NEW S, NEW s \in Seq(S)
  PROVE  Len(s) \in Nat /\ DOMAIN s = 1..Len(s) /\ \A k \in 1..Len(s) : s[k] \in S
OBVIOUS

LEMMA OneMore ==
  ASSUME NEW S, NEW s \in Seq(S), NEW x \in S
  PROVE  /\ Append(s, x) \in Seq(S) /\ Len(Append(s, x)) = Len(s) + 1
         /\ \A i \in 1..Len(s) : Append(s, x)[i] = s[i]
         /\ Append(s, x)[Len(s) + 1] = x /\ <<x>> \in Seq(S)
<1>1. <<x>> \in Seq(S)
  OBVIOUS
<1> QED
  BY <1>1, AppendProperties

LEMMA Emptiness ==
  Len(<<>>) = 0 /\ \A s \in Seq(STRING) : s \o <<>> = s /\ <<>> \o s = s
<1>1. \A s \in Seq(STRING) : s \o <<>> = s /\ <<>> \o s = s
  BY ConcatEmptySeq
<1>2. Len(<<>>) = 0
  OBVIOUS
<1> QED
  BY <1>1, <1>2

(* What the lines of a hunk come to: its old side is in the source, from   *)
(* T + 1 on, or there is an error; and the new side is put out.            *)
FitsAt(source, T, os) ==
    \A i \in 1..Len(os) : T + i <= Len(source) /\ source[T + i] = os[i]

Means(source, T, before, d, os, ns) ==
    /\ d.error = "" <=> FitsAt(source, T, os)
    /\ d.error = "" => d.passed = T + Len(os) /\ d.out = before \o ns

LEMMA FitsMore ==
  ASSUME NEW source \in Seq(STRING), NEW T \in Nat, NEW os \in Seq(STRING), NEW x \in STRING
  PROVE  /\ Append(os, x) \in Seq(STRING) /\ Len(Append(os, x)) = Len(os) + 1
         /\ FitsAt(source, T, Append(os, x))
              <=> /\ FitsAt(source, T, os)
                  /\ (T + Len(os)) + 1 <= Len(source) /\ source[(T + Len(os)) + 1] = x
<1> DEFINE m == Append(os, x)
           n == Len(os)
<1>1. /\ m \in Seq(STRING) /\ Len(m) = n + 1 /\ \A i \in 1..n : m[i] = os[i]
      /\ m[n + 1] = x /\ n \in Nat
  <2>1. m \in Seq(STRING) /\ Len(m) = n + 1
    BY OneMore
  <2>2. \A i \in 1..n : m[i] = os[i]
    BY OneMore
  <2>3. m[n + 1] = x
    BY OneMore
  <2>4. n \in Nat
    BY Elements
  <2> QED
    BY <2>1, <2>2, <2>3, <2>4
<1> HIDE DEF m
<1>2. /\ n + 1 \in 1..(n + 1) /\ T + (n + 1) = (T + n) + 1
      /\ \A i \in 1..(n + 1) : i \in 1..n \/ i = n + 1
      /\ \A i \in 1..n : i \in 1..(n + 1)
  <2>1. n \in Nat
    OBVIOUS
  <2> HIDE DEF n
  <2> QED
    BY <2>1, Counting, Zenon
<1> HIDE DEF n
<1>3. FitsAt(source, T, m) <=> \A i \in 1..(n + 1) : T + i <= Len(source) /\ source[T + i] = m[i]
  BY <1>1 DEF FitsAt
<1>4. FitsAt(source, T, os) <=> \A i \in 1..n : T + i <= Len(source) /\ source[T + i] = os[i]
  BY DEF FitsAt, n
<1>5. ASSUME FitsAt(source, T, m)
      PROVE  FitsAt(source, T, os) /\ (T + n) + 1 <= Len(source) /\ source[(T + n) + 1] = x
  <2>1. T + (n + 1) <= Len(source) /\ source[T + (n + 1)] = m[n + 1]
    BY <1>2, <1>3, <1>5
  <2>2. \A i \in 1..n : T + i <= Len(source) /\ source[T + i] = os[i]
    BY <1>1, <1>2, <1>3, <1>5
  <2> QED
    BY <1>1, <1>2, <1>4, <2>1, <2>2
<1>6. ASSUME FitsAt(source, T, os), (T + n) + 1 <= Len(source), source[(T + n) + 1] = x
      PROVE  FitsAt(source, T, m)
  <2>1. ASSUME NEW i \in 1..(n + 1) PROVE T + i <= Len(source) /\ source[T + i] = m[i]
    <3>1. CASE i \in 1..n
      BY <1>1, <1>4, <1>6, <3>1
    <3>2. CASE i = n + 1
      BY <1>1, <1>2, <1>6, <3>2
    <3> QED
      BY <1>2, <3>1, <3>2
  <2> QED
    BY <1>3, <2>1
<1> QED
  BY <1>1, <1>5, <1>6 DEF m, n

LEMMA PutOut ==
  ASSUME NEW a \in Seq(STRING), NEW b \in Seq(STRING), NEW x \in STRING
  PROVE  a \o Append(b, x) = Append(a \o b, x)
<1>1. <<x>> \in Seq(STRING)
  BY OneMore
<1>a. a \o b \in Seq(STRING)
  BY ConcatProperties
<1>2. Append(b, x) = b \o <<x>> /\ Append(a \o b, x) = (a \o b) \o <<x>>
  BY <1>a, AppendIsConcat
<1>3. (a \o b) \o <<x>> = a \o (b \o <<x>>)
  BY <1>1, ConcatAssociative
<1> QED
  BY <1>2, <1>3

LEMMA LineMeans ==
  ASSUME NEW source \in Seq(STRING), NEW T \in Nat, NEW before \in Seq(STRING),
         NEW d \in Done, NEW os \in Seq(STRING), NEW ns \in Seq(STRING), NEW line \in BodyLine,
         Means(source, T, before, d, os, ns)
  PROVE  Means(source, T, before, ApplyLine(source, d, line),
               OneSide(os, line, {"context", "remove"}), OneSide(ns, line, {"context", "add"}))
<1> DEFINE p == ApplyLine(source, d, line)
           x == line.text
<1>1. x \in STRING /\ line.kind \in {"context", "add", "remove"} /\ Len(os) \in Nat
  <2>1. x \in STRING
    BY DEF BodyLine
  <2>2. line.kind \in {"context", "add", "remove"}
    BY DEF BodyLine, Body
  <2>3. Len(os) \in Nat
    OBVIOUS
  <2> QED
    BY <2>1, <2>2, <2>3
<1>2. /\ p \in Done
      /\ d.error # "" => p = d
      /\ d.error = "" /\ line.kind = "add" =>
            p.error = "" /\ p.passed = d.passed /\ p.out = Append(d.out, x)
      /\ d.error = "" /\ line.kind # "add" =>
            /\ p.error = "" <=> d.passed + 1 <= Len(source) /\ source[d.passed + 1] = x
            /\ p.error = "" =>
                  /\ p.passed = d.passed + 1
                  /\ p.out = IF line.kind = "context" THEN Append(d.out, x) ELSE d.out
  BY ApplyLineTypes
<1> HIDE DEF p, x
<1>3. /\ Append(os, x) \in Seq(STRING) /\ Len(Append(os, x)) = Len(os) + 1
      /\ FitsAt(source, T, Append(os, x))
           <=> /\ FitsAt(source, T, os)
               /\ (T + Len(os)) + 1 <= Len(source) /\ source[(T + Len(os)) + 1] = x
  BY <1>1, FitsMore
<1>4. before \o Append(ns, x) = Append(before \o ns, x)
  BY <1>1, PutOut
<1>5. T + (Len(os) + 1) = (T + Len(os)) + 1
  BY <1>1, Counting, Zenon
<1>6. /\ d.error = "" <=> FitsAt(source, T, os)
      /\ d.error = "" => d.passed = T + Len(os) /\ d.out = before \o ns
  BY DEF Means
<1>7. CASE line.kind = "add"
  <2>1. /\ OneSide(os, line, {"context", "remove"}) = os
        /\ OneSide(ns, line, {"context", "add"}) = Append(ns, x)
    BY <1>7 DEF OneSide, x
  <2>2. Means(source, T, before, p, os, Append(ns, x))
    BY <1>2, <1>4, <1>6, <1>7 DEF Means
  <2> QED
    BY <2>1, <2>2 DEF p
<1>8. CASE line.kind = "remove"
  <2>1. /\ OneSide(os, line, {"context", "remove"}) = Append(os, x)
        /\ OneSide(ns, line, {"context", "add"}) = ns
    BY <1>8 DEF OneSide, x
  <2>2. Means(source, T, before, p, Append(os, x), ns)
    BY <1>2, <1>3, <1>5, <1>6, <1>8 DEF Means
  <2> QED
    BY <2>1, <2>2 DEF p
<1>9. CASE line.kind = "context"
  <2>1. /\ OneSide(os, line, {"context", "remove"}) = Append(os, x)
        /\ OneSide(ns, line, {"context", "add"}) = Append(ns, x)
    BY <1>9 DEF OneSide, x
  <2>2. Means(source, T, before, p, Append(os, x), Append(ns, x))
    BY <1>2, <1>3, <1>4, <1>5, <1>6, <1>9 DEF Means
  <2> QED
    BY <2>1, <2>2 DEF p
<1> QED
  BY <1>1, <1>7, <1>8, <1>9

LEMMA HunkMeans ==
  ASSUME NEW source \in Seq(STRING), NEW start \in Done, NEW h \in Hunk, start.error = ""
  PROVE  /\ LinesOf(source, start, h.lines) \in Done
         /\ OldSide(h) \in Seq(STRING) /\ NewSide(h) \in Seq(STRING)
         /\ Means(source, start.passed, start.out, LinesOf(source, start, h.lines),
                  OldSide(h), NewSide(h))
<1> DEFINE N == Len(h.lines)
           T == start.passed
           before == start.out
<1> DEFINE lines == h.lines
<1>0. lines \in Seq(BodyLine)
  BY DEF Hunk
<1>1. /\ h.lines \in Seq(BodyLine) /\ N \in Nat /\ DOMAIN h.lines = 1..N
      /\ \A k \in 1..N : h.lines[k] \in BodyLine
  <2> HIDE DEF lines
  <2>1. /\ Len(lines) \in Nat /\ DOMAIN lines = 1..Len(lines)
        /\ \A k \in 1..Len(lines) : lines[k] \in BodyLine
    BY <1>0, Elements, Zenon
  <2> QED
    BY <1>0, <2>1 DEF lines
<1>2. T \in Nat /\ before \in Seq(STRING)
  BY DEF Done
<1> HIDE DEF N, lines
<1>3. PICK g : LinesRun(g, source, start, h.lines, N)
  BY <1>1, LinesGo
<1>4. PICK o : SideRun(o, h, {"context", "remove"}, N)
  BY <1>1, SideGoes
<1>5. PICK n : SideRun(n, h, {"context", "add"}, N)
  BY <1>1, SideGoes
<1> HIDE DEF T, before
<1> DEFINE S == {k \in Nat : k <= N => Means(source, T, before, g[k], o[k], n[k])}
<1>6. 0 \in S
  <2>1. FitsAt(source, T, <<>>)
    BY Counting, Emptiness, Zenon DEF FitsAt
  <2>2. T + Len(<<>>) = T /\ before \o <<>> = before
    BY <1>2, Counting, Emptiness, Zenon
  <2>3. Means(source, T, before, start, <<>>, <<>>)
    BY <2>1, <2>2 DEF Means, T, before
  <2> QED
    BY <1>3, <1>4, <1>5, <2>3 DEF LinesRun, SideRun
<1>7. ASSUME NEW k \in S PROVE k + 1 \in S
  <2> DEFINE m == k + 1
  <2>b. k \in Nat
    OBVIOUS
  <2>1. k \in Nat /\ m \in Nat /\ m - 1 = k /\ (m <= N => m \in 1..N /\ k \in 0..N /\ k <= N)
    BY <1>1, <2>b, Counting, Zenon
  <2>2. ASSUME m <= N PROVE Means(source, T, before, g[m], o[m], n[m])
    <3> HIDE DEF m
    <3>1. Means(source, T, before, g[k], o[k], n[k])
      BY <2>1, <2>2
    <3>2. g[k] \in Done /\ o[k] \in Seq(STRING) /\ n[k] \in Seq(STRING) /\ h.lines[m] \in BodyLine
      BY <1>1, <1>3, <1>4, <1>5, <2>1, <2>2 DEF LinesRun, SideRun
    <3>3. Means(source, T, before, ApplyLine(source, g[k], h.lines[m]),
                OneSide(o[k], h.lines[m], {"context", "remove"}),
                OneSide(n[k], h.lines[m], {"context", "add"}))
      BY <1>2, <3>1, <3>2, LineMeans
    <3>4. /\ g[m] = ApplyLine(source, g[k], h.lines[m])
          /\ o[m] = OneSide(o[k], h.lines[m], {"context", "remove"})
          /\ n[m] = OneSide(n[k], h.lines[m], {"context", "add"})
      BY <1>3, <1>4, <1>5, <2>1, <2>2 DEF LinesRun, SideRun
    <3> QED
      BY <3>3, <3>4, Zenon
  <2> QED
    BY <2>1, <2>2
<1>8. S \in SUBSET Nat
  OBVIOUS
<1> HIDE DEF S
<1>9. Nat \subseteq S
  BY <1>6, <1>7, <1>8, Induction
<1>10. N \in S /\ N <= N /\ N \in 0..N
  BY <1>1, <1>9, Counting, Zenon
<1>11. Means(source, T, before, g[N], o[N], n[N])
  BY <1>10 DEF S
<1>12. OldSide(h) = o[N] /\ NewSide(h) = n[N]
  BY <1>4, <1>5 DEF OldSide, NewSide, SideRun
<1>13. /\ LinesOf(source, start, h.lines) = g[N] /\ g[N] \in Done
       /\ o[N] \in Seq(STRING) /\ n[N] \in Seq(STRING)
  BY <1>3, <1>4, <1>5, <1>10 DEF LinesRun, SideRun
<1> QED
  BY <1>11, <1>12, <1>13 DEF T, before

(* A hunk changes the text when its old side is where it says, and its     *)
(* counts are right; the parameters are those of FitsText.                 *)
End(h) == Place(h) + Len(OldSide(h))
FitsIn(source, h) ==
    /\ CountsAgree(h)
    /\ End(h) <= Len(source) /\ SubSeq(source, Place(h) + 1, End(h)) = OldSide(h)

\* A hunk with old lines, or one that is put before the text.
Usual(h) == ~(h.header.oldCount = 0 /\ h.header.old > 0)

LEMMA EmptySide ==
  ASSUME NEW h \in Hunk, NEW kinds, Side(h, kinds) = <<>>
  PROVE  Seen(h, kinds) = 0
<1> DEFINE lines == h.lines
           N == Len(lines)
<1>0. lines \in Seq(BodyLine)
  BY DEF Hunk
<1>1. N \in Nat /\ DOMAIN h.lines = 1..N
  <2> HIDE DEF lines
  <2>1. Len(lines) \in Nat /\ DOMAIN lines = 1..Len(lines)
    BY <1>0, Elements, Zenon
  <2> QED
    BY <2>1 DEF lines
<1>t. \A k \in 1..N : h.lines[k].text \in STRING
  <2> HIDE DEF lines
  <2>1. \A k \in 1..Len(lines) : lines[k] \in BodyLine
    BY <1>0, Elements, Zenon
  <2>2. \A k \in 1..Len(lines) : lines[k].text \in STRING
    BY <2>1 DEF BodyLine
  <2> QED
    BY <2>2 DEF lines
<1> HIDE DEF N, lines
<1>2. PICK g : SideRun(g, h, kinds, N)
  BY <1>1, SideGoes
<1> DEFINE None(k) == \A i \in 1..k : h.lines[i].kind \notin kinds
           S == {k \in Nat : k <= N => (g[k] = <<>> => None(k))}
<1>3. 0 \in S
  BY Counting, Zenon
<1>4. ASSUME NEW k \in S PROVE k + 1 \in S
  <2> DEFINE m == k + 1
  <2>1. k \in Nat
    OBVIOUS
  <2>2. m \in Nat /\ m - 1 = k /\ (m <= N => m \in 1..N /\ k \in 0..N /\ k <= N)
        /\ \A i \in 1..m : i \in 1..k \/ i = m
    BY <1>1, <2>1, Counting, Zenon
  <2>3. ASSUME m <= N, g[m] = <<>> PROVE None(m)
    <3> HIDE DEF m
    <3>1. g[m] = OneSide(g[k], h.lines[m], kinds) /\ g[k] \in Seq(STRING)
      BY <1>2, <2>2, <2>3 DEF SideRun
    <3>2. h.lines[m].kind \notin kinds
      <4> DEFINE x == h.lines[m].text
                 s == g[k]
      <4>1. x \in STRING /\ s \in Seq(STRING)
        BY <1>t, <2>2, <2>3, <3>1, Zenon
      <4>2. ASSUME h.lines[m].kind \in kinds PROVE g[m] = Append(s, x)
        BY <3>1, <4>2 DEF OneSide
      <4> HIDE DEF x, s
      <4>3. Append(s, x) # <<>>
        BY <4>1, AppendProperties
      <4> QED
        BY <2>3, <4>2, <4>3
    <3>3. g[k] = <<>>
      BY <2>3, <3>1, <3>2 DEF OneSide
    <3>4. None(k)
      BY <2>2, <2>3, <3>3
    <3> QED
      BY <2>2, <3>2, <3>4
  <2> HIDE DEF None
  <2> QED
    BY <2>2, <2>3
<1>5. S \in SUBSET Nat
  OBVIOUS
<1> HIDE DEF S
<1>6. Nat \subseteq S
  BY <1>3, <1>4, <1>5, Induction
<1>7. N \in S /\ N <= N
  BY <1>1, <1>6, Counting, Zenon
<1>8. None(N)
  BY <1>2, <1>7 DEF S, SideRun
<1>9. {i \in DOMAIN h.lines : h.lines[i].kind \in kinds} = {}
  BY <1>1, <1>8
<1> QED
  BY <1>9, FS_EmptySet DEF Seen

LEMMA WhereIs ==
  ASSUME NEW h \in Hunk, Usual(h)
  PROVE  /\ TargetIndex(h) \in Nat /\ Place(h) = TargetIndex(h)
         /\ h.header.oldCount = 0 => TargetIndex(h) = 0
<1> DEFINE a == h.header.old
           c == h.header.oldCount
<1>1. a \in Nat /\ c \in Nat
  BY DEF Hunk, HeaderLine
<1>2. \A n \in Nat : (n # 0 => n - 1 \in Nat) /\ (~(n > 0) => n = 0)
  OBVIOUS
<1> QED
  BY <1>1, <1>2, Zenon DEF TargetIndex, Place, Usual

LEMMA OldSideThere ==
  ASSUME NEW source \in Seq(STRING), NEW T \in Nat, NEW os \in Seq(STRING), os = <<>> => T = 0
  PROVE  FitsAt(source, T, os)
           <=> T + Len(os) <= Len(source) /\ SubSeq(source, T + 1, T + Len(os)) = os
<1> DEFINE n == Len(os)
           L == Len(source)
           part == SubSeq(source, T + 1, T + n)
<1>1. n \in Nat /\ L \in Nat
  BY Elements
<1>2. n = 0 => os = <<>>
  BY EmptySeq
<1>3. /\ T + 1 \in Nat \ {0} /\ T + n \in Nat
      /\ (T + n) - (T + 1) + 1 = n
      /\ (IF T + 1 <= T + n THEN (T + n) - (T + 1) + 1 ELSE 0) = n
      /\ \A i \in 1..n : (T + 1) + i - 1 = T + i
      /\ (n # 0 => n \in 1..n) /\ (n = 0 /\ T = 0 => T + n <= L)
      /\ T + n <= L => \A i \in 1..n : T + i <= L
  <2>1. \A a, b, c \in Nat :
          /\ a + 1 \in Nat \ {0} /\ a + b \in Nat /\ (a + b) - (a + 1) + 1 = b
          /\ (IF a + 1 <= a + b THEN (a + b) - (a + 1) + 1 ELSE 0) = b
          /\ \A i \in 1..b : (a + 1) + i - 1 = a + i
          /\ (b # 0 => b \in 1..b) /\ (b = 0 /\ a = 0 => a + b <= c)
          /\ a + b <= c => \A i \in 1..b : a + i <= c
    OBVIOUS
  <2> HIDE DEF n, L
  <2> QED
    BY <1>1, <2>1, Zenon
<1>4. ASSUME T + n <= L
      PROVE  part \in Seq(STRING) /\ Len(part) = n /\ \A i \in 1..n : part[i] = source[T + i]
  <2> HIDE DEF n
  <2> DEFINE q == T + n
             p == T + 1
  <2>1. p \in Nat \ {0} /\ q \in Nat /\ q <= Len(source)
    BY <1>3, <1>4
  <2>3. /\ part = SubSeq(source, p, q) /\ q - p + 1 = n /\ (IF p <= q THEN q - p + 1 ELSE 0) = n
        /\ \A i \in 1..n : p + i - 1 = T + i
    BY <1>3, Zenon
  <2> HIDE DEF p, q, part
  <2>2. /\ SubSeq(source, p, q) \in Seq(STRING)
        /\ Len(SubSeq(source, p, q)) = IF p <= q THEN q - p + 1 ELSE 0
        /\ \A i \in 1..(q - p + 1) : SubSeq(source, p, q)[i] = source[p + i - 1]
    BY <2>1, PartIs
  <2> QED
    BY <2>2, <2>3
<1> HIDE DEF part
<1>5. FitsAt(source, T, os) <=> \A i \in 1..n : T + i <= L /\ source[T + i] = os[i]
  BY DEF FitsAt
<1>6. ASSUME FitsAt(source, T, os) PROVE T + n <= L /\ part = os
  <2>1. T + n <= L
    <3> HIDE DEF n, L
    <3> QED
      BY <1>2, <1>3, <1>5, <1>6
  <2>2. part \in Seq(STRING) /\ Len(part) = n /\ \A i \in 1..n : part[i] = os[i]
    BY <1>4, <1>5, <1>6, <2>1
  <2> QED
    BY <2>1, <2>2, SeqEqual
<1>7. ASSUME T + n <= L, part = os PROVE FitsAt(source, T, os)
  <2>1. \A i \in 1..n : T + i <= L /\ source[T + i] = os[i]
    <3> HIDE DEF n, L
    <3> QED
      BY <1>3, <1>4, <1>7
  <2> QED
    BY <1>5, <2>1
<1> QED
  BY <1>6, <1>7 DEF n, L, part

LEMMA SliceTypes ==
  ASSUME NEW source \in Seq(STRING), NEW from \in Nat, NEW to \in Nat
  PROVE  /\ Slice(source, from, to) \in Seq(STRING)
         /\ to <= Len(source) => Slice(source, from, to) = SubSeq(source, from + 1, to)
         /\ Slice(source, from, Len(source)) = SubSeq(source, from + 1, Len(source))
<1> DEFINE L == Len(source)
           m == IF to < L THEN to ELSE L
           p == from + 1
<1>1. L \in Nat
  BY Elements
<1>2. p \in Nat \ {0} /\ m \in Nat /\ m <= L /\ (to <= L => m = to) /\ ~(L < L)
  <2> HIDE DEF L
  <2> QED
    BY <1>1
<1>3. Slice(source, from, to) = SubSeq(source, p, m)
  BY Zenon DEF Slice
<1>4. Slice(source, from, L) = SubSeq(source, p, L)
  BY <1>2 DEF Slice
<1> HIDE DEF p, m
<1>5. SubSeq(source, p, m) \in Seq(STRING)
  BY <1>2, PartIs DEF L
<1> QED
  BY <1>2, <1>3, <1>4, <1>5 DEF p, L

\* What comes of one hunk.
HunkDone(source, d, h, new) ==
    /\ new.error = "" <=> d.passed <= Place(h) /\ FitsIn(source, h)
    /\ new.error = "" =>
          /\ new.passed = End(h)
          /\ new.out = (d.out \o SubSeq(source, d.passed + 1, Place(h))) \o NewSide(h)

LEMMA HunkStep ==
  ASSUME NEW source \in Seq(STRING), NEW d \in Done, NEW h \in Hunk, Usual(h)
  PROVE  /\ ApplyHunk(source, d, h) \in Done
         /\ d.error # "" => ApplyHunk(source, d, h) = d
         /\ d.error = "" => HunkDone(source, d, h, ApplyHunk(source, d, h))
<1> DEFINE new == ApplyHunk(source, d, h)
           T == TargetIndex(h)
           p == d.passed
           before == d.out \o Slice(source, p, T)
           start == [d EXCEPT !.passed = T, !.out = before]
           end == LinesOf(source, start, h.lines)
           os == OldSide(h)
           ns == NewSide(h)
<1>1. p \in Nat /\ d.out \in Seq(STRING) /\ d.error \in {"", Malformed, Conflict}
  BY DEF Done
<1>2. T \in Nat /\ Place(h) = T /\ (h.header.oldCount = 0 => T = 0)
  BY WhereIs
<1>3. CASE d.error # ""
  <2>1. new = d
    BY <1>3 DEF ApplyHunk
  <2> HIDE DEF new
  <2> QED
    BY <1>3, <2>1 DEF new
<1>4. CASE d.error = "" /\ T < p
  <2>1. new = [d EXCEPT !.error = Malformed]
    BY <1>4, Zenon DEF ApplyHunk, Overlaps
  <2> HIDE DEF new
  <2>2. new \in Done /\ new.error # ""
    BY <1>1, <2>1 DEF Done, Malformed
  <2>3. ~(p <= T)
    <3>1. \A a, b \in Nat : a < b => ~(b <= a)
      OBVIOUS
    <3> QED
      BY <1>1, <1>2, <1>4, <3>1, Zenon
  <2>4. HunkDone(source, d, h, new)
    BY <1>2, <2>2, <2>3 DEF HunkDone
  <2> QED
    BY <1>4, <2>2, <2>4 DEF new
<1>5. CASE d.error = "" /\ ~(T < p)
  <2>1. p <= T
    <3>1. \A a, b \in Nat : ~(a < b) => b <= a
      OBVIOUS
    <3> QED
      BY <1>1, <1>2, <1>5, <3>1, Zenon
  <2>2. Slice(source, p, T) \in Seq(STRING)
    BY <1>1, <1>2, SliceTypes
  <2>3. before \in Seq(STRING)
    BY <1>1, <2>2, ConcatProperties
  <2>4. start \in Done /\ start.error = "" /\ start.passed = T /\ start.out = before
    <3> HIDE DEF T, before
    <3> QED
      BY <1>1, <1>2, <1>5, <2>3 DEF Done
  <2>5. new = IF end.error = "" /\ ~CountsAgree(h) THEN [end EXCEPT !.error = Malformed] ELSE end
    BY <1>5, Zenon DEF ApplyHunk, Overlaps, LinesOf
  <2> HIDE DEF new, start, before
  <2>6. end \in Done /\ os \in Seq(STRING) /\ ns \in Seq(STRING)
        /\ Means(source, T, before, end, os, ns)
    <3>1. start \in Done /\ start.error = ""
      BY <2>4
    <3>2. /\ end \in Done /\ os \in Seq(STRING) /\ ns \in Seq(STRING)
          /\ Means(source, start.passed, start.out, end, os, ns)
      BY <3>1, HunkMeans
    <3> QED
      BY <2>4, <3>2, Zenon
  <2>7. CountsAgree(h) => (os = <<>> => T = 0)
    <3>1. os = <<>> => Seen(h, {"context", "remove"}) = 0
      BY EmptySide DEF OldSide
    <3> QED
      BY <1>2, <3>1 DEF CountsAgree
  <2>8. CountsAgree(h) =>
          (FitsAt(source, T, os)
             <=> T + Len(os) <= Len(source) /\ SubSeq(source, T + 1, T + Len(os)) = os)
    <3> HIDE DEF T, os
    <3> QED
      BY <1>2, <2>6, <2>7, OldSideThere
  <2>9. CountsAgree(h) => (FitsAt(source, T, os) <=> FitsIn(source, h))
    BY <1>2, <2>8, Zenon DEF FitsIn, End
  <2>10. FitsIn(source, h) => Slice(source, p, T) = SubSeq(source, p + 1, T)
    <3>1. Len(os) \in Nat /\ Len(source) \in Nat
      BY <2>6, Elements
    <3>2. \A a, b, c \in Nat : a + b <= c => a <= c
      OBVIOUS
    <3>3. FitsIn(source, h) => T + Len(os) <= Len(source)
      BY <1>2, Zenon DEF FitsIn, End
    <3>4. FitsIn(source, h) => T <= Len(source)
      BY <1>2, <3>1, <3>2, <3>3, Zenon
    <3> QED
      BY <1>1, <1>2, <3>4, SliceTypes
  <2> HIDE DEF T, p, os, ns, end
  <2>11. /\ end.error = "" <=> FitsAt(source, T, os)
         /\ end.error = "" => end.passed = T + Len(os) /\ end.out = before \o ns
    BY <2>6 DEF Means
  <2>12. CASE end.error = "" /\ ~CountsAgree(h)
    <3>1. new = [end EXCEPT !.error = Malformed]
      BY <2>5, <2>12
    <3>2. new \in Done /\ new.error # ""
      BY <2>6, <3>1 DEF Done, Malformed
    <3>3. HunkDone(source, d, h, new)
      BY <2>12, <3>2 DEF HunkDone, FitsIn
    <3> QED
      BY <1>5, <3>2, <3>3 DEF new
  <2>13. CASE ~(end.error = "" /\ ~CountsAgree(h))
    <3>1. new = end
      BY <2>5, <2>13, Zenon
    <3>2. end.error = "" <=> FitsIn(source, h)
      BY <2>9, <2>11, <2>13, Zenon DEF FitsIn
    <3>3. end.error = "" => end.passed = End(h)
      BY <1>2, <2>11, Zenon DEF End, os
    <3>4. end.error = "" => end.out = (d.out \o SubSeq(source, p + 1, T)) \o ns
      BY <2>10, <2>11, <3>2, Zenon DEF before
    <3>5. HunkDone(source, d, h, end)
      BY <1>2, <2>1, <3>2, <3>3, <3>4, Zenon DEF HunkDone, p, ns
    <3> QED
      BY <1>5, <2>6, <3>1, <3>5 DEF new
  <2> QED
    BY <2>12, <2>13
<1> QED
  BY <1>3, <1>4, <1>5

(* The whole diff: its lines are read into hunks, and the hunks applied.   *)
LEMMA ReadTypes ==
  ASSUME NEW p \in Parsed, NEW line \in DiffLine
  PROVE  ReadLine(p, line) \in Parsed
<1> DEFINE n == Len(p.hunks)
           hs == p.hunks
<1>1. hs \in Seq(Hunk) /\ p.valid \in BOOLEAN
  BY DEF Parsed
<1>2. n \in Nat /\ \A k \in 1..n : hs[k] \in Hunk
  BY <1>1, Elements
<1>3. \/ line.kind = "header" /\ line \in HeaderLine
      \/ line.kind \in Body /\ line \in BodyLine
      \/ line.kind \in Ignored
      \/ line.kind = "junk"
  BY DEF DiffLine, HeaderLine, BodyLine
<1>4. CASE line.kind = "header" /\ line \in HeaderLine
  <2> DEFINE h == [header |-> line, lines |-> <<>>]
             hs2 == Append(hs, h)
  <2>1. h \in Hunk
    BY <1>4 DEF Hunk
  <2> HIDE DEF h
  <2>2. hs2 \in Seq(Hunk)
    <3> HIDE DEF hs
    <3> QED
      BY <1>1, <2>1, OneMore
  <2>3. ReadLine(p, line) = [p EXCEPT !.hunks = hs2]
    <3>1. line.kind \notin Ignored /\ line.kind # "junk" /\ line.kind \notin Body
      BY <1>4 DEF Body, Ignored
    <3> QED
      BY <1>4, <3>1, Zenon DEF ReadLine, h
  <2> HIDE DEF hs2, hs
  <2> QED
    BY <2>2, <2>3 DEF Parsed
<1>5. CASE line.kind # "header" /\ (n = 0 \/ line.kind \in Ignored)
  <2>1. ReadLine(p, line) = p
    <3>1. ~(n > 0 /\ line.kind \in Body) /\ ~(n > 0 /\ line.kind = "junk")
      <4>1. ~(0 > 0)
        OBVIOUS
      <4> QED
        BY <1>5, <4>1, Zenon DEF Body, Ignored
    <3> QED
      BY <1>5, <3>1, Zenon DEF ReadLine
  <2> QED
    BY <2>1
<1>6. CASE n > 0 /\ line.kind \in Body /\ line \in BodyLine
  <2> DEFINE h == hs[n]
             lines == h.lines
             more == Append(lines, line)
             h2 == [h EXCEPT !.lines = more]
             hs2 == [hs EXCEPT ![n] = h2]
  <2>1. n \in 1..n
    <3>1. \A a \in Nat : a > 0 => a \in 1..a
      OBVIOUS
    <3> QED
      BY <1>2, <1>6, <3>1, Zenon
  <2>2. h \in Hunk
    BY <1>2, <2>1, Zenon
  <2> HIDE DEF h
  <2>3. lines \in Seq(BodyLine)
    BY <2>2 DEF Hunk
  <2> HIDE DEF lines
  <2>4. more \in Seq(BodyLine)
    BY <1>6, <2>3, OneMore
  <2> HIDE DEF more
  <2>5. h2 \in Hunk
    BY <2>2, <2>4 DEF Hunk
  <2>6. ReadLine(p, line) = [p EXCEPT !.hunks = hs2]
    <3>1. line.kind \notin Ignored /\ line.kind # "junk" /\ line.kind # "header" /\ n # 0
      <4>1. ~(0 > 0)
        OBVIOUS
      <4>2. n # 0
        BY <1>6, <4>1
      <4> QED
        BY <1>6, <4>2 DEF Body, Ignored
    <3> QED
      BY <1>6, <3>1, Zenon DEF ReadLine, h, lines, more
  <2>a. n \in 1..Len(hs)
    BY <2>1
  <2> HIDE DEF h2, n
  <2>7. hs2 \in Seq(Hunk)
    <3> HIDE DEF hs
    <3>1. [hs EXCEPT ![n] = h2] \in Seq(Hunk)
      BY <1>1, <2>a, <2>5, ExceptSeq
    <3> QED
      BY <3>1
  <2> HIDE DEF hs2, hs
  <2> QED
    BY <2>6, <2>7 DEF Parsed
<1>7. CASE n > 0 /\ line.kind = "junk"
  <2>1. ReadLine(p, line) = [p EXCEPT !.valid = FALSE]
    BY <1>7 DEF ReadLine, Body, Ignored
  <2> QED
    BY <2>1 DEF Parsed
<1>8. n = 0 \/ n > 0
  <2>1. \A a \in Nat : a = 0 \/ a > 0
    OBVIOUS
  <2> QED
    BY <1>2, <2>1, Zenon
<1> HIDE DEF n
<1>9. \/ line.kind # "header" \/ line \in HeaderLine
  BY <1>3 DEF Body, Ignored
<1>10. line.kind \in Ignored => line.kind # "header"
  BY DEF Ignored
<1> QED
  BY <1>3, <1>4, <1>5, <1>6, <1>7, <1>8, <1>9, <1>10

ReadRun(g, diff, N) ==
    /\ \A k \in 0..N : g[k] \in Parsed
    /\ g[0] = [hunks |-> <<>>, valid |-> TRUE]
    /\ \A k \in 1..N : g[k] = ReadLine(g[k - 1], diff[k])
    /\ Hunks(diff) = g[N]

LEMMA ReadGoes ==
  ASSUME NEW diff \in Seq(DiffLine), NEW N \in Nat, DOMAIN diff = 1..N
  PROVE  \E g : ReadRun(g, diff, N)
<1>0. \A k \in 1..N : diff[k] \in DiffLine
  OBVIOUS
<1> DEFINE A == Parsed
           b == [hunks |-> <<>>, valid |-> TRUE]
           e == diff
           Eq(t) == t = [s \in SUBSET (1..N) |->
                            IF s = {} THEN b ELSE ReadLine(t[s \ {Max(s)}], e[Max(s)])]
           it == CHOOSE t : Eq(t)
           F == [x \in A \X (1..N) |-> ReadLine(x[1], e[x[2]])]
           G == [x \in (A \cup {it[s] : s \in SUBSET (1..N)}) \X (1..N) |->
                    ReadLine(x[1], e[x[2]])]
<1>1. \A a \in A, k \in 1..N : ReadLine(a, e[k]) \in A
  BY <1>0, ReadTypes
<1>2. b \in A
  BY DEF Parsed
<1>3. Hunks(diff) = it[1..N]
  BY Zenon DEF Hunks, FoldLeft, MapThenFoldSet
<1> HIDE DEF A, b, e
<1>4. \E t : Eq(t)
  <2>1. \A a \in A, k \in 1..N : F[<<a, k>>] = ReadLine(a, e[k])
    OBVIOUS
  <2> HIDE DEF F
  <2>2. \A a \in A, k \in 1..N : F[<<a, k>>] \in A
    BY <1>1, <2>1
  <2>3. PICK t \in [SUBSET (1..N) -> A] : Table(t, N, b, F)
    BY <1>2, <2>2, TablesExist
  <2>4. ASSUME NEW s \in SUBSET (1..N), s # {}
        PROVE  t[s] = ReadLine(t[s \ {Max(s)}], e[Max(s)])
    <3>1. Max(s) \in 1..N /\ s \ {Max(s)} \in SUBSET (1..N)
      BY <2>4, LastOfSome
    <3>2. t[s] = F[<<t[s \ {Max(s)}], Max(s)>>] /\ t[s \ {Max(s)}] \in A
      BY <2>3, <2>4, <3>1 DEF Table
    <3> QED
      BY <2>1, <3>1, <3>2
  <2>5. t[{}] = b
    BY <2>3 DEF Table
  <2>6. Eq(t)
    BY <2>4, <2>5
  <2> QED
    BY <2>6
<1>5. Eq(it)
  <2> HIDE DEF Eq
  <2> QED
    BY <1>4
<1> HIDE DEF it
<1>6. Table(it, N, b, G)
  <2>1. ASSUME NEW s \in SUBSET (1..N), s # {}
        PROVE  it[s] = G[<<it[s \ {Max(s)}], Max(s)>>]
    <3>1. Max(s) \in 1..N /\ s \ {Max(s)} \in SUBSET (1..N)
      BY <2>1, LastOfSome
    <3>2. it[s] = ReadLine(it[s \ {Max(s)}], e[Max(s)])
      BY <1>5, <2>1
    <3> QED
      BY <3>1, <3>2
  <2>2. it[{}] = b
    BY <1>5
  <2> HIDE DEF G
  <2> QED
    BY <2>1, <2>2 DEF Table
<1>7. \A a \in A, k \in 1..N : G[<<a, k>>] = ReadLine(a, e[k])
  OBVIOUS
<1> HIDE DEF G, F, Eq
<1>8. \A a \in A, k \in 1..N : G[<<a, k>>] \in A
  BY <1>1, <1>7
<1>9. PICK g \in [0..N -> A] : Goes(g, N, b, G) /\ g[N] = it[1..N]
  BY <1>2, <1>6, <1>8, TableGoes
<1>10. ASSUME NEW k \in 1..N PROVE g[k] = ReadLine(g[k - 1], e[k])
  <2>1. k - 1 \in 0..N
    OBVIOUS
  <2>2. g[k] = G[<<g[k - 1], k>>] /\ g[k - 1] \in A
    BY <1>9, <2>1 DEF Goes
  <2> QED
    BY <1>7, <2>2
<1>11. g[0] = b /\ Hunks(diff) = g[N]
  BY <1>3, <1>9 DEF Goes
<1>12. \A k \in 0..N : g[k] \in A
  BY <1>9
<1>13. ReadRun(g, diff, N)
  BY <1>10, <1>11, <1>12, Zenon DEF ReadRun, A, b, e
<1> QED
  BY <1>13

LEMMA HunksParsed ==
  ASSUME NEW diff \in Seq(DiffLine)
  PROVE  Hunks(diff) \in Parsed
<1> DEFINE N == Len(diff)
<1>1. N \in Nat /\ DOMAIN diff = 1..N
  BY Elements
<1> HIDE DEF N
<1>2. PICK g : ReadRun(g, diff, N)
  BY <1>1, ReadGoes
<1>3. N \in 0..N
  BY <1>1, Counting, Zenon
<1> QED
  BY <1>2, <1>3, Zenon DEF ReadRun

HunksOf(source, hunks) ==
    FoldLeft(LAMBDA d, h : ApplyHunk(source, d, h),
             [out |-> <<>>, passed |-> 0, error |-> ""], hunks)

HunksRun(g, source, hunks, N) ==
    /\ \A k \in 0..N : g[k] \in Done
    /\ g[0] = [out |-> <<>>, passed |-> 0, error |-> ""]
    /\ \A k \in 1..N : g[k] = ApplyHunk(source, g[k - 1], hunks[k])
    /\ HunksOf(source, hunks) = g[N]

LEMMA HunksGo ==
  ASSUME NEW source \in Seq(STRING), NEW hunks \in Seq(Hunk), NEW N \in Nat,
         DOMAIN hunks = 1..N, \A k \in 1..N : Usual(hunks[k])
  PROVE  \E g : HunksRun(g, source, hunks, N)
<1>0. \A k \in 1..N : hunks[k] \in Hunk /\ Usual(hunks[k])
  OBVIOUS
<1> DEFINE A == Done
           b == [out |-> <<>>, passed |-> 0, error |-> ""]
           e == hunks
           Eq(t) == t = [s \in SUBSET (1..N) |->
                            IF s = {} THEN b ELSE ApplyHunk(source, t[s \ {Max(s)}], e[Max(s)])]
           it == CHOOSE t : Eq(t)
           F == [x \in A \X (1..N) |-> ApplyHunk(source, x[1], e[x[2]])]
           G == [x \in (A \cup {it[s] : s \in SUBSET (1..N)}) \X (1..N) |->
                    ApplyHunk(source, x[1], e[x[2]])]
<1>1. \A a \in A, k \in 1..N : ApplyHunk(source, a, e[k]) \in A
  BY <1>0, HunkStep
<1>2. b \in A
  BY DEF Done
<1>3. HunksOf(source, hunks) = it[1..N]
  BY Zenon DEF HunksOf, FoldLeft, MapThenFoldSet
<1> HIDE DEF A, b, e
<1>4. \E t : Eq(t)
  <2>1. \A a \in A, k \in 1..N : F[<<a, k>>] = ApplyHunk(source, a, e[k])
    OBVIOUS
  <2> HIDE DEF F
  <2>2. \A a \in A, k \in 1..N : F[<<a, k>>] \in A
    BY <1>1, <2>1
  <2>3. PICK t \in [SUBSET (1..N) -> A] : Table(t, N, b, F)
    BY <1>2, <2>2, TablesExist
  <2>4. ASSUME NEW s \in SUBSET (1..N), s # {}
        PROVE  t[s] = ApplyHunk(source, t[s \ {Max(s)}], e[Max(s)])
    <3>1. Max(s) \in 1..N /\ s \ {Max(s)} \in SUBSET (1..N)
      BY <2>4, LastOfSome
    <3>2. t[s] = F[<<t[s \ {Max(s)}], Max(s)>>] /\ t[s \ {Max(s)}] \in A
      BY <2>3, <2>4, <3>1 DEF Table
    <3> QED
      BY <2>1, <3>1, <3>2
  <2>5. t[{}] = b
    BY <2>3 DEF Table
  <2>6. Eq(t)
    BY <2>4, <2>5
  <2> QED
    BY <2>6
<1>5. Eq(it)
  <2> HIDE DEF Eq
  <2> QED
    BY <1>4
<1> HIDE DEF it
<1>6. Table(it, N, b, G)
  <2>1. ASSUME NEW s \in SUBSET (1..N), s # {}
        PROVE  it[s] = G[<<it[s \ {Max(s)}], Max(s)>>]
    <3>1. Max(s) \in 1..N /\ s \ {Max(s)} \in SUBSET (1..N)
      BY <2>1, LastOfSome
    <3>2. it[s] = ApplyHunk(source, it[s \ {Max(s)}], e[Max(s)])
      BY <1>5, <2>1
    <3> QED
      BY <3>1, <3>2
  <2>2. it[{}] = b
    BY <1>5
  <2> HIDE DEF G
  <2> QED
    BY <2>1, <2>2 DEF Table
<1>7. \A a \in A, k \in 1..N : G[<<a, k>>] = ApplyHunk(source, a, e[k])
  OBVIOUS
<1> HIDE DEF G, F, Eq
<1>8. \A a \in A, k \in 1..N : G[<<a, k>>] \in A
  BY <1>1, <1>7
<1>9. PICK g \in [0..N -> A] : Goes(g, N, b, G) /\ g[N] = it[1..N]
  BY <1>2, <1>6, <1>8, TableGoes
<1>10. ASSUME NEW k \in 1..N PROVE g[k] = ApplyHunk(source, g[k - 1], e[k])
  <2>1. k - 1 \in 0..N
    OBVIOUS
  <2>2. g[k] = G[<<g[k - 1], k>>] /\ g[k - 1] \in A
    BY <1>9, <2>1 DEF Goes
  <2> QED
    BY <1>7, <2>2
<1>11. g[0] = b /\ HunksOf(source, hunks) = g[N]
  BY <1>3, <1>9 DEF Goes
<1>12. \A k \in 0..N : g[k] \in A
  BY <1>9
<1>13. HunksRun(g, source, hunks, N)
  BY <1>10, <1>11, <1>12, Zenon DEF HunksRun, A, b, e
<1> QED
  BY <1>13

LEMMA HunkNumbers ==
  ASSUME NEW h \in Hunk, Usual(h)
  PROVE  /\ OldSide(h) \in Seq(STRING) /\ NewSide(h) \in Seq(STRING)
         /\ Place(h) \in Nat /\ End(h) \in Nat /\ Place(h) <= End(h)
<1> DEFINE lines == h.lines
           N == Len(lines)
<1>0. lines \in Seq(BodyLine)
  BY DEF Hunk
<1> HIDE DEF lines
<1>1. N \in Nat /\ DOMAIN lines = 1..N
  BY <1>0, Elements, Zenon
<1> HIDE DEF N
<1>2. N \in 0..N /\ DOMAIN h.lines = 1..N
  <2>1. N \in 0..N
    BY <1>1, Counting, Zenon
  <2> QED
    BY <1>1, <2>1, Zenon DEF lines
<1>3. PICK o : SideRun(o, h, {"context", "remove"}, N)
  BY <1>1, <1>2, SideGoes
<1>4. PICK n : SideRun(n, h, {"context", "add"}, N)
  BY <1>1, <1>2, SideGoes
<1>5. OldSide(h) \in Seq(STRING) /\ NewSide(h) \in Seq(STRING)
  BY <1>2, <1>3, <1>4, Zenon DEF OldSide, NewSide, SideRun
<1>6. Place(h) \in Nat
  BY WhereIs
<1>7. Len(OldSide(h)) \in Nat
  BY <1>5, Elements, Zenon
<1>8. \A a, b \in Nat : a + b \in Nat /\ a <= a + b
  OBVIOUS
<1>9. End(h) \in Nat /\ Place(h) <= End(h)
  BY <1>6, <1>7, <1>8, Zenon DEF End
<1> QED
  BY <1>5, <1>6, <1>9

\* The first k hunks are where they say, one after the other.
FitSoFar(source, hunks, k) ==
    \A i \in 1..k : /\ FitsIn(source, hunks[i])
                    /\ \A j \in 1..(i - 1) : End(hunks[j]) <= Place(hunks[i])

Passing(passed, hunks, k) ==
    /\ passed = IF k = 0 THEN 0 ELSE End(hunks[k])
    /\ \A j \in 1..k : End(hunks[j]) <= passed

LEMMA OneMoreFits ==
  ASSUME NEW source \in Seq(STRING), NEW hunks, NEW d \in Done, NEW k \in Nat,
         hunks[k + 1] \in Hunk, Usual(hunks[k + 1]),
         \A j \in 1..k : End(hunks[j]) \in Nat,
         d.error = "" <=> FitSoFar(source, hunks, k),
         d.error = "" => Passing(d.passed, hunks, k)
  PROVE  LET new == ApplyHunk(source, d, hunks[k + 1]) IN
         /\ new.error = "" <=> FitSoFar(source, hunks, k + 1)
         /\ new.error = "" => Passing(new.passed, hunks, k + 1)
         /\ new.error = "" =>
              new.out = (d.out \o SubSeq(source, d.passed + 1, Place(hunks[k + 1])))
                          \o NewSide(hunks[k + 1])
<1> DEFINE m == k + 1
           h == hunks[m]
           new == ApplyHunk(source, d, h)
<1>1. /\ d.error # "" => new = d
      /\ d.error = "" => HunkDone(source, d, h, new)
  BY HunkStep
<1>2. Place(h) \in Nat /\ End(h) \in Nat /\ Place(h) <= End(h)
  BY HunkNumbers
<1>3. /\ \A i \in 1..m : i \in 1..k \/ i = m
      /\ \A i \in 1..k : i \in 1..m
      /\ m \in 1..m /\ m # 0 /\ m - 1 = k
  BY Counting, Zenon
<1> HIDE DEF new, h
<1>4. FitSoFar(source, hunks, m) <=> /\ FitSoFar(source, hunks, k)
                                     /\ FitsIn(source, h)
                                     /\ \A j \in 1..k : End(hunks[j]) <= Place(h)
  <2> HIDE DEF m
  <2> QED
    BY <1>3, Zenon DEF FitSoFar, h
<1>5. CASE d.error # ""
  <2> QED
    BY <1>1, <1>4, <1>5, Zenon DEF new, h
<1>6. CASE d.error = ""
  <2> DEFINE p == d.passed
             q == Place(h)
             e == End(h)
  <2>1. p \in Nat /\ q \in Nat /\ e \in Nat /\ q <= e /\ Passing(p, hunks, k)
    BY <1>2, <1>6 DEF Done
  <2>2. /\ new.error = "" <=> p <= q /\ FitsIn(source, h)
        /\ new.error = "" => /\ new.passed = e
                             /\ new.out = (d.out \o SubSeq(source, p + 1, q)) \o NewSide(h)
    BY <1>1, <1>6, Zenon DEF HunkDone
  <2> HIDE DEF p, q, e, m
  <2>3. \A a, b, c \in Nat : a <= b /\ b <= c => a <= c
    BY Counting, Zenon
  <2>4. p <= q <=> \A j \in 1..k : End(hunks[j]) <= q
    <3>1. ASSUME p <= q, NEW j \in 1..k PROVE End(hunks[j]) <= q
      BY <2>1, <2>3, <3>1, Zenon DEF Passing
    <3>2. ASSUME \A j \in 1..k : End(hunks[j]) <= q PROVE p <= q
      <4>1. CASE k = 0
        <5>1. 0 <= q
          BY <2>1, Counting, Zenon
        <5> QED
          BY <2>1, <4>1, <5>1, Zenon DEF Passing
      <4>2. CASE k # 0
        <5>1. k \in 1..k
          BY <4>2, Counting, Zenon
        <5> QED
          BY <2>1, <3>2, <4>2, <5>1, Zenon DEF Passing
      <4> QED
        BY <4>1, <4>2
    <3> QED
      BY <3>1, <3>2
  <2>5. new.error = "" <=> FitSoFar(source, hunks, m)
    BY <1>4, <1>6, <2>2, <2>4, Zenon DEF q
  <2>6. ASSUME new.error = "" PROVE Passing(new.passed, hunks, m)
    <3>1. p <= q /\ p <= e
      BY <2>1, <2>2, <2>3, <2>6, Zenon
    <3>2. \A j \in 1..k : End(hunks[j]) <= e
      BY <2>1, <2>3, <3>1, Zenon DEF Passing
    <3>3. e <= e
      BY <2>1, Counting, Zenon
    <3>4. \A j \in 1..m : End(hunks[j]) <= e
      BY <1>3, <3>2, <3>3, Zenon DEF e, h
    <3>5. new.passed = e /\ e = End(hunks[m])
      BY <2>2, <2>6, Zenon DEF e, h
    <3>6. Passing(e, hunks, m)
      BY <1>3, <3>4, <3>5, Zenon DEF Passing
    <3> QED
      BY <3>5, <3>6, Zenon
  <2> QED
    BY <2>2, <2>5, <2>6, Zenon DEF new, h, m, p, q
<1> QED
  BY <1>5, <1>6

LEMMA Below ==
  /\ \A a, b \in Nat : a + 1 <= b => \A j \in 1..a : j \in 1..b
  /\ \A b \in Nat : \A k \in 0..b : k \in Nat /\ k <= b
  /\ \A c \in Nat : \A b \in 1..c : b # c => b + 1 \in 1..c
  /\ \A c \in Nat : c + 1 \in Nat \ {0} /\ ~(c + 1 <= c)
  /\ \A a, b \in Nat : a <= b => a \in 0..b
OBVIOUS

LEMMA Transitive == \A a, b, c \in Nat : a <= b /\ b <= c => a <= c
OBVIOUS

LEMMA Beginning ==
  LET d == [out |-> <<>>, passed |-> 0, error |-> ""]
  IN  d.out = <<>> /\ d.passed = 0 /\ d.error = ""
OBVIOUS

LEMMA HunksFit ==
  ASSUME NEW source \in Seq(STRING), NEW hunks \in Seq(Hunk), NEW N \in Nat, NEW g,
         N = Len(hunks), \A k \in 1..N : Usual(hunks[k]), HunksRun(g, source, hunks, N)
  PROVE  \A k \in 0..N : /\ g[k] \in Done
                         /\ g[k].error = "" <=> FitSoFar(source, hunks, k)
                         /\ g[k].error = "" => Passing(g[k].passed, hunks, k)
<1> DEFINE P(k) == /\ g[k].error = "" <=> FitSoFar(source, hunks, k)
                   /\ g[k].error = "" => Passing(g[k].passed, hunks, k)
           S == {k \in Nat : k <= N => P(k)}
<1>1. \A k \in 1..N : hunks[k] \in Hunk /\ Usual(hunks[k])
  BY Elements, Zenon
<1>2. \A k \in 0..N : g[k] \in Done
  BY Zenon DEF HunksRun
<1>3. 0 \in S
  <2>1. FitSoFar(source, hunks, 0)
    BY Counting, Zenon DEF FitSoFar
  <2>2. g[0] = [out |-> <<>>, passed |-> 0, error |-> ""]
    BY Zenon DEF HunksRun
  <2>3. g[0].passed = 0 /\ g[0].error = ""
    BY <2>2, Beginning, Zenon
  <2>4. Passing(0, hunks, 0)
    BY Counting, Zenon DEF Passing
  <2>5. P(0)
    BY <2>1, <2>3, <2>4, Zenon
  <2>6. 0 \in Nat
    OBVIOUS
  <2> HIDE DEF P
  <2> QED
    BY <2>5, <2>6
<1>4. ASSUME NEW k \in S PROVE k + 1 \in S
  <2> DEFINE m == k + 1
  <2>1. k \in Nat /\ (k <= N => P(k))
    BY Zenon
  <2>2. m \in Nat /\ m - 1 = k /\ (m <= N => m \in 1..N /\ k \in 0..N /\ k <= N)
    BY <2>1, Counting, Zenon
  <2>3. \A j \in 1..k : m <= N => j \in 1..N
    <3>1. \A a, b \in Nat : a + 1 <= b => \A j \in 1..a : j \in 1..b
      BY Below, Zenon
    <3> QED
      BY <2>1, <3>1, Zenon
  <2> HIDE DEF S, P
  <2>4. ASSUME m <= N PROVE P(m)
    <3> DEFINE d == g[k]
    <3>1. d \in Done /\ (d.error = "" <=> FitSoFar(source, hunks, k))
          /\ (d.error = "" => Passing(d.passed, hunks, k))
      BY <1>2, <2>1, <2>2, <2>4, Zenon DEF P
    <3>2. hunks[m] \in Hunk /\ Usual(hunks[m])
      BY <1>1, <2>2, <2>4, Zenon
    <3>3. \A j \in 1..k : End(hunks[j]) \in Nat
      BY <1>1, <2>3, <2>4, HunkNumbers, Zenon
    <3>4. g[m] = ApplyHunk(source, d, hunks[m])
      BY <2>2, <2>4, Zenon DEF HunksRun
    <3> HIDE DEF d
    <3>5. LET new == ApplyHunk(source, d, hunks[m]) IN
             /\ new.error = "" <=> FitSoFar(source, hunks, m)
             /\ new.error = "" => Passing(new.passed, hunks, m)
      BY <2>1, <3>1, <3>2, <3>3, OneMoreFits, Zenon
    <3> QED
      BY <3>4, <3>5, Zenon DEF P
  <2> QED
    BY <2>2, <2>4, Zenon DEF S
<1>5. S \in SUBSET Nat
  OBVIOUS
<1> HIDE DEF S, P
<1>6. Nat \subseteq S
  BY <1>3, <1>4, <1>5, Induction
<1>7. ASSUME NEW k \in 0..N PROVE P(k)
  <2>1. k \in Nat /\ k <= N
    BY Below, Zenon
  <2>2. k \in S
    BY <1>6, <2>1, Zenon
  <2> QED
    BY <2>1, <2>2, Zenon DEF S
<1> QED
  BY <1>2, <1>7, Zenon DEF P

(* FlattenSeq, part by part.                                               *)
FlatRun(f, S, seqs, N) ==
    /\ \A k \in 0..N : f[k] \in Seq(S)
    /\ f[0] = <<>> /\ \A k \in 1..N : f[k] = f[k - 1] \o seqs[k]
    /\ FlattenSeq(seqs) = f[N]

LEMMA FlatGoes ==
  ASSUME NEW S, NEW N \in Nat \ {0}, NEW seqs, Len(seqs) = N,
         \A k \in 1..N : seqs[k] \in Seq(S)
  PROVE  \E f : FlatRun(f, S, seqs, N)
<1> DEFINE A == Seq(S)
           b == <<>>
           F == [x \in A \X (1..N) |-> x[1] \o seqs[x[2]]]
           Eq(t) == t = [i \in 1..N |-> IF i = 1 THEN seqs[i] ELSE t[i - 1] \o seqs[i]]
           it == CHOOSE t : Eq(t)
<1>1. \A a \in A, k \in 1..N : F[<<a, k>>] = a \o seqs[k]
  OBVIOUS
<1>2. \A a \in A, k \in 1..N : a \o seqs[k] \in A
  BY ConcatProperties
<1>3. FlattenSeq(seqs) = it[N]
  BY Zenon DEF FlattenSeq
<1>4. b \in A
  OBVIOUS
<1> HIDE DEF F, it
<1>5. \A a \in A, k \in 1..N : F[<<a, k>>] \in A
  BY <1>1, <1>2
<1>6. N \in Nat
  OBVIOUS
<1> HIDE DEF A, b
<1>7. PICK t \in [SUBSET (1..N) -> A] : Table(t, N, b, F)
  BY <1>4, <1>5, <1>6, TablesExist
<1>8. PICK g \in [0..N -> A] : Goes(g, N, b, F)
  BY <1>4, <1>5, <1>6, <1>7, TableGoes
<1>9. \A k \in 0..N : g[k] \in A
  BY <1>8
<1>10. g[0] = b /\ \A k \in 1..N : g[k] = g[k - 1] \o seqs[k]
  <2>1. \A k \in 1..N : k - 1 \in 0..N
    BY <1>6
  <2> QED
    BY <1>1, <1>8, <1>9, <2>1, Zenon DEF Goes
<1>11. g[1] = seqs[1]
  <2>1. 1 \in 1..N /\ 1 - 1 = 0
    BY <1>6
  <2>2. g[1] = b \o seqs[1]
    BY <1>10, <2>1
  <2>3. seqs[1] \in Seq(S)
    BY <2>1
  <2> DEFINE s == seqs[1]
  <2> HIDE DEF s
  <2>4. s \in Seq(S)
    BY <2>3 DEF s
  <2>5. <<>> \o s = s
    BY <2>4, ConcatEmptySeq
  <2> QED
    BY <2>2, <2>5 DEF b, s
<1>12. Eq([i \in 1..N |-> g[i]])
  <2> DEFINE f == [i \in 1..N |-> g[i]]
  <2>1. ASSUME NEW i \in 1..N
        PROVE  g[i] = IF i = 1 THEN seqs[i] ELSE f[i - 1] \o seqs[i]
    <3>1. CASE i = 1
      BY <1>11, <3>1, Zenon
    <3>2. CASE i # 1
      <4>1. i - 1 \in 1..N
        BY <1>6, <3>2
      <4>2. f[i - 1] = g[i - 1]
        BY <4>1
      <4>3. g[i] = g[i - 1] \o seqs[i]
        BY <1>10, Zenon
      <4> QED
        BY <3>2, <4>2, <4>3, Zenon
    <3> QED
      BY <3>1, <3>2
  <2> QED
    BY <2>1
<1>13. Eq(it)
  <2> HIDE DEF Eq
  <2> QED
    BY <1>12 DEF it
<1>14. \A i \in 1..N : it[i] = IF i = 1 THEN seqs[i] ELSE it[i - 1] \o seqs[i]
  BY <1>13
<1> HIDE DEF Eq
<1> DEFINE Q == {k \in Nat : k + 1 <= N => it[k + 1] = g[k + 1]}
<1>15. 0 \in Q
  <2>1. 1 \in 1..N /\ 0 + 1 = 1 /\ 0 \in Nat
    BY <1>6
  <2>2. it[1] = seqs[1]
    BY <1>14, <2>1, Zenon
  <2> QED
    BY <1>11, <2>1, <2>2, Zenon
<1>16. ASSUME NEW k \in Q PROVE k + 1 \in Q
  <2> DEFINE m == k + 1
  <2>1. k \in Nat /\ (m <= N => it[m] = g[m])
    BY Zenon
  <2>2. /\ m \in Nat /\ m + 1 # 1
        /\ m + 1 <= N => m + 1 \in 1..N /\ m <= N /\ (m + 1) - 1 = m
    BY <1>6, <2>1
  <2>3. ASSUME m + 1 <= N PROVE it[m + 1] = g[m + 1]
    <3>1. it[m + 1] = it[(m + 1) - 1] \o seqs[m + 1]
      BY <1>14, <2>2, <2>3, Zenon
    <3>2. g[m + 1] = g[(m + 1) - 1] \o seqs[m + 1]
      BY <1>10, <2>2, <2>3, Zenon
    <3> QED
      BY <2>1, <2>2, <2>3, <3>1, <3>2, Zenon
  <2> QED
    BY <2>2, <2>3, Zenon
<1>17. Q \in SUBSET Nat
  OBVIOUS
<1> HIDE DEF Q
<1>18. Nat \subseteq Q
  BY <1>15, <1>16, <1>17, Induction
<1>19. it[N] = g[N]
  <2>1. N - 1 \in Nat /\ (N - 1) + 1 = N /\ N <= N
    BY <1>6
  <2>2. N - 1 \in Q
    BY <1>18, <2>1, Zenon
  <2> QED
    BY <2>1, <2>2, Zenon DEF Q
<1>20. FlatRun(g, S, seqs, N)
  BY <1>3, <1>9, <1>10, <1>19, Zenon DEF FlatRun, A, b
<1> QED
  BY <1>20

Rebracketed(a, b, c, d) == ((a \o b) \o c) \o d = a \o (b \o (c \o d))

LEMMA Joining ==
  ASSUME NEW a \in Seq(STRING), NEW b \in Seq(STRING)
  PROVE  a \o b \in Seq(STRING)
BY ConcatProperties

Grouped(a, b, c) == (a \o b) \o c = a \o (b \o c)

LEMMA Grouping ==
  ASSUME NEW a \in Seq(STRING), NEW b \in Seq(STRING), NEW c \in Seq(STRING)
  PROVE  Grouped(a, b, c)
BY ConcatAssociative DEF Grouped

LEMMA Rebracket ==
  ASSUME NEW a \in Seq(STRING), NEW b \in Seq(STRING), NEW c \in Seq(STRING), NEW d \in Seq(STRING)
  PROVE  Rebracketed(a, b, c, d)
<1> DEFINE ab == a \o b
           cd == c \o d
<1>1. ab \in Seq(STRING) /\ cd \in Seq(STRING)
  BY Joining, Zenon
<1> HIDE DEF ab, cd
<1>2. Grouped(a, b, cd) /\ Grouped(ab, c, d)
  BY <1>1, Grouping, Zenon
<1> QED
  BY <1>2, Zenon DEF Grouped, Rebracketed, ab, cd

LEMMA Fewer ==
  ASSUME NEW source, NEW hunks, NEW N \in Nat, FitSoFar(source, hunks, N), NEW k \in 0..N
  PROVE  FitSoFar(source, hunks, k)
<1>1. \A i \in 1..k : i \in 1..N
  OBVIOUS
<1> QED
  BY <1>1, Zenon DEF FitSoFar

\* Where the lines after hunk k end.
NextPlace(source, hunks, k) == IF k = Len(hunks) THEN Len(source) ELSE Place(hunks[k + 1])
Kept(source, hunks, k) == SubSeq(source, End(hunks[k]) + 1, NextPlace(source, hunks, k))

LEMMA KeptTypes ==
  ASSUME NEW source \in Seq(STRING), NEW hunks \in Seq(Hunk), NEW N \in Nat, NEW k \in 1..N,
         N = Len(hunks), \A i \in 1..N : Usual(hunks[i]), FitSoFar(source, hunks, N)
  PROVE  Kept(source, hunks, k) \in Seq(STRING) /\ NewSide(hunks[k]) \in Seq(STRING)
<1> DEFINE a == End(hunks[k]) + 1
           n == NextPlace(source, hunks, k)
<1>1. \A i \in 1..N : hunks[i] \in Hunk /\ Usual(hunks[i]) /\ FitsIn(source, hunks[i])
  BY Elements, Zenon DEF FitSoFar
<1>2. \A i \in 1..N : /\ NewSide(hunks[i]) \in Seq(STRING) /\ Place(hunks[i]) \in Nat
                      /\ End(hunks[i]) \in Nat /\ Place(hunks[i]) <= End(hunks[i])
                      /\ End(hunks[i]) <= Len(source)
  BY <1>1, HunkNumbers, Zenon DEF FitsIn
<1>3. Len(source) \in Nat
  BY Elements, Zenon
<1>4. n \in Nat /\ n <= Len(source)
  <2>1. CASE k = N
    BY <1>3, <2>1, Counting, Zenon DEF NextPlace
  <2>2. CASE k # N
    <3>1. k + 1 \in 1..N
      <4>1. \A c \in Nat : \A b \in 1..c : b # c => b + 1 \in 1..c
        BY Below, Zenon
      <4> QED
        BY <2>2, <4>1, Zenon
    <3>2. n = Place(hunks[k + 1])
      BY <2>2, Zenon DEF NextPlace
    <3> DEFINE p == Place(hunks[k + 1])
               e == End(hunks[k + 1])
               l == Len(source)
    <3>3. p \in Nat /\ e \in Nat /\ l \in Nat /\ p <= e /\ e <= l
      BY <1>2, <1>3, <3>1, Zenon
    <3> HIDE DEF p, e, l
    <3>4. p <= l
      BY <3>3, Transitive, Zenon
    <3> QED
      BY <3>2, <3>3, <3>4, Zenon DEF p, l
  <2> QED
    BY <2>1, <2>2
<1>5. a \in Nat \ {0}
  <2>1. \A c \in Nat : c + 1 \in Nat \ {0}
    BY Below, Zenon
  <2> QED
    BY <1>2, <2>1, Zenon
<1> HIDE DEF a, n
<1>6. SubSeq(source, a, n) \in Seq(STRING)
  BY <1>4, <1>5, PartIs
<1> QED
  BY <1>2, <1>6, Zenon DEF Kept, a, n

LEMMA Replaced ==
  ASSUME NEW source \in Seq(STRING), NEW hunks \in Seq(Hunk), NEW N \in Nat \ {0},
         N = Len(hunks), \A k \in 1..N : Usual(hunks[k]), FitSoFar(source, hunks, N)
  PROVE  LET d == HunksOf(source, hunks)
             out == d.out \o Slice(source, d.passed, Len(source))
         IN  out = NewText(hunks, source) /\ out \in Seq(STRING)
<1> DEFINE first == SubSeq(source, 1, Place(hunks[1]))
           seqs == [k \in 1..N |-> NewSide(hunks[k]) \o Kept(source, hunks, k)]
           rest(k) == IF k = 0 THEN first ELSE Kept(source, hunks, k)
<1>n. N \in Nat /\ 1 \in 1..N /\ N # 0 /\ N \in 1..N /\ N \in 0..N
  OBVIOUS
<1>1. \A k \in 1..N : hunks[k] \in Hunk /\ Usual(hunks[k]) /\ FitsIn(source, hunks[k])
  BY Elements, Zenon DEF FitSoFar
<1>2. /\ Place(hunks[1]) \in Nat /\ Place(hunks[1]) <= Len(source)
      /\ \A k \in 1..N : End(hunks[k]) \in Nat
  <2>1. \A k \in 1..N : /\ Place(hunks[k]) \in Nat /\ End(hunks[k]) \in Nat
                        /\ Place(hunks[k]) <= End(hunks[k]) /\ End(hunks[k]) <= Len(source)
    BY <1>1, HunkNumbers, Zenon DEF FitsIn
  <2>2. Len(source) \in Nat
    BY Elements, Zenon
  <2> DEFINE p == Place(hunks[1])
             e == End(hunks[1])
             l == Len(source)
  <2>3. p \in Nat /\ e \in Nat /\ l \in Nat /\ p <= e /\ e <= l
    BY <1>n, <2>1, <2>2, Zenon
  <2> HIDE DEF p, e, l
  <2>4. p <= l
    BY <2>3, Transitive, Zenon
  <2> QED
    BY <2>1, <2>3, <2>4, Zenon DEF p, l
<1>3. first \in Seq(STRING)
  <2> DEFINE p == Place(hunks[1])
  <2>1. p \in Nat /\ p <= Len(source) /\ 1 \in Nat \ {0}
    BY <1>2
  <2> HIDE DEF p
  <2>2. SubSeq(source, 1, p) \in Seq(STRING)
    BY <2>1, PartIs
  <2> QED
    BY <2>2 DEF p
<1>4. \A k \in 1..N : Kept(source, hunks, k) \in Seq(STRING) /\ NewSide(hunks[k]) \in Seq(STRING)
  BY <1>n, KeptTypes
<1>5. NewText(hunks, source) = first \o FlattenSeq(seqs)
  BY Zenon DEF NewText, Kept, NextPlace, End
<1>6. Len(seqs) = N /\ \A k \in 1..N : seqs[k] = NewSide(hunks[k]) \o Kept(source, hunks, k)
  OBVIOUS
<1> HIDE DEF first, seqs
<1>7. \A k \in 1..N : seqs[k] \in Seq(STRING)
  <2>1. ASSUME NEW k \in 1..N PROVE seqs[k] \in Seq(STRING)
    <3> DEFINE a == NewSide(hunks[k])
               b == Kept(source, hunks, k)
    <3>1. a \in Seq(STRING) /\ b \in Seq(STRING)
      BY <1>4
    <3> HIDE DEF a, b
    <3>2. a \o b \in Seq(STRING)
      BY <3>1, ConcatProperties
    <3> QED
      BY <1>6, <3>2 DEF a, b
  <2> QED
    BY <2>1
<1>8. PICK f : FlatRun(f, STRING, seqs, N)
  BY <1>6, <1>7, FlatGoes
<1>9. DOMAIN hunks = 1..N
  BY Elements, Zenon
<1>10. PICK g : HunksRun(g, source, hunks, N)
  BY <1>n, <1>9, HunksGo
<1>11. \A k \in 0..N : g[k] \in Done /\ g[k].error = "" /\ Passing(g[k].passed, hunks, k)
  <2>1. \A k \in 0..N : /\ g[k] \in Done
                        /\ g[k].error = "" <=> FitSoFar(source, hunks, k)
                        /\ g[k].error = "" => Passing(g[k].passed, hunks, k)
    BY <1>n, <1>10, HunksFit
  <2>2. \A k \in 0..N : FitSoFar(source, hunks, k)
    BY <1>n, Fewer
  <2> QED
    BY <2>1, <2>2, Zenon
<1>12. \A k \in 0..N : g[k].out \in Seq(STRING) /\ g[k].passed \in Nat
  BY <1>11 DEF Done
<1> DEFINE J(k) == g[k].out \o rest(k) = first \o f[k]
           Q == {k \in Nat : k <= N => J(k)}
<1>13. 0 \in Q
  <2>1. g[0].out = <<>> /\ f[0] = <<>> /\ rest(0) = first
    BY <1>8, <1>10, Beginning, Zenon DEF HunksRun, FlatRun
  <2>2. <<>> \o first = first /\ first \o <<>> = first
    BY <1>3, Emptiness, Zenon
  <2>3. J(0)
    BY <2>1, <2>2, Zenon
  <2>4. 0 \in Nat
    OBVIOUS
  <2> HIDE DEF J
  <2> QED
    BY <2>3, <2>4, Zenon
<1>14. ASSUME NEW k \in Q PROVE k + 1 \in Q
  <2> DEFINE m == k + 1
  <2>1. k \in Nat /\ (k <= N => J(k))
    BY Zenon
  <2>2. m \in Nat /\ m - 1 = k /\ m # 0 /\ (m <= N => m \in 1..N /\ m \in 0..N /\ k \in 0..N /\ k <= N)
    <3>1. \A a, b \in Nat : a <= b => a \in 0..b
      BY Below, Zenon
    <3> QED
      BY <1>n, <2>1, <3>1, Counting, Zenon
  <2>3. k # 0 => k \in 1..k
    BY <2>1, Counting, Zenon
  <2> HIDE DEF Q, J, m, rest
  <2>4. ASSUME m <= N PROVE J(m)
    <3> DEFINE d == g[k]
               new == g[m]
               h == hunks[m]
               ns == NewSide(h)
               kept == Kept(source, hunks, m)
               out == d.out
               part == rest(k)
    <3>1. /\ d \in Done /\ d.error = "" /\ Passing(d.passed, hunks, k) /\ d.out \in Seq(STRING)
          /\ new.error = "" /\ h \in Hunk /\ Usual(h)
          /\ ns \in Seq(STRING) /\ kept \in Seq(STRING)
          /\ new = ApplyHunk(source, d, h)
      BY <1>1, <1>4, <1>10, <1>11, <1>12, <2>2, <2>4, Zenon DEF HunksRun
    <3>2. HunkDone(source, d, h, ApplyHunk(source, d, h))
      <4> HIDE DEF d, new, h, ns, kept
      <4> QED
        BY <3>1, HunkStep, Zenon
    <3>3. new.out = (d.out \o SubSeq(source, d.passed + 1, Place(h))) \o ns
      BY <3>1, <3>2, Zenon DEF HunkDone
    <3>4. SubSeq(source, d.passed + 1, Place(h)) = part
      <4>1. CASE k = 0
        <5>1. d.passed = 0 /\ m = 1
          <6>1. 0 + 1 = 1
            OBVIOUS
          <6>2. d.passed = 0
            BY <3>1, <4>1, Zenon DEF Passing
          <6> QED
            BY <4>1, <6>1, <6>2, Zenon DEF m
        <5>2. part = first
          BY <4>1, Zenon DEF rest
        <5>3. 0 + 1 = 1
          OBVIOUS
        <5> QED
          BY <4>1, <5>1, <5>2, <5>3, Zenon DEF first
      <4>2. CASE k # 0
        <5>1. d.passed = End(hunks[k])
          BY <3>1, <4>2, Zenon DEF Passing
        <5>2. part = SubSeq(source, End(hunks[k]) + 1, NextPlace(source, hunks, k))
          BY <4>2, Zenon DEF rest, Kept
        <5>3. k # Len(hunks)
          <6>1. \A a \in Nat : ~(a + 1 <= a)
            BY Below, Zenon
          <6> QED
            BY <1>n, <2>4, <6>1, Zenon DEF m
        <5>4. NextPlace(source, hunks, k) = Place(h)
          BY <5>3, Zenon DEF NextPlace, m
        <5> QED
          BY <5>1, <5>2, <5>4, Zenon
      <4> QED
        BY <4>1, <4>2
    <3>5. f[m] = f[k] \o (ns \o kept) /\ f[k] \in Seq(STRING)
      <4>1. f[m] = f[k] \o seqs[m] /\ f[k] \in Seq(STRING)
        BY <1>8, <2>2, <2>4, Zenon DEF FlatRun
      <4> QED
        BY <1>6, <2>2, <2>4, <4>1, Zenon
    <3>6. d.out \o part = first \o f[k]
      BY <2>1, <2>2, <2>4, Zenon DEF J
    <3>7. rest(m) = kept
      BY <2>2, Zenon DEF rest
    <3> HIDE DEF d, new, h, ns, kept, out, part
    <3> DEFINE fk == f[k]
    <3>8. ((first \o fk) \o ns) \o kept = first \o (fk \o (ns \o kept))
      <4>1. fk \in Seq(STRING) /\ ns \in Seq(STRING) /\ kept \in Seq(STRING)
        BY <3>1, <3>5
      <4> HIDE DEF fk
      <4>2. Rebracketed(first, fk, ns, kept)
        BY <1>3, <4>1, Rebracket, Zenon
      <4> QED
        BY <4>2, Zenon DEF Rebracketed
    <3>9. new.out \o kept = ((first \o fk) \o ns) \o kept
      BY <3>3, <3>4, <3>6, Zenon
    <3>10. new.out \o kept = first \o f[m]
      BY <3>5, <3>8, <3>9, Zenon
    <3> QED
      BY <3>7, <3>10, Zenon DEF J, new
  <2> QED
    BY <2>2, <2>4, Zenon DEF Q, m
<1>15. Q \in SUBSET Nat
  OBVIOUS
<1> HIDE DEF Q, J
<1>16. Nat \subseteq Q
  BY <1>13, <1>14, <1>15, Induction
<1>17. J(N)
  BY <1>n, <1>16, Counting, Zenon DEF Q
<1> DEFINE d == g[N]
<1>18. HunksOf(source, hunks) = d /\ FlattenSeq(seqs) = f[N]
  BY <1>8, <1>10, Zenon DEF HunksRun, FlatRun
<1>19. d.passed = End(hunks[N]) /\ d.passed \in Nat /\ d.out \in Seq(STRING)
  BY <1>n, <1>11, <1>12, Zenon DEF Passing
<1>20. Slice(source, d.passed, Len(source)) = rest(N)
  <2>1. Slice(source, d.passed, Len(source)) = SubSeq(source, d.passed + 1, Len(source))
    <3> DEFINE p == d.passed
    <3>1. p \in Nat
      BY <1>19
    <3> HIDE DEF p
    <3>2. Slice(source, p, Len(source)) = SubSeq(source, p + 1, Len(source))
      BY <3>1, SliceTypes
    <3> QED
      BY <3>2 DEF p
  <2>2. NextPlace(source, hunks, N) = Len(source)
    BY Zenon DEF NextPlace
  <2> QED
    BY <1>n, <1>19, <2>1, <2>2, Zenon DEF Kept
<1>21. d.out \o Slice(source, d.passed, Len(source)) = NewText(hunks, source)
  BY <1>5, <1>17, <1>18, <1>20, Zenon DEF J
<1>22. d.out \o rest(N) \in Seq(STRING)
  <2> DEFINE a == d.out
             b == rest(N)
  <2>1. a \in Seq(STRING) /\ b \in Seq(STRING)
    BY <1>n, <1>4, <1>19, Zenon
  <2> HIDE DEF a, b
  <2>2. a \o b \in Seq(STRING)
    BY <2>1, ConcatProperties
  <2> QED
    BY <2>2 DEF a, b
<1> QED
  BY <1>18, <1>20, <1>21, <1>22, Zenon

\* DiffMeansWhatItSays, of one text, diff and answer.
PatchMeans(text, diff, answer) ==
    LET parsed == Hunks(diff)
        hunks == parsed.hunks
        fits == parsed.valid /\ hunks # <<>> /\ FitsText(hunks, text.lines)
        inserts == \E k \in DOMAIN hunks : hunks[k].header.oldCount = 0 /\ hunks[k].header.old > 0
        meant == Meant(text, diff)
    IN ~inserts /\ ~IsEmpty(text) =>
          /\ (answer.status = "ok") <=> fits
          /\ fits /\ meant.lines # <<>> /\ meant.final = text.final
             /\ meant.ends = "LF" => answer.text = meant

Document == [lines : Seq(STRING), final : BOOLEAN, ends : {"LF", "CRLF"}]

LEMMA Statuses ==
  /\ \A code \in {Malformed, Conflict} : Refused(code).status # "ok"
  /\ \A text : Patched(text).status = "ok" /\ Patched(text).text = text
BY DEF Refused, Patched, Malformed, Conflict

LEMMA WholeText ==
  ASSUME NEW text \in Document, NEW meant, NEW lines, NEW final,
         meant = [lines |-> lines, final |-> final, ends |-> text.ends],
         meant.final = text.final, meant.ends = "LF"
  PROVE  [lines |-> lines, final |-> text.final, ends |-> "LF"] = meant
<1>1. final = text.final /\ text.ends = "LF"
  OBVIOUS
<1>2. meant = [lines |-> lines, final |-> text.final, ends |-> "LF"]
  BY <1>1, Zenon
<1> QED
  BY <1>2, Zenon

LEMMA MeantIs ==
  ASSUME NEW text, NEW diff
  PROVE  LET meant == Meant(text, diff)
             lines == NewText(Hunks(diff).hunks, text.lines)
         IN /\ meant = [lines |-> lines, final |-> FinalAfter(text, diff), ends |-> text.ends]
            /\ meant.lines = lines
<1> DEFINE lines == NewText(Hunks(diff).hunks, text.lines)
           final == FinalAfter(text, diff)
<1>1. Meant(text, diff) = [lines |-> lines, final |-> final, ends |-> text.ends]
  BY Zenon DEF Meant
<1> HIDE DEF lines, final
<1>2. [lines |-> lines, final |-> final, ends |-> text.ends].lines = lines
  OBVIOUS
<1> QED
  BY <1>1, <1>2, Zenon DEF lines, final

LEMMA FitsIs ==
  ASSUME NEW source, NEW hunks
  PROVE  FitsText(hunks, source) <=> FitSoFar(source, hunks, Len(hunks))
BY Zenon DEF FitsText, FitSoFar, FitsIn, End

LEMMA ApplyMeans ==
  ASSUME NEW text \in Document, NEW diff \in Seq(DiffLine)
  PROVE  PatchMeans(text, diff, ApplyUnifiedDiff(text, diff))
<1> DEFINE parsed == Hunks(diff)
           hunks == parsed.hunks
           source == text.lines
           N == Len(hunks)
           done == HunksOf(source, hunks)
           out == done.out \o Slice(source, done.passed, Len(source))
           answer == ApplyUnifiedDiff(text, diff)
           meant == Meant(text, diff)
           fits == parsed.valid /\ hunks # <<>> /\ FitsText(hunks, source)
           inserts == \E k \in DOMAIN hunks :
                         hunks[k].header.oldCount = 0 /\ hunks[k].header.old > 0
<1>1. hunks \in Seq(Hunk)
  <2>1. parsed \in Parsed
    BY HunksParsed
  <2> HIDE DEF parsed
  <2> QED
    BY <2>1 DEF Parsed
<1>2. source \in Seq(STRING)
  BY DEF Document
<1>3. answer = IF ~parsed.valid \/ hunks = <<>> THEN Refused(Malformed)
               ELSE IF done.error # "" THEN Refused(done.error)
               ELSE Patched([lines |-> IF out = <<>> THEN <<"">> ELSE out,
                             final |-> text.final, ends |-> "LF"])
  BY Zenon DEF ApplyUnifiedDiff, HunksOf
<1>4. FitsText(hunks, source) <=> FitSoFar(source, hunks, N)
  BY FitsIs, Zenon
<1>5. PatchMeans(text, diff, answer)
        <=> (~inserts /\ ~IsEmpty(text) =>
                /\ (answer.status = "ok") <=> fits
                /\ fits /\ meant.lines # <<>> /\ meant.final = text.final
                   /\ meant.ends = "LF" => answer.text = meant)
  BY Zenon DEF PatchMeans
<1>m. /\ meant = [lines |-> NewText(hunks, source), final |-> FinalAfter(text, diff), ends |-> text.ends]
      /\ meant.lines = NewText(hunks, source)
  BY MeantIs, Zenon
<1> HIDE DEF answer, hunks, source, done, out, parsed, meant
<1>6. N \in Nat /\ DOMAIN hunks = 1..N /\ (N = 0 => hunks = <<>>)
  <2>1. N \in Nat /\ DOMAIN hunks = 1..N
    BY <1>1, Elements, Zenon
  <2>2. N = 0 => hunks = <<>>
    BY <1>1, EmptySeq
  <2> QED
    BY <2>1, <2>2
<1> HIDE DEF N
<1>7. CASE inserts
  BY <1>5, <1>7, Zenon DEF answer
<1>8. CASE ~inserts /\ (~parsed.valid \/ hunks = <<>>)
  <2>1. answer.status # "ok"
    BY <1>3, <1>8, Statuses, Zenon
  <2> QED
    BY <1>5, <1>8, <2>1, Zenon DEF answer
<1>9. CASE ~inserts /\ parsed.valid /\ hunks # <<>>
  <2>1. \A k \in 1..N : Usual(hunks[k])
    BY <1>6, <1>9, Zenon DEF Usual
  <2>2. PICK g : HunksRun(g, source, hunks, N)
    BY <1>1, <1>2, <1>6, <2>1, HunksGo
  <2>3. N \in 0..N
    BY <1>6, Counting, Zenon
  <2>4. done = g[N] /\ done \in Done /\ (done.error = "" <=> FitSoFar(source, hunks, N))
    <3>1. N = Len(hunks)
      BY DEF N
    <3>2. done = g[N]
      BY <2>2, Zenon DEF HunksRun, done
    <3>3. \A k \in 0..N : g[k] \in Done /\ (g[k].error = "" <=> FitSoFar(source, hunks, k))
      BY <1>1, <1>2, <1>6, <2>1, <2>2, <3>1, HunksFit, Zenon
    <3> QED
      BY <2>3, <3>2, <3>3, Zenon
  <2>5. fits <=> done.error = ""
    BY <1>4, <1>9, <2>4, Zenon
  <2>6. CASE done.error # ""
    <3>1. done.error \in {Malformed, Conflict}
      BY <2>4, <2>6 DEF Done
    <3>2. answer = Refused(done.error)
      BY <1>3, <1>9, <2>6, Zenon
    <3>3. answer.status # "ok"
      BY <3>1, <3>2, Statuses, Zenon
    <3> QED
      BY <1>5, <2>5, <2>6, <3>3, Zenon DEF answer
  <2>7. CASE done.error = ""
    <3> DEFINE lines == IF out = <<>> THEN <<"">> ELSE out
               new == [lines |-> lines, final |-> text.final, ends |-> "LF"]
    <3>1. answer = Patched(new)
      BY <1>3, <1>9, <2>7, Zenon
    <3>2. new = [lines |-> lines, final |-> text.final, ends |-> "LF"]
      OBVIOUS
    <3> HIDE DEF new, lines
    <3>3. answer.status = "ok" /\ answer.text = new
      BY <3>1, Statuses, Zenon
    <3>4. out = NewText(hunks, source)
      <4>1. N \in Nat \ {0}
        BY <1>6, <1>9
      <4>2. N = Len(hunks)
        BY DEF N
      <4>3. FitSoFar(source, hunks, N)
        BY <2>4, <2>7
      <4> QED
        BY <1>1, <1>2, <2>1, <4>1, <4>2, <4>3, Replaced, Zenon DEF done, out
    <3>5. ASSUME meant.lines # <<>>, meant.final = text.final, meant.ends = "LF"
          PROVE  answer.text = meant
      <4>1. lines = NewText(hunks, source)
        BY <1>m, <3>4, <3>5, Zenon DEF lines
      <4>2. new = meant
        BY <1>m, <3>2, <3>5, <4>1, WholeText, Zenon
      <4> QED
        BY <3>3, <4>2, Zenon
    <3> QED
      BY <1>5, <2>5, <2>7, <3>3, <3>5, Zenon DEF answer
  <2> QED
    BY <2>6, <2>7
<1> QED
  BY <1>7, <1>8, <1>9

-----------------------------------------------------------------------------
(* The call, and its answer.                                               *)

DiffInput ==
    input.of = "diff" => input.text \in Document /\ input.diff \in Seq(DiffLine)

DiffKept ==
    Answered("diff") => PatchMeans(input.text, input.diff, TheAnswer)

DiffInv == DiffInput /\ DiffKept

LEMMA InitDiff ==
  Init => DiffInv
<1> SUFFICES ASSUME Init PROVE DiffInv
  OBVIOUS
<1>1. answers = <<>> /\ (DiffCall \/ FrameCall \/ BalanceCall \/ SemanticsCall \/ RenameCall \/ ExtractCall)
  BY DEF Init
<1>2. DiffKept
  BY <1>1 DEF DiffKept, Answered
<1>3. DiffInput
  <2>1. DiffCall => DiffInput
    BY DiffAssumption DEF DiffCall, DiffInput, Document
  <2>2. FrameCall => input.of # "diff"
    BY DEF FrameCall
  <2>3. BalanceCall => input.of # "diff"
    BY DEF BalanceCall
  <2>4. SemanticsCall => input.of # "diff"
    BY DEF SemanticsCall
  <2>5. RenameCall => input.of # "diff"
    BY DEF RenameCall
  <2>6. ExtractCall => input.of # "diff"
    BY DEF ExtractCall
  <2> QED
    BY <1>1, <2>1, <2>2, <2>3, <2>4, <2>5, <2>6 DEF DiffInput
<1> QED
  BY <1>2, <1>3 DEF DiffInv

LEMMA StepDiff ==
  DiffInv /\ [Next]_vars => DiffInv'
<1> SUFFICES ASSUME DiffInv, [Next]_vars PROVE DiffInv'
  OBVIOUS
<1>1. CASE ApplyPatch
  <2> DEFINE value == ApplyUnifiedDiff(input.text, input.diff)
  <2>1. input' = input /\ answers' = <<value>> /\ input.of = "diff"
    BY <1>1, AnswerIs DEF ApplyPatch
  <2>2. input.text \in Document /\ input.diff \in Seq(DiffLine)
    BY <2>1 DEF DiffInv, DiffInput
  <2>3. PatchMeans(input.text, input.diff, value)
    BY <2>2, ApplyMeans
  <2> HIDE DEF value
  <2>4. TheAnswer' = value
    BY <2>1 DEF TheAnswer
  <2>5. DiffKept'
    BY <2>1, <2>3, <2>4, Zenon DEF DiffKept
  <2>6. DiffInput'
    BY <2>1 DEF DiffInv, DiffInput
  <2> QED
    BY <2>5, <2>6 DEF DiffInv
<1>2. ASSUME NEW name, NEW value, Answer(name, value), name # "diff"
      PROVE  DiffInv'
  <2>1. input' = input /\ input.of # "diff"
    BY <1>2, AnswerIs
  <2> QED
    BY <2>1 DEF DiffInv, DiffInput, DiffKept, Answered
<1>3. CASE Receive
  BY <1>2, <1>3 DEF Receive
<1>4. CASE CheckBalance
  BY <1>2, <1>4 DEF CheckBalance
<1>5. CASE PrepareSymbols
  BY <1>2, <1>5 DEF PrepareSymbols
<1>6. CASE PlanAndApply
  BY <1>2, <1>6 DEF PlanAndApply
<1>7. CASE InferParameters
  BY <1>2, <1>7 DEF InferParameters
<1>8. CASE UNCHANGED vars
  BY <1>8 DEF vars, DiffInv, DiffInput, DiffKept, Answered, TheAnswer
<1> QED
  BY <1>1, <1>3, <1>4, <1>5, <1>6, <1>7, <1>8 DEF Next

(* Applying a diff gives the text the diff stands for, lines, final        *)
(* newline and line ends, or nothing when its hunks do not fit: for every  *)
(* text and diff but those DiffMeansWhatItSays leaves out, on which the    *)
(* code differs (unifiedDiff.ts:47).                                       *)
THEOREM DiffsMeanWhatTheySay == Spec => []DiffMeansWhatItSays
<1>1. Init => DiffInv
  BY InitDiff
<1>2. DiffInv /\ [Next]_vars => DiffInv'
  BY StepDiff
<1>3. DiffInv => DiffMeansWhatItSays
  BY Zenon DEF DiffInv, DiffKept, DiffMeansWhatItSays, PatchMeans
<1> QED
  BY <1>1, <1>2, <1>3, PTL DEF Spec

-----------------------------------------------------------------------------
(***************************************************************************)
(* The readers again (module Framing), on streams in which a frame may be  *)
(* bad, and what they have returned when only part of a stream is there.   *)
(***************************************************************************)

\* What a reader refuses: it finds the header, and throws.
BadlyFramed(reader, f) ==
    Delimiters(f.header \o Delimiter) = {Len(f.header)} /\ Refuses(reader, f.header)

\* M frames of which the first N are good, and the next is bad if there is one;
\* and what is to come after each.
Flow(reader, frames, rest, M, N) ==
    /\ M \in Nat /\ N \in 0..M
    /\ \A i \in 0..M : rest[i] \in Seq(Byte)
    /\ rest[M] = <<>>
    /\ \A i \in 1..M : frames[i] \in Framed /\ rest[i - 1] = BytesOf(frames[i]) \o rest[i]
    /\ \A i \in 1..N : WellFramed(reader, frames[i]) /\ HasRoom(reader, frames[i])
    /\ \A i \in 1..M : i = N + 1 => BadlyFramed(reader, frames[i])

\* The reader has returned the first i frames.
Returned(out, frames, i) ==
    Len(out) = i /\ \A j \in 1..i : out[j] = frames[j].body

\* Where the reader is, with z still to come.
Within(x, z, frames, rest, M, N) ==
    \/ x.failed /\ N < M
    \/ ~x.failed /\ \E i \in 0..N : x.buffer \o z = rest[i] /\ Returned(x.out, frames, i)

LEMMA Sums ==
  /\ \A h, m, v \in Nat : v >= h + 4 + m => h + 4 <= v
  /\ \A h, m, v \in Nat : v >= h + 4 + m => h + 4 + m <= v
  /\ \A v, z \in Nat : v + z = 0 => v = 0
OBVIOUS

(* A frame all of which is there: its header is found.                     *)
HeaderThere(v, f) ==
    /\ Delimiters(v) # {} => /\ HeaderEnd(v) = Len(f.header)
                             /\ SubSeq(v, 1, HeaderEnd(v)) = f.header
    /\ Len(v) >= Len(BytesOf(f)) => Delimiters(v) # {}

LEMMA HeaderIsThere ==
  ASSUME NEW v \in Seq(Byte), NEW z \in Seq(Byte), NEW f \in Framed, NEW y \in Seq(Byte),
         Delimiters(f.header \o Delimiter) = {Len(f.header)}, v \o z = BytesOf(f) \o y
  PROVE  HeaderThere(v, f)
<1> DEFINE h == f.header
           b == BytesOf(f)
           w == b \o y
<1>1. b \in Seq(Byte) /\ Len(h) \in Nat /\ Len(b) = Len(h) + 4 + Len(f.body)
      /\ Len(f.body) \in Nat /\ Len(v) \in Nat
  <2>1. Len(v) \in Nat
    BY Joined
  <2> QED
    BY <2>1, FrameTypes
<1>2. Delimiters(b) # {} /\ HeaderEnd(b) = Len(h) /\ SubSeq(b, 1, Len(h)) = h
  BY HeaderOfFrame
<1>3. v \o z = w
  OBVIOUS
<1> HIDE DEF b, h
<1>4. Delimiters(w) # {} /\ HeaderEnd(w) = Len(h) /\ SubSeq(w, 1, Len(h)) = h /\ w \in Seq(Byte)
  BY <1>1, <1>2, SameHeader, Joined
<1> HIDE DEF w
<1>5. ASSUME Delimiters(v) # {}
      PROVE  HeaderEnd(v) = Len(h) /\ SubSeq(v, 1, HeaderEnd(v)) = h
  <2>1. HeaderEnd(v \o z) = HeaderEnd(v)
        /\ SubSeq(v \o z, 1, HeaderEnd(v)) = SubSeq(v, 1, HeaderEnd(v))
    BY <1>5, SameHeader
  <2> QED
    BY <1>3, <1>4, <2>1
<1>6. ASSUME Len(v) >= Len(b) PROVE Delimiters(v) # {}
  <2>1. Len(h) \in Delimiters(v \o z)
    BY <1>3, <1>4, DelimiterIsThere
  <2>2. Len(v) >= Len(h) + 4 + Len(f.body)
    BY <1>1, <1>6
  <2>3. Len(h) + 4 <= Len(v)
    BY <1>1, <2>2, Sums, Zenon
  <2> QED
    BY <1>1, <2>1, <2>3, SameDelimiters
<1> QED
  BY <1>5, <1>6 DEF HeaderThere, b, h

(* A bad frame at the head of the stream: the reader waits, or throws; it  *)
(* throws when the frame is there.                                         *)
LEMMA RoundRefused ==
  ASSUME NEW x \in Reading, ~x.failed, NEW z \in Seq(Byte),
         NEW f \in Framed, BadlyFramed(x.reader, f), NEW y \in Seq(Byte),
         x.buffer \o z = BytesOf(f) \o y
  PROVE  /\ Round(x) = x \/ Round(x).failed
         /\ Len(x.buffer) >= Len(BytesOf(f)) => Failing(x)
<1> DEFINE v == x.buffer
           h == f.header
           b == BytesOf(f)
<1>1. v \in Seq(Byte)
  BY DEF Reading
<1>2. /\ Delimiters(v) # {} => HeaderEnd(v) = Len(h) /\ SubSeq(v, 1, HeaderEnd(v)) = h
      /\ Len(v) >= Len(b) => Delimiters(v) # {}
  BY <1>1, HeaderIsThere DEF BadlyFramed, HeaderThere
<1>3. Refuses(x.reader, h)
  BY DEF BadlyFramed
<1> HIDE DEF b, h
<1>4. Delimiters(v) # {} => Failing(x)
  BY <1>2, <1>3 DEF Failing
<1>5. ~Complete(x) \/ Failing(x)
  BY <1>4 DEF Complete
<1>6. Round(x) = x \/ Round(x).failed
  <2>1. CASE Failing(x)
    <3>1. Round(x) = [x EXCEPT !.failed = TRUE]
      BY <2>1 DEF Round
    <3> QED
      BY <3>1 DEF Reading
  <2>2. CASE ~Failing(x)
    BY <1>5, <2>2 DEF Round
  <2> QED
    BY <2>1, <2>2
<1> QED
  BY <1>2, <1>4, <1>6 DEF v, b

(* A good frame all of which is there is read.                             *)
LEMMA FrameIsRead ==
  ASSUME NEW x \in Reading, ~x.failed, NEW z \in Seq(Byte),
         NEW f \in Framed, WellFramed(x.reader, f), NEW y \in Seq(Byte),
         x.buffer \o z = BytesOf(f) \o y, Len(x.buffer) >= Len(BytesOf(f))
  PROVE  Reads(x)
<1> DEFINE v == x.buffer
           h == f.header
           b == BytesOf(f)
<1>1. v \in Seq(Byte) /\ Len(v) \in Nat
  <2>1. v \in Seq(Byte)
    BY DEF Reading
  <2> QED
    BY <2>1, HasLength
<1>2. Delimiters(v) # {} /\ HeaderEnd(v) = Len(h) /\ SubSeq(v, 1, HeaderEnd(v)) = h
  <2>1. Delimiters(h \o Delimiter) = {Len(h)}
    BY DEF WellFramed
  <2>2. v \o z = b \o y /\ Len(v) >= Len(b)
    OBVIOUS
  <2> HIDE DEF v
  <2>3. HeaderThere(v, f)
    BY <1>1, <2>1, <2>2, HeaderIsThere
  <2> QED
    BY <2>2, <2>3 DEF HeaderThere
<1>3. ~Refuses(x.reader, h) /\ Len(f.body) = DeclaredLength(h)
  BY DEF WellFramed
<1>4. Len(b) = Len(h) + 4 + Len(f.body) /\ Len(v) >= Len(b)
  BY FrameTypes
<1> HIDE DEF b, h, v
<1>5. ~Failing(x)
  BY <1>2, <1>3 DEF Failing, v
<1>6. BodyEnd(v) = Len(b)
  BY <1>2, <1>3, <1>4 DEF BodyEnd
<1>7. BodyEnd(v) <= Len(v)
  <2>1. Len(b) \in Nat
    BY FrameTypes, Joined DEF b
  <2> QED
    BY <1>1, <1>4, <1>6, <2>1
<1> QED
  BY <1>2, <1>5, <1>7 DEF Reads, Complete, v

LEMMA NothingLeft ==
  ASSUME NEW v \in Seq(Byte), NEW z \in Seq(Byte), v \o z = <<>>
  PROVE  v = <<>>
<1>1. Len(v \o z) = Len(v) + Len(z) /\ Len(v) \in Nat /\ Len(z) \in Nat
  BY Joined
<1>2. Len(<<>>) = 0
  OBVIOUS
<1>3. Len(v) = 0
  BY <1>1, <1>2, Sums, Zenon
<1> QED
  BY <1>3

LEMMA WithinOneMore ==
  ASSUME NEW out \in Seq(Message), NEW frames, NEW i \in Nat, Returned(out, frames, i),
         NEW m \in Message, m = frames[i + 1].body
  PROVE  Returned(Append(out, m), frames, i + 1)
<1>1. Len(out) = i /\ \A j \in 1..i : out[j] = frames[j].body
  BY DEF Returned
<1>2. /\ Len(Append(out, m)) = Len(out) + 1 /\ Append(out, m)[Len(out) + 1] = m
      /\ \A j \in 1..Len(out) : Append(out, m)[j] = out[j]
  BY OneMore
<1>3. \A j \in 1..(i + 1) : j \in 1..i \/ j = i + 1
  OBVIOUS
<1> QED
  BY <1>1, <1>2, <1>3 DEF Returned

(* A round of the loop leaves the reader within the good frames.           *)
LEMMA RoundWithin ==
  ASSUME MaxHeader \in Nat, NEW x \in Reading, NEW z \in Seq(Byte),
         NEW frames, NEW rest, NEW M, NEW N,
         Flow(x.reader, frames, rest, M, N), Within(x, z, frames, rest, M, N)
  PROVE  Within(Round(x), z, frames, rest, M, N)
<1>1. CASE x.failed
  <2>1. Round(x) = x
    BY <1>1, RoundTypes
  <2> QED
    BY <2>1
<1>2. CASE ~x.failed
  <2>1. PICK i \in 0..N : x.buffer \o z = rest[i] /\ Returned(x.out, frames, i)
    BY <1>2 DEF Within
  <2>2. /\ M \in Nat /\ N \in Nat /\ N <= M /\ i \in Nat /\ i <= N
        /\ i < N => i + 1 \in 1..N
        /\ i < M => i + 1 \in 1..M
        /\ i < N => i < M
        /\ ~(i < N) => i = N
    <3>1. M \in Nat /\ N \in 0..M
      BY DEF Flow
    <3> QED
      BY <3>1
  <2>3. Round(x) = x => Within(Round(x), z, frames, rest, M, N)
    OBVIOUS
  <2>4. CASE i < M
    <3> DEFINE f == frames[i + 1]
               y == rest[i + 1]
    <3>1. f \in Framed /\ y \in Seq(Byte) /\ x.buffer \o z = BytesOf(f) \o y
      <4>1. i + 1 \in 1..M /\ i + 1 \in 0..M /\ (i + 1) - 1 = i
        BY <2>2, <2>4
      <4>2. \A j \in 1..M : frames[j] \in Framed /\ rest[j - 1] = BytesOf(frames[j]) \o rest[j]
        BY DEF Flow
      <4>3. \A j \in 0..M : rest[j] \in Seq(Byte)
        BY DEF Flow
      <4> QED
        BY <2>1, <4>1, <4>2, <4>3
    <3>2. CASE i < N
      <4>1. WellFramed(x.reader, f) /\ HasRoom(x.reader, f)
        <5>1. i + 1 \in 1..N
          BY <2>2, <3>2
        <5>2. \A j \in 1..N : WellFramed(x.reader, frames[j]) /\ HasRoom(x.reader, frames[j])
          BY DEF Flow
        <5> QED
          BY <5>1, <5>2
      <4>2. f.body \in Message /\ f.body = frames[i + 1].body
        BY <3>1 DEF Framed
      <4> HIDE DEF f, y
      <4>3. ~Failing(x)
        BY <3>1, <4>1, PieceOfFrame
      <4>4. CASE Reads(x)
        <5> DEFINE a == Longer(x, z)
                   t == Round(x)
        <5>1. Round(a) = Longer(t, z)
          BY <4>4, RoundLonger
        <5>2. t \in Reading /\ ~t.failed
          BY <4>4, RoundReads
        <5>3. Longer(t, z).buffer = t.buffer \o z /\ Longer(t, z).out = t.out
          BY <5>2, LongerTypes
        <5>4. /\ a \in Reading /\ a.buffer = x.buffer \o z /\ a.reader = x.reader
              /\ a.failed = x.failed /\ a.out = x.out
          BY LongerTypes
        <5> HIDE DEF a, t
        <5>5. a.buffer = BytesOf(f) \o y /\ WellFramed(a.reader, f) /\ ~a.failed
          BY <1>2, <3>1, <4>1, <5>4
        <5>6. Round(a).buffer = y /\ Round(a).out = Append(a.out, f.body)
          BY <3>1, <5>4, <5>5, RoundOfFrame
        <5>7. t.buffer \o z = rest[i + 1] /\ t.out = Append(x.out, f.body)
          BY <5>1, <5>3, <5>4, <5>6 DEF y
        <5>8. x.out \in Seq(Message)
          BY DEF Reading
        <5>9. Returned(Append(x.out, f.body), frames, i + 1)
          BY <2>1, <2>2, <4>2, <5>8, WithinOneMore
        <5>10. i + 1 \in 0..N
          BY <2>2, <3>2
        <5> QED
          BY <5>2, <5>7, <5>9, <5>10 DEF Within, t
      <4>5. CASE ~Reads(x)
        BY <1>2, <2>3, <4>3, <4>5 DEF Round, Reads
      <4> QED
        BY <4>4, <4>5
    <3>3. CASE ~(i < N)
      <4>1. BadlyFramed(x.reader, f)
        <5>1. i + 1 \in 1..M /\ i + 1 = N + 1
          BY <2>2, <2>4, <3>3
        <5>2. \A j \in 1..M : j = N + 1 => BadlyFramed(x.reader, frames[j])
          BY DEF Flow
        <5> QED
          BY <5>1, <5>2
      <4> HIDE DEF f, y
      <4>2. Round(x) = x \/ Round(x).failed
        BY <1>2, <3>1, <4>1, RoundRefused
      <4>3. N < M
        BY <2>2, <2>4, <3>3
      <4> QED
        BY <2>3, <4>2, <4>3 DEF Within
    <3> QED
      BY <3>2, <3>3
  <2>5. CASE ~(i < M)
    <3>1. i = M
      BY <2>2, <2>5
    <3>2. x.buffer \o z = <<>> /\ x.buffer \in Seq(Byte)
      BY <2>1, <3>1 DEF Flow, Reading
    <3>3. x.buffer = <<>>
      BY <3>2, NothingLeft
    <3>4. Round(x) = x
      BY <1>2, <3>3, NothingToRead
    <3> QED
      BY <2>3, <3>4
  <2> QED
    BY <2>4, <2>5
<1> QED
  BY <1>1, <1>2

(* So the loop ends within them, and no round changes anything then.       *)
LEMMA TakeWithin ==
  ASSUME MaxHeader \in Nat, NEW r \in Reading, ~r.failed, r.out = <<>>, NEW z \in Seq(Byte),
         NEW frames, NEW rest, NEW M, NEW N,
         Flow(r.reader, frames, rest, M, N), r.buffer \o z = rest[0]
  PROVE  /\ Within(Take(r), z, frames, rest, M, N)
         /\ Round(Take(r)) = Take(r)
<1>1. PICK f \in [Nat -> Reading] : Loop(f, r)
  BY LoopExists
<1> DEFINE S == {n \in Nat : f[n].reader = r.reader /\ Within(f[n], z, frames, rest, M, N)}
<1>2. 0 \in S
  <2>1. f[0] = r
    BY <1>1 DEF Loop
  <2>2. Returned(r.out, frames, 0)
    <3>1. Len(<<>>) = 0 /\ 1..0 = {}
      OBVIOUS
    <3> QED
      BY <3>1 DEF Returned
  <2>3. 0 \in 0..N
    BY DEF Flow
  <2>4. Within(r, z, frames, rest, M, N)
    BY <2>2, <2>3 DEF Within
  <2> QED
    BY <2>1, <2>4
<1>3. ASSUME NEW n \in S PROVE n + 1 \in S
  <2> DEFINE x == f[n]
  <2>1. n \in Nat /\ x \in Reading /\ x.reader = r.reader /\ Within(x, z, frames, rest, M, N)
    OBVIOUS
  <2>2. f[n + 1] = Round(x)
    <3>1. n \in Nat
      OBVIOUS
    <3> HIDE DEF S
    <3> QED
      BY <1>1, <3>1, Zenon DEF Loop
  <2> HIDE DEF x, S
  <2>3. Flow(x.reader, frames, rest, M, N)
    BY <2>1
  <2>4. Within(Round(x), z, frames, rest, M, N)
    BY <2>1, <2>3, RoundWithin
  <2>5. Round(x).reader = r.reader
    BY <2>1, RoundTypes
  <2> QED
    BY <2>1, <2>2, <2>4, <2>5 DEF S
<1>4. S \in SUBSET Nat
  OBVIOUS
<1> HIDE DEF S
<1>5. Nat \subseteq S
  BY <1>2, <1>3, <1>4, Induction
<1> DEFINE L == Len(r.buffer)
<1>6. L \in Nat
  BY HasLength
<1>7. L + 1 \in Nat /\ L >= L /\ L + 1 >= L
  <2> HIDE DEF L
  <2> QED
    BY <1>6
<1>8. Take(r) = f[L + 1]
  BY <1>1, TakeIsLoop
<1>9. f[(L + 1) + 1] = f[L + 1]
  BY <1>1, <1>7, LoopSettles
<1>10. f[(L + 1) + 1] = Round(f[L + 1])
  <2> HIDE DEF L
  <2> QED
    BY <1>1, <1>7 DEF Loop
<1>11. L + 1 \in S
  BY <1>5, <1>7
<1> QED
  BY <1>8, <1>9, <1>10, <1>11 DEF S

\* All the good frames that are there whole are returned; a bad one throws.
Taken(t, z, frames, rest, M, N) ==
    /\ t.failed => N < M
    /\ ~t.failed =>
         \E i \in 0..N : /\ t.buffer \o z = rest[i] /\ Returned(t.out, frames, i)
                         /\ i < M => ~(Len(t.buffer) >= Len(BytesOf(frames[i + 1])))

(* What a reader has returned of a piece of a stream: all the good frames  *)
(* that are there whole; and it throws only at a bad one.                  *)
LEMMA TakenMeans ==
  ASSUME MaxHeader \in Nat, NEW r \in Reading, ~r.failed, r.out = <<>>, NEW z \in Seq(Byte),
         NEW frames, NEW rest, NEW M, NEW N,
         Flow(r.reader, frames, rest, M, N), r.buffer \o z = rest[0]
  PROVE  Taken(Take(r), z, frames, rest, M, N)
<1> DEFINE t == Take(r)
<1>1. Within(t, z, frames, rest, M, N) /\ Round(t) = t
  BY TakeWithin
<1>2. t \in Reading /\ t.reader = r.reader
  BY TakeTypes
<1> HIDE DEF t
<1>3. t.failed => N < M
  BY <1>1 DEF Within
<1>4. ASSUME ~t.failed
      PROVE  \E i \in 0..N : /\ t.buffer \o z = rest[i] /\ Returned(t.out, frames, i)
                             /\ i < M => ~(Len(t.buffer) >= Len(BytesOf(frames[i + 1])))
  <2>1. PICK i \in 0..N : t.buffer \o z = rest[i] /\ Returned(t.out, frames, i)
    BY <1>1, <1>4 DEF Within
  <2>2. ASSUME i < M PROVE ~(Len(t.buffer) >= Len(BytesOf(frames[i + 1])))
    <3> DEFINE f == frames[i + 1]
               y == rest[i + 1]
    <3>1. M \in Nat /\ N \in Nat /\ i \in Nat /\ N <= M /\ i <= N
      BY DEF Flow
    <3>2. i + 1 \in 1..M /\ i + 1 \in 0..M /\ (i + 1) - 1 = i
          /\ (i + 1 \in 1..N \/ i + 1 = N + 1)
      BY <2>2, <3>1
    <3>3. \A j \in 1..M : frames[j] \in Framed /\ rest[j - 1] = BytesOf(frames[j]) \o rest[j]
      BY DEF Flow
    <3>4. \A j \in 0..M : rest[j] \in Seq(Byte)
      BY DEF Flow
    <3>5. f \in Framed /\ y \in Seq(Byte) /\ t.buffer \o z = BytesOf(f) \o y
      BY <2>1, <3>2, <3>3, <3>4
    <3>6. WellFramed(t.reader, f) \/ BadlyFramed(t.reader, f)
      <4>1. \A j \in 1..N : WellFramed(r.reader, frames[j])
        BY DEF Flow
      <4>2. \A j \in 1..M : j = N + 1 => BadlyFramed(r.reader, frames[j])
        BY DEF Flow
      <4> QED
        BY <1>2, <3>2, <4>1, <4>2
    <3> HIDE DEF f, y
    <3>7. SUFFICES ASSUME Len(t.buffer) >= Len(BytesOf(f)) PROVE FALSE
      BY DEF f
    <3>8. CASE WellFramed(t.reader, f)
      <4>1. Reads(t)
        BY <1>2, <1>4, <3>5, <3>7, <3>8, FrameIsRead
      <4>2. Len(Round(t).buffer) < Len(t.buffer)
        BY <1>2, <4>1, RoundReads
      <4>3. Len(t.buffer) \in Nat
        BY <1>2, HasLength
      <4> QED
        BY <1>1, <4>2, <4>3
    <3>9. CASE BadlyFramed(t.reader, f)
      <4>1. Failing(t)
        BY <1>2, <1>4, <3>5, <3>7, <3>9, RoundRefused
      <4>2. Round(t) = [t EXCEPT !.failed = TRUE]
        BY <1>4, <4>1 DEF Round
      <4>3. Round(t).failed
        BY <1>2, <4>2 DEF Reading
      <4> QED
        BY <1>1, <1>4, <4>3
    <3> QED
      BY <3>6, <3>8, <3>9
  <2> QED
    BY <2>1, <2>2
<1> QED
  BY <1>3, <1>4 DEF t, Taken

LEMMA LengthsAdd ==
  /\ \A a, b, c \in Nat : a = b + c => c <= a
  /\ \A b, v, y, z, w \in Nat : v + z = b + y /\ ~(v >= b) /\ w <= y => ~(z <= w)
  /\ \A v, z, w, u \in Nat : v + z = w /\ w <= u => z <= u
  /\ \A t, z, u \in Nat : (t + z <= u + t <=> z <= u)
OBVIOUS

(* The more frames there have been, the less is to come.                   *)
LEMMA Falling ==
  ASSUME NEW reader, NEW frames, NEW rest, NEW M, NEW N, Flow(reader, frames, rest, M, N)
  PROVE  \A j \in 0..M : /\ Len(rest[j]) \in Nat
                         /\ \A i \in 0..j : Len(rest[j]) <= Len(rest[i])
<1>0. M \in Nat /\ \A i \in 0..M : rest[i] \in Seq(Byte)
  BY DEF Flow
<1>1. \A i \in 0..M : Len(rest[i]) \in Nat
  BY <1>0, Joined
<1>2. \A i \in 1..M : Len(rest[i]) <= Len(rest[i - 1])
  <2>1. SUFFICES ASSUME NEW i \in 1..M PROVE Len(rest[i]) <= Len(rest[i - 1])
    OBVIOUS
  <2> DEFINE b == BytesOf(frames[i])
             y == rest[i]
  <2>2. rest[i - 1] = b \o y /\ b \in Seq(Byte)
    BY FrameTypes DEF Flow
  <2>3. i \in 0..M /\ i - 1 \in 0..M
    BY <1>0
  <2>4. y \in Seq(Byte)
    BY <1>0, <2>3
  <2> HIDE DEF b, y
  <2>5. Len(rest[i - 1]) = Len(b) + Len(y) /\ Len(b) \in Nat /\ Len(y) \in Nat
    BY <2>2, <2>4, Joined
  <2>6. Len(rest[i - 1]) \in Nat
    BY <1>1, <2>3
  <2>7. Len(y) <= Len(rest[i - 1])
    BY <2>5, <2>6, LengthsAdd, Zenon
  <2> QED
    BY <2>7 DEF y
<1> DEFINE l == [i \in 0..M |-> Len(rest[i])]
           S == {j \in Nat : j <= M => \A i \in 0..j : l[j] <= l[i]}
<1>3. l \in [0..M -> Nat] /\ \A i \in 0..M : l[i] = Len(rest[i])
  BY <1>1
<1>4. \A i \in 1..M : l[i] <= l[i - 1]
  <2>1. \A i \in 1..M : i \in 0..M /\ i - 1 \in 0..M
    BY <1>0
  <2> QED
    BY <1>2, <1>3, <2>1
<1> HIDE DEF l
<1>5. 0 \in S
  BY <1>0, <1>3
<1>6. ASSUME NEW j \in S PROVE j + 1 \in S
  <2>1. SUFFICES ASSUME j + 1 <= M, NEW i \in 0..(j + 1) PROVE l[j + 1] <= l[i]
    OBVIOUS
  <2>2. j \in Nat /\ j + 1 \in 1..M /\ (j + 1) - 1 = j /\ j <= M
    BY <1>0, <2>1
  <2>3. l[j + 1] <= l[j] /\ l[j] \in Nat /\ l[j + 1] \in Nat /\ l[i] \in Nat
    <3>1. j \in 0..M /\ j + 1 \in 0..M /\ i \in 0..M
      BY <1>0, <2>1, <2>2
    <3>2. l[j + 1] <= l[(j + 1) - 1]
      BY <1>4, <2>2
    <3> QED
      BY <1>3, <2>2, <3>1, <3>2
  <2>4. CASE i = j + 1
    BY <2>3, <2>4
  <2>5. CASE i # j + 1
    <3>1. i \in 0..j
      BY <2>2, <2>5
    <3>2. l[j] <= l[i]
      BY <2>2, <3>1
    <3> HIDE DEF S
    <3> QED
      BY <2>3, <3>2
  <2> QED
    BY <2>4, <2>5
<1>7. S \in SUBSET Nat
  OBVIOUS
<1> HIDE DEF S
<1>8. Nat \subseteq S
  BY <1>5, <1>6, <1>7, Induction
<1>9. ASSUME NEW j \in 0..M, NEW i \in 0..j PROVE Len(rest[j]) <= Len(rest[i])
  <2>1. j \in Nat /\ j <= M /\ i \in 0..M
    BY <1>0
  <2>2. l[j] <= l[i]
    BY <1>8, <2>1 DEF S
  <2> QED
    BY <1>3, <2>1, <2>2
<1> QED
  BY <1>1, <1>9

\* Frame j is there whole, when so many bytes are.
IsThere(rest, n, j) == Len(rest[0]) <= Len(rest[j]) + n

(* A reader with less than the next frame in its buffer has returned the   *)
(* frames that are there, and no others.                                   *)
LEMMA WholeFrames ==
  ASSUME NEW reader, NEW frames, NEW rest, NEW M, NEW N, Flow(reader, frames, rest, M, N),
         NEW s \in Seq(Byte), NEW v \in Seq(Byte), NEW z \in Seq(Byte), s \o z = rest[0],
         NEW i \in 0..M, v \o z = rest[i], i < M => ~(Len(v) >= Len(BytesOf(frames[i + 1])))
  PROVE  \A j \in 1..M : IsThere(rest, Len(s), j) <=> j <= i
<1>0. M \in Nat /\ \A k \in 0..M : rest[k] \in Seq(Byte)
  BY DEF Flow
<1>1. SUFFICES ASSUME NEW j \in 1..M PROVE IsThere(rest, Len(s), j) <=> j <= i
  OBVIOUS
<1>2. j \in 0..M /\ 0 \in 0..M /\ j \in Nat /\ i \in Nat
  BY <1>0
<1>3. /\ Len(rest[0]) = Len(s) + Len(z) /\ Len(rest[i]) = Len(v) + Len(z)
      /\ Len(s) \in Nat /\ Len(z) \in Nat /\ Len(v) \in Nat
  BY Joined
<1>4. Len(rest[j]) \in Nat /\ Len(rest[0]) \in Nat /\ Len(rest[i]) \in Nat
  BY <1>2, Falling
<1>5. IsThere(rest, Len(s), j) <=> Len(z) <= Len(rest[j])
  <2>1. IsThere(rest, Len(s), j) <=> Len(s) + Len(z) <= Len(rest[j]) + Len(s)
    BY <1>3 DEF IsThere
  <2> QED
    BY <1>3, <1>4, <2>1, LengthsAdd
<1>6. ASSUME j <= i PROVE Len(z) <= Len(rest[j])
  <2>1. j \in 0..i
    BY <1>2, <1>6
  <2>2. Len(rest[i]) <= Len(rest[j])
    BY <2>1, Falling
  <2> QED
    BY <1>3, <1>4, <2>2, LengthsAdd
<1>7. ASSUME ~(j <= i) PROVE ~(Len(z) <= Len(rest[j]))
  <2> DEFINE b == BytesOf(frames[i + 1])
             y == rest[i + 1]
  <2>1. i < M /\ i + 1 \in 0..M /\ i + 1 \in 1..M /\ i + 1 \in 0..j /\ (i + 1) - 1 = i
    BY <1>0, <1>2, <1>7
  <2>2. rest[i] = b \o y /\ b \in Seq(Byte) /\ y \in Seq(Byte)
    <3>1. \A k \in 1..M : frames[k] \in Framed /\ rest[k - 1] = BytesOf(frames[k]) \o rest[k]
      BY DEF Flow
    <3>2. rest[i] = b \o y /\ frames[i + 1] \in Framed
      BY <2>1, <3>1
    <3> QED
      BY <1>0, <2>1, <3>2, FrameTypes
  <2>3. Len(rest[j]) <= Len(y)
    BY <2>1, Falling
  <2>4. ~(Len(v) >= Len(b))
    BY <2>1
  <2> HIDE DEF b, y
  <2>5. Len(rest[i]) = Len(b) + Len(y) /\ Len(b) \in Nat /\ Len(y) \in Nat
    BY <2>2, Joined
  <2>6. Len(v) + Len(z) = Len(b) + Len(y)
    BY <1>3, <2>5
  <2> QED
    BY <1>3, <1>4, <2>3, <2>4, <2>5, <2>6, LengthsAdd
<1> QED
  BY <1>5, <1>6, <1>7

LEMMA Growing ==
  \A a, u, t, n \in Nat : a <= u + t /\ t <= n => a <= u + n
OBVIOUS

\* What a connection has returned when n bytes have come: i frames, which are
\* there whole; all of those, while it has not thrown.
Got(c, frames, rest, M, n, i) ==
    /\ Returned(c.frames, frames, i)
    /\ \A j \in 1..i : IsThere(rest, n, j)
    /\ ~c.failed => \A j \in 1..M : IsThere(rest, n, j) => j <= i

LEMMA OpenedIs ==
  ASSUME NEW reader \in Readers
  PROVE  /\ Opened(reader) \in Connection /\ Opened(reader).reader = reader
         /\ Opened(reader).frames = <<>> /\ ~Opened(reader).failed
         /\ Opened(reader).buffer = <<>>
<1>1. <<>> \in Seq(Byte) /\ <<>> \in Seq(Message)
  OBVIOUS
<1> QED
  BY <1>1 DEF Opened, Connection

LEMMA NothingBefore ==
  ASSUME NEW S, NEW s \in Seq(S)
  PROVE  <<>> \o s = s /\ s \o <<>> = s
BY ConcatEmptySeq

Pushed(c, s, z, frames, rest, M, N) ==
    /\ c.failed => N < M
    /\ ~c.failed => \E i \in 0..N : Got(c, frames, rest, M, Len(s), i)
    /\ ~c.failed /\ z = <<>> => ~(N < M)

(* The first push, of all that has come.                                   *)
LEMMA AtOnce ==
  ASSUME MaxHeader \in Nat, NEW reader \in Readers, NEW frames, NEW rest, NEW M, NEW N,
         Flow(reader, frames, rest, M, N),
         NEW s \in Seq(Byte), NEW z \in Seq(Byte), s \o z = rest[0]
  PROVE  Pushed(Push(Opened(reader), s), s, z, frames, rest, M, N)
<1> DEFINE o == Opened(reader)
           c == Push(o, s)
           r == Started(o, s)
           t == Take(r)
<1>1. o \in Connection /\ ~o.failed /\ o.frames = <<>> /\ o.buffer = <<>> /\ o.reader = reader
  BY OpenedIs
<1> HIDE DEF o
<1>2. c = Ended(o, t) /\ t \in Reading
  BY <1>1, PushIs
<1>3. r \in Reading /\ ~r.failed /\ r.reader = reader
  BY <1>1, StartedTypes
<1>4. r.out = <<>> /\ r.buffer = s
  <2>1. <<>> \o s = s
    BY NothingBefore
  <2> QED
    BY <1>1, <2>1 DEF Started
<1> HIDE DEF r
<1>8. Flow(r.reader, frames, rest, M, N) /\ r.buffer \o z = rest[0]
  BY <1>3, <1>4
<1>5. Taken(t, z, frames, rest, M, N)
  BY <1>3, <1>4, <1>8, TakenMeans, Zenon
<1> HIDE DEF t, c
<1>6. c.failed = t.failed /\ (~t.failed => c.frames = o.frames \o t.out)
  BY <1>2 DEF Ended
<1>7. ASSUME ~c.failed
      PROVE  (\E i \in 0..N : Got(c, frames, rest, M, Len(s), i)) /\ (z = <<>> => ~(N < M))
  <2>1. PICK i \in 0..N : /\ t.buffer \o z = rest[i] /\ Returned(t.out, frames, i)
                          /\ i < M => ~(Len(t.buffer) >= Len(BytesOf(frames[i + 1])))
    BY <1>5, <1>6, <1>7 DEF Taken
  <2>2. M \in Nat /\ N \in Nat /\ N <= M /\ i \in Nat /\ i <= N /\ i \in 0..M
    BY DEF Flow
  <2>3. t.buffer \in Seq(Byte) /\ t.out \in Seq(Message)
    BY <1>2 DEF Reading
  <2>4. c.frames = t.out
    <3>1. <<>> \o t.out = t.out
      BY <2>3, NothingBefore
    <3> QED
      BY <1>1, <1>6, <1>7, <3>1
  <2>5. \A j \in 1..M : IsThere(rest, Len(s), j) <=> j <= i
    BY <2>1, <2>2, <2>3, WholeFrames
  <2>6. Got(c, frames, rest, M, Len(s), i)
    <3>1. \A j \in 1..i : j \in 1..M /\ j <= i
      BY <2>2
    <3> QED
      BY <2>1, <2>4, <2>5, <3>1 DEF Got
  <2>7. ASSUME z = <<>>, N < M PROVE FALSE
    <3>1. t.buffer = rest[i]
      <4>1. t.buffer \o <<>> = t.buffer
        BY <2>3, NothingBefore
      <4> QED
        BY <2>1, <2>7, <4>1
    <3>2. i < M /\ i + 1 \in 1..M /\ i + 1 \in 0..M /\ (i + 1) - 1 = i
      BY <2>2, <2>7
    <3>3. \A j \in 1..M : frames[j] \in Framed /\ rest[j - 1] = BytesOf(frames[j]) \o rest[j]
      BY DEF Flow
    <3> DEFINE b == BytesOf(frames[i + 1])
               y == rest[i + 1]
    <3>4. rest[i] = b \o y /\ b \in Seq(Byte) /\ y \in Seq(Byte)
      <4>1. rest[i] = b \o y /\ frames[i + 1] \in Framed
        BY <3>2, <3>3
      <4>2. y \in Seq(Byte)
        BY <3>2 DEF Flow
      <4> QED
        BY <4>1, <4>2, FrameTypes
    <3>5. ~(Len(t.buffer) >= Len(b))
      BY <2>1, <3>2
    <3> HIDE DEF b, y
    <3>6. Len(b \o y) = Len(b) + Len(y) /\ Len(b) \in Nat /\ Len(y) \in Nat
      BY <3>4, Joined
    <3>7. Len(t.buffer) = Len(b) + Len(y)
      BY <3>1, <3>4, <3>6
    <3> QED
      BY <3>5, <3>6, <3>7
  <2> QED
    BY <2>6, <2>7
<1> QED
  BY <1>5, <1>6, <1>7 DEF Taken, Pushed, c, o

LEMMA TotalsGrow ==
  ASSUME NEW start, NEW chunks, NEW total, NEW after, Arriving(start, chunks, total, after)
  PROVE  \A k \in 1..Len(chunks) : /\ Len(total[k - 1]) \in Nat /\ Len(total[k]) \in Nat
                                   /\ Len(total[k - 1]) <= Len(total[k])
<1>1. SUFFICES ASSUME NEW k \in 1..Len(chunks)
               PROVE  /\ Len(total[k - 1]) \in Nat /\ Len(total[k]) \in Nat
                      /\ Len(total[k - 1]) <= Len(total[k])
  OBVIOUS
<1>2. /\ chunks \in Seq(Seq(Byte)) /\ total \in [0..Len(chunks) -> Seq(Byte)]
      /\ total[k] = total[k - 1] \o chunks[k]
  BY DEF Arriving
<1>3. k - 1 \in 0..Len(chunks) /\ k \in 0..Len(chunks) /\ chunks[k] \in Seq(Byte)
  BY <1>2
<1> DEFINE a == total[k - 1]
           b == chunks[k]
<1>4. a \in Seq(Byte) /\ b \in Seq(Byte) /\ total[k] = a \o b
  BY <1>2, <1>3
<1> HIDE DEF a, b
<1>5. Len(a \o b) = Len(a) + Len(b) /\ Len(a) \in Nat /\ Len(b) \in Nat
  BY <1>4, Joined
<1>6. Len(total[k]) = Len(a) + Len(b)
  BY <1>4, <1>5
<1>7. Len(a) <= Len(total[k]) /\ Len(total[k]) \in Nat
  BY <1>5, <1>6
<1> QED
  BY <1>5, <1>7 DEF a

(* Chunk after chunk: what the connection has returned are the frames that *)
(* are there whole, or, when it has thrown, the first of them; it throws   *)
(* at a bad frame, and it has thrown at the end if there is one.           *)
LEMMA ConnectionGets ==
  ASSUME MaxHeader \in Nat, NEW reader \in Readers, NEW frames, NEW rest, NEW M, NEW N,
         Flow(reader, frames, rest, M, N),
         NEW chunks, NEW total, NEW after, Arriving(Opened(reader), chunks, total, after),
         \A k \in 1..Len(chunks) : \E z \in Seq(Byte) : total[k] \o z = rest[0],
         total[Len(chunks)] = rest[0]
  PROVE  \A k \in 1..Len(chunks) :
            /\ after[k].failed => N < M
            /\ k = Len(chunks) /\ N < M => after[k].failed
            /\ \E i \in 0..N : Got(after[k], frames, rest, M, Len(total[k]), i)
<1> DEFINE K == Len(chunks)
           There(k) == \E i \in 0..N : /\ Returned(after[k].frames, frames, i)
                                       /\ \A j \in 1..i : IsThere(rest, Len(total[k]), j)
           S == {k \in Nat : k <= K => There(k)}
<1>0. /\ after[0] = Opened(reader)
      /\ \A k \in 1..K : after[k] = Push(after[k - 1], chunks[k])
  BY DEF Arriving
<1>13. K \in Nat /\ \A k \in 1..K : chunks[k] \in Seq(Byte)
  <2>1. chunks \in Seq(Seq(Byte))
    BY DEF Arriving
  <2> QED
    BY <2>1, Elements, Zenon
<1>14. \A k \in 0..K : total[k] \in Seq(Byte) /\ after[k] \in Connection
  <2>1. total \in [0..K -> Seq(Byte)] /\ after \in [0..K -> Connection]
    BY DEF Arriving
  <2> QED
    BY <2>1
<1>15. \A k \in 1..K : k \in 0..K /\ k - 1 \in 0..K /\ k \in Nat /\ k <= K
  BY <1>13
<1>1. Opened(reader) \in Connection
  BY OpenedIs
<1>2. \A k \in 1..K :
         /\ ~after[k].failed => after[k] = Push(Opened(reader), total[k])
         /\ after[k].failed => \E j \in 1..k : Push(Opened(reader), total[j]).failed
  BY <1>1, AnyCutWillDo
<1>3. \A k \in 1..K :
         LET p == Push(Opened(reader), total[k])
         IN  /\ p.failed => N < M
             /\ ~p.failed => \E i \in 0..N : Got(p, frames, rest, M, Len(total[k]), i)
  <2>1. SUFFICES ASSUME NEW k \in 1..K
                 PROVE  LET p == Push(Opened(reader), total[k])
                        IN  /\ p.failed => N < M
                            /\ ~p.failed => \E i \in 0..N : Got(p, frames, rest, M, Len(total[k]), i)
    OBVIOUS
  <2> DEFINE s == total[k]
  <2>2. PICK z \in Seq(Byte) : s \o z = rest[0]
    OBVIOUS
  <2>3. s \in Seq(Byte)
    BY <1>14, <1>15
  <2> HIDE DEF s, K
  <2>4. Pushed(Push(Opened(reader), s), s, z, frames, rest, M, N)
    BY <2>2, <2>3, AtOnce, Zenon
  <2> QED
    BY <2>4 DEF Pushed, s
<1>4. \A k \in 1..K : ~after[k].failed =>
         \E i \in 0..N : Got(after[k], frames, rest, M, Len(total[k]), i)
  BY <1>2, <1>3
<1>5. \A k \in 1..K : after[k].failed => N < M
  <2>1. SUFFICES ASSUME NEW k \in 1..K, after[k].failed PROVE N < M
    OBVIOUS
  <2>2. PICK j \in 1..k : Push(Opened(reader), total[j]).failed
    BY <1>2, <2>1
  <2>3. j \in 1..K
    <3> HIDE DEF K
    <3> QED
      BY <1>13
  <2> QED
    BY <1>3, <2>2, <2>3
<1>6. ASSUME K \in 1..K, N < M PROVE after[K].failed
  <2>1. SUFFICES ASSUME ~after[K].failed PROVE FALSE
    OBVIOUS
  <2> DEFINE s == total[K]
  <2>2. after[K] = Push(Opened(reader), s)
    BY <1>2, <1>6, <2>1
  <2>3. s \in Seq(Byte) /\ s = rest[0] /\ <<>> \in Seq(Byte)
    BY <1>6, <1>14, <1>15
  <2> HIDE DEF s
  <2>4. s \o <<>> = rest[0]
    BY <2>3, NothingBefore
  <2>5. Pushed(Push(Opened(reader), s), s, <<>>, frames, rest, M, N)
    BY <2>3, <2>4, AtOnce
  <2> QED
    BY <1>6, <2>1, <2>2, <2>5 DEF Pushed
<1>7. 0 \in S
  <2>1. after[0].frames = <<>>
    BY <1>0, OpenedIs
  <2>2. Len(<<>>) = 0 /\ \A j \in 1..0 : FALSE
    OBVIOUS
  <2>3. Returned(after[0].frames, frames, 0)
    BY <2>1, <2>2 DEF Returned
  <2>4. 0 \in 0..N
    BY DEF Flow
  <2> QED
    BY <2>2, <2>3, <2>4
<1>8. ASSUME NEW k \in S PROVE k + 1 \in S
  <2> DEFINE m == k + 1
  <2>1. k \in Nat /\ m \in Nat /\ (m <= K => m \in 1..K /\ m - 1 = k /\ k <= K /\ k \in 0..K)
    <3> HIDE DEF K
    <3> QED
      BY <1>13
  <2>2. SUFFICES ASSUME m <= K PROVE There(m)
    BY <2>1
  <2>3. There(k)
    BY <2>1, <2>2
  <2> HIDE DEF S
  <2>4. CASE ~after[m].failed
    BY <1>4, <2>1, <2>2, <2>4 DEF Got
  <2>5. CASE after[m].failed
    <3>1. after[m] = Push(after[k], chunks[m]) /\ after[k] \in Connection /\ chunks[m] \in Seq(Byte)
      <4> HIDE DEF m, K
      <4> QED
        BY <1>0, <1>13, <1>14, <2>1, <2>2
    <3>2. after[m].frames = after[k].frames
      <4> DEFINE a == after[k]
                 x == chunks[m]
      <4>1. CASE a.failed
        BY <3>1, <4>1, PushFailed
      <4>2. CASE ~a.failed
        <5> HIDE DEF a, x
        <5>1. Push(a, x) = Ended(a, Take(Started(a, x)))
          BY <3>1, <4>2, PushIs DEF a, x
        <5>2. after[m] = Push(a, x)
          BY <3>1 DEF a, x
        <5>3. Take(Started(a, x)).failed
          BY <2>5, <5>1, <5>2 DEF Ended
        <5>4. Push(a, x).frames = a.frames
          BY <5>1, <5>3 DEF Ended
        <5> QED
          BY <5>2, <5>4 DEF a
      <4> QED
        BY <4>1, <4>2
    <3>3. PICK i \in 0..N : /\ Returned(after[k].frames, frames, i)
                            /\ \A j \in 1..i : IsThere(rest, Len(total[k]), j)
      BY <2>3
    <3>4. /\ Len(total[k]) \in Nat /\ Len(total[m]) \in Nat
          /\ Len(total[k]) <= Len(total[m])
      BY <2>1, <2>2, TotalsGrow
    <3>5. \A j \in 1..i : IsThere(rest, Len(total[m]), j)
      <4>1. SUFFICES ASSUME NEW j \in 1..i PROVE IsThere(rest, Len(total[m]), j)
        OBVIOUS
      <4>2. j \in 0..M /\ 0 \in 0..M
        BY DEF Flow
      <4>3. Len(rest[j]) \in Nat /\ Len(rest[0]) \in Nat
        BY <4>2, Falling
      <4>4. Len(rest[0]) <= Len(rest[j]) + Len(total[k])
        BY <3>3 DEF IsThere
      <4> HIDE DEF m
      <4>5. Len(rest[0]) <= Len(rest[j]) + Len(total[m])
        BY <3>4, <4>3, <4>4, Growing, Zenon
      <4> QED
        BY <4>5 DEF IsThere
    <3> QED
      BY <3>2, <3>3, <3>5
  <2> QED
    BY <2>4, <2>5
<1>9. S \in SUBSET Nat
  OBVIOUS
<1> HIDE DEF S
<1>10. Nat \subseteq S
  BY <1>7, <1>8, <1>9, Induction
<1>11. ASSUME NEW k \in 1..K PROVE \E i \in 0..N : Got(after[k], frames, rest, M, Len(total[k]), i)
  <2>1. CASE ~after[k].failed
    BY <1>4, <2>1
  <2>2. CASE after[k].failed
    <3>1. k \in Nat /\ k <= K
      BY <1>15
    <3>2. There(k)
      BY <1>10, <3>1 DEF S
    <3> QED
      BY <2>2, <3>2 DEF Got
  <2> QED
    BY <2>1, <2>2
<1> QED
  BY <1>5, <1>6, <1>11

(***************************************************************************)
(* The stream as it is put together, frame by frame or chunk by chunk.     *)
(***************************************************************************)
LEMMA FlatAgree ==
  ASSUME NEW S, NEW N \in Nat, NEW i \in 0..N, NEW f, NEW g, NEW s, NEW t,
         FlatRun(f, S, s, N), FlatRun(g, S, t, i), \A k \in 1..i : t[k] = s[k]
  PROVE  g[i] = f[i]
<1> DEFINE T == {k \in Nat : k <= i => g[k] = f[k]}
<1>1. /\ f[0] = <<>> /\ \A k \in 1..N : f[k] = f[k - 1] \o s[k]
      /\ g[0] = <<>> /\ \A k \in 1..i : g[k] = g[k - 1] \o t[k]
  BY DEF FlatRun
<1>2. 0 \in T
  BY <1>1
<1>3. ASSUME NEW k \in T PROVE k + 1 \in T
  <2>1. SUFFICES ASSUME k + 1 <= i PROVE g[k + 1] = f[k + 1]
    OBVIOUS
  <2> DEFINE m == k + 1
  <2>2. m \in 1..i /\ m \in 1..N /\ m - 1 = k /\ g[k] = f[k]
    BY <2>1
  <2> HIDE DEF m, T
  <2>3. g[m] = g[k] \o t[m] /\ f[m] = f[k] \o s[m] /\ t[m] = s[m]
    BY <1>1, <2>2
  <2> QED
    BY <2>2, <2>3 DEF m
<1>4. T \in SUBSET Nat
  OBVIOUS
<1> HIDE DEF T
<1>5. Nat \subseteq T
  BY <1>2, <1>3, <1>4, Induction
<1>6. i \in Nat /\ i <= i
  OBVIOUS
<1> QED
  BY <1>5, <1>6 DEF T

(* The first parts together, as far as the whole had come by then.         *)
LEMMA FlatPrefix ==
  ASSUME NEW S, NEW N \in Nat, NEW i \in 1..N, NEW f, NEW s, NEW t,
         FlatRun(f, S, s, N), Len(t) = i, \A k \in 1..i : t[k] = s[k],
         \A k \in 1..N : s[k] \in Seq(S)
  PROVE  FlattenSeq(t) = f[i]
<1>1. i \in Nat \ {0} /\ i \in 0..N /\ \A k \in 1..i : k \in 1..N
  OBVIOUS
<1>2. \A k \in 1..i : t[k] \in Seq(S)
  BY <1>1
<1>3. PICK g : FlatRun(g, S, t, i)
  BY <1>1, <1>2, FlatGoes, Zenon
<1>4. g[i] = f[i]
  BY <1>1, <1>3, FlatAgree
<1> QED
  BY <1>3, <1>4, Zenon DEF FlatRun

(* What is still to come.                                                  *)
LEMMA StillToCome ==
  ASSUME NEW N \in Nat, NEW f, NEW s, FlatRun(f, Byte, s, N), \A k \in 1..N : s[k] \in Seq(Byte)
  PROVE  \A i \in 0..N : \E y \in Seq(Byte) : f[i] \o y = f[N]
<1> DEFINE T == {k \in Nat : k <= N => \E y \in Seq(Byte) : f[N - k] \o y = f[N]}
<1>1. /\ \A k \in 1..N : f[k] = f[k - 1] \o s[k]
      /\ \A k \in 0..N : f[k] \in Seq(Byte)
  BY DEF FlatRun
<1>2. 0 \in T
  <2>1. N - 0 = N /\ N \in 0..N /\ <<>> \in Seq(Byte)
    OBVIOUS
  <2>2. f[N] \o <<>> = f[N]
    BY <1>1, <2>1, NothingBefore
  <2> QED
    BY <2>1, <2>2
<1>3. ASSUME NEW k \in T PROVE k + 1 \in T
  <2>1. SUFFICES ASSUME k + 1 <= N PROVE \E y \in Seq(Byte) : f[N - (k + 1)] \o y = f[N]
    OBVIOUS
  <2> DEFINE m == N - k
             a == f[m - 1]
             b == s[m]
  <2>2. k \in Nat /\ k <= N /\ m \in 1..N /\ m - 1 = N - (k + 1) /\ m - 1 \in 0..N
    BY <2>1
  <2>3. PICK y \in Seq(Byte) : f[m] \o y = f[N]
    BY <2>2
  <2> HIDE DEF m, T
  <2>4. f[m] = a \o b /\ a \in Seq(Byte) /\ b \in Seq(Byte)
    BY <1>1, <2>2
  <2> HIDE DEF a, b
  <2>5. (a \o b) \o y = a \o (b \o y)
    BY <2>4, Regrouped
  <2>6. b \o y \in Seq(Byte)
    BY <2>4, Joined
  <2>7. a \o (b \o y) = f[N]
    BY <2>3, <2>4, <2>5
  <2>8. f[N - (k + 1)] = a
    BY <2>2 DEF a
  <2> QED
    BY <2>6, <2>7, <2>8
<1>4. T \in SUBSET Nat
  OBVIOUS
<1> HIDE DEF T
<1>5. Nat \subseteq T
  BY <1>2, <1>3, <1>4, Induction
<1>6. SUFFICES ASSUME NEW i \in 0..N PROVE \E y \in Seq(Byte) : f[i] \o y = f[N]
  OBVIOUS
<1>7. N - i \in Nat /\ N - i <= N /\ N - (N - i) = i
  OBVIOUS
<1> QED
  BY <1>5, <1>7 DEF T

LEMMA RestIs ==
  ASSUME NEW a \in Seq(Byte), NEW y \in Seq(Byte)
  PROVE  SubSeq(a \o y, Len(a) + 1, Len(a \o y)) = y
<1>1. Len(a) \in Nat /\ Len(a) <= Len(a)
  BY Joined
<1>2. SubSeq(a \o y, Len(a) + 1, Len(a \o y)) = SubSeq(a, Len(a) + 1, Len(a)) \o y
  BY <1>1, RestOfLonger
<1>3. SubSeq(a, Len(a) + 1, Len(a)) = <<>>
  BY <1>1
<1> QED
  BY <1>2, <1>3, NothingBefore

\* What comes after i parts.
RestOf(f, N, i) == SubSeq(f[N], Len(f[i]) + 1, Len(f[N]))

RestsAre(f, s, N) ==
    /\ \A i \in 0..N : RestOf(f, N, i) \in Seq(Byte) /\ f[i] \o RestOf(f, N, i) = f[N]
    /\ RestOf(f, N, 0) = f[N] /\ RestOf(f, N, N) = <<>>
    /\ \A i \in 1..N : RestOf(f, N, i - 1) = s[i] \o RestOf(f, N, i)

LEMMA Rests ==
  ASSUME NEW N \in Nat, NEW f, NEW s, FlatRun(f, Byte, s, N), \A k \in 1..N : s[k] \in Seq(Byte)
  PROVE  RestsAre(f, s, N)
<1>1. /\ f[0] = <<>> /\ \A k \in 1..N : f[k] = f[k - 1] \o s[k]
      /\ \A k \in 0..N : f[k] \in Seq(Byte)
  BY DEF FlatRun
<1>2. ASSUME NEW i \in 0..N, NEW y \in Seq(Byte), f[i] \o y = f[N] PROVE RestOf(f, N, i) = y
  <2> DEFINE a == f[i]
  <2>1. a \in Seq(Byte)
    BY <1>1
  <2> HIDE DEF a
  <2>2. SubSeq(a \o y, Len(a) + 1, Len(a \o y)) = y
    BY <2>1, RestIs
  <2>3. f[N] = a \o y
    BY <1>2 DEF a
  <2> QED
    BY <2>2, <2>3, Zenon DEF RestOf, a
<1>3. ASSUME NEW i \in 0..N PROVE RestOf(f, N, i) \in Seq(Byte) /\ f[i] \o RestOf(f, N, i) = f[N]
  <2>1. PICK y \in Seq(Byte) : f[i] \o y = f[N]
    BY StillToCome
  <2> QED
    BY <1>2, <2>1
<1>4. RestOf(f, N, 0) = f[N]
  <2>1. 0 \in 0..N /\ N \in 0..N
    OBVIOUS
  <2>2. f[N] \in Seq(Byte)
    BY <1>1, <2>1
  <2>3. f[0] \o f[N] = f[N]
    BY <1>1, <2>2, NothingBefore
  <2> QED
    BY <1>2, <2>1, <2>2, <2>3
<1>5. RestOf(f, N, N) = <<>>
  <2>1. N \in 0..N /\ <<>> \in Seq(Byte)
    OBVIOUS
  <2>2. f[N] \o <<>> = f[N]
    BY <1>1, <2>1, NothingBefore
  <2> QED
    BY <1>2, <2>1, <2>2
<1>6. ASSUME NEW i \in 1..N PROVE RestOf(f, N, i - 1) = s[i] \o RestOf(f, N, i)
  <2> DEFINE a == f[i - 1]
             b == s[i]
             y == RestOf(f, N, i)
  <2>1. i \in 0..N /\ i - 1 \in 0..N
    OBVIOUS
  <2>2. a \in Seq(Byte) /\ b \in Seq(Byte) /\ y \in Seq(Byte) /\ f[i] \o y = f[N] /\ f[i] = a \o b
    BY <1>1, <1>3, <2>1
  <2> HIDE DEF a, b, y
  <2>3. (a \o b) \o y = a \o (b \o y) /\ b \o y \in Seq(Byte)
    <3>1. a \in Seq(Byte) /\ b \in Seq(Byte) /\ y \in Seq(Byte)
      BY <2>2, Zenon
    <3>2. (a \o b) \o y = a \o (b \o y)
      BY <3>1, Regrouped, Zenon
    <3>3. b \o y \in Seq(Byte)
      BY <3>1, Joined, Zenon
    <3> QED
      BY <3>2, <3>3, Zenon
  <2>4. a \o (b \o y) = f[N]
    BY <2>2, <2>3
  <2>5. f[i - 1] \o (b \o y) = f[N]
    BY <2>4 DEF a
  <2>6. RestOf(f, N, i - 1) = b \o y
    BY <1>2, <2>1, <2>3, <2>5
  <2> QED
    BY <2>6 DEF b, y
<1> QED
  BY <1>3, <1>4, <1>5, <1>6 DEF RestsAre

(***************************************************************************)
(* What a frame is to a reader: WellFormed says whether it is to return it *)
(* (module Algorithms), WellFramed and BadlyFramed that it does or not.    *)
(***************************************************************************)
LEMMA LastLength ==
  ASSUME NEW h \in Seq(Byte), Lengths(h) # {}
  PROVE  /\ Max(Lengths(h)) \in Lengths(h) /\ \A k \in Lengths(h) : k <= Max(Lengths(h))
         /\ Lengths(h) \in SUBSET (1..Len(h)) /\ IsFiniteSet(Lengths(h)) /\ Len(h) \in Nat
<1>1. Len(h) \in Nat /\ DOMAIN h = 1..Len(h)
  BY Elements
<1>2. Lengths(h) \in SUBSET (1..Len(h))
  BY <1>1 DEF Lengths
<1> DEFINE T == Lengths(h)
<1>3. T \in SUBSET Nat /\ T # {} /\ \A k \in T : k <= Len(h)
  BY <1>1, <1>2
<1>4. IsFiniteSet(T)
  <2>1. 1 \in Int /\ Len(h) \in Int
    BY <1>1
  <2>2. IsFiniteSet(1..Len(h))
    BY <2>1, FS_Interval
  <2> QED
    BY <1>2, <2>2, FS_Subset
<1> HIDE DEF T
<1>5. Max(T) \in T /\ \A k \in T : Max(T) >= k
  BY <1>1, <1>3, MaxIs
<1>6. \A k \in T : k <= Max(T)
  BY <1>3, <1>5
<1> QED
  BY <1>1, <1>2, <1>4, <1>5, <1>6 DEF T

LEMMA OneLength ==
  ASSUME NEW T, IsFiniteSet(T), NEW i \in T
  PROVE  ~(Cardinality(T) > 1) <=> \A j \in T : j = i
<1>1. ASSUME \A j \in T : j = i PROVE ~(Cardinality(T) > 1)
  <2>1. T = {i}
    BY <1>1
  <2>2. Cardinality({i}) = 1
    BY FS_Singleton
  <2> QED
    BY <2>1, <2>2
<1>2. ASSUME NEW j \in T, j # i PROVE Cardinality(T) > 1
  <2>1. IsFiniteSet({i}) /\ Cardinality({i}) = 1 /\ j \notin {i}
    BY <1>2, FS_Singleton
  <2>2. Cardinality({i} \cup {j}) = Cardinality({i}) + 1
    BY <2>1, FS_AddElement
  <2>3. {i} \cup {j} \subseteq T
    OBVIOUS
  <2>4. Cardinality({i} \cup {j}) <= Cardinality(T) /\ Cardinality(T) \in Nat
    BY <2>3, FS_Subset, FS_CardinalityType
  <2> QED
    BY <2>1, <2>2, <2>4
<1> QED
  BY <1>1, <1>2

LEMMA WellFormedIs ==
  ASSUME NEW reader \in Readers, NEW f \in Framed, IsFrame(f), WellFormed(reader, f)
  PROVE  WellFramed(reader, f) /\ HasRoom(reader, f)
<1> DEFINE h == f.header
           T == Lengths(h)
<1>0. MaxMessage \in Nat /\ MaxHeader \in Nat /\ h \in Seq(Byte)
  BY StreamAssumption, FrameTypes
<1>1. PICK i \in DOMAIN h :
         /\ h[i] \in DOMAIN Declared /\ Declared[h[i]] = Len(f.body)
         /\ Len(f.body) <= MaxMessage /\ (reader = "host" => Len(h) <= MaxHeader)
         /\ \A j \in DOMAIN h :
               /\ h[j] # "bad"
               /\ h[j] \in DOMAIN Declared => j = i \/ (reader = "bridge" /\ j < i)
  BY DEF WellFormed
<1>2. i \in T /\ \A j \in T : j \in DOMAIN h /\ (j = i \/ (reader = "bridge" /\ j < i))
  BY <1>1 DEF Lengths
<1>3. /\ Max(T) \in T /\ \A k \in T : k <= Max(T)
      /\ T \in SUBSET (1..Len(h)) /\ IsFiniteSet(T) /\ Len(h) \in Nat
  <2>1. T # {}
    BY <1>2
  <2> QED
    BY <1>0, <2>1, LastLength
<1> HIDE DEF T
<1>4. Max(T) = i
  <2> DEFINE m == Max(T)
  <2>1. m \in Nat /\ i \in Nat /\ i <= m /\ (m = i \/ m < i)
    BY <1>2, <1>3
  <2> HIDE DEF m
  <2>2. m = i
    BY <2>1
  <2> QED
    BY <2>2 DEF m
<1>5. DeclaredLength(h) = Len(f.body)
  BY <1>1, <1>4 DEF DeclaredLength, T
<1>6. ~(reader = "host" /\ (Cardinality(T) > 1 \/ Len(h) > MaxHeader))
  <2>1. SUFFICES ASSUME reader = "host" PROVE ~(Cardinality(T) > 1) /\ ~(Len(h) > MaxHeader)
    OBVIOUS
  <2>2. \A j \in T : j = i
    BY <1>2, <2>1
  <2>3. ~(Cardinality(T) > 1)
    BY <1>2, <1>3, <2>2, OneLength
  <2>4. Len(h) <= MaxHeader
    BY <1>1, <2>1
  <2> QED
    BY <1>0, <1>3, <2>3, <2>4
<1>7. ~(DeclaredLength(h) > MaxMessage)
  <2>1. Len(f.body) \in Nat
    BY FrameTypes
  <2> QED
    BY <1>0, <1>1, <1>5, <2>1
<1>8. ~Refuses(reader, h)
  BY <1>1, <1>2, <1>6, <1>7 DEF Refuses, T
<1>9. Delimiters(h \o Delimiter) = {Len(h)} /\ (Len(h) <= MaxHeader => Len(h) + 3 <= MaxHeader)
  BY DEF IsFrame
<1> QED
  BY <1>1, <1>5, <1>8, <1>9 DEF WellFramed, HasRoom

LEMMA IllFormedIs ==
  ASSUME NEW reader \in Readers, NEW f \in Framed, IsFrame(f), ~WellFormed(reader, f)
  PROVE  BadlyFramed(reader, f)
<1> DEFINE h == f.header
           T == Lengths(h)
           m == Max(T)
<1>0. MaxMessage \in Nat /\ MaxHeader \in Nat /\ h \in Seq(Byte)
  BY StreamAssumption, FrameTypes
<1>1. Delimiters(h \o Delimiter) = {Len(h)}
  BY DEF IsFrame
<1>2. SUFFICES ASSUME ~Refuses(reader, h) PROVE FALSE
  BY <1>1 DEF BadlyFramed
<1>3. /\ T # {} /\ \A i \in DOMAIN h : h[i] # "bad"
      /\ reader = "host" => ~(Cardinality(T) > 1) /\ ~(Len(h) > MaxHeader)
      /\ ~(DeclaredLength(h) > MaxMessage)
  BY <1>2 DEF Refuses
<1>4. /\ m \in T /\ \A k \in T : k <= m
      /\ T \in SUBSET (1..Len(h)) /\ IsFiniteSet(T) /\ Len(h) \in Nat
  BY <1>0, <1>3, LastLength
<1>5. DeclaredLength(h) \in Nat /\ DeclaredLength(h) = Declared[h[m]]
  <2>1. DeclaredLength(h) \in Nat
    BY <1>0, <1>2, LengthIsDeclared
  <2> QED
    BY <2>1 DEF DeclaredLength
<1>6. m \in DOMAIN h /\ h[m] \in DOMAIN Declared
  BY <1>3, <1>4 DEF Lengths
<1>7. \A j \in DOMAIN h : h[j] \in DOMAIN Declared => j \in T
  BY DEF Lengths
<1> HIDE DEF T, m
<1>8. Declared[h[m]] = Len(f.body)
  <2>1. /\ Declared[h[m]] = Len(f.body) \/ Declared[h[m]] > MaxMessage
        \/ \E j \in DOMAIN h : j > m /\ h[j] \in DOMAIN Declared
    BY <1>6 DEF IsFrame
  <2>2. ~\E j \in DOMAIN h : j > m /\ h[j] \in DOMAIN Declared
    <3>1. \A j \in T : j \in Nat /\ j <= m
      BY <1>4
    <3>2. \A j \in T : ~(j > m)
      BY <1>4, <3>1
    <3> QED
      BY <1>7, <3>2
  <2> QED
    BY <1>3, <1>5, <2>1, <2>2
<1>9. Len(f.body) <= MaxMessage
  BY <1>0, <1>3, <1>5, <1>8
<1>10. reader = "host" => Len(h) <= MaxHeader
  BY <1>0, <1>3, <1>4
<1>11. \A j \in DOMAIN h : h[j] \in DOMAIN Declared => j = m \/ (reader = "bridge" /\ j < m)
  <2>1. SUFFICES ASSUME NEW j \in T PROVE j = m \/ (reader = "bridge" /\ j < m)
    BY <1>7
  <2>2. CASE reader = "host"
    BY <1>3, <1>4, <2>2, OneLength
  <2>3. CASE reader = "bridge"
    <3>1. j \in Nat /\ m \in Nat /\ j <= m
      BY <1>4
    <3> QED
      BY <2>3, <3>1
  <2> QED
    BY <2>2, <2>3 DEF Readers
<1> QED
  BY <1>3, <1>6, <1>8, <1>9, <1>10, <1>11, Zenon DEF WellFormed

(* A stream, as the lemmas above see it: its first N frames are good, and  *)
(* the next, if there is one, is the first bad one.                        *)
GoodUpTo(reader, frames, M, N) ==
    /\ N < M <=> \E i \in 1..M : ~WellFormed(reader, frames[i])
    /\ \A i \in 1..M : ~WellFormed(reader, frames[i]) => N < i

LEMMA FlowOfStream ==
  ASSUME NEW reader \in Readers, NEW frames \in Streams, NEW M, NEW f, NEW s, NEW rest,
         M = Len(frames), FlatRun(f, Byte, s, M), \A i \in 1..M : s[i] = BytesOf(frames[i]),
         rest = [i \in 0..M |-> RestOf(f, M, i)]
  PROVE  \E N : Flow(reader, frames, rest, M, N) /\ GoodUpTo(reader, frames, M, N)
<1> DEFINE bad == {i \in 1..M : ~WellFormed(reader, frames[i])}
<1>1. frames \in Seq(Framed) /\ \A i \in 1..M : frames[i] \in Framed /\ IsFrame(frames[i])
  <2>1. frames \in Seq(Framed) /\ \A i \in DOMAIN frames : IsFrame(frames[i])
    BY StreamAssumption DEF Framed, Message
  <2> QED
    BY <2>1
<1>2. M \in Nat
  BY <1>1
<1>3. \A i \in 1..M : s[i] \in Seq(Byte)
  BY <1>1, FrameTypes
<1>4. /\ \A i \in 0..M : RestOf(f, M, i) \in Seq(Byte)
      /\ RestOf(f, M, M) = <<>>
      /\ \A i \in 1..M : RestOf(f, M, i - 1) = s[i] \o RestOf(f, M, i)
  <2>1. FlatRun(f, Byte, s, M)
    OBVIOUS
  <2>2. RestsAre(f, s, M)
    BY <1>2, <1>3, <2>1, Rests
  <2> QED
    BY <2>2, Zenon DEF RestsAre
<1>5. \A i \in 0..M : rest[i] = RestOf(f, M, i)
  OBVIOUS
<1>6. \A i \in 1..M : i \in 0..M /\ i - 1 \in 0..M
  BY <1>2
<1>7. /\ \A i \in 0..M : rest[i] \in Seq(Byte)
      /\ rest[M] = <<>>
      /\ \A i \in 1..M : frames[i] \in Framed /\ rest[i - 1] = BytesOf(frames[i]) \o rest[i]
  <2>1. M \in 0..M
    BY <1>2
  <2> QED
    BY <1>1, <1>4, <1>5, <1>6, <2>1
<1>8. \A i \in 1..M : IF i \in bad THEN BadlyFramed(reader, frames[i])
                      ELSE WellFramed(reader, frames[i]) /\ HasRoom(reader, frames[i])
  BY <1>1, WellFormedIs, IllFormedIs
<1>9. CASE bad = {}
  <2>1. Flow(reader, frames, rest, M, M)
    <3>1. \A i \in 1..M : i # M + 1
      BY <1>2
    <3>2. M \in 0..M
      BY <1>2
    <3> QED
      BY <1>2, <1>7, <1>8, <1>9, <3>1, <3>2 DEF Flow
  <2>2. ~(M < M)
    BY <1>2
  <2> QED
    BY <1>9, <2>1, <2>2 DEF GoodUpTo
<1>10. CASE bad # {}
  <2>1. PICK b \in bad : \A k \in bad : b <= k
    <3>1. bad \in SUBSET Nat
      OBVIOUS
    <3> HIDE DEF bad
    <3> QED
      BY <1>10, <3>1, LeastNatural
  <2> DEFINE N == b - 1
  <2>2. b \in 1..M /\ N \in 0..M /\ N < M /\ b = N + 1 /\ \A i \in 1..M : i = N + 1 => i = b
    BY <1>2
  <2>3. \A i \in 1..N : i \in 1..M /\ ~(b <= i)
    BY <1>2, <2>2
  <2>4. \A i \in 1..N : i \in 1..M /\ i \notin bad
    <3> HIDE DEF bad, N
    <3> QED
      BY <2>1, <2>3
  <2>5. \A i \in bad : N < i
    BY <2>1, <2>2
  <2> HIDE DEF N, bad
  <2>6. \A i \in 1..N : WellFramed(reader, frames[i]) /\ HasRoom(reader, frames[i])
    BY <1>8, <2>4
  <2>7. \A i \in 1..M : i = N + 1 => BadlyFramed(reader, frames[i])
    BY <1>8, <2>2
  <2>8. Flow(reader, frames, rest, M, N)
    BY <1>2, <1>7, <2>2, <2>6, <2>7 DEF Flow
  <2> QED
    BY <1>10, <2>2, <2>5, <2>8 DEF GoodUpTo, bad
<1> QED
  BY <1>9, <1>10

-----------------------------------------------------------------------------
(* A connection that gets the chunks, and what it is meant to return.      *)

\* As Receive computes it.
Pushes(start, chunks, h) ==
    [k \in 0..Len(chunks) |-> IF k = 0 THEN start ELSE Push(h[k - 1], chunks[k])]
AfterEach(start, chunks) == CHOOSE h : h = Pushes(start, chunks, h)

LEMMA PushesExist ==
  ASSUME NEW start \in Connection, NEW chunks \in Seq(Seq(Byte))
  PROVE  LET after == AfterEach(start, chunks)
         IN  /\ after \in [0..Len(chunks) -> Connection] /\ after[0] = start
             /\ \A k \in 1..Len(chunks) : after[k] = Push(after[k - 1], chunks[k])
<1> DEFINE K == Len(chunks)
           A == Connection
           F == [x \in A \X (1..K) |-> Push(x[1], chunks[x[2]])]
           after == AfterEach(start, chunks)
<1>1. K \in Nat /\ \A k \in 1..K : chunks[k] \in Seq(Byte)
  BY Elements, Zenon
<1>2. \A a \in A, k \in 1..K : F[<<a, k>>] = Push(a, chunks[k])
  OBVIOUS
<1> HIDE DEF F, K
<1>3. \A a \in A, k \in 1..K : F[<<a, k>>] \in A
  BY <1>1, <1>2, PushTypes
<1> HIDE DEF A
<1>4. start \in A
  BY DEF A
<1>5. PICK t \in [SUBSET (1..K) -> A] : Table(t, K, start, F)
  BY <1>1, <1>3, <1>4, TablesExist
<1>6. PICK g \in [0..K -> A] : Goes(g, K, start, F)
  BY <1>1, <1>3, <1>4, <1>5, TableGoes
<1>7. g = Pushes(start, chunks, g)
  <2>1. ASSUME NEW k \in 0..K PROVE g[k] = IF k = 0 THEN start ELSE Push(g[k - 1], chunks[k])
    <3>1. CASE k = 0
      BY <1>6, <3>1 DEF Goes
    <3>2. CASE k # 0
      <4>1. k \in 1..K /\ k - 1 \in 0..K
        BY <1>1, <3>2
      <4>2. g[k] = F[<<g[k - 1], k>>] /\ g[k - 1] \in A
        BY <1>6, <4>1 DEF Goes
      <4> QED
        BY <1>2, <3>2, <4>1, <4>2
    <3> QED
      BY <3>1, <3>2
  <2>2. g = [k \in 0..K |-> g[k]]
    OBVIOUS
  <2> QED
    BY <2>1, <2>2 DEF Pushes, K
<1>8. after = Pushes(start, chunks, after)
  BY <1>7, Zenon DEF AfterEach
<1> HIDE DEF after
<1>9. DOMAIN after = 0..K /\ after = [k \in 0..K |-> after[k]]
  BY <1>8 DEF Pushes, K
<1>10. \A k \in 0..K : after[k] = IF k = 0 THEN start ELSE Push(after[k - 1], chunks[k])
  BY <1>8 DEF Pushes, K
<1>11. after[0] = start /\ \A k \in 1..K : after[k] = Push(after[k - 1], chunks[k])
  <2>1. 0 \in 0..K /\ \A k \in 1..K : k \in 0..K /\ k # 0
    BY <1>1
  <2> QED
    BY <1>10, <2>1
<1> DEFINE S == {k \in Nat : k <= K => after[k] \in A}
<1>12. 0 \in S
  BY <1>4, <1>11
<1>13. ASSUME NEW k \in S PROVE k + 1 \in S
  <2> DEFINE m == k + 1
  <2>1. SUFFICES ASSUME m <= K PROVE after[m] \in A
    OBVIOUS
  <2>2. m \in 1..K /\ m - 1 = k /\ after[k] \in A
    BY <1>1, <2>1
  <2> HIDE DEF m, S
  <2>3. after[m] = Push(after[k], chunks[m]) /\ chunks[m] \in Seq(Byte)
    BY <1>1, <1>11, <2>2
  <2> QED
    BY <2>2, <2>3, PushTypes DEF A
<1>14. S \in SUBSET Nat
  OBVIOUS
<1> HIDE DEF S
<1>15. Nat \subseteq S
  BY <1>12, <1>13, <1>14, Induction
<1>16. \A k \in 0..K : after[k] \in A
  <2>1. \A k \in 0..K : k \in Nat /\ k <= K
    BY <1>1
  <2> QED
    BY <1>15, <2>1 DEF S
<1>17. after \in [0..K -> A]
  BY <1>9, <1>16
<1> QED
  BY <1>11, <1>17 DEF A, K, after

Bodies(frames, w) == [i \in 1..w |-> frames[i].body]

LEMMA BodiesAre ==
  ASSUME NEW frames, NEW M \in Nat, \A i \in 1..M : frames[i].body \in Message, NEW w \in 0..M
  PROVE  /\ Bodies(frames, w) \in Seq(Message) /\ Len(Bodies(frames, w)) = w
         /\ \A i \in 1..w : Bodies(frames, w)[i] = frames[i].body
<1>1. w \in Nat /\ \A i \in 1..w : i \in 1..M
  OBVIOUS
<1> QED
  BY <1>1 DEF Bodies

(* The first i bodies, of the frames that are there.                       *)
SomeBodies(o, frames, i, W) ==
    /\ IsPrefix(o, Bodies(frames, Cardinality(W)))
    /\ W \subseteq 1..i => o = Bodies(frames, Cardinality(W))

LEMMA BodiesThere ==
  ASSUME NEW frames, NEW M \in Nat, NEW i \in 0..M, NEW o \in Seq(Message),
         NEW W \in SUBSET (1..M), \A j \in 1..M : frames[j].body \in Message,
         Returned(o, frames, i), 1..i \subseteq W
  PROVE  SomeBodies(o, frames, i, W)
<1> DEFINE w == Cardinality(W)
           b == Bodies(frames, w)
<1>1. i \in Nat /\ Cardinality(1..i) = i /\ Cardinality(1..M) = M /\ IsFiniteSet(1..M)
  <2>1. i \in Nat /\ 1 \in Int /\ i \in Int /\ M \in Int
    OBVIOUS
  <2>2. Cardinality(1..i) = IF 1 > i THEN 0 ELSE i - 1 + 1
    BY <2>1, FS_Interval
  <2>3. Cardinality(1..M) = (IF 1 > M THEN 0 ELSE M - 1 + 1) /\ IsFiniteSet(1..M)
    BY <2>1, FS_Interval
  <2> QED
    BY <2>1, <2>2, <2>3
<1>2. w \in 0..M /\ i <= w
  <2>1. IsFiniteSet(W) /\ w <= Cardinality(1..M)
    BY <1>1, FS_Subset
  <2>2. w \in Nat
    BY <2>1, FS_CardinalityType
  <2>3. Cardinality(1..i) <= w
    BY <2>1, FS_Subset
  <2> HIDE DEF w
  <2> QED
    BY <1>1, <2>1, <2>2, <2>3
<1>3. b \in Seq(Message) /\ Len(b) = w /\ \A j \in 1..w : b[j] = frames[j].body
  BY <1>2, BodiesAre
<1>4. Len(o) = i /\ \A j \in 1..i : o[j] = frames[j].body
  BY DEF Returned
<1>5. ASSUME W \subseteq 1..i PROVE w = i
  <2>1. W = 1..i
    BY <1>5
  <2> QED
    BY <1>1, <2>1
<1> HIDE DEF b, w
<1>6. IsPrefix(o, b)
  <2>1. /\ SubSeq(o, 1, i) \in Seq(Message) /\ Len(SubSeq(o, 1, i)) = (IF 1 <= i THEN i - 1 + 1 ELSE 0)
        /\ \A j \in 1..(i - 1 + 1) : SubSeq(o, 1, i)[j] = o[1 + j - 1]
    <3>1. i <= Len(o)
      BY <1>1, <1>4
    <3> QED
      BY <1>1, <3>1, PartIs
  <2>2. /\ SubSeq(b, 1, i) \in Seq(Message) /\ Len(SubSeq(b, 1, i)) = (IF 1 <= i THEN i - 1 + 1 ELSE 0)
        /\ \A j \in 1..(i - 1 + 1) : SubSeq(b, 1, i)[j] = b[1 + j - 1]
    <3>1. i <= Len(b)
      BY <1>2, <1>3
    <3> QED
      BY <1>1, <1>3, <3>1, PartIs
  <2>3. \A j \in 1..i : j \in 1..(i - 1 + 1) /\ 1 + j - 1 = j /\ j \in 1..w
    BY <1>1, <1>2
  <2> DEFINE p == SubSeq(o, 1, i)
             q == SubSeq(b, 1, i)
  <2>4. \A j \in 1..i : p[j] = q[j]
    BY <1>3, <1>4, <2>1, <2>2, <2>3
  <2>5. p \in Seq(Message) /\ q \in Seq(Message) /\ Len(p) = i /\ Len(q) = i
    BY <1>1, <2>1, <2>2
  <2> HIDE DEF p, q
  <2>6. p = q
    BY <2>4, <2>5, SeqEqual
  <2> QED
    BY <1>2, <1>3, <1>4, <2>6 DEF IsPrefix, p, q
<1>7. ASSUME W \subseteq 1..i PROVE o = b
  <2>1. Len(o) = Len(b) /\ \A j \in 1..Len(o) : o[j] = b[j]
    BY <1>3, <1>4, <1>5, <1>7
  <2> QED
    BY <1>3, <2>1, SeqEqual
<1> QED
  BY <1>6, <1>7 DEF SomeBodies, b, w

\* A stream, and chunks it is cut into.
StreamOf(frames) == FlattenSeq([i \in DOMAIN frames |-> BytesOf(frames[i])])
IsCut(chunks, bytes) ==
    chunks \in Seq(Seq(Byte)) /\ Len(chunks) # 0 /\ FlattenSeq(chunks) = bytes

\* The bytes of the first i frames.
FirstOf(frames, i) == [j \in 1..i |-> BytesOf(frames[j])]
FirstBytes(frames, i) == FlattenSeq(FirstOf(frames, i))

\* The frames that are there whole after k chunks.
WholeBy(frames, chunks, k) ==
    {i \in DOMAIN frames : Len(FirstBytes(frames, i)) <= Len(FlattenSeq(SubSeq(chunks, 1, k)))}

\* FramesSurviveChunking, of one stream, cut and answer.
FramesMean(reader, frames, chunks, answer) ==
    LET bad == {i \in DOMAIN frames : ~WellFormed(reader, frames[i])}
        bodies(k) == Bodies(frames, Cardinality(WholeBy(frames, chunks, k)))
    IN \A k \in DOMAIN chunks :
          IF bad = {} THEN ~answer[k].failed /\ answer[k].frames = bodies(k)
          ELSE /\ IsPrefix(answer[k].frames, bodies(k))
               /\ \A i \in bad : Len(answer[k].frames) < i
               /\ k = Len(chunks) => answer[k].failed

\* A beginning of s.
Begins(t, s, i) == Len(t) = i /\ \A k \in 1..i : t[k] = s[k]
PartsOf(S, s, N) == \A k \in 1..N : s[k] \in Seq(S)
AreBytes(s, frames, N) == \A i \in 1..N : s[i] = BytesOf(frames[i])

LEMMA FlatBeginning ==
  ASSUME NEW S, NEW N, NEW i, NEW f, NEW s, NEW t, N \in Nat, i \in 1..N,
         FlatRun(f, S, s, N), Begins(t, s, i), PartsOf(S, s, N)
  PROVE  FlattenSeq(t) = f[i]
BY FlatPrefix DEF Begins, PartsOf

LEMMA FirstBytesAre ==
  ASSUME NEW frames, NEW M, NEW i, NEW f, NEW s, M \in Nat, i \in 1..M, FlatRun(f, Byte, s, M),
         AreBytes(s, frames, M), PartsOf(Byte, s, M)
  PROVE  FirstBytes(frames, i) = f[i]
<1> DEFINE t == FirstOf(frames, i)
<1>1. Len(t) = i /\ \A j \in 1..i : t[j] = BytesOf(frames[j]) /\ j \in 1..M
  BY DEF FirstOf
<1> HIDE DEF t
<1>2. Begins(t, s, i)
  BY <1>1 DEF Begins, AreBytes
<1>3. FlattenSeq(t) = f[i]
  BY <1>2, FlatBeginning, SMT
<1> QED
  BY <1>3 DEF t, FirstBytes

FirstAre(frames, f, M) == \A i \in 1..M : FirstBytes(frames, i) = f[i]

LEMMA AllFirstBytes ==
  ASSUME NEW frames, NEW M, NEW f, NEW s, M \in Nat, FlatRun(f, Byte, s, M),
         AreBytes(s, frames, M), PartsOf(Byte, s, M)
  PROVE  FirstAre(frames, f, M)
<1>1. \A i \in 1..M : FirstBytes(frames, i) = f[i]
  BY FirstBytesAre, SMT
<1> QED
  BY <1>1 DEF FirstAre

(* The lengths of what has come tell which frames are there.               *)
Together(frames, f, s, rest, M) ==
    /\ M \in Nat /\ M = Len(frames) /\ FlatRun(f, Byte, s, M)
    /\ \A i \in 1..M : s[i] = BytesOf(frames[i])
    /\ \A i \in 0..M : rest[i] = RestOf(f, M, i)

HasCome(W, rest, n, M) == W = {i \in 1..M : IsThere(rest, n, i)}

LEMMA WholeByIs ==
  ASSUME NEW frames, NEW M, NEW f, NEW s, NEW chunks, NEW g, NEW k, NEW rest,
         frames \in Seq(Framed), Together(frames, f, s, rest, M),
         chunks \in Seq(Seq(Byte)), FlatRun(g, Byte, chunks, Len(chunks)), k \in 1..Len(chunks)
  PROVE  HasCome(WholeBy(frames, chunks, k), rest, Len(g[k]), M)
<1> DEFINE K == Len(chunks)
<1>0. /\ M \in Nat /\ M = Len(frames) /\ FlatRun(f, Byte, s, M)
      /\ \A i \in 1..M : s[i] = BytesOf(frames[i])
      /\ \A i \in 0..M : rest[i] = RestOf(f, M, i)
  BY Zenon DEF Together
<1>1. /\ DOMAIN frames = 1..M /\ \A i \in 1..M : frames[i] \in Framed
      /\ K \in Nat /\ \A j \in 1..K : chunks[j] \in Seq(Byte)
  BY <1>0, Elements, Zenon
<1>2. \A i \in 1..M : s[i] \in Seq(Byte)
  BY <1>0, <1>1, FrameTypes
<1>3. Len(FlattenSeq(SubSeq(chunks, 1, k))) = Len(g[k])
  <2> DEFINE t == SubSeq(chunks, 1, k)
  <2>1. Len(t) = k /\ \A j \in 1..k : t[j] = chunks[j]
    <3>1. k \in Nat /\ k <= Len(chunks) /\ 1 \in Nat \ {0}
      BY <1>1
    <3>2. /\ Len(SubSeq(chunks, 1, k)) = (IF 1 <= k THEN k - 1 + 1 ELSE 0)
          /\ \A j \in 1..(k - 1 + 1) : SubSeq(chunks, 1, k)[j] = chunks[1 + j - 1]
      <4> HIDE DEF K, t
      <4> QED
        BY <3>1, PartIs
    <3>3. (IF 1 <= k THEN k - 1 + 1 ELSE 0) = k
          /\ \A j \in 1..k : j \in 1..(k - 1 + 1) /\ 1 + j - 1 = j
      BY <1>1
    <3> QED
      BY <3>2, <3>3
  <2> HIDE DEF t, K
  <2>2. K \in Nat /\ k \in 1..K /\ FlatRun(g, Byte, chunks, K)
    BY <1>1, Zenon DEF K
  <2>3. Begins(t, chunks, k) /\ PartsOf(Byte, chunks, K)
    BY <1>1, <2>1, Zenon DEF Begins, PartsOf
  <2>4. FlattenSeq(t) = g[k]
    BY <2>2, <2>3, FlatBeginning, SMT
  <2> QED
    BY <2>4 DEF t
<1>4. ASSUME NEW i \in 1..M
      PROVE  Len(FirstBytes(frames, i)) = Len(f[i])
  <2>1. PartsOf(Byte, s, M) /\ M \in Nat /\ FlatRun(f, Byte, s, M)
    BY <1>0, <1>2, Zenon DEF PartsOf
  <2>2. AreBytes(s, frames, M)
    BY <1>0, Zenon DEF AreBytes
  <2>3. FirstAre(frames, f, M)
    BY <2>1, <2>2, AllFirstBytes, Zenon
  <2>4. FirstBytes(frames, i) = f[i]
    BY <2>3 DEF FirstAre
  <2> QED
    BY <2>4, Zenon
<1>5. ASSUME NEW i \in 1..M PROVE Len(f[i]) <= Len(g[k]) <=> IsThere(rest, Len(g[k]), i)
  <2> DEFINE a == f[i]
             y == RestOf(f, M, i)
             n == Len(g[k])
  <2>1. i \in 0..M /\ 0 \in 0..M /\ k \in 0..K
    BY <1>0, <1>1
  <2>2. y \in Seq(Byte) /\ a \o y = f[M] /\ RestOf(f, M, 0) = f[M]
    BY <1>0, <1>2, <2>1, Rests DEF RestsAre
  <2>3. a \in Seq(Byte) /\ g[k] \in Seq(Byte)
    BY <1>0, <2>1 DEF FlatRun
  <2>4. rest[i] = y /\ rest[0] = a \o y
    BY <1>0, <2>1, <2>2
  <2>5. n \in Nat
    BY <2>3, Joined
  <2> HIDE DEF a, y, n, K
  <2>6. Len(a \o y) = Len(a) + Len(y) /\ Len(a) \in Nat /\ Len(y) \in Nat
    BY <2>2, <2>3, Joined
  <2>7. IsThere(rest, n, i) <=> Len(a) + Len(y) <= Len(y) + n
    BY <2>4, <2>6 DEF IsThere
  <2>8. IsThere(rest, n, i) <=> Len(a) <= n
    BY <2>5, <2>6, <2>7
  <2> QED
    BY <2>8 DEF a, n
<1> QED
  BY <1>1, <1>3, <1>4, <1>5 DEF WholeBy, HasCome

(* Whatever the frames and the cut: what a connection is to return is what *)
(* it returns.                                                             *)
LEMMA ReceivedMeans ==
  ASSUME NEW reader \in Readers, NEW frames \in Streams,
         NEW chunks, IsCut(chunks, StreamOf(frames)),
         NEW answer, \A k \in 1..Len(chunks) : answer[k] = AfterEach(Opened(reader), chunks)[k]
  PROVE  FramesMean(reader, frames, chunks, answer)
<1> DEFINE M == Len(frames)
           K == Len(chunks)
           s == [i \in DOMAIN frames |-> BytesOf(frames[i])]
           after == AfterEach(Opened(reader), chunks)
<1>1. frames \in Seq(Framed) /\ frames # <<>> /\ MaxHeader \in Nat
  BY StreamAssumption DEF Framed, Message
<1>2. /\ M \in Nat \ {0} /\ DOMAIN frames = 1..M
      /\ \A i \in 1..M : frames[i] \in Framed /\ frames[i].body \in Message
  <2>1. M \in Nat /\ DOMAIN frames = 1..M /\ \A i \in 1..M : frames[i] \in Framed
    BY <1>1, Elements, Zenon
  <2>2. M # 0
    BY <1>1, EmptySeq
  <2>3. \A i \in 1..M : frames[i].body \in Message
    BY <2>1 DEF Framed
  <2> QED
    BY <2>1, <2>2, <2>3
<1>3. Len(s) = M /\ \A i \in 1..M : s[i] = BytesOf(frames[i])
  BY <1>2
<1>4. chunks \in Seq(Seq(Byte)) /\ K # 0 /\ FlattenSeq(chunks) = FlattenSeq(s)
  BY Zenon DEF IsCut, StreamOf
<1>5. K \in Nat \ {0} /\ \A k \in 1..K : chunks[k] \in Seq(Byte)
  BY <1>4, Elements, Zenon
<1>6. DOMAIN chunks = 1..K
  BY <1>4, Elements, Zenon
<1> HIDE DEF s
<1>7. PICK f : FlatRun(f, Byte, s, M)
  <2>1. \A i \in 1..M : s[i] \in Seq(Byte)
    BY <1>2, <1>3, FrameTypes
  <2> HIDE DEF M
  <2> QED
    BY <1>2, <1>3, <2>1, FlatGoes
<1>8. PICK g : FlatRun(g, Byte, chunks, K)
  BY <1>5, FlatGoes
<1>9. f[M] = g[K]
  BY <1>4, <1>7, <1>8, Zenon DEF FlatRun
<1> DEFINE rest == [i \in 0..M |-> RestOf(f, M, i)]
           total == [k \in 0..K |-> g[k]]
<1>10. PICK N : Flow(reader, frames, rest, M, N) /\ GoodUpTo(reader, frames, M, N)
  <2>1. M = Len(frames) /\ rest = [i \in 0..M |-> RestOf(f, M, i)]
    BY Zenon
  <2> HIDE DEF M, rest
  <2> QED
    BY <1>3, <1>7, <2>1, FlowOfStream, Zenon
<1>11. \A i \in 0..M : rest[i] = RestOf(f, M, i)
  OBVIOUS
<1>12. \A k \in 0..K : total[k] = g[k]
  OBVIOUS
<1>13. /\ g[0] = <<>> /\ \A k \in 0..K : g[k] \in Seq(Byte)
       /\ \A k \in 1..K : g[k] = g[k - 1] \o chunks[k]
  BY <1>8, Zenon DEF FlatRun
<1>14. total \in [0..K -> Seq(Byte)]
  BY <1>13
<1> HIDE DEF rest, total, after, M, K
<1>15. Arriving(Opened(reader), chunks, total, after)
  <2>1. /\ after \in [0..K -> Connection] /\ after[0] = Opened(reader)
        /\ \A k \in 1..K : after[k] = Push(after[k - 1], chunks[k])
    <3>1. Opened(reader) \in Connection
      BY OpenedIs
    <3> QED
      BY <1>4, <3>1, PushesExist DEF after, K
  <2>2. 0 \in 0..K /\ \A k \in 1..K : k \in 0..K /\ k - 1 \in 0..K
    BY <1>5
  <2>3. total[0] = <<>> /\ \A k \in 1..K : total[k] = total[k - 1] \o chunks[k]
    BY <1>12, <1>13, <2>2
  <2> QED
    BY <1>4, <1>14, <2>1, <2>3, Zenon DEF Arriving, K
<1>16. rest[0] = f[M] /\ total[K] = rest[0]
  <2>1. 0 \in 0..M /\ K \in 0..K
    BY <1>2, <1>5
  <2>2. \A i \in 1..M : s[i] \in Seq(Byte)
    BY <1>2, <1>3, FrameTypes
  <2>3. RestOf(f, M, 0) = f[M]
    BY <1>2, <1>7, <2>2, Rests DEF RestsAre
  <2> QED
    BY <1>9, <1>11, <1>12, <2>1, <2>3
<1>17. \A k \in 1..K : \E z \in Seq(Byte) : total[k] \o z = rest[0]
  <2>1. \A k \in 0..K : \E z \in Seq(Byte) : g[k] \o z = g[K]
    BY <1>5, <1>8, StillToCome
  <2>2. \A k \in 1..K : k \in 0..K
    BY <1>5
  <2> QED
    BY <1>9, <1>12, <1>16, <2>1, <2>2
<1>18. \A k \in 1..K :
            /\ after[k].failed => N < M
            /\ k = K /\ N < M => after[k].failed
            /\ \E i \in 0..N : Got(after[k], frames, rest, M, Len(total[k]), i)
  BY <1>1, <1>10, <1>15, <1>16, <1>17, ConnectionGets DEF K
<1>19. ASSUME NEW k \in 1..K
       PROVE  LET o == after[k].frames
                  b == Bodies(frames, Cardinality(WholeBy(frames, chunks, k)))
              IN  /\ IsPrefix(o, b) /\ Len(o) \in 0..N
                  /\ ~after[k].failed => o = b
  <2> DEFINE W == WholeBy(frames, chunks, k)
             o == after[k].frames
             n == Len(total[k])
  <2>1. PICK i \in 0..N : Got(after[k], frames, rest, M, n, i)
    BY <1>18
  <2>2. k \in 0..K
    BY <1>5
  <2>3. W = {j \in 1..M : IsThere(rest, n, j)}
    <3>1. total[k] = g[k]
      BY <1>12, <2>2
    <3>2. W = {j \in 1..M : IsThere(rest, Len(g[k]), j)}
      <4>1. M \in Nat /\ M = Len(frames)
        BY <1>2, Zenon DEF M
      <4>2. FlatRun(g, Byte, chunks, Len(chunks)) /\ k \in 1..Len(chunks)
        BY <1>8, Zenon DEF K
      <4>3. HasCome(WholeBy(frames, chunks, k), rest, Len(g[k]), M)
        <5> HIDE DEF W, n
        <5>1. Together(frames, f, s, rest, M)
          BY <1>3, <1>7, <1>11, <4>1, Zenon DEF Together
        <5> QED
          BY <1>1, <1>4, <4>2, <5>1, WholeByIs, Zenon
      <4> QED
        BY <4>3 DEF HasCome, W
    <3> QED
      BY <3>1, <3>2
  <2>4. o \in Seq(Message)
    <3>1. after \in [0..K -> Connection]
      BY <1>15 DEF Arriving, K
    <3>2. after[k] \in Connection
      BY <2>2, <3>1
    <3> QED
      BY <3>2 DEF Connection
  <2>5. N \in 0..M /\ i \in 0..M /\ \A j \in 1..i : j \in 1..M
    <3>1. N \in 0..M
      BY <1>10 DEF Flow
    <3> QED
      BY <1>2, <3>1
  <2> HIDE DEF W, o, n
  <2>6. /\ Returned(o, frames, i) /\ \A j \in 1..i : IsThere(rest, n, j)
        /\ ~after[k].failed => \A j \in 1..M : IsThere(rest, n, j) => j <= i
    BY <2>1 DEF Got, o
  <2>7. W \in SUBSET (1..M) /\ 1..i \subseteq W
    BY <2>3, <2>5, <2>6
  <2>8. ~after[k].failed => W \subseteq 1..i
    <3>1. \A j \in 1..M : j <= i => j \in 1..i
      BY <1>2, <2>5
    <3> QED
      BY <2>3, <2>6, <3>1
  <2>9. /\ IsPrefix(o, Bodies(frames, Cardinality(W)))
        /\ W \subseteq 1..i => o = Bodies(frames, Cardinality(W))
    <3>1. M \in Nat /\ i \in 0..M
      BY <1>2, <2>5
    <3>2. (\A j \in 1..M : frames[j].body \in Message) /\ Returned(o, frames, i)
      BY <1>2, <2>6, Zenon
    <3>3. SomeBodies(o, frames, i, W)
      BY <2>4, <2>7, <3>1, <3>2, BodiesThere
    <3> QED
      BY <3>3, Zenon DEF SomeBodies
  <2>10. Len(o) \in 0..N
    BY <2>6 DEF Returned
  <2> QED
    BY <2>8, <2>9, <2>10, Zenon DEF o, W
<1>20. \A k \in 1..K : answer[k] = after[k]
  BY DEF after, K
<1> DEFINE bad == {i \in 1..M : ~WellFormed(reader, frames[i])}
<1>21. N \in Nat /\ M \in Nat
  BY <1>2, <1>10 DEF Flow
<1>22. ASSUME NEW k \in 1..K, bad = {}
       PROVE  ~answer[k].failed /\ answer[k].frames = Bodies(frames, Cardinality(WholeBy(frames, chunks, k)))
  <2>1. ~(N < M)
    BY <1>10, <1>22 DEF GoodUpTo
  <2>2. ~after[k].failed
    BY <1>18, <2>1
  <2> QED
    BY <1>19, <1>20, <2>2, Zenon
<1>23. ASSUME NEW k \in 1..K, bad # {}
       PROVE  /\ IsPrefix(answer[k].frames, Bodies(frames, Cardinality(WholeBy(frames, chunks, k))))
              /\ \A i \in bad : Len(answer[k].frames) < i
              /\ k = K => answer[k].failed
  <2>1. N < M
    BY <1>10, <1>23 DEF GoodUpTo
  <2>2. IsPrefix(answer[k].frames, Bodies(frames, Cardinality(WholeBy(frames, chunks, k))))
    BY <1>19, <1>20, Zenon
  <2>3. Len(after[k].frames) \in 0..N
    BY <1>19, Zenon
  <2>4. \A i \in bad : i \in Nat /\ N < i
    BY <1>2, <1>10 DEF GoodUpTo
  <2>5. answer[k] = after[k]
    BY <1>20
  <2> HIDE DEF bad
  <2>6. \A i \in bad : Len(answer[k].frames) < i
    <3> DEFINE l == Len(after[k].frames)
    <3>1. l \in 0..N
      BY <2>3
    <3> HIDE DEF l
    <3>2. \A i \in bad : l < i
      BY <1>21, <2>4, <3>1
    <3> QED
      BY <2>5, <3>2 DEF l
  <2>7. k = K => answer[k].failed
    BY <1>18, <2>1, <2>5
  <2> QED
    BY <2>2, <2>6, <2>7
<1> QED
  BY <1>2, <1>6, <1>22, <1>23, Zenon DEF FramesMean, K

(* The two ways FrameCall cuts a stream.                                   *)
LEMMA LastByte ==
  ASSUME NEW b \in Seq(Byte), NEW m \in 1..Len(b)
  PROVE  SubSeq(b, 1, m) = SubSeq(b, 1, m - 1) \o <<b[m]>>
  OBVIOUS

LEMMA SingleBytes ==
  ASSUME NEW b \in Seq(Byte), NEW n \in Nat \ {0}, n = Len(b)
  PROVE  IsCut([i \in 1..n |-> <<b[i]>>], b)
<1> DEFINE c == [i \in 1..n |-> <<b[i]>>]
<1>1. Len(c) = n /\ \A i \in 1..n : c[i] = <<b[i]>>
  OBVIOUS
<1>2. \A i \in 1..n : b[i] \in Byte
  BY Elements
<1>3. \A i \in 1..n : <<b[i]>> \in Seq(Byte)
  <2>1. SUFFICES ASSUME NEW x \in Byte PROVE <<x>> \in Seq(Byte)
    BY <1>2
  <2> QED
    OBVIOUS
<1>4. c \in Seq(Seq(Byte))
  BY <1>3
<1> HIDE DEF c
<1>5. \A i \in 1..n : c[i] \in Seq(Byte)
  BY <1>1, <1>3
<1>6. PICK g : FlatRun(g, Byte, c, n)
  BY <1>1, <1>5, FlatGoes
<1>7. /\ \A k \in 0..n : g[k] \in Seq(Byte)
      /\ g[0] = <<>> /\ \A k \in 1..n : g[k] = g[k - 1] \o c[k]
      /\ FlattenSeq(c) = g[n]
  BY <1>6, Zenon DEF FlatRun
<1> DEFINE T == {k \in Nat : k <= n => g[k] = SubSeq(b, 1, k)}
<1>8. 0 \in T
  <2>1. SubSeq(b, 1, 0) = <<>>
    OBVIOUS
  <2> QED
    BY <1>7, <2>1
<1>9. ASSUME NEW k \in T PROVE k + 1 \in T
  <2>1. SUFFICES ASSUME k + 1 <= n PROVE g[k + 1] = SubSeq(b, 1, k + 1)
    OBVIOUS
  <2> DEFINE m == k + 1
  <2>2. m \in 1..n /\ m - 1 = k /\ g[k] = SubSeq(b, 1, k)
    BY <2>1
  <2> HIDE DEF m, T
  <2>3. g[m] = g[k] \o <<b[m]>>
    BY <1>1, <1>7, <2>2
  <2>4. SubSeq(b, 1, m) = SubSeq(b, 1, k) \o <<b[m]>>
    BY <2>2, LastByte
  <2> QED
    BY <2>2, <2>3, <2>4, Zenon DEF m
<1>10. T \in SUBSET Nat
  OBVIOUS
<1> HIDE DEF T
<1>11. Nat \subseteq T
  BY <1>8, <1>9, <1>10, Induction
<1>12. g[n] = SubSeq(b, 1, n)
  <2>1. n \in Nat /\ n <= n
    OBVIOUS
  <2> QED
    BY <1>11, <2>1 DEF T
<1>13. SubSeq(b, 1, n) = b
  OBVIOUS
<1> QED
  BY <1>1, <1>4, <1>7, <1>12, <1>13 DEF IsCut, c

LEMMA ThreeTogether ==
  ASSUME NEW x \in Seq(Byte), NEW y \in Seq(Byte), NEW z \in Seq(Byte)
  PROVE  IsCut(<<x, y, z>>, x \o (y \o z))
<1> DEFINE c == <<x, y, z>>
<1>1. Len(c) = 3 /\ c[1] = x /\ c[2] = y /\ c[3] = z /\ c \in Seq(Seq(Byte))
  OBVIOUS
<1> HIDE DEF c
<1>2. PICK N \in Nat \ {0} : N = 3
  OBVIOUS
<1>3. PICK g : FlatRun(g, Byte, c, N)
  <2>1. \A k \in 1..N : c[k] \in Seq(Byte)
    BY <1>1, <1>2
  <2>2. Len(c) = N
    BY <1>1, <1>2
  <2> QED
    BY <2>1, <2>2, FlatGoes
<1>4. g[0] = <<>> /\ g[1] = g[0] \o x /\ g[2] = g[1] \o y /\ g[3] = g[2] \o z /\ FlattenSeq(c) = g[3]
  <2>1. /\ 1 \in 1..N /\ 2 \in 1..N /\ 3 \in 1..N
        /\ 1 - 1 = 0 /\ 2 - 1 = 1 /\ 3 - 1 = 2
    BY <1>2
  <2>2. /\ g[0] = <<>> /\ \A k \in 1..N : g[k] = g[k - 1] \o c[k]
        /\ FlattenSeq(c) = g[N]
    BY <1>3, Zenon DEF FlatRun
  <2>3. g[1] = g[0] \o c[1] /\ g[2] = g[1] \o c[2] /\ g[3] = g[2] \o c[3]
    BY <2>1, <2>2
  <2> QED
    BY <1>1, <1>2, <2>2, <2>3
<1>5. g[1] = x
  BY <1>4, NothingBefore
<1>6. (x \o y) \o z = x \o (y \o z)
  BY Regrouped, Zenon
<1>7. FlattenSeq(c) = x \o (y \o z)
  BY <1>4, <1>5, <1>6
<1>8. Len(c) # 0
  BY <1>1
<1> QED
  BY <1>1, <1>7, <1>8, Zenon DEF IsCut, c

LEMMA ThreePieces ==
  ASSUME NEW b \in Seq(Byte), NEW n \in Nat, n = Len(b), NEW i \in 1..n, NEW j \in i..n
  PROVE  IsCut(<<SubSeq(b, 1, i), SubSeq(b, i + 1, j), SubSeq(b, j + 1, n)>>, b)
<1> DEFINE x == SubSeq(b, 1, i)
           y == SubSeq(b, i + 1, j)
           z == SubSeq(b, j + 1, n)
           w == SubSeq(b, i + 1, n)
<1>1. /\ i \in Nat /\ j \in Nat /\ i <= n /\ j <= n /\ i <= j /\ i \in 0..n
      /\ i + 1 \in Nat \ {0} /\ j + 1 \in Nat \ {0} /\ (i + 1) - 1 <= j
  OBVIOUS
<1>2. x \in Seq(Byte) /\ w \in Seq(Byte) /\ b = x \o w
  BY <1>1, TwoParts
<1>3. y \in Seq(Byte) /\ z \in Seq(Byte)
  BY <1>1, PartIs
<1>4. y \o z = w
  BY <1>1, Adjacent
<1> HIDE DEF x, y, z, w
<1>5. x \in Seq(Byte) /\ y \in Seq(Byte) /\ z \in Seq(Byte)
  BY <1>2, <1>3, Zenon
<1>6. IsCut(<<x, y, z>>, x \o (y \o z))
  BY <1>5, ThreeTogether, Zenon
<1>7. x \o (y \o z) = b
  BY <1>2, <1>4, Zenon
<1> QED
  BY <1>6, <1>7, Zenon DEF x, y, z

(* A stream has bytes, at least those of a delimiter.                      *)
LEMMA StreamIs ==
  ASSUME NEW frames \in Streams
  PROVE  StreamOf(frames) \in Seq(Byte) /\ Len(StreamOf(frames)) \in Nat \ {0}
<1> DEFINE M == Len(frames)
           s == [i \in DOMAIN frames |-> BytesOf(frames[i])]
<1>1. frames \in Seq(Framed) /\ frames # <<>>
  BY StreamAssumption DEF Framed, Message
<1>2. M \in Nat \ {0} /\ DOMAIN frames = 1..M /\ \A i \in 1..M : frames[i] \in Framed
  <2>1. M \in Nat /\ DOMAIN frames = 1..M /\ \A i \in 1..M : frames[i] \in Framed
    BY <1>1, Elements, Zenon
  <2>2. M # 0
    BY <1>1, EmptySeq
  <2> QED
    BY <2>1, <2>2
<1>3. Len(s) = M /\ \A i \in 1..M : s[i] = BytesOf(frames[i])
  BY <1>2
<1> HIDE DEF s, M
<1>4. \A i \in 1..M : s[i] \in Seq(Byte)
  BY <1>2, <1>3, FrameTypes
<1>5. PICK f : FlatRun(f, Byte, s, M)
  BY <1>2, <1>3, <1>4, FlatGoes
<1>6. M \in 0..M /\ M - 1 \in 0..M /\ M \in 1..M
  BY <1>2
<1>7. /\ f[M] \in Seq(Byte) /\ f[M - 1] \in Seq(Byte) /\ f[M] = f[M - 1] \o s[M]
      /\ FlattenSeq(s) = f[M]
  BY <1>5, <1>6, Zenon DEF FlatRun
<1> DEFINE a == f[M - 1]
           b == s[M]
<1>8. b \in Seq(Byte) /\ Len(b) \in Nat /\ Len(b) # 0
  <2>1. /\ b = BytesOf(frames[M]) /\ frames[M] \in Framed
    BY <1>2, <1>3, <1>6
  <2> DEFINE h == Len(frames[M].header)
             l == Len(frames[M].body)
  <2>2. Len(BytesOf(frames[M])) = h + 4 + l /\ BytesOf(frames[M]) \in Seq(Byte)
    BY <2>1, FrameTypes
  <2>3. h \in Nat /\ l \in Nat
    BY <2>1, FrameTypes
  <2> HIDE DEF h, l, b
  <2>4. h + 4 + l \in Nat /\ h + 4 + l # 0
    BY <2>3
  <2> QED
    BY <2>1, <2>2, <2>4
<1> HIDE DEF a, b
<1>9. a \o b \in Seq(Byte) /\ Len(a \o b) = Len(a) + Len(b) /\ Len(a) \in Nat
  BY <1>7, <1>8, Joined DEF a
<1>10. StreamOf(frames) = a \o b
  BY <1>7, Zenon DEF StreamOf, a, b, s
<1> QED
  BY <1>8, <1>9, <1>10

-----------------------------------------------------------------------------
(* The call, and its answer.                                               *)

IsStream(reader, frames, chunks) ==
    reader \in Readers /\ frames \in Streams /\ IsCut(chunks, StreamOf(frames))

FramesInput ==
    input.of = "frames" => IsStream(input.reader, input.frames, input.chunks)

FramesKept ==
    Answered("frames") => FramesMean(input.reader, input.frames, input.chunks, TheAnswer)

FramesInv == FramesInput /\ FramesKept

LEMMA CallsAreStreams ==
  FrameCall => FramesInput
<1> SUFFICES ASSUME FrameCall PROVE IsStream(input.reader, input.frames, input.chunks)
  BY DEF FramesInput
<1> DEFINE call(r, f, c) == [of |-> "frames", reader |-> r, frames |-> f, chunks |-> c]
           single(b) == [i \in 1..Len(b) |-> <<b[i]>>]
           three(b, i, j) == <<SubSeq(b, 1, i), SubSeq(b, i + 1, j), SubSeq(b, j + 1, Len(b))>>
<1>1. PICK frames \in Streams, reader \in Readers :
         \/ input = call(reader, frames, single(StreamOf(frames)))
         \/ \E i \in 1..Len(StreamOf(frames)) : \E j \in i..Len(StreamOf(frames)) :
               input = call(reader, frames, three(StreamOf(frames), i, j))
  BY Zenon DEF FrameCall, StreamOf
<1> DEFINE b == StreamOf(frames)
<1>2. b \in Seq(Byte) /\ Len(b) \in Nat \ {0}
  BY StreamIs
<1> HIDE DEF b
<1>3. IsCut(single(b), b)
  BY <1>2, SingleBytes
<1>4. ASSUME NEW i \in 1..Len(b), NEW j \in i..Len(b) PROVE IsCut(three(b, i, j), b)
  BY <1>2, ThreePieces
<1>5. \E c : input = call(reader, frames, c) /\ IsCut(c, b)
  <2>1. CASE input = call(reader, frames, single(b))
    BY <1>3, <2>1, Zenon
  <2>2. CASE \E i \in 1..Len(b) : \E j \in i..Len(b) : input = call(reader, frames, three(b, i, j))
    BY <1>4, <2>2, Zenon
  <2> QED
    BY <1>1, <2>1, <2>2, Zenon DEF b
<1>6. PICK c : input = call(reader, frames, c) /\ IsCut(c, b)
  BY <1>5
<1>7. input.reader = reader /\ input.frames = frames /\ input.chunks = c
  BY <1>6
<1> QED
  BY <1>6, <1>7 DEF IsStream, b

LEMMA InitFrames ==
  Init => FramesInv
<1> SUFFICES ASSUME Init PROVE FramesInv
  OBVIOUS
<1>1. answers = <<>> /\ (DiffCall \/ FrameCall \/ BalanceCall \/ SemanticsCall \/ RenameCall \/ ExtractCall)
  BY DEF Init
<1>2. FramesKept
  BY <1>1 DEF FramesKept, Answered
<1>3. FramesInput
  <2>1. DiffCall => input.of # "frames"
    BY DEF DiffCall
  <2>2. FrameCall => FramesInput
    BY CallsAreStreams
  <2>3. BalanceCall => input.of # "frames"
    BY DEF BalanceCall
  <2>4. SemanticsCall => input.of # "frames"
    BY DEF SemanticsCall
  <2>5. RenameCall => input.of # "frames"
    BY DEF RenameCall
  <2>6. ExtractCall => input.of # "frames"
    BY DEF ExtractCall
  <2> QED
    BY <1>1, <2>1, <2>2, <2>3, <2>4, <2>5, <2>6 DEF FramesInput
<1> QED
  BY <1>2, <1>3 DEF FramesInv

(* What Receive answers is what the chunks make of a connection, each.     *)
Received(reader, chunks) ==
    LET after[k \in 0..Len(chunks)] ==
            IF k = 0 THEN Opened(reader) ELSE Push(after[k - 1], chunks[k])
    IN [k \in 1..Len(chunks) |-> after[k]]

LEMMA ReceivedIs ==
  ASSUME NEW reader, NEW chunks
  PROVE  \A k \in 1..Len(chunks) : Received(reader, chunks)[k] = AfterEach(Opened(reader), chunks)[k]
BY DEF Received, AfterEach, Pushes

LEMMA StepFrames ==
  FramesInv /\ [Next]_vars => FramesInv'
<1> SUFFICES ASSUME FramesInv, [Next]_vars PROVE FramesInv'
  OBVIOUS
<1>1. CASE Receive
  <2> DEFINE value == Received(input.reader, input.chunks)
  <2>1. input' = input /\ answers' = <<value>> /\ input.of = "frames"
    BY <1>1, AnswerIs DEF Receive, Received
  <2>2. IsStream(input.reader, input.frames, input.chunks)
    BY <2>1 DEF FramesInv, FramesInput
  <2>3. FramesMean(input.reader, input.frames, input.chunks, value)
    BY <2>2, ReceivedIs, ReceivedMeans DEF IsStream
  <2> HIDE DEF value
  <2>4. TheAnswer' = value
    BY <2>1 DEF TheAnswer
  <2>5. FramesKept'
    BY <2>1, <2>3, <2>4, Zenon DEF FramesKept
  <2>6. FramesInput'
    BY <2>1 DEF FramesInv, FramesInput
  <2> QED
    BY <2>5, <2>6 DEF FramesInv
<1>2. ASSUME NEW name, NEW value, Answer(name, value), name # "frames"
      PROVE  FramesInv'
  <2>1. input' = input /\ input.of # "frames"
    BY <1>2, AnswerIs
  <2> QED
    BY <2>1 DEF FramesInv, FramesInput, FramesKept, Answered
<1>3. CASE ApplyPatch
  BY <1>2, <1>3 DEF ApplyPatch
<1>4. CASE CheckBalance
  BY <1>2, <1>4 DEF CheckBalance
<1>5. CASE PrepareSymbols
  BY <1>2, <1>5 DEF PrepareSymbols
<1>6. CASE PlanAndApply
  BY <1>2, <1>6 DEF PlanAndApply
<1>7. CASE InferParameters
  BY <1>2, <1>7 DEF InferParameters
<1>8. CASE UNCHANGED vars
  BY <1>8 DEF vars, FramesInv, FramesInput, FramesKept, Answered, TheAnswer
<1> QED
  BY <1>1, <1>3, <1>4, <1>5, <1>6, <1>7, <1>8 DEF Next

(* A reader returns the bodies of the frames that are there whole, in      *)
(* order and however the stream is cut; of a stream with a bad frame, only *)
(* some of those before it, and then it fails: for every stream of frames  *)
(* of StreamAssumption (framing.ts:24, framing.mjs:9).                     *)
THEOREM StreamsSurviveChunking == Spec => []FramesSurviveChunking
<1>1. Init => FramesInv
  BY InitFrames
<1>2. FramesInv /\ [Next]_vars => FramesInv'
  BY StepFrames
<1>3. FramesInv => FramesSurviveChunking
  BY Zenon DEF FramesInv, FramesKept, FramesSurviveChunking, FramesMean, WholeBy, FirstBytes, FirstOf, Bodies
<1> QED
  BY <1>1, <1>2, <1>3, PTL DEF Spec
=============================================================================
