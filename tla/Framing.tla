------------------------------- MODULE Framing ------------------------------
(***************************************************************************)
(* The two readers of Content-Length frames: ContentLengthParser of        *)
(* bridge-client/src/framing.ts, on the connection to Emacs, and           *)
(* ContentLengthFramer of apps/linux-host/src/framing.mjs, in the native   *)
(* host.  Bytes come in chunks cut anywhere; both keep a buffer.           *)
(*                                                                         *)
(* A byte of a header is one of the strings of Declared (a whole           *)
(* Content-Length line), "bad" (a Content-Length that is no number) or     *)
(* "other" (a whole line of another name); the line ends are bytes of      *)
(* their own, so that a chunk may end inside one.  A byte of a body may be *)
(* any of them, or "x".                                                    *)
(***************************************************************************)
EXTENDS Naturals, Sequences, FiniteSets, FiniteSetsExt

CONSTANTS MaxMessage, MaxHeader

Declared == [len0 |-> 0, len1 |-> 1, len4 |-> 4, len9 |-> 9]
Byte == DOMAIN Declared \union {"bad", "other", "CR", "LF", "x"}
Message == Seq(Byte)
Delimiter == <<"CR", "LF", "CR", "LF">>

\* indexOf(CR LF CR LF): how many bytes come before it.
Delimiters(bytes) ==
    {i \in 0..(Len(bytes) - 4) : SubSeq(bytes, i + 1, i + 4) = Delimiter}

(* Mutant: the last delimiter there is.                                    *)
LastHeaderEnd(bytes) == CHOOSE i \in Delimiters(bytes) : \A j \in Delimiters(bytes) : i >= j

HeaderEnd(bytes) == CHOOSE i \in Delimiters(bytes) : \A j \in Delimiters(bytes) : i <= j

\* The lines that are a Content-Length, by their places; and the length that
\* a header declares, which is that of the last of them.
Lengths(header) == {i \in DOMAIN header : header[i] = "bad" \/ header[i] \in DOMAIN Declared}
DeclaredLength(header) == Declared[header[Max(Lengths(header))]]

\* The bridge's reader takes the last of several lengths, the host's refuses
\* them; the limits are inclusive.
Refuses(reader, header) ==
    \/ Lengths(header) = {} \/ \E i \in DOMAIN header : header[i] = "bad"
    \/ reader = "host" /\ (Cardinality(Lengths(header)) > 1 \/ Len(header) > MaxHeader)
    \/ DeclaredLength(header) > MaxMessage

Readers == {"bridge", "host"}
Reading == [reader : Readers, buffer : Seq(Byte), out : Seq(Message), failed : BOOLEAN]

Failing(r) ==
    IF Delimiters(r.buffer) = {} THEN r.reader = "host" /\ Len(r.buffer) > MaxHeader
    ELSE Refuses(r.reader, SubSeq(r.buffer, 1, HeaderEnd(r.buffer)))

BodyEnd(bytes) == HeaderEnd(bytes) + 4 + DeclaredLength(SubSeq(bytes, 1, HeaderEnd(bytes)))

\* A frame is there, with its last byte.
Complete(r) ==
    /\ Delimiters(r.buffer) # {} /\ ~Failing(r)
    /\ BodyEnd(r.buffer) <= Len(r.buffer)

\* One round of the loop of push: it takes a frame, throws, or stops the loop.
Round(r) ==
    IF r.failed THEN r
    ELSE IF Failing(r) THEN [r EXCEPT !.failed = TRUE]
    ELSE IF Complete(r)
    THEN [r EXCEPT !.out = Append(@, SubSeq(r.buffer, HeaderEnd(r.buffer) + 5, BodyEnd(r.buffer))),
                   !.buffer = SubSeq(@, BodyEnd(@) + 1, Len(@))]
    ELSE r

\* The loop: there are at most as many frames as bytes.
Take(r) ==
    LET after[n \in 0..Len(r.buffer) + 1] == IF n = 0 THEN r ELSE Round(after[n - 1])
    IN after[Len(r.buffer) + 1]

\* A connection gets a chunk.  When push throws, the frames it had read from
\* the same chunk are not returned, and the caller closes the connection.
Push(connection, chunk) ==
    LET r == Take([reader |-> connection.reader, buffer |-> connection.buffer \o chunk,
                   out |-> <<>>, failed |-> FALSE])
    IN IF connection.failed THEN connection
       ELSE [reader |-> connection.reader, buffer |-> r.buffer, failed |-> r.failed,
             frames |-> IF r.failed THEN connection.frames ELSE connection.frames \o r.out]

Opened(reader) == [reader |-> reader, buffer |-> <<>>, frames |-> <<>>, failed |-> FALSE]
=============================================================================
