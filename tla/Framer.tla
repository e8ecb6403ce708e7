------------------------------- MODULE Framer -------------------------------
(***************************************************************************)
(* RTCMFramer: bytes arrive in chunks of any size, complete RTCM3 frames    *)
(* leave.  A frame is the preamble, six reserved bits and a ten bit length, *)
(* the payload and three bytes of CRC, which nobody checks.                *)
(*                                                                         *)
(* One action is one turn of Push's loop: a turn takes one of five ways and *)
(* either leaves the loop or shortens the buffer.                          *)
(***************************************************************************)
EXTENDS Integers, Sequences, SequencesExt

CONSTANTS
    Bytes,          \* the byte values the station sends
    MaxRead,        \* bound: bytes of one Conn.Read (4096 in ReadLoop)
    MaxStream       \* bound: bytes the station ever sends

ASSUME ByteAssumption == Bytes \subseteq 0 .. 255
ASSUME ReadAssumption == MaxRead \in Nat /\ MaxStream \in Nat

VARIABLES
    buf,            \* RTCMFramer.buf
    packets,        \* every packet Push ever returned, in order
    pc,             \* "idle" between two calls of Push, "loop" inside
    received        \* history: every byte Push was given

vars == <<buf, packets, pc, received>>

preamble  == 211
headerLen == 3
crcLen    == 3

\* The ten bit length: the reserved bits of the second byte are masked out.
payloadLen(b) == (b[2] % 4) * 256 + b[3]
frameLen(b) == headerLen + payloadLen(b) + crcLen

\* Index of the first preamble, 0 when there is none.
findPreamble(b) == SelectInSeq(b, LAMBDA x : x = preamble)

From(b, i) == SubSeq(b, i, Len(b))

Init ==
    /\ buf = <<>>
    /\ packets = <<>>
    /\ pc = "idle"
    /\ received = <<>>

\* Mutant: the bytes left over from the call before are forgotten.
PushAfresh(data) ==
    /\ pc = "idle"
    /\ Len(received) + Len(data) <= MaxStream
    /\ buf' = data
    /\ received' = received \o data
    /\ pc' = "loop"
    /\ UNCHANGED packets

\* Push is called with what Conn.Read returned.
Push(data) ==
    /\ pc = "idle"
    /\ Len(received) + Len(data) <= MaxStream
    /\ buf' = buf \o data
    /\ received' = received \o data
    /\ pc' = "loop"
    /\ UNCHANGED packets

\* Fewer bytes than a header: Push returns.
Short ==
    /\ pc = "loop"
    /\ Len(buf) < headerLen
    /\ pc' = "idle"
    /\ UNCHANGED <<buf, packets, received>>

\* Mutant: the buffer is searched for a preamble but not advanced to it.
ResyncStuck ==
    /\ pc = "loop"
    /\ Len(buf) >= headerLen
    /\ buf[1] # preamble
    /\ findPreamble(buf) # 0
    /\ UNCHANGED vars

\* Garbage in front of a preamble is dropped.
Resync ==
    /\ pc = "loop"
    /\ Len(buf) >= headerLen
    /\ buf[1] # preamble
    /\ findPreamble(buf) # 0
    /\ buf' = From(buf, findPreamble(buf))
    /\ UNCHANGED <<packets, pc, received>>

\* Mutant: garbage without a preamble is kept for the next call.
KeepGarbage ==
    /\ pc = "loop"
    /\ Len(buf) >= headerLen
    /\ buf[1] # preamble
    /\ findPreamble(buf) = 0
    /\ pc' = "idle"
    /\ UNCHANGED <<buf, packets, received>>

\* No preamble anywhere: everything is dropped and Push returns.
DropAll ==
    /\ pc = "loop"
    /\ Len(buf) >= headerLen
    /\ buf[1] # preamble
    /\ findPreamble(buf) = 0
    /\ buf' = <<>>
    /\ pc' = "idle"
    /\ UNCHANGED <<packets, received>>

\* The frame is not complete: Push returns.
Incomplete ==
    /\ pc = "loop"
    /\ Len(buf) >= headerLen
    /\ buf[1] = preamble
    /\ Len(buf) < frameLen(buf)
    /\ pc' = "idle"
    /\ UNCHANGED <<buf, packets, received>>

Emit ==
    /\ pc = "loop"
    /\ Len(buf) >= headerLen
    /\ buf[1] = preamble
    /\ Len(buf) >= frameLen(buf)
    /\ packets' = Append(packets, SubSeq(buf, 1, frameLen(buf)))
    /\ buf' = From(buf, frameLen(buf) + 1)
    /\ UNCHANGED <<pc, received>>

Turn == Short \/ Resync \/ DropAll \/ Incomplete \/ Emit

Next ==
    \/ \E n \in 1 .. MaxRead : \E data \in [1 .. n -> Bytes] : Push(data)
    \/ Turn

Spec == Init /\ [][Next]_vars

\* The loop runs on; the station need not send anything.
FairSpec == Spec /\ WF_vars(Turn)

-----------------------------------------------------------------------------

\* Between two reads the framer holds less than one frame, whatever a station
\* sends: an endless stream of garbage, or a length that lies, cannot make
\* the buffer of a source grow.
BufferBounded ==
    pc = "idle" =>
        \/ Len(buf) < headerLen
        \/ Len(buf) < frameLen(buf) /\ buf[1] = preamble

(***************************************************************************)
(* Framing without buffers and chunks: one look at a whole stream r from   *)
(* left to right.  A byte that is no preamble is passed over; a preamble   *)
(* whose header is there is followed by the end of its frame.              *)
(***************************************************************************)
Follows(r, j, i) ==
    \/ r[j] # preamble /\ i = j + 1
    \/ r[j] = preamble /\ j + 2 <= Len(r) /\ i = j + frameLen(From(r, j))

Looked(r) ==
    LET at[i \in 1 .. Len(r) + 1] == i = 1 \/ \E j \in 1 .. (i - 1) : Follows(r, j, i) /\ at[j]
    IN  at

FrameAt(r, i) == SubSeq(From(r, i), 1, frameLen(From(r, i)))

\* Where the complete frames of r start.
Starts(r) ==
    {i \in 1 .. Len(r) :
        /\ Looked(r)[i] /\ r[i] = preamble /\ i + 2 <= Len(r)
        /\ i - 1 + frameLen(From(r, i)) <= Len(r)}

\* How a station's bytes fall into TCP segments makes no difference: after
\* each Push the packets are the frames of the bytes received so far, in
\* order, all of them and no other.
ChunkingIrrelevant ==
    pc = "idle" =>
        LET starts == Starts(received)
        IN  \E a \in [1 .. Len(packets) -> starts] :
                /\ \A k \in 1 .. Len(packets) : packets[k] = FrameAt(received, a[k])
                /\ \A k \in 1 .. Len(packets) : \A j \in 1 .. (k - 1) : a[j] < a[k]
                /\ starts \subseteq {a[k] : k \in 1 .. Len(packets)}

\* Push returns, whatever it was given.
PushReturns == pc = "loop" ~> pc = "idle"
=============================================================================
