---------------------------- MODULE FramerProofs ----------------------------
(***************************************************************************)
(* What RTCMFramer promises for any bytes, any stream and any split of it  *)
(* into reads: what it holds is bounded, and what it returns are the frames*)
(* of the stream.                                                          *)
(*                                                                         *)
(* The proof compares the loop of Push with the scan of the whole stream   *)
(* that Looked describes: the buffer always begins at a position that the  *)
(* scan looks at, and the preambles the scan has looked at before it are   *)
(* the packets.  Induction over the stream is written as the absence of a  *)
(* least counterexample (NatMin).                                          *)
(***************************************************************************)
EXTENDS Framer, SequenceTheorems, WellFoundedInduction, TLAPS

(***************************************************************************)
(* The inductive invariant.                                                *)
(***************************************************************************)
Typed ==
    /\ buf \in Seq(Bytes) /\ received \in Seq(Bytes)
    /\ packets \in Seq(Seq(Bytes))
    /\ pc \in {"idle", "loop"}

\* Packet k is the frame of r that starts at a[k] and ends among the first x
\* bytes.
IsFrame(r, i) == r[i] = preamble /\ i + 2 <= Len(r) /\ Looked(r)[i]
Placed(r, ps, x, a) ==
    \A k \in 1 .. Len(ps) :
        /\ IsFrame(r, a[k]) /\ ps[k] = FrameAt(r, a[k])
        /\ a[k] + frameLen(From(r, a[k])) <= x + 1
        /\ \A j \in 1 .. (k - 1) : a[j] < a[k]

\* No preamble the scan has looked at among the first x bytes is missing.
Complete(r, ps, x, a) ==
    \A i \in 1 .. x : Looked(r)[i] /\ r[i] = preamble =>
        \E k \in 1 .. Len(ps) : a[k] = i

\* The packets ps are what the scan finds in the first x bytes of r, and the
\* scan goes on behind them.
ParsedAt(r, ps, x) ==
    /\ Looked(r)[x + 1]
    /\ \E a \in [1 .. Len(ps) -> 1 .. Len(r)] : Placed(r, ps, x, a) /\ Complete(r, ps, x, a)

\* The buffer is the rest of what was received, and the scan of what has left
\* it has found the packets.
Synced(r, b, ps) == \E x \in 0 .. Len(r) : b = From(r, x + 1) /\ ParsedAt(r, ps, x)

IInv == Typed /\ Synced(received, buf, packets) /\ BufferBounded

\* 3 + 1023 + 3 bytes are the longest frame: what a source's framer holds
\* between two reads is less.
MaxFrame == 1029
HeldLessThanFrame == pc = "idle" => Len(buf) < MaxFrame

(***************************************************************************)
(* Numbers and sequences.                                                  *)
(***************************************************************************)
\* A set of natural numbers has a least element.
LEMMA NatMin ==
    ASSUME NEW T, T \subseteq Nat, T # {}
    PROVE  \E x \in T : \A y \in T : x <= y
<1>1. PICK x \in T : \A y \in T : ~(<<y, x>> \in OpToRel(<, Nat))
  BY NatLessThanWellFounded, WFMin
<1>2. ASSUME NEW y \in T, ~(x <= y) PROVE FALSE
  <2>1. x \in Nat /\ y \in Nat /\ y < x
    BY <1>2
  <2>2. <<y, x>> \in Nat \X Nat /\ <<y, x>>[1] = y /\ <<y, x>>[2] = x
    BY <2>1
  <2>3. <<y, x>> \in OpToRel(<, Nat)
    BY <2>1, <2>2 DEF OpToRel
  <2> QED BY <1>1, <2>3
<1> QED BY <1>2

\* A byte of a stream.
LEMMA ByteAt ==
    ASSUME NEW r \in Seq(Bytes), NEW i \in 1 .. Len(r)
    PROVE  r[i] \in Bytes /\ r[i] \in 0 .. 255
<1>1. r[i] \in Bytes
  BY ElementOfSeq
<1> QED BY <1>1, ByteAssumption, Zenon

\* A frame has at least its header and its CRC, and at most 1023 more bytes.
LEMMA FrameLenBounds ==
    ASSUME NEW b \in Seq(Bytes), Len(b) >= 3
    PROVE  \E n \in Nat : n >= 6 /\ n <= MaxFrame /\ n = frameLen(b)
<1>1. 2 \in 1 .. Len(b) /\ 3 \in 1 .. Len(b)
  BY LenProperties
<1>2. PICK x \in 0 .. 255, y \in 0 .. 255 : x = b[2] /\ y = b[3]
  BY <1>1, ByteAt
<1>3. PICK q \in 0 .. 3 : q = x % 4
  OBVIOUS
<1>4. payloadLen(b) = q * 256 + y
  BY <1>2, <1>3 DEF payloadLen
<1>5. q * 256 + y \in 0 .. 1023
  OBVIOUS
<1>6. PICK p \in 0 .. 1023 : p = payloadLen(b)
  BY <1>4, <1>5
<1>7. frameLen(b) = 3 + p + 3
  BY <1>6 DEF frameLen, headerLen, crcLen
<1>8. 3 + p + 3 \in Nat /\ 3 + p + 3 >= 6 /\ 3 + p + 3 <= 1029
  OBVIOUS
<1> QED BY <1>7, <1>8 DEF MaxFrame

\* b is the rest of a stream from i on.
Rest(r, i, b) ==
    /\ b \in Seq(Bytes) /\ Len(b) = Len(r) - i + 1
    /\ \A j \in 1 .. Len(b) : b[j] = r[i + j - 1]

LEMMA FromProperties ==
    ASSUME NEW r \in Seq(Bytes), NEW i \in 1 .. (Len(r) + 1), NEW b, b = From(r, i)
    PROVE  Rest(r, i, b)
<1>1. \A j \in i .. Len(r) : r[j] \in Bytes
  BY ByteAt
<1> QED BY <1>1, SubSeqProperties DEF From, Rest

\* The length of a frame depends on its header only.
LEMMA SameHeader ==
    ASSUME NEW b, NEW c, b[2] = c[2], b[3] = c[3]
    PROVE  frameLen(b) = frameLen(c)
BY DEF frameLen, payloadLen

\* findPreamble is the index of the first preamble.
LEMMA FindProperties ==
    ASSUME NEW b \in Seq(Bytes), NEW f, f = findPreamble(b)
    PROVE  /\ f = 0 => \A i \in 1 .. Len(b) : b[i] # preamble
           /\ f # 0 => /\ f \in 1 .. Len(b) /\ b[f] = preamble
                       /\ \A i \in 1 .. (f - 1) : b[i] # preamble
<1> DEFINE I == {i \in 1 .. Len(b) : b[i] = preamble}
<1>1. f = IF I # {} THEN Min(I) ELSE 0
  BY DEF findPreamble, SelectInSeq
<1>2. CASE I = {}
  BY <1>1, <1>2
<1>3. CASE I # {}
  <2>1. I \subseteq Nat
    OBVIOUS
  <2>2. PICK x \in I : \A y \in I : x <= y
    <3> HIDE DEF I
    <3> QED BY <1>3, <2>1, NatMin
  <2>3. f \in I /\ \A y \in I : f <= y
    <3> HIDE DEF I
    <3> QED BY <1>1, <1>3, <2>2 DEF Min
  <2> QED BY <2>3
<1> QED BY <1>2, <1>3

(***************************************************************************)
(* The scan.                                                               *)
(***************************************************************************)
\* The recursive function of Looked exists: the positions that every set
\* closed under Follows contains satisfy its equation.
LEMMA ScanExists ==
    ASSUME NEW r \in Seq(Bytes)
    PROVE  \E f : f = [i \in 1 .. Len(r) + 1 |->
                          i = 1 \/ \E j \in 1 .. (i - 1) : Follows(r, j, i) /\ f[j]]
<1> DEFINE S == 1 .. Len(r) + 1
           Here(i, D) == i = 1 \/ \E j \in 1 .. (i - 1) : Follows(r, j, i) /\ j \in D
           Closed(D) == \A i \in S : Here(i, D) => i \in D
           Least == {i \in S : \A D \in SUBSET S : Closed(D) => i \in D}
           f == [i \in S |-> IF i \in Least THEN TRUE ELSE FALSE]
<1>1. ASSUME NEW i \in S, Here(i, Least) PROVE i \in Least
  <2>1. ASSUME NEW D \in SUBSET S, Closed(D) PROVE i \in D
    <3>1. Here(i, D)
      BY <1>1, <2>1
    <3> QED BY <2>1, <3>1
  <2> QED BY <2>1
<1>2. ASSUME NEW i \in Least PROVE Here(i, Least)
  <2> DEFINE D1 == {k \in S : Here(k, Least)}
  <2>1. D1 \subseteq Least
    BY <1>1
  <2>2. Closed(D1)
    <3>1. ASSUME NEW k \in S, Here(k, D1) PROVE k \in D1
      <4>1. Here(k, Least)
        BY <2>1, <3>1
      <4> QED BY <4>1
    <3> QED BY <3>1
  <2>3. D1 \in SUBSET S
    OBVIOUS
  <2>4. i \in D1
    <3> HIDE DEF D1, Closed
    <3> QED BY <1>2, <2>2, <2>3
  <2> QED BY <2>4
<1>3. Least \subseteq S
  OBVIOUS
<1> HIDE DEF Least
<1>4. ASSUME NEW i \in S
      PROVE  (i \in Least) <=> (i = 1 \/ \E j \in 1 .. (i - 1) : Follows(r, j, i) /\ f[j])
  <2>1. Len(r) \in Nat
    BY LenProperties
  <2>2. \A j \in 1 .. (i - 1) : j \in S
    BY <2>1
  <2>3. \A j \in 1 .. (i - 1) : f[j] <=> j \in Least
    BY <2>2
  <2> HIDE DEF f
  <2> QED BY <1>1, <1>2, <2>3
<1>5. f = [i \in S |-> i = 1 \/ \E j \in 1 .. (i - 1) : Follows(r, j, i) /\ f[j]]
  <2> DEFINE g == [i \in S |-> i = 1 \/ \E j \in 1 .. (i - 1) : Follows(r, j, i) /\ f[j]]
  <2>1. \A i \in S : f[i] = g[i]
    <3>1. ASSUME NEW i \in S PROVE f[i] = g[i]
      <4>1. f[i] = IF i \in Least THEN TRUE ELSE FALSE
        BY Zenon
      <4>2. g[i] = (i = 1 \/ \E j \in 1 .. (i - 1) : Follows(r, j, i) /\ f[j])
        BY Zenon
      <4> HIDE DEF f, g
      <4>3. CASE i \in Least
        <5>1. f[i] = TRUE
          BY <4>1, <4>3
        <5>2. g[i] = TRUE
          BY <1>4, <4>2, <4>3, Zenon
        <5> QED BY <5>1, <5>2
      <4>4. CASE ~(i \in Least)
        <5>1. f[i] = FALSE
          BY <4>1, <4>4, Zenon
        <5>2. g[i] = FALSE
          BY <1>4, <4>2, <4>4, Zenon
        <5> QED BY <5>1, <5>2
      <4> QED BY <4>3, <4>4
    <3> QED BY <3>1
  <2>2. f = [i \in S |-> f[i]] /\ g = [i \in S |-> g[i]]
    BY Zenon
  <2> HIDE DEF f, g
  <2>3. f = g
    BY <2>1, <2>2, Zenon
  <2> QED BY <2>3 DEF g
<1> HIDE DEF f
<1> QED BY <1>5

\* A position is looked at when it is the first or follows one that is.
LEMMA LookedEquation ==
    ASSUME NEW r \in Seq(Bytes), NEW i \in 1 .. (Len(r) + 1)
    PROVE  Looked(r)[i] <=> (i = 1 \/ \E j \in 1 .. (i - 1) : Follows(r, j, i) /\ Looked(r)[j])
<1>1. PICK f : f = [k \in 1 .. Len(r) + 1 |->
                    k = 1 \/ \E j \in 1 .. (k - 1) : Follows(r, j, k) /\ f[j]]
  BY ScanExists
<1>2. Looked(r) = [k \in 1 .. Len(r) + 1 |->
                    k = 1 \/ \E j \in 1 .. (k - 1) : Follows(r, j, k) /\ Looked(r)[j]]
  BY <1>1, Zenon DEF Looked
<1>3. Looked(r)[i] = (i = 1 \/ \E j \in 1 .. (i - 1) : Follows(r, j, i) /\ Looked(r)[j])
  BY <1>2, Zenon
<1> QED BY <1>3, Zenon

\* More bytes at the end change nothing of what precedes them.
LEMMA FollowsPrefix ==
    ASSUME NEW r \in Seq(Bytes), NEW s \in Seq(Bytes), Len(r) <= Len(s),
           \A i \in 1 .. Len(r) : s[i] = r[i],
           NEW i \in 1 .. (Len(r) + 1), NEW j \in 1 .. (i - 1)
    PROVE  /\ Follows(s, j, i) <=> Follows(r, j, i)
           /\ j + 2 <= Len(r) => frameLen(From(s, j)) = frameLen(From(r, j))
<1>1. Len(r) \in Nat /\ Len(s) \in Nat /\ j \in 1 .. Len(r) /\ s[j] = r[j]
  BY LenProperties
<1>2. PICK b, c : b = From(r, j) /\ c = From(s, j)
  OBVIOUS
<1>a. j \in 1 .. (Len(r) + 1) /\ j \in 1 .. (Len(s) + 1)
  BY <1>1
<1>b. Rest(r, j, b) /\ Rest(s, j, c)
  BY <1>a, <1>2, FromProperties
<1>3. /\ b \in Seq(Bytes) /\ Len(b) = Len(r) - j + 1
      /\ \A k \in 1 .. Len(b) : b[k] = r[j + k - 1]
  BY <1>b DEF Rest
<1>4. /\ c \in Seq(Bytes) /\ Len(c) = Len(s) - j + 1
      /\ \A k \in 1 .. Len(c) : c[k] = s[j + k - 1]
  BY <1>b DEF Rest
<1>5. ASSUME j + 2 <= Len(r) PROVE frameLen(b) = frameLen(c)
  <2>1. b[2] = r[j + 1] /\ b[3] = r[j + 2]
    BY <1>1, <1>3, <1>5
  <2>2. c[2] = s[j + 1] /\ c[3] = s[j + 2]
    BY <1>1, <1>4, <1>5
  <2>3. s[j + 1] = r[j + 1] /\ s[j + 2] = r[j + 2]
    BY <1>1, <1>5
  <2> QED BY <2>1, <2>2, <2>3, SameHeader
<1>6. ASSUME ~(j + 2 <= Len(r)), j + 2 <= Len(s) PROVE i # j + frameLen(c)
  <2>1. Len(c) >= 3
    BY <1>1, <1>4, <1>6
  <2>2. PICK n \in Nat : n >= 6 /\ n = frameLen(c)
    BY <1>4, <2>1, FrameLenBounds, Zenon
  <2>a. n >= 6
    BY <2>2, Zenon
  <2>3. i # j + n
    BY <1>1, <1>6, <2>a
  <2> QED BY <2>2, <2>3
<1>7. Follows(s, j, i) <=> Follows(r, j, i)
  <2>1. CASE j + 2 <= Len(r)
    <3>1. j + 2 <= Len(s)
      BY <1>1, <2>1
    <3> QED BY <1>1, <1>2, <1>5, <2>1, <3>1 DEF Follows
  <2>2. CASE ~(j + 2 <= Len(r))
    BY <1>1, <1>2, <1>6, <2>2 DEF Follows
  <2> QED BY <2>1, <2>2
<1> QED BY <1>2, <1>5, <1>7

LEMMA LookedPrefix ==
    ASSUME NEW r \in Seq(Bytes), NEW s \in Seq(Bytes), Len(r) <= Len(s),
           \A i \in 1 .. Len(r) : s[i] = r[i]
    PROVE  \A i \in 1 .. (Len(r) + 1) : Looked(s)[i] <=> Looked(r)[i]
<1> DEFINE Bad == {i \in 1 .. (Len(r) + 1) : ~(Looked(s)[i] <=> Looked(r)[i])}
<1>1. SUFFICES ASSUME Bad # {} PROVE FALSE
  OBVIOUS
<1>2. Bad \subseteq Nat
  OBVIOUS
<1>3. PICK i \in Bad : \A k \in Bad : i <= k
  <2> HIDE DEF Bad
  <2> QED BY <1>1, <1>2, NatMin
<1>4. i \in 1 .. (Len(r) + 1) /\ i \in 1 .. (Len(s) + 1) /\ Len(r) \in Nat
  BY LenProperties
<1>5. \A j \in 1 .. (i - 1) : Looked(s)[j] <=> Looked(r)[j]
  <2>1. \A j \in 1 .. (i - 1) : j \in 1 .. (Len(r) + 1) /\ ~(i <= j)
    BY <1>4
  <2> QED BY <1>3, <2>1
<1>6. \A j \in 1 .. (i - 1) : Follows(s, j, i) <=> Follows(r, j, i)
  BY <1>4, FollowsPrefix
<1>7. Looked(r)[i] <=> (i = 1 \/ \E j \in 1 .. (i - 1) : Follows(r, j, i) /\ Looked(r)[j])
  BY <1>4, LookedEquation
<1>8. Looked(s)[i] <=> (i = 1 \/ \E j \in 1 .. (i - 1) : Follows(s, j, i) /\ Looked(s)[j])
  BY <1>4, LookedEquation
<1>9. ~(Looked(s)[i] <=> Looked(r)[i])
  OBVIOUS
<1> HIDE DEF Bad
<1> QED BY <1>5, <1>6, <1>7, <1>8, <1>9, Zenon

\* Bytes that are no preamble are looked at one after the other.
LEMMA LookedRun ==
    ASSUME NEW r \in Seq(Bytes), NEW p \in 1 .. (Len(r) + 1), NEW q \in p .. (Len(r) + 1),
           Looked(r)[p], \A i \in p .. (q - 1) : r[i] # preamble
    PROVE  Looked(r)[q]
<1> DEFINE Bad == {i \in p .. q : ~Looked(r)[i]}
<1>1. SUFFICES ASSUME Bad # {} PROVE FALSE
  BY LenProperties
<1>2. Bad \subseteq Nat
  BY LenProperties
<1>3. PICK i \in Bad : \A k \in Bad : i <= k
  <2> HIDE DEF Bad
  <2> QED BY <1>1, <1>2, NatMin
<1>4. /\ i \in 1 .. (Len(r) + 1) /\ i # p /\ i - 1 \in p .. (q - 1) /\ i - 1 \in 1 .. (i - 1)
      /\ i - 1 \in p .. q /\ ~(i <= i - 1) /\ i = (i - 1) + 1
  BY LenProperties
<1>5. Looked(r)[i - 1]
  BY <1>3, <1>4
<1>6. Follows(r, i - 1, i)
  BY <1>4 DEF Follows
<1>7. Looked(r)[i]
  BY <1>4, <1>5, <1>6, LookedEquation
<1> QED BY <1>7

\* Nothing inside a frame is looked at, when the frames before it end before it.
LEMMA LookedGap ==
    ASSUME NEW r \in Seq(Bytes), NEW p \in 1 .. Len(r), r[p] = preamble,
           NEW n \in Nat, n = p + frameLen(From(r, p)),
           \A j \in 1 .. (p - 1) : Looked(r)[j] /\ r[j] = preamble =>
               j + frameLen(From(r, j)) <= p
    PROVE  \A i \in (p + 1) .. (Len(r) + 1) : i < n => ~Looked(r)[i]
<1> DEFINE Bad == {i \in (p + 1) .. (Len(r) + 1) : i < n /\ Looked(r)[i]}
<1>1. SUFFICES ASSUME Bad # {} PROVE FALSE
  OBVIOUS
<1>2. Bad \subseteq Nat
  BY LenProperties
<1>3. PICK i \in Bad : \A k \in Bad : i <= k
  <2> HIDE DEF Bad
  <2> QED BY <1>1, <1>2, NatMin
<1>4. i \in 1 .. (Len(r) + 1) /\ i \in Nat /\ i > p /\ i < n /\ Looked(r)[i] /\ i # 1
  BY LenProperties
<1>5. PICK j \in 1 .. (i - 1) : Follows(r, j, i) /\ Looked(r)[j]
  BY <1>4, LookedEquation
<1>6. CASE j < p
  <2>1. CASE r[j] # preamble
    <3>1. i = j + 1
      BY <1>5, <2>1 DEF Follows
    <3> QED BY <1>4, <1>6, <3>1
  <2>2. CASE r[j] = preamble
    <3>1. i = j + frameLen(From(r, j))
      BY <1>5, <2>2 DEF Follows
    <3>2. j \in 1 .. (p - 1)
      BY <1>4, <1>6
    <3>3. i <= p
      BY <1>5, <2>2, <3>1, <3>2
    <3> QED BY <1>4, <3>3
  <2> QED BY <2>1, <2>2
<1>7. CASE j = p
  BY <1>4, <1>5, <1>7 DEF Follows
<1>8. CASE j > p
  <2>1. j \in (p + 1) .. (Len(r) + 1) /\ j < n /\ ~(i <= j)
    BY <1>4, <1>8, LenProperties
  <2> QED BY <1>3, <1>5, <2>1
<1> QED BY <1>4, <1>6, <1>7, <1>8

(***************************************************************************)
(* What one way through the loop does to the packets found so far.         *)
(***************************************************************************)
\* Push appends: the packets are still those of the bytes that have left.
LEMMA MoreBytes ==
    ASSUME NEW r \in Seq(Bytes), NEW s \in Seq(Bytes), Len(r) <= Len(s),
           \A i \in 1 .. Len(r) : s[i] = r[i],
           NEW ps \in Seq(Seq(Bytes)), NEW x \in 0 .. Len(r), ParsedAt(r, ps, x)
    PROVE  ParsedAt(s, ps, x)
<1>1. Len(r) \in Nat /\ Len(s) \in Nat /\ x + 1 \in 1 .. (Len(r) + 1) /\ Len(ps) \in Nat
  BY LenProperties
<1>2. \A i \in 1 .. (Len(r) + 1) : Looked(s)[i] <=> Looked(r)[i]
  BY LookedPrefix
<1>3. Looked(s)[x + 1]
  BY <1>1, <1>2 DEF ParsedAt
<1>4. PICK a \in [1 .. Len(ps) -> 1 .. Len(r)] : Placed(r, ps, x, a) /\ Complete(r, ps, x, a)
  BY DEF ParsedAt
<1>5. a \in [1 .. Len(ps) -> 1 .. Len(s)]
  BY <1>1
<1>6. ASSUME NEW k \in 1 .. Len(ps)
      PROVE  /\ IsFrame(s, a[k]) /\ ps[k] = FrameAt(s, a[k])
             /\ a[k] + frameLen(From(s, a[k])) <= x + 1
             /\ \A j \in 1 .. (k - 1) : a[j] < a[k]
  <2>1. PICK i \in 1 .. Len(r) : i = a[k]
    BY <1>4
  <2>2. /\ r[i] = preamble /\ i + 2 <= Len(r) /\ Looked(r)[i] /\ ps[k] = FrameAt(r, i)
        /\ i + frameLen(From(r, i)) <= x + 1 /\ \A j \in 1 .. (k - 1) : a[j] < a[k]
    BY <1>4, <2>1 DEF Placed, IsFrame
  <2>3. i \in 1 .. (Len(r) + 1) /\ i \in 1 .. (Len(s) + 1) /\ i \in 1 .. ((Len(r) + 1) - 1)
        /\ i + 2 <= Len(s) /\ s[i] = r[i] /\ (Len(r) + 1) \in 1 .. (Len(r) + 1)
    BY <1>1, <2>2
  <2>4. frameLen(From(s, i)) = frameLen(From(r, i))
    BY <2>2, <2>3, FollowsPrefix
  <2>5. PICK b, c : b = From(r, i) /\ c = From(s, i)
    OBVIOUS
  <2>r. Rest(r, i, b) /\ Rest(s, i, c)
    BY <2>3, <2>5, FromProperties
  <2>6. /\ b \in Seq(Bytes) /\ Len(b) = Len(r) - i + 1
        /\ \A j \in 1 .. Len(b) : b[j] = r[i + j - 1]
    BY <2>r DEF Rest
  <2>7. /\ c \in Seq(Bytes) /\ Len(c) = Len(s) - i + 1
        /\ \A j \in 1 .. Len(c) : c[j] = s[i + j - 1]
    BY <2>r DEF Rest
  <2>8. Len(b) >= 3
    BY <1>1, <2>2, <2>6
  <2>9. PICK n \in Nat : n >= 6 /\ n = frameLen(b) /\ n = frameLen(c)
    <3>1. PICK n \in Nat : n >= 6 /\ n = frameLen(b)
      BY <2>6, <2>8, FrameLenBounds, Zenon
    <3>2. frameLen(c) = frameLen(b)
      BY <2>4, <2>5, Zenon
    <3> QED BY <3>1, <3>2, Zenon
  <2>10. n <= Len(b) /\ n <= Len(c)
    <3>1. i + n <= x + 1
      BY <2>2, <2>5, <2>9
    <3>2. Len(b) = Len(r) - i + 1 /\ Len(c) = Len(s) - i + 1
      BY <2>6, <2>7
    <3>3. n <= Len(r) - i + 1 /\ n <= Len(s) - i + 1
      BY <1>1, <3>1
    <3> QED BY <3>2, <3>3
  <2>11. \A j \in 1 .. n : b[j] = c[j]
    <3>1. ASSUME NEW j \in 1 .. n PROVE b[j] = c[j]
      <4>0. j \in 1 .. Len(b) /\ j \in 1 .. Len(c)
        <5>1. Len(b) \in Nat /\ Len(c) \in Nat
          BY <2>6, <2>7, LenProperties
        <5> QED BY <2>10, <5>1
      <4>1. b[j] = r[i + j - 1] /\ c[j] = s[i + j - 1]
        BY <2>6, <2>7, <4>0
      <4>2. i + j - 1 \in 1 .. Len(r)
        <5>1. n <= Len(r) - i + 1
          BY <2>6, <2>10
        <5> QED BY <1>1, <5>1
      <4> QED BY <4>1, <4>2
    <3> QED BY <3>1
  <2>12. SubSeq(b, 1, n) = SubSeq(c, 1, n)
    BY <2>6, <2>7, <2>10, <2>11, SubSeqProperties
  <2>13. FrameAt(s, i) = FrameAt(r, i)
    BY <2>5, <2>9, <2>12 DEF FrameAt
  <2>14. Looked(s)[i]
    BY <1>2, <2>2, <2>3
  <2> QED BY <2>1, <2>2, <2>3, <2>4, <2>13, <2>14 DEF IsFrame
<1>7. Placed(s, ps, x, a)
  BY <1>6 DEF Placed
<1>8. Complete(s, ps, x, a)
  <2>1. \A i \in 1 .. x : i \in 1 .. (Len(r) + 1) /\ s[i] = r[i]
    BY <1>1
  <2> QED BY <1>2, <1>4, <2>1 DEF Complete
<1> QED BY <1>3, <1>5, <1>7, <1>8 DEF ParsedAt

\* Bytes that are no preamble are dropped without loss.
LEMMA Skipped ==
    ASSUME NEW r \in Seq(Bytes), NEW ps \in Seq(Seq(Bytes)), NEW x \in 0 .. Len(r),
           NEW y \in x .. Len(r), \A i \in (x + 1) .. y : r[i] # preamble,
           ParsedAt(r, ps, x)
    PROVE  ParsedAt(r, ps, y)
<1>1. Len(r) \in Nat /\ Len(ps) \in Nat /\ x + 1 \in 1 .. (Len(r) + 1)
      /\ y + 1 \in (x + 1) .. (Len(r) + 1) /\ (y + 1) - 1 = y
  BY LenProperties
<1>2. Looked(r)[y + 1]
  <2>1. PICK p, q : p = x + 1 /\ q = y + 1
    OBVIOUS
  <2>2. /\ p \in 1 .. (Len(r) + 1) /\ q \in p .. (Len(r) + 1) /\ Looked(r)[p]
        /\ \A i \in p .. (q - 1) : r[i] # preamble
    BY <1>1, <2>1 DEF ParsedAt
  <2> QED BY <2>1, <2>2, LookedRun
<1>3. PICK a \in [1 .. Len(ps) -> 1 .. Len(r)] : Placed(r, ps, x, a) /\ Complete(r, ps, x, a)
  BY DEF ParsedAt
<1>4. ASSUME NEW k \in 1 .. Len(ps) PROVE a[k] + frameLen(From(r, a[k])) <= y + 1
  <2>1. PICK i \in 1 .. Len(r) : i = a[k]
    BY <1>3
  <2>2. i + 2 <= Len(r) /\ i + frameLen(From(r, i)) <= x + 1 /\ i \in 1 .. (Len(r) + 1)
    BY <1>1, <1>3, <2>1 DEF Placed, IsFrame
  <2>3. PICK b : b = From(r, i)
    OBVIOUS
  <2>4. b \in Seq(Bytes) /\ Len(b) = Len(r) - i + 1
    BY <2>2, <2>3, FromProperties DEF Rest
  <2>5. Len(b) >= 3
    BY <1>1, <2>2, <2>4
  <2>6. PICK n \in Nat : n >= 6 /\ n = frameLen(b)
    BY <2>4, <2>5, FrameLenBounds, Zenon
  <2>7. i + n <= x + 1
    BY <2>2, <2>3, <2>6
  <2>8. i + n <= y + 1
    BY <2>7
  <2> QED BY <2>1, <2>3, <2>6, <2>8
<1>5. Placed(r, ps, y, a)
  BY <1>3, <1>4 DEF Placed
<1>6. Complete(r, ps, y, a)
  <2>1. \A i \in 1 .. y : i \in 1 .. x \/ i \in (x + 1) .. y
    OBVIOUS
  <2> QED BY <1>3, <2>1 DEF Complete
<1> QED BY <1>2, <1>3, <1>5, <1>6 DEF ParsedAt

\* A complete frame at the front of the buffer is the next one of the scan.
FrameLength(r, i, n) == n = frameLen(From(r, i))
AtFront(r, i, n, pkt) ==
    r[i] = preamble /\ i + 2 <= Len(r) /\ FrameLength(r, i, n) /\ pkt = FrameAt(r, i)

\* The frame at i ends before p.
EndsBy(r, i, p) == \E l \in Nat : l >= 6 /\ FrameLength(r, i, l) /\ i + l <= p

LEMMA EndsByProperties ==
    ASSUME NEW r, NEW i \in Nat, NEW p \in Nat, EndsBy(r, i, p)
    PROVE  /\ i < p /\ i + frameLen(From(r, i)) <= p
           /\ \A q \in Nat : p <= q => i + frameLen(From(r, i)) <= q
<1>1. PICK l \in Nat : l >= 6 /\ FrameLength(r, i, l) /\ i + l <= p
  BY DEF EndsBy
<1>2. i < p /\ \A q \in Nat : p <= q => i + l <= q
  BY <1>1
<1> QED BY <1>1, <1>2 DEF FrameLength

\* The packets' frames have left the buffer.
LEMMA PlacedEnds ==
    ASSUME NEW r \in Seq(Bytes), NEW ps \in Seq(Seq(Bytes)), NEW x \in 0 .. Len(r),
           NEW a \in [1 .. Len(ps) -> 1 .. Len(r)], Placed(r, ps, x, a),
           NEW p, p = x + 1, NEW k \in 1 .. Len(ps)
    PROVE  a[k] \in 1 .. Len(r) /\ EndsBy(r, a[k], p)
<1>1. Len(r) \in Nat
  BY LenProperties
<1>2. PICK i \in 1 .. Len(r) : i = a[k]
  OBVIOUS
<1>3. /\ i + 2 <= Len(r) /\ i + frameLen(From(r, i)) <= x + 1 /\ i \in 1 .. (Len(r) + 1)
  BY <1>1, <1>2 DEF Placed, IsFrame
<1>4. PICK b : b = From(r, i)
  OBVIOUS
<1>5. Rest(r, i, b)
  BY <1>3, <1>4, FromProperties
<1>6. b \in Seq(Bytes) /\ Len(b) >= 3
  BY <1>1, <1>3, <1>5 DEF Rest
<1>7. PICK l \in Nat : l >= 6 /\ l = frameLen(b)
  BY <1>6, FrameLenBounds, Zenon
<1>8. i + l <= p
  BY <1>3, <1>4, <1>7
<1>9. FrameLength(r, i, l)
  BY <1>4, <1>7 DEF FrameLength
<1>10. EndsBy(r, i, p)
  BY <1>7, <1>8, <1>9, Zenon DEF EndsBy
<1> QED BY <1>2, <1>10

\* Nothing inside the frame at the front of the buffer is looked at.
LEMMA NothingInside ==
    ASSUME NEW r \in Seq(Bytes), NEW ps \in Seq(Seq(Bytes)), NEW x \in 0 .. Len(r),
           NEW a \in [1 .. Len(ps) -> 1 .. Len(r)],
           Placed(r, ps, x, a), Complete(r, ps, x, a),
           NEW p \in 1 .. Len(r), p = x + 1, r[p] = preamble,
           NEW m \in Nat, m = p + frameLen(From(r, p))
    PROVE  \A i \in (p + 1) .. (Len(r) + 1) : i < m => ~Looked(r)[i]
<1>1. ASSUME NEW j \in 1 .. (p - 1), Looked(r)[j], r[j] = preamble
      PROVE  j + frameLen(From(r, j)) <= p
  <2>1. j \in 1 .. x
    OBVIOUS
  <2>2. PICK k \in 1 .. Len(ps) : a[k] = j
    BY <1>1, <2>1 DEF Complete
  <2>3. EndsBy(r, j, p)
    BY <2>2, PlacedEnds
  <2>4. j \in Nat /\ p \in Nat
    OBVIOUS
  <2> QED BY <2>3, <2>4, EndsByProperties
<1> QED BY <1>1, LookedGap

\* The packet of n bytes behind the first x is complete.
Ready(r, ps, x, n, pkt) ==
    /\ r \in Seq(Bytes) /\ ps \in Seq(Seq(Bytes)) /\ pkt \in Seq(Bytes)
    /\ x \in 0 .. Len(r) /\ n \in Nat /\ n >= 6 /\ x + n <= Len(r)
    /\ ParsedAt(r, ps, x) /\ AtFront(r, x + 1, n, pkt)

LEMMA Emitted ==
    ASSUME NEW r, NEW ps, NEW x, NEW n, NEW pkt, Ready(r, ps, x, n, pkt)
    PROVE  ParsedAt(r, Append(ps, pkt), x + n)
<1>0. /\ r \in Seq(Bytes) /\ ps \in Seq(Seq(Bytes)) /\ pkt \in Seq(Bytes)
      /\ x \in 0 .. Len(r) /\ n \in Nat /\ n >= 6 /\ x + n <= Len(r)
      /\ ParsedAt(r, ps, x) /\ AtFront(r, x + 1, n, pkt)
  BY DEF Ready
<1> USE <1>0
<1>1. /\ Len(r) \in Nat /\ Len(ps) \in Nat
      /\ x + 1 \in 1 .. Len(r) /\ x + n + 1 \in 1 .. (Len(r) + 1)
  <2>1. Len(r) \in Nat /\ Len(ps) \in Nat
    BY LenProperties
  <2>2. x + 1 \in 1 .. Len(r) /\ x + n + 1 \in 1 .. (Len(r) + 1)
    BY <2>1
  <2> QED BY <2>1, <2>2
<1>2. PICK p \in 1 .. Len(r) : p = x + 1
  BY <1>1
<1>3. PICK m \in 1 .. (Len(r) + 1) : m = x + n + 1
  BY <1>1
<1>4. /\ m = p + n /\ r[p] = preamble /\ p + 2 <= Len(r) /\ FrameLength(r, p, n)
      /\ pkt = FrameAt(r, p) /\ Looked(r)[p] /\ p \in 1 .. (m - 1) /\ m # 1
  <2>1. m = p + n /\ p \in 1 .. (m - 1) /\ m # 1
    BY <1>1, <1>2, <1>3
  <2>2. AtFront(r, p, n, pkt) /\ Looked(r)[p]
    BY <1>2 DEF ParsedAt
  <2> QED BY <2>1, <2>2 DEF AtFront
<1>5. Looked(r)[m]
  <2>1. Follows(r, p, m)
    BY <1>4 DEF Follows, FrameLength
  <2> QED BY <1>4, <2>1, LookedEquation
<1>6. PICK a \in [1 .. Len(ps) -> 1 .. Len(r)] : Placed(r, ps, x, a) /\ Complete(r, ps, x, a)
  BY DEF ParsedAt
<1>7. PICK ls : ls = Append(ps, pkt)
  OBVIOUS
<1>8. PICK N \in Nat : N = Len(ps) + 1
  BY <1>1
<1>9. /\ Len(ls) = N /\ ls[N] = pkt
      /\ \A k \in 1 .. (N - 1) : ls[k] = ps[k] /\ k \in 1 .. Len(ps)
  BY <1>1, <1>7, <1>8, AppendProperties
<1>10. PICK c : c = [k \in 1 .. N |-> IF k = N THEN p ELSE a[k]]
  OBVIOUS
<1>11. /\ c \in [1 .. N -> 1 .. Len(r)] /\ c[N] = p
       /\ \A k \in 1 .. (N - 1) : c[k] = a[k] /\ k \in 1 .. Len(ps)
  <2>1. \A k \in 1 .. N : k # N => k \in 1 .. Len(ps)
    BY <1>1, <1>8
  <2>a. N >= 1
    BY <1>1, <1>8
  <2>2. N \in 1 .. N /\ \A k \in 1 .. (N - 1) : k \in 1 .. N /\ k # N
    BY <2>a
  <2> QED BY <1>6, <1>10, <2>1, <2>2
<1>12. ASSUME NEW k \in 1 .. Len(ps) PROVE a[k] \in 1 .. Len(r) /\ EndsBy(r, a[k], p)
  BY <1>2, <1>6, PlacedEnds, Zenon
<1>13. ASSUME NEW k \in 1 .. N
       PROVE  /\ IsFrame(r, c[k]) /\ ls[k] = FrameAt(r, c[k])
              /\ c[k] + frameLen(From(r, c[k])) <= (x + n) + 1
              /\ \A j \in 1 .. (k - 1) : c[j] < c[k]
  <2>1. CASE k = N
    <3>1. IsFrame(r, p) /\ ls[k] = FrameAt(r, p)
      BY <1>4, <1>9, <2>1 DEF IsFrame
    <3>2. p + frameLen(From(r, p)) <= (x + n) + 1
      BY <1>1, <1>2, <1>4 DEF FrameLength
    <3>3. ASSUME NEW j \in 1 .. (N - 1) PROVE c[j] < p
      <4>1. j \in 1 .. Len(ps) /\ c[j] = a[j]
        BY <1>11
      <4>2. PICK i \in 1 .. Len(r) : i = a[j]
        BY <1>12, <4>1
      <4>3. EndsBy(r, i, p) /\ i \in Nat /\ p \in Nat
        BY <1>1, <1>12, <4>1, <4>2
      <4>4. i < p
        BY <4>3, EndsByProperties, Zenon
      <4> QED BY <4>1, <4>2, <4>4
    <3> QED BY <1>11, <2>1, <3>1, <3>2, <3>3
  <2>2. CASE k # N
    <3>1. k \in 1 .. (N - 1)
      BY <2>2
    <3>2. k \in 1 .. Len(ps) /\ c[k] = a[k] /\ ls[k] = ps[k]
      BY <1>9, <1>11, <3>1
    <3>3. PICK i \in 1 .. Len(r) : i = a[k]
      BY <1>12, <3>2
    <3>4. EndsBy(r, i, p) /\ i \in Nat /\ p \in Nat
      BY <1>1, <1>12, <3>2, <3>3
    <3>5. (x + n) + 1 \in Nat /\ p <= (x + n) + 1
      BY <1>1, <1>2
    <3>6. \A j \in 1 .. (k - 1) : j \in 1 .. (N - 1) /\ c[j] < c[k]
      <4>1. \A j \in 1 .. (k - 1) : j \in 1 .. (N - 1)
        BY <3>1
      <4>2. \A j \in 1 .. (k - 1) : a[j] < a[k]
        BY <1>6, <3>2 DEF Placed
      <4>3. \A j \in 1 .. (k - 1) : c[j] = a[j]
        BY <1>11, <4>1
      <4> QED BY <3>2, <4>1, <4>2, <4>3
    <3>7. i + frameLen(From(r, i)) <= (x + n) + 1
      BY <3>4, <3>5, EndsByProperties
    <3>8. IsFrame(r, a[k]) /\ ps[k] = FrameAt(r, a[k])
      BY <1>6, <3>2 DEF Placed
    <3> QED BY <3>2, <3>3, <3>6, <3>7, <3>8
  <2> QED BY <2>1, <2>2
<1>14. Placed(r, ls, x + n, c)
  BY <1>9, <1>13 DEF Placed
<1>15. Complete(r, ls, x + n, c)
  <2> SUFFICES ASSUME NEW i \in 1 .. (x + n), Looked(r)[i], r[i] = preamble
               PROVE  \E k \in 1 .. N : c[k] = i
    BY <1>9 DEF Complete
  <2>1. CASE i < p
    <3>1. i \in 1 .. x
      BY <1>2, <2>1
    <3>2. PICK k \in 1 .. Len(ps) : a[k] = i
      BY <1>6, <3>1 DEF Complete
    <3>3. k \in 1 .. (N - 1) /\ k \in 1 .. N
      BY <1>1, <1>8
    <3> QED BY <1>11, <3>2, <3>3
  <2>2. CASE i = p
    <3>1. N \in 1 .. N
      BY <1>1, <1>8
    <3> QED BY <1>11, <2>2, <3>1
  <2>3. CASE i > p
    <3>2. m \in Nat /\ m = p + frameLen(From(r, p))
      BY <1>4 DEF FrameLength
    <3>3. \A j \in (p + 1) .. (Len(r) + 1) : j < m => ~Looked(r)[j]
      BY <1>2, <1>4, <1>6, <3>2, NothingInside
    <3>4. i \in (p + 1) .. (Len(r) + 1) /\ i < m
      BY <1>1, <1>3, <2>3
    <3> QED BY <3>3, <3>4
  <2> QED BY <2>1, <2>2, <2>3
<1>16. Looked(r)[(x + n) + 1]
  BY <1>3, <1>5
<1>17. ParsedAt(r, ls, x + n)
  BY <1>9, <1>11, <1>14, <1>15, <1>16 DEF ParsedAt
<1> QED BY <1>7, <1>17

(***************************************************************************)
(* The buffer as the rest of the stream.                                   *)
(***************************************************************************)
LEMMA RestIsFrom ==
    ASSUME NEW r \in Seq(Bytes), NEW i \in 1 .. (Len(r) + 1), NEW b, Rest(r, i, b)
    PROVE  b = From(r, i)
<1>1. PICK c : c = From(r, i)
  OBVIOUS
<1>2. Rest(r, i, c)
  BY <1>1, FromProperties
<1>3. /\ b \in Seq(Bytes) /\ c \in Seq(Bytes) /\ Len(b) = Len(c)
      /\ \A j \in 1 .. Len(b) : b[j] = c[j]
  BY <1>2 DEF Rest
<1>4. b = c
  BY <1>3, SeqEqual
<1> QED BY <1>1, <1>4

\* The rest of a rest.
LEMMA FromFrom ==
    ASSUME NEW r \in Seq(Bytes), NEW i \in 1 .. (Len(r) + 1), NEW b, b = From(r, i),
           NEW f \in 1 .. (Len(b) + 1), NEW p, p = i + f - 1
    PROVE  From(b, f) = From(r, p)
<1>1. Rest(r, i, b)
  BY FromProperties
<1>2. PICK c : c = From(b, f)
  OBVIOUS
<1>3. b \in Seq(Bytes)
  BY <1>1 DEF Rest
<1>4. Rest(b, f, c)
  BY <1>2, <1>3, FromProperties
<1>5. Len(r) \in Nat /\ Len(b) = Len(r) - i + 1 /\ Len(c) = Len(b) - f + 1
  BY <1>1, <1>4, LenProperties DEF Rest
<1>6. p \in 1 .. (Len(r) + 1)
  BY <1>5
<1>7. Rest(r, p, c)
  <2>1. Len(c) = Len(r) - p + 1
    BY <1>5, <1>6
  <2>2. ASSUME NEW j \in 1 .. Len(c) PROVE c[j] = r[p + j - 1]
    <3>1. c[j] = b[f + j - 1]
      BY <1>4 DEF Rest
    <3>2. PICK q \in 1 .. Len(b) : q = f + j - 1
      BY <1>5
    <3>3. b[q] = r[i + q - 1]
      BY <1>1 DEF Rest
    <3>4. i + q - 1 = p + j - 1
      BY <1>5, <1>6, <3>2
    <3> QED BY <3>1, <3>2, <3>3, <3>4
  <2>3. c \in Seq(Bytes)
    BY <1>4 DEF Rest
  <2> QED BY <2>1, <2>2, <2>3 DEF Rest
<1> QED BY <1>2, <1>6, <1>7, RestIsFrom

\* More bytes at the end of the stream are more bytes at the end of its rest.
Grown(r, d, i, b, s, c) ==
    /\ r \in Seq(Bytes) /\ d \in Seq(Bytes) /\ i \in 1 .. (Len(r) + 1)
    /\ b = From(r, i) /\ s = r \o d /\ c = b \o d

LEMMA FromConcat ==
    ASSUME NEW r, NEW d, NEW i, NEW b, NEW s, NEW c, Grown(r, d, i, b, s, c)
    PROVE  c = From(s, i)
<1>0. /\ r \in Seq(Bytes) /\ d \in Seq(Bytes) /\ i \in 1 .. (Len(r) + 1)
      /\ b = From(r, i) /\ s = r \o d /\ c = b \o d
  BY DEF Grown
<1> USE <1>0
<1>1. Rest(r, i, b)
  BY FromProperties
<1>2. b \in Seq(Bytes) /\ Len(b) = Len(r) - i + 1 /\ Len(r) \in Nat /\ Len(d) \in Nat
  BY <1>1, LenProperties DEF Rest
<1>4. /\ s \in Seq(Bytes) /\ Len(s) = Len(r) + Len(d)
      /\ \A j \in 1 .. Len(r) + Len(d) :
             s[j] = IF j <= Len(r) THEN r[j] ELSE d[j - Len(r)]
  BY ConcatProperties
<1>5. /\ c \in Seq(Bytes) /\ Len(c) = Len(b) + Len(d)
      /\ \A j \in 1 .. Len(b) + Len(d) :
             c[j] = IF j <= Len(b) THEN b[j] ELSE d[j - Len(b)]
  BY <1>2, ConcatProperties
<1>6. Len(c) = Len(s) - i + 1 /\ i \in 1 .. (Len(s) + 1)
  BY <1>2, <1>4, <1>5
<1>7. ASSUME NEW j \in 1 .. Len(c) PROVE c[j] = s[i + j - 1]
  <2>1. PICK q \in 1 .. (Len(r) + Len(d)) : q = i + j - 1
    BY <1>2, <1>5
  <2>2. j \in 1 .. Len(b) + Len(d)
    BY <1>5
  <2>3. CASE j <= Len(b)
    <3>1. q <= Len(r) /\ j \in 1 .. Len(b)
      BY <1>2, <2>1, <2>2, <2>3
    <3>2. b[j] = r[q]
      BY <1>1, <2>1, <3>1 DEF Rest
    <3>3. c[j] = b[j] /\ s[q] = r[q]
      BY <1>4, <1>5, <2>2, <2>3, <3>1
    <3> QED BY <2>1, <3>2, <3>3
  <2>4. CASE ~(j <= Len(b))
    <3>1. ~(q <= Len(r)) /\ q - Len(r) = j - Len(b)
      BY <1>2, <2>1, <2>2, <2>4
    <3>2. c[j] = d[j - Len(b)] /\ s[q] = d[q - Len(r)]
      BY <1>4, <1>5, <2>2, <2>4, <3>1
    <3> QED BY <2>1, <3>1, <3>2
  <2> QED BY <2>3, <2>4
<1>8. Rest(s, i, c)
  BY <1>5, <1>6, <1>7 DEF Rest
<1> QED BY <1>4, <1>6, <1>8, RestIsFrom

\* Push: data behind the buffer.
LEMMA SyncedPush ==
    ASSUME NEW r \in Seq(Bytes), NEW b, NEW ps \in Seq(Seq(Bytes)), Synced(r, b, ps),
           NEW d \in Seq(Bytes)
    PROVE  Synced(r \o d, b \o d, ps)
<1>1. PICK x \in 0 .. Len(r) : b = From(r, x + 1) /\ ParsedAt(r, ps, x)
  BY DEF Synced
<1>2. Len(r) \in Nat /\ Len(d) \in Nat
  BY LenProperties
<1>3. PICK s, i : s = r \o d /\ i = x + 1
  OBVIOUS
<1>4. /\ s \in Seq(Bytes) /\ Len(s) = Len(r) + Len(d)
      /\ \A j \in 1 .. Len(r) + Len(d) :
             s[j] = IF j <= Len(r) THEN r[j] ELSE d[j - Len(r)]
  BY <1>3, ConcatProperties
<1>5. Len(r) <= Len(s) /\ x \in 0 .. Len(s) /\ i \in 1 .. (Len(r) + 1)
  BY <1>2, <1>3, <1>4
<1>6. \A j \in 1 .. Len(r) : s[j] = r[j]
  BY <1>2, <1>4
<1>7. ParsedAt(s, ps, x)
  BY <1>1, <1>4, <1>5, <1>6, MoreBytes
<1>8. b \o d = From(s, i)
  <2>1. b = From(r, i)
    BY <1>1, <1>3
  <2>2. i \in 1 .. (Len(r) + 1) /\ s = r \o d
    BY <1>3, <1>5
  <2>3. PICK c : c = b \o d
    OBVIOUS
  <2>4. c = From(s, i)
    BY <2>1, <2>2, <2>3, FromConcat DEF Grown
  <2> QED BY <2>3, <2>4
<1> QED BY <1>3, <1>5, <1>7, <1>8 DEF Synced

\* Resync and DropAll: the buffer moves on over bytes that are no preamble.
LEMMA SyncedSkip ==
    ASSUME NEW r \in Seq(Bytes), NEW b, NEW ps \in Seq(Seq(Bytes)), Synced(r, b, ps),
           NEW f \in 1 .. (Len(b) + 1), \A j \in 1 .. (f - 1) : b[j] # preamble
    PROVE  Synced(r, From(b, f), ps)
<1>1. PICK x \in 0 .. Len(r) : b = From(r, x + 1) /\ ParsedAt(r, ps, x)
  BY DEF Synced
<1>2. PICK i : i = x + 1
  OBVIOUS
<1>3. Len(r) \in Nat /\ i \in 1 .. (Len(r) + 1)
  BY <1>2, LenProperties
<1>4. Rest(r, i, b)
  BY <1>1, <1>2, <1>3, FromProperties
<1>5. Len(b) = Len(r) - i + 1
  BY <1>4 DEF Rest
<1>6. PICK y \in x .. Len(r) : y = x + f - 1
  BY <1>2, <1>3, <1>5
<1>7. y \in 0 .. Len(r) /\ i + f - 1 = y + 1
  BY <1>2, <1>3, <1>5, <1>6
<1>8. From(b, f) = From(r, y + 1)
  <2>1. PICK p : p = y + 1
    OBVIOUS
  <2>2. p = i + f - 1
    BY <1>7, <2>1
  <2>3. From(b, f) = From(r, p)
    BY <1>1, <1>2, <1>3, <2>2, FromFrom
  <2> QED BY <2>1, <2>3
<1>9. ASSUME NEW j \in (x + 1) .. y PROVE r[j] # preamble
  <2>1. PICK q \in 1 .. (f - 1) : q = j - x
    BY <1>6
  <2>2. q \in 1 .. Len(b) /\ i + q - 1 = j
    BY <1>2, <1>3, <1>5, <2>1
  <2>3. b[q] = r[j]
    BY <1>4, <2>2 DEF Rest
  <2> QED BY <2>1, <2>3
<1>10. ParsedAt(r, ps, y)
  BY <1>1, <1>9, Skipped
<1> QED BY <1>7, <1>8, <1>10 DEF Synced

\* Emit: the frame at the front of the buffer leaves it.
HasLength(b, n) == n = frameLen(b)

LEMMA SyncedEmit ==
    ASSUME NEW r \in Seq(Bytes), NEW b, NEW ps \in Seq(Seq(Bytes)), Synced(r, b, ps),
           Len(b) >= 3, b[1] = preamble, NEW n, HasLength(b, n), Len(b) >= n
    PROVE  /\ Synced(r, From(b, n + 1), Append(ps, SubSeq(b, 1, n)))
           /\ SubSeq(b, 1, n) \in Seq(Bytes)
<1>1. PICK x \in 0 .. Len(r) : b = From(r, x + 1) /\ ParsedAt(r, ps, x)
  BY DEF Synced
<1>2. PICK i : i = x + 1
  OBVIOUS
<1>3. Len(r) \in Nat /\ i \in 1 .. (Len(r) + 1)
  BY <1>2, LenProperties
<1>4. Rest(r, i, b)
  BY <1>1, <1>2, <1>3, FromProperties
<1>5. b \in Seq(Bytes) /\ Len(b) = Len(r) - i + 1
  BY <1>4 DEF Rest
<1>6. n \in Nat /\ n >= 6
  <2>1. PICK l \in Nat : l >= 6 /\ l = frameLen(b)
    BY <1>5, FrameLenBounds, Zenon
  <2> QED BY <2>1 DEF HasLength
<1>7. PICK pkt : pkt = SubSeq(b, 1, n)
  OBVIOUS
<1>8. pkt \in Seq(Bytes)
  <2>1. \A j \in 1 .. n : j \in 1 .. Len(b)
    BY <1>3, <1>5, <1>6
  <2>2. \A j \in 1 .. n : b[j] \in Bytes
    BY <1>5, <2>1, ByteAt
  <2> QED BY <1>6, <1>7, <2>2, SubSeqProperties
<1>9. AtFront(r, i, n, pkt)
  <2>1. 1 \in 1 .. Len(b) /\ i + 1 - 1 = i /\ i + 2 <= Len(r)
    BY <1>3, <1>5
  <2>2. r[i] = preamble
    BY <1>4, <2>1 DEF Rest
  <2> QED BY <1>1, <1>2, <1>7, <2>1, <2>2 DEF AtFront, FrameLength, FrameAt, HasLength
<1>10. PICK y \in 0 .. Len(r) : y = x + n
  BY <1>2, <1>3, <1>5, <1>6
<1>11. ParsedAt(r, Append(ps, pkt), y)
  <2>1. ParsedAt(r, ps, x)
    BY <1>1
  <2>2. x + n <= Len(r) /\ AtFront(r, x + 1, n, pkt)
    BY <1>2, <1>9, <1>10
  <2>3. ParsedAt(r, Append(ps, pkt), x + n)
    BY <1>6, <1>8, <2>1, <2>2, Emitted DEF Ready
  <2> QED BY <1>10, <2>3
<1>12. From(b, n + 1) = From(r, y + 1)
  <2>1. PICK f \in 1 .. (Len(b) + 1) : f = n + 1
    BY <1>3, <1>5, <1>6
  <2>2. PICK p : p = y + 1
    OBVIOUS
  <2>3. p = i + f - 1
    BY <1>2, <1>3, <1>6, <1>10, <2>1, <2>2
  <2>4. b = From(r, i)
    BY <1>1, <1>2
  <2>5. From(b, f) = From(r, p)
    BY <1>3, <2>3, <2>4, FromFrom
  <2> QED BY <2>1, <2>2, <2>5
<1> QED BY <1>7, <1>8, <1>11, <1>12 DEF Synced

\* What is left when Push returns holds no complete frame: the packets are
\* all there are.
NoFrame(b) == Len(b) < 3 \/ (Len(b) < frameLen(b) /\ b[1] = preamble)
Enumerates(ps, r, starts) ==
    \E a \in [1 .. Len(ps) -> starts] :
        /\ \A k \in 1 .. Len(ps) : ps[k] = FrameAt(r, a[k])
        /\ \A k \in 1 .. Len(ps) : \A j \in 1 .. (k - 1) : a[j] < a[k]
        /\ starts \subseteq {a[k] : k \in 1 .. Len(ps)}

LEMMA SyncedIdle ==
    ASSUME NEW r \in Seq(Bytes), NEW b, NEW ps \in Seq(Seq(Bytes)), Synced(r, b, ps),
           NoFrame(b), NEW starts, starts = Starts(r)
    PROVE  Enumerates(ps, r, starts)
<1>1. PICK x \in 0 .. Len(r) : b = From(r, x + 1) /\ ParsedAt(r, ps, x)
  BY DEF Synced
<1>2. PICK p : p = x + 1
  OBVIOUS
<1>3. Len(r) \in Nat /\ p \in 1 .. (Len(r) + 1)
  BY <1>2, LenProperties
<1>4. Rest(r, p, b)
  BY <1>1, <1>2, <1>3, FromProperties
<1>5. b \in Seq(Bytes) /\ Len(b) = Len(r) - p + 1
  BY <1>4 DEF Rest
<1>6. PICK a \in [1 .. Len(ps) -> 1 .. Len(r)] : Placed(r, ps, x, a) /\ Complete(r, ps, x, a)
  BY <1>1 DEF ParsedAt
<1>7. ASSUME NEW k \in 1 .. Len(ps) PROVE a[k] \in starts
  <2>1. PICK i \in 1 .. Len(r) : i = a[k]
    BY <1>6
  <2>2. EndsBy(r, i, p)
    BY <1>2, <1>6, <2>1, PlacedEnds
  <2>3. PICK l \in Nat : l >= 6 /\ FrameLength(r, i, l) /\ i + l <= p
    BY <2>2 DEF EndsBy
  <2>4. i - 1 + l <= Len(r)
    BY <1>3, <2>3
  <2>5. i - 1 + frameLen(From(r, i)) <= Len(r)
    BY <2>3, <2>4 DEF FrameLength
  <2>6. Looked(r)[i] /\ r[i] = preamble /\ i + 2 <= Len(r)
    BY <1>6, <2>1 DEF Placed, IsFrame
  <2> QED BY <2>1, <2>5, <2>6 DEF Starts
<1>8. a \in [1 .. Len(ps) -> starts]
  BY <1>6, <1>7
<1>9. ASSUME NEW i \in starts PROVE \E k \in 1 .. Len(ps) : a[k] = i
  <2>1. /\ i \in 1 .. Len(r) /\ Looked(r)[i] /\ r[i] = preamble /\ i + 2 <= Len(r)
        /\ i - 1 + frameLen(From(r, i)) <= Len(r)
    BY DEF Starts
  <2>2. CASE i < p
    <3>1. i \in 1 .. x
      BY <1>2, <2>1, <2>2
    <3> QED BY <1>6, <2>1, <3>1 DEF Complete
  <2>3. CASE ~(i < p)
    <3>1. Len(b) >= 3
      BY <1>3, <1>5, <2>1, <2>3
    <3>2. ~(Len(b) < 3)
      BY <1>3, <1>5, <3>1
    <3>3. PICK n \in Nat : n >= 6 /\ n = frameLen(b) /\ Len(b) < n
      <4>1. PICK l \in Nat : l >= 6 /\ l = frameLen(b)
        BY <1>5, <3>1, FrameLenBounds, Zenon
      <4>2. Len(b) < l
        BY <3>2, <4>1, Zenon DEF NoFrame
      <4> QED BY <4>1, <4>2
    <3>a. Len(r) - p + 1 < n
      BY <1>5, <3>3
    <3>4. b = From(r, p)
      BY <1>1, <1>2
    <3>5. CASE i = p
      <4>1. i - 1 + n <= Len(r)
        BY <2>1, <3>3, <3>4, <3>5
      <4>2. FALSE
        BY <1>3, <3>a, <3>5, <4>1
      <4> QED BY <4>2
    <3>6. CASE i > p
      <4>1. p \in 1 .. Len(r)
        BY <1>3, <2>1, <3>6
      <4>2. r[p] = preamble
        <5>1. 1 \in 1 .. Len(b) /\ p + 1 - 1 = p
          BY <1>3, <1>5, <3>1
        <5> QED BY <1>4, <3>2, <5>1 DEF Rest, NoFrame
      <4>3. PICK m \in Nat : m = p + n
        BY <1>3
      <4>4. m = p + frameLen(From(r, p))
        BY <3>3, <3>4, <4>3
      <4>5. \A j \in (p + 1) .. (Len(r) + 1) : j < m => ~Looked(r)[j]
        BY <1>2, <1>6, <4>1, <4>2, <4>4, NothingInside
      <4>6. i \in (p + 1) .. (Len(r) + 1) /\ i < m
        <5>1. i \in 1 .. Len(r)
          BY <2>1
        <5>2. i < p + n /\ i \in (p + 1) .. (Len(r) + 1)
          BY <1>3, <3>a, <3>6, <5>1
        <5> QED BY <4>3, <5>2
      <4> QED BY <2>1, <4>5, <4>6
    <3> QED BY <1>3, <2>1, <2>3, <3>5, <3>6
  <2> QED BY <2>2, <2>3
<1>10. \A k \in 1 .. Len(ps) : ps[k] = FrameAt(r, a[k])
  BY <1>6 DEF Placed
<1>11. \A k \in 1 .. Len(ps) : \A j \in 1 .. (k - 1) : a[j] < a[k]
  BY <1>6 DEF Placed
<1>12. starts \subseteq {a[k] : k \in 1 .. Len(ps)}
  BY <1>9
<1> QED BY <1>8, <1>10, <1>11, <1>12 DEF Enumerates

(***************************************************************************)
(* The steps.                                                              *)
(***************************************************************************)
LEMMA FramerInit == Init => IInv
<1> SUFFICES ASSUME Init PROVE IInv
  OBVIOUS
<1>1. Typed /\ BufferBounded
  BY EmptySeq DEF Init, Typed, BufferBounded, headerLen
<1>2. PICK e \in Seq(Bytes) : e = <<>> /\ Len(e) = 0
  BY EmptySeq
<1>3. PICK ps \in Seq(Seq(Bytes)) : ps = <<>> /\ Len(ps) = 0
  BY EmptySeq
<1>4. e = From(e, 1)
  <2>1. 1 \in 1 .. (Len(e) + 1) /\ Len(e) = Len(e) - 1 + 1
    BY <1>2
  <2>2. Rest(e, 1, e)
    BY <1>2, <2>1 DEF Rest
  <2> QED BY <2>1, <2>2, RestIsFrom
<1>5. Looked(e)[1]
  <2>1. 1 \in 1 .. (Len(e) + 1)
    BY <1>2
  <2> QED BY <2>1, LookedEquation
<1>6. PICK a : a = [k \in 1 .. 0 |-> k]
  OBVIOUS
<1>7. /\ a \in [1 .. Len(ps) -> 1 .. Len(e)]
      /\ Placed(e, ps, 0, a) /\ Complete(e, ps, 0, a)
  <2>1. \A k \in 1 .. 0 : FALSE
    OBVIOUS
  <2>2. 1 .. Len(ps) = 1 .. 0 /\ 1 .. Len(e) = 1 .. 0
    BY <1>2, <1>3
  <2>3. a \in [1 .. 0 -> 1 .. 0]
    BY <1>6
  <2> QED BY <2>1, <2>2, <2>3 DEF Placed, Complete
<1>8. Looked(e)[0 + 1] /\ e = From(e, 0 + 1) /\ 0 \in 0 .. Len(e)
  BY <1>2, <1>4, <1>5
<1>9. ParsedAt(e, ps, 0)
  BY <1>7, <1>8 DEF ParsedAt
<1>10. Synced(e, e, ps)
  BY <1>8, <1>9 DEF Synced
<1> QED BY <1>1, <1>2, <1>3, <1>10 DEF Init, IInv

LEMMA FramerPush ==
    ASSUME IInv, NEW n \in 1 .. MaxRead, NEW data \in [1 .. n -> Bytes], Push(data)
    PROVE  IInv'
<1>1. data \in Seq(Bytes)
  BY ReadAssumption, SeqDef
<1>2. Typed'
  <2>1. (buf \o data) \in Seq(Bytes) /\ (received \o data) \in Seq(Bytes)
    BY <1>1, ConcatProperties DEF IInv, Typed
  <2> QED BY <2>1 DEF IInv, Typed, Push
<1>3. Synced(received, buf, packets)'
  <2>1. PICK r, b, ps, s, c : /\ r = received /\ b = buf /\ ps = packets
                              /\ s = received \o data /\ c = buf \o data
    OBVIOUS
  <2>2. Synced(s, c, ps)
    BY <1>1, <2>1, SyncedPush DEF IInv, Typed
  <2> QED BY <2>1, <2>2 DEF Push
<1>4. BufferBounded'
  BY DEF BufferBounded, Push
<1> QED BY <1>2, <1>3, <1>4 DEF IInv

LEMMA FramerTurn == IInv /\ Turn => IInv'
<1> SUFFICES ASSUME IInv, Turn PROVE IInv'
  OBVIOUS
<1>1. PICK r, b, ps : r = received /\ b = buf /\ ps = packets
  OBVIOUS
<1>2. /\ r \in Seq(Bytes) /\ b \in Seq(Bytes) /\ ps \in Seq(Seq(Bytes)) /\ Synced(r, b, ps)
      /\ Len(b) \in Nat
  BY <1>1, LenProperties DEF IInv, Typed
<1>3. CASE Short
  BY <1>3 DEF Short, IInv, Typed, BufferBounded
<1>4. CASE Incomplete
  BY <1>4 DEF Incomplete, IInv, Typed, BufferBounded
<1>5. CASE Resync
  <2>1. PICK f : f = findPreamble(b)
    OBVIOUS
  <2>2. f \in 1 .. Len(b) /\ \A i \in 1 .. (f - 1) : b[i] # preamble
    BY <1>1, <1>2, <1>5, <2>1, FindProperties DEF Resync
  <2>3. PICK c : c = From(b, f)
    OBVIOUS
  <2>4. f \in 1 .. (Len(b) + 1)
    BY <1>2, <2>2
  <2>5. Synced(r, c, ps)
    BY <1>2, <2>2, <2>3, <2>4, SyncedSkip
  <2>6. c \in Seq(Bytes)
    BY <1>2, <2>3, <2>4, FromProperties DEF Rest
  <2>7. received' = r /\ buf' = c /\ packets' = ps /\ pc' = pc /\ pc = "loop"
    BY <1>1, <1>5, <2>1, <2>3 DEF Resync
  <2>8. Synced(received, buf, packets)'
    BY <2>5, <2>7
  <2> QED BY <1>2, <2>6, <2>7, <2>8 DEF IInv, Typed, BufferBounded
<1>6. CASE DropAll
  <2>1. \A i \in 1 .. Len(b) : b[i] # preamble
    BY <1>1, <1>2, <1>6, FindProperties DEF DropAll
  <2>2. PICK f \in 1 .. (Len(b) + 1) : f = Len(b) + 1
    BY <1>2
  <2>3. \A i \in 1 .. (f - 1) : b[i] # preamble
    BY <1>2, <2>1, <2>2
  <2>4. PICK c : c = From(b, f)
    OBVIOUS
  <2>5. Rest(b, f, c)
    BY <1>2, <2>4, FromProperties
  <2>6. c \in Seq(Bytes) /\ Len(c) = 0
    BY <1>2, <2>2, <2>5 DEF Rest
  <2>7. c = <<>>
    BY <2>6, EmptySeq
  <2>8. Synced(r, c, ps)
    BY <1>2, <2>3, <2>4, SyncedSkip
  <2>9. received' = r /\ buf' = c /\ packets' = ps /\ pc' = "idle"
    BY <1>1, <1>6, <2>7 DEF DropAll
  <2>10. Synced(received, buf, packets)'
    BY <2>8, <2>9
  <2> QED BY <1>2, <2>6, <2>9, <2>10 DEF IInv, Typed, BufferBounded, headerLen
<1>7. CASE Emit
  <2>1. PICK n : n = frameLen(b)
    OBVIOUS
  <2>2. PICK c, pkt : c = From(b, n + 1) /\ pkt = SubSeq(b, 1, n)
    OBVIOUS
  <2>3. /\ HasLength(b, n) /\ Len(b) >= 3 /\ b[1] = preamble /\ Len(b) >= n
        /\ received' = r /\ buf' = c /\ packets' = Append(ps, pkt) /\ pc' = pc /\ pc = "loop"
    BY <1>1, <1>7, <2>1, <2>2 DEF Emit, HasLength, headerLen
  <2>4. Synced(r, c, Append(ps, pkt)) /\ pkt \in Seq(Bytes)
    BY <1>2, <2>2, <2>3, SyncedEmit
  <2>5. Append(ps, pkt) \in Seq(Seq(Bytes))
    BY <1>2, <2>4, AppendProperties
  <2>6. c \in Seq(Bytes)
    <3>0. PICK l \in Nat : l >= 6 /\ l = frameLen(b)
      BY <1>2, <2>3, FrameLenBounds, Zenon
    <3>1. n \in Nat /\ n >= 6
      BY <2>1, <3>0
    <3>2. PICK f \in 1 .. (Len(b) + 1) : f = n + 1
      BY <1>2, <2>3, <3>1
    <3> QED BY <1>2, <2>2, <3>2, FromProperties DEF Rest
  <2>7. Synced(received, buf, packets)'
    BY <2>3, <2>4
  <2> QED BY <1>2, <2>3, <2>5, <2>6, <2>7 DEF IInv, Typed, BufferBounded
<1> QED BY <1>3, <1>4, <1>5, <1>6, <1>7 DEF Turn

(***************************************************************************)
(* The theorems.                                                           *)
(***************************************************************************)
\* In every state RTCMFramer's buffer is the end of what Push was given, the
\* packets are those of what precedes it, and the buffer is bounded.
THEOREM FramerInvariant == Spec => []IInv
<1>1. IInv /\ [Next]_vars => IInv'
  <2> SUFFICES ASSUME IInv, [Next]_vars PROVE IInv'
    OBVIOUS
  <2>1. CASE \E n \in 1 .. MaxRead : \E data \in [1 .. n -> Bytes] : Push(data)
    BY <2>1, FramerPush
  <2>2. CASE Turn
    BY <2>2, FramerTurn
  <2>3. CASE UNCHANGED vars
    BY <2>3 DEF vars, IInv, Typed, BufferBounded
  <2> QED BY <2>1, <2>2, <2>3 DEF Next
<1> QED BY <1>1, FramerInit, PTL DEF Spec

\* Between two reads the framer holds less than one frame, whatever a station
\* sends.
THEOREM BufferBoundedHolds == Spec => []BufferBounded
<1>1. IInv => BufferBounded
  BY DEF IInv
<1> QED BY <1>1, FramerInvariant, PTL

\* In bytes: a framer holds at most 1028 of them between two reads, because
\* the length field has ten bits.
THEOREM HeldLessThanFrameHolds == Spec => []HeldLessThanFrame
<1>1. ASSUME IInv PROVE HeldLessThanFrame
  <2>1. PICK b : b = buf
    OBVIOUS
  <2>2. b \in Seq(Bytes) /\ Len(b) \in Nat
    BY <1>1, <2>1, LenProperties DEF IInv, Typed
  <2>3. CASE Len(b) < 3
    BY <2>1, <2>2, <2>3 DEF HeldLessThanFrame, MaxFrame
  <2>4. CASE Len(b) >= 3
    <3>1. PICK n \in Nat : n <= MaxFrame /\ n = frameLen(b)
      BY <2>2, <2>4, FrameLenBounds, Zenon
    <3>2. pc = "idle" => Len(b) < n
      BY <1>1, <2>1, <2>2, <2>4, <3>1 DEF IInv, BufferBounded, headerLen
    <3>3. Len(b) < n => Len(b) < MaxFrame
      BY <2>2, <3>1 DEF MaxFrame
    <3> QED BY <2>1, <3>2, <3>3 DEF HeldLessThanFrame
  <2> QED BY <2>2, <2>3, <2>4
<1> QED BY <1>1, FramerInvariant, PTL

\* However a station's bytes are split into reads, after each Push the packets
\* are the frames of all the bytes received so far: each of them, in order,
\* and nothing else.
THEOREM ChunkingIrrelevantHolds == Spec => []ChunkingIrrelevant
<1>1. ASSUME IInv PROVE ChunkingIrrelevant
  <2>1. PICK r, b, ps : r = received /\ b = buf /\ ps = packets
    OBVIOUS
  <2>2. r \in Seq(Bytes) /\ ps \in Seq(Seq(Bytes)) /\ Synced(r, b, ps)
    BY <1>1, <2>1 DEF IInv, Typed
  <2>3. SUFFICES ASSUME pc = "idle" PROVE Enumerates(ps, r, Starts(r))
    BY <2>1, Zenon DEF ChunkingIrrelevant, Enumerates
  <2>4. NoFrame(b)
    BY <1>1, <2>1, <2>3 DEF IInv, BufferBounded, headerLen, NoFrame
  <2> QED BY <2>2, <2>4, SyncedIdle
<1> QED BY <1>1, FramerInvariant, PTL

=============================================================================
