---------------------------- MODULE RelayProofs ----------------------------
(***************************************************************************)
(* The relay for every word size, order of words, ring buffer, UART FIFO   *)
(* and chip.  Every interleaving of the two interrupts with the main loop  *)
(* leaves the host's frames whole and in order; on this rests that the     *)
(* handler forwards whole answers, and that a SYNC waits for its own.      *)
(***************************************************************************)
EXTENDS RelayProperties, SequenceTheorems, TLAPS

Bytes(W) == [whose : W, half : {"high", "low"}, at : Nat]
HostBytes == Bytes(Nat)
HostFrames == {Frame(i) : i \in Nat}

\* bytes is what the frames items, of W, look like on the UART.
Wire(bytes, items, W) ==
  /\ items \in Seq(W)
  /\ bytes \in Seq(Bytes(W))
  /\ Len(bytes) = Len(items) * FrameBytes
  /\ \A i \in 0..Len(items) - 1, k \in 1..FrameBytes :
       bytes[i * FrameBytes + k] = WireBytes(items[i + 1])[k]

\* bytes is what is left of the host's frames when the first w of n are gone.
From(w, n) == [i \in 1..n - w |-> w + i]
Stream(bytes, w, n) ==
  /\ w \in Nat /\ n \in Nat /\ w <= n
  /\ Wire(bytes, From(w, n), Nat)

\* A frame's bytes on their way: in frame_bytes, in the ring buffer, in the
\* UART, and still with the host.
Pipe == frame \o (rx \o (fifo \o host.left))

StreamTypes ==
  /\ frame \in Seq(HostBytes)
  /\ rx \in Seq(HostBytes)
  /\ fifo \in Seq(HostBytes)
  /\ host \in [sent : Seq(Kinds), left : Seq(HostBytes),
               awaits : Kinds \union {NoAnswer}]
  /\ written \in Seq(HostFrames)

Framing ==
  /\ StreamTypes
  /\ Stream(Pipe, Len(written), Len(host.sent))
  /\ written = [i \in 1..Len(written) |-> Frame(i)]
  /\ IF pc \in {"decode", "forward", "storing"}
     THEN Len(frame) = FrameBytes ELSE Len(frame) < FrameBytes

\* Nothing is said of the bytes once one of them was lost.
RelayInvariant == lost \/ Framing

(***************************************************************************)
(* The bytes of a frame.                                                   *)
(***************************************************************************)

\* A frame has bytes.
LEMMA FrameBytesType == FrameBytes \in Nat /\ FrameBytes > 0 /\ WordBytes \in Nat
BY RelayAssumption DEF FrameBytes

\* A word is a sequence of WordBytes bytes.
LEMMA WordType ==
  ASSUME NEW W, NEW i \in W, NEW half \in {"high", "low"}
  PROVE  Word(i, half) \in Seq(Bytes(W)) /\ Len(Word(i, half)) = WordBytes
<1>1. Word(i, half) \in [1..WordBytes -> Bytes(W)]
  BY RelayAssumption DEF Word, Bytes
<1>2. Word(i, half) \in Seq(Bytes(W))
  BY <1>1, SeqDef, FrameBytesType
<1>3. DOMAIN Word(i, half) = 1..WordBytes
  BY <1>1
<1>4. Len(Word(i, half)) \in Nat /\ DOMAIN Word(i, half) = 1..Len(Word(i, half))
  BY <1>2, LenProperties
<1> QED
  BY <1>2, <1>3, <1>4, FrameBytesType

\* decode_host_frame puts together what encode_host_frame took apart.
LEMMA HalvesOfConcat ==
  ASSUME NEW W
  PROVE  \A a, b \in Seq(Bytes(W)) :
           Len(a) = WordBytes /\ Len(b) = WordBytes =>
             /\ a \o b \in Seq(Bytes(W)) /\ Len(a \o b) = FrameBytes
             /\ SubSeq(a \o b, 1, WordBytes) = a
             /\ SubSeq(a \o b, WordBytes + 1, FrameBytes) = b
<1> SUFFICES ASSUME NEW a \in Seq(Bytes(W)), NEW b \in Seq(Bytes(W)),
                    Len(a) = WordBytes, Len(b) = WordBytes
             PROVE  /\ a \o b \in Seq(Bytes(W)) /\ Len(a \o b) = FrameBytes
                    /\ SubSeq(a \o b, 1, WordBytes) = a
                    /\ SubSeq(a \o b, WordBytes + 1, FrameBytes) = b
  OBVIOUS
<1>1. /\ a \o b \in Seq(Bytes(W)) /\ Len(a \o b) = FrameBytes
      /\ \A i \in 1..FrameBytes :
           (a \o b)[i] = IF i <= WordBytes THEN a[i] ELSE b[i - WordBytes]
  BY ConcatProperties, FrameBytesType, SMTT(60) DEF FrameBytes
<1>2. 1 \in 1..Len(a) /\ WordBytes \in 1..Len(a)
  BY RelayAssumption
<1>3. SubSeq(a \o b, 1, WordBytes) = SubSeq(a, 1, WordBytes)
  BY <1>2, SubSeqOfConcat1
<1>4. SubSeq(a, 1, WordBytes) = a
  BY SubSeqFull
<1>5. /\ WordBytes + 1 \in Len(a) + 1..Len(a) + Len(b)
      /\ FrameBytes \in Len(a) + 1..Len(a) + Len(b)
      /\ WordBytes + 1 - Len(a) = 1 /\ FrameBytes - Len(a) = Len(b)
  BY RelayAssumption DEF FrameBytes
<1>6. SubSeq(a \o b, WordBytes + 1, FrameBytes) = SubSeq(b, 1, Len(b))
  <2> DEFINE from == WordBytes + 1
             to == FrameBytes
  <2>1. /\ from \in Len(a) + 1..Len(a) + Len(b) /\ to \in Len(a) + 1..Len(a) + Len(b)
        /\ from - Len(a) = 1 /\ to - Len(a) = Len(b)
    BY <1>5
  <2>2. SUFFICES SubSeq(a \o b, from, to) = SubSeq(b, 1, Len(b))
    BY Zenon
  <2> HIDE DEF from, to
  <2>3. SubSeq(a \o b, from, to) = SubSeq(b, from - Len(a), to - Len(a))
    <3>1. \A i, j \in Len(a) + 1..Len(a) + Len(b) :
            SubSeq(a \o b, i, j) = SubSeq(b, i - Len(a), j - Len(a))
      BY SubSeqOfConcat2, ZenonT(60)
    <3> QED
      BY <2>1, <3>1, Zenon
  <2> QED
    BY <2>1, <2>3
<1>7. SubSeq(b, 1, Len(b)) = b
  BY SubSeqFull
<1> QED
  BY <1>1, <1>3, <1>4, <1>6, <1>7

\* A frame on the host's line, in either order of its words.
LEMMA WireBytesDecode ==
  ASSUME NEW W, NEW i \in W
  PROVE  /\ WireBytes(i) \in Seq(Bytes(W)) /\ Len(WireBytes(i)) = FrameBytes
         /\ Decode(WireBytes(i)) = Frame(i)
<1> DEFINE high == Word(i, "high")
           low == Word(i, "low")
<1>1. /\ high \in Seq(Bytes(W)) /\ Len(high) = WordBytes
      /\ low \in Seq(Bytes(W)) /\ Len(low) = WordBytes
  BY WordType
<1>2. Frame(i) = [high |-> high, low |-> low]
  BY DEF Frame
<1>3. WireBytes(i) = IF HighFirst THEN high \o low ELSE low \o high
  BY DEF WireBytes
<1> HIDE DEF high, low
<1>h. \A a, b \in Seq(Bytes(W)) :
        Len(a) = WordBytes /\ Len(b) = WordBytes =>
          /\ a \o b \in Seq(Bytes(W)) /\ Len(a \o b) = FrameBytes
          /\ SubSeq(a \o b, 1, WordBytes) = a
          /\ SubSeq(a \o b, WordBytes + 1, FrameBytes) = b
  BY HalvesOfConcat, Zenon
<1>4. CASE HighFirst
  <2>1. /\ high \o low \in Seq(Bytes(W)) /\ Len(high \o low) = FrameBytes
        /\ SubSeq(high \o low, 1, WordBytes) = high
        /\ SubSeq(high \o low, WordBytes + 1, FrameBytes) = low
    BY <1>1, <1>h, Zenon
  <2> QED
    BY <1>2, <1>3, <1>4, <2>1 DEF Decode
<1>5. CASE ~HighFirst
  <2>1. /\ low \o high \in Seq(Bytes(W)) /\ Len(low \o high) = FrameBytes
        /\ SubSeq(low \o high, 1, WordBytes) = low
        /\ SubSeq(low \o high, WordBytes + 1, FrameBytes) = high
    BY <1>1, <1>h, Zenon
  <2> QED
    BY <1>2, <1>3, <1>5, <2>1 DEF Decode
<1> QED
  BY <1>4, <1>5

(***************************************************************************)
(* The stream: a frame is added at its end, or taken from its front.       *)
(***************************************************************************)

\* One frame more is FrameBytes bytes more.
LEMMA ProductStep ==
  ASSUME NEW a \in Nat, NEW b \in Nat, NEW c \in Nat, a < b
  PROVE  a * c \in Nat /\ b * c \in Nat /\ a * c + c <= b * c
         /\ (a + 1) * c = a * c + c
<1>1. (a + 1) * c = a * c + c
  OBVIOUS
<1>2. PICK d \in Nat : b = (a + 1) + d
  <2>1. b - (a + 1) \in Nat /\ b = (a + 1) + (b - (a + 1))
    OBVIOUS
  <2> QED
    BY <2>1
<1>3. b * c = (a + 1) * c + d * c /\ d * c \in Nat /\ a * c \in Nat
  BY <1>2
<1> QED
  BY <1>1, <1>3

\* One frame more on the wire.
LEMMA WireGrows ==
  ASSUME NEW W, NEW p, NEW items, Wire(p, items, W), NEW x \in W
  PROVE  Wire(p \o WireBytes(x), Append(items, x), W)
<1> DEFINE q == p \o WireBytes(x)
           more == Append(items, x)
           m == Len(items)
           next == WireBytes(x)
<1>1. /\ p \in Seq(Bytes(W)) /\ items \in Seq(W)
      /\ Len(p) = m * FrameBytes
      /\ \A i \in 0..m - 1, k \in 1..FrameBytes :
           p[i * FrameBytes + k] = WireBytes(items[i + 1])[k]
  BY Zenon DEF Wire
<1>m. m \in Nat /\ Len(p) \in Nat
  BY <1>1, LenProperties
<1>2. next \in Seq(Bytes(W)) /\ Len(next) = FrameBytes
  BY WireBytesDecode
<1>3. /\ more \in Seq(W) /\ Len(more) = m + 1 /\ more[m + 1] = x
      /\ \A i \in 1..m : more[i] = items[i]
  BY <1>1, AppendProperties
<1>4. /\ q \in Seq(Bytes(W)) /\ Len(q) = Len(p) + FrameBytes
      /\ \A j \in 1..Len(p) : q[j] = p[j]
      /\ \A k \in 1..FrameBytes : q[Len(p) + k] = next[k]
  <2>1. /\ q \in Seq(Bytes(W)) /\ Len(q) = Len(p) + Len(next)
        /\ \A j \in 1..Len(p) + Len(next) :
             q[j] = IF j <= Len(p) THEN p[j] ELSE next[j - Len(p)]
    BY <1>1, <1>2, ConcatProperties
  <2> HIDE DEF q, m, next
  <2>2. ASSUME NEW k \in 1..FrameBytes PROVE q[Len(p) + k] = next[k]
    <3> DEFINE j == Len(p) + k
    <3>1. /\ j \in 1..Len(p) + Len(next) /\ ~(j <= Len(p))
          /\ j - Len(p) = k
      BY <1>2, <1>m, FrameBytesType
    <3> HIDE DEF j
    <3>2. q[j] = next[j - Len(p)]
      BY <2>1, <3>1, Zenon
    <3> QED
      BY <3>1, <3>2, Zenon DEF j
  <2>3. ASSUME NEW j \in 1..Len(p) PROVE q[j] = p[j]
    <3>1. j \in 1..Len(p) + Len(next) /\ j <= Len(p)
      BY <1>2, <1>m, FrameBytesType
    <3> QED
      BY <2>1, <3>1, Zenon
  <2> QED
    BY <1>2, <2>1, <2>2, <2>3
<1> HIDE DEF q, m, more, next
<1>5. (m + 1) * FrameBytes = m * FrameBytes + FrameBytes /\ m * FrameBytes \in Nat
  BY <1>m, FrameBytesType, ProductStep, m < m + 1
<1>6. ASSUME NEW i \in 0..m, NEW k \in 1..FrameBytes
      PROVE  q[i * FrameBytes + k] = WireBytes(more[i + 1])[k]
  <2>1. CASE i < m
    <3>1. i * FrameBytes \in Nat /\ i * FrameBytes + FrameBytes <= m * FrameBytes
      BY <1>m, <2>1, FrameBytesType, ProductStep
    <3>2. i * FrameBytes + k \in 1..Len(p)
      BY <1>1, <1>5, <3>1, FrameBytesType
    <3>3. q[i * FrameBytes + k] = p[i * FrameBytes + k]
      BY <1>4, <3>2, Zenon
    <3>4. i \in 0..m - 1 /\ i + 1 \in 1..m
      BY <1>m, <2>1
    <3>5. p[i * FrameBytes + k] = WireBytes(items[i + 1])[k]
      BY <1>1, <3>4, Zenon
    <3>6. more[i + 1] = items[i + 1]
      BY <1>3, <3>4, Zenon
    <3> QED
      BY <3>3, <3>5, <3>6, Zenon
  <2>2. CASE i = m
    <3>1. q[Len(p) + k] = next[k]
      BY <1>4
    <3>2. i * FrameBytes = Len(p) /\ more[i + 1] = x
      BY <1>1, <1>3, <2>2, Zenon
    <3> QED
      BY <3>1, <3>2, Zenon DEF next
  <2> QED
    BY <1>m, <2>1, <2>2
<1>7. Len(more) - 1 = m
  BY <1>3, <1>m
<1>8. Len(q) = Len(more) * FrameBytes
  BY <1>1, <1>3, <1>4, <1>5, Zenon
<1>9. Wire(q, more, W)
  BY <1>3, <1>4, <1>6, <1>7, <1>8, Zenon DEF Wire
<1> QED
  BY <1>9 DEF q, more, next

\* A whole frame at the front is the first one, and leaves the others behind.
LEMMA WireShrinks ==
  ASSUME NEW W, NEW f \in Seq(Bytes(W)), NEW r \in Seq(Bytes(W)), NEW items,
         Len(f) = FrameBytes, Wire(f \o r, items, W)
  PROVE  items # <<>> /\ f = WireBytes(Head(items)) /\ Wire(r, Tail(items), W)
<1> DEFINE p == f \o r
           m == Len(items)
           fewer == Tail(items)
<1>1. /\ items \in Seq(W) /\ Len(p) = m * FrameBytes
      /\ \A i \in 0..m - 1, k \in 1..FrameBytes :
           p[i * FrameBytes + k] = WireBytes(items[i + 1])[k]
  BY Zenon DEF Wire
<1>m. m \in Nat
  BY <1>1, LenProperties
<1>2. /\ Len(p) = FrameBytes + Len(r) /\ Len(r) \in Nat
      /\ \A j \in 1..FrameBytes + Len(r) :
           p[j] = IF j <= FrameBytes THEN f[j] ELSE r[j - FrameBytes]
  BY ConcatProperties, LenProperties
<1>t. items # <<>> => /\ Head(items) = items[1] /\ Head(items) \in W
                     /\ fewer \in Seq(W) /\ Len(fewer) = m - 1
                     /\ \A i \in 1..m - 1 : fewer[i] = items[i + 1]
  BY <1>1
<1>e. items = <<>> => m = 0
  OBVIOUS
<1> HIDE DEF p, m, fewer
<1>3. m > 0 /\ items # <<>>
  <2>1. m * FrameBytes > 0
    BY <1>1, <1>2, FrameBytesType
  <2>2. m = 0 => m * FrameBytes = 0
    BY FrameBytesType
  <2> QED
    BY <1>m, <1>e, <2>1, <2>2
<1>4. m - 1 \in Nat /\ m * FrameBytes = (m - 1) * FrameBytes + FrameBytes
  <2>1. m - 1 \in Nat /\ m - 1 < m /\ (m - 1) + 1 = m
    BY <1>m, <1>3
  <2>2. ((m - 1) + 1) * FrameBytes = (m - 1) * FrameBytes + FrameBytes
    BY <1>m, <2>1, FrameBytesType, ProductStep
  <2> QED
    BY <2>1, <2>2
<1>5. Len(r) = (m - 1) * FrameBytes
  BY <1>1, <1>2, <1>4, FrameBytesType
<1>6. f = WireBytes(Head(items))
  <2>1. WireBytes(Head(items)) \in Seq(Bytes(W)) /\ Len(WireBytes(Head(items))) = FrameBytes
    BY <1>3, <1>t, WireBytesDecode
  <2>2. ASSUME NEW k \in 1..FrameBytes PROVE f[k] = WireBytes(Head(items))[k]
    <3>1. p[k] = f[k]
      BY <1>2, FrameBytesType
    <3>2. 0 \in 0..m - 1 /\ 0 * FrameBytes + k = k /\ 0 + 1 = 1
      BY <1>m, <1>3, FrameBytesType
    <3>3. p[0 * FrameBytes + k] = WireBytes(items[0 + 1])[k]
      BY <1>1, <3>2, Zenon
    <3> QED
      BY <1>3, <1>t, <3>1, <3>2, <3>3, Zenon
  <2> QED
    BY <2>1, <2>2, SeqEqual
<1>7. ASSUME NEW i \in 0..m - 2, NEW k \in 1..FrameBytes
      PROVE  r[i * FrameBytes + k] = WireBytes(fewer[i + 1])[k]
  <2>1. /\ i + 1 \in 0..m - 1 /\ i + 1 \in 1..m - 1
        /\ i \in Nat /\ i < m - 1
    BY <1>m
  <2>2. /\ i * FrameBytes \in Nat /\ (i + 1) * FrameBytes = i * FrameBytes + FrameBytes
        /\ i * FrameBytes + FrameBytes <= (m - 1) * FrameBytes
    BY <1>4, <2>1, FrameBytesType, ProductStep
  <2>3. p[(i + 1) * FrameBytes + k] = WireBytes(items[(i + 1) + 1])[k]
    BY <1>1, <2>1, Zenon
  <2>4. /\ (i + 1) * FrameBytes + k \in 1..FrameBytes + Len(r)
        /\ ~((i + 1) * FrameBytes + k <= FrameBytes)
        /\ (i + 1) * FrameBytes + k - FrameBytes = i * FrameBytes + k
    BY <1>5, <2>2, FrameBytesType
  <2>5. p[(i + 1) * FrameBytes + k] = r[i * FrameBytes + k]
    BY <1>2, <2>4
  <2>6. fewer[i + 1] = items[(i + 1) + 1]
    BY <1>3, <1>t, <2>1, Zenon
  <2> QED
    BY <2>3, <2>5, <2>6, Zenon
<1>8. Len(fewer) - 1 = m - 2 /\ Len(fewer) = m - 1 /\ fewer \in Seq(W)
  BY <1>m, <1>3, <1>t
<1>9. Wire(r, fewer, W)
  BY <1>5, <1>7, <1>8, Zenon DEF Wire
<1> QED
  BY <1>3, <1>6, <1>9 DEF fewer

\* The same of the host's numbered frames.
LEMMA FromType ==
  ASSUME NEW w \in Nat, NEW n \in Nat, w <= n
  PROVE  From(w, n) \in Seq(Nat) /\ Len(From(w, n)) = n - w
BY SeqDef DEF From

\* A frame more of the host is a number more at the end.
LEMMA FromGrows ==
  ASSUME NEW w \in Nat, NEW n \in Nat, w <= n
  PROVE  Append(From(w, n), n + 1) = From(w, n + 1)
<1> DEFINE s == From(w, n)
           t == From(w, n + 1)
           a == Append(s, n + 1)
<1>1. /\ s \in Seq(Nat) /\ Len(s) = n - w
      /\ \A i \in 1..n - w : s[i] = w + i
  BY FromType DEF From
<1>2. /\ t \in Seq(Nat) /\ Len(t) = n - w + 1
      /\ \A i \in 1..n - w + 1 : t[i] = w + i
  BY FromType DEF From
<1> HIDE DEF s, t
<1>3. /\ a \in Seq(Nat) /\ Len(a) = n - w + 1
      /\ \A i \in 1..n - w : a[i] = s[i]
      /\ a[n - w + 1] = n + 1
  BY <1>1, AppendProperties
<1> HIDE DEF a
<1>4. ASSUME NEW i \in 1..Len(a) PROVE a[i] = t[i]
  <2>1. CASE i = n - w + 1
    BY <1>2, <1>3, <2>1
  <2>2. CASE i # n - w + 1
    <3>1. i \in 1..n - w /\ i \in 1..n - w + 1
      BY <1>3, <2>2
    <3> QED
      BY <1>1, <1>2, <1>3, <3>1
  <2> QED
    BY <2>1, <2>2
<1>5. a = t
  BY <1>2, <1>3, <1>4, SeqEqual
<1> QED
  BY <1>5 DEF a, s, t

\* The first of the numbers that are left.
LEMMA FromShrinks ==
  ASSUME NEW w \in Nat, NEW n \in Nat, w < n
  PROVE  Head(From(w, n)) = w + 1 /\ Tail(From(w, n)) = From(w + 1, n)
<1> DEFINE s == From(w, n)
           t == From(w + 1, n)
           a == Tail(s)
<1>1. /\ s \in Seq(Nat) /\ Len(s) = n - w
      /\ \A i \in 1..n - w : s[i] = w + i
  BY FromType DEF From
<1>2. /\ t \in Seq(Nat) /\ Len(t) = n - w - 1
      /\ \A i \in 1..n - w - 1 : t[i] = w + 1 + i
  BY FromType DEF From
<1> HIDE DEF s, t
<1>3. /\ Head(s) = s[1] /\ a \in Seq(Nat) /\ Len(a) = n - w - 1
      /\ \A i \in 1..n - w - 1 : a[i] = s[i + 1]
  BY <1>1
<1> HIDE DEF a
<1>4. \A i \in 1..Len(a) : a[i] = t[i]
  BY <1>1, <1>2, <1>3
<1>5. a = t
  BY <1>2, <1>3, <1>4, SeqEqual
<1>6. Head(s) = w + 1
  BY <1>1, <1>3
<1> QED
  BY <1>5, <1>6 DEF a, s, t

\* The host's next frame goes to the end of the stream.
LEMMA StreamGrows ==
  ASSUME NEW p, NEW w, NEW n, Stream(p, w, n)
  PROVE  Stream(p \o WireBytes(n + 1), w, n + 1)
<1>1. w \in Nat /\ n \in Nat /\ w <= n /\ Wire(p, From(w, n), Nat)
  BY DEF Stream
<1>2. Append(From(w, n), n + 1) = From(w, n + 1)
  BY <1>1, FromGrows
<1>3. w \in Nat /\ n + 1 \in Nat /\ w <= n + 1
  BY <1>1
<1>4. Wire(p \o WireBytes(n + 1), Append(From(w, n), n + 1), Nat)
  BY <1>1, <1>3, WireGrows, Zenon
<1> QED
  BY <1>2, <1>3, <1>4, Zenon DEF Stream

\* A frame's worth of bytes at the front of the stream is the next frame.
LEMMA StreamShrinks ==
  ASSUME NEW f \in Seq(HostBytes), NEW r \in Seq(HostBytes), NEW w, NEW n,
         Len(f) = FrameBytes, Stream(f \o r, w, n)
  PROVE  w < n /\ f = WireBytes(w + 1) /\ Stream(r, w + 1, n)
<1>1. w \in Nat /\ n \in Nat /\ w <= n /\ Wire(f \o r, From(w, n), Nat)
  BY DEF Stream
<1>2. /\ From(w, n) # <<>> /\ f = WireBytes(Head(From(w, n)))
      /\ Wire(r, Tail(From(w, n)), Nat)
  BY <1>1, WireShrinks DEF HostBytes
<1>3. From(w, n) \in Seq(Nat) /\ Len(From(w, n)) = n - w
  BY <1>1, FromType
<1>4. w < n
  BY <1>1, <1>2, <1>3
<1>5. Head(From(w, n)) = w + 1 /\ Tail(From(w, n)) = From(w + 1, n)
  BY <1>1, <1>4, FromShrinks
<1> QED
  <2>1. w + 1 \in Nat /\ n \in Nat /\ w + 1 <= n
    BY <1>1, <1>4
  <2> QED
    BY <1>2, <1>4, <1>5, <2>1, Zenon DEF Stream

(***************************************************************************)
(* The buffers: a byte that moves on leaves the stream as it is.           *)
(***************************************************************************)

\* A sequence is its head and its tail.
LEMMA HeadThenTail ==
  ASSUME NEW S, NEW b \in Seq(S), b # <<>>
  PROVE  /\ Head(b) \in S /\ Tail(b) \in Seq(S) /\ <<Head(b)>> \in Seq(S)
         /\ <<Head(b)>> \o Tail(b) = b
<1>1. /\ Head(b) \in S /\ Tail(b) \in Seq(S) /\ Len(Tail(b)) = Len(b) - 1
      /\ \A i \in 1..Len(Tail(b)) : Tail(b)[i] = b[i + 1]
  BY HeadTailProperties
<1>2. Len(b) \in Nat /\ Len(b) > 0 /\ Head(b) = b[1]
  BY EmptySeq
<1>3. <<Head(b)>> \in Seq(S) /\ Len(<<Head(b)>>) = 1 /\ <<Head(b)>>[1] = Head(b)
  BY <1>1
<1> DEFINE c == <<Head(b)>> \o Tail(b)
<1>4. /\ c \in Seq(S) /\ Len(c) = 1 + Len(Tail(b))
      /\ \A i \in 1..1 + Len(Tail(b)) :
           c[i] = IF i <= 1 THEN <<Head(b)>>[i] ELSE Tail(b)[i - 1]
  BY <1>1, <1>3, ConcatProperties
<1> HIDE DEF c
<1>5. Len(c) = Len(b)
  BY <1>1, <1>2, <1>4
<1>6. ASSUME NEW i \in 1..Len(c) PROVE c[i] = b[i]
  <2>1. CASE i = 1
    BY <1>1, <1>2, <1>3, <1>4, <2>1
  <2>2. CASE i # 1
    <3>1. i - 1 \in 1..Len(Tail(b)) /\ ~(i <= 1) /\ (i - 1) + 1 = i
      BY <1>1, <1>2, <1>5, <2>2
    <3>2. c[i] = Tail(b)[i - 1]
      BY <1>4, <3>1
    <3> QED
      BY <1>1, <3>1, <3>2
  <2> QED
    BY <2>1, <2>2
<1>7. c = b
  BY <1>4, <1>5, <1>6, SeqEqual
<1> QED
  BY <1>1, <1>3, <1>7 DEF c

\* A byte goes from the front of one buffer to the end of the one before.
LEMMA ByteMoves ==
  ASSUME NEW S, NEW a \in Seq(S), NEW b \in Seq(S), b # <<>>
  PROVE  /\ Append(a, Head(b)) \in Seq(S) /\ Tail(b) \in Seq(S)
         /\ Append(a, Head(b)) \o Tail(b) = a \o b
<1>1. /\ Head(b) \in S /\ Tail(b) \in Seq(S) /\ <<Head(b)>> \in Seq(S)
      /\ <<Head(b)>> \o Tail(b) = b
  BY HeadThenTail
<1>2. Append(a, Head(b)) \in Seq(S) /\ Append(a, Head(b)) = a \o <<Head(b)>>
  BY <1>1, AppendProperties, AppendIsConcat
<1>3. (a \o <<Head(b)>>) \o Tail(b) = a \o (<<Head(b)>> \o Tail(b))
  BY <1>1, ConcatAssociative
<1> QED
  BY <1>1, <1>2, <1>3

(***************************************************************************)
(* The steps.                                                              *)
(***************************************************************************)

\* The buffers may be grouped either way.
LEMMA Regroup ==
  ASSUME NEW a \in Seq(HostBytes), NEW b \in Seq(HostBytes), NEW c \in Seq(HostBytes)
  PROVE  a \o (b \o c) = (a \o b) \o c
BY ConcatAssociative

\* What the pipe is made of.
LEMMA PipeParts ==
  ASSUME StreamTypes
  PROVE  /\ fifo \o host.left \in Seq(HostBytes)
         /\ rx \o (fifo \o host.left) \in Seq(HostBytes)
         /\ host.left \in Seq(HostBytes) /\ host.sent \in Seq(Kinds)
BY ConcatProperties DEF StreamTypes

\* UART0_IRQHandler with room for all bytes.
LEMMA UartMovesBytes ==
  ASSUME Framing, UartInterrupt, ~lost'
  PROVE  Framing'
<1> USE DEF Framing
<1>1. /\ rx' = rx \o SubSeq(fifo, 1, Len(fifo))
      /\ fifo' = <<>> /\ UNCHANGED <<frame, host, written, pc>>
  <2> DEFINE room == RxCapacity - Len(rx)
             fits == IF Len(fifo) <= room THEN Len(fifo) ELSE room
  <2>1. /\ rx' = rx \o SubSeq(fifo, 1, fits)
        /\ lost' = (lost \/ Len(fifo) > fits)
        /\ fifo' = <<>> /\ UNCHANGED <<frame, host, written, pc>>
    BY DEF UartInterrupt
  <2>2. room \in Int /\ Len(fifo) \in Nat
    BY LenProperties, RelayAssumption DEF StreamTypes
  <2>3. fits = Len(fifo)
    <3>1. ~(Len(fifo) > fits)
      BY <2>1
    <3> HIDE DEF room
    <3> QED
      BY <2>2, <3>1
  <2> QED
    BY <2>1, <2>3
<1>2. rx' = rx \o fifo
  <2>1. fifo \in Seq(HostBytes)
    BY DEF StreamTypes
  <2>2. SubSeq(fifo, 1, Len(fifo)) = fifo
    BY <2>1, SubSeqFull
  <2> QED
    BY <1>1, <2>2
<1>3. StreamTypes'
  BY <1>1, <1>2, ConcatProperties, EmptySeq DEF StreamTypes
<1>4. Pipe' = Pipe
  <2>1. fifo' \o host'.left = host.left
    BY <1>1, PipeParts, ConcatEmptySeq
  <2>2. rx' \o host.left = rx \o (fifo \o host.left)
    <3>1. /\ rx \in Seq(HostBytes) /\ fifo \in Seq(HostBytes)
          /\ host.left \in Seq(HostBytes)
      BY PipeParts DEF StreamTypes
    <3>2. rx \o (fifo \o host.left) = (rx \o fifo) \o host.left
      BY <3>1, Regroup
    <3> QED
      BY <1>2, <3>2
  <2> QED
    BY <1>1, <2>1, <2>2 DEF Pipe
<1> QED
  BY <1>1, <1>3, <1>4

\* The host's next byte reaches the UART.
LEMMA HostByteSent ==
  ASSUME Framing, HostSendsByte, ~lost, ~lost'
  PROVE  Framing'
<1> USE DEF Framing
<1>1. /\ host.left # <<>> /\ host' = [host EXCEPT !.left = Tail(@)]
      /\ fifo' = Append(fifo, Head(host.left))
      /\ UNCHANGED <<frame, rx, written, pc>>
  BY DEF HostSendsByte, relayVars
<1>2. /\ fifo' \in Seq(HostBytes) /\ Tail(host.left) \in Seq(HostBytes)
      /\ fifo' \o Tail(host.left) = fifo \o host.left
  BY <1>1, PipeParts, ByteMoves, SMTT(60) DEF StreamTypes
<1>3. /\ host'.left = Tail(host.left) /\ host'.sent = host.sent
      /\ host' \in [sent : Seq(Kinds), left : Seq(HostBytes),
                     awaits : Kinds \union {NoAnswer}]
  BY <1>1, <1>2 DEF StreamTypes
<1>4. StreamTypes'
  BY <1>1, <1>2, <1>3 DEF StreamTypes
<1>5. Pipe' = Pipe
  BY <1>1, <1>2, <1>3 DEF Pipe
<1> QED
  BY <1>1, <1>3, <1>4, <1>5

\* The main loop takes a byte into the frame it puts together.
LEMMA ByteTaken ==
  ASSUME Framing, GetByte
  PROVE  Framing'
<1> USE DEF Framing
<1>1. /\ pc = "get" /\ rx # <<>> /\ rx' = Tail(rx)
      /\ frame' = Append(frame, Head(rx))
      /\ pc' = IF Len(frame') = FrameBytes THEN "decode" ELSE "get"
      /\ UNCHANGED <<fifo, host, written>>
  BY DEF GetByte, At, hostVars, history, IsWhole
<1>2. /\ frame' \in Seq(HostBytes) /\ rx' \in Seq(HostBytes)
      /\ frame' \o rx' = frame \o rx
  BY <1>1, ByteMoves DEF StreamTypes
<1>3. StreamTypes'
  BY <1>1, <1>2 DEF StreamTypes
<1>4. Pipe' = Pipe
  <2> DEFINE rest == fifo \o host.left
  <2>1. rest \in Seq(HostBytes) /\ rest' = rest
    BY <1>1, PipeParts
  <2> HIDE DEF rest
  <2>2. frame' \o (rx' \o rest) = (frame' \o rx') \o rest
    BY <1>2, <2>1, Regroup
  <2>3. frame \o (rx \o rest) = (frame \o rx) \o rest
    <3>1. frame \in Seq(HostBytes) /\ rx \in Seq(HostBytes)
      BY DEF StreamTypes
    <3> QED
      BY <2>1, <3>1, Regroup
  <2> QED
    BY <1>2, <2>1, <2>2, <2>3 DEF Pipe, rest
<1>5. Len(frame) < FrameBytes /\ Len(frame) \in Nat /\ Len(frame') = Len(frame) + 1
  BY <1>1, HeadTailProperties, AppendProperties, LenProperties DEF StreamTypes
<1>6. IF pc' \in {"decode", "forward", "storing"}
      THEN Len(frame') = FrameBytes ELSE Len(frame') < FrameBytes
  BY <1>1, <1>5, FrameBytesType
<1> QED
  BY <1>1, <1>3, <1>4, <1>6

\* The host begins its next frame when nothing is left of the last one.
LEMMA HostFrameBegun ==
  ASSUME Framing, NEW k \in Kinds, HostBeginsFrame(k)
  PROVE  Framing'
<1> USE DEF Framing
<1> DEFINE n == Len(host.sent)
           next == WireBytes(n + 1)
<1>1. /\ host.left = <<>>
      /\ host' = [sent |-> Append(host.sent, k), left |-> next,
                  awaits |-> IF k = "data" THEN host.awaits ELSE k]
      /\ UNCHANGED <<frame, rx, fifo, written, pc>>
  BY DEF HostBeginsFrame, relayVars, history
<1>2. n \in Nat /\ n + 1 \in Nat
  BY PipeParts, LenProperties
<1>3. next \in Seq(HostBytes)
  BY <1>2, WireBytesDecode DEF HostBytes
<1>4. Append(host.sent, k) \in Seq(Kinds) /\ Len(Append(host.sent, k)) = n + 1
  BY PipeParts, AppendProperties
<1> HIDE DEF n, next
<1>5. /\ host'.left = next /\ host'.sent = Append(host.sent, k)
      /\ host' \in [sent : Seq(Kinds), left : Seq(HostBytes),
                     awaits : Kinds \union {NoAnswer}]
  BY <1>1, <1>3, <1>4 DEF StreamTypes
<1>6. StreamTypes'
  BY <1>1, <1>5 DEF StreamTypes
<1>7. Pipe' = Pipe \o next
  <2>1. /\ frame \in Seq(HostBytes) /\ rx \in Seq(HostBytes)
        /\ fifo \in Seq(HostBytes)
    BY DEF StreamTypes
  <2>2. Pipe = frame \o (rx \o fifo)
    BY <1>1, <2>1, ConcatEmptySeq DEF Pipe
  <2>3. rx \o (fifo \o next) = (rx \o fifo) \o next
    BY <1>3, <2>1, Regroup
  <2>4. rx \o fifo \in Seq(HostBytes)
    BY <2>1, ConcatProperties
  <2>5. frame \o ((rx \o fifo) \o next) = (frame \o (rx \o fifo)) \o next
    BY <1>3, <2>1, <2>4, Regroup, ZenonT(90)
  <2> QED
    BY <1>1, <1>5, <2>2, <2>3, <2>5 DEF Pipe
<1>8. Stream(Pipe \o next, Len(written), n + 1)
  BY StreamGrows DEF n, next
<1> QED
  BY <1>1, <1>4, <1>5, <1>6, <1>7, <1>8

\* A frame that is written to the NoC is the host's next one.
LEMMA FrameStored ==
  ASSUME Framing, StoreFrame
  PROVE  Framing'
<1> USE DEF Framing
<1> DEFINE w == Len(written)
           rest == rx \o (fifo \o host.left)
<1>1. /\ pc = "storing" /\ pc' \in {"waiting", "get"} /\ frame' = <<>>
      /\ written' = Append(written, Decode(frame))
      /\ UNCHANGED <<rx, fifo, host>>
  BY DEF StoreFrame, At, hostVars
<1>2. /\ frame \in Seq(HostBytes) /\ rest \in Seq(HostBytes)
      /\ Len(frame) = FrameBytes /\ written \in Seq(HostFrames)
  BY <1>1, PipeParts DEF StreamTypes
<1>3. Stream(frame \o rest, w, Len(host.sent))
  BY DEF Pipe
<1>4. w \in Nat
  BY <1>2, LenProperties
<1> HIDE DEF w, rest
<1>5. frame = WireBytes(w + 1) /\ Stream(rest, w + 1, Len(host.sent))
  BY <1>2, <1>3, StreamShrinks, ZenonT(30)
<1>6. Decode(frame) = Frame(w + 1) /\ Frame(w + 1) \in HostFrames
  <2>1. w + 1 \in Nat
    BY <1>4
  <2>2. Decode(WireBytes(w + 1)) = Frame(w + 1)
    BY <2>1, WireBytesDecode, Zenon
  <2> QED
    BY <1>5, <2>1, <2>2 DEF HostFrames
<1>7. /\ written' \in Seq(HostFrames) /\ Len(written') = w + 1
      /\ \A i \in 1..w : written'[i] = written[i]
      /\ written'[w + 1] = Frame(w + 1)
  BY <1>1, <1>2, <1>6, AppendProperties DEF w
<1>8. written' = [i \in 1..Len(written') |-> Frame(i)]
  <2>1. written' \in [1..w + 1 -> HostFrames]
    BY <1>7, LenProperties
  <2>2. \A i \in 1..w : written[i] = Frame(i)
    BY DEF w
  <2>3. \A i \in 1..w + 1 : written'[i] = Frame(i)
    BY <1>4, <1>7, <2>2
  <2> QED
    BY <1>7, <2>1, <2>3
<1>9. Pipe' = rest
  <2>1. rest' = rest
    BY <1>1 DEF rest
  <2>2. Pipe' = <<>> \o rest'
    BY <1>1 DEF Pipe, rest
  <2> QED
    BY <1>2, <2>1, <2>2, ConcatEmptySeq
<1>10. StreamTypes'
  BY <1>1, <1>7, EmptySeq DEF StreamTypes
<1>11. Len(frame') < FrameBytes
  BY <1>1, FrameBytesType
<1> QED
  BY <1>1, <1>5, <1>7, <1>8, <1>9, <1>10, <1>11

\* The host takes its answers; its own frames are not touched.
LEMMA HostTakesAnswer ==
  ASSUME Framing, HostReads
  PROVE  Framing'
<1> USE DEF Framing
<1>1. /\ UNCHANGED <<frame, rx, fifo, written, pc>>
      /\ host' = host \/ host' = [host EXCEPT !.awaits = NoAnswer]
  BY DEF HostReads, relayVars, history
<1>2. /\ host'.left = host.left /\ host'.sent = host.sent
      /\ host' \in [sent : Seq(Kinds), left : Seq(HostBytes),
                     awaits : Kinds \union {NoAnswer}]
  BY <1>1 DEF StreamTypes
<1> QED
  BY <1>1, <1>2 DEF StreamTypes, Pipe

\* The other steps move none of the host's bytes.
LEMMA OtherSteps ==
  ASSUME Framing, UNCHANGED <<frame, rx, fifo, host, written>>,
         pc' \in {"decode", "forward", "storing"}
           <=> pc \in {"decode", "forward", "storing"}
  PROVE  Framing'
BY DEF Framing, StreamTypes, Pipe

\* At first no byte is on its way.
LEMMA InitFraming == Init => Framing
<1> SUFFICES ASSUME Init PROVE Framing
  OBVIOUS
<1>1. /\ frame = <<>> /\ rx = <<>> /\ fifo = <<>> /\ written = <<>>
      /\ host = [sent |-> <<>>, left |-> <<>>, awaits |-> NoAnswer]
      /\ pc = "boot"
  BY DEF Init
<1>2. StreamTypes
  BY <1>1, EmptySeq DEF StreamTypes
<1>3. Pipe = <<>>
  BY <1>1 DEF Pipe
<1>4. Stream(<<>>, 0, 0)
  <2>1. From(0, 0) = <<>>
    BY DEF From
  <2> QED
    <3>1. <<>> \in Seq(Nat) /\ <<>> \in Seq(Bytes(Nat)) /\ Len(<<>>) = 0
      BY EmptySeq
    <3>2. 0 = 0 * FrameBytes
      BY FrameBytesType
    <3>3. Wire(<<>>, <<>>, Nat)
      BY <3>1, <3>2 DEF Wire
    <3> QED
      BY <2>1, <3>3 DEF Stream
<1> QED
  BY <1>1, <1>2, <1>3, <1>4, FrameBytesType DEF Framing

\* A byte that was lost stays lost.
LEMMA LostForGood == lost /\ [Next]_vars => lost'
BY DEF Next, UartInterrupt, EnterHandler, HandlerForwards, LeaveHandler, Main,
   Boot, Returned, Configure, GetByte, GetNothing, ReportOverflow, ClearOverflow,
   DecodeFrame, EnterCritical, StoreFrame, WaitForTimestep, RelayChip,
   HostBeginsFrame, HostSendsByte, HostReads, vars, history

\* Every step keeps the invariant.
LEMMA NextFraming == RelayInvariant /\ [Next]_vars => RelayInvariant'
<1> SUFFICES ASSUME RelayInvariant, [Next]_vars, ~lost' PROVE Framing'
  BY DEF RelayInvariant
<1>1. ~lost
  BY LostForGood
<1>2. Framing
  BY <1>1 DEF RelayInvariant
<1>3. CASE UartInterrupt
  BY <1>2, <1>3, UartMovesBytes
<1>4. CASE EnterHandler \/ HandlerForwards \/ LeaveHandler
  BY <1>2, <1>4, OtherSteps
     DEF EnterHandler, HandlerForwards, LeaveHandler, hostVars, history
<1>5. CASE Main
  <2>1. CASE GetByte
    BY <1>2, <2>1, ByteTaken
  <2>2. CASE StoreFrame
    BY <1>2, <2>2, FrameStored
  <2>3. CASE Boot \/ Returned \/ Configure \/ GetNothing
    BY <1>2, <2>3, OtherSteps
       DEF Boot, Returned, Configure, GetNothing, At, vars, relayVars, hostVars, history
  <2>4. CASE ReportOverflow \/ ClearOverflow \/ WaitForTimestep
    BY <1>2, <2>4, OtherSteps
       DEF ReportOverflow, ClearOverflow, WaitForTimestep, At, hostVars, history
  <2>5. CASE DecodeFrame \/ EnterCritical
    BY <1>2, <2>5, OtherSteps DEF DecodeFrame, EnterCritical, At, hostVars, history
  <2> QED
    BY <1>5, <2>1, <2>2, <2>3, <2>4, <2>5 DEF Main
<1>6. CASE RelayChip
  BY <1>2, <1>6, OtherSteps DEF RelayChip, relayVars, hostVars, history
<1>7. CASE \E k \in Kinds : HostBeginsFrame(k)
  BY <1>2, <1>7, HostFrameBegun
<1>8. CASE HostSendsByte
  BY <1>1, <1>2, <1>8, HostByteSent
<1>9. CASE HostReads
  BY <1>2, <1>9, HostTakesAnswer
<1>10. CASE UNCHANGED vars
  BY <1>2, <1>10, OtherSteps DEF vars, relayVars, hostVars, history
<1> QED
  BY <1>3, <1>4, <1>5, <1>6, <1>7, <1>8, <1>9, <1>10 DEF Next

\* The NoC receives the host's frames, whole and in order, until a byte is lost
\* (UART0_IRQHandler, relay_get_byte, send_uart_frames_to_noc): for every size
\* of word, ring buffer and UART FIFO, and however the interrupts interleave.
THEOREM FramingSurvives == Spec => []FramesAreTheHosts
<1>1. Init => RelayInvariant
  BY InitFraming DEF RelayInvariant
<1>2. RelayInvariant => FramesAreTheHosts
  BY DEF RelayInvariant, Framing, FramesAreTheHosts
<1> QED
  BY <1>1, <1>2, NextFraming, PTL DEF Spec

(***************************************************************************)
(* Requests and answers.  Until a byte is lost, the host's latest request  *)
(* is on its way (Resting), in the downlink FIFO (Asked), or with the chip *)
(* and the handler (Answering); and its answer is on the line.             *)
(***************************************************************************)

AnswerFrames == [kind : {"work", "complete", "header", "raw"}, seq : Nat]
RelayDown == [kind : Kinds, steps : Nat]
ChipState == [busy : BOOLEAN, left : Nat, time : Nat]
HandlerState == [active : BOOLEAN, done : BOOLEAN, test : BOOLEAN, remaining : Nat]

LinkTypes ==
  /\ down \in Seq(RelayDown)
  /\ up \in Seq(AnswerFrames)
  /\ answer \in Seq(AnswerFrames)
  /\ chip \in ChipState
  /\ ~chip.busy => chip.left = 0
  /\ testing \in BOOLEAN
  /\ testing => chip.busy /\ chip.left > 0
HandlerTypes ==
  /\ isr \in HandlerState
  /\ ~isr.active => isr = NoHandler
  /\ kind \in Kinds

\* The host's frames that were not written yet, and the requests among them.
Coming == Len(written) + 1..Len(host.sent)
NoneComes == \A i \in Coming : host.sent[i] = "data"
OneComes ==
  \E c \in Coming : /\ host.sent[c] # "data"
                    /\ \A i \in Coming : i # c => host.sent[i] = "data"

\* The line to the host carries whole frames, none of which ends an answer; or
\* the last one does.
LineOpen ==
  \E items : /\ Wire(line, items, AnswerFrames)
             /\ \A i \in 1..Len(items) : ~EndsAnswer(items[i])
LineEnds ==
  \E items : /\ Wire(line, items, AnswerFrames)
             /\ items # <<>> /\ EndsAnswer(items[Len(items)])
             /\ \A i \in 1..Len(items) - 1 : ~EndsAnswer(items[i])

\* There is one request in the downlink FIFO.
OneWaits ==
  \E k \in 1..Len(down) :
    IsControl(down[k]) /\ \A j \in 1..Len(down) : j # k => ~IsControl(down[j])

Resting ==
  /\ Quiet
  /\ IF isr.active THEN isr.done ELSE ~irqPending
  /\ \/ host.awaits = NoAnswer /\ NoneComes /\ LineOpen
     \/ host.awaits # NoAnswer /\ OneComes /\ LineOpen
     \/ host.awaits # NoAnswer /\ NoneComes /\ LineEnds
Underway == host.awaits # NoAnswer /\ NoneComes /\ LineOpen
Asked ==
  /\ Underway /\ OneWaits
  /\ up = <<>> /\ ~chip.busy /\ ~isr.active /\ ~irqPending

\* Of a test response the handler, with the header behind it or not, has as
\* many frames to come as it counts; of another answer, up to the COMPLETE.
Raw(n) == [kind |-> "raw", seq |-> n]
TestTail ==
  /\ isr.test
  /\ Len(up) + chip.left = isr.remaining + 1
  /\ \A i \in 1..Len(up) : up[i] = Raw(isr.remaining + 2 - i)
WholeTest ==
  /\ ~isr.test
  /\ up # <<>> /\ up[1].kind = "header"
  /\ Len(up) + chip.left = up[1].seq + 1
  /\ \A i \in 2..Len(up) : up[i] = Raw(up[1].seq + 2 - i)
ControlTail ==
  /\ ~isr.test
  /\ chip.busy \/ up # <<>>
  /\ \A i \in 1..Len(up) :
       up[i].kind = IF chip.busy \/ i < Len(up) THEN "work" ELSE "complete"
Rest ==
  \/ (testing <=> chip.busy) /\ (TestTail \/ WholeTest)
  \/ ~testing /\ ControlTail
Answering == Underway /\ ~ControlWaiting /\ ~isr.done /\ Rest
Phases == Resting \/ Asked \/ Answering

\* A SYNC on its way has cleared the flag, and the flag is set with its answer.
Awaited ==
  /\ pc \in {"forward", "storing"} =>
       /\ Len(written) < Len(host.sent) /\ kind = host.sent[Len(written) + 1]
       /\ kind = "sync" => ~finished /\ ~isr.active
  /\ pc = "waiting" /\ finished => Quiet

\* No text comes between the frames on the line.
NoText == ~overflow /\ pc # "reporting"

Ordered == LinkTypes /\ HandlerTypes /\ Phases /\ Awaited /\ NoText

\* At first nothing is asked and nothing is on the line.
LEMMA InitOrdered == Init => Ordered
<1> SUFFICES ASSUME Init PROVE Ordered
  OBVIOUS
<1>1. /\ down = <<>> /\ up = <<>> /\ answer = <<>> /\ testing = FALSE
      /\ chip = [busy |-> FALSE, left |-> 0, time |-> 0]
      /\ isr = NoHandler /\ irqPending = FALSE /\ kind = "data"
      /\ pc = "boot" /\ overflow = FALSE
      /\ written = <<>> /\ line = <<>>
      /\ host = [sent |-> <<>>, left |-> <<>>, awaits |-> NoAnswer]
  BY DEF Init, NocInit, TestInit
<1>2. LinkTypes
  BY <1>1, EmptySeq DEF LinkTypes, ChipState
<1>3. HandlerTypes
  BY <1>1 DEF HandlerTypes, HandlerState, NoHandler, Kinds
<1>4. LineOpen
  <2>1. <<>> \in Seq(AnswerFrames) /\ <<>> \in Seq(Bytes(AnswerFrames)) /\ Len(<<>>) = 0
    BY EmptySeq
  <2>2. 0 = 0 * FrameBytes
    BY FrameBytesType
  <2>3. Wire(<<>>, <<>>, AnswerFrames)
    BY <2>1, <2>2 DEF Wire
  <2> QED
    BY <1>1, <2>1, <2>3 DEF LineOpen
<1>5. Resting
  BY <1>1, <1>4 DEF Resting, Quiet, ControlWaiting, NoneComes, Coming, NoHandler
<1> QED
  BY <1>1, <1>2, <1>3, <1>5 DEF Ordered, Phases, Awaited, NoText

(***************************************************************************)
(* The line to the host.                                                   *)
(***************************************************************************)

\* A forwarded frame goes to the end of the line, and may end the answer there.
LEMMA LineGrows ==
  ASSUME LineOpen, NEW x \in AnswerFrames, line' = line \o WireBytes(x)
  PROVE  IF EndsAnswer(x) THEN LineEnds' ELSE LineOpen'
<1>1. PICK items : /\ Wire(line, items, AnswerFrames)
                   /\ \A i \in 1..Len(items) : ~EndsAnswer(items[i])
  BY DEF LineOpen
<1>2. items \in Seq(AnswerFrames)
  BY <1>1 DEF Wire
<1> DEFINE more == Append(items, x)
<1>3. Wire(line', more, AnswerFrames)
  BY <1>1, WireGrows, Zenon
<1>4. /\ more # <<>> /\ Len(items) \in Nat /\ Len(more) = Len(items) + 1
      /\ more[Len(more)] = x
      /\ \A i \in 1..Len(items) : more[i] = items[i]
  BY <1>2
<1> HIDE DEF more
<1>5. \A i \in 1..Len(more) - 1 : ~EndsAnswer(more[i])
  BY <1>1, <1>4
<1>6. CASE EndsAnswer(x)
  BY <1>3, <1>4, <1>5, <1>6 DEF LineEnds
<1>7. CASE ~EndsAnswer(x)
  BY <1>3, <1>4, <1>5, <1>7 DEF LineOpen
<1> QED
  BY <1>6, <1>7

\* The first frame on the line is in its first FrameBytes bytes.
LEMMA LineSplits ==
  ASSUME NEW W, NEW bytes, NEW items, Wire(bytes, items, W), Len(bytes) >= FrameBytes
  PROVE  /\ items # <<>> /\ items \in Seq(W)
         /\ Wire(SubSeq(bytes, FrameBytes + 1, Len(bytes)), Tail(items), W)
         /\ Head(Decode(bytes).high).whose = Head(items)
<1> DEFINE n == Len(bytes)
           f == SubSeq(bytes, 1, FrameBytes)
           r == SubSeq(bytes, FrameBytes + 1, n)
<1>1. bytes \in Seq(Bytes(W)) /\ items \in Seq(W)
  BY DEF Wire
<1>2. n \in Nat /\ n >= FrameBytes
  BY <1>1
<1>3. /\ f \in Seq(Bytes(W)) /\ Len(f) = FrameBytes
      /\ \A i \in 1..FrameBytes : f[i] = bytes[i]
  BY <1>1, <1>2, FrameBytesType
<1>4. /\ r \in Seq(Bytes(W)) /\ Len(r) = n - FrameBytes
      /\ \A i \in 1..n - FrameBytes : r[i] = bytes[FrameBytes + i]
  <2>1. r \in Seq(Bytes(W))
    BY <1>1, <1>2, FrameBytesType
  <2>2. Len(r) = n - FrameBytes
    BY <1>1, <1>2, FrameBytesType
  <2>3. ASSUME NEW i \in 1..n - FrameBytes PROVE r[i] = bytes[FrameBytes + i]
    BY <1>1, <1>2, FrameBytesType
  <2> QED
    BY <2>1, <2>2, <2>3
<1> HIDE DEF f, r, n
<1>5. bytes = f \o r
  <2> DEFINE c == f \o r
  <2>1. /\ c \in Seq(Bytes(W)) /\ Len(c) = FrameBytes + Len(r)
        /\ \A i \in 1..FrameBytes + Len(r) :
             c[i] = IF i <= FrameBytes THEN f[i] ELSE r[i - FrameBytes]
    BY <1>3, <1>4, ConcatProperties, ZenonT(90)
  <2> HIDE DEF c
  <2>2. Len(c) = n /\ Len(bytes) = n
    BY <1>2, <1>4, <2>1, FrameBytesType DEF n
  <2>3. ASSUME NEW i \in 1..Len(bytes) PROVE bytes[i] = c[i]
    <3>1. CASE i <= FrameBytes
      BY <1>3, <2>1, <2>2, <3>1, FrameBytesType
    <3>2. CASE ~(i <= FrameBytes)
      <4>1. i - FrameBytes \in 1..n - FrameBytes /\ FrameBytes + (i - FrameBytes) = i
        BY <1>2, <2>2, <3>2, FrameBytesType
      <4>2. r[i - FrameBytes] = bytes[i]
        BY <1>4, <4>1
      <4> QED
        BY <2>1, <2>2, <3>2, <4>2
    <3> QED
      BY <3>1, <3>2
  <2>4. bytes = c
    BY <1>1, <2>1, <2>2, <2>3, SeqEqual
  <2> QED
    BY <2>4 DEF c
<1>6. /\ items # <<>> /\ f = WireBytes(Head(items))
      /\ Wire(r, Tail(items), W)
  <2>1. Wire(f \o r, items, W)
    BY <1>5
  <2> QED
    BY <1>3, <1>4, <2>1, WireShrinks, Zenon
<1>7. Head(items) \in W
  BY <1>1, <1>6
<1>8. Decode(bytes) = Decode(f)
  <2>1. 1 \in 1..Len(f) /\ WordBytes \in 1..Len(f)
    BY <1>3, RelayAssumption DEF FrameBytes
  <2>2. WordBytes + 1 \in 1..Len(f) /\ FrameBytes \in 1..Len(f)
    BY <1>3, RelayAssumption DEF FrameBytes
  <2>3. SubSeq(bytes, 1, WordBytes) = SubSeq(f, 1, WordBytes)
    BY <1>3, <1>4, <1>5, <2>1, SubSeqOfConcat1
  <2>4. SubSeq(bytes, WordBytes + 1, FrameBytes) = SubSeq(f, WordBytes + 1, FrameBytes)
    BY <1>3, <1>4, <1>5, <2>2, SubSeqOfConcat1
  <2> QED
    BY <2>3, <2>4 DEF Decode
<1>9. Decode(f) = Frame(Head(items))
  BY <1>6, <1>7, WireBytesDecode, Zenon
<1>10. Head(Word(Head(items), "high")).whose = Head(items)
  <2> DEFINE x == Head(items)
  <2> HIDE DEF x
  <2>1. Word(x, "high") = [k \in 1..WordBytes |-> [whose |-> x, half |-> "high", at |-> k]]
    BY DEF Word
  <2>2. Head(Word(x, "high")) = Word(x, "high")[1]
    <3>1. x \in W
      BY <1>7 DEF x
    <3>2. Word(x, "high") \in Seq(Bytes(W)) /\ Len(Word(x, "high")) = WordBytes
      BY <3>1, WordType, Zenon
    <3> QED
      BY <3>2, RelayAssumption
  <2>3. 1 \in 1..WordBytes
    BY RelayAssumption
  <2>4. Word(x, "high")[1] = [whose |-> x, half |-> "high", at |-> 1]
    BY <2>1, <2>3, Zenon
  <2>5. Word(x, "high")[1].whose = x
    BY <2>4
  <2> QED
    BY <2>2, <2>5, Zenon DEF x
<1>11. Head(Decode(bytes).high).whose = Head(items)
  BY <1>8, <1>9, <1>10 DEF Frame
<1> QED
  BY <1>1, <1>6, <1>11 DEF r, n

\* The host reads a frame, and what it reads is the oldest one sent.
LEMMA LineRead ==
  ASSUME HostReads
  PROVE  /\ LineOpen => LineOpen' /\ host' = host
         /\ LineEnds => \/ LineEnds' /\ host' = host
                        \/ LineOpen' /\ host' = [host EXCEPT !.awaits = NoAnswer]
<1>1. ASSUME NEW items, Wire(line, items, AnswerFrames)
      PROVE  /\ items # <<>> /\ items \in Seq(AnswerFrames)
             /\ Wire(line', Tail(items), AnswerFrames)
             /\ host' = IF EndsAnswer(Head(items))
                        THEN [host EXCEPT !.awaits = NoAnswer] ELSE host
  <2>1. line \in Seq(Bytes(AnswerFrames))
    BY <1>1 DEF Wire
  <2>2. ~(line # <<>> /\ Head(line) = Text)
    <3> SUFFICES ASSUME line # <<>>, Head(line) = Text PROVE FALSE
      OBVIOUS
    <3>1. Head(line) \in Bytes(AnswerFrames)
      BY <2>1
    <3>2. Head(line).half \in {"high", "low"}
      BY <3>1 DEF Bytes
    <3> QED
      BY <3>2 DEF Text
  <2>3. /\ Len(line) >= FrameBytes
        /\ line' = SubSeq(line, FrameBytes + 1, Len(line))
        /\ host' = IF EndsAnswer(Head(Decode(line).high).whose)
                   THEN [host EXCEPT !.awaits = NoAnswer] ELSE host
    BY <2>2 DEF HostReads
  <2> QED
    BY <1>1, <2>3, LineSplits
<1>2. ASSUME LineOpen PROVE LineOpen' /\ host' = host
  <2>1. PICK items : /\ Wire(line, items, AnswerFrames)
                     /\ \A i \in 1..Len(items) : ~EndsAnswer(items[i])
    BY <1>2 DEF LineOpen
  <2>2. /\ items # <<>> /\ items \in Seq(AnswerFrames)
        /\ Wire(line', Tail(items), AnswerFrames)
        /\ host' = IF EndsAnswer(Head(items))
                   THEN [host EXCEPT !.awaits = NoAnswer] ELSE host
    BY <1>1, <2>1
  <2>3. /\ Head(items) = items[1] /\ 1 \in 1..Len(items)
        /\ \A i \in 1..Len(Tail(items)) :
             i + 1 \in 1..Len(items) /\ Tail(items)[i] = items[i + 1]
    BY <2>2
  <2> QED
    BY <2>1, <2>2, <2>3 DEF LineOpen
<1>3. ASSUME LineEnds
      PROVE  \/ LineEnds' /\ host' = host
             \/ LineOpen' /\ host' = [host EXCEPT !.awaits = NoAnswer]
  <2>1. PICK items : /\ Wire(line, items, AnswerFrames)
                     /\ EndsAnswer(items[Len(items)])
                     /\ \A i \in 1..Len(items) - 1 : ~EndsAnswer(items[i])
    BY <1>3 DEF LineEnds
  <2>2. /\ items # <<>> /\ items \in Seq(AnswerFrames)
        /\ Wire(line', Tail(items), AnswerFrames)
        /\ host' = IF EndsAnswer(Head(items))
                   THEN [host EXCEPT !.awaits = NoAnswer] ELSE host
    BY <1>1, <2>1
  <2>3. /\ Head(items) = items[1] /\ Len(items) \in Nat \ {0}
        /\ Len(Tail(items)) = Len(items) - 1
        /\ Tail(items) \in Seq(AnswerFrames)
        /\ \A i \in 1..Len(Tail(items)) :
             i + 1 \in 1..Len(items) /\ Tail(items)[i] = items[i + 1]
    BY <2>2
  <2>4. \A i \in 1..Len(Tail(items)) - 1 : ~EndsAnswer(Tail(items)[i])
    BY <2>1, <2>3
  <2>5. CASE Len(items) = 1
    <3>1. EndsAnswer(Head(items))
      BY <2>1, <2>3, <2>5
    <3>2. \A i \in 1..Len(Tail(items)) : ~EndsAnswer(Tail(items)[i])
      BY <2>3, <2>5
    <3> QED
      BY <2>2, <3>1, <3>2 DEF LineOpen
  <2>6. CASE Len(items) # 1
    <3>1. ~EndsAnswer(Head(items))
      BY <2>1, <2>3, <2>6
    <3>2. Tail(items) # <<>>
      <4>1. Len(Tail(items)) # 0
        BY <2>3, <2>6
      <4> QED
        BY <4>1, EmptySeq
    <3>3. EndsAnswer(Tail(items)[Len(Tail(items))])
      <4>1. Len(Tail(items)) \in 1..Len(Tail(items))
            /\ Len(Tail(items)) + 1 = Len(items)
        BY <2>3, <2>6
      <4> QED
        BY <2>1, <2>3, <4>1
    <3> QED
      BY <2>2, <2>4, <3>1, <3>2, <3>3 DEF LineEnds
  <2> QED
    BY <2>5, <2>6
<1> QED
  BY <1>2, <1>3

(***************************************************************************)
(* The FIFOs.                                                              *)
(***************************************************************************)

\* The first frame of a FIFO, and those that are left.
LEMMA Taken ==
  ASSUME NEW S, NEW s \in Seq(S), s # <<>>
  PROVE  /\ Head(s) \in S /\ Head(s) = s[1]
         /\ Tail(s) \in Seq(S) /\ Len(s) \in Nat \ {0}
         /\ Len(Tail(s)) = Len(s) - 1
         /\ \A i \in 1..Len(Tail(s)) : Tail(s)[i] = s[i + 1]
OBVIOUS

\* A frame at the end of a FIFO, and those before it.
LEMMA Added ==
  ASSUME NEW S, NEW s \in Seq(S), NEW x \in S
  PROVE  /\ Append(s, x) \in Seq(S) /\ Append(s, x) # <<>>
         /\ Len(s) \in Nat /\ Len(Append(s, x)) = Len(s) + 1
         /\ Append(s, x)[Len(s) + 1] = x
         /\ \A i \in 1..Len(s) : Append(s, x)[i] = s[i]
<1>1. /\ Append(s, x) \in Seq(S)
      /\ Len(s) \in Nat /\ Len(Append(s, x)) = Len(s) + 1
      /\ Append(s, x)[Len(s) + 1] = x
      /\ \A i \in 1..Len(s) : Append(s, x)[i] = s[i]
  OBVIOUS
<1>2. Append(s, x) # <<>>
  BY <1>1
<1> QED
  BY <1>1, <1>2

\* A data frame in the downlink FIFO is no request and hides none.
LEMMA DataComes ==
  ASSUME down \in Seq(RelayDown), NEW f \in RelayDown, ~IsControl(f),
         down' = Append(down, f)
  PROVE  (ControlWaiting' <=> ControlWaiting) /\ (OneWaits => OneWaits')
<1>1. /\ Len(down) \in Nat /\ Len(down') = Len(down) + 1
      /\ down'[Len(down) + 1] = f
      /\ \A i \in 1..Len(down) : down'[i] = down[i]
  BY Added
<1>2. ASSUME NEW i \in 1..Len(down'), IsControl(down'[i])
      PROVE  i \in 1..Len(down) /\ down'[i] = down[i]
  BY <1>1, <1>2
<1>3. \A i \in 1..Len(down) : i \in 1..Len(down')
  BY <1>1
<1>4. ControlWaiting' <=> ControlWaiting
  BY <1>1, <1>2, <1>3 DEF ControlWaiting
<1>5. ASSUME OneWaits PROVE OneWaits'
  <2>1. PICK k \in 1..Len(down) :
          IsControl(down[k]) /\ \A j \in 1..Len(down) : j # k => ~IsControl(down[j])
    BY <1>5 DEF OneWaits
  <2>2. \A j \in 1..Len(down') : j # k => ~IsControl(down'[j])
    BY <1>2, <2>1
  <2> QED
    BY <1>1, <1>3, <2>1, <2>2 DEF OneWaits
<1> QED
  BY <1>4, <1>5

\* Nor does a data frame that leaves the FIFO change what is asked.
LEMMA DataGoes ==
  ASSUME down \in Seq(RelayDown), down # <<>>, ~IsControl(Head(down)),
         down' = Tail(down)
  PROVE  (ControlWaiting' <=> ControlWaiting) /\ (OneWaits => OneWaits')
<1>1. /\ Head(down) = down[1] /\ Len(down) \in Nat \ {0}
      /\ Len(down') = Len(down) - 1
      /\ \A i \in 1..Len(down') : down'[i] = down[i + 1]
  BY Taken
<1>2. \A i \in 1..Len(down') : i + 1 \in 1..Len(down) /\ down'[i] = down[i + 1]
  BY <1>1
<1>3. ASSUME NEW i \in 1..Len(down), IsControl(down[i])
      PROVE  i - 1 \in 1..Len(down') /\ down'[i - 1] = down[i]
  <2>1. i # 1
    BY <1>1, <1>3
  <2>2. i - 1 \in 1..Len(down') /\ (i - 1) + 1 = i
    BY <1>1, <2>1
  <2> QED
    BY <1>1, <2>2
<1>4. ControlWaiting' <=> ControlWaiting
  <2>1. ASSUME ControlWaiting PROVE ControlWaiting'
    <3>1. PICK i \in 1..Len(down) : IsControl(down[i])
      BY <2>1 DEF ControlWaiting
    <3> QED
      BY <1>3, <3>1 DEF ControlWaiting
  <2>2. ASSUME ControlWaiting' PROVE ControlWaiting
    <3>1. PICK i \in 1..Len(down') : IsControl(down'[i])
      BY <2>2 DEF ControlWaiting
    <3> QED
      BY <1>2, <3>1 DEF ControlWaiting
  <2> QED
    BY <2>1, <2>2
<1>5. ASSUME OneWaits PROVE OneWaits'
  <2>1. PICK k \in 1..Len(down) :
          IsControl(down[k]) /\ \A j \in 1..Len(down) : j # k => ~IsControl(down[j])
    BY <1>5 DEF OneWaits
  <2>2. k - 1 \in 1..Len(down') /\ down'[k - 1] = down[k]
    BY <1>3, <2>1
  <2>3. ASSUME NEW j \in 1..Len(down'), j # k - 1 PROVE ~IsControl(down'[j])
    <3>1. j + 1 \in 1..Len(down) /\ j + 1 # k /\ down'[j] = down[j + 1]
      BY <1>2, <2>1, <2>3
    <3> QED
      BY <2>1, <3>1
  <2> QED
    BY <2>1, <2>2, <2>3 DEF OneWaits
<1> QED
  BY <1>4, <1>5

\* The first request of one that waits is the last.
LEMMA OneGoes ==
  ASSUME down \in Seq(RelayDown), down # <<>>, IsControl(Head(down)), OneWaits,
         down' = Tail(down)
  PROVE  ~ControlWaiting'
<1>1. /\ Head(down) = down[1] /\ Len(down) \in Nat \ {0}
      /\ Len(down') = Len(down) - 1
      /\ \A i \in 1..Len(down') : down'[i] = down[i + 1]
  BY Taken
<1>2. PICK k \in 1..Len(down) :
        IsControl(down[k]) /\ \A j \in 1..Len(down) : j # k => ~IsControl(down[j])
  BY DEF OneWaits
<1>3. k = 1
  BY <1>1, <1>2
<1>4. ASSUME NEW i \in 1..Len(down') PROVE ~IsControl(down'[i])
  <2>1. i + 1 \in 1..Len(down) /\ i + 1 # 1
    BY <1>1
  <2> QED
    BY <1>1, <1>2, <1>3, <2>1
<1> QED
  BY <1>4 DEF ControlWaiting

\* A request that is written while none waits is the only one.
LEMMA OneComesAlone ==
  ASSUME down \in Seq(RelayDown), NEW f \in RelayDown, IsControl(f),
         down' = Append(down, f), ~ControlWaiting
  PROVE  OneWaits'
<1>1. /\ Len(down) \in Nat /\ Len(down') = Len(down) + 1
      /\ down'[Len(down) + 1] = f
      /\ \A i \in 1..Len(down) : down'[i] = down[i]
  BY Added
<1>2. ASSUME NEW j \in 1..Len(down'), j # Len(down) + 1 PROVE ~IsControl(down'[j])
  <2>1. j \in 1..Len(down)
    BY <1>1, <1>2
  <2> QED
    BY <1>1, <2>1 DEF ControlWaiting
<1>3. Len(down) + 1 \in 1..Len(down')
  BY <1>1
<1> QED
  BY <1>1, <1>2, <1>3 DEF OneWaits

\* What emitting a frame does to the uplink FIFO and the answer.
LEMMA Emitted ==
  ASSUME LinkTypes, NEW x \in AnswerFrames, Emit(x)
  PROVE  /\ up' \in Seq(AnswerFrames) /\ answer' \in Seq(AnswerFrames)
         /\ Len(up) \in Nat /\ Len(up') = Len(up) + 1
         /\ up'[Len(up) + 1] = x
         /\ \A i \in 1..Len(up) : up'[i] = up[i]
         /\ up' # <<>>
<1>1. up \in Seq(AnswerFrames) /\ answer \in Seq(AnswerFrames)
  BY DEF LinkTypes
<1>2. up' = Append(up, x) /\ answer' = Append(answer, x)
  BY DEF Emit
<1> QED
  BY <1>1, <1>2, Added

(***************************************************************************)
(* Steps that leave requests and answers where they are.                   *)
(***************************************************************************)

\* With the link and the handler as they are, only the place of main counts.
LEMMA LinkUntouched ==
  ASSUME Ordered, ~overflow', pc' # "reporting", finished' => finished,
         UNCHANGED <<down, up, irqPending, chip, answer, testing, isr, line,
                     written, kind>>,
         host'.sent = host.sent, host'.awaits = host.awaits,
         pc' \in {"forward", "storing"} => pc \in {"forward", "storing"},
         pc' = "waiting" => pc = "waiting"
  PROVE  Ordered'
<1>1. LinkTypes' /\ HandlerTypes' /\ NoText'
  BY DEF Ordered, LinkTypes, HandlerTypes, NoText
<1>2. Quiet' = Quiet /\ ControlWaiting' = ControlWaiting /\ OneWaits' = OneWaits
      /\ Rest' = Rest
  BY DEF Quiet, ControlWaiting, OneWaits, Rest, TestTail, WholeTest, ControlTail
<1>3. NoneComes' = NoneComes /\ OneComes' = OneComes
      /\ LineOpen' = LineOpen /\ LineEnds' = LineEnds
  BY DEF NoneComes, OneComes, Coming, LineOpen, LineEnds
<1>4. Phases'
  BY <1>2, <1>3 DEF Ordered, Phases, Resting, Asked, Answering, Underway
<1>5. Awaited'
  BY <1>2 DEF Ordered, Awaited
<1> QED
  BY <1>1, <1>4, <1>5 DEF Ordered

\* These steps move bytes of the host and the place of main, no request and no answer.
LEMMA IdleSteps ==
  ASSUME Ordered, ~lost', ~lost,
         \/ UartInterrupt \/ Boot \/ GetByte \/ GetNothing \/ EnterCritical
         \/ WaitForTimestep \/ HostSendsByte \/ UNCHANGED vars
  PROVE  Ordered'
<1>0. ~overflow /\ pc # "reporting"
  BY DEF Ordered, NoText
<1>1. CASE UartInterrupt
  <2>1. ~overflow'
    BY <1>0, <1>1 DEF UartInterrupt
  <2> QED
    BY <1>0, <1>1, <2>1, LinkUntouched DEF UartInterrupt, testVars, nocVars
<1>2. CASE Boot
  BY <1>0, <1>2, LinkUntouched DEF Boot, hostVars, history
<1>3. CASE GetByte
  BY <1>0, <1>3, LinkUntouched DEF GetByte, testVars, nocVars, hostVars, history
<1>4. CASE EnterCritical
  BY <1>0, <1>4, LinkUntouched
     DEF EnterCritical, At, testVars, nocVars, hostVars, history
<1>5. CASE WaitForTimestep
  BY <1>0, <1>5, LinkUntouched
     DEF WaitForTimestep, testVars, nocVars, hostVars, history
<1>6. CASE HostSendsByte
  <2>1. host'.sent = host.sent /\ host'.awaits = host.awaits
    BY <1>6 DEF HostSendsByte
  <2> QED
    BY <1>0, <1>6, <2>1, LinkUntouched
       DEF HostSendsByte, relayVars, testVars, nocVars
<1>7. CASE GetNothing \/ UNCHANGED vars
  <2>1. UNCHANGED vars
    BY <1>7 DEF GetNothing
  <2> QED
    BY <1>0, <2>1, LinkUntouched
       DEF vars, relayVars, testVars, nocVars, hostVars, history
<1> QED
  BY <1>1, <1>2, <1>3, <1>4, <1>5, <1>6, <1>7

(***************************************************************************)
(* Steps of the main program and of the host.                              *)
(***************************************************************************)

\* Data frames pass without a request or an answer noticing.
LEMMA DataPasses ==
  ASSUME Phases, ControlWaiting' <=> ControlWaiting, OneWaits => OneWaits',
         NoneComes => NoneComes', OneComes => OneComes',
         UNCHANGED <<up, irqPending, chip, testing, isr, line>>,
         host'.awaits = host.awaits
  PROVE  Phases'
<1>1. (Quiet' <=> Quiet) /\ (Rest' <=> Rest)
      /\ (LineOpen' <=> LineOpen) /\ (LineEnds' <=> LineEnds)
  BY DEF Quiet, Rest, TestTail, WholeTest, ControlTail, LineOpen, LineEnds
<1>2. CASE Resting
  <2>1. Resting'
    BY <1>1, <1>2 DEF Resting
  <2> QED
    BY <2>1 DEF Phases
<1>3. CASE Asked
  <2>1. Asked'
    BY <1>1, <1>3 DEF Asked, Underway
  <2> QED
    BY <2>1 DEF Phases
<1>4. CASE Answering
  <2>1. Answering'
    BY <1>1, <1>4 DEF Answering, Underway
  <2> QED
    BY <2>1 DEF Phases
<1> QED
  BY <1>2, <1>3, <1>4 DEF Phases

\* send_config_frames writes data frames.
LEMMA Configures ==
  ASSUME Ordered, Configure
  PROVE  Ordered'
<1>0. /\ ~overflow /\ pc = "configuring" /\ pc' \in {"configuring", "get"}
      /\ UNCHANGED <<up, irqPending, irqEnabled, chip, answer, frame, kind, rx,
                     overflow, finished, isr, testing, fifo, line, host,
                     written, lost, reported>>
  BY DEF Ordered, NoText, Configure, At, hostVars, history
<1>1. CASE UNCHANGED down
  BY <1>0, <1>1, LinkUntouched
<1>2. CASE down' = Append(down, DataFrame)
  <2>1. /\ down \in Seq(RelayDown) /\ DataFrame \in RelayDown
        /\ ~IsControl(DataFrame)
    BY DEF Ordered, LinkTypes, RelayDown, DataFrame, IsControl, Kinds
  <2>2. (ControlWaiting' <=> ControlWaiting) /\ (OneWaits => OneWaits')
    BY <1>2, <2>1, DataComes
  <2>3. NoneComes' = NoneComes /\ OneComes' = OneComes
    BY <1>0 DEF NoneComes, OneComes, Coming
  <2>4. Phases'
    BY <1>0, <2>2, <2>3, DataPasses DEF Ordered
  <2>5. down' \in Seq(RelayDown)
    BY <1>2, <2>1
  <2>6. LinkTypes' /\ HandlerTypes' /\ NoText' /\ Awaited'
    BY <1>0, <2>5 DEF Ordered, LinkTypes, HandlerTypes, NoText, Awaited
  <2> QED
    BY <2>4, <2>6 DEF Ordered
<1> QED
  BY <1>1, <1>2 DEF Configure, WriteFrame

\* The host begins a frame: a request only when it waits for no answer.
LEMMA HostBegins ==
  ASSUME Ordered, Framing, NEW k \in Kinds, HostBeginsFrame(k)
  PROVE  Ordered'
<1> DEFINE n == Len(host.sent)
           w == Len(written)
<1>1. /\ host'.sent = Append(host.sent, k)
      /\ host'.awaits = IF k = "data" THEN host.awaits ELSE k
      /\ k # "data" => host.awaits = NoAnswer
      /\ UNCHANGED <<down, up, irqPending, irqEnabled, chip, answer, testing,
                     pc, kind, overflow, finished, isr, line, written>>
  BY DEF HostBeginsFrame, testVars, nocVars, relayVars, history
<1>2. host.sent \in Seq(Kinds) /\ n \in Nat /\ w \in Nat /\ w <= n
  <2>1. host.sent \in Seq(Kinds)
    BY DEF Framing, StreamTypes
  <2>2. w \in Nat /\ w <= n
    BY DEF Framing, Stream
  <2> QED
    BY <2>1, <2>2
<1>3. /\ Len(host'.sent) = n + 1 /\ host'.sent[n + 1] = k
      /\ \A i \in 1..n : host'.sent[i] = host.sent[i]
  BY <1>1, <1>2
<1>4. Len(written') = w
  BY <1>1
<1> HIDE DEF n, w
<1>5. /\ Coming = w + 1..n /\ Coming' = w + 1..n + 1
      /\ n + 1 \in Coming' /\ n + 1 \notin Coming
      /\ \A i \in Coming : i \in Coming' /\ i \in 1..n
      /\ \A i \in Coming' : i # n + 1 => i \in Coming
  <2>1. Coming = w + 1..n /\ Coming' = w + 1..n + 1
    BY <1>3, <1>4 DEF Coming, n, w
  <2> QED
    BY <1>2, <2>1
<1>6. LinkTypes' /\ HandlerTypes' /\ NoText'
  BY <1>1 DEF Ordered, LinkTypes, HandlerTypes, NoText
<1>7. Awaited'
  <2>1. Quiet' <=> Quiet
    BY <1>1 DEF Quiet, ControlWaiting
  <2>2. ASSUME w < n PROVE w < n + 1 /\ host'.sent[w + 1] = host.sent[w + 1]
    BY <1>2, <1>3, <2>2
  <2> QED
    BY <1>1, <1>3, <1>4, <2>1, <2>2 DEF Ordered, Awaited, n, w
<1>8. CASE k = "data"
  <2>1. NoneComes => NoneComes'
    BY <1>3, <1>5, <1>8 DEF NoneComes
  <2>2. ASSUME OneComes PROVE OneComes'
    <3>1. PICK c \in Coming : /\ host.sent[c] # "data"
                              /\ \A i \in Coming : i # c => host.sent[i] = "data"
      BY <2>2 DEF OneComes
    <3>2. c \in Coming' /\ host'.sent[c] # "data"
      BY <1>3, <1>5, <3>1
    <3>3. \A i \in Coming' : i # c => host'.sent[i] = "data"
      BY <1>3, <1>5, <1>8, <3>1
    <3> QED
      BY <3>2, <3>3 DEF OneComes
  <2>3. (ControlWaiting' <=> ControlWaiting) /\ (OneWaits => OneWaits')
    BY <1>1 DEF ControlWaiting, OneWaits
  <2>4. host'.awaits = host.awaits
    BY <1>1, <1>8
  <2>5. Phases'
    BY <1>1, <2>1, <2>2, <2>3, <2>4, DataPasses DEF Ordered
  <2> QED
    BY <1>6, <1>7, <2>5 DEF Ordered
<1>9. CASE k # "data"
  <2>1. host.awaits = NoAnswer /\ host'.awaits # NoAnswer
    BY <1>1, <1>9 DEF Kinds, NoAnswer
  <2>2. /\ Quiet /\ NoneComes /\ LineOpen
        /\ IF isr.active THEN isr.done ELSE ~irqPending
    BY <2>1 DEF Ordered, Phases, Resting, Asked, Answering, Underway
  <2>3. Quiet' /\ LineOpen' /\ IF isr'.active THEN isr'.done ELSE ~irqPending'
    BY <1>1, <2>2 DEF Quiet, ControlWaiting, LineOpen
  <2>4. OneComes'
    <3>1. \A i \in Coming' : i # n + 1 => host'.sent[i] = "data"
      BY <1>3, <1>5, <2>2 DEF NoneComes
    <3>2. n + 1 \in Coming' /\ host'.sent[n + 1] # "data"
      BY <1>3, <1>5, <1>9
    <3> QED
      BY <3>1, <3>2 DEF OneComes
  <2>5. Resting'
    BY <2>1, <2>3, <2>4 DEF Resting
  <2> QED
    BY <1>6, <1>7, <2>5 DEF Ordered, Phases
<1> QED
  BY <1>8, <1>9

\* The next frame of the host is the one in frame_bytes.
LEMMA NextFrame ==
  ASSUME Framing, pc \in {"decode", "forward", "storing"}
  PROVE  /\ Len(written) \in Nat /\ Len(written) < Len(host.sent)
         /\ Decode(frame) = Frame(Len(written) + 1)
<1> DEFINE w == Len(written)
           rest == rx \o (fifo \o host.left)
<1>1. /\ frame \in Seq(HostBytes) /\ rest \in Seq(HostBytes)
      /\ Len(frame) = FrameBytes
      /\ Stream(frame \o rest, w, Len(host.sent))
  BY PipeParts DEF Framing, StreamTypes, Pipe
<1>2. w \in Nat
  BY DEF Framing, Stream
<1> HIDE DEF w, rest
<1>3. w < Len(host.sent) /\ frame = WireBytes(w + 1)
  BY <1>1, StreamShrinks, ZenonT(30)
<1>4. w + 1 \in Nat
  BY <1>2
<1>5. Decode(WireBytes(w + 1)) = Frame(w + 1)
  BY <1>4, WireBytesDecode, Zenon
<1> QED
  BY <1>2, <1>3, <1>5 DEF w

\* The first byte of a frame tells its kind.
LEMMA KindShown ==
  ASSUME NEW i \in Nat
  PROVE  LooksLike(Frame(i)) = {host.sent[i]}
<1>1. Word(i, "high") = [k \in 1..WordBytes |-> [whose |-> i, half |-> "high", at |-> k]]
  BY DEF Word
<1>2. Word(i, "high") \in Seq(Bytes(Nat)) /\ Len(Word(i, "high")) = WordBytes
  BY WordType, Zenon
<1>3. Head(Word(i, "high")) = Word(i, "high")[1] /\ 1 \in 1..WordBytes
  BY <1>2, RelayAssumption
<1>4. Head(Word(i, "high")) = [whose |-> i, half |-> "high", at |-> 1]
  BY <1>1, <1>3, Zenon
<1>5. Frame(i).high = Word(i, "high")
  BY DEF Frame
<1>6. ShowsKind(Frame(i)) /\ Head(Frame(i).high).whose = i
  BY <1>4, <1>5 DEF ShowsKind
<1> QED
  BY <1>6 DEF LooksLike

\* A SYNC clears the flag before it is written.
LEMMA Decodes ==
  ASSUME Ordered, Framing, DecodeFrame
  PROVE  Ordered'
<1>1. /\ pc = "decode" /\ ~isr.active /\ pc' = "forward"
      /\ kind' \in LooksLike(Decode(frame))
      /\ finished' = (finished /\ ~ClearsFinished(kind'))
      /\ UNCHANGED <<down, up, irqPending, irqEnabled, chip, answer, testing,
                     overflow, isr, line, host, written>>
  BY DEF DecodeFrame, At, testVars, nocVars, hostVars, history
<1>2. Len(written) \in Nat /\ Len(written) < Len(host.sent)
      /\ Decode(frame) = Frame(Len(written) + 1)
  BY <1>1, NextFrame
<1>3. kind' = host.sent[Len(written) + 1] /\ kind' \in Kinds
  <2>1. Len(written) + 1 \in Nat /\ Len(written) + 1 \in 1..Len(host.sent)
    BY <1>2
  <2>2. LooksLike(Frame(Len(written) + 1)) = {host.sent[Len(written) + 1]}
    BY <2>1, KindShown
  <2>3. host.sent \in Seq(Kinds)
    BY DEF Framing, StreamTypes
  <2> QED
    BY <1>1, <1>2, <2>1, <2>2, <2>3
<1>4. LinkTypes' /\ HandlerTypes' /\ NoText'
  BY <1>1, <1>3 DEF Ordered, LinkTypes, HandlerTypes, NoText
<1>5. Phases'
  <2>1. (NoneComes' <=> NoneComes) /\ (OneComes' <=> OneComes)
        /\ (ControlWaiting' <=> ControlWaiting) /\ (OneWaits' <=> OneWaits)
    BY <1>1 DEF NoneComes, OneComes, Coming, ControlWaiting, OneWaits
  <2> QED
    BY <1>1, <2>1, DataPasses DEF Ordered
<1>6. Awaited'
  <2>1. kind' = "sync" => ~finished'
    BY <1>1 DEF ClearsFinished
  <2> QED
    BY <1>1, <1>2, <1>3, <2>1 DEF Awaited
<1> QED
  BY <1>4, <1>5, <1>6 DEF Ordered

\* What writing the next frame to the NoC leaves to come.
LEMMA OneFewerComes ==
  ASSUME Framing, Len(written) < Len(host.sent), host' = host,
         Len(written') = Len(written) + 1
  PROVE  /\ NoneComes => NoneComes' /\ host.sent[Len(written) + 1] = "data"
         /\ OneComes => IF host.sent[Len(written) + 1] = "data"
                        THEN OneComes' ELSE NoneComes'
<1> DEFINE n == Len(host.sent)
           w == Len(written)
<1>1. n \in Nat /\ w \in Nat /\ w < n
  BY DEF Framing, Stream
<1>2. Coming = w + 1..n /\ Coming' = w + 2..n
  BY <1>1 DEF Coming
<1>3. w + 1 \in Coming /\ \A i : i \in Coming' <=> i \in Coming /\ i # w + 1
  BY <1>1, <1>2
<1> HIDE DEF n, w
<1>4. NoneComes => NoneComes' /\ host.sent[w + 1] = "data"
  BY <1>3 DEF NoneComes
<1>5. ASSUME OneComes
      PROVE  IF host.sent[w + 1] = "data" THEN OneComes' ELSE NoneComes'
  <2>1. PICK c \in Coming : /\ host.sent[c] # "data"
                            /\ \A i \in Coming : i # c => host.sent[i] = "data"
    BY <1>5 DEF OneComes
  <2>2. CASE c = w + 1
    <3>1. NoneComes'
      BY <1>3, <2>1, <2>2 DEF NoneComes
    <3> QED
      BY <2>1, <2>2, <3>1
  <2>3. CASE c # w + 1
    <3>1. host.sent[w + 1] = "data"
      BY <1>3, <2>1, <2>3
    <3>2. OneComes'
      BY <1>3, <2>1, <2>3 DEF OneComes
    <3> QED
      BY <3>1, <3>2
  <2> QED
    BY <2>2, <2>3
<1> QED
  BY <1>4, <1>5 DEF w

\* A request is written when the chip and the handler rest.
LEMMA Stores ==
  ASSUME Ordered, Framing, StoreFrame
  PROVE  Ordered'
<1> DEFINE w == Len(written)
<1>1. /\ pc = "storing" /\ ~isr.active
      /\ written' = Append(written, Decode(frame))
      /\ pc' = IF kind = "sync" THEN "waiting" ELSE "get"
      /\ UNCHANGED <<up, irqPending, irqEnabled, chip, answer, testing, kind,
                     overflow, finished, isr, line, host>>
  BY DEF StoreFrame, At, hostVars
<1>2. PICK f \in RelayDown : f.kind = kind /\ down' = Append(down, f)
  <2>1. PICK n \in 0..TestOut : down' = Append(down, [kind |-> kind, steps |-> n])
    BY DEF StoreFrame, WriteFrame
  <2>2. [kind |-> kind, steps |-> n] \in RelayDown
    <3>1. n \in Nat
      BY RelayAssumption
    <3> QED
      BY <3>1 DEF Ordered, HandlerTypes, RelayDown
  <2> QED
    BY <2>1, <2>2
<1>3. Len(written') = w + 1
  BY DEF StoreFrame, Framing, StreamTypes
<1>4. w < Len(host.sent) /\ kind = host.sent[w + 1]
      /\ (kind = "sync" => ~finished)
  BY <1>1 DEF Ordered, Awaited
<1>5. /\ NoneComes => NoneComes' /\ kind = "data"
      /\ OneComes => IF kind = "data" THEN OneComes' ELSE NoneComes'
  BY <1>1, <1>3, <1>4, OneFewerComes
<1>6. down \in Seq(RelayDown) /\ down' \in Seq(RelayDown)
  BY <1>2 DEF Ordered, LinkTypes
<1>7. LinkTypes' /\ HandlerTypes' /\ NoText'
  BY <1>1, <1>6 DEF Ordered, LinkTypes, HandlerTypes, NoText
<1>8. Awaited'
  BY <1>1, <1>4 DEF Awaited
<1>9. CASE kind = "data"
  <2>1. (ControlWaiting' <=> ControlWaiting) /\ (OneWaits => OneWaits')
    BY <1>2, <1>6, <1>9, DataComes DEF IsControl
  <2>2. Phases'
    BY <1>1, <1>5, <1>9, <2>1, DataPasses DEF Ordered
  <2> QED
    BY <1>7, <1>8, <2>2 DEF Ordered
<1>10. CASE kind # "data"
  <2>1. ~NoneComes
    BY <1>5, <1>10
  <2>2. Quiet /\ ~irqPending /\ host.awaits # NoAnswer /\ OneComes /\ LineOpen
    BY <1>1, <2>1 DEF Ordered, Phases, Resting, Asked, Answering, Underway
  <2>3. NoneComes'
    BY <1>5, <1>10, <2>2
  <2>4. OneWaits'
    BY <1>2, <1>6, <1>10, <2>2, OneComesAlone DEF Quiet, IsControl
  <2>5. LineOpen'
    BY <1>1, <2>2 DEF LineOpen
  <2>6. Asked'
    BY <1>1, <2>2, <2>3, <2>4, <2>5 DEF Asked, Underway, Quiet
  <2> QED
    BY <1>7, <1>8, <2>6 DEF Ordered, Phases
<1> QED
  BY <1>9, <1>10

(***************************************************************************)
(* The NoC handler.                                                        *)
(***************************************************************************)

\* With no request to come, the frame on its way to the NoC is a data frame.
LEMMA DataOnItsWay ==
  ASSUME Awaited, NoneComes, Framing, pc \in {"forward", "storing"}
  PROVE  kind # "sync"
<1>1. Len(written) \in Nat /\ Len(host.sent) \in Nat
  BY DEF Framing, Stream
<1>2. Len(written) < Len(host.sent) /\ kind = host.sent[Len(written) + 1]
  BY DEF Awaited
<1>3. Len(written) + 1 \in Coming
  BY <1>1, <1>2 DEF Coming
<1> QED
  BY <1>2, <1>3 DEF NoneComes

\* The interrupt comes with an answer only.
LEMMA Enters ==
  ASSUME Ordered, Framing, EnterHandler
  PROVE  Ordered'
<1>1. /\ ~isr.active /\ irqPending /\ isr' = [NoHandler EXCEPT !.active = TRUE]
      /\ UNCHANGED <<down, up, chip, answer, pc, kind, overflow, finished,
                     testing, line, host, written>>
  BY DEF EnterHandler, hostVars, history
<1>2. isr = NoHandler
  BY <1>1 DEF Ordered, HandlerTypes
<1>3. /\ isr' = [active |-> TRUE, done |-> FALSE, test |-> FALSE, remaining |-> 0]
      /\ ~isr.test /\ ~isr.done
  BY <1>1, <1>2 DEF NoHandler
<1>4. Answering
  BY <1>1 DEF Ordered, Phases, Resting, Asked
<1>5. Underway' /\ ~ControlWaiting'
  BY <1>1, <1>4 DEF Answering, Underway, NoneComes, Coming, LineOpen, ControlWaiting
<1>6. Rest'
  <2>1. ~isr'.test
    BY <1>3
  <2>2. (WholeTest' <=> WholeTest) /\ (ControlTail' <=> ControlTail) /\ ~TestTail
    BY <1>1, <1>3, <2>1 DEF WholeTest, ControlTail, TestTail
  <2> QED
    BY <1>1, <1>4, <2>2 DEF Rest, Answering
<1>7. Phases'
  BY <1>3, <1>5, <1>6 DEF Phases, Answering
<1>8. LinkTypes' /\ NoText'
  BY <1>1 DEF Ordered, LinkTypes, NoText
<1>9. HandlerTypes'
  BY <1>1, <1>3 DEF Ordered, HandlerTypes, HandlerState
<1>10. Awaited'
  <2>1. pc \in {"forward", "storing"} => kind # "sync"
    BY <1>4, DataOnItsWay DEF Ordered, Answering, Underway
  <2>2. Quiet' <=> Quiet
    BY <1>1 DEF Quiet, ControlWaiting
  <2> QED
    BY <1>1, <2>1, <2>2 DEF Ordered, Awaited
<1> QED
  BY <1>7, <1>8, <1>9, <1>10 DEF Ordered

\* The handler that is done has forwarded the whole answer.
LEMMA DoneIsQuiet ==
  ASSUME Ordered, isr.done
  PROVE  isr.active /\ Resting /\ Quiet
<1>1. isr.active
  BY DEF Ordered, HandlerTypes, NoHandler
<1> QED
  BY <1>1 DEF Ordered, Phases, Resting, Asked, Answering

\* The handler leaves, and the interrupt it acknowledges stays down.
LEMMA Leaves ==
  ASSUME Ordered, LeaveHandler
  PROVE  Ordered'
<1>1. /\ isr.done /\ finished' = TRUE /\ isr' = NoHandler
      /\ irqPending' \in {FALSE, up # <<>>}
      /\ UNCHANGED <<down, up, chip, answer, pc, kind, overflow, testing,
                     line, host, written>>
  BY DEF LeaveHandler, AckIrq, hostVars, history
<1>2. isr.active /\ Resting /\ Quiet
  BY <1>1, DoneIsQuiet
<1>3. Quiet' /\ ~irqPending'
  BY <1>1, <1>2 DEF Quiet, ControlWaiting
<1>4. (NoneComes' <=> NoneComes) /\ (OneComes' <=> OneComes)
      /\ (LineOpen' <=> LineOpen) /\ (LineEnds' <=> LineEnds)
  BY <1>1 DEF NoneComes, OneComes, Coming, LineOpen, LineEnds
<1>5. ~isr'.active
  BY <1>1 DEF NoHandler
<1>6. Resting'
  BY <1>1, <1>2, <1>3, <1>4, <1>5 DEF Resting
<1>7. LinkTypes' /\ NoText'
  BY <1>1 DEF Ordered, LinkTypes, NoText
<1>8. HandlerTypes'
  BY <1>1 DEF Ordered, HandlerTypes, HandlerState, NoHandler
<1>9. Awaited'
  BY <1>1, <1>2, <1>3 DEF Ordered, Awaited
<1> QED
  BY <1>6, <1>7, <1>8, <1>9 DEF Ordered, Phases

\* The handler's locals in a control answer.
InControl(d, r) == [active |-> TRUE, done |-> d, test |-> FALSE, remaining |-> r]
\* They are well typed, and their fields are these.
LEMMA InControlType ==
  \A d \in BOOLEAN, r \in Nat :
    /\ InControl(d, r) \in HandlerState
    /\ InControl(d, r).active /\ ~InControl(d, r).test
    /\ InControl(d, r).done <=> d
    /\ InControl(d, r).remaining = r
<1> SUFFICES ASSUME NEW d \in BOOLEAN, NEW r \in Nat
             PROVE  /\ InControl(d, r) \in HandlerState
                    /\ InControl(d, r).active /\ ~InControl(d, r).test
                    /\ InControl(d, r).done <=> d
                    /\ InControl(d, r).remaining = r
  BY Zenon
<1>1. InControl(d, r) \in HandlerState
  BY DEF HandlerState, InControl
<1>2. InControl(d, r).active /\ ~InControl(d, r).test
  BY DEF InControl
<1>3. InControl(d, r).done <=> d
  BY DEF InControl
<1>4. InControl(d, r).remaining = r
  BY DEF InControl
<1> QED
  BY <1>1, <1>2, <1>3, <1>4, Zenon

\* The handler's locals in a test response.
InTest(d, r) == [active |-> TRUE, done |-> d, test |-> TRUE, remaining |-> r]
\* They are well typed, and their fields are these.
LEMMA InTestType ==
  \A d \in BOOLEAN, r \in Nat :
    /\ InTest(d, r) \in HandlerState
    /\ InTest(d, r).active /\ InTest(d, r).test
    /\ InTest(d, r).done <=> d
    /\ InTest(d, r).remaining = r
<1> SUFFICES ASSUME NEW d \in BOOLEAN, NEW r \in Nat
             PROVE  /\ InTest(d, r) \in HandlerState
                    /\ InTest(d, r).active /\ InTest(d, r).test
                    /\ InTest(d, r).done <=> d
                    /\ InTest(d, r).remaining = r
  BY Zenon
<1>1. InTest(d, r) \in HandlerState
  BY DEF HandlerState, InTest
<1>2. InTest(d, r).active /\ InTest(d, r).test
  BY DEF InTest
<1>3. InTest(d, r).done <=> d
  BY DEF InTest
<1>4. InTest(d, r).remaining = r
  BY DEF InTest
<1> QED
  BY <1>1, <1>2, <1>3, <1>4, Zenon

\* A frame of a control answer: the COMPLETE is its last.
LEMMA ControlFrame ==
  ASSUME LinkTypes, HandlerTypes, isr.active, ~testing, ControlTail, up # <<>>,
         up' = Tail(up), isr' = AfterFrame(Head(up)), UNCHANGED chip
  PROVE  /\ isr'.active /\ isr' \in HandlerState
         /\ \/ EndsAnswer(Head(up)) /\ isr'.done /\ up' = <<>> /\ ~chip.busy
            \/ ~EndsAnswer(Head(up)) /\ ~isr'.done /\ ControlTail'
<1>1. /\ up \in Seq(AnswerFrames) /\ Head(up) \in AnswerFrames /\ Head(up) = up[1]
      /\ Len(up) \in Nat \ {0} /\ up' \in Seq(AnswerFrames)
      /\ Len(up') = Len(up) - 1
      /\ \A i \in 1..Len(up') : up'[i] = up[i + 1]
  BY Taken DEF LinkTypes
<1>2. /\ ~isr.test
      /\ \A i \in 1..Len(up) :
           up[i].kind = IF chip.busy \/ i < Len(up) THEN "work" ELSE "complete"
  BY DEF ControlTail
<1>3. Head(up).kind = IF chip.busy \/ 1 < Len(up) THEN "work" ELSE "complete"
  BY <1>1, <1>2
<1>4. isr' = [active |-> TRUE, done |-> IsComplete(Head(up)), test |-> FALSE,
              remaining |-> isr.remaining]
  <2> DEFINE complete == IsComplete(Head(up))
  <2>1. Head(up).kind # "header"
    BY <1>3
  <2>2. /\ (isr.test \/ Head(up).kind = "header") = FALSE
        /\ (IF Head(up).kind = "header" THEN Head(up).seq ELSE isr.remaining)
             = isr.remaining
    BY <1>2, <2>1
  <2>3. isr' = [active |-> TRUE,
                done |-> complete \/ (FALSE /\ isr.remaining = 0),
                test |-> FALSE,
                remaining |-> IF FALSE /\ isr.remaining > 0
                              THEN isr.remaining - 1 ELSE isr.remaining]
    BY <2>2, Zenon DEF AfterFrame
  <2>4. complete \in BOOLEAN
    BY DEF IsComplete
  <2> HIDE DEF complete
  <2>5. (complete \/ (FALSE /\ isr.remaining = 0)) = complete
    BY <2>4
  <2>6. (IF FALSE /\ isr.remaining > 0 THEN isr.remaining - 1 ELSE isr.remaining)
          = isr.remaining
    OBVIOUS
  <2> QED
    BY <2>3, <2>5, <2>6, Zenon DEF complete
<1>5. /\ isr' \in HandlerState /\ isr'.active /\ ~isr'.test
      /\ isr'.done <=> IsComplete(Head(up))
      /\ isr'.remaining = isr.remaining
  <2> DEFINE complete == IsComplete(Head(up))
  <2> DEFINE left == isr.remaining
  <2>1. complete \in BOOLEAN /\ left \in Nat
    BY DEF IsComplete, HandlerTypes, HandlerState
  <2>2. isr' = InControl(complete, left)
    BY <1>4, Zenon DEF InControl
  <2> HIDE DEF complete, left
  <2>3. /\ isr' \in HandlerState /\ isr'.active /\ ~isr'.test
        /\ isr'.done <=> complete
        /\ isr'.remaining = left
    BY <2>1, <2>2, InControlType, SMTT(60)
  <2> QED
    BY <2>3, Zenon DEF complete, left
<1>6. CASE chip.busy \/ 1 < Len(up)
  <2>1. ~EndsAnswer(Head(up)) /\ ~isr'.done
    <3>1. Head(up).kind = "work"
      BY <1>3, <1>6
    <3> QED
      BY <1>5, <3>1 DEF EndsAnswer, IsComplete
  <2>2. chip.busy \/ up' # <<>>
    <3>1. CASE 1 < Len(up)
      <4>1. Len(up') # 0
        BY <1>1, <3>1
      <4> QED
        BY <4>1, EmptySeq
    <3> QED
      BY <1>6, <3>1
  <2>3. ASSUME NEW i \in 1..Len(up')
        PROVE  up'[i].kind = IF chip.busy \/ i < Len(up') THEN "work" ELSE "complete"
    <3>1. i + 1 \in 1..Len(up) /\ (i + 1 < Len(up) <=> i < Len(up'))
      BY <1>1
    <3> QED
      BY <1>1, <1>2, <3>1
  <2>4. ControlTail'
    BY <1>5, <2>2, <2>3 DEF ControlTail
  <2> QED
    BY <1>5, <2>1, <2>4
<1>7. CASE ~(chip.busy \/ 1 < Len(up))
  <2>1. EndsAnswer(Head(up)) /\ isr'.done
    <3>1. Head(up).kind = "complete"
      BY <1>3, <1>7
    <3> QED
      BY <1>5, <3>1 DEF EndsAnswer, IsComplete
  <2>2. Len(up') = 0
    BY <1>1, <1>7
  <2>3. up' = <<>>
    BY <1>1, <2>2, EmptySeq
  <2> QED
    BY <1>5, <1>7, <2>1, <2>3
<1> QED
  BY <1>6, <1>7

\* A frame of a test response: the handler stops after as many as the header said.
LEMMA TestFrame ==
  ASSUME LinkTypes, HandlerTypes, isr.active, testing <=> chip.busy,
         TestTail \/ WholeTest, up # <<>>,
         up' = Tail(up), isr' = AfterFrame(Head(up)), UNCHANGED chip
  PROVE  /\ isr'.active /\ isr' \in HandlerState
         /\ \/ EndsAnswer(Head(up)) /\ isr'.done /\ up' = <<>> /\ ~chip.busy
            \/ ~EndsAnswer(Head(up)) /\ ~isr'.done /\ TestTail'
<1>1. /\ up \in Seq(AnswerFrames) /\ Head(up) \in AnswerFrames /\ Head(up) = up[1]
      /\ Len(up) \in Nat \ {0} /\ up' \in Seq(AnswerFrames)
      /\ Len(up') = Len(up) - 1
      /\ \A i \in 1..Len(up') : up'[i] = up[i + 1]
  BY Taken DEF LinkTypes
<1>2. chip.left \in Nat /\ isr.remaining \in Nat
  BY DEF LinkTypes, ChipState, HandlerTypes, HandlerState
<1>3. chip.left = 0 => ~chip.busy
  BY DEF LinkTypes
\* Frames that come after this one.
<1> DEFINE toCome == IF isr.test THEN isr.remaining ELSE Head(up).seq
<1>4. /\ toCome \in Nat /\ Len(up) + chip.left = toCome + 1
      /\ \A i \in 1..Len(up') : up'[i] = Raw(toCome + 1 - i)
      /\ Head(up) = IF isr.test THEN Raw(toCome + 1)
                    ELSE [kind |-> "header", seq |-> toCome]
  <2>1. CASE TestTail
    <3>1. /\ isr.test /\ Len(up) + chip.left = isr.remaining + 1
          /\ \A i \in 1..Len(up) : up[i] = Raw(isr.remaining + 2 - i)
      BY <2>1 DEF TestTail
    <3>2. toCome = isr.remaining
      BY <3>1
    <3>3. ASSUME NEW i \in 1..Len(up') PROVE up'[i] = Raw(toCome + 1 - i)
      <4>1. i + 1 \in 1..Len(up) /\ isr.remaining + 2 - (i + 1) = toCome + 1 - i
        BY <1>1, <1>2, <3>2
      <4>2. up[i + 1] = Raw(isr.remaining + 2 - (i + 1))
        BY <3>1, <4>1
      <4> QED
        BY <1>1, <4>1, <4>2
    <3>4. Head(up) = Raw(toCome + 1)
      <4>1. 1 \in 1..Len(up) /\ isr.remaining + 2 - 1 = toCome + 1
        BY <1>1, <1>2, <3>2
      <4>2. up[1] = Raw(isr.remaining + 2 - 1)
        BY <3>1, <4>1
      <4> QED
        BY <1>1, <4>1, <4>2
    <3> QED
      BY <1>2, <3>1, <3>2, <3>3, <3>4
  <2>2. CASE WholeTest
    <3>1. /\ ~isr.test /\ up[1].kind = "header"
          /\ Len(up) + chip.left = up[1].seq + 1
          /\ \A i \in 2..Len(up) : up[i] = Raw(up[1].seq + 2 - i)
      BY <2>2 DEF WholeTest
    <3>2. toCome = up[1].seq /\ toCome \in Nat
      BY <1>1, <3>1 DEF AnswerFrames
    <3>3. ASSUME NEW i \in 1..Len(up') PROVE up'[i] = Raw(toCome + 1 - i)
      <4>1. i + 1 \in 2..Len(up) /\ toCome + 2 - (i + 1) = toCome + 1 - i
        BY <1>1, <3>2
      <4>2. up[i + 1] = Raw(toCome + 2 - (i + 1))
        BY <3>1, <3>2, <4>1
      <4> QED
        BY <1>1, <4>1, <4>2
    <3>4. Head(up) = [kind |-> "header", seq |-> toCome]
      BY <1>1, <3>1, <3>2 DEF AnswerFrames
    <3> QED
      BY <3>1, <3>2, <3>3, <3>4
  <2> QED
    BY <2>1, <2>2
<1> HIDE DEF toCome
<1>5. ~IsComplete(Head(up)) /\ (EndsAnswer(Head(up)) <=> toCome = 0)
  <2>1. CASE isr.test
    <3>1. Head(up) = [kind |-> "raw", seq |-> toCome + 1]
      BY <1>4, <2>1 DEF Raw
    <3> QED
      BY <1>4, <3>1 DEF IsComplete, EndsAnswer
  <2>2. CASE ~isr.test
    <3>1. Head(up) = [kind |-> "header", seq |-> toCome]
      BY <1>4, <2>2
    <3> QED
      BY <1>4, <3>1 DEF IsComplete, EndsAnswer
  <2> QED
    BY <2>1, <2>2
<1>6. /\ isr'.active /\ isr'.test
      /\ isr'.done <=> toCome = 0
      /\ isr'.remaining = IF toCome > 0 THEN toCome - 1 ELSE toCome
      /\ isr' \in HandlerState
  <2>1. /\ (isr.test \/ Head(up).kind = "header") = TRUE
        /\ (IF Head(up).kind = "header" THEN Head(up).seq ELSE isr.remaining) = toCome
    <3>1. CASE isr.test
      <4>1. Head(up).kind = "raw"
        BY <1>4, <3>1 DEF Raw
      <4> QED
        BY <3>1, <4>1 DEF toCome
    <3>2. CASE ~isr.test
      BY <1>4, <3>2 DEF toCome
    <3> QED
      BY <3>1, <3>2
  <2> DEFINE last == toCome = 0
             left == IF toCome > 0 THEN toCome - 1 ELSE toCome
  <2>2. isr' = [active |-> TRUE,
                done |-> IsComplete(Head(up)) \/ (TRUE /\ toCome = 0),
                test |-> TRUE,
                remaining |-> IF TRUE /\ toCome > 0 THEN toCome - 1 ELSE toCome]
    BY <2>1, Zenon DEF AfterFrame
  <2>3. (IsComplete(Head(up)) \/ (TRUE /\ toCome = 0)) = last
    BY <1>5
  <2>4. (IF TRUE /\ toCome > 0 THEN toCome - 1 ELSE toCome) = left
    OBVIOUS
  <2>5. isr' = InTest(last, left)
    BY <2>2, <2>3, <2>4, Zenon DEF InTest
  <2>6. last \in BOOLEAN /\ left \in Nat
    BY <1>4
  <2> HIDE DEF last, left
  <2>7. /\ isr' \in HandlerState /\ isr'.active /\ isr'.test
        /\ isr'.done <=> last
        /\ isr'.remaining = left
    BY <2>5, <2>6, InTestType, SMTT(60)
  <2> QED
    BY <2>7, Zenon DEF last, left
<1>7. CASE toCome = 0
  <2>1. Len(up') = 0 /\ chip.left = 0
    BY <1>1, <1>2, <1>4, <1>7
  <2>2. up' = <<>>
    BY <1>1, <2>1, EmptySeq
  <2> QED
    BY <1>3, <1>5, <1>6, <1>7, <2>1, <2>2
<1>8. CASE toCome # 0
  <2>1. isr'.remaining + 1 = toCome /\ isr'.remaining \in Nat
    BY <1>4, <1>6, <1>8
  <2>2. Len(up') + chip.left = isr'.remaining + 1
    BY <1>1, <1>2, <1>4, <2>1
  <2>3. ASSUME NEW i \in 1..Len(up')
        PROVE  up'[i] = Raw(isr'.remaining + 2 - i)
    <3>1. isr'.remaining + 2 - i = toCome + 1 - i
      BY <2>1, <1>1, <1>4
    <3> QED
      BY <1>4, <3>1
  <2>4. TestTail'
    BY <1>6, <2>2, <2>3 DEF TestTail
  <2> QED
    BY <1>5, <1>6, <1>8, <2>4
<1> QED
  BY <1>7, <1>8

\* The handler forwards a frame; with the last one it is done.
LEMMA Forwards ==
  ASSUME Ordered, HandlerForwards
  PROVE  Ordered'
<1>1. /\ isr.active /\ ~isr.done /\ up # <<>> /\ up' = Tail(up)
      /\ line' = line \o WireBytes(Head(up))
      /\ isr' = AfterFrame(Head(up))
      /\ UNCHANGED <<down, irqPending, chip, answer, testing, pc, kind,
                     overflow, finished, host, written>>
  BY DEF HandlerForwards, history
<1>2. Answering
  BY <1>1 DEF Ordered, Phases, Resting, Asked
<1>3. Underway /\ ~ControlWaiting /\ LineOpen /\ Rest
  BY <1>2 DEF Answering, Underway
<1>4. LinkTypes /\ HandlerTypes
  BY DEF Ordered
<1>5. /\ isr'.active /\ isr' \in HandlerState
      /\ \/ EndsAnswer(Head(up)) /\ isr'.done /\ up' = <<>> /\ ~chip.busy
         \/ ~EndsAnswer(Head(up)) /\ ~isr'.done /\ Rest'
  <2>1. CASE ~testing /\ ControlTail
    <3>1. /\ isr'.active /\ isr' \in HandlerState
          /\ \/ EndsAnswer(Head(up)) /\ isr'.done /\ up' = <<>> /\ ~chip.busy
             \/ ~EndsAnswer(Head(up)) /\ ~isr'.done /\ ControlTail'
      BY <1>1, <1>4, <2>1, ControlFrame
    <3>2. ~testing'
      BY <1>1, <2>1
    <3> QED
      BY <3>1, <3>2 DEF Rest
  <2>2. CASE (testing <=> chip.busy) /\ (TestTail \/ WholeTest)
    <3>1. /\ isr'.active /\ isr' \in HandlerState
          /\ \/ EndsAnswer(Head(up)) /\ isr'.done /\ up' = <<>> /\ ~chip.busy
             \/ ~EndsAnswer(Head(up)) /\ ~isr'.done /\ TestTail'
      BY <1>1, <1>4, <2>2, TestFrame
    <3>2. testing' <=> chip'.busy
      BY <1>1, <2>2
    <3> QED
      BY <3>1, <3>2 DEF Rest
  <2> QED
    BY <1>3, <2>1, <2>2 DEF Rest
<1>6. up' \in Seq(AnswerFrames) /\ Head(up) \in AnswerFrames
  BY <1>1, <1>4, Taken DEF LinkTypes
<1>7. IF EndsAnswer(Head(up)) THEN LineEnds' ELSE LineOpen'
  BY <1>1, <1>3, <1>6, LineGrows
<1>8. LinkTypes' /\ HandlerTypes' /\ NoText'
  BY <1>1, <1>5, <1>6 DEF Ordered, LinkTypes, HandlerTypes, NoText
<1>9. host'.awaits # NoAnswer /\ NoneComes' /\ ~ControlWaiting'
  BY <1>1, <1>3 DEF Underway, NoneComes, Coming, ControlWaiting
<1>10. Phases'
  <2>1. CASE EndsAnswer(Head(up))
    <3>1. Quiet'
      BY <1>1, <1>5, <1>9, <2>1 DEF Quiet
    <3> QED
      BY <1>5, <1>7, <1>9, <2>1, <3>1 DEF Phases, Resting
  <2>2. CASE ~EndsAnswer(Head(up))
    BY <1>5, <1>7, <1>9, <2>2 DEF Phases, Answering, Underway
  <2> QED
    BY <2>1, <2>2
<1>11. Awaited'
  <2>1. ~Quiet
    BY <1>1 DEF Quiet
  <2> QED
    BY <1>1, <2>1 DEF Ordered, Awaited
<1> QED
  BY <1>8, <1>10, <1>11 DEF Ordered

(***************************************************************************)
(* The chip.                                                               *)
(***************************************************************************)

\* The chip takes a request when one is asked, and begins its answer.
LEMMA ChipTakesRequest ==
  ASSUME Ordered, down # <<>>, IsControl(Head(down)), down' = Tail(down),
         UNCHANGED <<isr, line, host, written>>
  PROVE  /\ Asked /\ Underway' /\ ~ControlWaiting' /\ ~isr'.done /\ ~isr'.test
         /\ down' \in Seq(RelayDown)
<1>1. down \in Seq(RelayDown)
  BY DEF Ordered, LinkTypes
<1>2. /\ Head(down) = down[1] /\ Len(down) \in Nat \ {0}
      /\ down' \in Seq(RelayDown)
  BY <1>1, Taken
<1>3. ControlWaiting
  <2>1. 1 \in 1..Len(down)
    BY <1>2
  <2> QED
    BY <1>2, <2>1 DEF ControlWaiting
<1>4. Asked
  BY <1>3 DEF Ordered, Phases, Resting, Quiet, Answering
<1>5. ~ControlWaiting'
  BY <1>1, <1>4, OneGoes DEF Asked
<1>6. Underway'
  BY <1>4 DEF Asked, Underway, NoneComes, Coming, LineOpen
<1>7. isr' = NoHandler
  BY <1>4 DEF Asked, Ordered, HandlerTypes
<1> QED
  BY <1>2, <1>4, <1>5, <1>6, <1>7 DEF NoHandler

\* The chip emits while it answers only.
LEMMA ChipBusy ==
  ASSUME Ordered, chip.busy, UNCHANGED <<down, isr, line, host, written>>
  PROVE  /\ Answering /\ Rest
         /\ Underway' /\ ~ControlWaiting' /\ ~isr'.done
<1>1. Answering
  BY DEF Ordered, Phases, Resting, Quiet, Asked
<1>2. Underway' /\ ~ControlWaiting'
  BY <1>1 DEF Answering, Underway, NoneComes, Coming, LineOpen, ControlWaiting
<1> QED
  BY <1>1, <1>2 DEF Answering

\* A frame of the answer to a control request.
LEMMA ControlAnswers ==
  ASSUME Ordered, RelayChip, ~testing, UNCHANGED testing,
         ChipEmitsWork \/ ChipCompletes
  PROVE  LinkTypes' /\ Phases'
<1>1. /\ chip.busy
      /\ UNCHANGED <<down, isr, line, host, written>>
  BY DEF RelayChip, relayVars, hostVars, history, ChipEmitsWork, ChipCompletes
<1>2. /\ Answering /\ Rest /\ Underway' /\ ~ControlWaiting' /\ ~isr'.done
  BY <1>1, ChipBusy
<1>3. ControlTail
  BY <1>1, <1>2 DEF Rest
<1>4. LinkTypes
  BY DEF Ordered
<1>5. answer \in Seq(AnswerFrames) /\ Len(answer) + 1 \in Nat
  BY <1>4 DEF LinkTypes
<1>6. chip \in ChipState /\ chip.left \in Nat /\ chip.time \in Nat
  BY <1>4 DEF LinkTypes, ChipState
<1>7. CASE ChipEmitsWork
  <2> DEFINE x == [kind |-> "work", seq |-> Len(answer) + 1]
  <2>1. x \in AnswerFrames
    BY <1>5 DEF AnswerFrames
  <2>2. Emit(x) /\ chip.left > 0 /\ chip' = [chip EXCEPT !.left = @ - 1]
    BY <1>7 DEF ChipEmitsWork
  <2>9. x.kind = "work"
    OBVIOUS
  <2> HIDE DEF x
  <2>3. /\ up' \in Seq(AnswerFrames) /\ answer' \in Seq(AnswerFrames)
        /\ Len(up) \in Nat /\ Len(up') = Len(up) + 1
        /\ up'[Len(up) + 1] = x
        /\ \A i \in 1..Len(up) : up'[i] = up[i]
        /\ up' # <<>>
    BY <1>4, <2>1, <2>2, Emitted
  <2>4. chip'.busy /\ chip' \in ChipState
    BY <1>1, <1>6, <2>2 DEF ChipState
  <2>5. LinkTypes'
    BY <1>1, <1>4, <2>3, <2>4 DEF LinkTypes
  <2>6. ASSUME NEW i \in 1..Len(up') PROVE up'[i].kind = "work"
    <3>1. CASE i = Len(up) + 1
      BY <2>9, <2>3, <3>1
    <3>2. CASE i # Len(up) + 1
      <4>1. i \in 1..Len(up)
        BY <2>3, <3>2
      <4> QED
        BY <1>1, <1>3, <2>3, <4>1 DEF ControlTail
    <3> QED
      BY <3>1, <3>2
  <2>7. ControlTail'
    BY <1>1, <1>3, <2>4, <2>6 DEF ControlTail
  <2>8. Rest'
    BY <2>7 DEF Rest
  <2> QED
    BY <1>2, <2>5, <2>8 DEF Phases, Answering
<1>8. CASE ChipCompletes
  <2> DEFINE x == [kind |-> "complete", seq |-> Len(answer) + 1]
  <2>1. x \in AnswerFrames
    BY <1>5 DEF AnswerFrames
  <2>2. Emit(x) /\ chip.left = 0 /\ chip' = [chip EXCEPT !.busy = FALSE]
    BY <1>8 DEF ChipCompletes
  <2>9. x.kind = "complete"
    OBVIOUS
  <2> HIDE DEF x
  <2>3. /\ up' \in Seq(AnswerFrames) /\ answer' \in Seq(AnswerFrames)
        /\ Len(up) \in Nat /\ Len(up') = Len(up) + 1
        /\ up'[Len(up) + 1] = x
        /\ \A i \in 1..Len(up) : up'[i] = up[i]
        /\ up' # <<>>
    BY <1>4, <2>1, <2>2, Emitted
  <2>4. ~chip'.busy /\ chip'.left = 0 /\ chip' \in ChipState
    BY <1>6, <2>2 DEF ChipState
  <2>5. LinkTypes'
    BY <1>1, <1>4, <2>3, <2>4 DEF LinkTypes
  <2>6. ASSUME NEW i \in 1..Len(up')
        PROVE  up'[i].kind = IF i < Len(up') THEN "work" ELSE "complete"
    <3>1. CASE i = Len(up) + 1
      BY <2>9, <2>3, <3>1
    <3>2. CASE i # Len(up) + 1
      <4>1. i \in 1..Len(up) /\ i < Len(up')
        BY <2>3, <3>2
      <4>2. up[i].kind = "work"
        BY <1>1, <1>3, <4>1 DEF ControlTail
      <4> QED
        BY <2>3, <4>1, <4>2
    <3> QED
      BY <3>1, <3>2
  <2>7. ControlTail'
    BY <1>1, <1>3, <2>3, <2>4, <2>6 DEF ControlTail
  <2>8. Rest'
    BY <2>7 DEF Rest
  <2> QED
    BY <1>2, <2>5, <2>8 DEF Phases, Answering
<1> QED
  BY <1>7, <1>8

\* A test request is answered by a header at least.
LEMMA TestStarts ==
  ASSUME Ordered, RelayChip, ChipStartsTest
  PROVE  LinkTypes' /\ Phases'
<1> DEFINE n == Head(down).steps
           x == [kind |-> "header", seq |-> n]
<1>1. /\ down # <<>> /\ IsControl(Head(down)) /\ down' = Tail(down)
      /\ UNCHANGED <<isr, line, host, written>>
  BY DEF RelayChip, relayVars, hostVars, history, ChipStartsTest, IsControl
<1>2. /\ Asked /\ Underway' /\ ~ControlWaiting' /\ ~isr'.done /\ ~isr'.test
      /\ down' \in Seq(RelayDown)
  BY <1>1, ChipTakesRequest
<1>3. /\ up' = Append(up, x) /\ answer' = <<x>>
      /\ chip' = [chip EXCEPT !.busy = n > 0, !.left = n]
      /\ testing' = (n > 0)
  BY DEF ChipStartsTest
<1>4. n \in Nat
  <2>1. down \in Seq(RelayDown)
    BY DEF Ordered, LinkTypes
  <2>2. Head(down) \in RelayDown
    BY <1>1, <2>1
  <2> QED
    BY <2>2 DEF RelayDown
<1>5. x \in AnswerFrames /\ x.kind = "header" /\ x.seq = n
  BY <1>4 DEF AnswerFrames
<1>6. chip \in ChipState
  BY DEF Ordered, LinkTypes
<1> HIDE DEF n, x
<1>7. /\ chip'.busy <=> n > 0
      /\ chip'.left = n
  BY <1>3, <1>6 DEF ChipState
<1>8. chip' \in ChipState
  <2> DEFINE b == n > 0
  <2>1. b \in BOOLEAN
    OBVIOUS
  <2>2. chip' = [chip EXCEPT !.busy = b, !.left = n]
    BY <1>3
  <2> HIDE DEF b
  <2> QED
    BY <1>4, <1>6, <2>1, <2>2 DEF ChipState
<1>9. up' = <<x>> /\ answer' = <<x>>
  BY <1>2, <1>3 DEF Asked
<1>10. /\ up' \in Seq(AnswerFrames) /\ answer' \in Seq(AnswerFrames)
       /\ Len(up') = 1 /\ up'[1] = x /\ up' # <<>>
  BY <1>5, <1>9
<1>11. testing' \in BOOLEAN /\ (testing' <=> n > 0)
  <2> DEFINE b == n > 0
  <2>1. b \in BOOLEAN /\ testing' = b
    BY <1>3
  <2> HIDE DEF b
  <2>2. testing' \in BOOLEAN /\ (testing' <=> b)
    BY <2>1
  <2> QED
    BY <2>2, Zenon DEF b
<1>12. LinkTypes'
  BY <1>2, <1>4, <1>7, <1>8, <1>10, <1>11 DEF LinkTypes
<1>13. WholeTest'
  <2>1. Len(up') + chip'.left = up'[1].seq + 1
    BY <1>4, <1>5, <1>7, <1>10
  <2>2. 2..Len(up') = {}
    BY <1>10
  <2> QED
    BY <1>2, <1>5, <1>10, <2>1, <2>2 DEF WholeTest
<1>14. Rest'
  BY <1>7, <1>11, <1>13 DEF Rest
<1> QED
  BY <1>2, <1>12, <1>14 DEF Phases, Answering

\* A frame after the header.
LEMMA TestAnswers ==
  ASSUME Ordered, RelayChip, ChipAnswersTest
  PROVE  LinkTypes' /\ Phases'
<1> DEFINE x == Raw(chip.left)
<1>1. LinkTypes
  BY DEF Ordered
<1>2. /\ testing /\ chip.busy
      /\ UNCHANGED <<down, isr, line, host, written>>
  BY <1>1 DEF LinkTypes, RelayChip, relayVars, hostVars, history, ChipAnswersTest
<1>3. chip \in ChipState /\ chip.left \in Nat /\ chip.left > 0
  BY <1>1, <1>2 DEF LinkTypes, ChipState
<1>4. /\ Answering /\ Rest /\ Underway' /\ ~ControlWaiting' /\ ~isr'.done
  BY <1>2, ChipBusy
<1>5. TestTail \/ WholeTest
  BY <1>2, <1>4 DEF Rest
<1>6. /\ Emit(x)
      /\ chip' = [chip EXCEPT !.left = @ - 1, !.busy = chip.left > 1]
      /\ testing' = (chip.left > 1)
  BY DEF ChipAnswersTest, Raw
<1>7. x \in AnswerFrames
  BY <1>3 DEF AnswerFrames, Raw
<1> HIDE DEF x
<1>8. /\ up' \in Seq(AnswerFrames) /\ answer' \in Seq(AnswerFrames)
      /\ Len(up) \in Nat /\ Len(up') = Len(up) + 1
      /\ up'[Len(up) + 1] = x
      /\ \A i \in 1..Len(up) : up'[i] = up[i]
      /\ up' # <<>>
  BY <1>1, <1>6, <1>7, Emitted
<1>9. /\ chip'.busy <=> chip.left > 1
      /\ chip'.left = chip.left - 1
  BY <1>3, <1>6 DEF ChipState
<1>10. chip' \in ChipState
  <2> DEFINE b == chip.left > 1
             l == chip.left - 1
  <2>1. b \in BOOLEAN /\ l \in Nat
    BY <1>3
  <2>2. chip' = [chip EXCEPT !.left = l, !.busy = b]
    BY <1>6
  <2> HIDE DEF b, l
  <2> QED
    BY <1>3, <2>1, <2>2 DEF ChipState
<1>11. testing' \in BOOLEAN /\ (testing' <=> chip.left > 1)
  <2> DEFINE b == chip.left > 1
  <2>1. b \in BOOLEAN /\ testing' = b
    BY <1>6
  <2> HIDE DEF b
  <2>2. testing' \in BOOLEAN /\ (testing' <=> b)
    BY <2>1
  <2> QED
    BY <2>2, Zenon DEF b
<1>12. LinkTypes'
  <2>1. ~chip'.busy => chip'.left = 0
    BY <1>3, <1>9
  <2>2. testing' => chip'.busy /\ chip'.left > 0
    BY <1>3, <1>9, <1>11
  <2> QED
    BY <1>1, <1>2, <1>8, <1>10, <1>11, <2>1, <2>2 DEF LinkTypes
<1>13. TestTail' \/ WholeTest'
  <2>1. CASE TestTail
    <3>1. /\ isr.test /\ Len(up) + chip.left = isr.remaining + 1
          /\ \A i \in 1..Len(up) : up[i] = Raw(isr.remaining + 2 - i)
      BY <2>1 DEF TestTail
    <3>2. isr.remaining \in Nat
      BY DEF Ordered, HandlerTypes, HandlerState
    <3>3. Len(up') + chip'.left = isr.remaining + 1
      BY <1>3, <1>8, <1>9, <3>1, <3>2
    <3>4. ASSUME NEW i \in 1..Len(up') PROVE up'[i] = Raw(isr.remaining + 2 - i)
      <4>1. CASE i = Len(up) + 1
        <5>1. isr.remaining + 2 - i = chip.left
          BY <1>3, <1>8, <3>1, <3>2, <4>1
        <5> QED
          BY <1>8, <4>1, <5>1 DEF x
      <4>2. CASE i # Len(up) + 1
        <5>1. i \in 1..Len(up)
          BY <1>8, <4>2
        <5> QED
          BY <1>8, <3>1, <5>1
      <4> QED
        BY <4>1, <4>2
    <3>5. TestTail'
      BY <1>2, <3>1, <3>3, <3>4 DEF TestTail
    <3> QED
      BY <3>5
  <2>2. CASE WholeTest
    <3>1. /\ ~isr.test /\ up # <<>> /\ up[1].kind = "header"
          /\ Len(up) + chip.left = up[1].seq + 1
          /\ \A i \in 2..Len(up) : up[i] = Raw(up[1].seq + 2 - i)
      BY <2>2 DEF WholeTest
    <3>2. up \in Seq(AnswerFrames) /\ 1 \in 1..Len(up)
      <4>1. up \in Seq(AnswerFrames)
        BY <1>1 DEF LinkTypes
      <4>2. Len(up) # 0
        BY <3>1, <4>1, EmptySeq
      <4> QED
        BY <1>8, <4>1, <4>2
    <3>3. up'[1] = up[1] /\ up[1].seq \in Nat
      <4>1. up[1] \in AnswerFrames
        BY <3>2
      <4>2. up[1].seq \in Nat
        BY <4>1 DEF AnswerFrames
      <4> QED
        BY <1>8, <3>2, <4>2
    <3>4. Len(up') + chip'.left = up'[1].seq + 1
      BY <1>3, <1>8, <1>9, <3>1, <3>3
    <3>5. ASSUME NEW i \in 2..Len(up') PROVE up'[i] = Raw(up'[1].seq + 2 - i)
      <4>1. CASE i = Len(up) + 1
        <5>1. up'[1].seq + 2 - i = chip.left
          <6>1. Len(up) + chip.left = up[1].seq + 1 /\ Len(up) \in Nat
            BY <1>8, <3>1
          <6> QED
            BY <1>3, <3>3, <4>1, <6>1, SMTT(60)
        <5> QED
          BY <1>8, <4>1, <5>1 DEF x
      <4>2. CASE i # Len(up) + 1
        <5>1. i \in 2..Len(up) /\ i \in 1..Len(up)
          BY <1>8, <4>2
        <5> QED
          BY <1>8, <3>1, <3>3, <5>1
      <4> QED
        BY <4>1, <4>2
    <3>6. WholeTest'
      BY <1>2, <1>8, <3>1, <3>3, <3>4, <3>5 DEF WholeTest
    <3> QED
      BY <3>6
  <2> QED
    BY <1>5, <2>1, <2>2
<1>14. Rest'
  BY <1>9, <1>11, <1>13 DEF Rest
<1> QED
  BY <1>4, <1>12, <1>14 DEF Phases, Answering

\* The chip begins the answer to a control request.
LEMMA ControlStarts ==
  ASSUME Ordered, RelayChip, ~testing, UNCHANGED testing, ChipStarts
  PROVE  LinkTypes' /\ Phases'
<1>1. /\ down # <<>> /\ IsControl(Head(down)) /\ down' = Tail(down)
      /\ UNCHANGED <<isr, line, host, written>>
  BY DEF RelayChip, relayVars, hostVars, history, ChipStarts
<1>2. /\ Asked /\ Underway' /\ ~ControlWaiting' /\ ~isr'.done /\ ~isr'.test
      /\ down' \in Seq(RelayDown)
  BY <1>1, ChipTakesRequest
<1>3. PICK n \in 0..MaxOut :
        chip' = [busy |-> TRUE, left |-> n,
                 time |-> IF Head(down).kind = "init"
                          THEN 0 ELSE chip.time + Head(down).steps]
  BY DEF ChipStarts
<1>4. Head(down).steps \in Nat /\ chip.time \in Nat /\ n \in Nat
  <2>1. down \in Seq(RelayDown) /\ chip \in ChipState
    BY DEF Ordered, LinkTypes
  <2>2. Head(down) \in RelayDown
    BY <1>1, <2>1
  <2> QED
    BY <2>1, <2>2, NocAssumption DEF RelayDown, ChipState
<1>5. chip'.busy /\ chip' \in ChipState
  BY <1>3, <1>4 DEF ChipState
<1>6. up' = <<>> /\ answer' = <<>>
  BY <1>2 DEF ChipStarts, Asked
<1>7. LinkTypes'
  BY <1>2, <1>5, <1>6, EmptySeq DEF Ordered, LinkTypes
<1>8. Len(up') = 0
  BY <1>6
<1>9. ControlTail'
  BY <1>2, <1>5, <1>8 DEF ControlTail
<1>10. Rest'
  BY <1>9 DEF Rest
<1> QED
  BY <1>2, <1>7, <1>10 DEF Phases, Answering

\* A data frame is taken and never answered.
LEMMA DataTaken ==
  ASSUME Ordered, RelayChip, UNCHANGED testing, ChipTakesData
  PROVE  LinkTypes' /\ Phases' /\ (Quiet => Quiet')
<1>1. /\ down # <<>> /\ ~IsControl(Head(down)) /\ down' = Tail(down)
      /\ UNCHANGED <<up, irqPending, chip, answer, isr, line, host, written>>
  BY DEF RelayChip, relayVars, hostVars, history, ChipTakesData
<1>2. down \in Seq(RelayDown)
  BY DEF Ordered, LinkTypes
<1>3. (ControlWaiting' <=> ControlWaiting) /\ (OneWaits => OneWaits')
  BY <1>1, <1>2, DataGoes
<1>4. (NoneComes' <=> NoneComes) /\ (OneComes' <=> OneComes)
  BY <1>1 DEF NoneComes, OneComes, Coming
<1>5. Phases'
  BY <1>1, <1>3, <1>4, DataPasses DEF Ordered
<1>6. down' \in Seq(RelayDown)
  BY <1>1, <1>2
<1> QED
  BY <1>1, <1>3, <1>5, <1>6 DEF Ordered, LinkTypes, Quiet

\* Every step of the chip.
LEMMA ChipMoves ==
  ASSUME Ordered, RelayChip
  PROVE  Ordered'
<1>1. UNCHANGED <<pc, kind, overflow, finished, isr, line, host, written>>
  BY DEF RelayChip, relayVars, hostVars, history
<1>2. LinkTypes' /\ Phases' /\ (Quiet => Quiet')
  <2>1. CASE ChipStartsTest
    <3>1. ~Quiet
      <4>1. down # <<>> /\ IsControl(Head(down)) /\ down' = Tail(down)
        BY <2>1 DEF ChipStartsTest, IsControl
      <4>2. Asked /\ OneWaits
        BY <1>1, <4>1, ChipTakesRequest DEF Asked
      <4> QED
        BY <4>2 DEF OneWaits, Quiet, ControlWaiting
    <3> QED
      BY <2>1, <3>1, TestStarts
  <2>2. CASE ChipAnswersTest
    <3>1. ~Quiet
      BY <2>2 DEF ChipAnswersTest, Ordered, LinkTypes, Quiet
    <3> QED
      BY <2>2, <3>1, TestAnswers
  <2>3. CASE ChipAnswersControl
    <3>1. ~testing /\ UNCHANGED testing /\ ChipStep
      BY <2>3 DEF ChipAnswersControl
    <3>2. CASE ChipTakesData
      BY <3>1, <3>2, DataTaken
    <3>3. CASE ChipStarts
      <4>1. ~Quiet
        <5>1. down # <<>> /\ IsControl(Head(down)) /\ down' = Tail(down)
          BY <3>3 DEF ChipStarts
        <5>2. Asked /\ OneWaits
          BY <1>1, <5>1, ChipTakesRequest DEF Asked
        <5> QED
          BY <5>2 DEF OneWaits, Quiet, ControlWaiting
      <4> QED
        BY <3>1, <3>3, <4>1, ControlStarts
    <3>4. CASE ChipEmitsWork \/ ChipCompletes
      <4>1. ~Quiet
        BY <3>4 DEF ChipEmitsWork, ChipCompletes, Quiet
      <4> QED
        BY <3>1, <3>4, <4>1, ControlAnswers
    <3> QED
      BY <3>1, <3>2, <3>3, <3>4 DEF ChipStep
  <2> QED
    BY <2>1, <2>2, <2>3 DEF RelayChip, TestChipStep
<1>3. HandlerTypes' /\ NoText'
  BY <1>1 DEF Ordered, HandlerTypes, NoText
<1>4. Awaited'
  BY <1>1, <1>2 DEF Ordered, Awaited
<1> QED
  BY <1>2, <1>3, <1>4 DEF Ordered

\* The host takes a frame from its line; the last of an answer ends its wait.
LEMMA AnswerRead ==
  ASSUME Ordered, Framing, HostReads
  PROVE  Ordered'
<1>1. /\ host' = host \/ host' = [host EXCEPT !.awaits = NoAnswer]
      /\ UNCHANGED <<down, up, irqPending, chip, answer, testing, pc, kind,
                     overflow, finished, isr, written>>
  BY DEF HostReads, testVars, nocVars, relayVars, history
<1>2. /\ host'.sent = host.sent
      /\ host' = host => host'.awaits = host.awaits
      /\ host' = [host EXCEPT !.awaits = NoAnswer] => host'.awaits = NoAnswer
  <2>1. host \in [sent : Seq(Kinds), left : Seq(HostBytes),
                  awaits : Kinds \union {NoAnswer}]
    BY DEF Framing, StreamTypes
  <2> QED
    BY <1>1, <2>1
<1>3. /\ LineOpen => LineOpen' /\ host' = host
      /\ LineEnds => \/ LineEnds' /\ host' = host
                     \/ LineOpen' /\ host' = [host EXCEPT !.awaits = NoAnswer]
  BY LineRead
<1>4. (NoneComes' <=> NoneComes) /\ (OneComes' <=> OneComes)
      /\ (Quiet' <=> Quiet) /\ (Rest' <=> Rest)
      /\ (ControlWaiting' <=> ControlWaiting) /\ (OneWaits' <=> OneWaits)
  BY <1>1, <1>2 DEF NoneComes, OneComes, Coming, Quiet, Rest, TestTail, WholeTest,
     ControlTail, ControlWaiting, OneWaits
<1>5. Phases'
  <2>1. CASE Resting
    <3>1. Quiet' /\ IF isr'.active THEN isr'.done ELSE ~irqPending'
      BY <1>1, <1>4, <2>1 DEF Resting
    <3>2. \/ host'.awaits = NoAnswer /\ NoneComes' /\ LineOpen'
          \/ host'.awaits # NoAnswer /\ OneComes' /\ LineOpen'
          \/ host'.awaits # NoAnswer /\ NoneComes' /\ LineEnds'
      <4>1. CASE host.awaits = NoAnswer /\ NoneComes /\ LineOpen
        BY <1>2, <1>3, <1>4, <4>1
      <4>2. CASE host.awaits # NoAnswer /\ OneComes /\ LineOpen
        BY <1>2, <1>3, <1>4, <4>2
      <4>3. CASE host.awaits # NoAnswer /\ NoneComes /\ LineEnds
        BY <1>2, <1>3, <1>4, <4>3
      <4> QED
        BY <2>1, <4>1, <4>2, <4>3 DEF Resting
    <3> QED
      BY <3>1, <3>2 DEF Resting, Phases
  <2>2. CASE Asked
    BY <1>1, <1>3, <1>4, <2>2 DEF Asked, Underway, Phases
  <2>3. CASE Answering
    BY <1>1, <1>3, <1>4, <2>3 DEF Answering, Underway, Phases
  <2> QED
    BY <2>1, <2>2, <2>3 DEF Ordered, Phases
<1>6. LinkTypes' /\ HandlerTypes' /\ NoText'
  BY <1>1 DEF Ordered, LinkTypes, HandlerTypes, NoText
<1>7. Awaited'
  BY <1>1, <1>2, <1>4 DEF Ordered, Awaited
<1> QED
  BY <1>5, <1>6, <1>7 DEF Ordered

(***************************************************************************)
(* All steps together.                                                     *)
(***************************************************************************)

\* Every step, as long as no byte is lost.
LEMMA NextOrdered ==
  ASSUME Framing, Ordered, [Next]_vars, ~lost, ~lost'
  PROVE  Ordered'
<1>1. CASE UartInterrupt \/ HostSendsByte \/ UNCHANGED vars
  BY <1>1, IdleSteps
<1>2. CASE EnterHandler
  BY <1>2, Enters
<1>3. CASE HandlerForwards
  BY <1>3, Forwards
<1>4. CASE LeaveHandler
  BY <1>4, Leaves
<1>5. CASE Main
  <2>1. CASE Boot \/ Returned \/ GetByte \/ GetNothing \/ EnterCritical \/ WaitForTimestep
    BY <2>1, IdleSteps DEF Returned
  <2>2. CASE Configure
    BY <2>2, Configures
  <2>3. CASE ReportOverflow \/ ClearOverflow
    BY <2>3 DEF Ordered, NoText, ReportOverflow, ClearOverflow, At
  <2>4. CASE DecodeFrame
    BY <2>4, Decodes
  <2>5. CASE StoreFrame
    BY <2>5, Stores
  <2> QED
    BY <1>5, <2>1, <2>2, <2>3, <2>4, <2>5 DEF Main
<1>6. CASE RelayChip
  BY <1>6, ChipMoves
<1>7. CASE \E k \in Kinds : HostBeginsFrame(k)
  BY <1>7, HostBegins
<1>8. CASE HostReads
  BY <1>8, AnswerRead
<1> QED
  BY <1>1, <1>2, <1>3, <1>4, <1>5, <1>6, <1>7, <1>8 DEF Next

\* Until a byte is lost, the host's requests are answered one by one.
RelayOrder == lost \/ (Framing /\ Ordered)

\* The invariant of the theorems below.
LEMMA OrderKept ==
  /\ Init => RelayOrder
  /\ RelayOrder /\ [Next]_vars => RelayOrder'
<1>1. Init => RelayOrder
  BY InitFraming, InitOrdered DEF RelayOrder
<1>2. ASSUME RelayOrder, [Next]_vars PROVE RelayOrder'
  <2> SUFFICES ASSUME ~lost' PROVE Framing' /\ Ordered'
    BY DEF RelayOrder
  <2>1. ~lost
    BY <1>2, LostForGood
  <2>2. Framing /\ Ordered
    BY <1>2, <2>1 DEF RelayOrder
  <2>3. Framing'
    BY <1>2, <2>2, NextFraming DEF RelayInvariant
  <2> QED
    BY <1>2, <2>1, <2>2, <2>3, NextOrdered
<1> QED
  BY <1>1, <1>2

\* paicore_noc_handler leaves when it has forwarded the whole answer, to a
\* control frame (up to its COMPLETE) as to a test request (as many frames as
\* the header says): for every chip, and as long as no byte was lost.
THEOREM HandlerDrains == Spec => HandlerDrainsAnswer
<1>1. RelayOrder /\ [Next]_vars =>
        [isr.active /\ ~isr'.active => lost \/ Quiet]_vars
  <2> SUFFICES ASSUME RelayOrder, Next, isr.active, ~isr'.active, ~lost
               PROVE  Quiet
    OBVIOUS
  <2>1. isr' # isr
    OBVIOUS
  <2>2. ~EnterHandler
    BY DEF EnterHandler
  <2>3. ~HandlerForwards
    BY DEF HandlerForwards, AfterFrame
  <2>4. LeaveHandler
    <3>1. ~Main
      BY <2>1 DEF Main, Boot, Returned, Configure, GetByte, GetNothing, ReportOverflow,
         ClearOverflow, DecodeFrame, EnterCritical, StoreFrame, WaitForTimestep,
         vars, relayVars
    <3> QED
      BY <2>1, <2>2, <2>3, <3>1
         DEF Next, UartInterrupt, RelayChip, HostBeginsFrame, HostSendsByte,
         HostReads, relayVars
  <2>5. Ordered /\ isr.done
    BY <2>4 DEF RelayOrder, LeaveHandler
  <2> QED
    BY <2>5, DoneIsQuiet
<1> QED
  BY <1>1, OrderKept, PTL DEF Spec, HandlerDrainsAnswer

\* The wait after a SYNC (send_uart_frames_to_noc) ends with the answer to this
\* SYNC, whatever the handler did for the requests before it.
THEOREM SyncWaitsExactly == Spec => SyncWaitIsExact
<1>1. RelayOrder /\ [Next]_vars =>
        [pc = "waiting" /\ pc' # "waiting" => lost \/ Quiet]_vars
  <2> SUFFICES ASSUME RelayOrder, Next, pc = "waiting", pc' # "waiting", ~lost
               PROVE  Quiet
    OBVIOUS
  <2>1. WaitForTimestep
    <3>1. ~Boot /\ ~Returned /\ ~Configure /\ ~GetByte /\ ~GetNothing
          /\ ~ReportOverflow /\ ~ClearOverflow /\ ~DecodeFrame
          /\ ~EnterCritical /\ ~StoreFrame
      BY DEF At, Boot, Returned, Configure, GetByte, GetNothing, ReportOverflow,
         ClearOverflow, DecodeFrame, EnterCritical, StoreFrame
    <3> QED
      BY <3>1 DEF Next, Main, UartInterrupt, EnterHandler, HandlerForwards,
         LeaveHandler, RelayChip, HostBeginsFrame, HostSendsByte, HostReads, relayVars
  <2>2. Ordered /\ finished
    BY <2>1 DEF RelayOrder, WaitForTimestep
  <2> QED
    BY <2>2 DEF Ordered, Awaited
<1> QED
  BY <1>1, OrderKept, PTL DEF Spec, SyncWaitIsExact
=============================================================================
