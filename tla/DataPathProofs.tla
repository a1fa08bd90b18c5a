--------------------------- MODULE DataPathProofs ---------------------------
(***************************************************************************)
(* Proofs about the operators a sample's data passes through.  Whatever    *)
(* buffers run_sample accepts, on a machine of any word size, are safe to  *)
(* use (SampleLayout).  What is packed into a frame is what is read from   *)
(* it (InputCodec), and the fast decoders agree with the generic ones      *)
(* (OutputCodec), for every mapping.                                       *)
(***************************************************************************)
EXTENDS SampleLayout, InputCodec, OutputCodec, SequenceTheorems,
        FiniteSetTheorems, TLAPS

(***************************************************************************)
(* Arithmetic.                                                             *)
(***************************************************************************)

LEMMA ProductIsNat ==
  ASSUME NEW m \in Nat, NEW n \in Nat
  PROVE  m * n \in Nat
  OBVIOUS

\* Earlier rows begin a whole stride before later ones.
LEMMA RowsAreApart ==
  ASSUME NEW t \in Nat, NEW u \in Nat, NEW stride \in Nat, t < u
  PROVE  t * stride + stride <= u * stride
<1>1. u - t - 1 \in Nat
  OBVIOUS
<1>2. (u - t - 1) * stride \in Nat
  BY <1>1, ProductIsNat
<1>3. (u - t - 1) * stride = u * stride - t * stride - stride
  OBVIOUS
<1>4. t * stride \in Nat /\ u * stride \in Nat
  BY ProductIsNat
<1> QED
  BY <1>2, <1>3, <1>4

\* What does not exceed a quotient does not, multiplied, exceed the dividend.
LEMMA QuotientBound ==
  ASSUME NEW n \in Nat, NEW a \in Nat, NEW d \in Nat \ {0}, n <= a \div d
  PROVE  n * d <= a
<1>1. a \div d \in Nat /\ (a \div d) * d <= a
  OBVIOUS
<1>2. n * d <= (a \div d) * d
  <2>1. CASE n = a \div d
    BY <2>1, <1>1
  <2>2. CASE n < a \div d
    <3>1. n * d + d <= (a \div d) * d
      BY <2>2, <1>1, RowsAreApart
    <3> QED
      BY <3>1, <1>1, ProductIsNat
  <2> QED
    BY <2>1, <2>2, <1>1
<1> QED
  BY <1>1, <1>2, ProductIsNat

(***************************************************************************)
(* What an accepted layout is.                                             *)
(***************************************************************************)

\* The guard of sample_region_fits rules out that the size wraps around.
LEMMA FittingRegion ==
  ASSUME NEW total \in Nat, NEW row \in Nat \ {0}, NEW stride \in Nat,
         NEW timesteps \in Nat \ {0},
         RegionFits(total, row, stride, timesteps)
  PROVE  /\ stride >= row
         /\ RegionSize(row, stride, timesteps) \in Nat
         /\ RegionSize(row, stride, timesteps) <= total
<1>1. SizeMax \in Nat
  BY LayoutAssumption
<1>2. stride >= row /\ stride \in Nat \ {0}
  BY DEF RegionFits
<1>3. timesteps - 1 \in Nat /\ timesteps - 1 <= (SizeMax - row) \div stride
  BY DEF RegionFits
<1>4. SizeMax - row \in Nat
  <2>1. SizeMax - row < 0 => (SizeMax - row) \div stride < 0
    BY <1>1, <1>2
  <2> QED
    BY <2>1, <1>1, <1>2, <1>3
<1>5. (timesteps - 1) * stride <= SizeMax - row
  BY <1>2, <1>3, <1>4, QuotientBound
<1> DEFINE size == (timesteps - 1) * stride + row
<1>6. size \in Nat /\ size <= SizeMax
  <2>1. (timesteps - 1) * stride \in Nat
    BY <1>2, <1>3, ProductIsNat
  <2> QED
    BY <2>1, <1>1, <1>5
<1>7. Wrapped(size) = size
  <2> HIDE DEF size
  <2> QED
    BY <1>1, <1>6 DEF Wrapped
<1>8. Wrapped(size) <= total
  BY DEF RegionFits
<1> QED
  BY <1>2, <1>6, <1>7, <1>8 DEF RegionSize

\* Row t of a region is a part of it.
LEMMA RowInRegion ==
  ASSUME NEW row \in Nat, NEW stride \in Nat, NEW timesteps \in Nat \ {0},
         NEW t \in 0..timesteps - 1
  PROVE  t * stride + row <= RegionSize(row, stride, timesteps)
<1>1. timesteps - 1 \in Nat /\ t \in Nat /\ t <= timesteps - 1
  OBVIOUS
<1>2. t * stride <= (timesteps - 1) * stride
  <2>1. CASE t = timesteps - 1
    BY <2>1, <1>1, ProductIsNat
  <2>2. CASE t < timesteps - 1
    <3>1. t * stride + stride <= (timesteps - 1) * stride
      BY <2>2, <1>1, RowsAreApart
    <3> QED
      BY <3>1, <1>1, ProductIsNat
  <2> QED
    BY <2>1, <2>2, <1>1
<1> QED
  BY <1>1, <1>2, ProductIsNat DEF RegionSize

LEMMA LayoutTyped ==
  ASSUME NEW l \in Layout
  PROVE  /\ l.inBase \in Nat /\ l.outBase \in Nat
         /\ l.inCapacity \in Nat /\ l.outCapacity \in Nat
         /\ l.timesteps \in Nat \ {0} /\ l.elements \in Nat \ {0}
         /\ l.voltage \in BOOLEAN
         /\ InRow(l) = l.inBytes
         /\ InRow(l) \in Nat \ {0} /\ OutRow(l) \in Nat \ {0}
         /\ InStride(l) \in Nat /\ OutStride(l) \in Nat
  BY DEF Layout, InRow, OutRow, InStride, OutStride, WordBytes

LEMMA Accepted ==
  ASSUME NEW l \in Layout, LayoutStatus(l) = "OK"
  PROVE  /\ RegionFits(l.inCapacity, InRow(l), InStride(l), l.timesteps)
         /\ RegionFits(l.outCapacity, OutRow(l), OutStride(l), l.timesteps)
         /\ ~Misaligned(l)
         /\ \/ SameRows(l)
            \/ ~RegionsOverlap(
                  l.inBase, RegionSize(InRow(l), InStride(l), l.timesteps),
                  l.outBase, RegionSize(OutRow(l), OutStride(l), l.timesteps))
  BY DEF LayoutStatus

\* A byte of element e at a timestep, as an offset in that timestep's row.
LEMMA StoredInRow ==
  ASSUME NEW l \in Layout, ~Misaligned(l),
         NEW t \in Timesteps(l), NEW e \in Elements(l),
         NEW b \in 0..BytesPerElement(l) - 1
  PROVE  \E offset \in 0..OutRow(l) - 1 :
           StoredByte(l, t, e, b) = l.outBase + t * OutStride(l) + offset
<1>0. t \in Nat /\ e \in Nat /\ e < l.elements /\ l.elements \in Nat
  BY LayoutTyped DEF Timesteps, Elements
<1>1. CASE ~l.voltage
  <2>1. OutRow(l) = l.elements
    BY <1>1 DEF OutRow
  <2>2. StoredByte(l, t, e, b) = l.outBase + t * OutStride(l) + e
    BY <1>1 DEF StoredByte
  <2> QED
    BY <1>0, <2>1, <2>2
<1>2. CASE l.voltage
  <2> DEFINE words == OutStride(l) \div 4
  <2>1. OutRow(l) = 4 * l.elements /\ b \in 0..3
    BY <1>2 DEF OutRow, BytesPerElement, WordBytes
  <2>2. words \in Nat /\ OutStride(l) = 4 * words
    <3>1. OutStride(l) \in Nat /\ OutStride(l) % 4 = 0
      BY <1>2, LayoutTyped DEF Misaligned, WordBytes
    <3> HIDE DEF words
    <3>2. words = OutStride(l) \div 4
      BY DEF words
    <3> QED
      BY <3>1, <3>2
  <2>3. StoredByte(l, t, e, b) = l.outBase + 4 * (t * words + e) + b
    BY <1>2 DEF StoredByte, WordBytes
  <2> HIDE DEF words
  <2>4. t * OutStride(l) = 4 * (t * words)
    BY <1>0, <2>2
  <2>5. t * words \in Nat /\ l.outBase \in Nat
    BY <1>0, <2>2, ProductIsNat, LayoutTyped
  <2>6. 4 * e + b \in 0..OutRow(l) - 1
    BY <1>0, <2>1
  <2>7. StoredByte(l, t, e, b) = l.outBase + t * OutStride(l) + (4 * e + b)
    BY <1>0, <2>1, <2>3, <2>4, <2>5
  <2> QED
    BY <2>6, <2>7
<1> QED
  BY <1>1, <1>2

(***************************************************************************)
(* The properties, for a layout that is accepted.                          *)
(***************************************************************************)

LEMMA ReadInside ==
  ASSUME NEW l \in Layout, LayoutStatus(l) = "OK",
         NEW t \in Timesteps(l), NEW i \in 0..l.inBytes - 1
  PROVE  ReadByte(l, t, i) < l.inBase + l.inCapacity
<1>1. RegionSize(InRow(l), InStride(l), l.timesteps) \in Nat
      /\ RegionSize(InRow(l), InStride(l), l.timesteps) <= l.inCapacity
  BY Accepted, LayoutTyped, FittingRegion
<1>2. t * InStride(l) + InRow(l)
        <= RegionSize(InRow(l), InStride(l), l.timesteps)
  BY LayoutTyped, RowInRegion DEF Timesteps
<1>3. t * InStride(l) \in Nat
  BY LayoutTyped, ProductIsNat DEF Timesteps
<1> QED
  BY <1>1, <1>2, <1>3, LayoutTyped DEF ReadByte

LEMMA StoreInside ==
  ASSUME NEW l \in Layout, LayoutStatus(l) = "OK",
         NEW t \in Timesteps(l), NEW e \in Elements(l),
         NEW b \in 0..BytesPerElement(l) - 1
  PROVE  /\ StoredByte(l, t, e, b) \in
              l.outBase + t * OutStride(l)
                ..l.outBase + t * OutStride(l) + OutRow(l) - 1
         /\ StoredByte(l, t, e, b) < l.outBase + l.outCapacity
<1>1. PICK offset \in 0..OutRow(l) - 1 :
        StoredByte(l, t, e, b) = l.outBase + t * OutStride(l) + offset
  BY Accepted, StoredInRow
<1>2. RegionSize(OutRow(l), OutStride(l), l.timesteps) \in Nat
      /\ RegionSize(OutRow(l), OutStride(l), l.timesteps) <= l.outCapacity
  BY Accepted, LayoutTyped, FittingRegion
<1>3. t * OutStride(l) + OutRow(l)
        <= RegionSize(OutRow(l), OutStride(l), l.timesteps)
  BY LayoutTyped, RowInRegion DEF Timesteps
<1>4. t * OutStride(l) \in Nat
  BY LayoutTyped, ProductIsNat DEF Timesteps
<1> QED
  BY <1>1, <1>2, <1>3, <1>4, LayoutTyped

\* Either all of the input is disjoint from all of the output, or rows
\* coincide, and then an output row ends before the next input row begins.
LEMMA StoreMissesUnsent ==
  ASSUME NEW l \in Layout, LayoutStatus(l) = "OK",
         NEW t \in Timesteps(l), NEW u \in Timesteps(l), t < u,
         NEW e \in Elements(l), NEW i \in 0..l.inBytes - 1,
         NEW b \in 0..BytesPerElement(l) - 1
  PROVE  StoredByte(l, t, e, b) # ReadByte(l, u, i)
<1> DEFINE inSize == RegionSize(InRow(l), InStride(l), l.timesteps)
           outSize == RegionSize(OutRow(l), OutStride(l), l.timesteps)
<1>0. t \in Nat /\ u \in Nat /\ i \in Nat /\ i < InRow(l)
  BY LayoutTyped DEF Timesteps
<1>1. PICK offset \in 0..OutRow(l) - 1 :
        StoredByte(l, t, e, b) = l.outBase + t * OutStride(l) + offset
  BY Accepted, StoredInRow
<1>2. t * OutStride(l) \in Nat /\ u * InStride(l) \in Nat
  BY <1>0, LayoutTyped, ProductIsNat
<1>3. CASE SameRows(l)
  <2>1. l.inBase = l.outBase /\ InStride(l) = OutStride(l)
    BY <1>3 DEF SameRows
  <2>2. t * OutStride(l) + OutStride(l) <= u * InStride(l)
    BY <1>0, <2>1, LayoutTyped, RowsAreApart
  <2>3. OutStride(l) >= OutRow(l)
    BY Accepted, LayoutTyped, FittingRegion
  <2> QED
    BY <1>0, <1>1, <1>2, <2>1, <2>2, <2>3, LayoutTyped DEF ReadByte
<1>4. CASE ~SameRows(l)
  <2>1. ~RegionsOverlap(l.inBase, inSize, l.outBase, outSize)
    BY <1>4, Accepted
  <2>2. inSize \in Nat /\ outSize \in Nat
    BY Accepted, LayoutTyped, FittingRegion
  <2>3. u * InStride(l) + InRow(l) <= inSize
    BY LayoutTyped, RowInRegion DEF Timesteps
  <2>4. t * OutStride(l) + OutRow(l) <= outSize
    BY LayoutTyped, RowInRegion DEF Timesteps
  <2> HIDE DEF inSize, outSize
  <2>5. l.outBase + outSize <= l.inBase \/ l.inBase + inSize <= l.outBase
    BY <2>1, <2>2, LayoutTyped DEF RegionsOverlap
  <2> QED
    BY <1>0, <1>1, <1>2, <2>2, <2>3, <2>4, <2>5, LayoutTyped DEF ReadByte
<1> QED
  BY <1>3, <1>4

(***************************************************************************)
(* Theorems.                                                               *)
(***************************************************************************)

StatusIsHonest ==
  layout \in Layout /\ (status = "OK" => LayoutStatus(layout) = "OK")

LEMMA Honesty == Spec => []StatusIsHonest
<1>1. Init => StatusIsHonest
  BY LayoutAssumption DEF Init, StatusIsHonest
<1>2. StatusIsHonest /\ [Next]_layoutVars => StatusIsHonest'
  BY DEF StatusIsHonest, Next, RunSample, layoutVars
<1> QED
  BY <1>1, <1>2, PTL DEF Spec

\* For every word size and every layout accepted, no store reaches an input
\* row that has not been sent: in-place samples keep their later inputs.
THEOREM InPlaceIsSafe == Spec => []UnsentRowsSurvive
<1>1. StatusIsHonest => UnsentRowsSurvive
  BY StoreMissesUnsent DEF StatusIsHonest, UnsentRowsSurvive
<1> QED
  BY <1>1, Honesty, PTL

\* Every store lies in the row of its timestep and in the output buffer.
THEOREM StoresAreConfined == Spec => []StoresHitTheirRow
<1>1. StatusIsHonest => StoresHitTheirRow
  BY StoreInside DEF StatusIsHonest, StoresHitTheirRow
<1> QED
  BY <1>1, Honesty, PTL

\* Every byte encoded lies in the input buffer.
THEOREM ReadsAreConfined == Spec => []ReadsStayInside
<1>1. StatusIsHonest => ReadsStayInside
  BY ReadInside DEF StatusIsHonest, ReadsStayInside
<1> QED
  BY <1>1, Honesty, PTL

(***************************************************************************)
(* The codec.                                                              *)
(***************************************************************************)

\* The powers of two that a target_lcn selects: ticks and timesteps share the
\* 256 values of a time stamp.
LEMMA LimitValues ==
  ASSUME NEW lcn \in TargetLcns
  PROVE  \/ TickLimit(lcn) = 1 /\ TimestepCapacity(lcn) = 256
         \/ TickLimit(lcn) = 2 /\ TimestepCapacity(lcn) = 128
         \/ TickLimit(lcn) = 4 /\ TimestepCapacity(lcn) = 64
         \/ TickLimit(lcn) = 8 /\ TimestepCapacity(lcn) = 32
         \/ TickLimit(lcn) = 16 /\ TimestepCapacity(lcn) = 16
         \/ TickLimit(lcn) = 32 /\ TimestepCapacity(lcn) = 8
         \/ TickLimit(lcn) = 64 /\ TimestepCapacity(lcn) = 4
         \/ TickLimit(lcn) = 128 /\ TimestepCapacity(lcn) = 2
<1>1. /\ 2^0 = 1 /\ 2^1 = 2 /\ 2^2 = 4 /\ 2^3 = 8 /\ 2^4 = 16
      /\ 2^5 = 32 /\ 2^6 = 64 /\ 2^7 = 128 /\ 2^8 = 256
  OBVIOUS
<1>2. TickLimit(lcn) = 2^lcn /\ TimestepCapacity(lcn) = 2^(8 - lcn)
  BY DEF TickLimit, TimestepCapacity, TsBits
<1>3. CASE lcn = 0
  <2>1. 8 - lcn = 8
    BY <1>3
  <2> QED
    BY <1>1, <1>2, <1>3, <2>1
<1>4. CASE lcn = 1
  <2>1. 8 - lcn = 7
    BY <1>4
  <2> QED
    BY <1>1, <1>2, <1>4, <2>1
<1>5. CASE lcn = 2
  <2>1. 8 - lcn = 6
    BY <1>5
  <2> QED
    BY <1>1, <1>2, <1>5, <2>1
<1>6. CASE lcn = 3
  <2>1. 8 - lcn = 5
    BY <1>6
  <2> QED
    BY <1>1, <1>2, <1>6, <2>1
<1>7. CASE lcn = 4
  <2>1. 8 - lcn = 4
    BY <1>7
  <2> QED
    BY <1>1, <1>2, <1>7, <2>1
<1>8. CASE lcn = 5
  <2>1. 8 - lcn = 3
    BY <1>8
  <2> QED
    BY <1>1, <1>2, <1>8, <2>1
<1>9. CASE lcn = 6
  <2>1. 8 - lcn = 2
    BY <1>9
  <2> QED
    BY <1>1, <1>2, <1>9, <2>1
<1>10. CASE lcn = 7
  <2>1. 8 - lcn = 1
    BY <1>10
  <2> QED
    BY <1>1, <1>2, <1>10, <2>1
<1> QED
  BY <1>3, <1>4, <1>5, <1>6, <1>7, <1>8, <1>9, <1>10 DEF TargetLcns

(***************************************************************************)
(* The round trip of a spike.                                              *)
(***************************************************************************)

\* A resolved time stamp fits its eight bits and gives back both its parts.
LEMMA StampParts ==
  ASSUME NEW timestep \in Nat, NEW lcn \in TargetLcns,
         NEW tick \in Nat, tick < TickLimit(lcn)
  PROVE  /\ Stamp(timestep, lcn, tick) \in 0..255
         /\ Stamp(timestep, lcn, tick) \div TickLimit(lcn)
              = timestep % TimestepCapacity(lcn)
         /\ Stamp(timestep, lcn, tick) % TickLimit(lcn) = tick
<1> DEFINE limit == TickLimit(lcn)
           steps == TimestepCapacity(lcn)
           t == timestep % steps
           stamp == t * limit + tick
<1>1. \/ limit = 1 /\ steps = 256
      \/ limit = 2 /\ steps = 128
      \/ limit = 4 /\ steps = 64
      \/ limit = 8 /\ steps = 32
      \/ limit = 16 /\ steps = 16
      \/ limit = 32 /\ steps = 8
      \/ limit = 64 /\ steps = 4
      \/ limit = 128 /\ steps = 2
  BY LimitValues
<1>2. t \in Nat /\ t < steps
  BY <1>1
<1>3. Stamp(timestep, lcn, tick) = stamp
  BY DEF Stamp
<1>4. tick < limit
  OBVIOUS
<1> HIDE DEF t, limit, steps
<1>5. stamp \in 0..255
  BY <1>1, <1>2, <1>4
<1>6. stamp \div limit = t /\ stamp % limit = tick
  <2>1. CASE limit = 1
    BY <1>2, <1>4, <2>1
  <2>2. CASE limit = 2
    BY <1>2, <1>4, <2>2
  <2>3. CASE limit = 4
    BY <1>2, <1>4, <2>3
  <2>4. CASE limit = 8
    BY <1>2, <1>4, <2>4
  <2>5. CASE limit = 16
    BY <1>2, <1>4, <2>5
  <2>6. CASE limit = 32
    BY <1>2, <1>4, <2>6
  <2>7. CASE limit = 64
    BY <1>2, <1>4, <2>7
  <2>8. CASE limit = 128
    BY <1>2, <1>4, <2>8
  <2> QED
    BY <1>1, <2>1, <2>2, <2>3, <2>4, <2>5, <2>6, <2>7, <2>8
<1> QED
  BY <1>3, <1>5, <1>6 DEF t, limit, steps

\* Sign extension undoes the narrowing of a byte that fits.
LEMMA SignExtension ==
  ASSUME NEW byte \in 0..255, NEW size, NEW half,
         \/ size = 2 /\ half = 1
         \/ size = 4 /\ half = 2
         \/ size = 16 /\ half = 8
         \/ size = 256 /\ half = 128,
         (IF byte >= 128 THEN byte - 256 ELSE byte) \in -half..half - 1
  PROVE  /\ byte % size \in 0..255
         /\ (IF (byte % size) % size >= half
             THEN ((byte % size) % size) + 256 - size ELSE (byte % size) % size) = byte
<1>1. CASE size = 2 /\ half = 1
  BY <1>1
<1>2. CASE size = 4 /\ half = 2
  BY <1>2
<1>3. CASE size = 16 /\ half = 8
  BY <1>3
<1>4. CASE size = 256 /\ half = 128
  BY <1>4
<1> QED
  BY <1>1, <1>2, <1>3, <1>4

\* A byte that fits its dtype survives the narrowing and the sign extension.
LEMMA PayloadRoundTrip ==
  ASSUME NEW dtype \in DTypes, NEW byte \in Bytes, Encodable(byte, dtype)
  PROVE  /\ EncodedPayload(byte, dtype) \in 0..255
         /\ DecodedByte(EncodedPayload(byte, dtype), dtype) = byte
<1> DEFINE payload == EncodedPayload(byte, dtype)
<1>1. /\ 2^0 = 1 /\ 2^1 = 2 /\ 2^2 = 4 /\ 2^3 = 8
      /\ 2^4 = 16 /\ 2^7 = 128 /\ 2^8 = 256
  OBVIOUS
<1>2. /\ dtype.bits \in {1, 2, 4, 8} /\ dtype.signed \in BOOLEAN
      /\ byte \in 0..255
  BY <1>1 DEF DTypes, Bytes
<1>3. \/ 2^dtype.bits = 2 /\ 2^(dtype.bits - 1) = 1
      \/ 2^dtype.bits = 4 /\ 2^(dtype.bits - 1) = 2
      \/ 2^dtype.bits = 16 /\ 2^(dtype.bits - 1) = 8
      \/ 2^dtype.bits = 256 /\ 2^(dtype.bits - 1) = 128
  <2>1. CASE dtype.bits = 1
    <3>1. dtype.bits - 1 = 0
      BY <2>1
    <3> QED
      BY <1>1, <2>1, <3>1
  <2>2. CASE dtype.bits = 2
    <3>1. dtype.bits - 1 = 1
      BY <2>2
    <3> QED
      BY <1>1, <2>2, <3>1
  <2>3. CASE dtype.bits = 4
    <3>1. dtype.bits - 1 = 3
      BY <2>3
    <3> QED
      BY <1>1, <2>3, <3>1
  <2>4. CASE dtype.bits = 8
    <3>1. dtype.bits - 1 = 7
      BY <2>4
    <3> QED
      BY <1>1, <2>4, <3>1
  <2> QED
    BY <1>2, <2>1, <2>2, <2>3, <2>4
<1>4. AsSigned(byte) = IF byte >= 128 THEN byte - 256 ELSE byte
  BY <1>1 DEF AsSigned
<1>5. CASE dtype.signed
  <2> DEFINE size == 2^dtype.bits
             half == 2^(dtype.bits - 1)
  <2>1. /\ payload = byte % size
        /\ AsSigned(byte) \in -half..half - 1
    BY <1>5 DEF EncodedPayload, Encodable
  <2>2. DecodedByte(payload, dtype) =
          IF payload % size >= half
          THEN (payload % size) + 256 - size ELSE payload % size
    BY <1>1, <1>5 DEF DecodedByte
  <2>3. \/ size = 2 /\ half = 1
        \/ size = 4 /\ half = 2
        \/ size = 16 /\ half = 8
        \/ size = 256 /\ half = 128
    BY <1>3
  <2>4. (IF byte >= 128 THEN byte - 256 ELSE byte) \in -half..half - 1
    BY <1>4, <2>1
  <2> HIDE DEF payload, size, half
  <2>5. /\ byte % size \in 0..255
        /\ (IF (byte % size) % size >= half
            THEN ((byte % size) % size) + 256 - size ELSE (byte % size) % size) = byte
    BY <1>2, <2>3, <2>4, SignExtension
  <2>6. payload \in 0..255 /\ DecodedByte(payload, dtype) = byte
    BY <2>1, <2>2, <2>5
  <2> QED
    BY <2>6 DEF payload
<1>6. CASE ~dtype.signed
  <2>1. payload = byte /\ byte < 2^dtype.bits
    BY <1>6 DEF EncodedPayload, Encodable
  <2> QED
    BY <1>2, <1>3, <1>6, <2>1 DEF DecodedByte
<1> QED
  BY <1>2, <1>5, <1>6

\* Offsets are told apart by sign and magnitude.
LEMMA OffsetRoundTrip ==
  ASSUME NEW offset \in -31..31
  PROVE  (CHOOSE value \in -31..31 :
            SignMagnitude6(value) = SignMagnitude6(offset)) = offset
<1>1. \A value \in -31..31 :
        SignMagnitude6(value) = IF value < 0 THEN 32 - value ELSE value
  <2>1. 2^5 = 32
    OBVIOUS
  <2> QED
    BY <2>1 DEF SignMagnitude6
<1>2. \A value \in -31..31 :
        SignMagnitude6(value) = SignMagnitude6(offset) => value = offset
  BY <1>1
<1> QED
  BY <1>2

\* Of the stamp in front of the axon, the address keeps the ticks.
LEMMA AddressArithmetic ==
  ASSUME NEW lcn \in TargetLcns, NEW frame,
         EncodedTimestep(frame) \in 0..255, FrameAxon(frame) \in 0..511
  PROVE  AxonBit(frame, lcn)
           = (EncodedTimestep(frame) % TickLimit(lcn)) * 512 + FrameAxon(frame)
<1>0. PICK stamp \in 0..255, axon \in 0..511 :
        stamp = EncodedTimestep(frame) /\ axon = FrameAxon(frame)
  OBVIOUS
<1> DEFINE limit == TickLimit(lcn)
           q == stamp \div limit
           r == stamp % limit
<1>1. \/ limit = 1 \/ limit = 2 \/ limit = 4 \/ limit = 8
      \/ limit = 16 \/ limit = 32 \/ limit = 64 \/ limit = 128
  BY LimitValues
<1> HIDE DEF limit
<1>2. q \in Nat /\ r \in Nat /\ r < limit /\ stamp = q * limit + r
  <2>1. CASE limit = 1
    BY <2>1
  <2>2. CASE limit = 2
    BY <2>2
  <2>3. CASE limit = 4
    BY <2>3
  <2>4. CASE limit = 8
    BY <2>4
  <2>5. CASE limit = 16
    BY <2>5
  <2>6. CASE limit = 32
    BY <2>6
  <2>7. CASE limit = 64
    BY <2>7
  <2>8. CASE limit = 128
    BY <2>8
  <2> QED
    BY <1>1, <2>1, <2>2, <2>3, <2>4, <2>5, <2>6, <2>7, <2>8
<1> HIDE DEF q, r
<1>3. (stamp * 512 + axon) % (512 * limit) = r * 512 + axon
  <2>1. CASE limit = 1
    BY <1>2, <2>1
  <2>2. CASE limit = 2
    BY <1>2, <2>2
  <2>3. CASE limit = 4
    BY <1>2, <2>3
  <2>4. CASE limit = 8
    BY <1>2, <2>4
  <2>5. CASE limit = 16
    BY <1>2, <2>5
  <2>6. CASE limit = 32
    BY <1>2, <2>6
  <2>7. CASE limit = 64
    BY <1>2, <2>7
  <2>8. CASE limit = 128
    BY <1>2, <2>8
  <2> QED
    BY <1>1, <2>1, <2>2, <2>3, <2>4, <2>5, <2>6, <2>7, <2>8
<1> QED
  BY <1>0, <1>3 DEF r, limit, AxonBit, AxonCount

\* What is packed into a work frame is read from it.
LEMMA PackParts ==
  ASSUME NEW header, NEW dest, NEW stamp, NEW axon, NEW payload,
         header \in {8, 10}, stamp \in 0..255,
         axon \in 0..511, payload \in 0..255,
         NEW frame, frame = Pack(header, dest, stamp, axon, payload)
  PROVE  /\ frame = [header |-> frame.header, dest |-> dest, low |-> frame.low]
         /\ frame.dest = dest
         /\ frame.header \in 0..15 /\ frame.low \in Nat
         /\ IsWork(frame)
         /\ Kind(frame) = IF header = 8 THEN "data" ELSE "voltage"
         /\ EncodedTimestep(frame) = stamp
         /\ FrameAxon(frame) = axon
         /\ Payload(frame) = payload
<1> DEFINE low == (stamp % 128) * 131072 + axon * 256 + payload
<1>1. frame = [header |-> header + ((stamp \div 128) % 2), dest |-> dest,
               low |-> low]
  BY DEF Pack, TsLoCount, TsLoUnit, AxonUnit
<1>2. /\ low \div 131072 = stamp % 128
      /\ low \div 256 = (stamp % 128) * 512 + axon
      /\ low % 256 = payload
      /\ low \in Nat
  OBVIOUS
<1>3. ((stamp % 128) * 512 + axon) % 512 = axon
  OBVIOUS
<1> HIDE DEF low
<1>4. frame.header = header + ((stamp \div 128) % 2) /\ frame.low = low
  BY <1>1
<1>5. /\ frame.header \in 0..15 /\ IsWork(frame)
      /\ Kind(frame) = IF header = 8 THEN "data" ELSE "voltage"
  BY <1>4 DEF IsWork, Kind
<1>6. /\ EncodedTimestep(frame) = stamp
      /\ FrameAxon(frame) = axon
      /\ Payload(frame) = payload
  BY <1>2, <1>3, <1>4 DEF EncodedTimestep, FrameAxon, Payload,
     TsLoCount, TsLoUnit, AxonUnit, AxonCount, PayloadCount
<1> QED
  BY <1>1, <1>2, <1>4, <1>5, <1>6

\* The frame of a spike, read with the codec's own decoders, gives back the
\* spike's destination, axon, tick and value, and its timestep as far as the
\* time stamp can hold it, for every entry the encoder accepts
\* (build_work1_frame, rvrt_output_frame_address, decode_payload).
THEOREM SpikeRoundTrip ==
  ASSUME NEW entry \in InputEntry, Buildable(entry),
         NEW byte \in Bytes, Encodable(byte, entry.dtype),
         NEW timestep \in Nat
  PROVE  LET frame == WorkFrameOf(entry, byte, timestep)
         IN  /\ IsWork(frame) /\ Kind(frame) = "data"
             /\ ReadBack(frame, entry) =
                  [offset |-> entry.offset, axon |-> entry.axon,
                   tick |-> entry.tick,
                   timestep |-> timestep % TimestepCapacity(entry.lcn),
                   byte |-> byte]
<1> DEFINE frame == WorkFrameOf(entry, byte, timestep)
<1>1. /\ entry.dtype \in DTypes /\ entry.lcn \in TargetLcns
      /\ entry.tick \in Nat /\ entry.axon \in 0..511
      /\ entry.offset \in -31..31 /\ entry.tick < TickLimit(entry.lcn)
  BY DEF InputEntry, Buildable, FitsSign6, AxonCount
<1>2. PICK lcn \in TargetLcns, axon \in 0..511, tick \in Nat, offset \in -31..31 :
        /\ lcn = entry.lcn /\ axon = entry.axon
        /\ tick = entry.tick /\ offset = entry.offset
  BY <1>1
<1>3. /\ Stamp(timestep, lcn, tick) \in 0..255
      /\ Stamp(timestep, lcn, tick) \div TickLimit(lcn)
           = timestep % TimestepCapacity(lcn)
      /\ Stamp(timestep, lcn, tick) % TickLimit(lcn) = tick
  BY <1>1, <1>2, StampParts
<1>4. PICK stamp \in 0..255 : stamp = Stamp(timestep, lcn, tick)
  BY <1>3
<1>5. /\ EncodedPayload(byte, entry.dtype) \in 0..255
      /\ DecodedByte(EncodedPayload(byte, entry.dtype), entry.dtype) = byte
  BY <1>1, PayloadRoundTrip
<1>6. PICK payload \in 0..255 : payload = EncodedPayload(byte, entry.dtype)
  BY <1>5
<1>7. frame = Pack(WorkHeader, SignMagnitude6(offset), stamp, axon, payload)
  BY <1>2, <1>4, <1>6 DEF WorkFrameOf
<1> HIDE DEF frame
<1>8. /\ frame.dest = SignMagnitude6(offset)
      /\ IsWork(frame) /\ Kind(frame) = "data"
      /\ EncodedTimestep(frame) = stamp
      /\ FrameAxon(frame) = axon
      /\ Payload(frame) = payload
  BY <1>7, PackParts DEF WorkHeader
<1>9. AxonBit(frame, entry.lcn) = tick * 512 + axon
  <2>1. AxonBit(frame, lcn)
          = (EncodedTimestep(frame) % TickLimit(lcn)) * 512 + FrameAxon(frame)
    BY <1>8, AddressArithmetic
  <2>2. stamp % TickLimit(lcn) = tick
    BY <1>3, <1>4
  <2> QED
    BY <1>2, <1>8, <2>1, <2>2
<1>10. /\ (tick * 512 + axon) % 512 = axon
       /\ (tick * 512 + axon) \div 512 = tick
  OBVIOUS
<1>11. /\ AxonBit(frame, entry.lcn) % AxonCount = entry.axon
       /\ AxonBit(frame, entry.lcn) \div AxonCount = entry.tick
  BY <1>2, <1>9, <1>10 DEF AxonCount
<1>12. Timestep(frame, entry.lcn) = timestep % TimestepCapacity(entry.lcn)
  BY <1>2, <1>3, <1>4, <1>8 DEF Timestep
<1>13. (CHOOSE value \in -31..31 : SignMagnitude6(value) = frame.dest) = entry.offset
  BY <1>2, <1>8, OffsetRoundTrip
<1>14. DecodedByte(Payload(frame), entry.dtype) = byte
  BY <1>5, <1>6, <1>8
<1>15. ReadBack(frame, entry) =
        [offset |-> entry.offset, axon |-> entry.axon, tick |-> entry.tick,
         timestep |-> timestep % TimestepCapacity(entry.lcn), byte |-> byte]
  BY <1>11, <1>12, <1>13, <1>14 DEF ReadBack
<1> QED
  BY <1>8, <1>15 DEF frame

(***************************************************************************)
(* The encoder.                                                            *)
(***************************************************************************)

\* Nothing is sent before the first entry.
LEMMA NoSpikes ==
  ASSUME NEW row PROVE SpikesUpTo(row, 0, <<>>)
<1> DEFINE at == [i \in 1..0 |-> 0]
<1>1. Len(<<>>) = 0 /\ 1..0 = {}
  OBVIOUS
<1>2. at \in [1..Len(<<>>) -> 1..0]
  BY <1>1
<1> QED
  BY <1>1, <1>2 DEF SpikesUpTo

\* An entry whose element is zero has no frame.
LEMMA SpikeSkipped ==
  ASSUME NEW row, NEW n \in Nat, NEW S, NEW frames \in Seq(S),
         SpikesUpTo(row, n, frames), ~IsSpike(row, n + 1)
  PROVE  SpikesUpTo(row, n + 1, frames)
<1> DEFINE m == Len(frames)
<1>0. m \in Nat
  OBVIOUS
<1> HIDE DEF m
<1>1. PICK at \in [1..m -> 1..n] :
        /\ \A i, j \in 1..m : i < j => at[i] < at[j]
        /\ \A i \in 1..m : Carries(frames[i], row, row.entries[at[i]])
        /\ \A k \in 1..n : IsSpike(row, k) <=> \E i \in 1..m : at[i] = k
  BY DEF SpikesUpTo, m
<1>2. at \in [1..m -> 1..n + 1]
  OBVIOUS
<1>3. \A k \in 1..n + 1 : IsSpike(row, k) <=> \E i \in 1..m : at[i] = k
  <2> SUFFICES ASSUME NEW k \in 1..n + 1
               PROVE  IsSpike(row, k) <=> \E i \in 1..m : at[i] = k
    OBVIOUS
  <2>1. CASE k = n + 1
    <3>1. \A i \in 1..m : at[i] # k
      BY <2>1
    <3> QED
      BY <2>1, <3>1
  <2>2. CASE k \in 1..n
    BY <1>1, <2>2
  <2> QED
    BY <2>1, <2>2
<1> QED
  BY <1>1, <1>2, <1>3 DEF SpikesUpTo, m

\* The frame of the next spike goes behind those of the spikes before.
LEMMA SpikeEncoded ==
  ASSUME NEW row, NEW n \in Nat, NEW S, NEW frames \in Seq(S), NEW f \in S,
         SpikesUpTo(row, n, frames), IsSpike(row, n + 1),
         Carries(f, row, row.entries[n + 1])
  PROVE  SpikesUpTo(row, n + 1, Append(frames, f))
<1> DEFINE m == Len(frames)
           next == Append(frames, f)
<1>1. PICK at \in [1..m -> 1..n] :
        /\ \A i, j \in 1..m : i < j => at[i] < at[j]
        /\ \A i \in 1..m : Carries(frames[i], row, row.entries[at[i]])
        /\ \A k \in 1..n : IsSpike(row, k) <=> \E i \in 1..m : at[i] = k
  BY DEF SpikesUpTo
<1>2. /\ Len(next) = m + 1 /\ next[m + 1] = f /\ m \in Nat
      /\ \A i \in 1..m : next[i] = frames[i]
  BY AppendProperties
<1> HIDE DEF m, next
<1> DEFINE new == [i \in 1..m + 1 |-> IF i = m + 1 THEN n + 1 ELSE at[i]]
<1>3. /\ new[m + 1] = n + 1 /\ m + 1 \in 1..m + 1
      /\ \A i \in 1..m : new[i] = at[i] /\ new[i] \in 1..n /\ i \in 1..m + 1
  BY <1>2
<1>4. new \in [1..m + 1 -> 1..n + 1]
  BY <1>2
<1> HIDE DEF new
<1>5. \A i \in 1..m + 1 : i = m + 1 \/ i \in 1..m
  BY <1>2
<1>6. \A i, j \in 1..m + 1 : i < j => new[i] < new[j]
  <2> SUFFICES ASSUME NEW i \in 1..m + 1, NEW j \in 1..m + 1, i < j
               PROVE  new[i] < new[j]
    OBVIOUS
  <2>1. i \in 1..m
    BY <1>2
  <2>2. CASE j = m + 1
    BY <1>3, <2>1, <2>2
  <2>3. CASE j \in 1..m
    BY <1>1, <1>3, <2>1, <2>3
  <2> QED
    BY <1>5, <2>2, <2>3
<1>7. \A i \in 1..m + 1 : Carries(next[i], row, row.entries[new[i]])
  <2> SUFFICES ASSUME NEW i \in 1..m + 1
               PROVE  Carries(next[i], row, row.entries[new[i]])
    OBVIOUS
  <2>1. CASE i = m + 1
    BY <1>2, <1>3, <2>1
  <2>2. CASE i \in 1..m
    BY <1>1, <1>2, <1>3, <2>2
  <2> QED
    BY <1>5, <2>1, <2>2
<1>8. \A k \in 1..n + 1 : IsSpike(row, k) <=> \E i \in 1..m + 1 : new[i] = k
  <2> SUFFICES ASSUME NEW k \in 1..n + 1
               PROVE  IsSpike(row, k) <=> \E i \in 1..m + 1 : new[i] = k
    OBVIOUS
  <2>1. CASE k = n + 1
    BY <1>3, <2>1
  <2>2. CASE k \in 1..n
    <3>1. new[m + 1] # k
      BY <1>3, <2>2
    <3> QED
      BY <1>1, <1>3, <1>5, <2>2, <3>1
  <2> QED
    BY <2>1, <2>2
<1>9. SpikesUpTo(row, n + 1, next)
  <2>1. new \in [1..Len(next) -> 1..n + 1]
    BY <1>2, <1>4
  <2> QED
    BY <1>2, <1>6, <1>7, <1>8, <2>1, ZenonT(90) DEF SpikesUpTo
<1> QED
  BY <1>9 DEF next

\* A byte that fits its dtype is sent as zero just when it is zero.
LEMMA ZeroPayload ==
  ASSUME NEW dtype \in DTypes, NEW byte \in Bytes, Encodable(byte, dtype)
  PROVE  EncodedPayload(byte, dtype) = 0 <=> byte = 0
<1> DEFINE size == 2^dtype.bits
           half == 2^(dtype.bits - 1)
<1>1. size \in Nat \ {0} /\ half \in Nat \ {0}
  <2>1. /\ 2^0 = 1 /\ 2^1 = 2 /\ 2^2 = 4 /\ 2^3 = 8
        /\ 2^4 = 16 /\ 2^7 = 128 /\ 2^8 = 256
    OBVIOUS
  <2>2. dtype.bits \in {1, 2, 4, 8}
    BY DEF DTypes
  <2>3. CASE dtype.bits = 1
    BY <2>1, <2>3
  <2>4. CASE dtype.bits = 2
    BY <2>1, <2>4
  <2>5. CASE dtype.bits = 4
    BY <2>1, <2>5
  <2>6. CASE dtype.bits = 8
    BY <2>1, <2>6
  <2> QED
    BY <2>2, <2>3, <2>4, <2>5, <2>6
<1>2. DecodedByte(0, dtype)
        = LET value == 0 % size
          IN  IF dtype.signed /\ value >= half THEN value + 2^8 - size ELSE value
  BY DEF DecodedByte
<1>3. EncodedPayload(0, dtype) = IF dtype.signed THEN 0 % size ELSE 0
  BY DEF EncodedPayload
<1> HIDE DEF size, half
<1>4. 0 % size = 0 /\ ~(0 >= half)
  BY <1>1
<1>5. DecodedByte(0, dtype) = 0 /\ EncodedPayload(0, dtype) = 0
  BY <1>2, <1>3, <1>4
<1> QED
  BY <1>5, PayloadRoundTrip

\* All frames that can be sent for a row.
FramesOf(row) ==
  {WorkFrameOf(entry, byte, row.timestep) : entry \in InputEntry, byte \in Bytes}

\* What is sent and what waits in the workspace are the spikes of the entries
\* up to the cursor; where a call fails, up to some entry before it.
Encoded ==
  /\ call \in InputRows
  /\ entryIndex \in 0..Len(call.entries)
  /\ sent \in Seq(FramesOf(call)) /\ workspace \in Seq(FramesOf(call))
  /\ sending \in {"encoding", "full", "OK", "RUNTIME_ERROR"}
  /\ sending # "RUNTIME_ERROR" => SpikesUpTo(call, entryIndex, sent \o workspace)
  /\ sending = "OK" => workspace = <<>> /\ Done
  /\ InputIsExact

LEMMA InitEncoded == InputInit => Encoded
<1> SUFFICES ASSUME InputInit PROVE Encoded
  OBVIOUS
<1>1. /\ call \in InputRows /\ entryIndex = 0 /\ sending = "encoding"
      /\ workspace = <<>> /\ sent = <<>>
  BY DEF InputInit
<1>2. ReadableRow(call)
  BY <1>1, InputAssumption
<1>3. Len(call.entries) \in Nat
  BY <1>2 DEF ReadableRow
<1>4. <<>> \in Seq(FramesOf(call)) /\ <<>> \o <<>> = <<>>
  BY EmptySeq, ConcatEmptySeq
<1>5. SpikesUpTo(call, 0, sent \o workspace)
  BY <1>1, <1>4, NoSpikes
<1>6. InputIsExact
  BY <1>1, <1>3, <1>5 DEF InputIsExact
<1> QED
  BY <1>1, <1>3, <1>4, <1>5, <1>6 DEF Encoded

\* What the entry at the cursor is.
LEMMA EntryFacts ==
  ASSUME Encoded, Encoding
  PROVE  /\ Entry \in InputEntry /\ Byte \in Bytes /\ call.timestep \in Nat
         /\ Len(call.entries) \in Nat /\ entryIndex \in Nat
         /\ entryIndex + 1 \in 1..Len(call.entries)
         /\ SpikesUpTo(call, entryIndex, sent \o workspace)
<1>1. ReadableRow(call) /\ entryIndex \in 0..Len(call.entries)
  BY InputAssumption DEF Encoded
<1>2. call.entries \in Seq(InputEntry) /\ Len(call.entries) \in Nat
  BY <1>1 DEF ReadableRow
<1>3. entryIndex + 1 \in 1..Len(call.entries)
  BY <1>1, <1>2 DEF Encoding, Done
<1>4. Entry \in InputEntry
  BY <1>2, <1>3, ElementOfSeq DEF Entry
<1>5. Byte \in Bytes /\ call.timestep \in Nat
  <2>1. /\ call.bytes \in Seq(Bytes) /\ call.timestep \in Nat
        /\ Entry.elem \in 1..Len(call.bytes)
    BY <1>1, <1>3 DEF ReadableRow, Entry
  <2> QED
    BY <2>1, ElementOfSeq DEF Byte
<1> QED
  BY <1>1, <1>2, <1>3, <1>4, <1>5 DEF Encoded, Encoding

\* A turn of the loop that ends the call, or sends nothing for its entry.
LEMMA NothingEncoded ==
  ASSUME Encoded, RejectValue \/ SkipZero \/ FillBuffer \/ RejectEntry
  PROVE  Encoded'
<1>1. /\ Encoding /\ UNCHANGED <<call, workspace, sent>>
  BY DEF RejectValue, SkipZero, FillBuffer, RejectEntry, Spike
<1>2. /\ Entry \in InputEntry /\ Byte \in Bytes
      /\ Len(call.entries) \in Nat /\ entryIndex \in Nat
      /\ entryIndex + 1 \in 1..Len(call.entries)
      /\ SpikesUpTo(call, entryIndex, sent \o workspace)
  BY <1>1, EntryFacts
<1>3. /\ sent \in Seq(FramesOf(call)) /\ workspace \in Seq(FramesOf(call))
      /\ \E n \in 0..Len(call.entries) : SpikesUpTo(call, n, sent \o workspace)
  BY DEF Encoded, InputIsExact
<1>4. CASE RejectValue \/ RejectEntry
  <2>1. /\ sending' = "RUNTIME_ERROR"
        /\ entryIndex' \in 0..Len(call.entries)
        /\ \/ ~Encodable(Byte, Entry.dtype)
           \/ ~Buildable(Entry)
    BY <1>2, <1>4 DEF RejectValue, RejectEntry
  <2>2. InputIsExact'
    BY <1>1, <1>2, <1>3, <2>1 DEF InputIsExact, Entry, Byte
  <2> QED
    BY <1>1, <1>3, <2>1, <2>2 DEF Encoded
<1>5. CASE SkipZero
  <2>1. entryIndex' = entryIndex + 1 /\ sending' = "encoding"
    BY <1>1, <1>5 DEF SkipZero, Encoding
  <2>2. ~IsSpike(call, entryIndex + 1)
    <3>1. Entry.dtype \in DTypes
      BY <1>2 DEF InputEntry
    <3>2. Byte = 0
      BY <1>2, <1>5, <3>1, ZeroPayload DEF SkipZero
    <3> QED
      BY <3>2 DEF IsSpike, Byte, Entry
  <2>3. sent \o workspace \in Seq(FramesOf(call))
    BY <1>3, ConcatProperties
  <2>4. SpikesUpTo(call, entryIndex + 1, sent \o workspace)
    BY <1>2, <2>2, <2>3, SpikeSkipped
  <2> QED
    BY <1>1, <1>2, <1>3, <2>1, <2>4 DEF Encoded, InputIsExact
<1>6. CASE FillBuffer
  <2>1. entryIndex' = entryIndex /\ sending' = "full"
    BY <1>6 DEF FillBuffer, CursorSteppedBack
  <2> QED
    BY <1>1, <1>2, <1>3, <2>1 DEF Encoded, InputIsExact
<1> QED
  BY <1>4, <1>5, <1>6

\* The spike at the cursor becomes a frame that carries it.
LEMMA FrameEncoded ==
  ASSUME Encoded, EncodeFrame PROVE Encoded'
<1> DEFINE f == WorkFrameOf(Entry, Byte, call.timestep)
<1>1. /\ Encoding /\ Encodable(Byte, Entry.dtype) /\ Buildable(Entry)
      /\ EncodedPayload(Byte, Entry.dtype) # 0
      /\ entryIndex' = entryIndex + 1 /\ workspace' = Append(workspace, f)
      /\ sending' = "encoding" /\ UNCHANGED <<call, sent>>
  BY DEF EncodeFrame, Spike, Encoding
<1>2. /\ Entry \in InputEntry /\ Byte \in Bytes /\ call.timestep \in Nat
      /\ Len(call.entries) \in Nat /\ entryIndex \in Nat
      /\ entryIndex + 1 \in 1..Len(call.entries)
      /\ SpikesUpTo(call, entryIndex, sent \o workspace)
  BY <1>1, EntryFacts
<1>3. sent \in Seq(FramesOf(call)) /\ workspace \in Seq(FramesOf(call))
  BY DEF Encoded
<1>4. f \in FramesOf(call)
  BY <1>2 DEF FramesOf
<1>5. IsSpike(call, entryIndex + 1)
  <2>1. Entry.dtype \in DTypes
    BY <1>2 DEF InputEntry
  <2>2. Byte # 0
    BY <1>1, <1>2, <2>1, ZeroPayload
  <2> QED
    BY <2>2 DEF IsSpike, Byte, Entry
<1>6. Carries(f, call, call.entries[entryIndex + 1])
  BY <1>1, <1>2, SpikeRoundTrip DEF Carries, SpikeOf, Byte, Entry
<1> HIDE DEF f
<1>7. sent \o Append(workspace, f) = Append(sent \o workspace, f)
  <2>1. /\ Append(workspace, f) = workspace \o <<f>>
        /\ <<f>> \in Seq(FramesOf(call))
        /\ sent \o workspace \in Seq(FramesOf(call))
    BY <1>3, <1>4, AppendIsConcat, ConcatProperties
  <2>2. Append(sent \o workspace, f) = (sent \o workspace) \o <<f>>
    BY <1>4, <2>1, AppendIsConcat
  <2> QED
    BY <1>3, <2>1, <2>2, ConcatAssociative
<1>8. /\ Append(workspace, f) \in Seq(FramesOf(call))
      /\ sent \o workspace \in Seq(FramesOf(call))
  BY <1>3, <1>4, AppendProperties, ConcatProperties
<1>9. SpikesUpTo(call, entryIndex + 1, sent' \o workspace')
  <2>1. SpikesUpTo(call, entryIndex + 1, Append(sent \o workspace, f))
    BY <1>2, <1>4, <1>5, <1>6, <1>8, SpikeEncoded
  <2> QED
    BY <1>1, <1>7, <2>1
<1> QED
  BY <1>1, <1>2, <1>3, <1>8, <1>9 DEF Encoded, InputIsExact

\* Sending empties the workspace behind what was sent before.
LEMMA WorkspaceSent ==
  ASSUME Encoded, SendWorkspace PROVE Encoded'
<1>1. /\ sending = "full" \/ (sending = "encoding" /\ Done)
      /\ sent' = sent \o workspace /\ workspace' = <<>>
      /\ sending' = (IF sending = "full" THEN "encoding" ELSE "OK")
      /\ UNCHANGED <<call, entryIndex>>
  BY DEF SendWorkspace
<1>2. /\ call \in InputRows /\ entryIndex \in 0..Len(call.entries)
      /\ sent \in Seq(FramesOf(call)) /\ workspace \in Seq(FramesOf(call))
      /\ SpikesUpTo(call, entryIndex, sent \o workspace)
  BY <1>1 DEF Encoded
<1>3. sent' \in Seq(FramesOf(call)) /\ workspace' \in Seq(FramesOf(call))
  BY <1>1, <1>2, ConcatProperties, EmptySeq
<1>4. sent' \o workspace' = sent'
  BY <1>1, <1>3, ConcatEmptySeq
<1>5. SpikesUpTo(call, entryIndex, sent')
  BY <1>1, <1>2
<1> QED
  BY <1>1, <1>2, <1>3, <1>4, <1>5 DEF Encoded, InputIsExact, Done

\* However a row is cut into chunks, its spikes are sent, each once and in the
\* mapping's order, so that the codec's decoders read them back, for every
\* mapping the reader admits, every row and every frame buffer
\* (rvrt_encode_input_chunk, rvrt_session_send_input_timestep).
THEOREM InputsAreExact == InputSpec => []InputIsExact
<1>1. Encoded /\ [InputNext]_inputVars => Encoded'
  <2> SUFFICES ASSUME Encoded, [InputNext]_inputVars PROVE Encoded'
    OBVIOUS
  <2>1. CASE UNCHANGED inputVars
    BY <2>1 DEF inputVars, Encoded, InputIsExact, Done
  <2>2. CASE InputNext
    BY <2>2, NothingEncoded, FrameEncoded, WorkspaceSent DEF InputNext
  <2> QED
    BY <2>1, <2>2
<1>2. Encoded => InputIsExact
  BY DEF Encoded
<1> QED
  BY <1>1, <1>2, InitEncoded, PTL DEF InputSpec

(***************************************************************************)
(* Output mappings.                                                        *)
(***************************************************************************)

\* What the reader guarantees of the mapping.
LEMMA ViewReadable ==
  ASSUME NEW v \in Views
  PROVE  /\ v.kind \in {"data", "voltage"}
         /\ v.lcn \in TargetLcns
         /\ v.elements \in Nat \ {0} /\ v.timesteps \in Nat \ {0}
         /\ v.dtype \in DTypes
         /\ DOMAIN v.elemAt \subseteq Nat
         /\ IsFiniteSet(DOMAIN v.elemAt)
         /\ \A axonBit \in DOMAIN v.elemAt :
              v.elemAt[axonBit] \in ElementsOf(v)
<1> DEFINE w == [v EXCEPT !.elemAt = [axonBit \in {0} |-> 0]]
<1>1. ReadableView(v)
  BY OutputAssumption
<1>2. w \in View
  BY <1>1 DEF ReadableView
<1>3. /\ v.kind = w.kind /\ v.lcn = w.lcn /\ v.elements = w.elements
      /\ v.timesteps = w.timesteps /\ v.dtype = w.dtype
  BY <1>2 DEF View
<1>4. /\ w.kind \in {"data", "voltage"}
      /\ w.lcn \in TargetLcns
      /\ w.elements \in Nat \ {0} /\ w.timesteps \in Nat \ {0}
      /\ w.dtype \in DTypes
  BY <1>2 DEF View
<1> QED
  BY <1>1, <1>3, <1>4 DEF ReadableView, ElementsOf

\* No two elements have one canonical axon.
LEMMA ExpectedAxonInjective ==
  ASSUME NEW v, NEW e \in Nat, NEW d \in Nat,
         ExpectedAxon(v, e) = ExpectedAxon(v, d)
  PROVE  e = d
  BY DEF ExpectedAxon, LaneBits, GroupPitch, LaneCount

\* A fast layout maps exactly the canonical axons, each to its element.
LEMMA FastIsCanonical ==
  ASSUME NEW v \in Views, FastLayout(v) = "fast"
  PROVE  /\ \A e \in ElementsOf(v) :
              /\ ExpectedAxon(v, e) \in DOMAIN v.elemAt
              /\ v.elemAt[ExpectedAxon(v, e)] = e
         /\ \A axonBit \in DOMAIN v.elemAt :
              \E e \in ElementsOf(v) : axonBit = ExpectedAxon(v, e)
         /\ v.kind = "data" => v.dtype = [bits |-> 1, signed |-> FALSE]
<1> DEFINE differs ==
      {e \in ElementsOf(v) : \/ ExpectedAxon(v, e) \notin DOMAIN v.elemAt
                             \/ v.elemAt[ExpectedAxon(v, e)] # e}
           f == [e \in ElementsOf(v) |-> ExpectedAxon(v, e)]
<1>1. /\ v.kind = "data" => v.dtype = [bits |-> 1, signed |-> FALSE]
      /\ Cardinality(DOMAIN v.elemAt) = v.elements
      /\ differs = {}
  BY DEF FastLayout
<1>2. \A e \in ElementsOf(v) :
        /\ ExpectedAxon(v, e) \in DOMAIN v.elemAt
        /\ v.elemAt[ExpectedAxon(v, e)] = e
  BY <1>1
<1>3. f \in Injection(ElementsOf(v), DOMAIN v.elemAt)
  <2>1. ElementsOf(v) \subseteq Nat
    BY ViewReadable DEF ElementsOf
  <2>2. \A e, d \in ElementsOf(v) : f[e] = f[d] => e = d
    BY <2>1, ExpectedAxonInjective
  <2> QED
    BY <1>2, <2>2 DEF Injection, IsInjective
<1>4. Cardinality(ElementsOf(v)) = v.elements
  BY ViewReadable, FS_Interval DEF ElementsOf
<1>5. f \in Surjection(ElementsOf(v), DOMAIN v.elemAt)
  BY <1>1, <1>3, <1>4, ViewReadable, FS_Injection
<1> QED
  BY <1>1, <1>2, <1>5 DEF Surjection

(***************************************************************************)
(* Address bits.                                                           *)
(***************************************************************************)

\* The first lane's axon of a VOLTAGE address is the canonical axon of the
\* element that the fast decoder computes, and of no other.
LEMMA LaneArithmetic ==
  ASSUME NEW v, v.kind = "voltage", NEW a \in Nat
  PROVE  /\ FastElement(a) \in Nat
         /\ LaneOf(a) = (a % GroupPitch) \div LaneBits
         /\ a - LaneOf(a) * LaneBits = ExpectedAxon(v, FastElement(a))
  BY DEF FastElement, LaneOf, ExpectedAxon, LaneBits, GroupPitch, LaneCount

\* An address is a number, whatever the frame.
LEMMA AddressType ==
  ASSUME NEW frame \in FrameRecord, NEW lcn \in TargetLcns
  PROVE  AxonBit(frame, lcn) \in Nat /\ Payload(frame) \in 0..255
<1> DEFINE et == (frame.header % 2) * 128 + ((frame.low \div 131072) % 128)
           fa == (frame.low \div 256) % 512
           limit == TickLimit(lcn)
<1>1. frame.header \in 0..15 /\ frame.low \in Nat
  BY DEF FrameRecord
<1>2. EncodedTimestep(frame) = et /\ FrameAxon(frame) = fa
  BY DEF EncodedTimestep, FrameAxon, TsLoCount, TsLoUnit, AxonUnit, AxonCount
<1>3. limit \in Nat \ {0}
  BY LimitValues
<1>4. et \in Nat /\ fa \in Nat
  BY <1>1
<1> HIDE DEF et, fa, limit
<1>5. AxonBit(frame, lcn) = (et * 512 + fa) % (512 * limit)
  BY <1>2 DEF AxonBit, AxonCount, limit
<1>6. AxonBit(frame, lcn) \in Nat
  <2>1. 512 * limit \in Nat \ {0} /\ et * 512 + fa \in Nat
    BY <1>3, <1>4
  <2> QED
    BY <2>1, <1>5
<1>7. Payload(frame) \in 0..255
  BY <1>1 DEF Payload, PayloadCount
<1> QED
  BY <1>6, <1>7

(***************************************************************************)
(* The two decoders.                                                       *)
(***************************************************************************)

\* An address of DATA is in the mapping just when it is an element.
LEMMA DataAgree ==
  ASSUME view \in Views, view.kind = "data", FastLayout(view) = "fast",
         NEW frame \in FrameRecord, IsWork(frame), Kind(frame) = "data"
  PROVE  DataFast(frame) = Generic(frame)
<1> DEFINE a == AxonBit(frame, view.lcn)
           p == Payload(frame)
<1>1. a \in Nat /\ p \in 0..255
  BY AddressType, ViewReadable
<1>2. view.dtype = [bits |-> 1, signed |-> FALSE]
  BY FastIsCanonical
<1>3. \A e : ExpectedAxon(view, e) = e
  BY DEF ExpectedAxon
<1>4. /\ a \in DOMAIN view.elemAt <=> a \in ElementsOf(view)
      /\ a \in ElementsOf(view) => view.elemAt[a] = a
  BY <1>3, FastIsCanonical
<1>5. /\ p >= 2^view.dtype.bits <=> p > 1
      /\ p <= 1 => DecodedByte(p, view.dtype) = p
  BY <1>1, <1>2 DEF DecodedByte
<1> QED
  BY <1>1, <1>2, <1>4, <1>5 DEF DataFast, Generic, DecodeData

\* The first lane's axon is in the mapping just when the element computed from
\* the address is one.
LEMMA VoltageAgree ==
  ASSUME view \in Views, view.kind = "voltage", FastLayout(view) = "fast",
         NEW frame \in FrameRecord, IsWork(frame), Kind(frame) = "voltage"
  PROVE  VoltageFast(frame) = Generic(frame)
<1> DEFINE a == AxonBit(frame, view.lcn)
           base == a - LaneOf(a) * LaneBits
           e == FastElement(a)
<1>1. a \in Nat
  BY AddressType, ViewReadable
<1>2. /\ e \in Nat
      /\ LaneOf(a) = (a % GroupPitch) \div LaneBits
      /\ base = ExpectedAxon(view, e)
  BY <1>1, LaneArithmetic
<1>3. e \in ElementsOf(view) => base \in DOMAIN view.elemAt /\ view.elemAt[base] = e
  BY <1>2, FastIsCanonical
<1>4. base \in DOMAIN view.elemAt => e \in ElementsOf(view)
  <2> SUFFICES ASSUME base \in DOMAIN view.elemAt
               PROVE  e \in ElementsOf(view)
    OBVIOUS
  <2>1. PICK d \in ElementsOf(view) : base = ExpectedAxon(view, d)
    BY FastIsCanonical
  <2>2. d \in Nat
    BY ViewReadable DEF ElementsOf
  <2> QED
    BY <1>2, <2>1, <2>2, ExpectedAxonInjective
<1> HIDE DEF e, base
<1> QED
  BY <1>2, <1>3, <1>4 DEF VoltageFast, Generic, DecodeVoltage, e, base

\* A mapping is never changed.
LEMMA ViewInvariant == OutputSpec => [](view \in Views)
<1>1. OutputInit => view \in Views
  BY DEF OutputInit
<1>2. view \in Views /\ [OutputNext]_outputVars => (view \in Views)'
  BY DEF OutputNext, Submit, ChipEmits, Stray, Handle, outputVars
<1> QED
  BY <1>1, <1>2, PTL DEF OutputSpec

\* The decoder that a regular layout selects stores, ignores and refuses just
\* what the generic one would, for every mapping the reader admits and every
\* frame of its kind (runner_decode_*_fast_frame, frame_codec.c).
THEOREM FastEqualsGeneric == OutputSpec => []PathsAgree
<1>1. view \in Views => PathsAgree
  <2> SUFFICES ASSUME view \in Views, FastLayout(view) = "fast",
                      NEW frame \in Frames, IsWork(frame),
                      Kind(frame) = view.kind
               PROVE  Fast(frame) = Generic(frame)
    BY DEF PathsAgree
  <2>1. frame \in FrameRecord
    BY OutputAssumption
  <2>2. CASE view.kind = "data"
    BY <2>1, <2>2, DataAgree DEF Fast
  <2>3. CASE view.kind = "voltage"
    BY <2>1, <2>3, VoltageAgree DEF Fast
  <2> QED
    BY <2>2, <2>3, ViewReadable
<1> QED
  BY <1>1, ViewInvariant, PTL

(***************************************************************************)
(* What becomes of the chip's frames.                                      *)
(***************************************************************************)

\* The lane that an address selects, when the element's axon selects the first.
LEMMA LaneSelected ==
  ASSUME NEW key \in Nat, LaneOf(key) = 0, NEW lane \in 0..3
  PROVE  LaneOf(key + lane * 8) = lane
<1>1. (key \div 8) % 4 = 0
  BY DEF LaneOf, LaneBits, LaneCount
<1>2. (key + lane * 8) \div 8 = key \div 8 + lane
  OBVIOUS
<1>3. (key \div 8 + lane) % 4 = lane
  BY <1>1
<1> QED
  BY <1>2, <1>3 DEF LaneOf, LaneBits, LaneCount

\* The frame for a byte of an element says which timestep, element and lane
\* the byte is of, as long as time stamps tell the timesteps apart.
LEMMA FrameDecodes ==
  ASSUME NEW v \in Views, NEW row \in Rows(v),
         v.timesteps <= TimestepCapacity(v.lcn),
         NEW e \in v.fires, NEW lane \in Lanes(v),
         NEW byte \in Bytes, v.kind = "data" => Encodable(byte, v.dtype),
         NEW frame, frame = FrameOf(v, row, e, lane, byte)
  PROVE  /\ frame \in FrameRecord /\ IsWork(frame) /\ Kind(frame) = v.kind
         /\ Timestep(frame, v.lcn) = row
         /\ Payload(frame) = (IF v.kind = "data"
                              THEN EncodedPayload(byte, v.dtype) ELSE byte)
         /\ \E key \in DOMAIN v.elemAt :
              /\ v.elemAt[key] = e
              /\ AxonBit(frame, v.lcn) = key + lane * 8
              /\ v.kind = "voltage" => LaneOf(key) = 0
<1> DEFINE axons == {key \in DOMAIN v.elemAt : v.elemAt[key] = e}
           key == CHOOSE key \in DOMAIN v.elemAt : v.elemAt[key] = e
           a == key + lane * 8
           tick == a \div 512
           axon == a % 512
           stamp == Stamp(row, v.lcn, tick)
           header == IF v.kind = "data" THEN 8 ELSE 10
           payload == IF v.kind = "data"
                      THEN EncodedPayload(byte, v.dtype) ELSE byte
<1>1. /\ v.kind \in {"data", "voltage"} /\ v.lcn \in TargetLcns
      /\ v.timesteps \in Nat /\ v.dtype \in DTypes
      /\ DOMAIN v.elemAt \subseteq Nat
  BY ViewReadable
<1>2. Wired(v, e)
  BY WiringAssumption
<1>3. key \in DOMAIN v.elemAt /\ v.elemAt[key] = e
  <2>1. \E k \in DOMAIN v.elemAt : v.elemAt[k] = e
    BY <1>2 DEF Wired
  <2> QED
    BY <2>1
<1>4. /\ a < 512 * TickLimit(v.lcn)
      /\ v.kind = "voltage" => LaneOf(key) = 0
  <2> HIDE DEF key
  <2> QED
    BY <1>2, <1>3 DEF Wired, LaneBits, AxonCount
<1>5. a \in Nat
  <2> HIDE DEF key
  <2>1. lane \in 0..3
    BY DEF Lanes, LaneCount
  <2> QED
    BY <1>1, <1>3, <2>1
<1>6. frame = Pack(header, 0, stamp, axon, payload)
  BY DEF FrameOf, AxonBitOf, Header, WorkHeader, LaneBits, AxonCount
<1> HIDE DEF key
<1>7. PICK b, limit : b \in Nat /\ b = a /\ limit = TickLimit(v.lcn)
  BY <1>5
<1>8. limit \in Nat
  BY <1>1, <1>7, LimitValues
<1>9. /\ tick \in Nat /\ tick < TickLimit(v.lcn) /\ axon \in 0..511
      /\ tick * 512 + axon = a
  <2>1. b < 512 * limit
    BY <1>4, <1>7
  <2>2. PICK q \in Nat, r \in 0..511 :
          q = b \div 512 /\ r = b % 512 /\ b = q * 512 + r
    <3>1. b \in Nat
      BY <1>7
    <3> HIDE DEF a
    <3> QED
      BY <3>1
  <2>3. q < limit
    BY <1>8, <2>1, <2>2
  <2>4. tick = q /\ axon = r
    BY <1>7, <2>2
  <2> HIDE DEF tick, axon
  <2> QED
    BY <1>7, <2>2, <2>3, <2>4
<1>10. row \in Nat /\ row % TimestepCapacity(v.lcn) = row
  <2>1. row \in Nat /\ row < TimestepCapacity(v.lcn)
    <3>1. TimestepCapacity(v.lcn) \in Nat
      BY <1>1, LimitValues
    <3> QED
      BY <1>1, <3>1 DEF Rows
  <2> QED
    BY <1>1, <2>1, LimitValues
<1> HIDE DEF a, tick, axon
<1>11. /\ stamp \in 0..255
       /\ stamp \div TickLimit(v.lcn) = row
       /\ stamp % TickLimit(v.lcn) = tick
  BY <1>1, <1>9, <1>10, StampParts
<1>12. payload \in 0..255
  <2>1. 2^8 = 256
    OBVIOUS
  <2> QED
    BY <1>1, <2>1, PayloadRoundTrip DEF Bytes
<1>13. header \in {8, 10}
  OBVIOUS
<1> HIDE DEF stamp, header, payload
<1>14. /\ frame = [header |-> frame.header, dest |-> 0, low |-> frame.low]
       /\ frame.header \in 0..15 /\ frame.low \in Nat
       /\ IsWork(frame)
       /\ Kind(frame) = IF header = 8 THEN "data" ELSE "voltage"
       /\ EncodedTimestep(frame) = stamp
       /\ FrameAxon(frame) = axon
       /\ Payload(frame) = payload
  BY <1>6, <1>9, <1>11, <1>12, <1>13, PackParts
<1>15. frame \in FrameRecord
  BY <1>14 DEF FrameRecord
<1>16. Kind(frame) = v.kind
  BY <1>1, <1>14 DEF header
<1>17. Timestep(frame, v.lcn) = row
  BY <1>11, <1>14 DEF Timestep
<1>18. AxonBit(frame, v.lcn) = a
  <2>1. AxonBit(frame, v.lcn)
          = (EncodedTimestep(frame) % TickLimit(v.lcn)) * 512 + FrameAxon(frame)
    BY <1>1, <1>9, <1>11, <1>14, AddressArithmetic
  <2> QED
    BY <1>9, <1>11, <1>14, <2>1
<1> QED
  BY <1>3, <1>4, <1>14, <1>15, <1>16, <1>17, <1>18 DEF a, payload

\* Whichever decoder is chosen does what the generic one does.
LEMMA VerdictIsGeneric ==
  ASSUME view \in Views, NEW frame \in FrameRecord,
         IsWork(frame), Kind(frame) = view.kind
  PROVE  Verdict(frame) = Generic(frame)
<1>1. CASE FastLayout(view) = "fast"
  <2>1. CASE view.kind = "data"
    BY <1>1, <2>1, DataAgree DEF Fast, Verdict
  <2>2. CASE view.kind = "voltage"
    BY <1>1, <2>2, VoltageAgree DEF Fast, Verdict
  <2> QED
    BY <2>1, <2>2, ViewReadable
<1>2. CASE FastLayout(view) # "fast"
  BY <1>2 DEF Verdict
<1> QED
  BY <1>1, <1>2

\* The chip's frame is stored where it belongs.
LEMMA AnswerStored ==
  ASSUME view \in Views, StampsSuffice, NEW row \in Rows(view),
         submitted \in Nat, row < submitted,
         NEW e \in view.fires, NEW lane \in Lanes(view),
         NEW byte \in Bytes, view.kind = "data" => Encodable(byte, view.dtype)
  PROVE  Verdict(FrameOf(view, row, e, lane, byte)) = Store(row, e, lane, byte)
<1> DEFINE frame == FrameOf(view, row, e, lane, byte)
<1>1. view.timesteps <= TimestepCapacity(view.lcn)
  BY DEF StampsSuffice
<1>2. /\ frame \in FrameRecord /\ IsWork(frame) /\ Kind(frame) = view.kind
      /\ Timestep(frame, view.lcn) = row
      /\ Payload(frame) = (IF view.kind = "data"
                           THEN EncodedPayload(byte, view.dtype) ELSE byte)
      /\ \E key \in DOMAIN view.elemAt :
           /\ view.elemAt[key] = e
           /\ AxonBit(frame, view.lcn) = key + lane * 8
           /\ view.kind = "voltage" => LaneOf(key) = 0
  BY <1>1, FrameDecodes
<1> HIDE DEF frame
<1>3. PICK key \in DOMAIN view.elemAt :
        /\ view.elemAt[key] = e
        /\ AxonBit(frame, view.lcn) = key + lane * 8
        /\ view.kind = "voltage" => LaneOf(key) = 0
  BY <1>2
<1>4. key \in Nat /\ view.dtype \in DTypes /\ view.timesteps \in Nat
  BY ViewReadable
<1>5. ~(row >= submitted)
  BY <1>4 DEF Rows
<1>6. Verdict(frame) = Generic(frame)
  BY <1>2, VerdictIsGeneric
<1>7. CASE view.kind = "data"
  <2>1. lane = 0 /\ AxonBit(frame, view.lcn) = key
    BY <1>3, <1>4, <1>7 DEF Lanes
  <2>2. DecodedByte(Payload(frame), view.dtype) = byte
    BY <1>2, <1>4, <1>7, PayloadRoundTrip
  <2>3. ~(~view.dtype.signed /\ Payload(frame) >= 2^view.dtype.bits)
    <3> SUFFICES ASSUME ~view.dtype.signed
                 PROVE  ~(Payload(frame) >= 2^view.dtype.bits)
      OBVIOUS
    <3>1. Payload(frame) = byte /\ byte < 2^view.dtype.bits
      BY <1>2, <1>7 DEF EncodedPayload, Encodable
    <3>2. byte \in Nat /\ 2^view.dtype.bits \in Int
      <4>1. byte \in Nat
        BY DEF Bytes
      <4>2. 2^1 = 2 /\ 2^2 = 4 /\ 2^4 = 16 /\ 2^8 = 256
        OBVIOUS
      <4>3. view.dtype.bits \in {1, 2, 4, 8}
        BY <1>4 DEF DTypes
      <4> QED
        BY <4>1, <4>2, <4>3
    <3> QED
      BY <3>1, <3>2
  <2>4. Generic(frame) = DecodeData(frame)
    BY <1>2, <1>5, <1>7 DEF Generic
  <2>5. DecodeData(frame) = Store(row, e, 0, byte)
    BY <1>2, <1>3, <2>1, <2>2, <2>3 DEF DecodeData
  <2> QED
    BY <1>6, <2>1, <2>4, <2>5 DEF frame
<1>8. CASE view.kind = "voltage"
  <2>1. lane \in 0..3
    BY <1>8 DEF Lanes, LaneCount
  <2>2. LaneOf(AxonBit(frame, view.lcn)) = lane
    BY <1>3, <1>4, <1>8, <2>1, LaneSelected
  <2>3. AxonBit(frame, view.lcn) - lane * LaneBits = key
    BY <1>3, <1>4, <2>1 DEF LaneBits
  <2>4. Generic(frame) = DecodeVoltage(frame)
    BY <1>2, <1>5, <1>8 DEF Generic
  <2>5. DecodeVoltage(frame) = Store(row, e, lane, byte)
    BY <1>2, <1>3, <1>8, <2>2, <2>3 DEF DecodeVoltage
  <2> QED
    BY <1>6, <2>4, <2>5 DEF frame
<1> QED
  BY <1>7, <1>8, ViewReadable

\* A frame that is not of the mapping is not stored.
LEMMA StrayPassedOver ==
  ASSUME view \in Views, NEW frame \in FrameRecord,
         IsWork(frame) /\ Kind(frame) = view.kind =>
           ~Mapped(AxonBit(frame, view.lcn))
  PROVE  Verdict(frame).act # "store"
<1> DEFINE a == AxonBit(frame, view.lcn)
<1>0. Ignore.act # "store" /\ Refuse.act # "store"
  BY DEF Ignore, Refuse
<1>1. CASE IsWork(frame) /\ Kind(frame) = view.kind
  <2>1. ~Mapped(a)
    BY <1>1
  <2>2. Verdict(frame) = Generic(frame)
    BY <1>1, VerdictIsGeneric
  <2>3. a \in Nat
    BY AddressType, ViewReadable
  <2> HIDE DEF a
  <2>4. CASE view.kind = "data"
    <3>1. a \notin DOMAIN view.elemAt
      <4> SUFFICES ASSUME a \in DOMAIN view.elemAt PROVE FALSE
        OBVIOUS
      <4>1. 0 \in Lanes(view) /\ a = a + 0 * LaneBits
        BY <2>3, <2>4 DEF Lanes, LaneBits
      <4> QED
        BY <2>1, <4>1 DEF Mapped
    <3>2. DecodeData(frame) = Ignore
      BY <3>1 DEF DecodeData, a
    <3> QED
      BY <1>0, <2>2, <2>4, <3>2 DEF Generic
  <2>5. CASE view.kind = "voltage"
    <3> DEFINE base == a - LaneOf(a) * LaneBits
    <3>1. base \notin DOMAIN view.elemAt
      <4> SUFFICES ASSUME base \in DOMAIN view.elemAt PROVE FALSE
        OBVIOUS
      <4>1. LaneOf(a) \in Lanes(view)
        BY <2>3, <2>5 DEF Lanes, LaneOf, LaneCount, LaneBits
      <4>2. a = base + LaneOf(a) * LaneBits
        BY <2>3 DEF LaneOf, LaneCount, LaneBits
      <4> QED
        BY <2>1, <4>1, <4>2 DEF Mapped
    <3>2. DecodeVoltage(frame) = Ignore
      BY <3>1 DEF DecodeVoltage, a
    <3> QED
      BY <1>0, <2>2, <2>5, <3>2 DEF Generic
  <2> QED
    BY <2>4, <2>5, ViewReadable
<1>2. CASE ~(IsWork(frame) /\ Kind(frame) = view.kind)
  <2>1. Fast(frame) = Ignore
    BY <1>2, ViewReadable DEF Fast, DataFast, VoltageFast
  <2>2. Generic(frame) \in {Ignore, Refuse}
    BY <1>2 DEF Generic
  <2> QED
    BY <1>0, <2>1, <2>2 DEF Verdict
<1> QED
  BY <1>1, <1>2

(***************************************************************************)
(* Elements.                                                               *)
(***************************************************************************)

\* The lanes of an element that have been put out, until they are all there.
Filled(bytes) == {lane \in 0..LaneCount - 1 : bytes[lane] # 0}
MaskOf(bytes) == IF Filled(bytes) = 0..LaneCount - 1 THEN {} ELSE Filled(bytes)

\* The first lane clears what is clear: elements are clear until then.
LEMMA NothingCleared ==
  ASSUME NEW bytes \in [0..LaneCount - 1 -> Bytes]
  PROVE  Word(bytes, Filled(bytes)) = bytes
<1>1. CASE Filled(bytes) = {}
  BY <1>1 DEF Word, Filled
<1>2. CASE Filled(bytes) # {}
  BY <1>2 DEF Word
<1> QED
  BY <1>1, <1>2

\* A lane that was not there is added to the mask, and the last one empties it.
LEMMA LaneAdded ==
  ASSUME NEW bytes, bytes \in [0..LaneCount - 1 -> Bytes],
         NEW lane, lane \in 0..LaneCount - 1, bytes[lane] = 0,
         NEW byte, byte \in Bytes, byte # 0
  PROVE  /\ MaskOf(bytes) = Filled(bytes) /\ lane \notin Filled(bytes)
         /\ MaskAfterLane(Filled(bytes), lane)
              = MaskOf([bytes EXCEPT ![lane] = byte])
<1>1. Filled([bytes EXCEPT ![lane] = byte]) = Filled(bytes) \union {lane}
  BY DEF Filled
<1>2. lane \notin Filled(bytes)
  BY DEF Filled
<1> QED
  BY <1>1, <1>2 DEF MaskOf, MaskAfterLane

(***************************************************************************)
(* The output.                                                             *)
(***************************************************************************)

Tensor(v) == [Rows(v) -> [ElementsOf(v) -> [Lanes(v) -> Bytes]]]
Blank(v) == [e \in ElementsOf(v) |-> [lane \in Lanes(v) |-> 0]]

\* Submitted rows hold what the chip has put out, the chip has put out nothing
\* for the others, and the masks say which lanes of an element are there.
Delivered ==
  /\ view \in Views
  /\ submitted \in Nat /\ submitted <= view.timesteps
  /\ told \in Tensor(view)
  /\ \A row \in Rows(view) : row >= submitted => told[row] = Blank(view)
  /\ outcome = "OK" /\ StampsSuffice =>
       /\ output \in Tensor(view)
       /\ \A row \in Rows(view) : row < submitted => output[row] = told[row]
       /\ view.kind = "voltage" =>
            received = [row \in Rows(view) |->
                          [e \in ElementsOf(view) |-> MaskOf(told[row][e])]]

LEMMA InitDelivered == OutputInit => Delivered
<1> SUFFICES ASSUME OutputInit PROVE Delivered
  OBVIOUS
<1>1. /\ view \in Views /\ submitted = 0 /\ told = output
      /\ output = [row \in Rows(view) |-> Blank(view)]
      /\ received = [row \in Rows(view) |-> [e \in ElementsOf(view) |-> {}]]
  BY DEF OutputInit, Blank
<1>2. 0 \in Bytes
  BY DEF Bytes
<1>3. output \in Tensor(view)
  BY <1>1, <1>2 DEF Tensor, Blank
<1>4. \A row \in Rows(view) : row \in Nat
  BY <1>1, ViewReadable DEF Rows
<1>5. view.kind = "voltage" =>
        \A row \in Rows(view), e \in ElementsOf(view) : MaskOf(told[row][e]) = {}
  <2> SUFFICES ASSUME view.kind = "voltage",
                      NEW row \in Rows(view), NEW e \in ElementsOf(view)
               PROVE  MaskOf(told[row][e]) = {}
    OBVIOUS
  <2>1. told[row][e] = [lane \in 0..LaneCount - 1 |-> 0]
    BY <1>1 DEF Blank, Lanes
  <2> QED
    BY <2>1 DEF MaskOf, Filled
<1> QED
  <2>1. submitted \in Nat /\ submitted <= view.timesteps
    BY <1>1, ViewReadable
  <2> QED
    BY <1>1, <1>3, <1>4, <1>5, <2>1 DEF Delivered

\* The next row is cleared, for which the chip has put out nothing.
LEMMA RowSubmitted ==
  ASSUME Delivered, Submit PROVE Delivered'
<1>1. /\ outcome = "OK" /\ submitted < view.timesteps
      /\ submitted' = submitted + 1
      /\ output' = [output EXCEPT ![submitted] = Blank(view)]
      /\ UNCHANGED <<view, received, outcome, told>>
  BY DEF Submit, Blank
<1>2. /\ view \in Views /\ submitted \in Nat /\ told \in Tensor(view)
      /\ \A row \in Rows(view) : row >= submitted => told[row] = Blank(view)
  BY DEF Delivered
<1>3. submitted \in Rows(view) /\ \A row \in Rows(view) : row \in Nat
  BY <1>1, <1>2, ViewReadable DEF Rows
<1>4. \A row \in Rows(view) : row >= submitted + 1 => told[row] = Blank(view)
  BY <1>2, <1>3
<1>5. ASSUME StampsSuffice
      PROVE  /\ output' \in Tensor(view)
             /\ \A row \in Rows(view) :
                  row < submitted + 1 => output'[row] = told[row]
             /\ view.kind = "voltage" =>
                  received = [row \in Rows(view) |->
                                [e \in ElementsOf(view) |-> MaskOf(told[row][e])]]
  <2>1. /\ output \in Tensor(view)
        /\ \A row \in Rows(view) : row < submitted => output[row] = told[row]
        /\ view.kind = "voltage" =>
             received = [row \in Rows(view) |->
                           [e \in ElementsOf(view) |-> MaskOf(told[row][e])]]
    BY <1>1, <1>5 DEF Delivered
  <2>2. told[submitted] = Blank(view)
    BY <1>2, <1>3
  <2>3. Blank(view) \in [ElementsOf(view) -> [Lanes(view) -> Bytes]]
    BY DEF Blank, Bytes
  <2>4. output' \in Tensor(view)
    BY <1>1, <1>3, <2>1, <2>3 DEF Tensor
  <2>5. \A row \in Rows(view) : row < submitted + 1 => output'[row] = told[row]
    <3> SUFFICES ASSUME NEW row \in Rows(view), row < submitted + 1
                 PROVE  output'[row] = told[row]
      OBVIOUS
    <3>1. CASE row = submitted
      BY <1>1, <1>3, <2>1, <2>2, <3>1 DEF Tensor
    <3>2. CASE row < submitted
      BY <1>1, <1>3, <2>1, <3>2 DEF Tensor
    <3>3. row = submitted \/ row < submitted
      <4>1. row \in Nat /\ submitted \in Nat
        BY <1>2, <1>3
      <4> QED
        BY <4>1
    <3> QED
      BY <3>1, <3>2, <3>3
  <2> QED
    BY <2>1, <2>4, <2>5
<1> QED
  BY <1>1, <1>2, <1>3, <1>4, <1>5, ViewReadable DEF Delivered, StampsSuffice

\* A frame that is passed over or refused stores nothing.
LEMMA StrayHandled ==
  ASSUME Delivered, NEW frame \in Frames, Stray(frame) PROVE Delivered'
<1>1. frame \in FrameRecord /\ view \in Views
  BY OutputAssumption DEF Delivered
<1>2. Verdict(frame).act # "store"
  BY <1>1, StrayPassedOver DEF Stray
<1>3. /\ outcome = "OK" /\ UNCHANGED <<view, submitted, output, received, told>>
  BY <1>2 DEF Stray, Handle
<1> QED
  BY <1>3 DEF Delivered, StampsSuffice

\* A byte of the chip reaches the output, unless its lane ends the call.
LEMMA ByteDelivered ==
  ASSUME Delivered, NEW row \in Rows(view), NEW e \in view.fires,
         NEW lane \in Lanes(view), NEW byte \in ChipBytes \ {0},
         ChipEmits(row, e, lane, byte)
  PROVE  Delivered'
<1> DEFINE verdict == Verdict(FrameOf(view, row, e, lane, byte))
           spoken == [told[row][e] EXCEPT ![lane] = byte]
<1>1. /\ outcome = "OK" /\ row < submitted /\ told[row][e][lane] = 0
      /\ view.kind = "data" => Encodable(byte, view.dtype)
      /\ told' = [told EXCEPT ![row][e][lane] = byte]
      /\ UNCHANGED <<view, submitted>>
  BY DEF ChipEmits, Handle
<1>2. /\ view \in Views /\ submitted \in Nat /\ told \in Tensor(view)
      /\ \A r \in Rows(view) : r >= submitted => told[r] = Blank(view)
  BY DEF Delivered
<1>3. byte \in Bytes /\ byte # 0
  BY OutputAssumption
<1>4. e \in ElementsOf(view)
  <2>1. PICK key \in DOMAIN view.elemAt : view.elemAt[key] = e
    BY <1>2, WiringAssumption DEF Wired
  <2> QED
    BY <1>2, <2>1, ViewReadable
<1>5. /\ told' \in Tensor(view)
      /\ told' = [told EXCEPT ![row] = [@ EXCEPT ![e] = spoken]]
      /\ told[row][e] \in [Lanes(view) -> Bytes]
  BY <1>1, <1>2, <1>3, <1>4 DEF Tensor
<1>6. \A r \in Rows(view) : r >= submitted => told'[r] = Blank(view)
  <2>1. ~(row >= submitted)
    BY <1>1, <1>2, ViewReadable DEF Rows
  <2> QED
    BY <1>2, <1>5, <2>1 DEF Tensor
<1>7. ASSUME outcome' = "OK", StampsSuffice
      PROVE  /\ output' \in Tensor(view)
             /\ \A r \in Rows(view) : r < submitted => output'[r] = told'[r]
             /\ view.kind = "voltage" =>
                  received' = [r \in Rows(view) |->
                                 [d \in ElementsOf(view) |-> MaskOf(told'[r][d])]]
  <2>1. /\ output \in Tensor(view)
        /\ \A r \in Rows(view) : r < submitted => output[r] = told[r]
        /\ view.kind = "voltage" =>
             received = [r \in Rows(view) |->
                           [d \in ElementsOf(view) |-> MaskOf(told[r][d])]]
    BY <1>1, <1>7 DEF Delivered
  <2>2. verdict = Store(row, e, lane, byte)
    BY <1>1, <1>2, <1>3, <1>7, AnswerStored
  <2>3. IF view.kind = "voltage" THEN StoreLane(verdict) ELSE StoreByte(verdict)
    <3>1. verdict.act = "store"
      BY <2>2 DEF Store
    <3> QED
      BY <3>1 DEF ChipEmits, Handle
  <2>4. output[row][e] = told[row][e]
    BY <1>1, <2>1
  <2> HIDE DEF verdict
  <2>5. verdict.row = row /\ verdict.elem = e /\ verdict.lane = lane
        /\ verdict.byte = byte
    BY <2>2 DEF Store
  <2>6. /\ output' = [output EXCEPT ![row] = [@ EXCEPT ![e] = spoken]]
        /\ view.kind = "voltage" =>
             received' = [received EXCEPT ![row] =
                            [@ EXCEPT ![e] = MaskOf(spoken)]]
    <3>1. CASE view.kind = "data"
      <4>1. lane = 0
        BY <3>1 DEF Lanes
      <4>2. output' = [output EXCEPT ![row][e][0] = byte]
        BY <2>3, <2>5, <3>1 DEF StoreByte
      <4> QED
        BY <1>4, <2>1, <2>4, <3>1, <4>1, <4>2 DEF Tensor
    <3>2. CASE view.kind = "voltage"
      <4> DEFINE bytes == told[row][e]
                 cell(old) == WithLane(Word(old, received[row][e]), lane, byte)
      <4>1. Lanes(view) = 0..LaneCount - 1 /\ lane \in 0..LaneCount - 1
        BY <3>2 DEF Lanes
      <4>2. bytes \in [0..LaneCount - 1 -> Bytes] /\ bytes[lane] = 0
        BY <1>1, <1>5, <4>1
      <4>3. received[row][e] = MaskOf(bytes)
        BY <1>4, <2>1, <3>2
      <4> HIDE DEF bytes
      <4>4. /\ MaskOf(bytes) = Filled(bytes) /\ lane \notin Filled(bytes)
            /\ MaskAfterLane(Filled(bytes), lane)
                 = MaskOf([bytes EXCEPT ![lane] = byte])
        BY <1>3, <4>1, <4>2, LaneAdded
      <4>5. Word(bytes, Filled(bytes)) = bytes
        BY <4>2, NothingCleared
      <4>6. /\ output' = [output EXCEPT ![row] =
                            [@ EXCEPT ![e] = cell(output[row][e])]]
            /\ received' = [received EXCEPT ![row][e] = MaskAfterLane(@, lane)]
        BY <2>3, <2>5, <3>2, <4>3, <4>4 DEF StoreLane
      <4>7. output[row][e] = bytes /\ spoken = [bytes EXCEPT ![lane] = byte]
        BY <2>4 DEF bytes
      <4>8. cell(bytes) = spoken
        BY <4>2, <4>3, <4>4, <4>5, <4>7 DEF WithLane
      <4> HIDE DEF spoken, cell
      <4>9. output' = [output EXCEPT ![row] = [@ EXCEPT ![e] = spoken]]
        BY <4>6, <4>7, <4>8
      <4>10. received' = [received EXCEPT ![row] =
                            [@ EXCEPT ![e] = MaskOf(spoken)]]
        <5>1. MaskAfterLane(received[row][e], lane) = MaskOf(spoken)
          BY <4>3, <4>4, <4>7
        <5> QED
          BY <4>6, <5>1
      <4> QED
        BY <4>9, <4>10
    <3> QED
      BY <1>2, <3>1, <3>2, ViewReadable
  <2>7. spoken \in [Lanes(view) -> Bytes]
    BY <1>3, <1>5
  <2> HIDE DEF spoken
  <2>8. output' \in Tensor(view)
    BY <1>4, <2>1, <2>6, <2>7 DEF Tensor
  <2>9. \A r \in Rows(view) : r < submitted => output'[r] = told'[r]
    BY <1>2, <1>5, <2>1, <2>6 DEF Tensor
  <2>10. ASSUME view.kind = "voltage"
         PROVE  received' = [r \in Rows(view) |->
                               [d \in ElementsOf(view) |-> MaskOf(told'[r][d])]]
    <3>1. \A r \in Rows(view), d \in ElementsOf(view) :
            told'[r][d] = IF r = row /\ d = e THEN spoken ELSE told[r][d]
      BY <1>2, <1>5 DEF Tensor
    <3> QED
      BY <1>4, <2>1, <2>6, <2>10, <3>1
  <2> QED
    BY <2>8, <2>9, <2>10
<1> QED
  BY <1>1, <1>2, <1>5, <1>6, <1>7 DEF Delivered, StampsSuffice

\* As long as its time stamps tell the timesteps apart, a sample's output is
\* what the chip has put out, whatever the mapping, whichever decoder it has
\* selected and whatever other frames arrive between the mapping's own.
THEOREM OutputsAreDelivered == OutputSpec => []OutputIsDelivered
<1>1. Delivered /\ [OutputNext]_outputVars => Delivered'
  <2> SUFFICES ASSUME Delivered, [OutputNext]_outputVars PROVE Delivered'
    OBVIOUS
  <2>1. CASE UNCHANGED outputVars
    BY <2>1 DEF outputVars, Delivered, StampsSuffice
  <2>2. CASE OutputNext
    BY <2>2, RowSubmitted, ByteDelivered, StrayHandled DEF OutputNext
  <2> QED
    BY <2>1, <2>2
<1>2. Delivered => OutputIsDelivered
  <2> SUFFICES ASSUME Delivered, outcome = "OK", StampsSuffice,
                      NEW row \in 0..submitted - 1
               PROVE  output[row] = told[row]
    BY DEF OutputIsDelivered
  <2>1. row \in Rows(view) /\ row < submitted
    BY ViewReadable DEF Delivered, Rows
  <2> QED
    BY <2>1 DEF Delivered
<1> QED
  BY <1>1, <1>2, InitDelivered, PTL DEF OutputSpec
=============================================================================
