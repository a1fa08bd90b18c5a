---------------------------- MODULE SampleLayout ----------------------------
(***************************************************************************)
(* The memory checks of rvrt_paicore_runner_run_sample: which input and    *)
(* output buffers it accepts, and which bytes it reads and writes then.    *)
(* Outputs may replace inputs in place, row by row.                        *)
(***************************************************************************)
EXTENDS Integers

CONSTANTS
  SizeMax,  \* SIZE_MAX and UINTPTR_MAX
  Layouts   \* the arguments of the call, with the row sizes of the artifact

Layout ==
  [inBase : Nat, inBytes : Nat \ {0}, inStride : Nat, inCapacity : Nat,
   outBase : Nat, elements : Nat \ {0}, outStride : Nat, outCapacity : Nat,
   voltage : BOOLEAN, timesteps : Nat \ {0}]

ASSUME LayoutAssumption ==
  /\ SizeMax \in Nat
  /\ Layouts \subseteq Layout

VARIABLES layout, status

layoutVars == <<layout, status>>

WordBytes == 4  \* sizeof(int32_t)
Wrapped(n) == n % (SizeMax + 1)

InRow(l) == l.inBytes
OutRow(l) == IF l.voltage THEN WordBytes * l.elements ELSE l.elements
InStride(l) == IF l.inStride = 0 THEN InRow(l) ELSE l.inStride
OutStride(l) == IF l.outStride = 0 THEN OutRow(l) ELSE l.outStride

\* sample_region_fits, for at least one timestep of at least one byte.
FitsWithoutGuard(total, row, stride, timesteps) ==
  /\ stride >= row
  /\ Wrapped((timesteps - 1) * stride + row) <= total
RegionFits(total, row, stride, timesteps) ==
  /\ stride >= row
  /\ timesteps - 1 <= (SizeMax - row) \div stride
  /\ Wrapped((timesteps - 1) * stride + row) <= total

\* sample_regions_overlap; a region that would wrap overlaps everything.
OverlapByBase(left, leftSize, right, rightSize) ==
  /\ left < right + rightSize
  /\ right <= left
RegionsOverlap(left, leftSize, right, rightSize) ==
  \/ left > SizeMax - leftSize
  \/ right > SizeMax - rightSize
  \/ left < right + rightSize /\ right < left + leftSize

RegionSize(row, stride, timesteps) == (timesteps - 1) * stride + row

SameRows(l) == l.inBase = l.outBase /\ InStride(l) = OutStride(l)
NotAligned(l) == FALSE
Misaligned(l) ==
  /\ l.voltage
  /\ \/ l.outBase % WordBytes # 0
     \/ l.outCapacity % WordBytes # 0
     \/ OutStride(l) % WordBytes # 0

\* The argument checks, in their order.
LayoutStatus(l) ==
  IF \/ ~RegionFits(l.inCapacity, InRow(l), InStride(l), l.timesteps)
     \/ ~RegionFits(l.outCapacity, OutRow(l), OutStride(l), l.timesteps)
  THEN "BUFFER_TOO_SMALL"
  ELSE IF \/ /\ RegionsOverlap(
                  l.inBase, RegionSize(InRow(l), InStride(l), l.timesteps),
                  l.outBase, RegionSize(OutRow(l), OutStride(l), l.timesteps))
             /\ ~SameRows(l)
          \/ Misaligned(l)
  THEN "RUNTIME_ERROR"
  ELSE "OK"

Init == layout \in Layouts /\ status = "CALLED"

RunSample ==
  /\ status = "CALLED"
  /\ status' = LayoutStatus(layout)
  /\ UNCHANGED layout

Next == RunSample
Spec == Init /\ [][Next]_layoutVars

(***************************************************************************)
(* The bytes the call uses.  ReadByte is byte i of the input row that is   *)
(* encoded at a timestep.  StoredByte is byte b of element e, where the    *)
(* decoders store it: VOLTAGE decoders count in words.                     *)
(***************************************************************************)
ReadByte(l, t, i) == l.inBase + t * InStride(l) + i

BytesPerElement(l) == IF l.voltage THEN WordBytes ELSE 1
StoredByte(l, t, e, b) ==
  IF l.voltage
  THEN l.outBase + WordBytes * (t * (OutStride(l) \div WordBytes) + e) + b
  ELSE l.outBase + t * OutStride(l) + e

Timesteps(l) == 0..l.timesteps - 1
Elements(l) == 0..l.elements - 1

\* In an accepted layout no byte of an output row is a byte of an input row
\* of a later timestep: the rows that are not sent yet survive.
UnsentRowsSurvive ==
  status = "OK" =>
    \A t \in Timesteps(layout), u \in Timesteps(layout), e \in Elements(layout),
       i \in 0..layout.inBytes - 1, b \in 0..BytesPerElement(layout) - 1 :
      t < u => StoredByte(layout, t, e, b) # ReadByte(layout, u, i)

\* In an accepted layout every byte stored lies in the output buffer and in
\* the row of its timestep, which run_sample clears before the first store.
StoresHitTheirRow ==
  status = "OK" =>
    \A t \in Timesteps(layout), e \in Elements(layout),
       b \in 0..BytesPerElement(layout) - 1 :
      LET row == layout.outBase + t * OutStride(layout)
      IN  /\ StoredByte(layout, t, e, b) \in row..row + OutRow(layout) - 1
          /\ StoredByte(layout, t, e, b) < layout.outBase + layout.outCapacity

\* Every input byte read lies in the input buffer.
ReadsStayInside ==
  status = "OK" =>
    \A t \in Timesteps(layout), i \in 0..layout.inBytes - 1 :
      ReadByte(layout, t, i) < layout.inBase + layout.inCapacity
=============================================================================
