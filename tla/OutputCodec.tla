---------------------------- MODULE OutputCodec ----------------------------
(***************************************************************************)
(* How run_sample decodes the work frames of a sample into the output      *)
(* tensor: the generic decoders of frame_codec.c, the fast ones that       *)
(* paicore_runner.c uses for regular layouts, the choice between them, and *)
(* the assembly of 32-bit voltages from four lanes.                        *)
(***************************************************************************)
EXTENDS WorkFrame, FiniteSets

CONSTANTS
  Views,      \* output mappings
  ChipBytes,  \* bytes the chip may put out
  Frames,     \* frames of every sort, of the sample or not
  MaxFrames   \* bound: frames the chip puts out

\* As the artifact reader admits them: keys are strictly ordered, so that a
\* key has one element; DATA entries have the width of the mapping.
View ==
  [kind : {"data", "voltage"}, dtype : DTypes, lcn : TargetLcns,
   elements : Nat \ {0}, timesteps : Nat \ {0}, elemAt : [{0} -> {0}],
   fires : SUBSET Nat]

ReadableView(v) ==
  /\ [v EXCEPT !.elemAt = [axonBit \in {0} |-> 0]] \in View
  /\ DOMAIN v.elemAt \subseteq Nat
  /\ IsFiniteSet(DOMAIN v.elemAt)
  /\ \A axonBit \in DOMAIN v.elemAt : v.elemAt[axonBit] \in 0..v.elements - 1

FrameRecord == [header : 0..15, dest : Nat, low : Nat]

ASSUME OutputAssumption ==
  /\ \A v \in Views : ReadableView(v)
  /\ Frames \subseteq FrameRecord
  /\ ChipBytes \subseteq Bytes
  /\ MaxFrames \in Nat

VARIABLES
  view,      \* runner.output_view and runtime.timesteps
  submitted, \* decode.submitted_timesteps
  output,    \* the bytes of each element of each output row, low byte first
  received,  \* received_mask of each element
  outcome,   \* the handlers' status so far
  told,      \* history: what the chip has put out for each element
  frameCount \* history: frames put out

outputVars == <<view, submitted, output, received, outcome, told, frameCount>>

Garbled == -1   \* bits of two lanes ORed into one
LaneCount == 4  \* RVRT_VOLT_LANE_COUNT
LaneBits == 8   \* RVRT_VOLT_LANE_BITS, and the axons between two lanes
GroupPitch == LaneCount * LaneBits
Lanes(v) == IF v.kind = "data" THEN {0} ELSE 0..LaneCount - 1
ElementsOf(v) == 0..v.elements - 1
Rows(v) == 0..v.timesteps - 1

(***************************************************************************)
(* configure_fast_layout: a DATA mapping of bits in order, or a VOLTAGE    *)
(* mapping in groups of eight elements.  An element whose axon is not      *)
(* mapped makes the deployment fail, one that is mapped elsewhere selects  *)
(* the generic decoder, whichever comes first.                             *)
(***************************************************************************)
ExpectedAxon(v, e) ==
  IF v.kind = "voltage"
  THEN (e \div LaneBits) * GroupPitch + (e % LaneBits) ELSE e

FastLayout(v) ==
  LET differs ==
        {e \in ElementsOf(v) : \/ ExpectedAxon(v, e) \notin DOMAIN v.elemAt
                             \/ v.elemAt[ExpectedAxon(v, e)] # e}
      first == CHOOSE e \in differs : \A d \in differs : e <= d
  IN  IF \/ v.kind = "data" /\ v.dtype # [bits |-> 1, signed |-> FALSE]
         \/ Cardinality(DOMAIN v.elemAt) # v.elements
      THEN "generic"
      ELSE IF differs = {} THEN "fast"
      ELSE IF ExpectedAxon(v, first) \in DOMAIN v.elemAt THEN "generic"
      ELSE "refused"

OutputInit ==
  /\ view \in {v \in Views : FastLayout(v) # "refused"}
  /\ submitted = 0
  /\ output = [t \in Rows(view) |-> [e \in ElementsOf(view) |->
                 [lane \in Lanes(view) |-> 0]]]
  /\ received = [t \in Rows(view) |-> [e \in ElementsOf(view) |-> {}]]
  /\ outcome = "OK"
  /\ told = output
  /\ frameCount = 0

(***************************************************************************)
(* What each handler makes of a frame: nothing, a refusal, or a byte for a *)
(* lane of an element.                                                     *)
(***************************************************************************)
Ignore == [act |-> "ignore"]
Refuse == [act |-> "refuse"]
Store(row, e, lane, byte) ==
  [act |-> "store", row |-> row, elem |-> e, lane |-> lane, byte |-> byte]

\* runner_decode_data_fast_frame.
DataFast(frame) ==
  LET row == Timestep(frame, view.lcn)
      e == AxonBit(frame, view.lcn)
  IN  IF ~IsWork(frame) \/ Kind(frame) # "data" THEN Ignore
      ELSE IF row >= submitted THEN Refuse
      ELSE IF row \notin Rows(view) \/ e \notin ElementsOf(view) THEN Ignore
      ELSE IF Payload(frame) > 1 THEN Ignore
      ELSE Store(row, e, 0, Payload(frame))

\* runner_decode_voltage_fast_frame.
FastElementOfGroup(axonBit) ==
  (axonBit \div GroupPitch) * LaneBits + (axonBit % GroupPitch)
FastElement(axonBit) ==
  (axonBit \div GroupPitch) * LaneBits + (axonBit % LaneBits)
VoltageFast(frame) ==
  LET row == Timestep(frame, view.lcn)
      axonBit == AxonBit(frame, view.lcn)
      e == FastElement(axonBit)
      lane == (axonBit % GroupPitch) \div LaneBits
  IN  IF ~IsWork(frame) \/ Kind(frame) # "voltage" THEN Ignore
      ELSE IF row >= submitted THEN Refuse
      ELSE IF row \notin Rows(view) \/ e \notin ElementsOf(view) THEN Ignore
      ELSE Store(row, e, lane, Payload(frame))

\* decode_data_work_frame.
DecodeData(frame) ==
  LET axonBit == AxonBit(frame, view.lcn)
  IN  IF \/ axonBit \notin DOMAIN view.elemAt
         \/ ~view.dtype.signed /\ Payload(frame) >= 2^view.dtype.bits
      THEN Ignore
      ELSE Store(Timestep(frame, view.lcn), view.elemAt[axonBit], 0,
                 DecodedByte(Payload(frame), view.dtype))

\* decode_voltage_work_frame; the lane is the third and fourth address bit.
LaneOf(axonBit) == (axonBit \div LaneBits) % LaneCount
DecodeVoltage(frame) ==
  LET axonBit == AxonBit(frame, view.lcn)
      base == axonBit - LaneOf(axonBit) * LaneBits
  IN  IF base \notin DOMAIN view.elemAt THEN Ignore
      ELSE Store(Timestep(frame, view.lcn), view.elemAt[base],
                 LaneOf(axonBit), Payload(frame))

\* runner_handle_generic_frame: the time stamp of any work frame is checked,
\* then frames of the other kind are passed over.
Generic(frame) ==
  IF ~IsWork(frame) THEN Ignore
  ELSE IF Timestep(frame, view.lcn) >= submitted THEN Refuse
  ELSE IF Kind(frame) # view.kind THEN Ignore
  ELSE IF Timestep(frame, view.lcn) \notin Rows(view) THEN Ignore
  ELSE IF view.kind = "data" THEN DecodeData(frame) ELSE DecodeVoltage(frame)

Fast(frame) ==
  IF view.kind = "data" THEN DataFast(frame) ELSE VoltageFast(frame)

\* runner_rx_frame_handler.
Verdict(frame) ==
  IF FastLayout(view) = "fast" THEN Fast(frame) ELSE Generic(frame)

(***************************************************************************)
(* Storing.                                                                *)
(***************************************************************************)

\* rvrt_store_voltage_lane: the first lane clears the element, each lane is
\* ORed in, and the last one makes the element ready for a new first lane.
MaskAfterLane(mask, lane) ==
  IF mask \union {lane} = 0..LaneCount - 1 THEN {} ELSE mask \union {lane}
Word(bytes, mask) == IF mask = {} THEN [lane \in DOMAIN bytes |-> 0] ELSE bytes
WithLane(word, lane, byte) ==
  [word EXCEPT ![lane] = IF @ = 0 THEN byte ELSE Garbled]

StoreLane(at) ==
  IF at.lane \in received[at.row][at.elem]
  THEN /\ outcome' = "RUNTIME_ERROR"
       /\ UNCHANGED <<output, received>>
  ELSE /\ output' = [output EXCEPT ![at.row][at.elem] =
             WithLane(Word(@, received[at.row][at.elem]), at.lane, at.byte)]
       /\ received' = [received EXCEPT ![at.row][at.elem] =
                         MaskAfterLane(@, at.lane)]
       /\ UNCHANGED outcome

StoreByte(at) ==
  /\ output' = [output EXCEPT ![at.row][at.elem][0] = at.byte]
  /\ UNCHANGED <<received, outcome>>

\* After a refusal the session drains its answer without calling the handler.
Handle(frame) ==
  /\ outcome = "OK"
  /\ LET verdict == Verdict(frame)
     IN  \/ /\ verdict.act = "ignore"
            /\ UNCHANGED <<output, received, outcome>>
         \/ /\ verdict.act = "refuse"
            /\ outcome' = "RUNTIME_ERROR"
            /\ UNCHANGED <<output, received>>
         \/ /\ verdict.act = "store"
            /\ IF view.kind = "voltage"
               THEN StoreLane(verdict) ELSE StoreByte(verdict)
  /\ UNCHANGED <<view, submitted>>

\* run_sample clears the row, admits its frames and synchronises.
Submit ==
  /\ outcome = "OK"
  /\ submitted < view.timesteps
  /\ submitted' = submitted + 1
  /\ output' = [output EXCEPT ![submitted] =
                  [e \in ElementsOf(view) |-> [lane \in Lanes(view) |-> 0]]]
  /\ UNCHANGED <<view, received, outcome, told, frameCount>>

(***************************************************************************)
(* The chip.                                                               *)
(***************************************************************************)

Header(v) == IF v.kind = "data" THEN WorkHeader ELSE WorkHeader + 2

\* The frame for a byte of an element: its lanes are LaneBits axons apart, and
\* address bits that the axon field does not hold go into the time stamp.
AxonBitOf(v, e, lane) ==
  (CHOOSE key \in DOMAIN v.elemAt : v.elemAt[key] = e) + lane * LaneBits
FrameOf(v, row, e, lane, byte) ==
  LET axonBit == AxonBitOf(v, e, lane)
  IN  Pack(Header(v), 0, Stamp(row, v.lcn, axonBit \div AxonCount),
           axonBit % AxonCount,
           IF v.kind = "data" THEN EncodedPayload(byte, v.dtype) ELSE byte)

\* What the chip is wired to put out, which no line of the reader checks: every
\* element that fires has an axon, the lanes of a voltage are selected by two
\* bits of the address, and the address fits the frame.
Wired(v, e) ==
  LET axons == {key \in DOMAIN v.elemAt : v.elemAt[key] = e}
  IN  /\ axons # {}
      /\ \A key \in axons, lane \in Lanes(v) :
           key + lane * LaneBits < AxonCount * TickLimit(v.lcn)
      /\ v.kind = "voltage" => \A key \in axons : LaneOf(key) = 0

ASSUME WiringAssumption == \A v \in Views : \A e \in v.fires : Wired(v, e)

\* A timestep's output comes after its input, each byte of it once.
ChipEmits(row, e, lane, byte) ==
  /\ frameCount < MaxFrames
  /\ frameCount' = frameCount + 1
  /\ row < submitted
  /\ told[row][e][lane] = 0
  /\ view.kind = "data" => Encodable(byte, view.dtype)
  /\ told' = [told EXCEPT ![row][e][lane] = byte]
  /\ Handle(FrameOf(view, row, e, lane, byte))

\* A frame of the other kind, or for an axon that is not mapped.
Mapped(axonBit) ==
  \E key \in DOMAIN view.elemAt, lane \in Lanes(view) :
    axonBit = key + lane * LaneBits
Stray(frame) ==
  /\ IsWork(frame) /\ Kind(frame) = view.kind =>
       ~Mapped(AxonBit(frame, view.lcn))
  /\ Handle(frame)
  /\ UNCHANGED <<told, frameCount>>

OutputNext ==
  \/ Submit
  \/ \E row \in Rows(view), e \in view.fires, lane \in Lanes(view),
        byte \in ChipBytes \ {0} : ChipEmits(row, e, lane, byte)
  \/ \E frame \in Frames : Stray(frame)

OutputSpec == OutputInit /\ [][OutputNext]_outputVars

(***************************************************************************)
(* What the caller of run_sample relies on.                                *)
(***************************************************************************)

\* Time stamps of the output tell all timesteps of the sample apart.  Deploy
\* checks this of the input mapping only.
StampsSuffice == view.timesteps <= TimestepCapacity(view.lcn)

\* Every element of a submitted row holds what the chip has put out for it, and
\* zero where that is nothing; frames of other kinds and axons leave no trace.
OutputIsDelivered ==
  outcome = "OK" /\ StampsSuffice =>
    \A row \in 0..submitted - 1 : output[row] = told[row]

\* For frames of the mapping's kind the fast decoder does what the generic one
\* does, whether it stores, ignores or refuses.
PathsAgree ==
  FastLayout(view) = "fast" =>
    \A frame \in Frames :
      IsWork(frame) /\ Kind(frame) = view.kind => Fast(frame) = Generic(frame)
=============================================================================
