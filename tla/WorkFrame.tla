----------------------------- MODULE WorkFrame -----------------------------
(***************************************************************************)
(* The work frames of the PAICORE (frame_codec.c, frame_codec_internal.h): *)
(* a frame has a header, a destination, and a low word that packs a time   *)
(* stamp, an axon and a payload.  Of the eight bits of the time stamp the  *)
(* seven low ones lie in the low word, the eighth is the last header bit.  *)
(* target_lcn says how many low bits of the stamp extend the axon address. *)
(***************************************************************************)
EXTENDS Integers

TsBits == 8         \* FC_WF_TS_BITS
TsLoCount == 2^7    \* RVRT_WF_TS_LO_MASK + 1
TsLoUnit == 2^17    \* RVRT_WF_TS_LO_OFFSET
AxonCount == 2^9    \* RVRT_WF_AX_BITS
AxonUnit == 2^8     \* RVRT_WF_AX_OFFSET
PayloadCount == 2^8 \* RVRT_WF_PAYLOAD_MASK + 1
TargetLcns == 0..7  \* RVRT_WF_TARGET_LCN_MAX

\* The four header bits.
WorkHeader == 8      \* FC_HDR_WORK
CompleteHeader == 14 \* RVRT_FRAME_KIND_COMPLETE
IsWork(frame) == frame.header \div 4 = 2
IsComplete(frame) == frame.header = CompleteHeader
Kind(frame) == IF (frame.header \div 2) % 2 = 0 THEN "data" ELSE "voltage"

\* How many timesteps and how many ticks a time stamp tells apart.
TimestepCapacity(lcn) == 2^(TsBits - lcn)
TickLimit(lcn) == 2^lcn

\* sign_magnitude6, of a destination offset.
SignMagnitude6(value) == IF value < 0 THEN 2^5 - value ELSE value
FitsSign6(value) == value \in -31..31

\* A frame from its resolved time stamp.
Pack(header, dest, stamp, axon, payload) ==
  [header |-> header + ((stamp \div TsLoCount) % 2),
   dest |-> dest,
   low |-> (stamp % TsLoCount) * TsLoUnit + axon * AxonUnit + payload]

\* build_work1_frame: the timestep wraps to the bits that the ticks leave.
Stamp(timestep, lcn, tick) ==
  (timestep % TimestepCapacity(lcn)) * TickLimit(lcn) + tick

\* rvrt_output_frame_address.
EncodedTimestep(frame) ==
  (frame.header % 2) * TsLoCount + ((frame.low \div TsLoUnit) % TsLoCount)
FrameAxon(frame) == (frame.low \div AxonUnit) % AxonCount
Timestep(frame, lcn) == EncodedTimestep(frame) \div TickLimit(lcn)
AxonBit(frame, lcn) ==
  (EncodedTimestep(frame) * AxonCount + FrameAxon(frame))
    % (AxonCount * TickLimit(lcn))
Payload(frame) == frame.low % PayloadCount

(***************************************************************************)
(* Values.  A dtype is a number of bits and a sign; a byte of a tensor     *)
(* holds a value in two's complement of eight bits.                        *)
(***************************************************************************)

DTypes == [bits : {1, 2, 4, 8}, signed : BOOLEAN]
Bytes == 0..2^8 - 1
AsSigned(byte) == IF byte >= 2^7 THEN byte - 2^8 ELSE byte

\* encode_payload: which bytes fit the dtype, and what is sent for them.
Encodable(byte, dtype) ==
  IF dtype.signed
  THEN AsSigned(byte) \in -(2^(dtype.bits - 1))..2^(dtype.bits - 1) - 1
  ELSE byte < 2^dtype.bits
EncodedPayload(byte, dtype) ==
  IF dtype.signed THEN byte % 2^dtype.bits ELSE byte

\* decode_payload extends the sign of what the dtype's bits hold.
ZeroExtended(payload, dtype) == payload % 2^dtype.bits
DecodedByte(payload, dtype) ==
  LET value == payload % 2^dtype.bits
  IN  IF dtype.signed /\ value >= 2^(dtype.bits - 1)
      THEN value + 2^8 - 2^dtype.bits ELSE value
=============================================================================
