----------------------------- MODULE InputCodec -----------------------------
(***************************************************************************)
(* rvrt_session_send_input_timestep (session_io.c) and the resumable       *)
(* encoder below it, rvrt_encode_input_chunk: one row of an input tensor   *)
(* becomes one frame for every entry of the mapping whose element is not   *)
(* zero, sent in chunks of at most frame_capacity frames.                  *)
(***************************************************************************)
EXTENDS WorkFrame, Sequences

CONSTANTS
  InputRows,    \* the calls: a mapping, a row of bytes, and a timestep
  MaxCapacity   \* bound: workspace_capacity is at most this

InputEntry ==
  [elem : Nat, dtype : DTypes, lcn : TargetLcns, tick : Nat, axon : Nat,
   offset : Int]

\* What the artifact reader lets through: it bounds neither ticks nor axons
\* nor offsets, but all entries have one width, and elements are in the shape.
ReadableRow(r) ==
  /\ r.entries \in Seq(InputEntry)
  /\ r.timestep \in Nat
  /\ r.bytes \in Seq(Bytes)
  /\ \A i \in 1..Len(r.entries) : r.entries[i].elem \in 1..Len(r.bytes)

ASSUME InputAssumption ==
  /\ \A r \in InputRows : ReadableRow(r)
  /\ MaxCapacity \in Nat \ {0}

VARIABLES
  call,        \* the arguments of the call
  capacity,    \* workspace_capacity
  entryIndex,  \* cursor.entry_index
  workspace,   \* the frames encoded since the last send
  sent,        \* the frames sent
  sending      \* state of the call, or the status it returned

inputVars == <<call, capacity, entryIndex, workspace, sent, sending>>

InputInit ==
  /\ call \in InputRows
  /\ capacity \in 1..MaxCapacity
  /\ entryIndex = 0
  /\ workspace = <<>>
  /\ sent = <<>>
  /\ sending = "encoding"

Entry == call.entries[entryIndex + 1]
Byte == call.bytes[Entry.elem]
Done == entryIndex = Len(call.entries)

\* The checks of build_work1_frame and frame_dest.
Buildable(entry) ==
  /\ entry.axon < AxonCount
  /\ FitsSign6(entry.offset)
  /\ entry.tick < TickLimit(entry.lcn)

WorkFrameOf(entry, byte, timestep) ==
  Pack(WorkHeader, SignMagnitude6(entry.offset),
       Stamp(timestep, entry.lcn, entry.tick), entry.axon,
       EncodedPayload(byte, entry.dtype))

(***************************************************************************)
(* One turn of the encoder's loop.                                         *)
(***************************************************************************)

Encoding == sending = "encoding" /\ ~Done

RejectValue ==
  /\ Encoding
  /\ ~Encodable(Byte, Entry.dtype)
  /\ sending' = "RUNTIME_ERROR"
  /\ UNCHANGED <<call, capacity, entryIndex, workspace, sent>>

SkipZero ==
  /\ Encoding
  /\ Encodable(Byte, Entry.dtype)
  /\ EncodedPayload(Byte, Entry.dtype) = 0
  /\ entryIndex' = entryIndex + 1
  /\ UNCHANGED <<call, capacity, workspace, sent, sending>>

Spike ==
  /\ Encoding
  /\ Encodable(Byte, Entry.dtype)
  /\ EncodedPayload(Byte, Entry.dtype) # 0

\* The index was advanced past the spike before the buffer was found full: it
\* is stepped back, so that the next chunk begins with this entry.
CursorNotSteppedBack == entryIndex + 1
CursorSteppedBack == entryIndex
FillBuffer ==
  /\ Spike
  /\ Len(workspace) >= capacity
  /\ entryIndex' = CursorSteppedBack
  /\ sending' = "full"
  /\ UNCHANGED <<call, capacity, workspace, sent>>

\* The index has been advanced when the frame turns out not to be buildable.
RejectEntry ==
  /\ Spike
  /\ Len(workspace) < capacity
  /\ ~Buildable(Entry)
  /\ entryIndex' = entryIndex + 1
  /\ sending' = "RUNTIME_ERROR"
  /\ UNCHANGED <<call, capacity, workspace, sent>>

EncodeFrame ==
  /\ Spike
  /\ Len(workspace) < capacity
  /\ Buildable(Entry)
  /\ entryIndex' = entryIndex + 1
  /\ workspace' = Append(workspace, WorkFrameOf(Entry, Byte, call.timestep))
  /\ UNCHANGED <<call, capacity, sent, sending>>

(***************************************************************************)
(* The loop of rvrt_session_send_input_timestep around it.                 *)
(***************************************************************************)

\* DONE, or BUFFER_FULL: send what there is, which may be nothing.
SendWorkspace ==
  /\ sending = "full" \/ (sending = "encoding" /\ Done)
  /\ sent' = sent \o workspace
  /\ workspace' = <<>>
  /\ sending' = IF sending = "full" THEN "encoding" ELSE "OK"
  /\ UNCHANGED <<call, capacity, entryIndex>>

InputNext ==
  \/ RejectValue \/ SkipZero \/ FillBuffer \/ RejectEntry \/ EncodeFrame
  \/ SendWorkspace

InputSpec == InputInit /\ [][InputNext]_inputVars

(***************************************************************************)
(* What the row means.                                                     *)
(***************************************************************************)

\* A spike as the chip reads it: where it goes, at which time, its value.
SpikeOf(row, entry) ==
  [offset |-> entry.offset, axon |-> entry.axon, tick |-> entry.tick,
   timestep |-> row.timestep % TimestepCapacity(entry.lcn),
   byte |-> row.bytes[entry.elem]]

IsSpike(row, k) == row.bytes[row.entries[k].elem] # 0

ReadBack(frame, entry) ==
  [offset |-> CHOOSE value \in -31..31 : SignMagnitude6(value) = frame.dest,
   axon |-> AxonBit(frame, entry.lcn) % AxonCount,
   tick |-> AxonBit(frame, entry.lcn) \div AxonCount,
   timestep |-> Timestep(frame, entry.lcn),
   byte |-> DecodedByte(Payload(frame), entry.dtype)]

\* The frame of an entry, read with the codec's own decoders.
Carries(frame, row, entry) ==
  /\ IsWork(frame) /\ Kind(frame) = "data"
  /\ ReadBack(frame, entry) = SpikeOf(row, entry)

\* The frames are the spikes among the first n entries, each once, in order.
SpikesUpTo(row, n, frames) ==
  \E at \in [1..Len(frames) -> 1..n] :
    /\ \A i, j \in 1..Len(frames) : i < j => at[i] < at[j]
    /\ \A i \in 1..Len(frames) : Carries(frames[i], row, row.entries[at[i]])
    /\ \A k \in 1..n : IsSpike(row, k) <=> \E i \in 1..Len(frames) : at[i] = k

\* However the row is cut into chunks, the frames sent are its spikes, each
\* once and in the mapping's order, and reading them with the codec's own
\* decoders gives back address, time and value.  A call that fails has sent
\* the first of them, and fails only for an entry that has no frame.
InputIsExact ==
  /\ \E n \in 0..Len(call.entries) : SpikesUpTo(call, n, sent \o workspace)
  /\ sending = "OK" => SpikesUpTo(call, Len(call.entries), sent)
  /\ sending = "RUNTIME_ERROR" =>
       \E i \in 1..Len(call.entries) :
         LET entry == call.entries[i]
         IN  \/ ~Encodable(call.bytes[entry.elem], entry.dtype)
             \/ ~Buildable(entry)
=============================================================================
