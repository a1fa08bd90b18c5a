------------------------------ MODULE RingBuf ------------------------------
(***************************************************************************)
(* Lib/ringbuf.c: a byte ring buffer for one writer (a UART interrupt      *)
(* handler) and one reader (the main loop), without locks.  Every access   *)
(* to head, tail and a storage slot is a step of its own: the two index    *)
(* variables are volatile, and compiler barriers keep the slot's access    *)
(* between those of the indices.                                           *)
(***************************************************************************)
EXTENDS Integers, Sequences

CONSTANTS
  Size,  \* storage_size
  Byte   \* the values of a byte

\* rv_ringbuf_init refuses a storage of fewer than two bytes.
ASSUME SizeAssumption == Size \in Nat /\ Size >= 2

VARIABLES
  storage, head, tail,  \* the members of rv_ringbuf_t
  writer,               \* the writer in rv_ringbuf_put: pc, byte, local head
  reader,               \* the reader: pc, local index, byte or count
  event                 \* history: the latest operation that took effect

bufferVars == <<storage, head, tail>>
vars == <<bufferVars, writer, reader, event>>

Index == 0..Size - 1
\* The reader's local index may be out of date, but never out of range.
WriterRecord == [pc : {"idle", "store", "advance"}, byte : Byte]
ReaderRecord ==
  [pc : {"idle", "fetch", "advance", "reset", "available"},
   index : Index, byte : Byte, count : 0..Size]

NextIndexUnwrapped(i) == IF i + 1 > Size THEN 0 ELSE i + 1
NextIndex(i) == IF i + 1 >= Size THEN 0 ELSE i + 1

\* rv_ringbuf_available, given the head and the tail it has read.
AvailableUnwrapped(h, t) == IF h >= t THEN h - t ELSE t - h
Available(h, t) == IF h >= t THEN h - t ELSE Size - t + h

\* rv_ringbuf_init.  Nothing is assumed of the storage it is given.
Init ==
  /\ storage \in [Index -> Byte]
  /\ head = 0
  /\ tail = 0
  /\ \E none \in Byte :
       /\ writer = [pc |-> "idle", byte |-> none]
       /\ reader = [pc |-> "idle", index |-> 0, byte |-> none, count |-> 0]
       /\ event = [op |-> "init", result |-> "OK", byte |-> none]

(***************************************************************************)
(* The writer: rv_ringbuf_put.                                             *)
(***************************************************************************)

\* The only access to tail decides whether there is room.
HasRoomUnchecked == TRUE
HasRoomForTwo ==
  NextIndex(head) # tail /\ NextIndex(NextIndex(head)) # tail
HasRoom == NextIndex(head) # tail

BeginPut(b) ==
  /\ writer.pc = "idle"
  /\ HasRoom
  /\ writer' = [pc |-> "store", byte |-> b]
  /\ UNCHANGED <<bufferVars, reader, event>>

PutFull(b) ==
  /\ writer.pc = "idle"
  /\ ~HasRoom
  /\ event' = [op |-> "put", result |-> "FULL", byte |-> b]
  /\ UNCHANGED <<bufferVars, writer, reader>>

StoreByte ==
  /\ writer.pc = "store"
  /\ storage' = [storage EXCEPT ![head] = writer.byte]
  /\ writer' = [writer EXCEPT !.pc = "advance"]
  /\ UNCHANGED <<head, tail, reader, event>>

AdvanceHead ==
  /\ writer.pc = "advance"
  /\ head' = NextIndex(head)
  /\ writer' = [writer EXCEPT !.pc = "idle"]
  /\ event' = [op |-> "put", result |-> "OK", byte |-> writer.byte]
  /\ UNCHANGED <<storage, tail, reader>>

(***************************************************************************)
(* The reader: rv_ringbuf_get, rv_ringbuf_reset and rv_ringbuf_available.  *)
(* A reset writes tail, so it belongs to the reader.                       *)
(***************************************************************************)

BeginGet ==
  /\ reader.pc = "idle"
  /\ head # tail
  /\ reader' = [reader EXCEPT !.pc = "fetch"]
  /\ UNCHANGED <<bufferVars, writer, event>>

GetEmpty ==
  /\ reader.pc = "idle"
  /\ head = tail
  /\ event' = [op |-> "get", result |-> "EMPTY", byte |-> event.byte]
  /\ UNCHANGED <<bufferVars, writer, reader>>

FetchByte ==
  /\ reader.pc = "fetch"
  /\ reader' = [reader EXCEPT !.pc = "advance", !.byte = storage[tail]]
  /\ UNCHANGED <<bufferVars, writer, event>>

AdvanceTail ==
  /\ reader.pc = "advance"
  /\ tail' = NextIndex(tail)
  /\ reader' = [reader EXCEPT !.pc = "idle"]
  /\ event' = [op |-> "get", result |-> "OK", byte |-> reader.byte]
  /\ UNCHANGED <<storage, head, writer>>

BeginReset ==
  /\ reader.pc = "idle"
  /\ reader' = [reader EXCEPT !.pc = "reset", !.index = head]
  /\ UNCHANGED <<bufferVars, writer, event>>

FinishReset ==
  /\ reader.pc = "reset"
  /\ tail' = reader.index
  /\ reader' = [reader EXCEPT !.pc = "idle"]
  /\ event' = [op |-> "reset", result |-> "OK", byte |-> event.byte]
  /\ UNCHANGED <<storage, head, writer>>

BeginAvailable ==
  /\ reader.pc = "idle"
  /\ reader' = [reader EXCEPT !.pc = "available", !.index = head]
  /\ UNCHANGED <<bufferVars, writer, event>>

FinishAvailable ==
  /\ reader.pc = "available"
  /\ reader' = [reader EXCEPT !.pc = "idle",
                              !.count = Available(reader.index, tail)]
  /\ UNCHANGED <<bufferVars, writer, event>>

Writer ==
  \/ \E b \in Byte : BeginPut(b) \/ PutFull(b)
  \/ StoreByte
  \/ AdvanceHead

Reader ==
  \/ BeginGet \/ GetEmpty \/ FetchByte \/ AdvanceTail
  \/ BeginReset \/ FinishReset
  \/ BeginAvailable \/ FinishAvailable

Next == Writer \/ Reader

Spec == Init /\ [][Next]_vars

(***************************************************************************)
(* Properties.                                                             *)
(***************************************************************************)

\* The bytes held, and the slot of the i-th of them.
Used == IF head >= tail THEN head - tail ELSE Size - tail + head
SlotFrom(t, i) == IF t + i - 1 >= Size THEN t + i - 1 - Size ELSE t + i - 1
Slot(i) == SlotFrom(tail, i)

\* Both indices stay inside the storage: no access is out of bounds.
TypeOK ==
  /\ storage \in [Index -> Byte]
  /\ head \in Index
  /\ tail \in Index
  /\ writer \in WriterRecord
  /\ reader \in ReaderRecord
  /\ event \in [op : {"init", "put", "get", "reset"},
                result : {"OK", "FULL", "EMPTY"}, byte : Byte]

\* The writer never stores into the slot the reader is reading: what each has
\* learnt of the other's index before it touches the storage is still good
\* when it does, however far the other has come meanwhile.
NoSlotRace ==
  writer.pc = "store" /\ reader.pc \in {"fetch", "advance"} => head # tail

\* rv_ringbuf_available never promises a byte that rv_ringbuf_get would not
\* deliver: the bytes held when it returns are at least its count, although
\* the writer may have wrapped around since it read head.
AvailableIsThere ==
  [][reader.pc = "available" /\ reader'.pc = "idle"
       => reader'.count <= Used']_vars

Contents == [i \in 1..Used |-> storage[Slot(i)]]

Queue == INSTANCE ByteQueue WITH Capacity <- Size - 1, queue <- Contents

\* The ring buffer implements a FIFO of Size - 1 bytes: every byte accepted is
\* delivered once, unchanged and in order, a byte is refused only when Size - 1
\* are held, and EMPTY is returned only when none is.
ImplementsQueue == Queue!QueueSpec
=============================================================================
