--------------------------- MODULE RingBufProofs ---------------------------
(***************************************************************************)
(* Proofs about Lib/ringbuf.c, for every storage size and every alphabet:  *)
(* the two contexts never touch one slot at once, and the buffer is a FIFO. *)
(***************************************************************************)
EXTENDS RingBuf, TLAPS

\* How many slots index i lies ahead of tail.
Ahead(i) == Available(i, tail)

(***************************************************************************)
(* The inductive invariant.  Between an operation's first access to the    *)
(* other side's index and its last step, what it learnt stays true.        *)
(***************************************************************************)

\* A writer past its check still has room, and has stored its byte.
WriterKnows ==
  /\ writer.pc \in {"store", "advance"} => HasRoom
  /\ writer.pc = "advance" => storage[head] = writer.byte

\* A reader past its check still has a byte, and has read it; the head it has
\* read is at most the present head.
ReaderKnows ==
  /\ reader.pc \in {"fetch", "advance"} => head # tail
  /\ reader.pc = "advance" => reader.byte = storage[tail]
  /\ reader.pc \in {"reset", "available"} => Ahead(reader.index) <= Used

IInv == TypeOK /\ WriterKnows /\ ReaderKnows

USE SizeAssumption

\* The next index is an index.
LEMMA NextIndexIsIndex == ASSUME NEW i \in Index PROVE NextIndex(i) \in Index
  BY DEF Index, NextIndex

LEMMA InitEstablishes == Init => IInv
  BY DEF Init, IInv, TypeOK, WriterKnows, ReaderKnows, Index, WriterRecord,
         ReaderRecord

\* A step of the writer.
LEMMA WriterKeeps == IInv /\ Writer => IInv'
<1> SUFFICES ASSUME IInv, Writer PROVE IInv'
  OBVIOUS
<1> USE DEF IInv, TypeOK, WriterKnows, ReaderKnows, WriterRecord, ReaderRecord
<1>1. ASSUME NEW b \in Byte, BeginPut(b) PROVE IInv'
  BY <1>1 DEF BeginPut, bufferVars, HasRoom, Ahead, Available, Used
<1>2. ASSUME NEW b \in Byte, PutFull(b) PROVE IInv'
  BY <1>2 DEF PutFull, bufferVars, HasRoom, Ahead, Available, Used
<1>3. CASE StoreByte
  <2>1. TypeOK'
    BY <1>3 DEF StoreByte
  <2>2. WriterKnows'
    BY <1>3 DEF StoreByte, HasRoom
  <2>3. ReaderKnows'
    BY <1>3 DEF StoreByte, Ahead, Available, Used
  <2> QED
    BY <2>1, <2>2, <2>3
<1>4. CASE AdvanceHead
  <2>1. TypeOK'
    BY <1>4, NextIndexIsIndex DEF AdvanceHead
  <2>2. WriterKnows'
    BY <1>4 DEF AdvanceHead
  <2>3. ReaderKnows'
    BY <1>4, SMTT(60) DEF AdvanceHead, HasRoom, NextIndex, Ahead, Available, Used, Index
  <2> QED
    BY <2>1, <2>2, <2>3
<1> QED
  BY <1>1, <1>2, <1>3, <1>4 DEF Writer

\* A step of the reader.
LEMMA ReaderKeeps == IInv /\ Reader => IInv'
<1> SUFFICES ASSUME IInv, Reader PROVE IInv'
  OBVIOUS
<1> USE DEF IInv, TypeOK, WriterKnows, ReaderKnows, WriterRecord, ReaderRecord
<1>1. CASE BeginGet
  BY <1>1 DEF BeginGet, bufferVars, HasRoom
<1>2. CASE GetEmpty
  BY <1>2 DEF GetEmpty, bufferVars, HasRoom, Ahead, Available, Used
<1>3. CASE FetchByte
  BY <1>3 DEF FetchByte, bufferVars, HasRoom
<1>4. CASE AdvanceTail
  <2>1. TypeOK'
    BY <1>4, NextIndexIsIndex DEF AdvanceTail
  <2>2. head # tail
    BY <1>4 DEF AdvanceTail
  <2>3. NextIndex(head) # NextIndex(tail)
    BY <2>2 DEF NextIndex, Index
  <2>4. WriterKnows'
    BY <1>4, <2>3 DEF AdvanceTail, HasRoom
  <2>5. ReaderKnows'
    BY <1>4 DEF AdvanceTail
  <2> QED
    BY <2>1, <2>4, <2>5
<1>5. CASE BeginReset
  <2>1. TypeOK'
    BY <1>5 DEF BeginReset, bufferVars
  <2>2. WriterKnows'
    BY <1>5 DEF BeginReset, bufferVars, HasRoom
  <2>3. ReaderKnows'
    <3>1. reader'.pc = "reset" /\ reader'.index = head
      BY <1>5 DEF BeginReset
    <3>2. Ahead(reader.index)' = Used'
      BY <1>5, <3>1 DEF BeginReset, bufferVars, Ahead, Available, Used
    <3>3. Used' \in Int
      BY <2>1 DEF Used, Index
    <3> QED
      BY <3>1, <3>2, <3>3
  <2> QED
    BY <2>1, <2>2, <2>3
<1>6. CASE FinishReset
  BY <1>6 DEF FinishReset, HasRoom, NextIndex, Ahead, Available, Used, Index
<1>7. CASE BeginAvailable
  <2>1. TypeOK'
    BY <1>7 DEF BeginAvailable, bufferVars
  <2>2. WriterKnows'
    BY <1>7 DEF BeginAvailable, bufferVars, HasRoom
  <2>3. ReaderKnows'
    <3>1. reader'.pc = "available" /\ reader'.index = head
      BY <1>7 DEF BeginAvailable
    <3>2. Ahead(reader.index)' = Used'
      BY <1>7, <3>1 DEF BeginAvailable, bufferVars, Ahead, Available, Used
    <3>3. Used' \in Int
      BY <2>1 DEF Used, Index
    <3> QED
      BY <3>1, <3>2, <3>3
  <2> QED
    BY <2>1, <2>2, <2>3
<1>8. CASE FinishAvailable
  <2>1. TypeOK'
    <3>1. Available(reader.index, tail) \in 0..Size
      BY DEF Available, Index
    <3> QED
      BY <1>8, <3>1 DEF FinishAvailable, bufferVars
  <2>2. WriterKnows'
    BY <1>8 DEF FinishAvailable, bufferVars, HasRoom
  <2>3. ReaderKnows'
    BY <1>8 DEF FinishAvailable, bufferVars
  <2> QED
    BY <2>1, <2>2, <2>3
<1> QED
  BY <1>1, <1>2, <1>3, <1>4, <1>5, <1>6, <1>7, <1>8 DEF Reader

LEMMA StutterKeeps == IInv /\ UNCHANGED vars => IInv'
  BY DEF IInv, TypeOK, WriterKnows, ReaderKnows, vars, bufferVars, HasRoom,
         Ahead, Available, Used

\* The indices, the slots and what each context knows of the other: the
\* inductive invariant holds in every reachable state.
THEOREM Invariant == Spec => []IInv
<1>1. IInv /\ [Next]_vars => IInv'
  BY WriterKeeps, ReaderKeeps, StutterKeeps DEF Next
<1> QED
  BY InitEstablishes, <1>1, PTL DEF Spec

\* Every index stays inside the storage, whatever its size.
THEOREM TypeCorrect == Spec => []TypeOK
  BY Invariant, PTL DEF IInv

\* The writer never stores into the slot the reader is reading: without a
\* lock, and however the steps of the two contexts interleave.
THEOREM SlotRaceFree == Spec => []NoSlotRace
<1>1. IInv => NoSlotRace
  BY DEF IInv, ReaderKnows, NoSlotRace
<1> QED
  BY Invariant, <1>1, PTL

\* rv_ringbuf_available never counts a byte that is not there.
THEOREM AvailableIsSound == Spec => AvailableIsThere
<1>1. ASSUME IInv, [Next]_vars, reader.pc = "available", reader'.pc = "idle"
      PROVE  reader'.count <= Used'
  <2>1. FinishAvailable
    BY <1>1 DEF IInv, TypeOK, ReaderRecord, Next, vars, bufferVars, Writer,
                BeginPut, PutFull, StoreByte, AdvanceHead, Reader, BeginGet,
                GetEmpty, FetchByte, AdvanceTail, BeginReset, FinishReset,
                BeginAvailable
  <2>2. reader'.count = Ahead(reader.index)
    BY <1>1, <2>1 DEF FinishAvailable, Ahead, IInv, TypeOK, ReaderRecord
  <2>3. Used' = Used
    BY <2>1 DEF FinishAvailable, bufferVars, Used
  <2> QED
    BY <1>1, <2>2, <2>3 DEF IInv, ReaderKnows
<1>2. IInv /\ [Next]_vars => [reader.pc = "available" /\ reader'.pc = "idle"
                                 => reader'.count <= Used']_vars
  BY <1>1
<1> QED
  BY <1>2, Invariant, PTL DEF Spec, AvailableIsThere

(***************************************************************************)
(* Refinement: RingBuf implements ByteQueue.                               *)
(***************************************************************************)

\* The i-th slot from the next index, and from an index further ahead.
LEMMA SlotFromNext ==
  ASSUME NEW t \in Index, NEW i \in 1..Size - 1
  PROVE  SlotFrom(NextIndex(t), i) = SlotFrom(t, i + 1)
  BY DEF SlotFrom, NextIndex, Index

LEMMA SlotFromAhead ==
  ASSUME NEW t \in Index, NEW h \in Index,
         NEW i \in 1..Size - Available(h, t)
  PROVE  SlotFrom(h, i) = SlotFrom(t, i + Available(h, t))
  BY DEF SlotFrom, Available, Index

\* The contents are a sequence of bytes, one shorter than the storage at most.
LEMMA ContentsIsSeq ==
  ASSUME IInv
  PROVE  /\ Used \in 0..Size - 1
         /\ \A i \in 1..Used : Slot(i) \in Index
         /\ Contents \in Seq(Byte)
         /\ Len(Contents) = Used
<1>1. Used \in 0..Size - 1
  BY DEF IInv, TypeOK, Used, Index
<1>2. \A i \in 1..Used : Slot(i) \in Index
  BY DEF IInv, TypeOK, Used, Slot, SlotFrom, Index
<1>3. \A i \in 1..Used : storage[Slot(i)] \in Byte
  BY <1>2 DEF IInv, TypeOK
<1>4. Contents \in [1..Used -> Byte]
  BY <1>3 DEF Contents
<1> QED
  BY <1>1, <1>2, <1>4

\* No byte held lies in the slot the writer fills next.
LEMMA HeadIsFree == ASSUME IInv PROVE \A i \in 1..Used : Slot(i) # head
  BY DEF IInv, TypeOK, Used, Slot, SlotFrom, Index

\* Room is what the abstract queue calls room.
LEMMA RoomIsRoom == ASSUME IInv PROVE HasRoom <=> Used < Size - 1
  BY DEF IInv, TypeOK, HasRoom, NextIndex, Used, Index

\* Advancing head appends the stored byte.
LEMMA AdvanceHeadPuts ==
  ASSUME IInv, AdvanceHead
  PROVE  Queue!Put(writer.byte)
<1> head \in Index /\ tail \in Index
  BY DEF IInv, TypeOK
<1>1. Used' = Used + 1
  <2>1. NextIndex(head) # tail /\ head' = NextIndex(head) /\ tail' = tail
    BY DEF AdvanceHead, IInv, WriterKnows, HasRoom
  <2> QED
    BY <2>1 DEF NextIndex, Used, Index
<1>2. SlotFrom(tail, Used + 1) = head /\ tail' = tail
  BY DEF AdvanceHead, Used, SlotFrom, Index
<1>3. storage[head] = writer.byte /\ storage' = storage
  BY DEF AdvanceHead, IInv, WriterKnows
<1>4. Contents' = [i \in 1..Used + 1 |-> storage[Slot(i)]]
  BY <1>1, <1>2, <1>3 DEF Contents, Slot
<1>5. Contents' = Append(Contents, writer.byte)
  <2>1. \A i \in 1..Used + 1 :
          storage[Slot(i)] = IF i <= Used THEN Contents[i] ELSE writer.byte
    BY <1>2, <1>3, ContentsIsSeq DEF Contents, Slot
  <2> HIDE DEF Contents
  <2> QED
    BY <1>4, <2>1, ContentsIsSeq
<1>6. Len(Contents) < Size - 1
  BY RoomIsRoom, ContentsIsSeq DEF AdvanceHead, IInv, WriterKnows
<1> QED
  BY <1>5, <1>6 DEF AdvanceHead, Queue!Put

\* Advancing tail removes the byte that was fetched.
LEMMA AdvanceTailGets ==
  ASSUME IInv, AdvanceTail
  PROVE  Queue!Get
<1> head \in Index /\ tail \in Index
  BY DEF IInv, TypeOK
<1>1. Used' = Used - 1 /\ Used >= 1
  <2>1. head # tail /\ tail' = NextIndex(tail) /\ head' = head
    BY DEF AdvanceTail, IInv, ReaderKnows
  <2> QED
    BY <2>1 DEF NextIndex, Used, Index
<1>2. \A i \in 1..Used - 1 : Slot(i)' = Slot(i + 1)
  BY SlotFromNext, ContentsIsSeq DEF AdvanceTail, Slot
<1>3. storage' = storage /\ Slot(1) = tail
  BY DEF AdvanceTail, Slot, SlotFrom, Index
<1>4. Contents' = [i \in 1..Used - 1 |-> storage[Slot(i + 1)]]
  BY <1>1, <1>2, <1>3 DEF Contents
<1>5. Contents' = Tail(Contents)
  BY <1>1, <1>4, ContentsIsSeq DEF Contents
<1>6. Contents # <<>> /\ Head(Contents) = reader.byte
  BY <1>1, <1>3, ContentsIsSeq DEF AdvanceTail, IInv, ReaderKnows, Contents
<1> QED
  BY <1>5, <1>6 DEF AdvanceTail, Queue!Get

\* A reset drops the bytes that were held when it read head.
LEMMA FinishResetDrops ==
  ASSUME IInv, FinishReset
  PROVE  Queue!Reset
<1> DEFINE n == Ahead(reader.index)
<1> head \in Index /\ tail \in Index /\ tail' = reader.index
  BY DEF IInv, TypeOK, FinishReset
<1>1. n \in 0..Used /\ reader.index \in Index
  BY DEF FinishReset, IInv, TypeOK, ReaderRecord, ReaderKnows, Ahead,
         Available, Used, Index
<1>2. Used' = Used - n
  BY <1>1, SMTT(60) DEF FinishReset, IInv, TypeOK, Ahead, Available, Used, Index
<1>3. \A i \in 1..Used - n : Slot(i)' = Slot(i + n)
  <2> SUFFICES ASSUME NEW i \in 1..Used - n PROVE Slot(i)' = Slot(i + n)
    OBVIOUS
  <2>1. i \in 1..Size - Available(reader.index, tail)
    BY <1>1, ContentsIsSeq DEF Ahead
  <2> QED
    BY <1>1, <2>1, SlotFromAhead DEF Slot, Ahead
<1>4. storage' = storage
  BY DEF FinishReset
<1>5. Contents' = [i \in 1..Used - n |-> storage[Slot(i + n)]]
  BY <1>2, <1>3, <1>4 DEF Contents
<1>6. Contents' = SubSeq(Contents, n + 1, Len(Contents))
  <2>1. \A i \in 1..Used - n : storage[Slot(i + n)] = Contents[n + i]
    BY <1>1, ContentsIsSeq DEF Contents
  <2> HIDE DEF n
  <2>2. SubSeq(Contents, n + 1, Used) = [i \in 1..Used - n |-> Contents[n + i]]
    BY <1>1, ContentsIsSeq
  <2> QED
    BY <1>5, <2>1, <2>2, ContentsIsSeq
<1> QED
  BY <1>1, <1>6, ContentsIsSeq DEF FinishReset, Queue!Reset

\* A store outside the bytes held is invisible, and so is every other step
\* that leaves the buffer and event alone.
LEMMA StoreByteStutters ==
  ASSUME IInv, StoreByte
  PROVE  UNCHANGED <<Contents, event>>
<1>1. Used' = Used /\ \A i \in 1..Used : Slot(i)' = Slot(i)
  BY DEF StoreByte, Used, Slot
<1>2. \A i \in 1..Used : storage'[Slot(i)] = storage[Slot(i)]
  BY HeadIsFree, ContentsIsSeq DEF StoreByte, IInv, TypeOK
<1>3. Contents' = Contents
  BY <1>1, <1>2 DEF Contents
<1> QED
  BY <1>3 DEF StoreByte

LEMMA SameBufferStutters ==
  ASSUME UNCHANGED bufferVars
  PROVE  Contents' = Contents
  BY DEF bufferVars, Contents, Used, Slot

\* Every step of the two contexts is a step of the abstract queue or none.
LEMMA StepRefines ==
  ASSUME IInv, [Next]_vars
  PROVE  [Queue!QueueNext]_(Queue!queueVars)
<1> USE DEF Queue!QueueNext, Queue!queueVars
<1>1. ASSUME NEW b \in Byte, PutFull(b) PROVE Queue!PutFull(b)
  BY <1>1, RoomIsRoom, ContentsIsSeq, SameBufferStutters
     DEF PutFull, Queue!PutFull
<1>2. CASE AdvanceHead
  <2>1. writer.byte \in Byte
    BY DEF IInv, TypeOK, WriterRecord
  <2> QED
    BY <1>2, <2>1, AdvanceHeadPuts
<1>3. CASE GetEmpty
  <2>1. Contents = <<>>
    BY <1>3, ContentsIsSeq DEF GetEmpty, Used, IInv, TypeOK, Index
  <2>2. Queue!GetEmpty
    BY <1>3, <2>1, SameBufferStutters DEF GetEmpty, Queue!GetEmpty
  <2> QED
    BY <2>2
<1>4. CASE AdvanceTail
  BY <1>4, AdvanceTailGets
<1>5. CASE FinishReset
  BY <1>5, FinishResetDrops
<1>6. CASE StoreByte
  BY <1>6, StoreByteStutters
<1>7. CASE /\ UNCHANGED bufferVars
           /\ UNCHANGED event
  BY <1>7, SameBufferStutters
<1> QED
  BY <1>1, <1>2, <1>3, <1>4, <1>5, <1>6, <1>7
     DEF Next, vars, Writer, BeginPut, Reader, BeginGet, FetchByte, BeginReset,
         BeginAvailable, FinishAvailable

\* rv_ringbuf_put, _get and _reset, used by one writer and one reader that
\* interleave at every access, implement a FIFO of Size - 1 bytes.
THEOREM Refinement == Spec => ImplementsQueue
<1>1. Init => \E none \in Byte : Queue!QueueInit(none)
  <2> SUFFICES ASSUME Init PROVE \E none \in Byte : Queue!QueueInit(none)
    OBVIOUS
  <2>1. Contents = <<>>
    BY InitEstablishes, ContentsIsSeq DEF Init, Used
  <2> QED
    BY <2>1 DEF Init, Queue!QueueInit
<1>2. IInv /\ [Next]_vars => [Queue!QueueNext]_(Queue!queueVars)
  BY StepRefines
<1> QED
  BY <1>1, <1>2, Invariant, PTL DEF Spec, ImplementsQueue, Queue!QueueSpec
=============================================================================
