----------------------------- MODULE ByteQueue -----------------------------
(***************************************************************************)
(* What Lib/ringbuf.h promises a writer and a reader in different contexts: *)
(* a FIFO of at most Capacity bytes.  Every operation takes effect at one   *)
(* instant and is visible in event.                                        *)
(***************************************************************************)
EXTENDS Integers, Sequences

CONSTANTS Byte, Capacity

VARIABLES
  queue,  \* the bytes put and not yet got
  event   \* the latest operation: its name, its result, the byte it moved

queueVars == <<queue, event>>

QueueInit(none) ==
  /\ queue = <<>>
  /\ event = [op |-> "init", result |-> "OK", byte |-> none]

Put(b) ==
  /\ Len(queue) < Capacity
  /\ queue' = Append(queue, b)
  /\ event' = [op |-> "put", result |-> "OK", byte |-> b]

\* The byte is refused only when the queue is full.
PutFull(b) ==
  /\ Len(queue) = Capacity
  /\ event' = [op |-> "put", result |-> "FULL", byte |-> b]
  /\ UNCHANGED queue

Get ==
  /\ queue # <<>>
  /\ queue' = Tail(queue)
  /\ event' = [op |-> "get", result |-> "OK", byte |-> Head(queue)]

GetEmpty ==
  /\ queue = <<>>
  /\ event' = [op |-> "get", result |-> "EMPTY", byte |-> event.byte]
  /\ UNCHANGED queue

\* A reset forgets the oldest bytes; those put while it runs may survive.
Reset ==
  /\ \E n \in 0..Len(queue) : queue' = SubSeq(queue, n + 1, Len(queue))
  /\ event' = [op |-> "reset", result |-> "OK", byte |-> event.byte]

QueueNext ==
  \/ \E b \in Byte : Put(b) \/ PutFull(b)
  \/ Get
  \/ GetEmpty
  \/ Reset

QueueSpec == (\E none \in Byte : QueueInit(none)) /\ [][QueueNext]_queueVars
=============================================================================
