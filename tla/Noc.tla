-------------------------------- MODULE Noc --------------------------------
(***************************************************************************)
(* The NoC transport between the RISC-V core and the PAICORE chip: the two *)
(* FIFOs and the interrupt line that the driver evalsoc_noc.c reaches      *)
(* through MMIO, and the chip behind them.  The chip is not in the         *)
(* repository: it is modelled from what the runtime expects of it.  INIT   *)
(* resets its time, SYNC(n) makes it execute n more timesteps, and either  *)
(* is answered by any number of work frames and then one COMPLETE frame.   *)
(* It may be arbitrarily slow, and it may never answer.                    *)
(***************************************************************************)
EXTENDS Integers, Sequences

CONSTANTS
  MaxOut,     \* most work frames the chip emits for one control frame
  DownDepth,  \* capacity of the downlink FIFO, in frames
  UpDepth     \* capacity of the uplink FIFO, in frames

ASSUME NocAssumption ==
  /\ MaxOut \in Nat
  /\ DownDepth \in Nat \ {0}
  /\ UpDepth \in Nat \ {0}

VARIABLES
  down,        \* downlink FIFO: frames the core has written
  up,          \* uplink FIFO: frames the core has not read yet
  irqPending,  \* the device-side pending register (NOC_IRQ_REG)
  irqEnabled,  \* the ECLIC enable byte of the NoC interrupt (NOC_CLILINTIE)
  chip,        \* the chip: is it executing, work frames left, its timestep
  answer       \* history: frames emitted for the latest control frame

nocVars == <<down, up, irqPending, irqEnabled, chip, answer>>

\* Logical downlink frames.  A "data" frame stands for a batch of
\* configuration or input frames: none of them is ever answered.
DownFrame == [kind : {"data", "init", "sync"}, steps : Nat]
DataFrame == [kind |-> "data", steps |-> 0]

IsControl(frame) == frame.kind # "data"
ControlWaiting == \E i \in 1..Len(down) : IsControl(down[i])

\* Logical uplink frames.  seq numbers the frames of one answer; an "idle"
\* frame is what a read of the empty FIFO may return.
UpFrame == [kind : {"work", "complete", "idle"}, seq : Nat]
IdleFrame == [kind |-> "idle", seq |-> 0]
IsComplete(frame) == frame.kind = "complete"

NocTypeOK ==
  /\ down \in Seq(DownFrame)
  /\ up \in Seq(UpFrame)
  /\ irqPending \in BOOLEAN
  /\ irqEnabled \in BOOLEAN
  /\ chip \in [busy : BOOLEAN, left : Nat, time : Nat]
  /\ answer \in Seq(UpFrame)

NocInit ==
  /\ down = <<>>
  /\ up = <<>>
  /\ irqPending = FALSE
  /\ irqEnabled = FALSE
  /\ chip = [busy |-> FALSE, left |-> 0, time |-> 0]
  /\ answer = <<>>

(***************************************************************************)
(* The driver.                                                             *)
(***************************************************************************)

\* Both words of a frame are stored with interrupts masked, so a frame enters
\* the FIFO whole; the store waits for room.
WriteFrame(frame) ==
  /\ Len(down) < DownDepth
  /\ down' = Append(down, frame)

\* Acknowledging clears the pending register; with frames still in the FIFO
\* the level-triggered line may be raised again at once.
AckIrq == irqPending' \in {FALSE, up # <<>>}

(***************************************************************************)
(* The chip.                                                               *)
(***************************************************************************)

Emit(frame) ==
  /\ Len(up) < UpDepth
  /\ up' = Append(up, frame)
  /\ answer' = Append(answer, frame)

ChipTakesData ==
  /\ ~chip.busy
  /\ down # <<>>
  /\ ~IsControl(Head(down))
  /\ down' = Tail(down)
  /\ UNCHANGED <<up, irqPending, irqEnabled, chip, answer>>

ChipStarts ==
  /\ ~chip.busy
  /\ down # <<>>
  /\ IsControl(Head(down))
  /\ down' = Tail(down)
  /\ answer' = <<>>
  /\ \E n \in 0..MaxOut :
       chip' = [busy |-> TRUE,
                left |-> n,
                time |-> IF Head(down).kind = "init"
                         THEN 0 ELSE chip.time + Head(down).steps]
  /\ UNCHANGED <<up, irqPending, irqEnabled>>

\* A work frame may raise the interrupt, and does when the FIFO gets full; a
\* COMPLETE frame always does.
ChipEmitsWork ==
  /\ chip.busy
  /\ chip.left > 0
  /\ Emit([kind |-> "work", seq |-> Len(answer) + 1])
  /\ irqPending' \in {irqPending \/ Len(up') = UpDepth, TRUE}
  /\ chip' = [chip EXCEPT !.left = @ - 1]
  /\ UNCHANGED <<down, irqEnabled>>

ChipCompletes ==
  /\ chip.busy
  /\ chip.left = 0
  /\ Emit([kind |-> "complete", seq |-> Len(answer) + 1])
  /\ irqPending' = TRUE
  /\ chip' = [chip EXCEPT !.busy = FALSE]
  /\ UNCHANGED <<down, irqEnabled>>

ChipStep == ChipTakesData \/ ChipStarts \/ ChipEmitsWork \/ ChipCompletes

\* Nothing the chip was asked before is still to be executed or read.
Quiet ==
  /\ up = <<>>
  /\ ~chip.busy
  /\ ~ControlWaiting

\* What session.h calls platform recovery: the board clears stale frames and
\* the chip, whose time may or may not restart.
PlatformRecovers ==
  /\ down' = <<>>
  /\ up' = <<>>
  /\ irqPending' = FALSE
  /\ \E t \in {0, chip.time} :
       chip' = [busy |-> FALSE, left |-> 0, time |-> t]
  /\ UNCHANGED <<irqEnabled, answer>>
=============================================================================
