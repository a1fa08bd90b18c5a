------------------------------ MODULE TestChip ------------------------------
(***************************************************************************)
(* The chip of Noc, which also answers test requests, as the relay and the *)
(* UART shell expect it: a header that announces how many frames follow,   *)
(* and these frames, without a COMPLETE.  The request says how many; steps *)
(* is that field of its low word.                                          *)
(*                                                                         *)
(* A frame after the header is raw data.  The programs would take one that *)
(* looks like a header or a COMPLETE for it; here none does.               *)
(***************************************************************************)
EXTENDS Noc

VARIABLE testing  \* is the chip's answer a test response?

TestRequest(n) == [kind |-> "test", steps |-> n]
TestInit == testing = FALSE
testVars == <<nocVars, testing>>

\* The end of the response raises the interrupt, earlier frames may.
MayRaise(ends) == irqPending' \in {TRUE, irqPending \/ ends \/ Len(up') = UpDepth}

ChipStartsTest ==
  /\ ~chip.busy
  /\ down # <<>>
  /\ Head(down).kind = "test"
  /\ LET n == Head(down).steps
     IN  /\ Len(up) < UpDepth
         /\ up' = Append(up, [kind |-> "header", seq |-> n])
         /\ answer' = <<[kind |-> "header", seq |-> n]>>
         /\ chip' = [chip EXCEPT !.busy = n > 0, !.left = n]
         /\ testing' = (n > 0)
         /\ MayRaise(n = 0)
  /\ down' = Tail(down)
  /\ UNCHANGED irqEnabled

ChipAnswersTest ==
  /\ testing
  /\ Emit([kind |-> "raw", seq |-> chip.left])
  /\ chip' = [chip EXCEPT !.left = @ - 1, !.busy = chip.left > 1]
  /\ testing' = (chip.left > 1)
  /\ MayRaise(chip.left = 1)
  /\ UNCHANGED <<down, irqEnabled>>

ChipAnswersControl ==
  /\ ~testing
  /\ ChipStep
  /\ down' # down => Head(down).kind # "test"
  /\ UNCHANGED testing

\* The last frame of an answer of either form.
EndsAnswer(frame) ==
  \/ IsComplete(frame)
  \/ frame \in {[kind |-> "header", seq |-> 0], [kind |-> "raw", seq |-> 1]}

TestChipStep == ChipAnswersControl \/ ChipStartsTest \/ ChipAnswersTest
=============================================================================
