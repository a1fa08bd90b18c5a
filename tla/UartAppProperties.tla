------------------------- MODULE UartAppProperties -------------------------
(***************************************************************************)
(* What the user of application/baremetal/uart relies on.                  *)
(***************************************************************************)
EXTENDS UartApp

\* The handler prints each frame as it reads it, and so never while the main
\* loop prints: the two never mix on the UART.
Printing == pc \in {"echoing", "deciding", "storing", "leaving", "reporting"}
OutputExclusive == isr.active => ~Printing

\* A report counts exactly the frames of the answer to the latest request, and
\* is made when no more will come; after a response was given up, from the
\* first request that is made when all is quiet again.
ReportIsOwn ==
  [][pc = "reporting" /\ pc' = "poll" /\ app.ready
       => (Quiet /\ app.count = Len(answer)) \/ abandoned]_vars

\* The shell refuses an INIT or SYNC while the COMPLETE of an earlier one is
\* outstanding.
ControlIsOrdered ==
  [][pc = "storing" /\ pc' = "leaving" /\ command.name \in {"init", "sync"}
       => Quiet \/ abandoned]_vars

(***************************************************************************)
(* Liveness: a core that runs, a chip that answers, a clock that runs.     *)
(***************************************************************************)

LiveSpec ==
  /\ Spec
  /\ WF_vars(EnterHandler) /\ WF_vars(HandlerReads) /\ WF_vars(LeaveHandler)
  /\ WF_vars(Main)
  /\ WF_vars(AppChip)
  /\ SF_vars(Service /\ app.pending /\ ~app'.pending)

\* Every request is concluded: reported, given up or cleared.
RequestConcluded == app.pending ~> ~app.pending \/ abandoned
=============================================================================
