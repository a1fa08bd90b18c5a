-------------------------- MODULE RelayProperties --------------------------
(***************************************************************************)
(* What a host of application/baremetal/relay relies on.                   *)
(***************************************************************************)
EXTENDS Relay

\* The NoC receives the host's frames and nothing else, whole and in order:
\* framing survives every interleaving of the two interrupts with the main
\* loop.  It is given up with the first byte that is lost, for good.
FramesAreTheHosts ==
  lost \/ written = [i \in 1..Len(written) |-> Frame(i)]

\* The handler leaves when it has forwarded the whole answer: no frame is left
\* for which the interrupt it acknowledges would have to come again.
HandlerDrainsAnswer ==
  [][isr.active /\ ~isr'.active => lost \/ Quiet]_vars

\* The wait after a SYNC ends with the answer to this SYNC, never with the
\* COMPLETE of an earlier INIT or the end of a test response.
SyncWaitIsExact ==
  [][pc = "waiting" /\ pc' # "waiting" => lost \/ Quiet]_vars

(***************************************************************************)
(* Liveness, with a core that runs, a chip that answers, and a host that   *)
(* finishes the frames it began and reads its line.                        *)
(***************************************************************************)

Fairness ==
  /\ WF_vars(UartInterrupt)
  /\ WF_vars(EnterHandler) /\ WF_vars(HandlerForwards) /\ WF_vars(LeaveHandler)
  /\ WF_vars(Main)
  /\ WF_vars(RelayChip)
  /\ WF_vars(HostSendsByte) /\ WF_vars(HostReads)
LiveSpec == Spec /\ Fairness

Down == pc = "returned"

\* Every request of the host is answered on its line.
EveryRequestAnswered ==
  host.awaits # NoAnswer ~> host.awaits = NoAnswer \/ lost \/ Down

\* Every frame the host sends reaches the NoC.
EveryFrameForwarded ==
  \A n \in 1..MaxFrames :
    Len(host.sent) >= n ~> Len(written) >= n \/ lost \/ Down
=============================================================================
