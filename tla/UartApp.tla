------------------------------ MODULE UartApp ------------------------------
(***************************************************************************)
(* application/baremetal/uart: a shell on the UART that sends stored or    *)
(* typed frames to the chip, prints every frame that comes back from the   *)
(* interrupt handler, and reports when a response is complete or late.     *)
(*                                                                         *)
(* Composed with Noc and its chip.  Line editing is left out: the main     *)
(* loop takes a whole command or none.  A read of the empty uplink FIFO    *)
(* waits for a frame, as nothing in this program ends it.                  *)
(***************************************************************************)
EXTENDS TestChip

CONSTANTS
  Commands,    \* the commands the user types
  Patient,     \* those typed only when no response is outstanding
  ClockRuns,   \* may the time limit of a response expire?
  CleanIrq,    \* is the interrupt raised once for each answer, at its end?
  TestOut,     \* most frames after the header of a test response
  MaxCommands  \* bound: commands typed

AllCommands ==
  {"config", "init", "work", "sync", "test", "clear",
   "user config", "user test", "user work", "user control"}

ASSUME UartAppAssumption ==
  /\ Commands \subseteq AllCommands
  /\ Patient \subseteq Commands
  /\ {ClockRuns, CleanIrq} \subseteq BOOLEAN
  /\ TestOut \in Nat
  /\ MaxCommands \in Nat

VARIABLES
  pc,        \* where the main loop is
  command,   \* the command being processed, and its frame
  typed,     \* commands typed so far
  app,       \* g_uart_app: what is pending, and of what kind, how many frames
             \* have come and are expected, and whether a response is ready
  isr,       \* is the handler running, and has it seen the last frame?
  abandoned  \* history: was a response given up, and not all quiet since?

appVars == <<pc, command, typed, app, isr>>
vars == <<testVars, appVars, abandoned>>

ClearedApp ==
  [pending |-> FALSE, kind |-> "config", count |-> 0, expected |-> 0,
   ready |-> FALSE]
NoCommand == [name |-> "none", frame |-> DataFrame]

Init ==
  /\ NocInit
  /\ TestInit
  /\ pc = "boot"
  /\ command = NoCommand
  /\ typed = 0
  /\ app = ClearedApp
  /\ isr = [active |-> FALSE, stop |-> FALSE]
  /\ abandoned = FALSE

(***************************************************************************)
(* The interrupt handler, and handle_noc_frame.                            *)
(***************************************************************************)

EnterHandler ==
  /\ ~isr.active
  /\ irqEnabled
  /\ irqPending
  /\ AckIrq
  /\ CleanIrq => ~irqPending'
  /\ irqEnabled' = FALSE
  /\ isr' = [active |-> TRUE, stop |-> FALSE]
  /\ UNCHANGED <<down, up, chip, answer, testing, pc, command, typed, app, abandoned>>

\* A frame is counted.  The expected number ends a response, or, where none is
\* expected, a COMPLETE.
AllExpected(count) == app.expected # 0 /\ count >= app.expected
AfterFrame(frame) ==
  LET count == app.count + 1
  IN  [app EXCEPT !.count = count,
                  !.expected = IF AllExpected(count) THEN 0 ELSE @]
StopsBeforeLast(frame) ==
  \/ app.expected # 0 /\ app.count + 2 >= app.expected
  \/ app.expected = 0 /\ IsComplete(frame)
Stops(frame) ==
  \/ AllExpected(app.count + 1)
  \/ app.expected = 0 /\ IsComplete(frame)

HandlerReads ==
  /\ isr.active
  /\ ~isr.stop
  /\ up # <<>>
  /\ up' = Tail(up)
  /\ app' = AfterFrame(Head(up))
  /\ isr' = [isr EXCEPT !.stop = Stops(Head(up))]
  /\ UNCHANGED <<down, irqPending, irqEnabled, chip, answer, testing, pc,
                 command, typed, abandoned>>

\* The interrupt is acknowledged on entry only.
LeaveHandler ==
  /\ isr.stop
  /\ app' = [app EXCEPT !.pending = FALSE, !.ready = TRUE]
  /\ irqEnabled' = TRUE
  /\ isr' = [active |-> FALSE, stop |-> FALSE]
  /\ UNCHANGED <<down, up, irqPending, chip, answer, testing, pc, command,
                 typed, abandoned>>

(***************************************************************************)
(* The main loop.  An enabled pending interrupt is taken first.            *)
(***************************************************************************)

At(label) == pc = label /\ ~isr.active /\ ~(irqEnabled /\ irqPending)
NocQuiet == UNCHANGED <<down, up, irqPending, chip, answer, testing>>

\* output_critical_enter and output_critical_exit
GateMissing == irqEnabled' = irqEnabled
Gate == irqEnabled' = FALSE
Ungate == irqEnabled' = TRUE

\* uart_app_init may fail to register an interrupt.
Boot ==
  /\ At("boot")
  /\ \/ pc' = "poll" /\ Ungate
     \/ pc' = "returned" /\ UNCHANGED irqEnabled
  /\ NocQuiet
  /\ UNCHANGED <<command, typed, app, isr, abandoned>>
Returned == At("returned") /\ UNCHANGED vars

\* uart_app_poll_command, with the NoC interrupt disabled while it echoes.
BeginPoll ==
  /\ At("poll")
  /\ Gate
  /\ pc' = "echoing"
  /\ NocQuiet
  /\ UNCHANGED <<command, typed, app, isr, abandoned>>

\* Nothing is pending, or a WORK response that a SYNC will close.
NothingOutstanding ==
  /\ Quiet
  /\ ~app.ready
  /\ ~app.pending \/ app.kind = "work"
FrameOf(name, n) ==
  CASE name \in {"test", "user test"} -> TestRequest(n)
    [] name = "init" -> [kind |-> "init", steps |-> 0]
    [] name = "sync" -> [kind |-> "sync", steps |-> 1]
    [] OTHER -> DataFrame
UserFrames == {[kind |-> "init", steps |-> 0], [kind |-> "sync", steps |-> 1]}

Echo ==
  /\ At("echoing")
  /\ \/ /\ pc' = "service"
        /\ UNCHANGED <<command, typed>>
     \/ /\ typed < MaxCommands
        /\ typed' = typed + 1
        /\ \E name \in Commands, n \in 0..TestOut :
             \E frame \in IF name = "user control" THEN UserFrames
                          ELSE {FrameOf(name, n)} :
               /\ name \in Patient => NothingOutstanding
               /\ command' = [name |-> name, frame |-> frame]
        /\ pc' = "command"
  /\ Ungate
  /\ NocQuiet
  /\ UNCHANGED <<app, isr, abandoned>>

BeginCommand ==
  /\ At("command")
  /\ Gate
  /\ pc' = "deciding"
  /\ NocQuiet
  /\ UNCHANGED <<command, typed, app, isr, abandoned>>

\* response_timed_out, release_timed_out_response: the state is released, the
\* chip and the FIFO keep what they have.
MayTimeOut == ClockRuns /\ app.pending
TimedOutStaysPending == [app EXCEPT !.expected = 0]
TimedOut == [app EXCEPT !.pending = FALSE, !.expected = 0]
AfterRelease(checked) ==
  {app} \union (IF checked /\ MayTimeOut THEN {TimedOut} ELSE {})

\* response_busy, for the state a after a release.
BusyWhenReady(a) == command.name \in {"init", "sync"} /\ a.ready
Busy(a) ==
  /\ command.name \in {"init", "sync"}
  /\ IF ~a.pending THEN a.ready
     ELSE a.ready \/ ~(a.kind = "work" /\ command.name = "sync")

\* begin_response.  A SYNC that closes a WORK response, and configuration
\* frames, begin none.
Begun(kind, expected) ==
  [pending |-> TRUE, kind |-> kind, count |-> 0, expected |-> expected,
   ready |-> FALSE]
ClosesWork(a) == command.name = "sync" /\ a.pending /\ a.kind = "work"
AfterBegin(a) ==
  IF command.name = "config" \/ ClosesWork(a) THEN a
  ELSE CASE command.name \in {"init", "work", "sync"} -> Begun(command.name, 0)
         [] command.name = "test" -> Begun("test", command.frame.steps + 1)
         [] command.name = "user test" -> Begun("init", command.frame.steps + 1)
         [] command.name = "user work" -> Begun("work", 0)
         [] command.name = "user config" -> Begun("init", 1)
         [] command.name = "user control" -> Begun("init", 0)

\* A frame that is not available, or malformed, is refused as well as a busy
\* response; `clear' forgets everything but the hardware.
Decide ==
  /\ At("deciding")
  /\ \/ /\ command.name = "clear"
        /\ app' = [ClearedApp EXCEPT !.kind = app.kind]
        /\ abandoned' = (abandoned \/ app.pending \/ app.ready)
        /\ pc' = "leaving"
     \/ /\ command.name # "clear"
        /\ \E released \in AfterRelease(command.name \in {"init", "sync"}) :
             \/ /\ Busy(released)
                /\ app' = released
                /\ abandoned' = (abandoned \/ released # app)
                /\ pc' = "leaving"
             \/ /\ ~Busy(released)
                /\ app' = AfterBegin(released)
                /\ abandoned' = (~(Quiet /\ ~released.pending /\ ~released.ready)
                                    /\ (abandoned \/ released # app))
                /\ pc' = "storing"
  /\ UNCHANGED irqEnabled
  /\ NocQuiet
  /\ UNCHANGED <<command, typed, isr>>
NotSent ==
  /\ At("deciding")
  /\ command.name # "clear"
  /\ pc' = "leaving"
  /\ UNCHANGED irqEnabled
  /\ NocQuiet
  /\ UNCHANGED <<command, typed, app, isr, abandoned>>

\* send_view writes the words of the frame; it may stop a long configuration
\* half-way.
Store ==
  /\ At("storing")
  /\ WriteFrame(command.frame)
  /\ pc' = "leaving"
  /\ UNCHANGED <<up, irqPending, irqEnabled, chip, answer, testing, command,
                 typed, app, isr, abandoned>>

LeaveCommand ==
  /\ At("leaving")
  /\ Ungate
  /\ pc' = "service"
  /\ NocQuiet
  /\ UNCHANGED <<command, typed, app, isr, abandoned>>

BeginService ==
  /\ At("service")
  /\ Gate
  /\ pc' = "reporting"
  /\ NocQuiet
  /\ UNCHANGED <<command, typed, app, isr, abandoned>>

\* uart_app_service_received_data: a response that is ready is reported, with
\* the number of its frames.
Service ==
  /\ At("reporting")
  /\ \E released \in AfterRelease(TRUE) :
       /\ abandoned' = (abandoned \/ released # app)
       /\ app' = [released EXCEPT !.ready = FALSE]
  /\ pc' = "poll"
  /\ Ungate
  /\ NocQuiet
  /\ UNCHANGED <<command, typed, isr>>

Main ==
  \/ Boot \/ Returned
  \/ BeginPoll \/ Echo
  \/ BeginCommand \/ Decide \/ NotSent \/ Store \/ LeaveCommand
  \/ BeginService \/ Service

AppChip ==
  /\ TestChipStep
  /\ CleanIrq => irqPending' = (irqPending \/ (up' # up /\ ~chip'.busy))
  /\ UNCHANGED <<appVars, abandoned>>

Next ==
  \/ EnterHandler \/ HandlerReads \/ LeaveHandler
  \/ Main
  \/ AppChip

Spec == Init /\ [][Next]_vars
=============================================================================
