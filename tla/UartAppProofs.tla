---------------------------- MODULE UartAppProofs ----------------------------
(***************************************************************************)
(* The UART shell for every set of commands and any behaviour of the chip: *)
(* the critical sections of uart_app.c keep the handler out of them, and   *)
(* for a patient user requests and reports keep their order.               *)
(***************************************************************************)
EXTENDS UartAppProperties, SequenceTheorems, TLAPS

\* The interrupt is disabled while either side prints, and so neither begins
\* to print while the other does.
Gated ==
  /\ isr \in [active : BOOLEAN, stop : BOOLEAN]
  /\ isr.stop => isr.active
  /\ Printing => ~irqEnabled /\ ~isr.active

LEMMA InitGated == Init => Gated
  BY DEF Init, NocInit, Gated, Printing

LEMMA HandlerGated ==
  ASSUME Gated, EnterHandler \/ HandlerReads \/ LeaveHandler
  PROVE  Gated'
<1>1. pc' = pc
  BY DEF EnterHandler, HandlerReads, LeaveHandler
<1>2. CASE EnterHandler
  <2>1. ~Printing
    BY <1>2 DEF Gated, EnterHandler
  <2> QED
    BY <1>1, <1>2, <2>1 DEF Gated, EnterHandler, Printing
<1>3. CASE HandlerReads
  <2>1. isr.active /\ irqEnabled' = irqEnabled
        /\ isr' = [isr EXCEPT !.stop = Stops(Head(up))]
    BY <1>3 DEF HandlerReads
  <2>2. Stops(Head(up)) \in BOOLEAN
    BY DEF Stops
  <2>3. isr' \in [active : BOOLEAN, stop : BOOLEAN] /\ isr'.active
    BY <2>1, <2>2 DEF Gated
  <2> QED
    BY <1>1, <2>1, <2>3 DEF Gated, Printing
<1>4. CASE LeaveHandler
  <2>1. ~Printing
    BY <1>4 DEF Gated, LeaveHandler
  <2> QED
    BY <1>1, <1>4, <2>1 DEF Gated, LeaveHandler, Printing
<1> QED
  BY <1>2, <1>3, <1>4

\* The main loop prints only between Gate and Ungate.
LEMMA MainGated ==
  ASSUME Gated, Main PROVE Gated'
<1>1. UNCHANGED isr
  BY DEF Main, Boot, Returned, BeginPoll, Echo, BeginCommand, Decide, NotSent,
         Store, LeaveCommand, BeginService, Service, vars, appVars
<1>2. ~isr.active
  BY DEF Main, Boot, Returned, BeginPoll, Echo, BeginCommand, Decide, NotSent,
         Store, LeaveCommand, BeginService, Service, At
<1>3. Printing' => ~irqEnabled'
  <2>1. CASE Boot \/ Echo \/ LeaveCommand \/ Service
    BY <2>1 DEF Boot, Echo, LeaveCommand, Service, Printing
  <2>2. CASE BeginPoll \/ BeginCommand \/ BeginService
    BY <2>2 DEF BeginPoll, BeginCommand, BeginService, Gate
  <2>3. CASE Decide \/ NotSent \/ Store
    BY <2>3 DEF Decide, NotSent, Store, At, Gated, Printing
  <2>4. CASE Returned
    BY <2>4 DEF Returned, At, Printing, vars, appVars
  <2> QED
    BY <2>1, <2>2, <2>3, <2>4 DEF Main
<1> QED
  BY <1>1, <1>2, <1>3 DEF Gated

LEMMA NextGated == Gated /\ [Next]_vars => Gated'
<1> SUFFICES ASSUME Gated, [Next]_vars PROVE Gated'
  OBVIOUS
<1>1. CASE EnterHandler \/ HandlerReads \/ LeaveHandler
  BY <1>1, HandlerGated
<1>2. CASE Main
  BY <1>2, MainGated
<1>3. CASE AppChip
  <2>1. UNCHANGED <<pc, isr, irqEnabled>>
    BY <1>3 DEF AppChip, appVars, TestChipStep, ChipAnswersControl, ChipStep,
                ChipTakesData, ChipStarts, ChipEmitsWork, ChipCompletes,
                ChipStartsTest, ChipAnswersTest
  <2> QED
    BY <2>1 DEF Gated, Printing
<1>4. CASE UNCHANGED vars
  BY <1>4 DEF vars, testVars, nocVars, appVars, Gated, Printing
<1> QED
  BY <1>1, <1>2, <1>3, <1>4 DEF Next

\* The output of the handler and that of the main loop never mix on the UART:
\* every path of uart_app.c that prints runs between output_critical_enter and
\* output_critical_exit, and none leaves the handler in between.
THEOREM OutputsDoNotMix == Spec => []OutputExclusive
<1>1. Gated => OutputExclusive
  BY DEF Gated, OutputExclusive
<1> QED
  BY <1>1, InitGated, NextGated, PTL DEF Spec

(***************************************************************************)
(* The order of requests and reports.  The environment is that of the run  *)
(* uart_shell: an answer raises the interrupt once, at its end, and the    *)
(* user types a command that the shell does not guard only when nothing is *)
(* outstanding.                                                            *)
(***************************************************************************)

PatientUser == Commands \ {"config", "init", "clear"} \subseteq Patient

DownKinds == {"data", "init", "sync", "test"}
ShellDown == [kind : DownKinds, steps : Nat]
ShellUp == [kind : {"work", "complete", "header", "raw"}, seq : Nat]

AppState ==
  [pending : BOOLEAN, kind : {"config", "init", "work", "sync", "test"},
   count : Nat, expected : Nat, ready : BOOLEAN]
LinkTypes ==
  /\ down \in Seq(ShellDown)
  /\ up \in Seq(ShellUp)
  /\ answer \in Seq(ShellUp)
  /\ chip \in [busy : BOOLEAN, left : Nat, time : Nat]
  /\ testing \in BOOLEAN
  /\ testing => chip.busy /\ chip.left > 0
ShellTypes ==
  /\ pc \in {"boot", "returned", "poll", "echoing", "command", "deciding",
             "storing", "leaving", "service", "reporting"}
  /\ app \in AppState
  /\ command \in [name : AllCommands \union {"none"}, frame : ShellDown]
  /\ command.frame.kind = "test" <=> command.name \in {"test", "user test"}
  /\ command.name \in {"config", "user config"} => ~IsControl(command.frame)
  /\ irqPending \in BOOLEAN /\ irqEnabled \in BOOLEAN /\ abandoned \in BOOLEAN
  /\ LinkTypes

\* A response is never both pending and ready; that of WORK has no end but
\* the COMPLETE of the SYNC that closes it.
Responses ==
  /\ app.ready => ~app.pending
  /\ app.kind = "work" => app.expected = 0

\* Main is kept from a due interrupt only where it prints, and what is due
\* there is to read a frame that is still in the FIFO.
Interrupts ==
  /\ pc \in {"poll", "command", "service"} /\ ~isr.active => irqEnabled
  /\ Printing /\ irqPending => up # <<>>

\* Nothing is asked and no interrupt is due.
Calm == Quiet /\ ~irqPending /\ ~isr.active

\* What a patient user has seen is so until the command is decided.
Chosen ==
  pc \in {"command", "deciding"} =>
    /\ command.name \in Commands
    /\ command.name \in Patient => Calm /\ NothingOutstanding

\* The number of frames a response to this request should have, zero where a
\* COMPLETE ends it.
Awaited(frame) == IF frame.kind = "test" THEN frame.steps + 1 ELSE 0

(***************************************************************************)
(* Where the latest request is: not written, in the downlink FIFO, with    *)
(* the chip, or answered and in the uplink FIFO or the handler.            *)
(***************************************************************************)

Unsent == Calm /\ app.count = 0
Asked ==
  /\ up = <<>> /\ ~chip.busy /\ ~irqPending /\ ~isr.active /\ app.count = 0
  /\ \E k \in 1..Len(down) :
       /\ IsControl(down[k]) /\ app.expected = Awaited(down[k])
       /\ \A j \in 1..Len(down) : j # k => ~IsControl(down[j])
Answering ==
  /\ chip.busy /\ ~ControlWaiting /\ ~irqPending /\ ~isr.active
  /\ app.count = 0 /\ Len(up) = Len(answer)
  /\ IF testing THEN chip.left > 0 /\ app.expected = Len(answer) + chip.left
     ELSE app.expected = 0 /\ \A i \in 1..Len(up) : ~IsComplete(up[i])
Answered ==
  /\ ~chip.busy /\ ~ControlWaiting
  /\ app.count + Len(up) = Len(answer)
  /\ IF isr.active THEN ~irqPending /\ (isr.stop <=> up = <<>>)
     ELSE irqPending /\ app.count = 0 /\ up # <<>>
  /\ ~isr.stop =>
       IF app.expected # 0 THEN app.expected = Len(answer)
       ELSE \A i \in 1..Len(up) : IsComplete(up[i]) <=> i = Len(up)

Counted == app.ready => app.count = Len(answer)
Outstanding == Unsent \/ Asked \/ Answering \/ Answered

\* Until a response is given up, the application knows where its request is.
Own ==
  ~abandoned =>
    /\ ~app.pending => Calm /\ Counted
    /\ app.pending => Outstanding
    /\ isr.active => Answered
    /\ pc = "storing" /\ command.name # "config" =>
         /\ app.pending /\ Unsent
         /\ IsControl(command.frame) => app.expected = Awaited(command.frame)

Order == Gated /\ ShellTypes /\ Responses /\ Interrupts /\ Chosen /\ Own

LEMMA InitOrder == Init => Order
<1> SUFFICES ASSUME Init PROVE Order
  OBVIOUS
<1>1. Gated
  BY InitGated
<1>2. ShellTypes
  <2>1. down \in Seq(ShellDown) /\ up \in Seq(ShellUp) /\ answer \in Seq(ShellUp)
    BY DEF Init, NocInit
  <2>2. command \in [name : AllCommands \union {"none"}, frame : ShellDown]
    BY DEF Init, NoCommand, DataFrame, ShellDown, DownKinds
  <2> QED
    BY <2>1, <2>2 DEF Init, NocInit, TestInit, ShellTypes, LinkTypes, NoCommand,
                      DataFrame, ClearedApp, AppState
<1>3. Responses /\ Interrupts /\ Chosen
  BY DEF Init, NocInit, ClearedApp, Responses, Interrupts, Chosen, Printing
<1>4. Own
  BY DEF Init, NocInit, ClearedApp, Own, Calm, Quiet, ControlWaiting, Counted
<1> QED
  BY <1>1, <1>2, <1>3, <1>4 DEF Order

(***************************************************************************)
(* The FIFOs.                                                              *)
(***************************************************************************)

LEMMA Taken ==
  ASSUME NEW S, NEW s \in Seq(S), s # <<>>
  PROVE  /\ Head(s) \in S /\ Head(s) = s[1]
         /\ Tail(s) \in Seq(S) /\ Len(s) \in Nat \ {0}
         /\ Len(Tail(s)) = Len(s) - 1
         /\ \A i \in 1..Len(Tail(s)) : Tail(s)[i] = s[i + 1]
         /\ Tail(s) # s
<1>1. /\ Head(s) \in S /\ Head(s) = s[1]
      /\ Tail(s) \in Seq(S) /\ Len(s) \in Nat \ {0}
      /\ Len(Tail(s)) = Len(s) - 1
      /\ \A i \in 1..Len(Tail(s)) : Tail(s)[i] = s[i + 1]
  OBVIOUS
<1>2. ASSUME Tail(s) = s PROVE FALSE
  <2>1. Len(s) = Len(s) - 1
    BY <1>1, <1>2, Zenon
  <2> QED
    BY <1>1, <2>1
<1> QED
  BY <1>1, <1>2

LEMMA Added ==
  ASSUME NEW S, NEW s \in Seq(S), NEW x \in S
  PROVE  /\ Append(s, x) \in Seq(S) /\ Append(s, x) # <<>>
         /\ Len(s) \in Nat /\ Len(Append(s, x)) = Len(s) + 1
         /\ Append(s, x)[Len(s) + 1] = x
         /\ \A i \in 1..Len(s) : Append(s, x)[i] = s[i]
         /\ Append(s, x) # s
<1>1. /\ Append(s, x) \in Seq(S)
      /\ Len(s) \in Nat /\ Len(Append(s, x)) = Len(s) + 1
      /\ Append(s, x)[Len(s) + 1] = x
      /\ \A i \in 1..Len(s) : Append(s, x)[i] = s[i]
  OBVIOUS
<1>2. Append(s, x) # <<>>
  BY <1>1
<1>3. ASSUME Append(s, x) = s PROVE FALSE
  <2>1. Len(s) = Len(s) + 1
    BY <1>1, <1>3, Zenon
  <2> QED
    BY <1>1, <2>1
<1> QED
  BY <1>1, <1>2, <1>3

LEMMA LinkKept ==
  ASSUME LinkTypes, UNCHANGED <<down, up, answer, chip, testing>> PROVE LinkTypes'
BY DEF LinkTypes

\* A data frame hides no request, wherever it comes or goes.
LEMMA DataIsNoRequest ==
  ASSUME ShellTypes
  PROVE  /\ down # <<>> /\ ~IsControl(Head(down)) /\ down' = Tail(down) =>
              ControlWaiting' = ControlWaiting
         /\ \A frame \in ShellDown :
              ~IsControl(frame) /\ down' = Append(down, frame) =>
                ControlWaiting' = ControlWaiting
<1>0. down \in Seq(ShellDown)
  BY DEF ShellTypes, LinkTypes
<1>1. ASSUME down # <<>>, ~IsControl(Head(down)), down' = Tail(down)
      PROVE  ControlWaiting' <=> ControlWaiting
  <2>1. /\ Head(down) = down[1] /\ Len(down) \in Nat \ {0}
        /\ Len(down') = Len(down) - 1
        /\ \A i \in 1..Len(down') : down'[i] = down[i + 1]
    BY <1>0, <1>1, Taken
  <2>2. ASSUME ControlWaiting PROVE ControlWaiting'
    <3>1. PICK i \in 1..Len(down) : IsControl(down[i])
      BY <2>2 DEF ControlWaiting
    <3>2. i # 1
      BY <1>1, <2>1, <3>1
    <3>3. i - 1 \in 1..Len(down') /\ down'[i - 1] = down[i]
      BY <2>1, <3>2
    <3> QED
      BY <3>1, <3>3 DEF ControlWaiting
  <2>3. ASSUME ControlWaiting' PROVE ControlWaiting
    <3>1. PICK i \in 1..Len(down') : IsControl(down'[i])
      BY <2>3 DEF ControlWaiting
    <3>2. i + 1 \in 1..Len(down) /\ down'[i] = down[i + 1]
      BY <2>1
    <3> QED
      BY <3>1, <3>2 DEF ControlWaiting
  <2> QED
    BY <2>2, <2>3
<1>2. ASSUME NEW frame \in ShellDown, ~IsControl(frame),
             down' = Append(down, frame)
      PROVE  ControlWaiting' <=> ControlWaiting
  <2>2. /\ Len(down) \in Nat /\ Len(down') = Len(down) + 1
        /\ down'[Len(down) + 1] = frame
        /\ \A i \in 1..Len(down) : down'[i] = down[i]
    BY <1>0, <1>2, Added
  <2>3. ASSUME ControlWaiting' PROVE ControlWaiting
    <3>1. PICK i \in 1..Len(down') : IsControl(down'[i])
      BY <2>3 DEF ControlWaiting
    <3>2. i \in 1..Len(down)
      BY <1>2, <2>2, <3>1
    <3> QED
      BY <2>2, <3>1, <3>2 DEF ControlWaiting
  <2>4. ASSUME ControlWaiting PROVE ControlWaiting'
    BY <2>2, <2>4 DEF ControlWaiting
  <2> QED
    BY <2>3, <2>4
<1>3. ControlWaiting \in BOOLEAN /\ ControlWaiting' \in BOOLEAN
  BY DEF ControlWaiting
<1> QED
  BY <1>1, <1>2, <1>3

(***************************************************************************)
(* The chip.                                                               *)
(***************************************************************************)

LEMMA ChipCases ==
  ASSUME ShellTypes, CleanIrq, AppChip
  PROVE  /\ UNCHANGED <<pc, command, typed, app, isr, abandoned, irqEnabled>>
         /\ irqPending' = (irqPending \/ (up' # up /\ ~chip'.busy))
         /\ \/ ChipTakesData /\ UNCHANGED testing
            \/ ChipStarts /\ Head(down).kind # "test" /\ testing = FALSE /\ testing' = FALSE
            \/ ChipEmitsWork /\ testing = FALSE /\ testing' = FALSE
            \/ ChipCompletes /\ testing = FALSE /\ testing' = FALSE
            \/ ChipStartsTest
            \/ ChipAnswersTest
<1>1. UNCHANGED <<pc, command, typed, app, isr, abandoned, irqEnabled>>
  BY DEF AppChip, appVars, TestChipStep, ChipAnswersControl, ChipStep,
         ChipTakesData, ChipStarts, ChipEmitsWork, ChipCompletes,
         ChipStartsTest, ChipAnswersTest
<1>2. irqPending' = (irqPending \/ (up' # up /\ ~chip'.busy))
  BY DEF AppChip
<1>3. ASSUME ChipStarts, ChipAnswersControl PROVE Head(down).kind # "test"
  <2>1. down \in Seq(ShellDown) /\ down # <<>> /\ down' = Tail(down)
    BY <1>3 DEF ChipStarts, ShellTypes, LinkTypes
  <2>2. down' # down
    BY <2>1, Taken
  <2> QED
    BY <1>3, <2>2 DEF ChipAnswersControl
<1>4. ~testing => testing = FALSE
  BY DEF ShellTypes, LinkTypes
<1> QED
  BY <1>1, <1>2, <1>3, <1>4 DEF AppChip, TestChipStep, ChipAnswersControl, ChipStep

\* What emitting a frame does to the uplink FIFO and the answer.
LEMMA Emitted ==
  ASSUME LinkTypes, NEW x \in ShellUp, Emit(x)
  PROVE  /\ up' \in Seq(ShellUp) /\ answer' \in Seq(ShellUp)
         /\ Len(up) \in Nat /\ Len(answer) \in Nat
         /\ Len(up') = Len(up) + 1 /\ Len(answer') = Len(answer) + 1
         /\ up'[Len(up) + 1] = x
         /\ \A i \in 1..Len(up) : up'[i] = up[i]
         /\ up' # up /\ up' # <<>>
<1>1. up \in Seq(ShellUp) /\ answer \in Seq(ShellUp)
  BY DEF LinkTypes
<1>2. up' = Append(up, x) /\ answer' = Append(answer, x)
  BY DEF Emit
<1> QED
  BY <1>1, <1>2, Added

LEMMA ChipTypesHold ==
  ASSUME ShellTypes, CleanIrq, AppChip PROVE ShellTypes'
<1>1. /\ UNCHANGED <<pc, command, app, abandoned, irqEnabled>>
      /\ irqPending' \in BOOLEAN
  BY ChipCases DEF ShellTypes
<1>2. /\ LinkTypes /\ down \in Seq(ShellDown) /\ up \in Seq(ShellUp)
      /\ answer \in Seq(ShellUp) /\ Len(answer) \in Nat
      /\ chip.busy \in BOOLEAN /\ chip.left \in Nat /\ chip.time \in Nat
      /\ chip = [busy |-> chip.busy, left |-> chip.left, time |-> chip.time]
  <2>1. LinkTypes
    BY DEF ShellTypes
  <2> QED
    BY <2>1 DEF LinkTypes
<1>3. down # <<>> => Tail(down) \in Seq(ShellDown) /\ Head(down) \in ShellDown
  BY <1>2, Taken
<1> SUFFICES LinkTypes'
  BY <1>1 DEF ShellTypes
<1>4. CASE ChipTakesData /\ UNCHANGED testing
  BY <1>2, <1>3, <1>4 DEF ChipTakesData, LinkTypes
<1>5. CASE ChipStarts /\ testing' = FALSE
  <2>1. chip' \in [busy : BOOLEAN, left : Nat, time : Nat]
    <3>1. Head(down).steps \in Nat
      BY <1>3, <1>5 DEF ChipStarts, ShellDown
    <3>2. PICK n \in 0..MaxOut :
            chip' = [busy |-> TRUE, left |-> n,
                     time |-> IF Head(down).kind = "init"
                              THEN 0 ELSE chip.time + Head(down).steps]
      BY <1>5 DEF ChipStarts
    <3>3. n \in Nat
      BY NocAssumption
    <3> QED
      BY <1>2, <3>1, <3>2, <3>3
  <2>2. <<>> \in Seq(ShellUp)
    OBVIOUS
  <2>3. testing' = FALSE
    BY <1>5
  <2> QED
    BY <1>2, <1>3, <1>5, <2>1, <2>2, <2>3 DEF ChipStarts, LinkTypes
<1>6. CASE (ChipEmitsWork \/ ChipCompletes) /\ testing' = FALSE
  <2>1. /\ down' = down
        /\ \/ /\ Emit([kind |-> "work", seq |-> Len(answer) + 1])
              /\ chip.left > 0 /\ chip' = [chip EXCEPT !.left = @ - 1]
           \/ /\ Emit([kind |-> "complete", seq |-> Len(answer) + 1])
              /\ chip' = [chip EXCEPT !.busy = FALSE]
    BY <1>6 DEF ChipEmitsWork, ChipCompletes
  <2>2. /\ [kind |-> "work", seq |-> Len(answer) + 1] \in ShellUp
        /\ [kind |-> "complete", seq |-> Len(answer) + 1] \in ShellUp
    BY <1>2 DEF ShellUp
  <2>3. up' \in Seq(ShellUp) /\ answer' \in Seq(ShellUp)
    BY <1>2, <2>1, <2>2, Emitted
  <2>4. chip' \in [busy : BOOLEAN, left : Nat, time : Nat]
    <3>1. CASE chip.left > 0 /\ chip' = [chip EXCEPT !.left = @ - 1]
      BY <1>2, <3>1
    <3>2. CASE chip' = [chip EXCEPT !.busy = FALSE]
      BY <1>2, <3>2
    <3> QED
      BY <2>1, <3>1, <3>2
  <2>5. testing' = FALSE
    BY <1>6
  <2> QED
    BY <1>2, <1>6, <2>1, <2>3, <2>4, <2>5 DEF LinkTypes
<1>7. CASE ChipStartsTest
  <2> DEFINE n == Head(down).steps
             x == [kind |-> "header", seq |-> n]
  <2>1. n \in Nat /\ x \in ShellUp
    BY <1>3, <1>7 DEF ChipStartsTest, ShellDown, ShellUp
  <2>2. /\ up' = Append(up, x) /\ answer' = <<x>> /\ down' = Tail(down)
        /\ chip' = [chip EXCEPT !.busy = n > 0, !.left = n]
        /\ testing' = (n > 0) /\ down # <<>>
    BY <1>7 DEF ChipStartsTest
  <2> HIDE DEF x, n
  <2>3. up' \in Seq(ShellUp) /\ answer' \in Seq(ShellUp)
    BY <1>2, <2>1, <2>2, Added
  <2>4. chip' = [busy |-> n > 0, left |-> n, time |-> chip.time]
    BY <1>2, <2>2
  <2>5. /\ chip' \in [busy : BOOLEAN, left : Nat, time : Nat]
        /\ testing' \in BOOLEAN /\ (testing' => chip'.busy /\ chip'.left > 0)
    <3>1. CASE n > 0
      <4>1. testing' = TRUE /\ chip' = [busy |-> TRUE, left |-> n, time |-> chip.time]
        BY <2>2, <2>4, <3>1, Zenon
      <4> QED
        BY <1>2, <2>1, <3>1, <4>1
    <3>2. CASE ~(n > 0)
      <4>1. (n > 0) = FALSE
        BY <3>2
      <4>2. testing' = FALSE /\ chip' = [busy |-> FALSE, left |-> n, time |-> chip.time]
        BY <2>2, <2>4, <4>1, Zenon
      <4> QED
        BY <1>2, <2>1, <4>2
    <3> QED
      BY <3>1, <3>2
  <2> QED
    BY <1>3, <2>2, <2>3, <2>5 DEF LinkTypes
<1>8. CASE ChipAnswersTest
  <2> DEFINE x == [kind |-> "raw", seq |-> chip.left]
  <2>1. x \in ShellUp /\ Emit(x)
    BY <1>2, <1>8 DEF ChipAnswersTest, ShellUp
  <2>2. /\ down' = down /\ testing' = (chip.left > 1)
        /\ chip' = [chip EXCEPT !.left = @ - 1, !.busy = chip.left > 1]
        /\ chip.left > 0
    BY <1>2, <1>8 DEF ChipAnswersTest, LinkTypes
  <2>3. chip' = [busy |-> chip.left > 1, left |-> chip.left - 1,
                 time |-> chip.time]
    BY <1>2, <2>2
  <2>4. up' \in Seq(ShellUp) /\ answer' \in Seq(ShellUp)
    BY <1>2, <2>1, Emitted
  <2>5. /\ chip' \in [busy : BOOLEAN, left : Nat, time : Nat]
        /\ testing' \in BOOLEAN /\ (testing' => chip'.busy /\ chip'.left > 0)
    <3>1. CASE chip.left > 1
      <4>1. testing' = TRUE /\ chip' = [busy |-> TRUE, left |-> chip.left - 1,
                                        time |-> chip.time]
        BY <2>2, <2>3, <3>1, Zenon
      <4> QED
        BY <1>2, <3>1, <4>1
    <3>2. CASE ~(chip.left > 1)
      <4>1. (chip.left > 1) = FALSE
        BY <3>2
      <4>2. testing' = FALSE /\ chip' = [busy |-> FALSE, left |-> chip.left - 1,
                                         time |-> chip.time]
        BY <2>2, <2>3, <4>1, Zenon
      <4>3. chip.left - 1 \in Nat
        BY <1>2, <2>2
      <4> QED
        BY <1>2, <4>2, <4>3
    <3> QED
      BY <3>1, <3>2
  <2> HIDE DEF x
  <2> QED
    BY <1>2, <2>2, <2>4, <2>5 DEF LinkTypes
<1> QED
  BY <1>4, <1>5, <1>6, <1>7, <1>8, ChipCases

\* The chip has nothing to do but take data frames.
LEMMA CalmChip ==
  ASSUME ShellTypes, CleanIrq, AppChip, Calm
  PROVE  Calm' /\ UNCHANGED <<up, answer, chip, app, isr, command, pc, abandoned>>
<1>1. down \in Seq(ShellDown) /\ (testing => chip.busy)
  BY DEF ShellTypes, LinkTypes
<1>2. down # <<>> => ~IsControl(Head(down))
  <2>1. down # <<>> => Head(down) = down[1] /\ Len(down) \in Nat \ {0}
    BY <1>1, Taken
  <2> QED
    BY <2>1 DEF Calm, Quiet, ControlWaiting
<1>3. ChipTakesData
  BY <1>1, <1>2, ChipCases
     DEF Calm, Quiet, ChipStarts, ChipEmitsWork, ChipCompletes, ChipStartsTest,
         ChipAnswersTest, IsControl
<1>4. ControlWaiting' = ControlWaiting
  BY <1>3, DataIsNoRequest DEF ChipTakesData
<1>5. UNCHANGED <<up, answer, chip, irqPending>>
  BY <1>3 DEF ChipTakesData
<1>6. UNCHANGED <<app, isr, command, pc, abandoned>>
  BY ChipCases
<1> QED
  BY <1>4, <1>5, <1>6 DEF Calm, Quiet

LEMMA UplinkGrows ==
  ASSUME ShellTypes, CleanIrq, AppChip
  PROVE  up' = up \/ (up' # up /\ up' # <<>>)
<1>0. LinkTypes
  BY DEF ShellTypes
<1>1. ASSUME NEW x \in ShellUp, Emit(x) PROVE up' # up /\ up' # <<>>
  BY <1>0, <1>1, Emitted
<1>2. Len(answer) + 1 \in Nat /\ chip.left \in Nat
  BY <1>0 DEF LinkTypes
<1>3. CASE ChipTakesData \/ ChipStarts
  BY <1>3 DEF ChipTakesData, ChipStarts
<1>4. CASE ChipEmitsWork \/ ChipCompletes \/ ChipAnswersTest
  <2>1. /\ [kind |-> "work", seq |-> Len(answer) + 1] \in ShellUp
        /\ [kind |-> "complete", seq |-> Len(answer) + 1] \in ShellUp
        /\ [kind |-> "raw", seq |-> chip.left] \in ShellUp
    BY <1>2 DEF ShellUp
  <2> QED
    BY <1>1, <1>4, <2>1 DEF ChipEmitsWork, ChipCompletes, ChipAnswersTest
<1>5. CASE ChipStartsTest
  <2> DEFINE x == [kind |-> "header", seq |-> Head(down).steps]
  <2>1. down \in Seq(ShellDown) /\ down # <<>> /\ up' = Append(up, x)
    BY <1>0, <1>5 DEF LinkTypes, ChipStartsTest
  <2>2. Head(down) \in ShellDown
    BY <2>1, Taken
  <2>3. x \in ShellUp
    BY <2>2 DEF ShellUp, ShellDown
  <2>4. up \in Seq(ShellUp)
    BY <1>0 DEF LinkTypes
  <2> HIDE DEF x
  <2> QED
    BY <2>1, <2>3, <2>4, Added
<1> QED
  BY <1>3, <1>4, <1>5, ChipCases

\* The chip takes a frame: the request moves up, or is not there.
LEMMA DataTaken ==
  ASSUME Order, CleanIrq, AppChip, ChipTakesData, UNCHANGED testing, ~abandoned,
         app.pending, ~Calm
  PROVE  Outstanding' /\ (isr.active => Answered')
<1>1. down \in Seq(ShellDown) /\ down # <<>> /\ down' = Tail(down)
  BY DEF Order, ShellTypes, LinkTypes, ChipTakesData
<1>2. /\ Head(down) = down[1] /\ Len(down) \in Nat \ {0}
      /\ Len(down') = Len(down) - 1
      /\ \A i \in 1..Len(down') : down'[i] = down[i + 1]
  BY <1>1, Taken
<1>3. ControlWaiting' = ControlWaiting
  BY DataIsNoRequest DEF ChipTakesData, Order
<1>4. UNCHANGED <<up, answer, chip, irqPending, app, isr, testing>>
  BY ChipCases DEF ChipTakesData, Order
<1>5. CASE Asked
  <2>1. PICK k \in 1..Len(down) :
          /\ IsControl(down[k]) /\ app.expected = Awaited(down[k])
          /\ \A j \in 1..Len(down) : j # k => ~IsControl(down[j])
    BY <1>5 DEF Asked
  <2>2. k # 1
    BY <1>2, <2>1 DEF ChipTakesData
  <2>3. k - 1 \in 1..Len(down') /\ down'[k - 1] = down[k]
    BY <1>2, <2>2
  <2>4. ASSUME NEW j \in 1..Len(down'), j # k - 1 PROVE ~IsControl(down'[j])
    <3>1. j + 1 \in 1..Len(down) /\ j + 1 # k
      BY <1>2, <2>4
    <3> QED
      BY <1>2, <2>1, <3>1
  <2>5. Asked'
    BY <1>4, <1>5, <2>1, <2>3, <2>4 DEF Asked
  <2>6. ~isr.active
    BY <1>5 DEF Asked
  <2> QED
    BY <2>5, <2>6 DEF Outstanding
<1>6. CASE Answered
  <2>1. Answered'
    BY <1>3, <1>4, <1>6 DEF Answered
  <2> QED
    BY <2>1 DEF Outstanding
<1>7. Asked \/ Answered
  BY DEF Order, Own, Outstanding, Unsent, Answering, ChipTakesData
<1> QED
  BY <1>5, <1>6, <1>7

LEMMA ControlTaken ==
  ASSUME Order, CleanIrq, AppChip, ChipStarts, Head(down).kind # "test",
         testing = FALSE, testing' = FALSE, ~abandoned
  PROVE  app.pending /\ ~Calm /\ Outstanding' /\ ~isr.active
<1>1. down \in Seq(ShellDown) /\ down # <<>> /\ down' = Tail(down)
  BY DEF Order, ShellTypes, LinkTypes, ChipStarts
<1>2. /\ Head(down) = down[1] /\ Len(down) \in Nat \ {0}
      /\ Len(down') = Len(down) - 1
      /\ \A i \in 1..Len(down') : down'[i] = down[i + 1]
  BY <1>1, Taken
<1>3. ControlWaiting
  BY <1>2 DEF ControlWaiting, ChipStarts
<1>4. ~Calm /\ app.pending /\ Asked
  BY <1>3 DEF Calm, Quiet, Order, Own, Outstanding, Unsent, Answering, Answered
<1>5. PICK k \in 1..Len(down) :
        /\ IsControl(down[k]) /\ app.expected = Awaited(down[k])
        /\ \A j \in 1..Len(down) : j # k => ~IsControl(down[j])
  BY <1>4 DEF Asked
<1>6. k = 1
  BY <1>2, <1>5 DEF ChipStarts
<1>7. app.expected = 0
  BY <1>2, <1>5, <1>6 DEF Awaited
<1>8. ~ControlWaiting'
  <2>1. ASSUME NEW i \in 1..Len(down') PROVE ~IsControl(down'[i])
    <3>1. i + 1 \in 1..Len(down) /\ i + 1 # 1
      BY <1>2
    <3> QED
      BY <1>2, <1>5, <1>6, <3>1
  <2> QED
    BY <2>1 DEF ControlWaiting
<1>9. UNCHANGED <<up, irqPending, app, isr>> /\ answer' = <<>> /\ chip'.busy
  BY ChipCases DEF ChipStarts, Order
<1>10. Answering'
  BY <1>4, <1>7, <1>8, <1>9 DEF Asked, Answering
<1> QED
  BY <1>4, <1>10 DEF Asked, Outstanding

\* A busy chip is at the latest request.
LEMMA BusyIsAnswering ==
  ASSUME Order, chip.busy, ~abandoned
  PROVE  app.pending /\ ~Calm /\ Answering /\ ~isr.active
BY DEF Calm, Quiet, Order, Own, Outstanding, Unsent, Asked, Answering, Answered

LEMMA WorkEmitted ==
  ASSUME Order, CleanIrq, AppChip, ChipEmitsWork, testing = FALSE,
         testing' = FALSE, ~abandoned
  PROVE  app.pending /\ ~Calm /\ Outstanding' /\ ~isr.active
<1> DEFINE x == [kind |-> "work", seq |-> Len(answer) + 1]
<1>1. app.pending /\ ~Calm /\ Answering /\ ~isr.active
  BY BusyIsAnswering DEF ChipEmitsWork
<1>2. LinkTypes /\ Len(answer) + 1 \in Nat
  <2>1. LinkTypes
    BY DEF Order, ShellTypes
  <2> QED
    BY <2>1 DEF LinkTypes
<1>3. x \in ShellUp /\ Emit(x) /\ ~IsComplete(x)
  BY <1>2 DEF ShellUp, ChipEmitsWork, IsComplete
<1> HIDE DEF x
<1>4. /\ Len(up) \in Nat /\ Len(answer) \in Nat
      /\ Len(up') = Len(up) + 1 /\ Len(answer') = Len(answer) + 1
      /\ up'[Len(up) + 1] = x
      /\ \A i \in 1..Len(up) : up'[i] = up[i]
  BY <1>2, <1>3, Emitted
<1>5. chip'.busy /\ UNCHANGED <<app, isr, down>>
  BY ChipCases DEF ChipEmitsWork, Order, ShellTypes, LinkTypes
<1>6. ~irqPending'
  BY <1>1, <1>5, ChipCases DEF Answering, Order
<1>7. ASSUME NEW i \in 1..Len(up') PROVE ~IsComplete(up'[i])
  <2>1. CASE i = Len(up) + 1
    BY <1>3, <1>4, <2>1
  <2>2. CASE i \in 1..Len(up)
    BY <1>1, <1>4, <2>2 DEF Answering
  <2> QED
    BY <1>4, <2>1, <2>2
<1>8. Answering'
  BY <1>1, <1>4, <1>5, <1>6, <1>7 DEF Answering, ControlWaiting
<1> QED
  BY <1>1, <1>8 DEF Outstanding

LEMMA CompleteEmitted ==
  ASSUME Order, CleanIrq, AppChip, ChipCompletes, testing = FALSE,
         testing' = FALSE, ~abandoned
  PROVE  app.pending /\ ~Calm /\ Outstanding' /\ ~isr.active
<1> DEFINE x == [kind |-> "complete", seq |-> Len(answer) + 1]
<1>1. app.pending /\ ~Calm /\ Answering /\ ~isr.active
  BY BusyIsAnswering DEF ChipCompletes
<1>2. LinkTypes /\ Len(answer) + 1 \in Nat
  <2>1. LinkTypes
    BY DEF Order, ShellTypes
  <2> QED
    BY <2>1 DEF LinkTypes
<1>3. x \in ShellUp /\ Emit(x) /\ IsComplete(x)
  BY <1>2 DEF ShellUp, ChipCompletes, IsComplete
<1> HIDE DEF x
<1>4. /\ Len(up) \in Nat /\ Len(answer) \in Nat
      /\ Len(up') = Len(up) + 1 /\ Len(answer') = Len(answer) + 1
      /\ up'[Len(up) + 1] = x
      /\ \A i \in 1..Len(up) : up'[i] = up[i]
      /\ up' # up /\ up' # <<>>
  BY <1>2, <1>3, Emitted
<1>5. ~chip'.busy /\ UNCHANGED <<app, isr, down>>
  BY ChipCases DEF ChipCompletes, Order, ShellTypes, LinkTypes
<1>6. irqPending'
  BY <1>4, <1>5, ChipCases DEF Order
<1>7. ASSUME NEW i \in 1..Len(up') PROVE IsComplete(up'[i]) <=> i = Len(up')
  <2>1. CASE i = Len(up) + 1
    BY <1>3, <1>4, <2>1
  <2>2. CASE i \in 1..Len(up)
    BY <1>1, <1>4, <2>2 DEF Answering
  <2> QED
    BY <1>4, <2>1, <2>2
<1>8. /\ app'.expected = 0 /\ app'.count = 0 /\ Len(up') = Len(answer')
      /\ ~isr'.active /\ ~ControlWaiting'
  BY <1>1, <1>4, <1>5 DEF Answering, ControlWaiting
<1>9. Answered'
  BY <1>4, <1>5, <1>6, <1>7, <1>8 DEF Answered
<1> QED
  BY <1>1, <1>9 DEF Outstanding

LEMMA TestAnswered ==
  ASSUME Order, CleanIrq, AppChip, ChipAnswersTest, ~abandoned
  PROVE  app.pending /\ ~Calm /\ Outstanding' /\ ~isr.active
<1> DEFINE x == [kind |-> "raw", seq |-> chip.left]
<1>1. /\ LinkTypes /\ chip.left \in Nat /\ chip.left > 0 /\ chip.busy /\ testing
      /\ chip = [busy |-> chip.busy, left |-> chip.left, time |-> chip.time]
  <2>1. LinkTypes
    BY DEF Order, ShellTypes
  <2> QED
    BY <2>1 DEF LinkTypes, ChipAnswersTest
<1>2. app.pending /\ ~Calm /\ Answering /\ ~isr.active
  BY <1>1, BusyIsAnswering
<1>3. x \in ShellUp /\ Emit(x)
  BY <1>1 DEF ShellUp, ChipAnswersTest
<1> HIDE DEF x
<1>4. /\ Len(up) \in Nat /\ Len(answer) \in Nat
      /\ Len(up') = Len(up) + 1 /\ Len(answer') = Len(answer) + 1
      /\ up' # up /\ up' # <<>>
  BY <1>1, <1>3, Emitted
<1>5. /\ chip'.busy = (chip.left > 1) /\ chip'.left = chip.left - 1
      /\ testing' = (chip.left > 1) /\ UNCHANGED <<app, isr, down>>
  BY <1>1, ChipCases DEF ChipAnswersTest, Order
<1>6. ~ControlWaiting' /\ app'.expected = Len(answer) + chip.left /\ app'.count = 0
      /\ ~irqPending /\ Len(up) = Len(answer) /\ ~isr'.active
  BY <1>1, <1>2, <1>5 DEF Answering, ControlWaiting
<1>7. CASE chip.left > 1
  <2>1. chip'.busy /\ testing' /\ chip'.left > 0
    <3>1. (chip.left > 1) = TRUE /\ chip.left - 1 > 0
      BY <1>1, <1>7
    <3> QED
      BY <1>5, <3>1, Zenon
  <2>2. ~irqPending'
    BY <1>6, <2>1, ChipCases DEF Order
  <2>3. app'.expected = Len(answer') + chip'.left
    BY <1>1, <1>4, <1>5, <1>6
  <2>4. Answering'
    BY <1>4, <1>6, <2>1, <2>2, <2>3 DEF Answering
  <2> QED
    BY <1>2, <2>4 DEF Outstanding
<1>8. CASE ~(chip.left > 1)
  <2>1. ~chip'.busy /\ chip.left = 1
    <3>1. (chip.left > 1) = FALSE /\ chip.left = 1
      BY <1>1, <1>8
    <3> QED
      BY <1>5, <3>1, Zenon
  <2>2. irqPending'
    BY <1>4, <2>1, ChipCases DEF Order
  <2>3. app'.expected = Len(answer') /\ app'.expected # 0
    BY <1>4, <1>6, <2>1
  <2>4. app'.count + Len(up') = Len(answer')
    BY <1>4, <1>6
  <2>5. Answered'
    BY <1>4, <1>6, <2>1, <2>2, <2>3, <2>4 DEF Answered
  <2> QED
    BY <1>2, <2>5 DEF Outstanding
<1> QED
  BY <1>7, <1>8

LEMMA TestTaken ==
  ASSUME Order, CleanIrq, AppChip, ChipStartsTest, ~abandoned
  PROVE  app.pending /\ ~Calm /\ Outstanding' /\ ~isr.active
<1> DEFINE n == Head(down).steps
           x == [kind |-> "header", seq |-> n]
<1>1. LinkTypes /\ down \in Seq(ShellDown) /\ down # <<>> /\ down' = Tail(down)
  <2>1. LinkTypes
    BY DEF Order, ShellTypes
  <2> QED
    BY <2>1 DEF LinkTypes, ChipStartsTest
<1>2. /\ Head(down) = down[1] /\ Len(down) \in Nat \ {0} /\ Head(down) \in ShellDown
      /\ Len(down') = Len(down) - 1
      /\ \A i \in 1..Len(down') : down'[i] = down[i + 1]
  BY <1>1, Taken
<1>3. IsControl(down[1]) /\ down[1].kind = "test" /\ n \in Nat /\ n = down[1].steps
  BY <1>2 DEF ChipStartsTest, IsControl, ShellDown
<1>4. ControlWaiting
  BY <1>2, <1>3 DEF ControlWaiting
<1>5. ~Calm /\ app.pending /\ Asked
  BY <1>4 DEF Calm, Quiet, Order, Own, Outstanding, Unsent, Answering, Answered
<1>6. PICK k \in 1..Len(down) :
        /\ IsControl(down[k]) /\ app.expected = Awaited(down[k])
        /\ \A j \in 1..Len(down) : j # k => ~IsControl(down[j])
  BY <1>5 DEF Asked
<1>7. k = 1
  BY <1>2, <1>3, <1>6
<1>8. app.expected = n + 1
  BY <1>3, <1>6, <1>7 DEF Awaited
<1>9. ~ControlWaiting'
  <2>1. ASSUME NEW i \in 1..Len(down') PROVE ~IsControl(down'[i])
    <3>1. i + 1 \in 1..Len(down) /\ i + 1 # 1
      BY <1>2
    <3> QED
      BY <1>2, <1>6, <1>7, <3>1
  <2> QED
    BY <2>1 DEF ControlWaiting
<1>10. /\ up' = Append(up, x) /\ answer' = <<x>>
       /\ chip'.busy = (n > 0) /\ chip'.left = n /\ testing' = (n > 0)
       /\ UNCHANGED <<app, isr>>
  <2>1. chip = [busy |-> chip.busy, left |-> chip.left, time |-> chip.time]
    BY <1>1 DEF LinkTypes
  <2>2. UNCHANGED <<app, isr>>
    BY ChipCases DEF Order
  <2> QED
    BY <2>1, <2>2 DEF ChipStartsTest
<1>11. up = <<>> /\ app.count = 0 /\ ~isr.active /\ ~irqPending
  BY <1>5 DEF Asked
<1> HIDE DEF x, n
<1>12. Len(up') = 1 /\ Len(answer') = 1 /\ up' # up /\ up' # <<>>
  BY <1>10, <1>11
<1>13. CASE n > 0
  <2>1. chip'.busy /\ testing' /\ chip'.left > 0
    BY <1>3, <1>10, <1>13
  <2>2. ~irqPending'
    BY <1>11, <2>1, ChipCases DEF Order
  <2>3. app'.expected = Len(answer') + chip'.left
    BY <1>3, <1>8, <1>10, <1>12
  <2>4. Answering'
    BY <1>9, <1>10, <1>11, <1>12, <2>1, <2>2, <2>3 DEF Answering
  <2> QED
    BY <1>5, <1>11, <2>4 DEF Outstanding
<1>14. CASE ~(n > 0)
  <2>1. ~chip'.busy /\ n = 0
    <3>1. (n > 0) = FALSE /\ n = 0
      BY <1>3, <1>14
    <3> QED
      BY <1>10, <3>1, Zenon
  <2>2. irqPending'
    BY <1>12, <2>1, ChipCases DEF Order
  <2>3. app'.expected = Len(answer') /\ app'.expected # 0
    BY <1>8, <1>10, <1>12, <2>1
  <2>4. app'.count + Len(up') = Len(answer')
    BY <1>10, <1>11, <1>12
  <2>5. Answered'
    BY <1>9, <1>10, <1>11, <1>12, <2>1, <2>2, <2>3, <2>4 DEF Answered
  <2> QED
    BY <1>5, <1>11, <2>5 DEF Outstanding
<1> QED
  BY <1>13, <1>14

LEMMA ChipOrder ==
  ASSUME Order, CleanIrq, AppChip PROVE Order'
<1>1. ShellTypes'
  BY ChipTypesHold DEF Order
<1>2. UNCHANGED <<pc, command, app, isr, abandoned, irqEnabled>>
  BY ChipCases DEF Order
<1>3. Gated' /\ Responses'
  BY <1>2 DEF Order, Gated, Printing, Responses
<1>4. irqPending' => irqPending \/ up' # up
  BY ChipCases DEF Order
<1>5. Interrupts'
  BY <1>2, <1>4, UplinkGrows DEF Order, Interrupts, Printing
<1>6. Calm => Calm' /\ UNCHANGED <<up, answer, chip>>
  BY CalmChip DEF Order
<1>7. Chosen'
  BY <1>2, <1>6 DEF Order, Chosen, NothingOutstanding, Calm
<1>8. Own'
  <2> SUFFICES ASSUME ~abandoned PROVE Own'
    BY <1>2 DEF Own
  <2>1. CASE Calm
    <3>1. ~isr.active
      BY <2>1 DEF Calm
    <3>2. Counted => Counted'
      BY <1>2, <1>6, <2>1 DEF Counted
    <3>3. Unsent'<=> app.count = 0
      BY <1>2, <1>6, <2>1 DEF Unsent
    <3>4. app.pending => Unsent
      BY <2>1 DEF Order, Own, Outstanding, Calm, Unsent, Asked, Answering,
                  Answered, Quiet, ControlWaiting
    <3> QED
      BY <1>2, <1>6, <2>1, <3>1, <3>2, <3>3, <3>4
         DEF Order, Own, Outstanding, Unsent
  <2>2. CASE ~Calm
    <3>1. app.pending /\ (pc = "storing" => command.name = "config")
      BY <2>2 DEF Order, Own, Unsent
    <3>2. Outstanding' /\ (isr.active => Answered')
      BY <2>2, <3>1, ChipCases, DataTaken, ControlTaken, WorkEmitted,
         CompleteEmitted, TestTaken, TestAnswered DEF Order
    <3> QED
      BY <1>2, <3>1, <3>2 DEF Own
  <2> QED
    BY <2>1, <2>2
<1> QED
  BY <1>1, <1>3, <1>5, <1>7, <1>8 DEF Order

(***************************************************************************)
(* The handler.                                                            *)
(***************************************************************************)

\* It runs only where main does not print, and not for a patient user's.
LEMMA HandlerRuns ==
  ASSUME Order, (isr.active \/ (irqEnabled /\ irqPending))
  PROVE  /\ ~Printing /\ ~Calm
         /\ pc \in {"command", "deciding"} =>
              command.name \in Commands /\ command.name \notin Patient
BY DEF Order, Gated, Calm, Chosen

LEMMA EnterOrder ==
  ASSUME Order, CleanIrq, EnterHandler PROVE Order'
<1>1. /\ UNCHANGED <<down, up, chip, answer, testing, pc, command, app, abandoned>>
      /\ ~irqPending' /\ irqPending' \in BOOLEAN
      /\ irqEnabled' = FALSE /\ isr'.active /\ ~isr'.stop
      /\ ~isr.active /\ irqEnabled /\ irqPending
  BY DEF EnterHandler, AckIrq
<1>2. Gated'
  BY HandlerGated DEF Order
<1>3. ShellTypes' /\ Responses'
  BY <1>1, LinkKept DEF Order, ShellTypes, Responses
<1>4. Interrupts'
  BY <1>1 DEF Interrupts
<1>5. Chosen'
  BY <1>1, HandlerRuns DEF Chosen
<1>6. Own'
  <2> SUFFICES ASSUME ~abandoned PROVE Own'
    BY <1>1 DEF Own
  <2>1. app.pending /\ Answered /\ pc # "storing"
    BY <1>1, HandlerRuns
       DEF Order, Own, Outstanding, Unsent, Asked, Answering, Calm, Printing
  <2>2. ~isr.stop
    BY <1>1 DEF Order, Gated
  <2>3. Answered'
    BY <1>1, <2>1, <2>2 DEF Answered, ControlWaiting
  <2> QED
    BY <1>1, <2>1, <2>3 DEF Own, Outstanding
<1> QED
  BY <1>2, <1>3, <1>4, <1>5, <1>6 DEF Order

LEMMA AppRecord ==
  ASSUME NEW pending \in BOOLEAN, NEW ready \in BOOLEAN,
         NEW kind \in {"config", "init", "work", "sync", "test"},
         NEW count \in Nat, NEW expected \in Nat, NEW a,
         a = [pending |-> pending, kind |-> kind, count |-> count,
              expected |-> expected, ready |-> ready]
  PROVE  /\ a \in AppState
         /\ a.pending = pending /\ a.kind = kind /\ a.count = count
         /\ a.expected = expected /\ a.ready = ready
BY DEF AppState

LEMMA AppTyped ==
  ASSUME ShellTypes
  PROVE  /\ app.pending \in BOOLEAN /\ app.ready \in BOOLEAN
         /\ app.kind \in {"config", "init", "work", "sync", "test"}
         /\ app.count \in Nat /\ app.expected \in Nat
         /\ app = [pending |-> app.pending, kind |-> app.kind,
                   count |-> app.count, expected |-> app.expected,
                   ready |-> app.ready]
BY DEF ShellTypes, AppState

LEMMA ReadsOrder ==
  ASSUME Order, HandlerReads PROVE Order'
<1>1. /\ isr.active /\ ~isr.stop /\ up # <<>> /\ up' = Tail(up)
      /\ app' = AfterFrame(Head(up)) /\ isr' = [isr EXCEPT !.stop = Stops(Head(up))]
      /\ UNCHANGED <<down, irqPending, irqEnabled, chip, answer, testing, pc,
                     command, abandoned>>
  BY DEF HandlerReads
<1>2. LinkTypes /\ ShellTypes /\ up \in Seq(ShellUp) /\ answer \in Seq(ShellUp)
  <2>1. ShellTypes /\ LinkTypes
    BY DEF Order, ShellTypes
  <2> QED
    BY <2>1 DEF LinkTypes
<1>3. /\ Head(up) = up[1] /\ Len(up) \in Nat \ {0} /\ Len(answer) \in Nat
      /\ up' \in Seq(ShellUp) /\ Len(up') = Len(up) - 1
      /\ \A i \in 1..Len(up') : up'[i] = up[i + 1]
  BY <1>1, <1>2, Taken
<1>4. /\ app'.pending = app.pending /\ app'.kind = app.kind
      /\ app'.ready = app.ready /\ app'.count = app.count + 1
      /\ app'.expected = IF AllExpected(app.count + 1) THEN 0 ELSE app.expected
      /\ app' = [pending |-> app'.pending, kind |-> app'.kind,
                 count |-> app'.count, expected |-> app'.expected,
                 ready |-> app'.ready]
  <2>1. app = [pending |-> app.pending, kind |-> app.kind,
               count |-> app.count, expected |-> app.expected,
               ready |-> app.ready]
    BY <1>2, AppTyped
  <2>2. app' = [app EXCEPT !.count = app.count + 1,
                           !.expected = IF AllExpected(app.count + 1) THEN 0 ELSE @]
    BY <1>1 DEF AfterFrame
  <2> QED
    BY <2>1, <2>2
<1>5. isr'.active /\ (isr'.stop <=> Stops(Head(up)))
  <2>1. Stops(Head(up)) \in BOOLEAN
    BY DEF Stops
  <2> QED
    BY <1>1, <2>1 DEF Order, Gated
<1>6. Gated'
  BY HandlerGated DEF Order
<1>7. app'.count \in Nat /\ app'.expected \in Nat
  BY <1>2, <1>4, AppTyped
<1>8. ShellTypes'
  <2>1. app' \in AppState
    BY <1>2, <1>4, <1>7, AppTyped DEF AppState
  <2>2. LinkTypes'
    BY <1>1, <1>2, <1>3 DEF LinkTypes
  <2> QED
    BY <1>1, <1>2, <2>1, <2>2 DEF ShellTypes
<1>9. Responses' /\ Interrupts' /\ Chosen'
  BY <1>1, <1>4, <1>5, HandlerRuns
     DEF Order, Responses, Interrupts, Chosen, Printing
<1>10. Own'
  <2> SUFFICES ASSUME ~abandoned PROVE Own'
    BY <1>1 DEF Own
  <2>1. app.pending /\ Answered /\ pc # "storing"
    BY <1>1, HandlerRuns DEF Order, Own, Calm, Printing
  <2>2. app'.count + Len(up') = Len(answer')
    BY <1>1, <1>2, <1>3, <1>4, <2>1, AppTyped DEF Answered
  <2>3. Stops(Head(up)) <=> Len(up) = 1
    <3>1. CASE app.expected # 0
      <4>1. AllExpected(app.count + 1) <=> app.count + 1 >= Len(answer)
        BY <1>1, <2>1, <3>1 DEF AllExpected, Answered
      <4>2. app.count + 1 >= Len(answer) <=> Len(up) = 1
        <5>1. app.count + Len(up) = Len(answer) /\ app.count \in Nat
          BY <1>2, <2>1, AppTyped DEF Answered
        <5> QED
          BY <1>3, <5>1
      <4> QED
        BY <3>1, <4>1, <4>2 DEF Stops
    <3>2. CASE app.expected = 0
      <4>1. IsComplete(up[1]) <=> 1 = Len(up)
        BY <1>1, <1>3, <2>1, <3>2 DEF Answered
      <4> QED
        BY <1>3, <3>2, <4>1 DEF Stops, AllExpected
    <3> QED
      BY <3>1, <3>2
  <2>4. isr'.stop <=> up' = <<>>
    BY <1>3, <1>5, <2>3, EmptySeq
  <2>5. ASSUME ~isr'.stop
        PROVE  IF app'.expected # 0 THEN app'.expected = Len(answer')
               ELSE \A i \in 1..Len(up') : IsComplete(up'[i]) <=> i = Len(up')
    <3>1. app'.expected = app.expected
      BY <1>4, <1>5, <2>5 DEF Stops
    <3>2. CASE app.expected # 0
      BY <1>1, <2>1, <3>1, <3>2 DEF Answered
    <3>3. CASE app.expected = 0
      <4>1. \A i \in 1..Len(up) : IsComplete(up[i]) <=> i = Len(up)
        BY <1>1, <2>1, <3>3 DEF Answered
      <4>2. ASSUME NEW i \in 1..Len(up')
            PROVE  IsComplete(up'[i]) <=> i = Len(up')
        <5>1. i + 1 \in 1..Len(up) /\ up'[i] = up[i + 1]
          BY <1>3
        <5> QED
          BY <1>3, <4>1, <5>1
      <4> QED
        BY <3>1, <3>3, <4>2
    <3> QED
      BY <3>2, <3>3
  <2>6. Answered'
    BY <1>1, <1>5, <2>1, <2>2, <2>4, <2>5 DEF Answered, ControlWaiting
  <2> QED
    BY <1>1, <1>4, <2>1, <2>6 DEF Own, Outstanding
<1> QED
  BY <1>6, <1>8, <1>9, <1>10 DEF Order

LEMMA LeaveOrder ==
  ASSUME Order, LeaveHandler PROVE Order'
<1>1. /\ isr.stop /\ isr.active /\ irqEnabled' = TRUE /\ ~isr'.active
      /\ app' = [app EXCEPT !.pending = FALSE, !.ready = TRUE]
      /\ UNCHANGED <<down, up, irqPending, chip, answer, testing, pc, command,
                     abandoned>>
  BY DEF LeaveHandler, Order, Gated
<1>2. Gated'
  BY HandlerGated DEF Order
<1>3. /\ app'.pending = FALSE /\ app'.ready = TRUE /\ app'.kind = app.kind
      /\ app'.count = app.count /\ app'.expected = app.expected
      /\ app' = [pending |-> FALSE, kind |-> app.kind, count |-> app.count,
                 expected |-> app.expected, ready |-> TRUE]
  BY <1>1, AppTyped DEF Order
<1>4. ShellTypes'
  <2>1. app' \in AppState
    BY <1>3, AppTyped DEF Order, AppState
  <2> QED
    BY <1>1, <2>1, LinkKept DEF Order, ShellTypes
<1>5. Responses' /\ Interrupts' /\ Chosen'
  BY <1>1, <1>3, HandlerRuns
     DEF Order, Responses, Interrupts, Chosen, Printing
<1>6. Own'
  <2> SUFFICES ASSUME ~abandoned PROVE Own'
    BY <1>1 DEF Own
  <2>1. Answered /\ pc # "storing"
    BY <1>1, HandlerRuns DEF Order, Own, Printing
  <2>2. up = <<>> /\ app.count = Len(answer)
    BY <1>1, <2>1, AppTyped DEF Order, Answered
  <2>3. Calm' /\ Counted'
    BY <1>1, <1>3, <2>1, <2>2 DEF Answered, Calm, Quiet, ControlWaiting, Counted
  <2> QED
    BY <1>1, <1>3, <2>1, <2>3 DEF Own
<1> QED
  BY <1>2, <1>4, <1>5, <1>6 DEF Order

(***************************************************************************)
(* The main loop.                                                          *)
(***************************************************************************)

LEMMA MainRuns ==
  ASSUME Order, NEW label, At(label)
  PROVE  /\ pc = label /\ ~isr.active
         /\ label \in {"poll", "command", "service"} => ~irqPending
         /\ Printing /\ Quiet => ~irqPending /\ Calm
<1>1. pc = label /\ ~isr.active /\ ~(irqEnabled /\ irqPending)
  BY DEF At
<1>2. label \in {"poll", "command", "service"} => ~irqPending
  BY <1>1 DEF Order, Interrupts
<1>3. Printing /\ Quiet => ~irqPending /\ Calm
  BY <1>1 DEF Order, Interrupts, Quiet, Calm
<1> QED
  BY <1>1, <1>2, <1>3

\* Steps that only open or close a critical section.
LEMMA SectionsOrder ==
  ASSUME Order,
         Boot \/ BeginPoll \/ BeginCommand \/ BeginService \/ LeaveCommand
           \/ NotSent
  PROVE  Order'
<1>1. /\ UNCHANGED <<down, up, irqPending, chip, answer, testing, command, app,
                     isr, abandoned>>
      /\ ~isr.active
      /\ pc' \in {"poll", "returned", "echoing", "deciding", "reporting",
                  "service", "leaving"}
  BY DEF Boot, BeginPoll, BeginCommand, BeginService, LeaveCommand, NotSent,
         NocQuiet, At
<1>2. Gated'
  BY MainGated DEF Order, Main
<1>3. ShellTypes'
  <2>1. irqEnabled' \in BOOLEAN
    BY DEF Boot, BeginPoll, BeginCommand, BeginService, LeaveCommand, NotSent,
           Gate, Ungate, Order, ShellTypes
  <2> QED
    BY <1>1, <2>1, LinkKept DEF Order, ShellTypes
<1>4. Responses'
  BY <1>1 DEF Order, Responses
<1>5. Interrupts'
  <2>1. CASE Boot \/ LeaveCommand
    BY <2>1 DEF Boot, LeaveCommand, Ungate, Interrupts, Printing
  <2>2. CASE BeginPoll \/ BeginCommand \/ BeginService
    <3>1. ~irqPending /\ pc' \in {"echoing", "deciding", "reporting"}
      BY <2>2, MainRuns DEF BeginPoll, BeginCommand, BeginService
    <3> QED
      BY <1>1, <3>1 DEF Interrupts
  <2>3. CASE NotSent
    <3>1. pc = "deciding" /\ pc' = "leaving"
      BY <2>3 DEF NotSent, At
    <3> QED
      BY <1>1, <3>1 DEF Order, Interrupts, Printing
  <2> QED
    BY <2>1, <2>2, <2>3
<1>6. Chosen'
  <2>1. pc' = "deciding" => pc = "command"
    BY DEF Boot, BeginPoll, BeginCommand, BeginService, LeaveCommand, NotSent, At
  <2>2. NothingOutstanding' = NothingOutstanding /\ Calm' = Calm
    BY <1>1 DEF NothingOutstanding, Calm, Quiet, ControlWaiting
  <2> QED
    BY <1>1, <2>1, <2>2 DEF Order, Chosen
<1>7. Own'
  <2>1. /\ Calm' = Calm /\ Counted' = Counted /\ Outstanding' = Outstanding
        /\ Answered' = Answered
    BY <1>1 DEF Calm, Quiet, ControlWaiting, Counted, Outstanding, Unsent,
                Asked, Answering, Answered
  <2> QED
    BY <1>1, <2>1 DEF Order, Own
<1> QED
  BY <1>2, <1>3, <1>4, <1>5, <1>6, <1>7 DEF Order

LEMMA EchoOrder == ASSUME Order, Echo PROVE Order'
<1>1. /\ UNCHANGED <<down, up, irqPending, chip, answer, testing, app, isr, abandoned>>
      /\ ~isr.active /\ irqEnabled' = TRUE /\ pc = "echoing"
      /\ pc' \in {"service", "command"}
  BY DEF Echo, NocQuiet, At, Ungate
<1>2. Gated'
  BY MainGated DEF Order, Main
<1>3. Responses' /\ Interrupts'
  BY <1>1 DEF Order, Responses, Interrupts, Printing
<1>4. \/ pc' = "service" /\ command' = command
      \/ \E name, n, frame :
           /\ name \in Commands /\ n \in 0..TestOut
           /\ IF name = "user control" THEN frame \in UserFrames
              ELSE frame = FrameOf(name, n)
           /\ name \in Patient => NothingOutstanding
           /\ command' = [name |-> name, frame |-> frame]
  BY DEF Echo
<1>5. ShellTypes' /\ (pc' = "command" => Chosen')
  <2>1. CASE pc' = "service" /\ command' = command
    BY <1>1, <2>1, LinkKept DEF Order, ShellTypes
  <2>2. ASSUME NEW name, NEW n, NEW frame,
               name \in Commands, n \in 0..TestOut,
               IF name = "user control" THEN frame \in UserFrames
               ELSE frame = FrameOf(name, n),
               name \in Patient => NothingOutstanding,
               command' = [name |-> name, frame |-> frame]
        PROVE  ShellTypes' /\ Chosen'
    <3>1. name \in AllCommands /\ n \in Nat
      <4>1. TestOut \in Nat /\ Commands \subseteq AllCommands
        BY UartAppAssumption
      <4>2. name \in Commands /\ n \in 0..TestOut
        BY <2>2
      <4> QED
        BY <4>1, <4>2
    <3>2. /\ frame \in [kind : DownKinds, steps : Nat]
          /\ frame.kind = "test" <=> name \in {"test", "user test"}
          /\ name \in {"config", "user config"} => frame.kind = "data"
      <4>1. CASE name = "user control"
        <5>1. frame \in {[kind |-> "init", steps |-> 0], [kind |-> "sync", steps |-> 1]}
          BY <2>2, <4>1 DEF UserFrames
        <5>2. /\ frame \in [kind : DownKinds, steps : Nat]
              /\ frame.kind # "test"
          BY <5>1 DEF DownKinds
        <5> QED
          BY <4>1, <5>2
      <4>2. CASE name # "user control"
        <5>1. frame = FrameOf(name, n)
          BY <2>2, <4>2
        <5>2. CASE name \in {"test", "user test"}
          <6>1. frame = [kind |-> "test", steps |-> n]
            BY <5>1, <5>2 DEF FrameOf, TestRequest
          <6> QED
            BY <3>1, <5>2, <6>1 DEF DownKinds
        <5>3. CASE name = "init"
          BY <5>1, <5>3 DEF FrameOf, DownKinds
        <5>4. CASE name = "sync"
          BY <5>1, <5>4 DEF FrameOf, DownKinds
        <5>5. CASE name \notin {"test", "user test", "init", "sync"}
          <6>1. frame = [kind |-> "data", steps |-> 0]
            BY <5>1, <5>5 DEF FrameOf, DataFrame
          <6> QED
            BY <5>5, <6>1 DEF DownKinds
        <5> QED
          BY <5>2, <5>3, <5>4, <5>5
      <4> QED
        BY <4>1, <4>2
    <3>3. /\ frame.kind = "test" <=> name \in {"test", "user test"}
          /\ name \in {"config", "user config"} => ~IsControl(frame)
      BY <3>2 DEF IsControl
    <3>4. command'.name = name /\ command'.frame = frame
      BY <2>2
    <3>5. command' \in [name : AllCommands \union {"none"}, frame : ShellDown]
      BY <2>2, <3>1, <3>2 DEF ShellDown
    <3>6. ShellTypes'
      BY <1>1, <3>3, <3>4, <3>5, LinkKept DEF Order, ShellTypes
    <3>7. name \in Patient => Calm
      BY <1>1, <2>2, MainRuns DEF NothingOutstanding, Echo, Printing
    <3>8. Chosen'
      BY <1>1, <2>2, <3>4, <3>7
         DEF Chosen, NothingOutstanding, Calm, Quiet, ControlWaiting
    <3> QED
      BY <3>6, <3>8
  <2> QED
    BY <1>4, <2>1, <2>2
<1>6. Chosen'
  BY <1>1, <1>5 DEF Chosen
<1>7. Own'
  <2>1. /\ Calm' = Calm /\ Counted' = Counted /\ Outstanding' = Outstanding
        /\ Answered' = Answered
    BY <1>1 DEF Calm, Quiet, ControlWaiting, Counted, Outstanding, Unsent,
                Asked, Answering, Answered
  <2> QED
    BY <1>1, <2>1 DEF Order, Own
<1> QED
  BY <1>2, <1>3, <1>5, <1>6, <1>7 DEF Order

\* What release_timed_out_response may leave of the state.
LEMMA Released ==
  ASSUME Order, NEW checked \in BOOLEAN, NEW r \in AfterRelease(checked)
  PROVE  /\ r \in AppState
         /\ r.ready => ~r.pending
         /\ r.kind = "work" => r.expected = 0
<1>1. app \in AppState
  BY DEF Order, ShellTypes
<1>2. r = app \/ r = [app EXCEPT !.pending = FALSE, !.expected = 0]
  BY DEF AfterRelease, TimedOut
<1>3. CASE r = app
  BY <1>1, <1>3 DEF Order, Responses
<1>4. CASE r = [app EXCEPT !.pending = FALSE, !.expected = 0]
  BY <1>1, <1>4 DEF AppState
<1> QED
  BY <1>2, <1>3, <1>4

\* What the parts of Order say of a step of main that leaves the link alone.
LEMMA DecidedOrder ==
  ASSUME Order, Gated', ~isr.active, irqEnabled' \in BOOLEAN, abandoned' \in BOOLEAN,
         UNCHANGED <<down, up, irqPending, chip, answer, testing, command, isr>>,
         pc' \in {"leaving", "storing", "poll"}, Printing,
         pc' = "poll" => irqEnabled',
         app' \in AppState,
         Responses', Own'
  PROVE  Order'
<1>1. ShellTypes'
  BY LinkKept DEF Order, ShellTypes
<1>2. Interrupts'
  BY DEF Order, Interrupts
<1>3. Chosen'
  BY DEF Chosen
<1> QED
  BY <1>1, <1>2, <1>3 DEF Order

LEMMA ServiceOrder == ASSUME Order, Service PROVE Order'
<1>1. PICK r \in AfterRelease(TRUE) :
        /\ abandoned' = (abandoned \/ r # app)
        /\ app' = [r EXCEPT !.ready = FALSE]
  BY DEF Service
<1>2. /\ UNCHANGED <<down, up, irqPending, chip, answer, testing, command, isr>>
      /\ ~isr.active /\ irqEnabled' = TRUE /\ pc' = "poll" /\ pc = "reporting"
  BY DEF Service, NocQuiet, At, Ungate
<1>3. /\ r \in AppState
      /\ r.kind = "work" => r.expected = 0
  BY Released
<1>4. /\ app' = [pending |-> r.pending, kind |-> r.kind, count |-> r.count,
                 expected |-> r.expected, ready |-> FALSE]
  BY <1>1, <1>3 DEF AppState
<1>5. app' \in AppState
  BY <1>3, <1>4 DEF AppState
<1>6. Responses'
  BY <1>3, <1>4 DEF Responses
<1>7. Gated'
  BY MainGated DEF Order, Main
<1>8. Own'
  <2> SUFFICES ASSUME ~abandoned' PROVE Own'
    BY DEF Own
  <2>1. ~abandoned /\ r = app
    BY <1>1
  <2>2. /\ app'.pending = app.pending /\ app'.count = app.count
        /\ app'.expected = app.expected /\ ~app'.ready
    BY <1>4, <2>1
  <2>3. Calm' = Calm /\ Outstanding' = Outstanding
    BY <1>2, <2>2 DEF Calm, Quiet, ControlWaiting, Outstanding, Unsent, Asked,
                      Answering, Answered
  <2>4. Counted'
    BY <2>2 DEF Counted
  <2> QED
    BY <1>2, <2>1, <2>2, <2>3, <2>4 DEF Order, Own
<1> QED
  BY <1>1, <1>2, <1>5, <1>6, <1>7, <1>8, DecidedOrder DEF Printing, Order, ShellTypes

\* What `clear' leaves of it.
ClearApp(a) == [ClearedApp EXCEPT !.kind = a.kind]

LEMMA ClearedTyped ==
  ASSUME NEW a \in AppState, NEW b, b = ClearApp(a)
  PROVE  /\ b \in AppState
         /\ b.pending = FALSE /\ b.ready = FALSE /\ b.expected = 0
<1>1. a.kind \in {"config", "init", "work", "sync", "test"}
  BY DEF AppState
<1>2. b = [pending |-> FALSE, kind |-> a.kind, count |-> 0, expected |-> 0,
           ready |-> FALSE]
  BY DEF ClearedApp, ClearApp
<1>3. b \in AppState
  BY <1>1, <1>2 DEF AppState
<1>4. b.pending = FALSE /\ b.ready = FALSE /\ b.expected = 0
  BY <1>2
<1> QED
  BY <1>3, <1>4, Zenon

LEMMA ClearOrder ==
  ASSUME Order, At("deciding"), app' = ClearApp(app),
         abandoned' = (abandoned \/ app.pending \/ app.ready), pc' = "leaving",
         UNCHANGED irqEnabled, NocQuiet, UNCHANGED <<command, typed, isr>>, Gated'
  PROVE  Order'
<1>1. /\ UNCHANGED <<down, up, irqPending, chip, answer, testing>>
      /\ ~isr.active /\ pc = "deciding"
  BY DEF NocQuiet, At
<1>2. irqEnabled \in BOOLEAN /\ abandoned' \in BOOLEAN
  BY DEF Order, ShellTypes
<1>3. /\ app' \in AppState
      /\ app'.pending = FALSE /\ app'.ready = FALSE /\ app'.expected = 0
  BY ClearedTyped DEF Order, ShellTypes
<1>4. Responses'
  BY <1>3 DEF Responses
<1>6. Own'
  <2> SUFFICES ASSUME ~abandoned' PROVE Own'
    BY DEF Own
  <2>1. ~abandoned /\ ~app.pending
    OBVIOUS
  <2>2. Calm /\ Calm' = Calm
    BY <1>1, <2>1 DEF Order, Own, Calm, Quiet, ControlWaiting
  <2> QED
    BY <1>1, <1>3, <2>2 DEF Own, Counted
<1> QED
  BY <1>1, <1>2, <1>3, <1>4, <1>6, DecidedOrder DEF Printing

LEMMA RefuseOrder ==
  ASSUME Order, At("deciding"), NEW r \in AfterRelease(TRUE) \union AfterRelease(FALSE),
         app' = r, abandoned' = (abandoned \/ r # app), pc' = "leaving",
         UNCHANGED irqEnabled, NocQuiet, UNCHANGED <<command, typed, isr>>, Gated'
  PROVE  Order'
<1>1. /\ UNCHANGED <<down, up, irqPending, chip, answer, testing>>
      /\ ~isr.active /\ pc = "deciding" /\ irqEnabled \in BOOLEAN
      /\ abandoned \in BOOLEAN
  BY DEF NocQuiet, At, Order, ShellTypes
<1>2. /\ r \in AppState
      /\ r.ready => ~r.pending
      /\ r.kind = "work" => r.expected = 0
  <2>1. PICK checked \in BOOLEAN : r \in AfterRelease(checked)
    OBVIOUS
  <2> QED
    BY <2>1, Released
<1>3. Responses'
  BY <1>2 DEF Responses
<1>4. Own'
  <2> SUFFICES ASSUME ~abandoned' PROVE Own'
    BY DEF Own
  <2>1. ~abandoned /\ UNCHANGED app
    OBVIOUS
  <2>2. Calm' = Calm /\ Outstanding' = Outstanding /\ Counted' = Counted
    BY <1>1, <2>1 DEF Calm, Quiet, ControlWaiting, Outstanding, Unsent, Asked,
                      Answering, Answered, Counted
  <2> QED
    BY <1>1, <2>1, <2>2 DEF Order, Own
<1> QED
  BY <1>1, <1>2, <1>3, <1>4, DecidedOrder DEF Printing

\* The state that begin_response leaves, for each command.
OpenWork(a) == a.kind = "work" => a.expected = 0
LEMMA Begins ==
  ASSUME Order, NEW r \in AppState, OpenWork(r),
         command.name \in AllCommands, command.name # "clear",
         command.name # "config", NEW b, b = AfterBegin(r)
  PROVE  \/ b = r /\ r.pending /\ r.expected = Awaited(command.frame)
         \/ \E kind \in {"init", "work", "sync", "test"}, expected \in Nat :
              /\ b = [pending |-> TRUE, kind |-> kind, count |-> 0,
                      expected |-> expected, ready |-> FALSE]
              /\ kind = "work" => expected = 0
              /\ IsControl(command.frame) => expected = Awaited(command.frame)
<1> DEFINE name == command.name
           n == command.frame.steps
<1>0. n \in Nat
  <2>1. ShellTypes
    BY DEF Order
  <2>2. command.frame \in ShellDown
    BY <2>1 DEF ShellTypes
  <2> QED
    BY <2>2 DEF ShellDown
<1>1. /\ command.frame.kind = "test" <=> name \in {"test", "user test"}
      /\ name \in {"config", "user config"} => ~IsControl(command.frame)
  BY DEF Order, ShellTypes
<1>2. Awaited(command.frame) = IF name \in {"test", "user test"} THEN n + 1 ELSE 0
  BY <1>1 DEF Awaited
<1>3. CASE ClosesWork(r)
  <2>1. b = r
    BY <1>3 DEF AfterBegin
  <2>2. r.expected = Awaited(command.frame)
    BY <1>2, <1>3 DEF OpenWork, ClosesWork
  <2> QED
    BY <1>3, <2>1, <2>2 DEF ClosesWork
<1>4. CASE name \in {"init", "work", "sync"} /\ ~ClosesWork(r)
  <2>1. b = [pending |-> TRUE, kind |-> name, count |-> 0, expected |-> 0,
             ready |-> FALSE]
    BY <1>4 DEF AfterBegin, Begun
  <2> QED
    BY <1>2, <1>4, <2>1
<1>5. CASE name \in {"test", "user test"}
  <2>1. PICK kind \in {"test", "init"} :
          b = [pending |-> TRUE, kind |-> kind, count |-> 0, expected |-> n + 1,
               ready |-> FALSE]
    BY <1>5 DEF AfterBegin, Begun, ClosesWork
  <2>2. n + 1 \in Nat
    BY <1>0
  <2> QED
    BY <1>2, <1>5, <2>1, <2>2
<1>6. CASE name \in {"user work", "user control"}
  <2>1. PICK kind \in {"work", "init"} :
          b = [pending |-> TRUE, kind |-> kind, count |-> 0, expected |-> 0,
               ready |-> FALSE]
    BY <1>6 DEF AfterBegin, Begun, ClosesWork
  <2> QED
    BY <1>2, <1>6, <2>1
<1>7. CASE name = "user config"
  <2>1. b = [pending |-> TRUE, kind |-> "init", count |-> 0, expected |-> 1,
             ready |-> FALSE]
    BY <1>7 DEF AfterBegin, Begun, ClosesWork
  <2> QED
    BY <1>1, <1>7, <2>1
<1> QED
  BY <1>3, <1>4, <1>5, <1>6, <1>7 DEF AllCommands

LEMMA BeginOrder ==
  ASSUME Order, PatientUser, At("deciding"), command.name # "clear",
         NEW checked \in BOOLEAN, NEW r \in AfterRelease(checked), ~Busy(r),
         app' = AfterBegin(r),
         abandoned' = (~(Quiet /\ ~r.pending /\ ~r.ready)
                         /\ (abandoned \/ r # app)),
         pc' = "storing", UNCHANGED irqEnabled, NocQuiet,
         UNCHANGED <<command, typed, isr>>, Gated'
  PROVE  Order'
<1>1. /\ UNCHANGED <<down, up, irqPending, chip, answer, testing>>
      /\ ~isr.active /\ pc = "deciding" /\ irqEnabled \in BOOLEAN
      /\ Quiet => Calm
  BY MainRuns DEF NocQuiet, At, Order, ShellTypes, Printing
<1>2. command.name \in Commands /\ command.name \in AllCommands
  BY <1>1, UartAppAssumption DEF Order, Chosen
<1>3. /\ r \in AppState
      /\ r.ready => ~r.pending
      /\ r.kind = "work" => r.expected = 0
  BY Released
<1>4. /\ app' \in AppState
      /\ app'.ready => ~app'.pending
      /\ app'.kind = "work" => app'.expected = 0
      /\ command.name = "config" => app' = r
      /\ command.name # "config" =>
           /\ app'.pending
           /\ IsControl(command.frame) => app'.expected = Awaited(command.frame)
           /\ app'.count = 0 \/ (r.pending /\ app' = r)
  <2>1. CASE command.name = "config"
    <3>1. app' = r
      BY <2>1 DEF AfterBegin
    <3> QED
      BY <1>3, <2>1, <3>1
  <2>2. CASE command.name # "config" /\ app' = r /\ r.pending
             /\ r.expected = Awaited(command.frame)
    BY <1>3, <2>2
  <2>3. ASSUME NEW kind \in {"init", "work", "sync", "test"}, NEW expected \in Nat,
               app' = [pending |-> TRUE, kind |-> kind, count |-> 0,
                       expected |-> expected, ready |-> FALSE],
               kind = "work" => expected = 0,
               IsControl(command.frame) => expected = Awaited(command.frame),
               command.name # "config"
        PROVE  /\ app' \in AppState
               /\ app'.ready => ~app'.pending
               /\ app'.kind = "work" => app'.expected = 0
               /\ app'.pending
               /\ IsControl(command.frame) => app'.expected = Awaited(command.frame)
               /\ app'.count = 0
    <3>1. /\ app' \in AppState
          /\ app'.pending = TRUE /\ app'.kind = kind /\ app'.count = 0
          /\ app'.expected = expected /\ app'.ready = FALSE
      BY <2>3 DEF AppState
    <3> QED
      BY <2>3, <3>1
  <2> QED
    BY <1>2, <1>3, <2>1, <2>2, <2>3, Begins DEF OpenWork
<1>5. Responses'
  BY <1>4 DEF Responses
<1>6. Own'
  <2> SUFFICES ASSUME ~abandoned' PROVE Own'
    BY DEF Own
  <2>1. \/ Quiet /\ ~r.pending /\ ~r.ready
        \/ ~abandoned /\ r = app
    OBVIOUS
  <2>2. Calm' = Calm
    BY <1>1 DEF Calm, Quiet, ControlWaiting
  <2>3. CASE command.name = "config" /\ Quiet /\ ~r.pending /\ ~r.ready
    BY <1>1, <1>4, <2>2, <2>3 DEF Own, Counted
  <2>4. CASE command.name = "config" /\ ~abandoned /\ r = app
    <3>1. UNCHANGED app
      BY <1>4, <2>4
    <3>2. Outstanding' = Outstanding /\ Counted' = Counted
      BY <1>1, <3>1 DEF Calm, Quiet, ControlWaiting, Outstanding, Unsent, Asked,
                        Answering, Answered, Counted
    <3> QED
      BY <1>1, <2>2, <2>4, <3>1, <3>2 DEF Order, Own
  <2>5. CASE command.name # "config"
    <3>1. Calm
      <4>1. CASE command.name \in Patient
        BY <1>1, <4>1 DEF Order, Chosen
      <4>2. CASE command.name \notin Patient
        <5>1. command.name = "init"
          BY <1>2, <2>5, <4>2 DEF PatientUser
        <5>2. ~r.pending
          BY <5>1 DEF Busy
        <5> QED
          BY <1>1, <2>1, <5>2 DEF Order, Own
      <4> QED
        BY <4>1, <4>2
    <3>2. app'.count = 0
      <4>1. CASE r.pending /\ app' = r
        <5>1. ~abandoned /\ r = app
          BY <2>1, <4>1
        <5>2. Unsent
          BY <3>1, <4>1, <5>1
             DEF Order, Own, Outstanding, Calm, Unsent, Asked, Answering,
                 Answered, Quiet, ControlWaiting
        <5> QED
          BY <4>1, <5>1, <5>2 DEF Unsent
      <4> QED
        BY <1>4, <2>5, <4>1
    <3>3. Unsent'
      BY <2>2, <3>1, <3>2 DEF Unsent
    <3> QED
      BY <1>1, <1>4, <2>5, <3>3 DEF Own, Outstanding
  <2> QED
    BY <2>1, <2>3, <2>4, <2>5
<1> QED
  BY <1>1, <1>4, <1>5, <1>6, DecidedOrder DEF Printing

LEMMA DecideOrder == ASSUME Order, PatientUser, Decide PROVE Order'
<1>1. Gated'
  BY MainGated DEF Order, Main
<1>2. CASE command.name = "clear" /\ app' = [ClearedApp EXCEPT !.kind = app.kind]
           /\ abandoned' = (abandoned \/ app.pending \/ app.ready)
           /\ pc' = "leaving"
  BY <1>1, <1>2, ClearOrder DEF Decide, ClearApp
<1>3. CASE command.name # "clear"
           /\ \E released \in AfterRelease(command.name \in {"init", "sync"}) :
             \/ /\ Busy(released)
                /\ app' = released
                /\ abandoned' = (abandoned \/ released # app)
                /\ pc' = "leaving"
             \/ /\ ~Busy(released)
                /\ app' = AfterBegin(released)
                /\ abandoned' = (~(Quiet /\ ~released.pending /\ ~released.ready)
                                    /\ (abandoned \/ released # app))
                /\ pc' = "storing"
  <2>1. PICK checked \in BOOLEAN : checked = (command.name \in {"init", "sync"})
    <3>1. (command.name \in {"init", "sync"}) \in BOOLEAN
      OBVIOUS
    <3> QED
      BY <3>1, Zenon
  <2>2. PICK r \in AfterRelease(checked) :
             \/ /\ Busy(r)
                /\ app' = r
                /\ abandoned' = (abandoned \/ r # app)
                /\ pc' = "leaving"
             \/ /\ ~Busy(r)
                /\ app' = AfterBegin(r)
                /\ abandoned' = (~(Quiet /\ ~r.pending /\ ~r.ready)
                                    /\ (abandoned \/ r # app))
                /\ pc' = "storing"
    BY <1>3, <2>1, Zenon
  <2>3. r \in AfterRelease(TRUE) \union AfterRelease(FALSE)
    OBVIOUS
  <2>4. At("deciding") /\ UNCHANGED irqEnabled /\ NocQuiet /\ UNCHANGED <<command, typed, isr>>
    BY DEF Decide
  <2> QED
    BY <1>1, <1>3, <2>2, <2>3, <2>4, RefuseOrder, BeginOrder
<1> QED
  BY <1>2, <1>3 DEF Decide

LEMMA OrderKept == ASSUME Order, UNCHANGED vars PROVE Order'
<1>1. UNCHANGED <<down, up, irqPending, irqEnabled, chip, answer, testing, pc,
                  command, app, isr, abandoned>>
  BY DEF vars, testVars, nocVars, appVars
<1>2. Gated' /\ ShellTypes' /\ Responses' /\ Interrupts'
  BY <1>1, LinkKept, ZenonT(90) DEF Order, Gated, ShellTypes, Responses, Interrupts, Printing
<1>3. NothingOutstanding' = NothingOutstanding /\ Calm' = Calm
      /\ Counted' = Counted /\ Outstanding' = Outstanding /\ Answered' = Answered
  BY <1>1 DEF NothingOutstanding, Calm, Quiet, ControlWaiting, Counted, Outstanding,
              Unsent, Asked, Answering, Answered
<1>4. Chosen'
  BY <1>1, <1>3 DEF Order, Chosen
<1>5. Own'
  BY <1>1, <1>3 DEF Order, Own, Unsent
<1> QED
  BY <1>2, <1>4, <1>5 DEF Order

\* A request that is stored is the only one; a data frame changes nothing.
LEMMA StoreOrder == ASSUME Order, Store PROVE Order'
<1>1. /\ UNCHANGED <<up, irqPending, irqEnabled, chip, answer, testing, command,
                     app, isr, abandoned>>
      /\ ~isr.active /\ pc = "storing" /\ pc' = "leaving"
      /\ down' = Append(down, command.frame)
  BY DEF Store, WriteFrame, At
<1>2. /\ down \in Seq(ShellDown) /\ command.frame \in ShellDown
      /\ LinkTypes
  BY DEF Order, ShellTypes, LinkTypes
<1>3. /\ down' \in Seq(ShellDown) /\ Len(down) \in Nat
      /\ Len(down') = Len(down) + 1 /\ down'[Len(down) + 1] = command.frame
      /\ \A i \in 1..Len(down) : down'[i] = down[i]
  BY <1>1, <1>2, Added
<1>4. Gated'
  BY MainGated DEF Order, Main
<1>5. ShellTypes'
  <2>1. LinkTypes'
    BY <1>1, <1>2, <1>3 DEF LinkTypes
  <2> QED
    BY <1>1, <2>1 DEF Order, ShellTypes
<1>6. Responses' /\ Interrupts' /\ Chosen'
  BY <1>1 DEF Order, Responses, Interrupts, Chosen, Printing
<1>7. Own'
  <2> SUFFICES ASSUME ~abandoned PROVE Own'
    BY <1>1 DEF Own
  <2>1. CASE ~IsControl(command.frame)
    <3>1. ControlWaiting' = ControlWaiting
      BY <1>1, <1>2, <2>1, DataIsNoRequest DEF Order
    <3>2. Calm' = Calm /\ Unsent' = Unsent /\ Answering' = Answering
          /\ Answered' = Answered /\ Counted' = Counted
      BY <1>1, <3>1 DEF Calm, Quiet, Unsent, Answering, Answered, Counted
    <3>3. ASSUME Asked PROVE Asked'
      <4>1. PICK k \in 1..Len(down) :
              /\ IsControl(down[k]) /\ app.expected = Awaited(down[k])
              /\ \A j \in 1..Len(down) : j # k => ~IsControl(down[j])
        BY <3>3 DEF Asked
      <4>2. k \in 1..Len(down') /\ down'[k] = down[k]
        BY <1>3
      <4>3. ASSUME NEW j \in 1..Len(down'), j # k PROVE ~IsControl(down'[j])
        <5>1. CASE j \in 1..Len(down)
          BY <1>3, <4>1, <4>3, <5>1
        <5>2. CASE j = Len(down) + 1
          BY <1>3, <2>1, <5>2
        <5> QED
          BY <1>3, <5>1, <5>2
      <4> QED
        BY <1>1, <3>3, <4>1, <4>2, <4>3 DEF Asked
    <3> QED
      BY <1>1, <3>2, <3>3 DEF Order, Own, Outstanding
  <2>2. CASE IsControl(command.frame)
    <3>1. command.name # "config"
      BY <2>2 DEF Order, ShellTypes
    <3>2. /\ app.pending /\ Unsent
          /\ app.expected = Awaited(command.frame)
      BY <1>1, <2>2, <3>1 DEF Order, Own
    <3>3. \A j \in 1..Len(down) : ~IsControl(down[j])
      BY <3>2 DEF Unsent, Calm, Quiet, ControlWaiting
    <3>4. Len(down) + 1 \in 1..Len(down')
      BY <1>3
    <3>5. \A j \in 1..Len(down') : j # Len(down) + 1 => ~IsControl(down'[j])
      BY <1>3, <3>3
    <3>6. Asked'
      <4>1. up = <<>> /\ ~chip.busy /\ ~irqPending /\ ~isr.active /\ app.count = 0
        BY <3>2 DEF Unsent, Calm, Quiet
      <4>2. IsControl(down'[Len(down) + 1])
            /\ app.expected = Awaited(down'[Len(down) + 1])
        BY <1>3, <2>2, <3>2
      <4> QED
        BY <1>1, <3>4, <3>5, <4>1, <4>2 DEF Asked
    <3> QED
      BY <1>1, <3>2, <3>6 DEF Own, Outstanding
  <2> QED
    BY <2>1, <2>2
<1> QED
  BY <1>4, <1>5, <1>6, <1>7 DEF Order

LEMMA NextOrder ==
  ASSUME CleanIrq, PatientUser, Order, [Next]_vars PROVE Order'
<1>1. CASE EnterHandler
  BY <1>1, EnterOrder
<1>2. CASE HandlerReads
  BY <1>2, ReadsOrder
<1>3. CASE LeaveHandler
  BY <1>3, LeaveOrder
<1>4. CASE Main
  <2>1. CASE Boot \/ BeginPoll \/ BeginCommand \/ BeginService \/ LeaveCommand
               \/ NotSent
    BY <2>1, SectionsOrder
  <2>2. CASE Echo
    BY <2>2, EchoOrder
  <2>3. CASE Decide
    BY <2>3, DecideOrder
  <2>4. CASE Store
    BY <2>4, StoreOrder
  <2>5. CASE Service
    BY <2>5, ServiceOrder
  <2>6. CASE Returned
    BY <2>6, OrderKept DEF Returned
  <2> QED
    BY <1>4, <2>1, <2>2, <2>3, <2>4, <2>5, <2>6 DEF Main
<1>5. CASE AppChip
  BY <1>5, ChipOrder
<1>6. CASE UNCHANGED vars
  BY <1>6, OrderKept
<1> QED
  BY <1>1, <1>2, <1>3, <1>4, <1>5, <1>6 DEF Next

\* Every report counts exactly the frames of the answer to the latest request,
\* and is made when no more will come: uart_app.c counts frames in the handler
\* and reports from the main loop, which the answer's last frame separates.
THEOREM ReportsAreOwn ==
  ASSUME CleanIrq, PatientUser PROVE Spec => ReportIsOwn
<1>1. Order /\ [Next]_vars => Order'
  BY NextOrder
<1>2. Order => (pc = "reporting" /\ pc' = "poll" /\ app.ready
                  => (Quiet /\ app.count = Len(answer)) \/ abandoned)
  BY DEF Order, Responses, Own, Calm, Counted
<1> QED
  BY <1>1, <1>2, InitOrder, PTL DEF Spec, ReportIsOwn

\* An INIT or SYNC goes to the chip when it has nothing left to do or to say.
\* response_busy sees to that for an INIT, whenever it is typed; for a SYNC it
\* takes a patient user, as a SYNC that closes a WORK response begins none.
THEOREM ControlsAreOrdered ==
  ASSUME CleanIrq, PatientUser PROVE Spec => ControlIsOrdered
<1>1. Order /\ [Next]_vars => Order'
  BY NextOrder
<1>2. Order => (pc = "storing" /\ pc' = "leaving"
                    /\ command.name \in {"init", "sync"}
                  => Quiet \/ abandoned)
  BY DEF Order, Own, Unsent, Calm
<1> QED
  BY <1>1, <1>2, InitOrder, PTL DEF Spec, ControlIsOrdered
=============================================================================
