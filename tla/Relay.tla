------------------------------- MODULE Relay -------------------------------
(***************************************************************************)
(* application/baremetal/relay/main.c: a bridge between a host's UART and  *)
(* the NoC.  The UART interrupt (level 2) fills a ring buffer, the main    *)
(* loop cuts it into frames and writes them to the NoC, and the NoC        *)
(* interrupt (level 1) forwards answers to the host.  After a SYNC the     *)
(* main loop waits for the handler.                                        *)
(*                                                                         *)
(* Composed with Noc and its chip.  The ring buffer is the FIFO of bytes   *)
(* that RingBuf implements (ByteQueue).  The driver's reads never fail, so *)
(* noc_error stays clear; a read of the empty uplink FIFO waits for a      *)
(* frame.                                                                  *)
(***************************************************************************)
EXTENDS TestChip

CONSTANTS
  WordBytes,     \* bytes of a NoC word on the UART: half a RELAY_FRAME_BYTES
  HighFirst,     \* RELAY_HOST_HIGH_FIRST
  RxCapacity,    \* bytes the ring buffer holds: UART_RX_STORAGE_SIZE - 1
  FifoDepth,     \* bytes the receive FIFO of the UART holds
  ConfigFrames,  \* frames of the static configuration
  InitOut,       \* most work frames in the answer to INIT
  TestOut,       \* most frames after the header of a test response
  Pipelined,     \* answers during which the host may send more data frames
  MaxFrames      \* bound: frames the host sends

ASSUME RelayAssumption ==
  /\ WordBytes \in Nat \ {0}
  /\ HighFirst \in BOOLEAN
  /\ RxCapacity \in Nat \ {0}
  /\ FifoDepth \in Nat \ {0}
  /\ {ConfigFrames, InitOut, TestOut, MaxFrames} \subseteq Nat
  /\ Pipelined \subseteq {"init", "sync", "test"}

VARIABLES
  pc,       \* where the main program is
  sent,     \* configuration frames sent
  frame,    \* frame_bytes[0 .. frame_byte_index - 1]
  kind,     \* what the frame in frame_bytes looks like
  rx,       \* uart_rx_buffer
  overflow, \* uart_rx_overflow
  finished, \* timestep_finished
  isr,      \* locals of the NoC handler
  fifo,     \* the receive FIFO of the UART
  line,     \* the bytes on the line to the host
  host,     \* the host: kinds of the frames sent, what is left of the last
            \* one, and the kind of the answer it waits for
  written,  \* history: the host's frames written to the NoC
  lost,     \* history: has a byte from the host been lost?
  reported  \* history: has text been printed on the host's line?

relayVars == <<pc, sent, frame, kind, rx, overflow, finished, isr>>
hostVars == <<fifo, line, host>>
history == <<written, lost, reported>>
vars == <<testVars, relayVars, hostVars, history>>

FrameBytes == 2 * WordBytes
Kinds == {"data", "init", "sync", "test"}
NoAnswer == "none"

\* The bytes of a word of a frame, most significant first (encode_be_u32), in
\* the order of the words on the host's line (encode_host_frame).
Word(whose, half) ==
  [k \in 1..WordBytes |-> [whose |-> whose, half |-> half, at |-> k]]
WireBytes(whose) ==
  IF HighFirst THEN Word(whose, "high") \o Word(whose, "low")
  ELSE Word(whose, "low") \o Word(whose, "high")

\* A message of the debug log, which goes to the same UART.
Text == [whose |-> [kind |-> "text", seq |-> 0], half |-> "text", at |-> 0]

HighFirstWords(bytes) ==
  [high |-> SubSeq(bytes, 1, WordBytes),
   low |-> SubSeq(bytes, WordBytes + 1, FrameBytes)]
\* decode_host_frame: the two words of FrameBytes bytes.
Decode(bytes) ==
  LET first == SubSeq(bytes, 1, WordBytes)
      second == SubSeq(bytes, WordBytes + 1, FrameBytes)
  IN  IF HighFirst THEN [high |-> first, low |-> second]
      ELSE [high |-> second, low |-> first]
Frame(whose) == [high |-> Word(whose, "high"), low |-> Word(whose, "low")]

\* The kind of a frame is in the first byte of its high word.  Any other byte
\* in that place may look like any kind.
ShowsKind(words) == Head(words.high).half = "high" /\ Head(words.high).at = 1
LooksLike(words) ==
  IF ShowsKind(words) THEN {host.sent[Head(words.high).whose]} ELSE Kinds

NoHandler == [active |-> FALSE, done |-> FALSE, test |-> FALSE, remaining |-> 0]

Init ==
  /\ NocInit
  /\ pc = "boot"
  /\ sent = 0
  /\ frame = <<>>
  /\ kind = "data"
  /\ rx = <<>>
  /\ overflow = FALSE
  /\ finished = FALSE
  /\ isr = NoHandler
  /\ TestInit
  /\ fifo = <<>>
  /\ line = <<>>
  /\ host = [sent |-> <<>>, left |-> <<>>, awaits |-> NoAnswer]
  /\ written = <<>>
  /\ lost = FALSE
  /\ reported = FALSE

(***************************************************************************)
(* The UART interrupt.  It preempts the NoC handler; only the critical     *)
(* section around the NoC's two-word stores masks it.                      *)
(***************************************************************************)

Masked == pc \in {"boot", "configuring", "storing", "returned"}

\* UART0_IRQHandler drains the UART's FIFO into the ring buffer; bytes that
\* find it full are dropped and flagged.
UartInterrupt ==
  /\ ~Masked
  /\ fifo # <<>>
  /\ LET room == RxCapacity - Len(rx)
         fits == IF Len(fifo) <= room THEN Len(fifo) ELSE room
     IN  /\ rx' = rx \o SubSeq(fifo, 1, fits)
         /\ overflow' = (overflow \/ Len(fifo) > fits)
         /\ lost' = (lost \/ Len(fifo) > fits)
  /\ fifo' = <<>>
  /\ UNCHANGED <<testVars, pc, sent, frame, kind, finished, isr, line, host,
                 written, reported>>

(***************************************************************************)
(* The NoC interrupt: paicore_noc_handler.                                 *)
(***************************************************************************)

EnterHandler ==
  /\ ~Masked
  /\ ~isr.active
  /\ irqEnabled
  /\ irqPending
  /\ AckIrq
  /\ irqEnabled' = FALSE
  /\ isr' = [NoHandler EXCEPT !.active = TRUE]
  /\ UNCHANGED <<down, up, chip, answer, pc, sent, frame, kind, rx, overflow,
                 finished, testing, hostVars, history>>

\* The locals after a frame: a COMPLETE ends the loop, a test response ends
\* after the number of frames its header announces.
AfterFrameCountingHeader(f) ==
  LET test == isr.test \/ f.kind = "header"
      remaining == IF f.kind = "header" THEN f.seq ELSE isr.remaining
  IN  [active |-> TRUE,
       done |-> IsComplete(f) \/ (test /\ remaining <= 1),
       test |-> test,
       remaining |-> IF test /\ remaining > 0 THEN remaining - 1 ELSE remaining]
AfterFrame(f) ==
  LET test == isr.test \/ f.kind = "header"
      remaining == IF f.kind = "header" THEN f.seq ELSE isr.remaining
  IN  [active |-> TRUE,
       done |-> IsComplete(f) \/ (test /\ remaining = 0),
       test |-> test,
       remaining |-> IF test /\ remaining > 0 THEN remaining - 1 ELSE remaining]

\* uart_write waits for room on a line that the host empties.
HandlerForwards ==
  /\ isr.active
  /\ ~isr.done
  /\ up # <<>>
  /\ up' = Tail(up)
  /\ line' = line \o WireBytes(Head(up))
  /\ isr' = AfterFrame(Head(up))
  /\ UNCHANGED <<down, irqPending, irqEnabled, chip, answer, pc, sent, frame,
                 kind, rx, overflow, finished, testing, fifo, host, history>>

LeaveHandlerUnfinished ==
  /\ isr.done
  /\ AckIrq
  /\ irqEnabled' = TRUE
  /\ isr' = NoHandler
  /\ UNCHANGED <<down, up, chip, answer, pc, sent, frame, kind, rx, overflow,
                 finished, testing, hostVars, history>>
LeaveHandlerDisabled ==
  /\ isr.done
  /\ finished' = TRUE
  /\ AckIrq
  /\ isr' = NoHandler
  /\ UNCHANGED <<down, up, irqEnabled, chip, answer, pc, sent, frame, kind, rx,
                 overflow, testing, hostVars, history>>
LeaveHandler ==
  /\ isr.done
  /\ finished' = TRUE
  /\ AckIrq
  /\ irqEnabled' = TRUE
  /\ isr' = NoHandler
  /\ UNCHANGED <<down, up, chip, answer, pc, sent, frame, kind, rx, overflow,
                 testing, hostVars, history>>

(***************************************************************************)
(* The main program.  It runs while no handler does.                       *)
(***************************************************************************)

At(label) == pc = label /\ ~isr.active

\* relay_init registers both interrupts and enables them, or fails.
Boot ==
  /\ At("boot")
  /\ \/ pc' = "configuring" /\ irqEnabled' = TRUE
     \/ pc' = "returned" /\ UNCHANGED irqEnabled
  /\ UNCHANGED <<down, up, irqPending, chip, answer, sent, frame, kind, rx,
                 overflow, finished, isr, testing, hostVars, history>>

\* The start-up code loops when main returns.
Returned == At("returned") /\ UNCHANGED vars

\* send_config_frames, with the interrupts masked to its end.
Configure ==
  /\ At("configuring")
  /\ IF sent = ConfigFrames
     THEN pc' = "get" /\ UNCHANGED <<down, sent>>
     ELSE /\ WriteFrame(DataFrame)
          /\ sent' = sent + 1
          /\ UNCHANGED pc
  /\ UNCHANGED <<up, irqPending, irqEnabled, chip, answer, frame, kind, rx,
                 overflow, finished, isr, testing, hostVars, history>>

IsWhole(bytes) == Len(bytes) = FrameBytes

GetByte ==
  /\ At("get")
  /\ rx # <<>>
  /\ rx' = Tail(rx)
  /\ frame' = Append(frame, Head(rx))
  /\ pc' = IF IsWhole(frame') THEN "decode" ELSE "get"
  /\ UNCHANGED <<testVars, sent, kind, overflow, finished, isr, hostVars,
                 history>>

GetNothing ==
  /\ At("get")
  /\ rx = <<>>
  /\ ~overflow
  /\ UNCHANGED vars

\* The flag is cleared after the message, so bytes lost meanwhile go unreported.
ReportOverflow ==
  /\ At("get")
  /\ rx = <<>>
  /\ overflow
  /\ pc' = "reporting"
  /\ line' = Append(line, Text)
  /\ reported' = TRUE
  /\ UNCHANGED <<testVars, sent, frame, kind, rx, overflow, finished, isr,
                 fifo, host, written, lost>>
ClearOverflow ==
  /\ At("reporting")
  /\ pc' = "get"
  /\ overflow' = FALSE
  /\ UNCHANGED <<testVars, sent, frame, kind, rx, finished, isr, hostVars,
                 history>>

\* A SYNC clears timestep_finished before it is written.
ClearsNothing(k) == FALSE
ClearsFinished(k) == k = "sync"

DecodeFrame ==
  /\ At("decode")
  /\ kind' \in LooksLike(Decode(frame))
  /\ finished' = (finished /\ ~ClearsFinished(kind'))
  /\ pc' = "forward"
  /\ UNCHANGED <<testVars, sent, frame, rx, overflow, isr, hostVars, history>>

\* noc_enter_critical masks every interrupt until both words are stored.
EnterCritical ==
  /\ At("forward")
  /\ pc' = "storing"
  /\ UNCHANGED <<testVars, sent, frame, kind, rx, overflow, finished, isr,
                 hostVars, history>>
\* Only a test request says by its words how many frames it asks for.
StoreFrame ==
  /\ At("storing")
  /\ \E n \in 0..TestOut :
       /\ kind # "test" => n = 1
       /\ WriteFrame([kind |-> kind, steps |-> n])
  /\ written' = Append(written, Decode(frame))
  /\ pc' = IF kind = "sync" THEN "waiting" ELSE "get"
  /\ frame' = <<>>
  /\ UNCHANGED <<up, irqPending, irqEnabled, chip, answer, sent, kind, rx,
                 overflow, finished, isr, testing, hostVars, lost, reported>>

WaitForTimestep ==
  /\ At("waiting")
  /\ finished
  /\ finished' = FALSE
  /\ pc' = "get"
  /\ UNCHANGED <<testVars, sent, frame, kind, rx, overflow, isr, hostVars,
                 history>>

Main ==
  \/ Boot \/ Returned \/ Configure
  \/ GetByte \/ GetNothing
  \/ ReportOverflow \/ ClearOverflow
  \/ DecodeFrame \/ EnterCritical \/ StoreFrame
  \/ WaitForTimestep

RelayChip ==
  /\ TestChipStep
  /\ down' # down /\ Head(down).kind = "init" => chip'.left <= InitOut
  /\ UNCHANGED <<relayVars, hostVars, history>>

(***************************************************************************)
(* The host.  It waits for an answer before it sends the next frame that   *)
(* will be answered, and may send data frames meanwhile.                   *)
(***************************************************************************)

HostBeginsFrame(k) ==
  /\ host.left = <<>>
  /\ Len(host.sent) < MaxFrames
  /\ \/ host.awaits = NoAnswer
     \/ k = "data" /\ host.awaits \in Pipelined
  /\ host' = [sent |-> Append(host.sent, k),
              left |-> WireBytes(Len(host.sent) + 1),
              awaits |-> IF k = "data" THEN host.awaits ELSE k]
  /\ UNCHANGED <<testVars, relayVars, fifo, line, history>>

\* A byte that finds the UART's own FIFO full is lost, and nobody is told.
HostSendsByte ==
  /\ host.left # <<>>
  /\ host' = [host EXCEPT !.left = Tail(@)]
  /\ IF Len(fifo) < FifoDepth
     THEN fifo' = Append(fifo, Head(host.left)) /\ UNCHANGED lost
     ELSE lost' = TRUE /\ UNCHANGED fifo
  /\ UNCHANGED <<testVars, relayVars, line, written, reported>>

\* The host takes a frame from its line, and text wherever it begins.
HostReads ==
  \/ /\ line # <<>>
     /\ Head(line) = Text
     /\ line' = Tail(line)
     /\ UNCHANGED <<testVars, relayVars, fifo, host, history>>
  \/ /\ Len(line) >= FrameBytes
     /\ Head(line) # Text
     /\ line' = SubSeq(line, FrameBytes + 1, Len(line))
     /\ host' = IF EndsAnswer(Head(Decode(line).high).whose)
                THEN [host EXCEPT !.awaits = NoAnswer] ELSE host
     /\ UNCHANGED <<testVars, relayVars, fifo, history>>

Next ==
  \/ UartInterrupt
  \/ EnterHandler \/ HandlerForwards \/ LeaveHandler
  \/ Main
  \/ RelayChip
  \/ \E k \in Kinds : HostBeginsFrame(k)
  \/ HostSendsByte \/ HostReads

Spec == Init /\ [][Next]_vars
=============================================================================
