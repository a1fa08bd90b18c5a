------------------------------ MODULE SnnUart ------------------------------
(***************************************************************************)
(* application/baremetal/snn_head: the service loop of the SNN head and    *)
(* the transaction of snn_head_uart.c.  The board scans its UART for the   *)
(* magic NSNN, reads a header and a payload, acknowledges a valid input,   *)
(* runs the inference and answers.  One deadline covers everything from    *)
(* the scan to the acknowledgement; the answer has another.                *)
(*                                                                         *)
(* A token of the line is a byte of a magic or of a payload, or the 44     *)
(* bytes of a header after its magic.  Checksums detect every damage.      *)
(***************************************************************************)
EXTENDS Integers, Sequences

CONSTANTS
  Builds,      \* builds of the firmware: SNN_HEAD_DEBUG, SNN_HEAD_TIMING
  Payload,     \* SNN_HEAD_UART_INPUT_PAYLOAD_BYTES, in tokens
  RxDepth,     \* tokens the receive FIFO of the UART holds
  Requests,    \* what the client sends: payloads, and what is wrong
  MaxRequests  \* bound: requests

AllKinds ==
  {"good", "bad header", "bad shape", "bad crc", "not finite", "failing"}
Letters == {"N", "S", "x"}

ASSUME SnnUartAssumption ==
  /\ Builds \subseteq {"production", "debug", "timing"}
  /\ Payload \in Nat
  /\ RxDepth \in Nat \ {0}
  /\ \A request \in Requests :
       request \in [kind : AllKinds, body : Seq(Letters)]
  /\ MaxRequests \in Nat

VARIABLES
  build,    \* the firmware
  pc,       \* where process_one is; "scan" is also its start
  late,     \* has the deadline in force passed?
  matched,  \* letters of the magic seen
  header,   \* input_header: is it valid, its sequence number and length
  input,    \* input_buffer
  reply,    \* the status to be answered
  fifo,     \* the receive FIFO of the UART
  out,      \* the frames and text on the line to the client
  sent,     \* the client's requests; the number of one is its sequence number
  rest,     \* what is left to send of the last one
  clean     \* history: requests that nothing has disturbed

boardVars == <<build, pc, late, matched, header, input, reply, out>>
clientVars == <<sent, rest>>
vars == <<boardVars, clientVars, fifo, clean>>

Magic == <<"N", "S", "N", "N">>
Token(letter, n) == [is |-> letter, of |-> n]
BodyTokens(n) ==
  [i \in 1..Len(sent[n].body) |-> Token(sent[n].body[i], n)]
NoHeader == [valid |-> FALSE, seq |-> 0, length |-> 0]

Init ==
  /\ build \in Builds
  /\ pc = "scan"
  /\ late = FALSE
  /\ matched = 0
  /\ header = NoHeader
  /\ input = <<>>
  /\ reply = "none"
  /\ fifo = <<>>
  /\ out = <<>>
  /\ sent = <<>>
  /\ rest = <<>>
  /\ clean = {}

(***************************************************************************)
(* The end of a transaction, and the loop of main: a diagnostic build adds *)
(* text, and stops after anything but a timeout.                           *)
(***************************************************************************)

Text == [type |-> "text", seq |-> 0]
AddsText(status) ==
  \/ build = "debug" /\ status # "TIMEOUT"
  \/ build = "timing" /\ status = "OK"
Return(status, written) ==
  /\ pc' = IF build # "production" /\ status # "TIMEOUT" THEN "halted" ELSE "scan"
  /\ out' = out \o written \o (IF AddsText(status) THEN <<Text>> ELSE <<>>)
  /\ late' = FALSE
  /\ matched' = 0
  /\ header' = NoHeader
  /\ input' = <<>>
  /\ reply' = "none"
  /\ UNCHANGED build

(***************************************************************************)
(* Receiving.                                                              *)
(***************************************************************************)

ReceivingHeader == pc \in {"scan", "header"}
Receiving == pc \in {"scan", "header", "payload"}

\* uart_read_bytes takes a byte before it looks at the clock: the byte that
\* comes with the deadline is lost.
ReadTimesOut ==
  /\ Receiving
  /\ late
  /\ fifo' = IF fifo = <<>> THEN fifo ELSE Tail(fifo)
  /\ Return("TIMEOUT", <<>>)
  /\ clean' = {}
  /\ UNCHANGED clientVars

\* One byte of the scan: how much of the magic ends with it.
FallbackToStart == <<0, 0, 0, 0>>
Fallback == <<0, 0, 1, 1>>
Scanned(m, letter) ==
  LET Match[k \in 0..3] ==
        IF letter = Magic[k + 1] THEN k + 1
        ELSE IF k = 0 THEN 0 ELSE Match[Fallback[k]]
  IN  Match[m]

ScanByte ==
  /\ pc = "scan"
  /\ ~late
  /\ fifo # <<>>
  /\ fifo' = Tail(fifo)
  /\ matched' = Scanned(matched, Head(fifo).is)
  /\ pc' = IF matched' = Len(Magic) THEN "header" ELSE "scan"
  /\ UNCHANGED <<build, late, header, input, reply, out, clientVars, clean>>

\* Bytes that are no header, or a damaged one, say anything.
HeadersFrom(token) ==
  IF token.is = "header" /\ sent[token.of].kind # "bad header"
  THEN {[valid |-> TRUE, seq |-> token.of, length |-> Len(sent[token.of].body)]}
  ELSE [valid : {FALSE}, seq : {0, token.of}, length : 0..Payload + 1]

\* An oversized payload is left on the line, any other is read.
ReadHeader ==
  /\ pc = "header"
  /\ ~late
  /\ fifo # <<>>
  /\ fifo' = Tail(fifo)
  /\ header' \in HeadersFrom(Head(fifo))
  /\ IF header'.length > Payload
     THEN pc' = "reply" /\ reply' = IF header'.valid THEN "BAD_PAYLOAD" ELSE "BAD_HEADER"
     ELSE pc' = "payload" /\ UNCHANGED reply
  /\ UNCHANGED <<build, late, matched, input, out, clientVars, clean>>

ReadByte ==
  /\ pc = "payload"
  /\ Len(input) < header.length
  /\ ~late
  /\ fifo # <<>>
  /\ fifo' = Tail(fifo)
  /\ input' = Append(input, Head(fifo))
  /\ UNCHANGED <<build, pc, late, matched, header, reply, out, clientVars, clean>>

\* The checks of a payload that has been read, in their order.
CrcOfLengthOnly == Len(input) = Len(sent[header.seq].body)
CrcMatches == input = BodyTokens(header.seq) /\ sent[header.seq].kind # "bad crc"
Verdict ==
  LET kind == sent[header.seq].kind
  IN  CASE ~header.valid -> "BAD_HEADER"
        [] header.valid /\ header.length # Payload -> "BAD_PAYLOAD"
        [] OTHER -> IF kind = "bad shape" THEN "BAD_SHAPE"
                    ELSE IF ~CrcMatches \/ kind = "not finite" THEN "BAD_PAYLOAD"
                    ELSE "OK"
CheckPayload ==
  /\ pc = "payload"
  /\ Len(input) = header.length
  /\ pc' = IF Verdict = "OK" THEN "ack" ELSE "reply"
  /\ reply' = Verdict
  /\ UNCHANGED <<build, late, matched, header, input, out, clientVars, fifo, clean>>

(***************************************************************************)
(* Answering.  A write is cut where the transmit FIFO is full and the      *)
(* deadline has passed; a full FIFO drains by itself.                      *)
(***************************************************************************)

Sending == pc \in {"reply", "ack", "result"}
Answer(type) == [type |-> type, seq |-> header.seq]
Untouched == UNCHANGED <<clientVars, fifo>>

WriteTimesOut ==
  /\ Sending
  /\ late
  /\ Return("TIMEOUT", <<Answer("cut")>>)
  /\ clean' = {}
  /\ Untouched

ReplyError ==
  /\ pc = "reply"
  /\ Return(reply, <<Answer("ERROR")>>)
  /\ UNCHANGED clean
  /\ Untouched

SendAck ==
  /\ pc = "ack"
  /\ out' = Append(out, Answer("ACK"))
  /\ pc' = "infer"
  /\ UNCHANGED <<build, late, matched, header, input, reply, clean>>
  /\ Untouched

\* The inference, or the check of its output, may fail; the answer to either
\* has a fresh deadline.
Infer ==
  /\ pc = "infer"
  /\ late' = FALSE
  /\ IF sent[header.seq].kind = "failing"
     THEN pc' = "reply" /\ reply' = "INFERENCE_FAILED"
     ELSE pc' = "result" /\ UNCHANGED reply
  /\ UNCHANGED <<build, matched, header, input, out, clean>>
  /\ Untouched

SendResult ==
  /\ pc = "result"
  /\ Return("OK", <<Answer("RESULT")>>)
  /\ UNCHANGED clean
  /\ Untouched

DeadlinePasses ==
  /\ Receiving \/ Sending
  /\ ~late
  /\ late' = TRUE
  /\ UNCHANGED <<build, pc, matched, header, input, reply, out, clean>>
  /\ Untouched

(***************************************************************************)
(* The client.  It may stop in the middle of a request, and begin another  *)
(* when it will not wait any more.                                         *)
(***************************************************************************)

\* Bytes before a request that leave the scan where its magic is still seen.
Harmless ==
  LET Step(m, token) ==
        IF m = Len(Magic) \/ token.is = "header" THEN m
        ELSE Scanned(m, token.is)
      Match[i \in 0..Len(fifo)] ==
        IF i = 0 THEN matched ELSE Step(Match[i - 1], fifo[i])
  IN  Match[Len(fifo)] < 3

BeginRequest(request) ==
  LET n == Len(sent) + 1
      undisturbed == IF rest = <<>> THEN clean ELSE clean \ {Len(sent)}
  IN  /\ n <= MaxRequests
      /\ sent' = Append(sent, request)
      /\ rest' = [i \in 1..4 |-> Token(Magic[i], n)] \o <<Token("header", n)>>
                   \o [i \in 1..Len(request.body) |-> Token(request.body[i], n)]
      /\ clean' = IF pc = "scan" /\ ~late /\ Harmless
                  THEN undisturbed \union {n} ELSE undisturbed
      /\ UNCHANGED <<boardVars, fifo>>

\* A polling board keeps up with the line; a board that computes or answers
\* does not, and what its FIFO cannot hold is lost.
SendToken ==
  /\ rest # <<>>
  /\ rest' = Tail(rest)
  /\ IF Len(fifo) < RxDepth
     THEN fifo' = Append(fifo, Head(rest)) /\ UNCHANGED clean
     ELSE ~Receiving /\ clean' = {} /\ UNCHANGED fifo
  /\ UNCHANGED <<boardVars, sent>>

Halted == pc = "halted" /\ UNCHANGED vars

Transaction ==
  \/ ReadTimesOut \/ ScanByte \/ ReadHeader \/ ReadByte \/ CheckPayload
  \/ WriteTimesOut \/ ReplyError \/ SendAck \/ Infer \/ SendResult

Next ==
  \/ Transaction
  \/ DeadlinePasses
  \/ Halted
  \/ \E request \in Requests : BeginRequest(request)
  \/ SendToken

Spec == Init /\ [][Next]_vars
=============================================================================
