-------------------------- MODULE SnnUartProperties --------------------------
(***************************************************************************)
(* What a client of the SNN head relies on.                                *)
(***************************************************************************)
EXTENDS SnnUart

Computable(request) ==
  request.kind \in {"good", "failing"} /\ Len(request.body) = Payload
Due(request) ==
  IF ~Computable(request) THEN <<"ERROR">>
  ELSE IF request.kind = "failing" THEN <<"ACK", "ERROR">>
  ELSE <<"ACK", "RESULT">>

Oversized(request) == Len(request.body) > Payload

\* The replies to a request are the frames that are due, in that order; after
\* them there are more at most for an oversized one.
Reply(n, k) == [type |-> Due(sent[n])[k], seq |-> n]
AsDue(n) ==
  LET due == 1..Len(Due(sent[n]))
  IN  \E at \in [due -> 1..Len(out)] :
        /\ \A k \in due : out[at[k]] = Reply(n, k)
        /\ \A j, k \in due : j < k => at[j] < at[k]
        /\ \A i \in 1..Len(out) : out[i].seq = n =>
             \/ \E k \in due : at[k] = i
             \/ Oversized(sent[n]) /\ \A k \in due : at[k] < i

Unread(n) == \E i \in 1..Len(fifo) : fifo[i].of = n

\* A request that begins while the board scans, behind bytes that cannot be
\* mistaken for a magic, is found and gets exactly the replies that are due,
\* whatever went wrong before: garbage, oversized and interrupted requests,
\* timeouts, bytes lost while the board computed.  It is given up for a request
\* during which the deadline passes or a byte is lost; it says nothing of one
\* whose header is damaged, length and number with it; and an oversized one
\* that holds a magic may get further errors.
CleanRequestIsAnswered ==
  pc = "scan" /\ ~late =>
    \A n \in clean :
      \/ sent[n].kind = "bad header"
      \/ rest # <<>> /\ n = Len(sent)
      \/ Unread(n)
      \/ AsDue(n)

\* An input is acknowledged, and a result computed, only for a request that
\* arrived whole, and once: never for one of which a part was lost, or that
\* was filled up with bytes of the next.
ResultIsEarned ==
  \A i \in 1..Len(out) :
    LET n == out[i].seq
        Others(j) == \A k \in 1..Len(out) \ {i, j} : out[k].seq # n
    IN  /\ out[i].type = "ACK" =>
             /\ n \in 1..Len(sent) /\ Computable(sent[n])
             /\ \A k \in 1..i - 1 : out[k].seq # n
        /\ out[i].type = "RESULT" =>
             \E j \in 1..i - 1 : out[j] = [type |-> "ACK", seq |-> n] /\ Others(j)

(***************************************************************************)
(* Liveness: a core and a clock that run, an inference that ends.          *)
(***************************************************************************)

LiveSpec == Spec /\ WF_vars(Transaction) /\ WF_vars(DeadlinePasses)

\* Every transaction ends, whatever the client does or leaves undone.
TransactionEnds == pc # "scan" ~> pc \in {"scan", "halted"}
=============================================================================
