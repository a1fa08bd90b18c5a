---------------------------- MODULE SyncService ----------------------------
(***************************************************************************)
(* What a session promises its callers, with neither frames nor            *)
(* interrupts: the chip is a server that one client at a time leases.  A   *)
(* request is executed exactly once, a call succeeds only when its own     *)
(* request has been answered, and after a failure the lease is of no use   *)
(* but to be given up.                                                     *)
(***************************************************************************)
EXTENDS Integers

CONSTANTS Clients, Nobody

Unknown == -1
Requests == [reset : BOOLEAN, steps : Nat]
NoRequest == [reset |-> FALSE, steps |-> 0]

VARIABLES
  lease,    \* the client that may ask, or Nobody
  broken,   \* a call under this lease has failed
  waiting,  \* the leaseholder is blocked in a call
  server,   \* what the chip has done about the latest request
  request,  \* the request the chip has been asked and has not begun
  time,     \* the chip's timestep
  base,     \* the chip's timestep when the epoch began
  claim     \* timesteps the service says were executed since then

serviceVars == <<lease, broken, waiting, server, request, time, base, claim>>

ServiceInit ==
  /\ lease = Nobody
  /\ broken = FALSE
  /\ waiting = FALSE
  /\ server = "free"
  /\ request = NoRequest
  /\ time = 0
  /\ base = 0
  /\ claim = Unknown

\* A lease begins with a free server, whatever its time is.
Attach(c) ==
  /\ lease = Nobody
  /\ server = "free"
  /\ lease' = c
  /\ broken' = FALSE
  /\ base' = time
  /\ claim' = 0
  /\ UNCHANGED <<waiting, server, request, time>>

Detach ==
  /\ lease # Nobody
  /\ ~waiting
  /\ lease' = Nobody
  /\ broken' = FALSE
  /\ claim' = Unknown
  /\ UNCHANGED <<waiting, server, request, time, base>>

Ask ==
  /\ lease # Nobody
  /\ ~broken
  /\ ~waiting
  /\ server = "free"
  /\ waiting' = TRUE
  /\ server' = "asked"
  /\ request' \in Requests
  /\ UNCHANGED <<lease, broken, time, base, claim>>

\* The chip begins the request, and takes it only once.
Execute ==
  /\ server = "asked"
  /\ server' = "working"
  /\ time' = IF request.reset THEN 0 ELSE time + request.steps
  /\ request' = NoRequest
  /\ UNCHANGED <<lease, broken, waiting, base, claim>>

Answer ==
  /\ server = "working"
  /\ server' = "answered"
  /\ UNCHANGED <<lease, broken, waiting, request, time, base, claim>>

\* The call returns OK: only with an answer, after a reset in a new epoch, and
\* with a claim about time that is true, or none.
Succeed ==
  /\ waiting
  /\ server = "answered"
  /\ waiting' = FALSE
  /\ server' = "free"
  /\ \/ base' = base /\ claim' \in {time - base, Unknown}
     \/ time = 0 /\ base' = 0 /\ claim' = 0
  /\ UNCHANGED <<lease, broken, request, time>>

\* The call fails.  The request may be executed and answered all the same.
Fail ==
  /\ waiting
  /\ waiting' = FALSE
  /\ broken' = TRUE
  /\ server' \in IF server = "answered" THEN {"answered", "free"} ELSE {server}
  /\ UNCHANGED <<lease, request, time, base, claim>>

\* The platform clears the server while no sound lease is using it.
Recover ==
  /\ lease = Nobody \/ broken
  /\ ~waiting
  /\ server' = "free"
  /\ request' = NoRequest
  /\ time' \in {0, time}
  /\ UNCHANGED <<lease, broken, waiting, base, claim>>

ServiceNext ==
  \/ \E c \in Clients : Attach(c)
  \/ Detach
  \/ Ask
  \/ Execute
  \/ Answer
  \/ Succeed
  \/ Fail
  \/ Recover

ServiceSpec == ServiceInit /\ [][ServiceNext]_serviceVars
=============================================================================
