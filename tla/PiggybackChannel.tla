--------------------------- MODULE PiggybackChannel ----------------------------
(***************************************************************************)
(* What the piggyback layer promises the layer above it: a message arrives *)
(* with the value that was set when it was sent, once, whatever is sent    *)
(* and set while it is on its way.  Piggyback.tla implements it.           *)
(***************************************************************************)
EXTENDS Naturals

CONSTANT Value   \* what a message can carry

VARIABLES
  sent,    \* number of messages sent
  flight   \* messages sent and not yet handed to the layer above

Outgoing(v) == [id |-> sent, pb |-> v]

PCInit == sent = 0 /\ flight = {}

Send(v) ==
  /\ sent' = sent + 1
  /\ flight' = flight \union {Outgoing(v)}

(* A message is handed to the layer above, or lost with a call that failed. *)
Take(m) ==
  /\ m \in flight
  /\ flight' = flight \ {m}
  /\ UNCHANGED sent

(* MPI_Sendrecv does both, and may receive what it sends. *)
SendAndTake(v) ==
  /\ sent' = sent + 1
  /\ \E m \in flight \union {Outgoing(v)} :
       flight' = (flight \union {Outgoing(v)}) \ {m}

PCNext ==
  \/ \E v \in Value : Send(v) \/ SendAndTake(v)
  \/ \E m \in flight : Take(m)

PCSpec == PCInit /\ [][PCNext]_<<sent, flight>>
================================================================================
