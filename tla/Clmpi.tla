--------------------------------- MODULE Clmpi ---------------------------------
(***************************************************************************)
(* The clock layer of CLMPI (src/src/clmpi.cpp), on every rank of an MPI   *)
(* job, together with the messages in flight between the ranks.            *)
(*                                                                         *)
(* A rank runs one wrapper at a time (clmpi.cpp has no locks and is meant  *)
(* for one thread); pc[r] says which one.  A wrapper whose PMPI call can   *)
(* block or lets other ranks go on before its bookkeeping is done takes    *)
(* several steps, so that the ranks interleave inside the wrappers.        *)
(*                                                                         *)
(* Below the layer, MPI delivers each message once to a rank that waits    *)
(* for one; tags and sources are abstracted, any message for a rank may    *)
(* match any of its receives.  The request and piggyback layers are taken  *)
(* at their word here: the status of a completed request holds the request *)
(* and, for a receive, the clock its message carried.                      *)
(***************************************************************************)
EXTENDS Integers, Sequences, FiniteSets

CONSTANTS
  Rank,         \* the MPI processes of the job
  Channel,      \* pairs <<r, d>>: r sends to d
  Handle,       \* values of an MPI_Request while the request is active
  NULL,         \* MPI_REQUEST_NULL
  NoMessage,    \* the message of a send's status: none
  Ops,          \* the wrappers the application calls
  Careful,      \* the application registers a buffer of the right length
                \* before every completion call (as example/clmpi_test.c does)
  ClientClock,  \* clock values the tool above hands in
  MaxCount,     \* bound: largest array given to a completion call
  MaxSend,      \* bound: messages a rank sends
  MaxClock      \* bound: no collective or client merge from this clock on

InitialClock == 10          \* PNMPI_MODULE_CLMPI_INITIAL_CLOCK
UnmatchedRecvReqClock == 2  \* PNMPI_MODULE_CLMPI_UNMATCHED_RECV_REQ_CLOCK
SendReqClock == 1           \* PNMPI_MODULE_CLMPI_SEND_REQ_CLOCK
NoBuffer == -1              \* registered_buff_length of a NULL buffer

WaitOps == {"Wait", "Waitany", "Waitsome", "Waitall"}
TestOps == {"Test", "Testany", "Testsome", "Testall"}
CompletionOps == WaitOps \union TestOps
BlockingOps == {"Recv", "Sendrecv"}

AllOps == CompletionOps \union BlockingOps \union
          {"Send", "Isend", "Irecv", "Collective", "Client", "Control"}

ASSUME ChannelAssumption == Channel \subseteq Rank \X Rank
ASSUME HandleAssumption == NULL \notin Handle
ASSUME BoundAssumption ==
  /\ MaxCount \in Nat \ {0}
  /\ MaxSend \in Nat
  /\ MaxClock \in Nat
ASSUME ClientAssumption ==
  /\ ClientClock \subseteq Nat
  /\ Careful \in BOOLEAN
  /\ Ops \subseteq AllOps

(* A message: its identity, and the clock the piggyback layer ships.  past *)
(* is a history: the stamps of the sends and collectives it depends on.    *)
Message == [src : Rank, seq : Nat, dst : Rank, pb : Nat, past : SUBSET Nat]

ASSUME NoMessageAssumption == NoMessage \notin Message

(* The status of a completed request: its place in the array of statuses,  *)
(* the index of the request in the array of requests, and the handle the   *)
(* request layer saved (inreq).                                            *)
Status == [slot : 1..MaxCount, idx : 1..MaxCount, h : Handle \union {NULL},
           msg : Message \union {NoMessage}]

VARIABLES
  (* static variables of clmpi.cpp, one copy per rank *)
  local_clock,              \* pb_clocks->local_clock
  sync_clock,               \* is the clock switched on
  registered_buff_length,   \* length of the registered buffer
  buff,                     \* memory behind registered_buff_clocks
  irecv_request_map,        \* its keys
  request_to_local_clock,   \* its keys
  (* MPI below *)
  req,                      \* req[r][h]: "none", "send" or "recv"
  net,                      \* messages in flight
  nsent,                    \* messages sent by a rank
  (* control *)
  pc,                       \* the wrapper the rank is in
  count,                    \* the count the current wrapper was called with
  todo,                     \* statuses the wrapper's loop has not reached
  coll_max,                 \* result of the current PMPI_Allreduce
  (* history variables: the code neither has nor needs them *)
  past,                     \* stamps in a rank's causal past
  coll_past,                \* what the current PMPI_Allreduce gathered of it
  nticks,                   \* sends and receives while the clock was on
  expect                    \* clocks the registered buffer should report

clmpiVars == <<local_clock, sync_clock, registered_buff_length, buff,
               irecv_request_map, request_to_local_clock>>
mpiVars == <<req, net, nsent>>
ctlVars == <<pc, count, todo, coll_max>>
histVars == <<past, coll_past, nticks, expect>>
vars == <<clmpiVars, mpiVars, ctlVars, histVars>>

Nothing == [i \in {} |-> 0]

Init ==
  /\ local_clock = [r \in Rank |-> InitialClock]
  /\ sync_clock = [r \in Rank |-> TRUE]
  /\ registered_buff_length = [r \in Rank |-> NoBuffer]
  /\ buff = [r \in Rank |-> [i \in 1..MaxCount |-> 0]]
  /\ irecv_request_map = [r \in Rank |-> {}]
  /\ request_to_local_clock = [r \in Rank |-> {}]
  /\ req = [r \in Rank |-> [h \in Handle |-> "none"]]
  /\ net = {}
  /\ nsent = [r \in Rank |-> 0]
  /\ pc = [r \in Rank |-> "Idle"]
  /\ count = [r \in Rank |-> 0]
  /\ todo = [r \in Rank |-> <<>>]
  /\ coll_max = 0
  /\ past = [r \in Rank |-> {}]
  /\ coll_past = {}
  /\ nticks = [r \in Rank |-> 0]
  /\ expect = [r \in Rank |-> Nothing]

--------------------------------------------------------------------------------
(* Helpers *)

Calls(r, op) == pc[r] = "Idle" /\ op \in Ops

Goto(r, where) == pc' = [pc EXCEPT ![r] = where]

(* clmpi_tick_clock *)
Ticked(r, c) == IF sync_clock[r] THEN c + 1 ELSE c

(* Mutant: the local clock wins unless the received one is smaller. *)
MergedMin(r, c) ==
  IF sync_clock[r]
    THEN (IF local_clock[r] <= c THEN local_clock[r] ELSE c) + 1
    ELSE local_clock[r]

(* Mutant: the clock is merged without a tick. *)
MergedNoTick(r, c) ==
  IF sync_clock[r] /\ local_clock[r] <= c THEN c ELSE local_clock[r]

(* clmpi_update_clock *)
Merged(r, c) ==
  IF sync_clock[r]
    THEN (IF local_clock[r] <= c THEN c ELSE local_clock[r]) + 1
    ELSE local_clock[r]

Remember(r, stamps) ==
  past' = [past EXCEPT ![r] = IF sync_clock[r] THEN @ \union stamps ELSE @]

CountTicks(r, n) ==
  nticks' = [nticks EXCEPT ![r] = IF sync_clock[r] THEN @ + n ELSE @]

(* Mutant: PBSET after the tick. *)
ShipAfterTick(r, d) ==
  /\ <<r, d>> \in Channel
  /\ nsent[r] < MaxSend
  /\ net' = net \union {[src |-> r, seq |-> nsent[r], dst |-> d,
                         pb |-> Ticked(r, local_clock[r]), past |-> past[r]]}
  /\ nsent' = [nsent EXCEPT ![r] = @ + 1]

(* PBSET and the PMPI send: the message leaves with the clock before the tick. *)
Ship(r, d) ==
  /\ <<r, d>> \in Channel
  /\ nsent[r] < MaxSend
  /\ net' = net \union {[src |-> r, seq |-> nsent[r], dst |-> d,
                         pb |-> local_clock[r], past |-> past[r]]}
  /\ nsent' = [nsent EXCEPT ![r] = @ + 1]

TickAfterSend(r) ==
  /\ local_clock' = [local_clock EXCEPT ![r] = Ticked(r, @)]
  /\ Remember(r, {local_clock[r]})
  /\ CountTicks(r, 1)

(* The buffer is registered with a length other than the count of the call. *)
LengthMismatch(r) == registered_buff_length[r] \notin {NoBuffer, count[r]}

Pending(r) == {h \in Handle : req[r][h] # "none"}

Injective(f) == \A i, j \in DOMAIN f : f[i] = f[j] => i = j

(* Sequences of members of S, none twice. *)
Orders(S) ==
  {q \in UNION {[1..n -> S] : n \in 0..MaxCount} : Injective(q)}

(* Arrays of pending requests, and arrays where completed requests have    *)
(* left MPI_REQUEST_NULL behind.                                           *)
Arrays(r) == Orders(Pending(r)) \ {<<>>}
Live(a) == {i \in DOMAIN a : a[i] # NULL}
GappedArrays(r) ==
  {a \in UNION {[1..n -> Pending(r) \union {NULL}] : n \in 1..MaxCount} :
     /\ Live(a) # {}
     /\ \A i, j \in Live(a) : a[i] = a[j] => i = j}

(* What PMPI may have delivered to the requests a[done[k]]. *)
Deliveries(r, a, done) ==
  {got \in [DOMAIN done -> {m \in net : m.dst = r} \union {NoMessage}] :
     /\ \A k \in DOMAIN done :
          (got[k] = NoMessage) <=> (req[r][a[done[k]]] = "send")
     /\ \A k, l \in DOMAIN done :
          got[k] = got[l] /\ got[k] # NoMessage => k = l}

(* clmpi_init_registered_clocks: every slot of the array is reset to the   *)
(* clock of an uncompleted request.                                        *)
UnmatchedClock(r, h) ==
  IF h \in irecv_request_map[r] THEN UnmatchedRecvReqClock ELSE SendReqClock

(* Mutant: the loop stops one slot early. *)
InitRegisteredClocksShort(r, a) ==
  buff' = IF sync_clock[r]
            THEN [buff EXCEPT ![r] = [i \in 1..MaxCount |->
                    IF i < Len(a) THEN UnmatchedClock(r, a[i]) ELSE @[i]]]
            ELSE buff

InitRegisteredClocks(r, a) ==
  buff' = IF sync_clock[r]
            THEN [buff EXCEPT ![r] = [i \in 1..MaxCount |->
                    IF i <= Len(a) THEN UnmatchedClock(r, a[i]) ELSE @[i]]]
            ELSE buff

(* The registered buffer reports about request i of the array: the clock   *)
(* of the message it received, or that it is a send, or not matched yet.   *)
Report(r, a, done, got) ==
  [i \in Live(a) |->
     IF req[r][a[i]] = "send" THEN SendReqClock
     ELSE IF \E k \in DOMAIN done : done[k] = i
       THEN got[CHOOSE k \in DOMAIN done : done[k] = i].pb
       ELSE UnmatchedRecvReqClock]

--------------------------------------------------------------------------------
(* Sending *)

(* MPI_Send, MPI_Bsend, MPI_Ssend, MPI_Rsend: the message is out before    *)
(* PMPI_Send returns.                                                      *)
MPI_Send(r, d) ==
  /\ Calls(r, "Send")
  /\ Ship(r, d)
  /\ Goto(r, "Send")
  /\ UNCHANGED <<clmpiVars, req, count, todo, coll_max, histVars>>

SendReturns(r) ==
  /\ pc[r] = "Send"
  /\ TickAfterSend(r)
  /\ Goto(r, "Idle")
  /\ UNCHANGED <<sync_clock, registered_buff_length, buff, irecv_request_map,
                 request_to_local_clock, mpiVars, count, todo, coll_max,
                 coll_past, expect>>

(* MPI_Isend, MPI_Ibsend, MPI_Issend, MPI_Irsend *)
MPI_Isend(r, d) ==
  /\ Calls(r, "Isend")
  /\ Ship(r, d)
  /\ \E h \in Handle \ Pending(r) :
       /\ req' = [req EXCEPT ![r][h] = "send"]
       /\ request_to_local_clock' = [request_to_local_clock EXCEPT ![r] = @ \union {h}]
  /\ TickAfterSend(r)
  /\ UNCHANGED <<sync_clock, registered_buff_length, buff, irecv_request_map,
                 ctlVars, coll_past, expect>>

--------------------------------------------------------------------------------
(* Receiving, and completing requests *)

(* Mutant: the request is not entered in irecv_request_map. *)
MPI_IrecvUnmapped(r) ==
  /\ Calls(r, "Irecv")
  /\ \E h \in Handle \ Pending(r) : req' = [req EXCEPT ![r][h] = "recv"]
  /\ UNCHANGED <<clmpiVars, net, nsent, ctlVars, histVars>>

MPI_Irecv(r) ==
  /\ Calls(r, "Irecv")
  /\ \E h \in Handle \ Pending(r) :
       /\ req' = [req EXCEPT ![r][h] = "recv"]
       /\ irecv_request_map' = [irecv_request_map EXCEPT ![r] = @ \union {h}]
  /\ UNCHANGED <<local_clock, sync_clock, registered_buff_length, buff,
                 request_to_local_clock, net, nsent, ctlVars, histVars>>

(* PMPI_Recv or PMPI_Sendrecv returns with message m in the status. *)
Receives(r, op) ==
  /\ \E m \in net :
       /\ m.dst = r
       /\ net' = net \ {m}
       /\ todo' = [todo EXCEPT ![r] =
                     <<[slot |-> 1, idx |-> 1, h |-> NULL, msg |-> m]>>]
  /\ Goto(r, op)
  /\ count' = [count EXCEPT ![r] = 1]
  /\ UNCHANGED <<clmpiVars, req, nsent, coll_max, histVars>>

MPI_Recv(r) == Calls(r, "Recv") /\ Receives(r, "Recv")

MPI_Sendrecv(r, d) ==
  /\ Calls(r, "Sendrecv")
  /\ Ship(r, d)
  /\ Goto(r, "SendrecvPosted")
  /\ UNCHANGED <<clmpiVars, req, count, todo, coll_max, histVars>>

SendrecvReceives(r) == pc[r] = "SendrecvPosted" /\ Receives(r, "Sendrecv")

(* A completion wrapper, up to the return of its PMPI call: op is called   *)
(* on array a, and PMPI completes the requests with indices done, in that  *)
(* order.  n is the count the wrapper passes to cmpi_sync_clock_at.        *)
Complete(r, op, a, done, n) ==
  /\ Calls(r, op)
  /\ Careful => registered_buff_length[r] = Len(a)
  /\ sync_clock[r] => registered_buff_length[r] # NoBuffer
  /\ \E got \in Deliveries(r, a, done) :
       /\ net' = net \ {got[k] : k \in DOMAIN done}
       /\ todo' = [todo EXCEPT ![r] = [k \in DOMAIN done |->
                     [slot |-> k, idx |-> done[k], h |-> a[done[k]], msg |-> got[k]]]]
       /\ expect' = [expect EXCEPT ![r] =
                       IF sync_clock[r] THEN Report(r, a, done, got) ELSE Nothing]
  /\ req' = [req EXCEPT ![r] = [h \in Handle |->
               IF \E k \in DOMAIN done : a[done[k]] = h THEN "none" ELSE @[h]]]
  /\ InitRegisteredClocks(r, a)
  /\ Goto(r, op)
  /\ count' = [count EXCEPT ![r] = n]
  /\ UNCHANGED <<local_clock, sync_clock, registered_buff_length,
                 irecv_request_map, request_to_local_clock, nsent, coll_max,
                 past, coll_past, nticks>>

MPI_Wait(r) ==
  \E h \in Pending(r) : Complete(r, "Wait", <<h>>, <<1>>, 1)

MPI_Waitany(r) ==
  \E a \in GappedArrays(r) : \E i \in Live(a) : Complete(r, "Waitany", a, <<i>>, 1)

MPI_Waitsome(r) ==
  \E a \in GappedArrays(r) : \E done \in Orders(Live(a)) \ {<<>>} :
    Complete(r, "Waitsome", a, done, Len(a))

MPI_Waitall(r) ==
  \E a \in Arrays(r) : Complete(r, "Waitall", a, [i \in DOMAIN a |-> i], Len(a))

(* The Test wrappers complete what the Wait wrappers do, or nothing. *)
MPI_Test(r) ==
  \E h \in Pending(r) : \E done \in {<<>>, <<1>>} : Complete(r, "Test", <<h>>, done, 1)

MPI_Testany(r) ==
  \E a \in GappedArrays(r) : \E done \in {<<>>} \union {<<i>> : i \in Live(a)} :
    Complete(r, "Testany", a, done, 1)

MPI_Testsome(r) ==
  \E a \in GappedArrays(r) : \E done \in Orders(Live(a)) :
    Complete(r, "Testsome", a, done, Len(a))

MPI_Testall(r) ==
  \E a \in Arrays(r) : \E done \in {<<>>, [i \in DOMAIN a |-> i]} :
    Complete(r, "Testall", a, done, Len(a))

(* clmpi_init_registered_clocks without a registered buffer: exit(1). *)
Unregistered(r) ==
  /\ ~Careful
  /\ \E op \in CompletionOps : Calls(r, op)
  /\ Pending(r) # {}
  /\ sync_clock[r] /\ registered_buff_length[r] = NoBuffer
  /\ Goto(r, "Exited")
  /\ UNCHANGED <<clmpiVars, mpiVars, count, todo, coll_max, histVars>>

--------------------------------------------------------------------------------
(* The loop of a wrapper over the statuses PMPI filled in *)

InLoop(r, op) == pc[r] \in op /\ todo[r] # <<>>

(* cmpi_sync_clock_at: report and merge the clock of a received message.   *)
(* The send half of MPI_Sendrecv has not ticked before.                    *)
SyncClockAt(r, s) ==
  /\ ~LengthMismatch(r)
  /\ buff' = IF registered_buff_length[r] = NoBuffer
               THEN buff ELSE [buff EXCEPT ![r][s.slot] = s.msg.pb]
  /\ local_clock' = [local_clock EXCEPT ![r] = Merged(r, s.msg.pb)]
  /\ Remember(r, s.msg.past \union {s.msg.pb} \union
                 (IF pc[r] = "Sendrecv" THEN {local_clock[r]} ELSE {}))
  /\ CountTicks(r, IF pc[r] = "Sendrecv" THEN 2 ELSE 1)

(* Mutant: the request stays in irecv_request_map. *)
SyncRecvNoErase(r) ==
  /\ InLoop(r, CompletionOps \union BlockingOps)
  /\ LET s == Head(todo[r]) IN s.msg # NoMessage /\ SyncClockAt(r, s)
  /\ todo' = [todo EXCEPT ![r] = Tail(@)]
  /\ UNCHANGED <<sync_clock, registered_buff_length, irecv_request_map,
                 request_to_local_clock, mpiVars, pc, count, coll_max,
                 coll_past, expect>>

(* A received message, and clmpi_irecv_test_erase for a request. *)
SyncRecv(r) ==
  /\ InLoop(r, CompletionOps \union BlockingOps)
  /\ LET s == Head(todo[r]) IN
       /\ s.msg # NoMessage
       /\ SyncClockAt(r, s)
       /\ pc[r] \in CompletionOps => s.h \in irecv_request_map[r]
       /\ irecv_request_map' = [irecv_request_map EXCEPT ![r] = @ \ {s.h}]
  /\ todo' = [todo EXCEPT ![r] = Tail(@)]
  /\ UNCHANGED <<sync_clock, registered_buff_length, request_to_local_clock,
                 mpiVars, pc, count, coll_max, coll_past, expect>>

(* The wrappers that drop a completed send from request_to_local_clock *)
DropSendOps == {"Waitall", "Test", "Testsome"}

(* Mutant: the handle is dropped by the wrapper's first look at a send *)
(* and with it every other incomplete send.                            *)
SyncSendDropsAll(r) ==
  /\ InLoop(r, CompletionOps)
  /\ Head(todo[r]).msg = NoMessage
  /\ request_to_local_clock' = [request_to_local_clock EXCEPT ![r] = {}]
  /\ todo' = [todo EXCEPT ![r] = Tail(@)]
  /\ UNCHANGED <<local_clock, sync_clock, registered_buff_length, buff,
                 irecv_request_map, mpiVars, pc, count, coll_max, histVars>>

(* A completed send: the Test wrappers report it in the buffer. *)
SyncSend(r) ==
  /\ InLoop(r, CompletionOps)
  /\ LET s == Head(todo[r]) IN
       /\ s.msg = NoMessage
       /\ pc[r] \in TestOps => registered_buff_length[r] # NoBuffer
       /\ buff' = IF pc[r] \in TestOps
                    THEN [buff EXCEPT ![r][IF pc[r] = "Testsome" THEN s.idx ELSE s.slot]
                            = SendReqClock]
                    ELSE buff
       /\ pc[r] \in DropSendOps => s.h \in request_to_local_clock[r]
       /\ request_to_local_clock' =
            IF pc[r] \in DropSendOps
              THEN [request_to_local_clock EXCEPT ![r] = @ \ {s.h}]
              ELSE request_to_local_clock
  /\ todo' = [todo EXCEPT ![r] = Tail(@)]
  /\ UNCHANGED <<local_clock, sync_clock, registered_buff_length,
                 irecv_request_map, mpiVars, pc, count, coll_max, histVars>>

(* A status the loop aborts on: of a send that has no buffer to be         *)
(* reported in or is not known to be incomplete, or of a receive that does *)
(* not fit the buffer or is not in irecv_request_map.                      *)
Aborts(r, s) ==
  IF s.msg = NoMessage
    THEN \/ pc[r] \in TestOps /\ registered_buff_length[r] = NoBuffer
         \/ pc[r] \in DropSendOps /\ s.h \notin request_to_local_clock[r]
    ELSE \/ LengthMismatch(r)
         \/ pc[r] \in CompletionOps /\ s.h \notin irecv_request_map[r]

(* The loop ends in exit(1). *)
LoopExits(r) ==
  /\ InLoop(r, CompletionOps \union BlockingOps)
  /\ Aborts(r, Head(todo[r]))
  /\ Goto(r, "Exited")
  /\ UNCHANGED <<clmpiVars, mpiVars, count, todo, coll_max, histVars>>

(* The wrapper returns; the Test wrappers forget the registered buffer. *)
Returns(r) ==
  /\ pc[r] \in CompletionOps \union BlockingOps
  /\ todo[r] = <<>>
  /\ registered_buff_length' =
       IF pc[r] \in TestOps
         THEN [registered_buff_length EXCEPT ![r] = NoBuffer]
         ELSE registered_buff_length
  /\ Goto(r, "Idle")
  /\ expect' = [expect EXCEPT ![r] = Nothing]
  /\ UNCHANGED <<local_clock, sync_clock, buff, irecv_request_map,
                 request_to_local_clock, mpiVars, count, todo, coll_max,
                 past, coll_past, nticks>>

--------------------------------------------------------------------------------
(* Collective synchronisation, PNMPIMOD_collective_sync_clock *)

(* A rank enters PMPI_Allreduce with its clock. *)
CollectiveSync(r) ==
  /\ Calls(r, "Collective")
  /\ local_clock[r] < MaxClock
  /\ Goto(r, "Collective")
  /\ UNCHANGED <<clmpiVars, mpiVars, count, todo, coll_max, histVars>>

(* PMPI_Allreduce with MPI_MAX, once every rank is in it. *)
Allreduce ==
  /\ \A r \in Rank : pc[r] = "Collective"
  /\ \E q \in Rank :
       /\ \A r \in Rank : local_clock[r] <= local_clock[q]
       /\ coll_max' = local_clock[q]
  /\ coll_past' = UNION {past[r] : r \in Rank}
  /\ pc' = [r \in Rank |-> "Reduced"]
  /\ UNCHANGED <<clmpiVars, mpiVars, count, todo, past, nticks, expect>>

(* Mutant: a rank leaves only while all others are still there. *)
CollectiveReturnsTogether(r) ==
  /\ \A q \in Rank : pc[q] = "Reduced"
  /\ local_clock' = [local_clock EXCEPT ![r] = Ticked(r, coll_max)]
  /\ past' = [past EXCEPT ![r] = @ \union coll_past \union {coll_max}]
  /\ CountTicks(r, 1)
  /\ Goto(r, "Idle")
  /\ UNCHANGED <<sync_clock, registered_buff_length, buff, irecv_request_map,
                 request_to_local_clock, mpiVars, count, todo, coll_max,
                 coll_past, expect>>

CollectiveReturns(r) ==
  /\ pc[r] = "Reduced"
  /\ local_clock' = [local_clock EXCEPT ![r] = Ticked(r, coll_max)]
  /\ past' = [past EXCEPT ![r] = @ \union coll_past \union
                (IF sync_clock[r] THEN {coll_max} ELSE {})]
  /\ CountTicks(r, 1)
  /\ Goto(r, "Idle")
  /\ UNCHANGED <<sync_clock, registered_buff_length, buff, irecv_request_map,
                 request_to_local_clock, mpiVars, count, todo, coll_max,
                 coll_past, expect>>

--------------------------------------------------------------------------------
(* The rest of the interface in clmpi.h, used by the tool above CLMPI *)

(* Mutant: one slot too many is recorded. *)
RegisterRecvClocksLong(r, n) ==
  /\ pc[r] = "Idle"
  /\ Pending(r) # {}
  /\ registered_buff_length' = [registered_buff_length EXCEPT ![r] = n + 1]
  /\ buff' = [buff EXCEPT ![r] = [i \in 1..MaxCount |-> IF i <= n THEN 0 ELSE @[i]]]
  /\ UNCHANGED <<local_clock, sync_clock, irecv_request_map,
                 request_to_local_clock, mpiVars, ctlVars, histVars>>

(* PNMPIMOD_register_recv_clocks, by a tool that waits for requests *)
RegisterRecvClocks(r, n) ==
  /\ pc[r] = "Idle"
  /\ Pending(r) # {}
  /\ registered_buff_length' = [registered_buff_length EXCEPT ![r] = n]
  /\ buff' = [buff EXCEPT ![r] = [i \in 1..MaxCount |-> IF i <= n THEN 0 ELSE @[i]]]
  /\ UNCHANGED <<local_clock, sync_clock, irecv_request_map,
                 request_to_local_clock, mpiVars, ctlVars, histVars>>

(* PNMPIMOD_clock_control *)
ClockControl(r) ==
  /\ Calls(r, "Control")
  /\ sync_clock' = [sync_clock EXCEPT ![r] = ~ @]
  /\ UNCHANGED <<local_clock, registered_buff_length, buff, irecv_request_map,
                 request_to_local_clock, mpiVars, ctlVars, histVars>>

(* PNMPIMOD_sync_clock *)
SyncClock(r, c) ==
  /\ Calls(r, "Client")
  /\ local_clock[r] < MaxClock
  /\ local_clock' = [local_clock EXCEPT ![r] = Merged(r, c)]
  /\ UNCHANGED <<sync_clock, registered_buff_length, buff, irecv_request_map,
                 request_to_local_clock, mpiVars, ctlVars, histVars>>

(* CLMPI_set_pb_clock; the tool is trusted not to turn the clock back. *)
SetPbClock(r, c) ==
  /\ Calls(r, "Client")
  /\ local_clock[r] < c
  /\ local_clock' = [local_clock EXCEPT ![r] = c]
  /\ UNCHANGED <<sync_clock, registered_buff_length, buff, irecv_request_map,
                 request_to_local_clock, mpiVars, ctlVars, histVars>>

--------------------------------------------------------------------------------
Completes(r) ==
  \/ MPI_Wait(r) \/ MPI_Waitany(r) \/ MPI_Waitsome(r) \/ MPI_Waitall(r)
  \/ MPI_Test(r) \/ MPI_Testany(r) \/ MPI_Testsome(r) \/ MPI_Testall(r)
  \/ Unregistered(r)

(* Steps a rank takes inside a wrapper once PMPI has returned *)
Continues(r) ==
  \/ SyncRecv(r) \/ SyncSend(r) \/ LoopExits(r) \/ Returns(r)
  \/ CollectiveReturns(r)

Next ==
  \/ \E r, d \in Rank : MPI_Send(r, d) \/ MPI_Isend(r, d) \/ MPI_Sendrecv(r, d)
  \/ \E r \in Rank :
       \/ MPI_Irecv(r) \/ MPI_Recv(r) \/ SendrecvReceives(r) \/ Completes(r)
       \/ SendReturns(r) \/ Continues(r)
       \/ CollectiveSync(r)
       \/ ClockControl(r)
       \/ \E n \in 1..MaxCount : RegisterRecvClocks(r, n)
       \/ \E c \in ClientClock : SyncClock(r, c) \/ SetPbClock(r, c)
  \/ Allreduce

Spec == Init /\ [][Next]_vars

(* A rank inside a wrapper goes on when its PMPI call has returned, and    *)
(* PMPI_Allreduce returns once every rank is in it.  PMPI_Send may wait    *)
(* for a receiver that never comes, so nothing is assumed of it.           *)
Fairness == WF_vars(Allreduce) /\ \A r \in Rank : WF_vars(Continues(r))

FairSpec == Spec /\ Fairness

--------------------------------------------------------------------------------
(* Properties *)

(* Type invariant of the clock layer's statics and of the model's control. *)
TypeOK ==
  /\ local_clock \in [Rank -> Nat]
  /\ sync_clock \in [Rank -> BOOLEAN]
  /\ registered_buff_length \in [Rank -> {NoBuffer} \union (1..MaxCount)]
  /\ buff \in [Rank -> [1..MaxCount -> Nat]]
  /\ irecv_request_map \in [Rank -> SUBSET Handle]
  /\ request_to_local_clock \in [Rank -> SUBSET Handle]
  /\ req \in [Rank -> [Handle -> {"none", "send", "recv"}]]
  /\ net \in SUBSET Message
  /\ nsent \in [Rank -> Nat]
  /\ pc \in [Rank -> CompletionOps \union BlockingOps \union
               {"Idle", "Send", "SendrecvPosted", "Collective", "Reduced", "Exited"}]
  /\ count \in [Rank -> 0..MaxCount]
  /\ todo \in [Rank -> Seq(Status)]
  /\ coll_max \in Nat
  /\ past \in [Rank -> SUBSET Nat]
  /\ coll_past \in SUBSET Nat
  /\ nticks \in [Rank -> Nat]

(* Messages a wrapper has received and not yet merged into the clock *)
Unmerged(r) == {todo[r][k].msg : k \in DOMAIN todo[r]} \ {NoMessage}

(* Lamport's condition, for the stamps CLMPI ships (README.md, the clock   *)
(* rules): a message carries a larger clock than every send and collective *)
(* it causally depends on, on whatever rank; and so will the next message  *)
(* of any rank.  Receives tick only after the merge, so this is about      *)
(* sends and collectives, the events whose clocks other ranks see.         *)
ClockCondition ==
  /\ \A r \in Rank : \A s \in past[r] : s < local_clock[r]
  /\ \A m \in net \union UNION {Unmerged(r) : r \in Rank} :
       \A s \in m.past : s < m.pb

(* README.md, the clock rules: every send and every receive of a rank      *)
(* whose clock is on advances the clock by one at least.  A send in        *)
(* MPI_Send has not ticked yet.                                            *)
EveryEventTicks ==
  \A r \in Rank : local_clock[r] >= InitialClock + nticks[r]

(* irecv_request_map holds exactly the receive requests the application    *)
(* still has pending, or whose status the running wrapper has yet to look  *)
(* at: whatever handles MPI hands out again, no slot of a registered       *)
(* buffer is initialised for the wrong kind of request, and                *)
(* clmpi_irecv_test_erase finds its request.                               *)
IrecvMapExact ==
  \A r \in Rank :
    irecv_request_map[r] =
      {h \in Handle :
         \/ req[r][h] = "recv"
         \/ \E k \in DOMAIN todo[r] :
              todo[r][k].h = h /\ todo[r][k].msg # NoMessage}

(* PNMPIMOD_get_num_of_incomplete_sending_msg never misses an incomplete   *)
(* nonblocking send, although completed ones may leave their handle behind *)
(* and MPI hands the handle out again.                                     *)
SendsNeverMissed ==
  \A r \in Rank : {h \in Handle : req[r][h] = "send"} \subseteq request_to_local_clock[r]

(* When a completion wrapper is about to return, the registered buffer     *)
(* tells the tool, at the index of each request of the array, the clock of *)
(* the message the request received, or that the request is a send or an   *)
(* unmatched receive (clmpi_init_registered_clocks: request[i] owns slot i).*)
SlotsMatchRequests ==
  \A r \in Rank :
    pc[r] \in CompletionOps /\ todo[r] = <<>> =>
      \A i \in DOMAIN expect[r] : buff[r][i] = expect[r][i]

(* No exit(1): an application that registers a buffer of the right length  *)
(* before every completion call is never aborted by the clock layer.       *)
NoAbort == \A r \in Rank : pc[r] # "Exited"

(* A wrapper works off its statuses and returns or aborts, and a           *)
(* collective synchronisation returns on every rank once all ranks have    *)
(* entered it, although the fast ranks may be sending again by then.       *)
WrappersReturn ==
  \A r \in Rank :
    /\ pc[r] \in CompletionOps \union BlockingOps
         ~> pc[r] \in {"Idle", "Exited"}
    /\ (\A q \in Rank : pc[q] = "Collective") ~> pc[r] = "Idle"

--------------------------------------------------------------------------------
(* Clmpi implements the rules of README.md: a send takes effect when the   *)
(* message leaves, a receive when its clock is merged, a collective when   *)
(* PMPI_Allreduce has its result.                                          *)
EffectiveClock(r) ==
  CASE pc[r] = "Send" -> Ticked(r, local_clock[r])
    [] pc[r] = "Reduced" -> Ticked(r, coll_max)
    [] OTHER -> local_clock[r]

Stamped(m) == [src |-> m.src, seq |-> m.seq, dst |-> m.dst, stamp |-> m.pb]

Abstract == INSTANCE LamportClock WITH
  clock <- [r \in Rank |-> EffectiveClock(r)],
  switchedOn <- sync_clock,
  sent <- nsent,
  inFlight <- {Stamped(m) : m \in net \union UNION {Unmerged(r) : r \in Rank}}

ImplementsRules == Abstract!LCSpec
================================================================================
