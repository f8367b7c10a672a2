------------------------------- MODULE Piggyback -------------------------------
(***************************************************************************)
(* The piggyback layer of CLMPI (src/src/clmpi_piggyback.c, built with     *)
(* PB_DATATYPE2) over the request layer, on a rank that sends messages to  *)
(* itself.                                                                 *)
(*                                                                         *)
(* A message and its clock travel as one datatype made of two addresses.   *)
(* MPI reads and writes behind these addresses until the request is done,  *)
(* so a nonblocking call needs memory for the clock that outlives it:      *)
(* malloced, remembered in the request's slot, and freed on completion.    *)
(* The memory of the payload is the application's and is left out.         *)
(*                                                                         *)
(* One thread calls the layer; persistent and cancelled requests are not   *)
(* passed to it here.  A PMPI call may fail once MPI has given up all its  *)
(* requests, whether or not their messages went through.                   *)
(***************************************************************************)
EXTENDS RequestTable

CONSTANTS
  Buf,        \* addresses malloc hands out
  Out,        \* the address in pb_outbuffer
  Wild,       \* the pointer in memory nobody has written
  Clock,      \* clocks the layer above ships
  MaxMessage  \* bound: messages sent

ASSUME PiggybackAssumption ==
  /\ Out \notin Buf
  /\ Wild \notin Buf \union {Out}
  /\ Clock \subseteq Nat
  /\ MaxMessage \in Nat

Freed == -2   \* content of an address that is not allocated
Junk == -1    \* content of allocated memory nobody has written
Nobody == "nobody"  \* the request of an operation whose request was freed

ASSUME NobodyAssumption == Nobody \notin Handle

VARIABLES
  heap,       \* heap[a]: what is at address a
  data,       \* reqtable.data: the pointer kept with each slot
  posted,     \* operations MPI works on, with the address of the clock
  net,        \* messages on their way
  nsent,      \* messages sent
  statuses,   \* statuses ASYNC_COMPLETE has not reached
  abandoned   \* history: addresses of operations freed by MPI_Request_free

pbVars == <<heap, data, posted, net, nsent, statuses, abandoned>>
allVars == <<vars, pbVars>>

(* An operation: its request, the address MPI was given, whether MPI has   *)
(* moved the clock, and of which message it is (a receive: once moved).    *)
Operation == [h : Handle \union {Nobody}, kind : Kind, addr : Buf \union {Out},
              moved : BOOLEAN, id : 0..MaxMessage]

Message == [id : 0..MaxMessage, pb : Clock \union {Junk, Freed}]

(* What the request layer leaves in a status for the piggyback layer; the  *)
(* message a receive got is history.                                       *)
StatusInfo == [kind : Kind, inreq : Handle \union {NULL, Nobody},
               ptr : Buf \union {Out, Wild}, moved : BOOLEAN, id : 0..MaxMessage]

PBInit ==
  /\ Init
  /\ heap = [a \in Buf \union {Out} |-> IF a = Out THEN Junk ELSE Freed]
  /\ data = [i \in Slots |-> Wild]
  /\ posted = {}
  /\ net = {}
  /\ nsent = 0
  /\ statuses = <<>>
  /\ abandoned = {}

--------------------------------------------------------------------------------
Unallocated == {a \in Buf : heap[a] = Freed}

PBIdle == statuses = <<>>

(* Mutant: the array of pointers is reallocated without its old contents. *)
StoredFresh(h, a) ==
  data' = [i \in Slots' |->
             IF i = requestmap'[h] THEN a
             ELSE IF i \in Slots /\ size' = size THEN data[i] ELSE Wild]

(* Mutant: the array of pointers does not grow with the table. *)
StoredShort(h, a) ==
  data' = [i \in Slots |-> IF i = requestmap'[h] THEN a ELSE data[i]]

(* PBPTR_STORAGE, after the request layer has given the request a slot:    *)
(* allocate_new_reqtable has moved the pointers of the old slots along.    *)
Stored(h, a) ==
  data' = [i \in Slots' |->
             IF i = requestmap'[h] THEN a
             ELSE IF i \in Slots THEN data[i] ELSE Wild]

--------------------------------------------------------------------------------
(* Mutant: MPI is given pb_outbuffer in place of the copy. *)
PB_MPI_IsendShared(h, c) ==
  /\ PBIdle
  /\ nsent < MaxMessage
  /\ MPI_Isend(h, "send")
  /\ \E a \in Unallocated :
       /\ heap' = [heap EXCEPT ![Out] = c, ![a] = c]
       /\ Stored(h, a)
       /\ posted' = posted \union
            {[h |-> h, kind |-> "send", addr |-> Out, moved |-> FALSE, id |-> nsent]}
  /\ nsent' = nsent + 1
  /\ UNCHANGED <<net, statuses, abandoned>>

(* MPI_Isend, MPI_Ibsend, MPI_Irsend, MPI_Issend, after the clock layer    *)
(* has set pb_outbuffer: the clock is copied to memory of the request.     *)
PB_MPI_Isend(h, c) ==
  /\ PBIdle
  /\ nsent < MaxMessage
  /\ MPI_Isend(h, "send")
  /\ \E a \in Unallocated :
       /\ heap' = [heap EXCEPT ![Out] = c, ![a] = c]
       /\ Stored(h, a)
       /\ posted' = posted \union
            {[h |-> h, kind |-> "send", addr |-> a, moved |-> FALSE, id |-> nsent]}
  /\ nsent' = nsent + 1
  /\ UNCHANGED <<net, statuses, abandoned>>

(* MPI_Irecv *)
PB_MPI_Irecv(h) ==
  /\ PBIdle
  /\ MPI_Isend(h, "recv")
  /\ \E a \in Unallocated :
       /\ heap' = [heap EXCEPT ![a] = Junk]
       /\ Stored(h, a)
       /\ posted' = posted \union
            {[h |-> h, kind |-> "recv", addr |-> a, moved |-> FALSE, id |-> 0]}
  /\ UNCHANGED <<net, nsent, statuses, abandoned>>

(* MPI_Send, MPI_Bsend, MPI_Rsend, MPI_Ssend: MPI reads pb_outbuffer       *)
(* before the call returns.                                                *)
PB_MPI_Send(c) ==
  /\ Idle /\ PBIdle
  /\ nsent < MaxMessage
  /\ heap' = [heap EXCEPT ![Out] = c]
  /\ net' = net \union {[id |-> nsent, pb |-> c]}
  /\ nsent' = nsent + 1
  /\ UNCHANGED <<vars, data, posted, statuses, abandoned>>

(* MPI_Recv: MPI writes the clock to the status. *)
PB_MPI_Recv ==
  /\ Idle /\ PBIdle
  /\ \E m \in net : net' = net \ {m}
  /\ UNCHANGED <<vars, heap, data, posted, nsent, statuses, abandoned>>

(* MPI_Sendrecv, and MPI_Sendrecv_replace, which sends the clock from the  *)
(* status.                                                                 *)
PB_MPI_Sendrecv(c) ==
  /\ Idle /\ PBIdle
  /\ nsent < MaxMessage
  /\ heap' = [heap EXCEPT ![Out] = c]
  /\ LET both == net \union {[id |-> nsent, pb |-> c]} IN
       \E m \in both : net' = both \ {m}
  /\ nsent' = nsent + 1
  /\ UNCHANGED <<vars, data, posted, statuses, abandoned>>

--------------------------------------------------------------------------------
(* MPI reads the clock of a nonblocking send at any time before the send   *)
(* completes, and writes the clock of a receive likewise.                  *)
Transmit ==
  \E p \in posted :
    /\ p.kind = "send" /\ ~ p.moved
    /\ net' = net \union {[id |-> p.id, pb |-> heap[p.addr]]}
    /\ posted' = (posted \ {p}) \union {[p EXCEPT !.moved = TRUE]}
    /\ UNCHANGED <<vars, heap, data, nsent, statuses, abandoned>>

Deliver ==
  \E p \in posted : \E m \in net :
    /\ p.kind = "recv" /\ ~ p.moved
    /\ net' = net \ {m}
    /\ heap' = [heap EXCEPT ![p.addr] = IF @ = Freed THEN Freed ELSE m.pb]
    /\ posted' = (posted \ {p}) \union {[p EXCEPT !.moved = TRUE, !.id = m.id]}
    /\ UNCHANGED <<vars, data, nsent, statuses, abandoned>>

(* PMPI completes operations whose clock has moved, or fails. *)
PB_Completes(hs) ==
  /\ PBIdle
  /\ PMPI_Completes(hs)
  /\ \A i \in DOMAIN hs :
       hs[i] # NULL => \E p \in posted : p.h = hs[i] /\ (p.moved \/ failed')
  /\ UNCHANGED pbVars

(* The request layer's loop fills in a status. *)
PB_LoopStep ==
  /\ LoopStep
  /\ LET h == Head(todo)
         info == [kind |-> reqs[Slot(h)].kind, inreq |-> reqs[Slot(h)].inreq,
                  ptr |-> data[Slot(h)], moved |-> FALSE, id |-> 0]
         done == {p \in posted : p.h = h} IN
       /\ IF done = {}
            THEN statuses' = Append(statuses, info)
            ELSE \E p \in done :
                   statuses' = Append(statuses, [info EXCEPT !.moved = p.moved, !.id = p.id])
       /\ posted' = posted \ done
  /\ UNCHANGED <<heap, data, net, nsent, abandoned>>

(* Mutant: only the memory of receives is freed. *)
AsyncCompleteRecvOnly ==
  /\ Idle
  /\ statuses # <<>>
  /\ LET s == Head(statuses) IN
       heap' = IF s.kind = "recv" /\ s.ptr \in Buf THEN [heap EXCEPT ![s.ptr] = Freed] ELSE heap
  /\ statuses' = Tail(statuses)
  /\ UNCHANGED <<vars, data, posted, net, nsent, abandoned>>

(* ASYNC_COMPLETE, in the loops of the Wait and Test wrappers, which do    *)
(* not look at the error code: the clock is copied to the status and its   *)
(* memory freed.                                                           *)
AsyncComplete ==
  /\ Idle
  /\ statuses # <<>>
  /\ LET s == Head(statuses) IN
       heap' = IF s.inreq # NULL /\ s.ptr \in Buf
                 THEN [heap EXCEPT ![s.ptr] = Freed] ELSE heap
  /\ statuses' = Tail(statuses)
  /\ UNCHANGED <<vars, data, posted, net, nsent, abandoned>>

(* MPI_Request_free and failed MPI_Test pass through this layer; MPI goes  *)
(* on with the operation of a freed request.                               *)
PB_MPI_Request_free(h) ==
  /\ PBIdle
  /\ MPI_Request_free(h)
  /\ posted' = {[p EXCEPT !.h = IF @ = h THEN Nobody ELSE @] : p \in posted}
  /\ abandoned' = abandoned \union {data[Slot(h)]}
  /\ UNCHANGED <<heap, data, net, nsent, statuses>>

PB_MPI_TestFails(h) ==
  /\ PBIdle
  /\ MPI_TestFails(h)
  /\ UNCHANGED pbVars

PBNext ==
  \/ \E h \in Handle, c \in Clock : PB_MPI_Isend(h, c)
  \/ \E h \in Handle : PB_MPI_Irecv(h) \/ PB_MPI_Request_free(h) \/ PB_MPI_TestFails(h)
  \/ \E c \in Clock : PB_MPI_Send(c) \/ PB_MPI_Sendrecv(c)
  \/ PB_MPI_Recv
  \/ Transmit \/ Deliver
  \/ \E n \in 1..MaxCount : \E hs \in [1..n -> Completable] : PB_Completes(hs)
  \/ PB_LoopStep
  \/ AsyncComplete

PBSpec == PBInit /\ [][PBNext]_allVars

--------------------------------------------------------------------------------
(* Properties *)

PBTypeOK ==
  /\ heap \in [Buf \union {Out} -> Clock \union {Freed, Junk}]
  /\ data \in [Slots -> Buf \union {Wild}]
  /\ posted \subseteq Operation
  /\ net \subseteq Message
  /\ statuses \in Seq(StatusInfo)
  /\ abandoned \subseteq Buf

(* Requests that still have to pass ASYNC_COMPLETE *)
Outstanding ==
  ({h \in Handle : state[h] = "active"} \union {todo[i] : i \in DOMAIN todo}) \ {NULL}

(* PBPTR_STORAGE and ASYNC_COMPLETE: the memory of every outstanding       *)
(* request and of every status ASYNC_COMPLETE has yet to see is allocated, *)
(* and belongs to it alone: nothing is freed twice, whatever slots requests *)
(* reuse and however the table grows, and MPI only ever works on memory    *)
(* that is still there.                                                    *)
BuffersExclusive ==
  /\ \A h \in Outstanding : data[Slot(h)] \notin Unallocated \union {Wild}
  /\ \A h, g \in Outstanding : data[Slot(h)] = data[Slot(g)] => h = g
  /\ \A i \in DOMAIN statuses : statuses[i].ptr \notin Unallocated \union {Wild}
  /\ \A i, j \in DOMAIN statuses : statuses[i].ptr = statuses[j].ptr => i = j
  /\ \A i \in DOMAIN statuses, h \in Outstanding : statuses[i].ptr # data[Slot(h)]
  /\ \A p \in posted : ~ p.moved => p.addr \notin Unallocated

(* The memory of completed requests is given back: what is allocated is    *)
(* the memory of outstanding requests, of statuses under way, and of       *)
(* requests the application gave up with MPI_Request_free.                 *)
BuffersAccounted ==
  Buf \ Unallocated =
    {data[Slot(h)] : h \in Outstanding} \union
    {statuses[i].ptr : i \in DOMAIN statuses} \union abandoned

(* Message and clock stay together: the layer implements a channel whose   *)
(* messages keep the value the clock layer set for them, even when it sets *)
(* pb_outbuffer again before MPI has read the first one: on the wire, in   *)
(* the memory of the receiving request, and in the status until            *)
(* ASYNC_COMPLETE has copied it for the layer above.                       *)
InFlight ==
  net \union
  {[id |-> p.id, pb |-> heap[p.addr]] :
     p \in {p \in posted : p.moved <=> p.kind = "recv"}} \union
  {[id |-> s.id, pb |-> heap[s.ptr]] :
     s \in {statuses[i] : i \in {i \in DOMAIN statuses :
                                statuses[i].kind = "recv" /\ statuses[i].moved}}}

Channel == INSTANCE PiggybackChannel WITH
  Value <- Clock, sent <- nsent, flight <- InFlight

ImplementsChannel == Channel!PCSpec
================================================================================
