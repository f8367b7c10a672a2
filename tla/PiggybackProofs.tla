---------------------------- MODULE PiggybackProofs ----------------------------
(***************************************************************************)
(* Proofs about the piggyback layer over the request layer, for every      *)
(* number of requests, addresses, clocks and messages: MPI works on memory *)
(* that is still there, none of it is shared, freed twice or forgotten,    *)
(* and the layer implements a channel whose messages keep their values.    *)
(*                                                                         *)
(* They assume that the application passes no MPI_REQUEST_NULL, for which  *)
(* the request layer reports the request and the memory of slot 0.         *)
(***************************************************************************)
EXTENDS Piggyback, RequestTableProofs

--------------------------------------------------------------------------------
(* The inductive invariant *)

(* The address kept in the slot of each request in use *)
Kept == [h \in InUse |-> data[Slot(h)]]

(* Only requests that are not persistent come this way, and a status has   *)
(* the request that the layer below stored in it.                          *)
PlainInv ==
  /\ \A h \in Handle : state[h] \in {"none", "active"}
  /\ \A i \in DOMAIN todo : todo[i] \in Handle
  /\ \A i \in DOMAIN statuses : statuses[i].inreq \in Handle

(* MPI works for each request in use on one operation, which has the       *)
(* address kept with the request and is a receive if the table says so;    *)
(* its other operations are those of requests that were freed.             *)
OpsInv ==
  /\ \A p, q \in posted : p.addr = q.addr => p = q
  /\ \A p \in posted : p.h = Nobody => p.addr \in abandoned
  /\ \A p \in posted : p.h # Nobody =>
       p.h \in InUse /\ p.addr = Kept[p.h] /\ p.kind = ParamsOf[p.h].kind
  /\ \A h \in InUse : \E p \in posted : p.h = h

(* An address is kept with one request, or is in one status, or belongs to *)
(* requests that were freed, or is not allocated.                          *)
MemInv ==
  /\ \A h \in InUse : Kept[h] \in Buf /\ heap[Kept[h]] # Freed /\ Kept[h] \notin abandoned
  /\ \A h, g \in InUse : Kept[h] = Kept[g] => h = g
  /\ \A i \in DOMAIN statuses :
       /\ statuses[i].ptr \in Buf /\ heap[statuses[i].ptr] # Freed
       /\ statuses[i].ptr \notin abandoned
  /\ \A i, j \in DOMAIN statuses : statuses[i].ptr = statuses[j].ptr => i = j
  /\ \A i \in DOMAIN statuses, h \in InUse : statuses[i].ptr # Kept[h]
  /\ \A a \in abandoned : a \in Buf /\ heap[a] # Freed
  /\ \A a \in Buf : heap[a] # Freed =>
       \/ \E h \in InUse : Kept[h] = a
       \/ \E i \in DOMAIN statuses : statuses[i].ptr = a
       \/ a \in abandoned

(* The addresses that hold the clock of a message on its way: of sends     *)
(* before MPI has read it, of receives after MPI has written it, and of    *)
(* receives that ASYNC_COMPLETE has yet to see.                            *)
OpMoves(p) == p.moved <=> p.kind = "recv"
StatusMoves(s) == s.kind = "recv" /\ s.moved
MovingOps == {[addr |-> p.addr, id |-> p.id] : p \in {p \in posted : OpMoves(p)}}
MovingStatuses ==
  {[addr |-> statuses[i].ptr, id |-> statuses[i].id] :
     i \in {i \in DOMAIN statuses : StatusMoves(statuses[i])}}
Moving == MovingOps \union MovingStatuses

(* A message is on its way once: on the wire, or at one address. *)
FlightInv ==
  /\ nsent \in 0..MaxMessage
  /\ \A m \in net : m.id \in 0..(nsent - 1)
  /\ \A c \in Moving : c.id \in 0..(nsent - 1)
  /\ \A m, n \in net : m.id = n.id => m = n
  /\ \A c, d \in Moving : c.id = d.id => c = d
  /\ \A m \in net, c \in Moving : m.id # c.id

(* MPI never reads memory that was freed. *)
NetInv == \A m \in net : m.pb # Freed

PBInv == PlainInv /\ OpsInv /\ MemInv /\ FlightInv /\ NetInv

--------------------------------------------------------------------------------
(* What the steps of the request layer do to the requests in use, their    *)
(* slots, and so to the addresses kept with them                           *)

LEMMA KeptAt ==
  ASSUME TypeOK, TableInv, PBTypeOK
  PROVE  /\ DOMAIN Kept = InUse
         /\ InUse \subseteq Handle /\ Nobody \notin InUse /\ NULL \notin InUse
         /\ \A h \in InUse : /\ Slot(h) = requestmap[h] /\ Slot(h) \in Slots
                             /\ Kept[h] = data[Slot(h)] /\ Kept[h] \in Buf \union {Wild}
                             /\ ParamsOf[h] = reqs[Slot(h)] /\ ParamsOf[h] \in Params
                             /\ ParamsOf[h].inreq = h /\ ParamsOf[h].kind \in Kind
<1>1. \A h \in InUse : /\ Slot(h) = requestmap[h] /\ Slot(h) \in Slots /\ h \in Handle
                       /\ ParamsOf[h] = reqs[Slot(h)] /\ ParamsOf[h] \in Params
                       /\ ParamsOf[h].inreq = h
  BY ParamsAt DEF TableInv, OwnInv
<1>2. data \in [Slots -> Buf \union {Wild}]
  BY DEF PBTypeOK
<1>3. \A p \in Params : p.kind \in Kind
  BY DEF Params
<1>4. \A h \in InUse : Kept[h] = data[Slot(h)] /\ Kept[h] \in Buf \union {Wild}
  BY <1>1, <1>2 DEF Kept
<1> QED
  BY <1>1, <1>3, <1>4, NobodyAssumption, TableAssumption DEF Kept

(* A new request, and the address stored with it. *)
LEMMA KeptCreate ==
  ASSUME TypeOK, TableInv, PBTypeOK, NEW h \in Handle, NEW kind \in Kind, MPI_Isend(h, kind),
         NEW a \in Buf, Stored(h, a)
  PROVE  /\ h \notin InUse /\ InUse' = InUse \union {h}
         /\ Kept' = [g \in InUse \union {h} |-> IF g = h THEN a ELSE Kept[g]]
         /\ ParamsOf'[h].kind = kind /\ \A g \in InUse : ParamsOf'[g] = ParamsOf[g]
         /\ data' \in [Slots' -> Buf \union {Wild}]
         /\ state' = [state EXCEPT ![h] = "active"] /\ todo = <<>> /\ todo' = todo
<1> DEFINE p == [kind |-> kind, persistent |-> FALSE, active |-> TRUE, inreq |-> h]
<1>1. p \in Params /\ p.kind = kind
  BY DEF Params
<1>2. /\ state[h] = "none" /\ state' = [state EXCEPT ![h] = "active"]
      /\ todo = <<>> /\ UNCHANGED <<todo, lost>> /\ Associate(h, p)
  BY DEF MPI_Isend, Idle, failVars
<1> HIDE DEF p
<1>3. h \notin InUse /\ InUse' = InUse \union {h}
  BY <1>2 DEF InUse, TypeOK
<1>4. /\ Slots \subseteq Slots'
      /\ DOMAIN requestmap' = DOMAIN requestmap \union {h}
      /\ \A g \in DOMAIN requestmap : g # h => requestmap'[g] = requestmap[g]
      /\ requestmap'[h] \in Slots' \ (Used \union lost)
      /\ reqs'[requestmap'[h]] = p
      /\ \A i \in Slots : i # requestmap'[h] => reqs'[i] = reqs[i]
  BY <1>1, <1>2, AssociateTakes DEF TableInv
<1>5. \A g \in InUse : /\ Slot(g)' = Slot(g) /\ Slot(g) # requestmap'[h] /\ Slot(g) \in Slots
                       /\ requestmap'[g] = requestmap[g] /\ g \in DOMAIN requestmap
  <2>1. \A g \in InUse : /\ g # h /\ g \in DOMAIN requestmap /\ Slot(g) = requestmap[g]
                         /\ Slot(g) \in Slots /\ requestmap[g] \in Used
    BY <1>3, ParamsAt DEF TableInv, Used
  <2> QED
    BY <1>4, <2>1 DEF Slot
<1>6. Slot(h)' = requestmap'[h]
  BY <1>4 DEF Slot
<1>7. \A i \in Slots' : data'[i] = IF i = requestmap'[h] THEN a
                                   ELSE IF i \in Slots THEN data[i] ELSE Wild
  BY DEF Stored
<1>8. Kept' = [g \in InUse \union {h} |-> IF g = h THEN a ELSE Kept[g]]
  <2>1. Kept' = [g \in InUse \union {h} |-> data'[Slot(g)']]
    BY <1>3 DEF Kept
  <2>2. \A g \in InUse : data'[Slot(g)'] = Kept[g] /\ g # h
    BY <1>3, <1>4, <1>5, <1>7 DEF Kept
  <2>3. data'[Slot(h)'] = a
    BY <1>4, <1>6, <1>7
  <2> QED
    BY <2>1, <2>2, <2>3
<1>9. /\ ParamsOf'[h].kind = kind
      /\ \A g \in InUse : ParamsOf'[g] = ParamsOf[g]
  <2>1. ParamsOf' = [g \in InUse \union {h} |-> reqs'[Slot(g)']]
    BY <1>3 DEF ParamsOf
  <2>2. \A g \in InUse : reqs'[Slot(g)'] = reqs[Slot(g)]
    BY <1>4, <1>5
  <2> QED
    BY <1>1, <1>4, <1>6, <2>1, <2>2 DEF ParamsOf
<1>10. data' \in [Slots' -> Buf \union {Wild}]
  <2>1. data \in [Slots -> Buf \union {Wild}]
    BY DEF PBTypeOK
  <2>2. \A i \in Slots' : data'[i] \in Buf \union {Wild}
    BY <1>7, <2>1
  <2> QED
    BY <2>2 DEF Stored
<1> QED
  BY <1>2, <1>3, <1>8, <1>9, <1>10

(* A step in which no slot changes hands, but for that of a request that   *)
(* is done with.                                                           *)
LEMMA KeptSubset ==
  ASSUME TypeOK, TableInv, PBTypeOK, InUse' \subseteq InUse, UNCHANGED data,
         \A g \in InUse' : /\ g \in DOMAIN requestmap' /\ requestmap'[g] = requestmap[g]
                           /\ reqs'[requestmap[g]] = reqs[requestmap[g]]
  PROVE  /\ Kept' = [g \in InUse' |-> Kept[g]]
         /\ \A g \in InUse' : ParamsOf'[g] = ParamsOf[g]
<1>1. \A g \in InUse' : Slot(g)' = Slot(g) /\ reqs'[Slot(g)] = reqs[Slot(g)]
  BY KeptAt DEF Slot
<1>2. Kept' = [g \in InUse' |-> data[Slot(g)']]
  BY DEF Kept
<1>3. ParamsOf' = [g \in InUse' |-> reqs'[Slot(g)']]
  BY DEF ParamsOf
<1> QED
  BY <1>1, <1>2, <1>3 DEF Kept, ParamsOf

(* The loop of a wrapper is done with the first of the completed requests. *)
LEMMA KeptLoop ==
  ASSUME TypeOK, TableInv, PBTypeOK, PlainInv, LoopStep, UNCHANGED data
  PROVE  LET h == Head(todo) IN
         /\ h \in InUse /\ InUse' = InUse \ {h}
         /\ Kept' = [g \in InUse \ {h} |-> Kept[g]]
         /\ \A g \in InUse \ {h} : ParamsOf'[g] = ParamsOf[g]
         /\ Slots' = Slots /\ UNCHANGED state
         /\ \A i \in DOMAIN todo' : todo'[i] \in Handle
<1> DEFINE h == Head(todo)
<1>1. /\ todo # <<>> /\ todo' = Tail(todo) /\ UNCHANGED state
      /\ IF failed THEN Keep(h) ELSE Free(h)
  BY DEF LoopStep
<1>2. /\ todo \in Seq(Handle \union {NULL}) /\ 1 \in DOMAIN todo /\ h = todo[1]
  BY <1>1 DEF TypeOK
<1>3. \A i \in DOMAIN todo' : todo'[i] \in Handle
  BY <1>1, <1>2 DEF PlainInv
<1>4. h \in Handle /\ h # NULL
  BY <1>2, TableAssumption DEF PlainInv
<1>5. /\ h \in InUse /\ state[h] = "none" /\ InUse' = InUse \ {h}
  <2>1. h \in InUse /\ state[h] \in {"none", "inactive"}
        /\ InUse' = IF h # NULL /\ state[h] = "none" THEN InUse \ {h} ELSE InUse
    BY <1>1, <1>4, PopTodo DEF TableInv
  <2> QED
    BY <1>4, <2>1 DEF PlainInv
<1> HIDE DEF h
<1>6. ~ reqs[Slot(h)].persistent
  BY <1>5, ParamsAt DEF TableInv, OwnInv
<1>7. /\ \/ requestmap' = Touched({h})
         \/ requestmap' = [g \in DOMAIN requestmap \ {h} |-> requestmap[g]]
      /\ UNCHANGED <<size, reqs>>
  <2>1. CASE failed
    BY <1>1, <2>1 DEF Keep, tableVars
  <2>2. CASE ~ failed
    BY <1>1, <1>4, <1>6, <2>2 DEF Free
  <2> QED
    BY <2>1, <2>2
<1>8. \A g \in InUse' : g \in DOMAIN requestmap' /\ requestmap'[g] = requestmap[g]
  <2>1. \A g \in InUse' : g \in DOMAIN requestmap /\ g # h
    BY <1>5, ParamsAt DEF TableInv
  <2>2. CASE requestmap' = Touched({h})
    BY <1>4, <2>1, <2>2, TouchedMap
  <2>3. CASE requestmap' = [g \in DOMAIN requestmap \ {h} |-> requestmap[g]]
    BY <2>1, <2>3
  <2> QED
    BY <1>7, <2>2, <2>3
<1>9. /\ Kept' = [g \in InUse' |-> Kept[g]]
      /\ \A g \in InUse' : ParamsOf'[g] = ParamsOf[g]
  BY <1>5, <1>7, <1>8, KeptSubset
<1>10. Slots' = Slots
  BY <1>7 DEF Slots
<1> QED
  BY <1>1, <1>3, <1>5, <1>9, <1>10 DEF h

(* MPI_Request_free is done with a request. *)
LEMMA KeptFree ==
  ASSUME TypeOK, TableInv, PBTypeOK, NEW h \in Handle, MPI_Request_free(h), UNCHANGED data
  PROVE  /\ h \in InUse /\ InUse' = InUse \ {h}
         /\ Kept' = [g \in InUse \ {h} |-> Kept[g]]
         /\ \A g \in InUse \ {h} : ParamsOf'[g] = ParamsOf[g]
         /\ Slots' = Slots /\ state' = [state EXCEPT ![h] = "none"]
         /\ todo = <<>> /\ todo' = todo
<1>1. /\ todo = <<>> /\ state[h] # "none" /\ state' = [state EXCEPT ![h] = "none"]
      /\ requestmap' = [g \in DOMAIN requestmap \ {h} |-> requestmap[g]]
      /\ reqs' = [reqs EXCEPT ![Slot(h)].persistent = FALSE]
      /\ UNCHANGED <<size, todo>>
  BY DEF MPI_Request_free, Idle
<1>2. h \in InUse /\ InUse' = InUse \ {h}
  BY <1>1 DEF InUse, TypeOK
<1>3. \A g \in InUse' : /\ g \in DOMAIN requestmap' /\ requestmap'[g] = requestmap[g]
                        /\ reqs'[requestmap[g]] = reqs[requestmap[g]]
  <2>1. \A g \in InUse' : /\ g \in DOMAIN requestmap /\ g # h /\ requestmap[g] \in Slots
                          /\ requestmap[g] # Slot(h)
    BY <1>2, ParamsAt DEF TableInv, OwnInv
  <2>2. DOMAIN reqs = Slots
    BY DEF TypeOK
  <2> QED
    BY <1>1, <2>1, <2>2
<1>4. Slots' = Slots
  BY <1>1 DEF Slots
<1> QED
  BY <1>1, <1>2, <1>3, <1>4, KeptSubset

(* A call that completes requests, and one that tests a request. *)
LEMMA KeptCompletes ==
  ASSUME TypeOK, TableInv, PBTypeOK, PlainInv, ~ PassesNull, UNCHANGED data,
         NEW n \in 1..MaxCount, NEW hs \in [1..n -> Completable], PMPI_Completes(hs)
  PROVE  /\ InUse' = InUse /\ Kept' = Kept /\ Slots' = Slots
         /\ \A g \in InUse : ParamsOf'[g] = ParamsOf[g]
         /\ \A h \in Handle : state'[h] \in {"none", "active"}
         /\ \A i \in DOMAIN todo' : todo'[i] \in Handle
<1>1. /\ todo = <<>> /\ todo' = hs
      /\ state' = [h \in Handle |->
                     IF \E i \in DOMAIN hs : hs[i] = h THEN Completed(state[h]) ELSE state[h]]
      /\ UNCHANGED <<tableVars, requestmap>>
  BY DEF PMPI_Completes, Idle
<1>2. \A i \in 1..n : hs[i] \in Handle /\ state[hs[i]] # "none"
  <2>1. Completable = {h \in Handle : state[h] # "none"}
    BY DEF Completable
  <2> QED
    BY <2>1
<1>3. \A h \in Handle : state'[h] \in {"none", "active"}
  BY <1>1 DEF Completed, PlainInv
<1>4. InUse' = InUse
  <2>1. \A h \in Handle : (state'[h] # "none" \/ \E i \in DOMAIN hs : hs[i] = h)
                            <=> state[h] # "none"
    BY <1>1, <1>2 DEF Completed, PlainInv
  <2> QED
    BY <1>1, <2>1 DEF InUse
<1>5. UNCHANGED <<size, reqs>> /\ Slots' = Slots
  BY <1>1 DEF tableVars, Slots
<1>6. /\ Kept' = [g \in InUse' |-> Kept[g]] /\ Kept = [g \in InUse |-> Kept[g]]
      /\ \A g \in InUse' : ParamsOf'[g] = ParamsOf[g]
  <2>1. \A g \in InUse' : g \in DOMAIN requestmap
    BY <1>4, ParamsAt DEF TableInv
  <2> QED
    BY <1>1, <1>4, <1>5, <2>1, KeptSubset DEF Kept
<1> QED
  BY <1>1, <1>2, <1>3, <1>4, <1>5, <1>6

LEMMA KeptTestFails ==
  ASSUME TypeOK, TableInv, PBTypeOK, UNCHANGED data, NEW h \in Handle, MPI_TestFails(h)
  PROVE  /\ InUse' = InUse /\ Kept' = Kept /\ Slots' = Slots
         /\ \A g \in InUse : ParamsOf'[g] = ParamsOf[g]
         /\ UNCHANGED <<state, todo>>
<1>1. requestmap' = Touched({h}) /\ UNCHANGED <<tableVars, state, todo>>
  BY DEF MPI_TestFails
<1>2. InUse' = InUse
  BY <1>1 DEF InUse
<1>3. UNCHANGED <<size, reqs>> /\ Slots' = Slots
  BY <1>1 DEF tableVars, Slots
<1>4. \A g \in InUse' : g \in DOMAIN requestmap' /\ requestmap'[g] = requestmap[g]
  BY <1>1, <1>2, ParamsAt, TouchedMap DEF TableInv
<1>5. /\ Kept' = [g \in InUse' |-> Kept[g]] /\ Kept = [g \in InUse |-> Kept[g]]
      /\ \A g \in InUse' : ParamsOf'[g] = ParamsOf[g]
  BY <1>2, <1>3, <1>4, KeptSubset DEF Kept
<1> QED
  BY <1>1, <1>2, <1>3, <1>5

--------------------------------------------------------------------------------
(* What a step does to the memory                                          *)

LEMMA AppendStatus ==
  ASSUME NEW S, NEW list \in Seq(S), NEW s \in S
  PROVE  LET longer == Append(list, s)
             n == Len(list) + 1 IN
         /\ longer \in Seq(S)
         /\ DOMAIN longer = DOMAIN list \union {n} /\ n \notin DOMAIN list
         /\ longer[n] = s
         /\ \A i \in DOMAIN list : longer[i] = list[i]
  OBVIOUS

LEMMA TailStatus ==
  ASSUME NEW S, NEW list \in Seq(S), list # <<>>
  PROVE  LET rest == Tail(list) IN
         /\ rest \in Seq(S)
         /\ 1 \in DOMAIN list /\ Head(list) = list[1]
         /\ \A i \in DOMAIN rest : /\ i + 1 \in DOMAIN list /\ i + 1 # 1 /\ i \in Nat
                                   /\ rest[i] = list[i + 1]
         /\ \A i \in DOMAIN list : i # 1 => i - 1 \in DOMAIN rest /\ rest[i - 1] = list[i]
  OBVIOUS

(* The memory of a new request. *)
LEMMA MemTake ==
  ASSUME OpsInv, MemInv, NEW h, h \notin InUse, h # Nobody, InUse' = InUse \union {h},
         NEW a \in Unallocated,
         Kept' = [g \in InUse \union {h} |-> IF g = h THEN a ELSE Kept[g]],
         \A g \in InUse : ParamsOf'[g] = ParamsOf[g],
         heap'[a] # Freed, \A b \in Buf : b # a => heap'[b] = heap[b],
         NEW o, o.h = h, o.addr = a, o.kind = ParamsOf'[h].kind,
         posted' = posted \union {o},
         UNCHANGED <<statuses, abandoned>>
  PROVE  OpsInv' /\ MemInv'
<1>1. a \in Buf /\ heap[a] = Freed
  BY DEF Unallocated
<1>2. Kept'[h] = a /\ \A g \in InUse : g # h /\ Kept'[g] = Kept[g] /\ Kept[g] # a
  BY <1>1 DEF MemInv
<1>3. \A p \in posted : p.addr # a
  BY <1>1, <1>2 DEF OpsInv, MemInv
<1>4. OpsInv'
  <2>1. \A p, q \in posted' : p.addr = q.addr => p = q
    BY <1>3 DEF OpsInv
  <2>2. \A p \in posted' : p.h = Nobody => p.addr \in abandoned'
    BY DEF OpsInv
  <2>3. \A p \in posted' : p.h # Nobody =>
          p.h \in InUse' /\ p.addr = Kept'[p.h] /\ p.kind = ParamsOf'[p.h].kind
    BY <1>2 DEF OpsInv
  <2>4. \A g \in InUse' : \E p \in posted' : p.h = g
    BY DEF OpsInv
  <2> QED
    BY <2>1, <2>2, <2>3, <2>4 DEF OpsInv
<1>5. MemInv'
  <2>1. \A g \in InUse' : Kept'[g] \in Buf /\ heap'[Kept'[g]] # Freed /\ Kept'[g] \notin abandoned'
    BY <1>1, <1>2 DEF MemInv
  <2>2. \A f, g \in InUse' : Kept'[f] = Kept'[g] => f = g
    BY <1>2 DEF MemInv
  <2>3. \A i \in DOMAIN statuses' :
          /\ statuses'[i].ptr \in Buf /\ heap'[statuses'[i].ptr] # Freed
          /\ statuses'[i].ptr \notin abandoned'
    BY <1>1 DEF MemInv
  <2>4. \A i, j \in DOMAIN statuses' : statuses'[i].ptr = statuses'[j].ptr => i = j
    BY DEF MemInv
  <2>5. \A i \in DOMAIN statuses', g \in InUse' : statuses'[i].ptr # Kept'[g]
    BY <1>1, <1>2 DEF MemInv
  <2>6. \A b \in abandoned' : b \in Buf /\ heap'[b] # Freed
    BY <1>1 DEF MemInv
  <2>7. \A b \in Buf : heap'[b] # Freed =>
          \/ \E g \in InUse' : Kept'[g] = b
          \/ \E i \in DOMAIN statuses' : statuses'[i].ptr = b
          \/ b \in abandoned'
    BY <1>1, <1>2 DEF MemInv
  <2> QED
    BY <2>1, <2>2, <2>3, <2>4, <2>5, <2>6, <2>7 DEF MemInv
<1> QED
  BY <1>4, <1>5

(* Requests, operations and what is allocated stay as they are. *)
LEMMA MemSame ==
  ASSUME OpsInv, MemInv, InUse' = InUse, Kept' = Kept,
         \A g \in InUse : ParamsOf'[g] = ParamsOf[g],
         \A b \in Buf : heap'[b] = Freed <=> heap[b] = Freed,
         UNCHANGED <<posted, statuses, abandoned>>
  PROVE  OpsInv' /\ MemInv'
<1>1. OpsInv'
  BY DEF OpsInv
<1>2. MemInv'
  BY DEF MemInv
<1> QED
  BY <1>1, <1>2

(* MPI moves the clock of an operation. *)
LEMMA MemMove ==
  ASSUME OpsInv, MemInv, InUse' = InUse, Kept' = Kept,
         \A g \in InUse : ParamsOf'[g] = ParamsOf[g],
         \A b \in Buf : heap'[b] = Freed <=> heap[b] = Freed,
         NEW p \in posted, NEW q, q.h = p.h, q.addr = p.addr, q.kind = p.kind,
         posted' = (posted \ {p}) \union {q},
         UNCHANGED <<statuses, abandoned>>
  PROVE  OpsInv' /\ MemInv'
<1>1. OpsInv'
  <2>1. \A r, s \in posted' : r.addr = s.addr => r = s
    BY DEF OpsInv
  <2>2. \A r \in posted' : r.h = Nobody => r.addr \in abandoned'
    BY DEF OpsInv
  <2>3. \A r \in posted' : r.h # Nobody =>
          r.h \in InUse' /\ r.addr = Kept'[r.h] /\ r.kind = ParamsOf'[r.h].kind
    BY DEF OpsInv
  <2>4. \A g \in InUse' : \E r \in posted' : r.h = g
    BY DEF OpsInv
  <2> QED
    BY <2>1, <2>2, <2>3, <2>4 DEF OpsInv
<1>2. MemInv'
  BY DEF MemInv
<1> QED
  BY <1>1, <1>2

(* The operation of a request in use is the only one at its address. *)
LEMMA OneOperation ==
  ASSUME OpsInv, NEW h \in InUse, h # Nobody
  PROVE  \E p \in posted : /\ p.h = h /\ p.addr = Kept[h] /\ p.kind = ParamsOf[h].kind
                           /\ {r \in posted : r.h = h} = {p}
<1>1. PICK p \in posted : p.h = h
  BY DEF OpsInv
<1>2. p.addr = Kept[h] /\ p.kind = ParamsOf[h].kind
  BY <1>1 DEF OpsInv
<1>3. \A r \in posted : r.h = h => r = p
  BY <1>1, <1>2 DEF OpsInv
<1> QED
  BY <1>1, <1>2, <1>3

(* The address of a completed request goes from its slot to a status. *)
LEMMA MemReport ==
  ASSUME OpsInv, MemInv, NEW h \in InUse, Nobody \notin InUse, InUse' = InUse \ {h},
         Kept' = [g \in InUse \ {h} |-> Kept[g]],
         \A g \in InUse \ {h} : ParamsOf'[g] = ParamsOf[g],
         posted' = posted \ {p \in posted : p.h = h},
         statuses \in Seq(StatusInfo), NEW s \in StatusInfo, s.ptr = Kept[h],
         statuses' = Append(statuses, s),
         UNCHANGED <<heap, abandoned>>
  PROVE  OpsInv' /\ MemInv'
<1> DEFINE n == Len(statuses) + 1
<1>1. /\ DOMAIN statuses' = DOMAIN statuses \union {n} /\ n \notin DOMAIN statuses
      /\ statuses'[n] = s
      /\ \A i \in DOMAIN statuses : statuses'[i] = statuses[i]
  BY AppendStatus
<1> HIDE DEF n
<1>2. \A g \in InUse' : g \in InUse /\ g # h /\ Kept'[g] = Kept[g] /\ ParamsOf'[g] = ParamsOf[g]
  OBVIOUS
<1>3. OpsInv'
  <2>1. \A p \in posted' : p \in posted /\ p.h # h
    OBVIOUS
  <2>2. \A p \in posted' : p.h # Nobody =>
          p.h \in InUse' /\ p.addr = Kept'[p.h] /\ p.kind = ParamsOf'[p.h].kind
    BY <1>2, <2>1 DEF OpsInv
  <2>3. \A g \in InUse' : \E p \in posted' : p.h = g
    BY <1>2 DEF OpsInv
  <2>4. \A p, q \in posted' : p.addr = q.addr => p = q
    BY <2>1 DEF OpsInv
  <2>5. \A p \in posted' : p.h = Nobody => p.addr \in abandoned'
    BY <2>1 DEF OpsInv
  <2> QED
    BY <2>2, <2>3, <2>4, <2>5 DEF OpsInv
<1>4. MemInv'
  <2>1. \A g \in InUse' : Kept'[g] \in Buf /\ heap'[Kept'[g]] # Freed /\ Kept'[g] \notin abandoned'
    BY <1>2 DEF MemInv
  <2>2. \A f, g \in InUse' : Kept'[f] = Kept'[g] => f = g
    BY <1>2 DEF MemInv
  <2>3. \A i \in DOMAIN statuses' :
          /\ statuses'[i].ptr \in Buf /\ heap'[statuses'[i].ptr] # Freed
          /\ statuses'[i].ptr \notin abandoned'
    BY <1>1 DEF MemInv
  <2>4. \A i, j \in DOMAIN statuses' : statuses'[i].ptr = statuses'[j].ptr => i = j
    BY <1>1 DEF MemInv
  <2>5. \A i \in DOMAIN statuses', g \in InUse' : statuses'[i].ptr # Kept'[g]
    BY <1>1, <1>2 DEF MemInv
  <2>6. \A b \in abandoned' : b \in Buf /\ heap'[b] # Freed
    BY DEF MemInv
  <2>7. ASSUME NEW b \in Buf, heap'[b] # Freed
        PROVE  \/ \E g \in InUse' : Kept'[g] = b
               \/ \E i \in DOMAIN statuses' : statuses'[i].ptr = b
               \/ b \in abandoned'
    <3>1. CASE \E g \in InUse : Kept[g] = b
      BY <1>1, <3>1
    <3>2. CASE \E i \in DOMAIN statuses : statuses[i].ptr = b
      BY <1>1, <3>2
    <3>3. CASE b \in abandoned
      BY <3>3
    <3> QED
      BY <2>7, <3>1, <3>2, <3>3 DEF MemInv
  <2> QED
    BY <2>1, <2>2, <2>3, <2>4, <2>5, <2>6, <2>7 DEF MemInv
<1> QED
  BY <1>3, <1>4

(* The request of an operation is freed: nobody frees its address. *)
LEMMA MemAbandon ==
  ASSUME OpsInv, MemInv, posted \subseteq Operation, NEW h \in InUse, Nobody \notin InUse,
         InUse' = InUse \ {h},
         Kept' = [g \in InUse \ {h} |-> Kept[g]],
         \A g \in InUse \ {h} : ParamsOf'[g] = ParamsOf[g],
         posted' = {[p EXCEPT !.h = IF @ = h THEN Nobody ELSE @] : p \in posted},
         abandoned' = abandoned \union {Kept[h]},
         UNCHANGED <<heap, statuses>>
  PROVE  OpsInv' /\ MemInv'
<1> DEFINE Orphan(p) == [p EXCEPT !.h = IF @ = h THEN Nobody ELSE @]
<1>1. \A p \in posted : /\ Orphan(p).h = IF p.h = h THEN Nobody ELSE p.h
                        /\ Orphan(p).addr = p.addr /\ Orphan(p).kind = p.kind
                        /\ Orphan(p).moved = p.moved /\ Orphan(p).id = p.id
  BY DEF Operation
<1>2. \A q \in posted' : \E p \in posted : q = Orphan(p)
  OBVIOUS
<1>3. \A p \in posted : Orphan(p) \in posted'
  OBVIOUS
<1> HIDE DEF Orphan
<1>4. \A g \in InUse' : g \in InUse /\ g # h /\ Kept'[g] = Kept[g] /\ ParamsOf'[g] = ParamsOf[g]
  OBVIOUS
<1>5. OpsInv'
  <2>1. \A r, s \in posted' : r.addr = s.addr => r = s
    BY <1>1, <1>2 DEF OpsInv
  <2>2. \A r \in posted' : r.h = Nobody => r.addr \in abandoned'
    BY <1>1, <1>2 DEF OpsInv
  <2>3. \A r \in posted' : r.h # Nobody =>
          r.h \in InUse' /\ r.addr = Kept'[r.h] /\ r.kind = ParamsOf'[r.h].kind
    BY <1>1, <1>2, <1>4 DEF OpsInv
  <2>4. \A g \in InUse' : \E r \in posted' : r.h = g
    BY <1>1, <1>3, <1>4 DEF OpsInv
  <2> QED
    BY <2>1, <2>2, <2>3, <2>4 DEF OpsInv
<1>6. MemInv'
  <2>1. \A g \in InUse' : Kept'[g] \in Buf /\ heap'[Kept'[g]] # Freed /\ Kept'[g] \notin abandoned'
    BY <1>4 DEF MemInv
  <2>2. \A f, g \in InUse' : Kept'[f] = Kept'[g] => f = g
    BY <1>4 DEF MemInv
  <2>3. \A i \in DOMAIN statuses' :
          /\ statuses'[i].ptr \in Buf /\ heap'[statuses'[i].ptr] # Freed
          /\ statuses'[i].ptr \notin abandoned'
    BY DEF MemInv
  <2>4. \A i, j \in DOMAIN statuses' : statuses'[i].ptr = statuses'[j].ptr => i = j
    BY DEF MemInv
  <2>5. \A i \in DOMAIN statuses', g \in InUse' : statuses'[i].ptr # Kept'[g]
    BY <1>4 DEF MemInv
  <2>6. \A b \in abandoned' : b \in Buf /\ heap'[b] # Freed
    BY DEF MemInv
  <2>7. \A b \in Buf : heap'[b] # Freed =>
          \/ \E g \in InUse' : Kept'[g] = b
          \/ \E i \in DOMAIN statuses' : statuses'[i].ptr = b
          \/ b \in abandoned'
    BY <1>4 DEF MemInv
  <2> QED
    BY <2>1, <2>2, <2>3, <2>4, <2>5, <2>6, <2>7 DEF MemInv
<1> QED
  BY <1>5, <1>6

(* ASYNC_COMPLETE frees the address in a status. *)
LEMMA MemRelease ==
  ASSUME OpsInv, MemInv, InUse' = InUse, Kept' = Kept,
         \A g \in InUse : ParamsOf'[g] = ParamsOf[g],
         statuses \in Seq(StatusInfo), statuses # <<>>,
         DOMAIN heap = Buf \union {Out},
         heap' = [heap EXCEPT ![Head(statuses).ptr] = Freed],
         statuses' = Tail(statuses),
         UNCHANGED <<posted, abandoned>>
  PROVE  OpsInv' /\ MemInv'
<1> DEFINE a == Head(statuses).ptr
<1>1. /\ 1 \in DOMAIN statuses /\ a = statuses[1].ptr
      /\ \A i \in DOMAIN statuses' : /\ i + 1 \in DOMAIN statuses /\ i + 1 # 1 /\ i \in Nat
                                     /\ statuses'[i] = statuses[i + 1]
      /\ \A i \in DOMAIN statuses : i # 1 => i - 1 \in DOMAIN statuses'
                                             /\ statuses'[i - 1] = statuses[i]
  BY TailStatus
<1>2. heap' = [heap EXCEPT ![a] = Freed]
  OBVIOUS
<1> HIDE DEF a
<1>3. a \in Buf /\ heap'[a] = Freed /\ \A b \in Buf : b # a => heap'[b] = heap[b]
  BY <1>1, <1>2 DEF MemInv
<1>4. OpsInv'
  BY DEF OpsInv
<1>5. MemInv'
  <2>1. \A g \in InUse' : Kept'[g] \in Buf /\ heap'[Kept'[g]] # Freed /\ Kept'[g] \notin abandoned'
    BY <1>1, <1>3 DEF MemInv
  <2>2. \A f, g \in InUse' : Kept'[f] = Kept'[g] => f = g
    BY DEF MemInv
  <2>3. \A i \in DOMAIN statuses' :
          /\ statuses'[i].ptr \in Buf /\ heap'[statuses'[i].ptr] # Freed
          /\ statuses'[i].ptr \notin abandoned'
    <3>1. \A i \in DOMAIN statuses' : statuses[i + 1].ptr # a
      BY <1>1 DEF MemInv
    <3> QED
      BY <1>1, <1>3, <3>1 DEF MemInv
  <2>4. ASSUME NEW i \in DOMAIN statuses', NEW j \in DOMAIN statuses',
               statuses'[i].ptr = statuses'[j].ptr
        PROVE  i = j
    <3>1. i + 1 = j + 1
      BY <1>1, <2>4 DEF MemInv
    <3> QED
      BY <1>1, <3>1
  <2>5. \A i \in DOMAIN statuses', g \in InUse' : statuses'[i].ptr # Kept'[g]
    BY <1>1 DEF MemInv
  <2>6. \A b \in abandoned' : b \in Buf /\ heap'[b] # Freed
    BY <1>1, <1>3 DEF MemInv
  <2>7. ASSUME NEW b \in Buf, heap'[b] # Freed
        PROVE  \/ \E g \in InUse' : Kept'[g] = b
               \/ \E i \in DOMAIN statuses' : statuses'[i].ptr = b
               \/ b \in abandoned'
    <3>1. b # a /\ heap[b] # Freed
      BY <1>3, <2>7
    <3>2. ASSUME NEW i \in DOMAIN statuses, statuses[i].ptr = b
          PROVE  \E j \in DOMAIN statuses' : statuses'[j].ptr = b
      <4>1. i # 1
        BY <1>1, <3>1, <3>2
      <4>2. i - 1 \in DOMAIN statuses' /\ statuses'[i - 1] = statuses[i]
        BY <1>1, <4>1
      <4> QED
        BY <3>2, <4>2
    <3> QED
      BY <3>1, <3>2 DEF MemInv
  <2> QED
    BY <2>1, <2>2, <2>3, <2>4, <2>5, <2>6, <2>7 DEF MemInv
<1> QED
  BY <1>4, <1>5

--------------------------------------------------------------------------------
(* What a step does to the messages on their way                           *)

Carried(c) == [id |-> c.id, pb |-> heap[c.addr]]

LEMMA FlightIs == InFlight = net \union {Carried(c) : c \in Moving}
<1> DEFINE Ops == {[id |-> p.id, pb |-> heap[p.addr]] :
                     p \in {p \in posted : p.moved <=> p.kind = "recv"}}
           Reports == {[id |-> s.id, pb |-> heap[s.ptr]] :
                         s \in {statuses[i] : i \in {i \in DOMAIN statuses :
                                   statuses[i].kind = "recv" /\ statuses[i].moved}}}
<1>1. ASSUME NEW x \in Ops PROVE \E c \in MovingOps : x = Carried(c)
  <2>1. PICK p \in posted : OpMoves(p) /\ x = [id |-> p.id, pb |-> heap[p.addr]]
    BY DEF OpMoves
  <2>2. [addr |-> p.addr, id |-> p.id] \in MovingOps
    BY <2>1 DEF MovingOps
  <2> QED
    BY <2>1, <2>2 DEF Carried
<1>2. ASSUME NEW c \in MovingOps PROVE Carried(c) \in Ops
  <2>1. PICK p \in posted : OpMoves(p) /\ c = [addr |-> p.addr, id |-> p.id]
    BY DEF MovingOps
  <2> QED
    BY <2>1 DEF Carried, OpMoves
<1>3. ASSUME NEW x \in Reports PROVE \E c \in MovingStatuses : x = Carried(c)
  <2>1. PICK i \in DOMAIN statuses : /\ StatusMoves(statuses[i])
                                    /\ x = [id |-> statuses[i].id, pb |-> heap[statuses[i].ptr]]
    BY DEF StatusMoves
  <2>2. [addr |-> statuses[i].ptr, id |-> statuses[i].id] \in MovingStatuses
    BY <2>1 DEF MovingStatuses
  <2> QED
    BY <2>1, <2>2 DEF Carried
<1>4. ASSUME NEW c \in MovingStatuses PROVE Carried(c) \in Reports
  <2>1. PICK i \in DOMAIN statuses : /\ StatusMoves(statuses[i])
                                    /\ c = [addr |-> statuses[i].ptr, id |-> statuses[i].id]
    BY DEF MovingStatuses
  <2> QED
    BY <2>1 DEF Carried, StatusMoves
<1>5. InFlight = net \union Ops \union Reports
  BY DEF InFlight
<1> HIDE DEF Ops, Reports
<1> QED
  BY <1>1, <1>2, <1>3, <1>4, <1>5 DEF Moving

LEMMA FlightNext ==
  InFlight' = net' \union {[id |-> c.id, pb |-> heap'[c.addr]] : c \in Moving'}
<1>1. (InFlight = net \union {Carried(c) : c \in Moving})'
  BY FlightIs, PTL
<1> QED
  BY <1>1 DEF Carried

(* The steps of the channel that the piggyback layer implements. *)
FlightStep == Channel!PCNext \/ UNCHANGED <<nsent, InFlight>>

(* Nothing moves, or only memory that holds no message on its way. *)
LEMMA FlightQuiet ==
  ASSUME FlightInv, Moving' = Moving, UNCHANGED <<net, nsent>>,
         \A c \in Moving : heap'[c.addr] = heap[c.addr]
  PROVE  FlightInv' /\ FlightStep
<1>1. FlightInv'
  BY DEF FlightInv
<1>2. {[id |-> c.id, pb |-> heap'[c.addr]] : c \in Moving'} = {Carried(c) : c \in Moving}
  BY DEF Carried
<1>3. InFlight' = InFlight
  BY <1>2, FlightIs, FlightNext
<1> QED
  BY <1>1, <1>3 DEF FlightStep

(* A message is sent: on the wire at once, or from an address of its own. *)
LEMMA FlightSend ==
  ASSUME FlightInv, nsent < MaxMessage, nsent' = nsent + 1, NEW v \in Clock,
         \A c \in Moving : heap'[c.addr] = heap[c.addr],
         \/ net' = net \union {[id |-> nsent, pb |-> v]} /\ Moving' = Moving
         \/ /\ net' = net
            /\ \E a : /\ heap'[a] = v
                      /\ Moving' = Moving \union {[addr |-> a, id |-> nsent]}
  PROVE  FlightInv' /\ FlightStep
<1> DEFINE o == [id |-> nsent, pb |-> v]
<1>1. /\ nsent \in 0..MaxMessage /\ MaxMessage \in Nat /\ nsent \in Nat
      /\ nsent' \in 0..MaxMessage /\ nsent \notin 0..(nsent - 1) /\ nsent \in 0..(nsent' - 1)
      /\ \A k \in 0..(nsent - 1) : k \in 0..(nsent' - 1)
  BY PiggybackAssumption DEF FlightInv
<1>2. /\ \A m \in net : m.id \in 0..(nsent' - 1) /\ m.id # nsent
      /\ \A c \in Moving : c.id \in 0..(nsent' - 1) /\ c.id # nsent
  BY <1>1 DEF FlightInv
<1>3. CASE net' = net \union {o} /\ Moving' = Moving
  <2>1. o.id = nsent
    OBVIOUS
  <2> HIDE DEF o
  <2>2. FlightInv'
    <3>1. /\ \A m \in net' : m.id \in 0..(nsent' - 1)
          /\ \A m, n \in net' : m.id = n.id => m = n
      BY <1>1, <1>2, <1>3, <2>1 DEF FlightInv
    <3>2. /\ \A c \in Moving' : c.id \in 0..(nsent' - 1)
          /\ \A c, d \in Moving' : c.id = d.id => c = d
      BY <1>2, <1>3 DEF FlightInv
    <3>3. \A m \in net', c \in Moving' : m.id # c.id
      BY <1>2, <1>3, <2>1 DEF FlightInv
    <3> QED
      BY <1>1, <3>1, <3>2, <3>3 DEF FlightInv
  <2>3. {[id |-> c.id, pb |-> heap'[c.addr]] : c \in Moving'} = {Carried(c) : c \in Moving}
    BY <1>3 DEF Carried
  <2>4. InFlight' = InFlight \union {o}
    BY <1>3, <2>3, FlightIs, FlightNext
  <2>5. Channel!Send(v)
    BY <2>4 DEF Channel!Send, Channel!Outgoing, o
  <2> QED
    BY <2>2, <2>5 DEF FlightStep, Channel!PCNext
<1>4. CASE net' = net /\ \E a : /\ heap'[a] = v
                                /\ Moving' = Moving \union {[addr |-> a, id |-> nsent]}
  <2>1. PICK a : heap'[a] = v /\ Moving' = Moving \union {[addr |-> a, id |-> nsent]}
    BY <1>4
  <2> DEFINE e == [addr |-> a, id |-> nsent]
  <2>2. e.id = nsent /\ e.addr = a /\ Moving' = Moving \union {e}
    BY <2>1
  <2> HIDE DEF e
  <2>3. FlightInv'
    <3>1. /\ \A m \in net' : m.id \in 0..(nsent' - 1)
          /\ \A m, n \in net' : m.id = n.id => m = n
      BY <1>2, <1>4 DEF FlightInv
    <3>2. /\ \A c \in Moving' : c.id \in 0..(nsent' - 1)
          /\ \A c, d \in Moving' : c.id = d.id => c = d
      BY <1>1, <1>2, <2>2 DEF FlightInv
    <3>3. \A m \in net', c \in Moving' : m.id # c.id
      BY <1>2, <1>4, <2>2 DEF FlightInv
    <3> QED
      BY <1>1, <3>1, <3>2, <3>3 DEF FlightInv
  <2>4. {[id |-> c.id, pb |-> heap'[c.addr]] : c \in Moving'}
        = {Carried(c) : c \in Moving} \union {o}
    BY <2>1, <2>2 DEF Carried
  <2>5. InFlight' = InFlight \union {o}
    BY <1>4, <2>4, FlightIs, FlightNext
  <2>6. Channel!Send(v)
    BY <2>5 DEF Channel!Send, Channel!Outgoing
  <2> QED
    BY <2>3, <2>6 DEF FlightStep, Channel!PCNext
<1> QED
  BY <1>3, <1>4

(* A message leaves the wire for good. *)
LEMMA FlightReceive ==
  ASSUME FlightInv, NEW m \in net, net' = net \ {m}, Moving' = Moving, UNCHANGED nsent,
         \A c \in Moving : heap'[c.addr] = heap[c.addr]
  PROVE  FlightInv' /\ FlightStep
<1>1. FlightInv'
  BY DEF FlightInv
<1>2. {[id |-> c.id, pb |-> heap'[c.addr]] : c \in Moving'} = {Carried(c) : c \in Moving}
  BY DEF Carried
<1>3. m \notin {Carried(c) : c \in Moving}
  BY DEF FlightInv, Carried
<1>4. m \in InFlight /\ InFlight' = InFlight \ {m}
  BY <1>2, <1>3, FlightIs, FlightNext
<1>5. Channel!Take(m)
  BY <1>4 DEF Channel!Take
<1> QED
  BY <1>1, <1>4, <1>5 DEF FlightStep, Channel!PCNext

(* MPI_Sendrecv sends a message and receives one, maybe the same. *)
LEMMA FlightSendrecv ==
  ASSUME FlightInv, nsent < MaxMessage, nsent' = nsent + 1, NEW v \in Clock,
         \A c \in Moving : heap'[c.addr] = heap[c.addr], Moving' = Moving,
         NEW m \in net \union {[id |-> nsent, pb |-> v]},
         net' = (net \union {[id |-> nsent, pb |-> v]}) \ {m}
  PROVE  FlightInv' /\ FlightStep
<1> DEFINE o == [id |-> nsent, pb |-> v]
<1>1. /\ nsent \in 0..MaxMessage /\ MaxMessage \in Nat /\ nsent \in Nat
      /\ nsent' \in 0..MaxMessage /\ nsent \notin 0..(nsent - 1) /\ nsent \in 0..(nsent' - 1)
      /\ \A k \in 0..(nsent - 1) : k \in 0..(nsent' - 1)
  BY PiggybackAssumption DEF FlightInv
<1>2. /\ \A n \in net : n.id \in 0..(nsent' - 1) /\ n.id # nsent
      /\ \A c \in Moving : c.id \in 0..(nsent' - 1) /\ c.id # nsent
  BY <1>1 DEF FlightInv
<1>3. o.id = nsent /\ net' = (net \union {o}) \ {m} /\ m \in net \union {o}
  OBVIOUS
<1> HIDE DEF o
<1>4. FlightInv'
  <2>1. /\ \A n \in net' : n.id \in 0..(nsent' - 1)
        /\ \A l, n \in net' : l.id = n.id => l = n
    BY <1>1, <1>2, <1>3 DEF FlightInv
  <2>2. /\ \A c \in Moving' : c.id \in 0..(nsent' - 1)
        /\ \A c, d \in Moving' : c.id = d.id => c = d
    BY <1>2 DEF FlightInv
  <2>3. \A n \in net', c \in Moving' : n.id # c.id
    BY <1>2, <1>3 DEF FlightInv
  <2> QED
    BY <1>1, <2>1, <2>2, <2>3 DEF FlightInv
<1>5. {[id |-> c.id, pb |-> heap'[c.addr]] : c \in Moving'} = {Carried(c) : c \in Moving}
  BY DEF Carried
<1>6. m \notin {Carried(c) : c \in Moving}
  BY <1>2, <1>3 DEF FlightInv, Carried
<1>7. m \in InFlight \union {o} /\ InFlight' = (InFlight \union {o}) \ {m}
  BY <1>3, <1>5, <1>6, FlightIs, FlightNext
<1>8. Channel!SendAndTake(v)
  BY <1>7 DEF Channel!SendAndTake, Channel!Outgoing, o
<1> QED
  BY <1>4, <1>8 DEF FlightStep, Channel!PCNext

(* A message is lost or handed over at its address. *)
LEMMA FlightDrop ==
  ASSUME FlightInv, NEW e \in Moving, Moving' = Moving \ {e}, UNCHANGED <<net, nsent>>,
         \A c \in Moving \ {e} : heap'[c.addr] = heap[c.addr]
  PROVE  FlightInv' /\ FlightStep
<1> DEFINE m == Carried(e)
<1>1. FlightInv'
  BY DEF FlightInv
<1>2. {[id |-> c.id, pb |-> heap'[c.addr]] : c \in Moving'} = {Carried(c) : c \in Moving \ {e}}
  BY DEF Carried
<1>3. m \notin net /\ m \notin {Carried(c) : c \in Moving \ {e}}
  BY DEF FlightInv, Carried
<1>4. {Carried(c) : c \in Moving} = {Carried(c) : c \in Moving \ {e}} \union {m}
  OBVIOUS
<1> HIDE DEF m
<1>5. m \in InFlight /\ InFlight' = InFlight \ {m}
  BY <1>2, <1>3, <1>4, FlightIs, FlightNext
<1>6. Channel!Take(m)
  BY <1>5 DEF Channel!Take
<1> QED
  BY <1>1, <1>5, <1>6 DEF FlightStep, Channel!PCNext

(* MPI reads the clock of a message at its address. *)
LEMMA FlightRead ==
  ASSUME FlightInv, NEW e \in Moving, Moving' = Moving \ {e}, UNCHANGED <<heap, nsent>>,
         net' = net \union {Carried(e)}
  PROVE  FlightInv' /\ FlightStep
<1>1. Carried(e).id = e.id
  BY DEF Carried
<1>2. FlightInv'
  <2>1. /\ \A m \in net' : m.id \in 0..(nsent' - 1)
        /\ \A c \in Moving' : c.id \in 0..(nsent' - 1)
        /\ nsent' \in 0..MaxMessage
    BY <1>1 DEF FlightInv
  <2>2. \A m, n \in net' : m.id = n.id => m = n
    BY <1>1 DEF FlightInv
  <2>3. \A c, d \in Moving' : c.id = d.id => c = d
    BY DEF FlightInv
  <2>4. \A m \in net', c \in Moving' : m.id # c.id
    BY <1>1 DEF FlightInv
  <2> QED
    BY <2>1, <2>2, <2>3, <2>4 DEF FlightInv
<1>3. {[id |-> c.id, pb |-> heap'[c.addr]] : c \in Moving'} = {Carried(c) : c \in Moving \ {e}}
  BY DEF Carried
<1>4. {Carried(c) : c \in Moving} = {Carried(c) : c \in Moving \ {e}} \union {Carried(e)}
  OBVIOUS
<1>5. InFlight' = InFlight
  BY <1>3, <1>4, FlightIs, FlightNext
<1> QED
  BY <1>2, <1>5 DEF FlightStep

(* MPI writes the clock of a message to the address of a receive. *)
LEMMA FlightWrite ==
  ASSUME FlightInv, net \subseteq Message, NEW m \in net, net' = net \ {m}, UNCHANGED nsent,
         NEW a, Moving' = Moving \union {[addr |-> a, id |-> m.id]}, heap'[a] = m.pb,
         \A c \in Moving : heap'[c.addr] = heap[c.addr]
  PROVE  FlightInv' /\ FlightStep
<1> DEFINE e == [addr |-> a, id |-> m.id]
<1>1. e.id = m.id /\ e.addr = a /\ Moving' = Moving \union {e}
  OBVIOUS
<1> HIDE DEF e
<1>2. FlightInv'
  <2>1. /\ \A n \in net' : n.id \in 0..(nsent' - 1)
        /\ \A c \in Moving' : c.id \in 0..(nsent' - 1)
        /\ nsent' \in 0..MaxMessage
    BY <1>1 DEF FlightInv
  <2>2. \A l, n \in net' : l.id = n.id => l = n
    BY DEF FlightInv
  <2>3. \A c, d \in Moving' : c.id = d.id => c = d
    BY <1>1 DEF FlightInv
  <2>4. \A n \in net', c \in Moving' : n.id # c.id
    BY <1>1 DEF FlightInv
  <2> QED
    BY <2>1, <2>2, <2>3, <2>4 DEF FlightInv
<1>3. m = [id |-> m.id, pb |-> m.pb]
  BY DEF Message
<1>4. {[id |-> c.id, pb |-> heap'[c.addr]] : c \in Moving'}
      = {Carried(c) : c \in Moving} \union {m}
  BY <1>1, <1>3 DEF Carried
<1>5. InFlight' = InFlight
  BY <1>4, FlightIs, FlightNext
<1> QED
  BY <1>2, <1>5 DEF FlightStep

--------------------------------------------------------------------------------
(* Which addresses move                                                    *)

(* MPI works on memory that is allocated and in no status. *)
LEMMA OpsAllocated ==
  ASSUME OpsInv, MemInv, NEW p \in posted
  PROVE  /\ p.addr \in Buf /\ heap[p.addr] # Freed
         /\ \A i \in DOMAIN statuses : statuses[i].ptr # p.addr
<1>1. CASE p.h = Nobody
  BY <1>1 DEF OpsInv, MemInv
<1>2. CASE p.h # Nobody
  <2>1. p.h \in InUse /\ p.addr = Kept[p.h]
    BY <1>2 DEF OpsInv
  <2> QED
    BY <2>1 DEF MemInv
<1> QED
  BY <1>1, <1>2

LEMMA MovingAllocated ==
  ASSUME OpsInv, MemInv, NEW c \in Moving
  PROVE  c.addr \in Buf /\ heap[c.addr] # Freed
<1>1. CASE c \in MovingOps
  <2>1. PICK p \in posted : c = [addr |-> p.addr, id |-> p.id]
    BY <1>1 DEF MovingOps
  <2> QED
    BY <2>1, OpsAllocated
<1>2. CASE c \in MovingStatuses
  <2>1. PICK i \in DOMAIN statuses : c = [addr |-> statuses[i].ptr, id |-> statuses[i].id]
    BY <1>2 DEF MovingStatuses
  <2> QED
    BY <2>1 DEF MemInv
<1> QED
  BY <1>1, <1>2 DEF Moving

LEMMA MovingSame ==
  ASSUME UNCHANGED <<posted, statuses>>
  PROVE  Moving' = Moving
<1>1. MovingOps' = MovingOps
  BY DEF MovingOps
<1>2. MovingStatuses' = MovingStatuses
  BY DEF MovingStatuses
<1> QED
  BY <1>1, <1>2 DEF Moving

LEMMA MovingPost ==
  ASSUME UNCHANGED statuses, NEW o, posted' = posted \union {o}
  PROVE  Moving' = IF OpMoves(o) THEN Moving \union {[addr |-> o.addr, id |-> o.id]} ELSE Moving
<1>1. MovingStatuses' = MovingStatuses
  BY DEF MovingStatuses
<1>2. MovingOps' = {[addr |-> p.addr, id |-> p.id] : p \in {p \in posted' : OpMoves(p)}}
  BY DEF MovingOps
<1>3. MovingOps' = IF OpMoves(o) THEN MovingOps \union {[addr |-> o.addr, id |-> o.id]}
                   ELSE MovingOps
  BY <1>2 DEF MovingOps
<1> QED
  BY <1>1, <1>3 DEF Moving

(* An operation makes way for those in Q; no other has its address. *)
LEMMA MovingInstead ==
  ASSUME OpsInv, MemInv, NEW p \in posted, NEW Q, posted' = (posted \ {p}) \union Q
  PROVE  LET e == [addr |-> p.addr, id |-> p.id] IN
         /\ MovingOps' = (MovingOps \ {e}) \union
                           {[addr |-> q.addr, id |-> q.id] : q \in {q \in Q : OpMoves(q)}}
         /\ e \in MovingOps <=> OpMoves(p)
         /\ e \notin MovingStatuses
         /\ \A c \in Moving \ {e} : c.addr # p.addr
<1> DEFINE e == [addr |-> p.addr, id |-> p.id]
           New == {[addr |-> q.addr, id |-> q.id] : q \in {q \in Q : OpMoves(q)}}
<1>1. \A q \in posted : q # p => q.addr # p.addr
  BY DEF OpsInv
<1>2. \A c \in MovingStatuses : c.addr # p.addr
  <2> SUFFICES ASSUME NEW i \in DOMAIN statuses PROVE statuses[i].ptr # p.addr
    BY DEF MovingStatuses
  <2> QED
    BY OpsAllocated
<1>3. \A q \in posted : q # p => [addr |-> q.addr, id |-> q.id] # e
  <2> SUFFICES ASSUME NEW q \in posted, q # p, [addr |-> q.addr, id |-> q.id] = e PROVE FALSE
    OBVIOUS
  <2>1. q.addr = p.addr
    OBVIOUS
  <2> QED
    BY <1>1, <2>1
<1>4. e \in MovingOps <=> OpMoves(p)
  <2>1. OpMoves(p) => e \in MovingOps
    BY DEF MovingOps
  <2>2. ASSUME e \in MovingOps PROVE OpMoves(p)
    <3>1. PICK q \in posted : OpMoves(q) /\ e = [addr |-> q.addr, id |-> q.id]
      BY <2>2 DEF MovingOps
    <3> QED
      BY <1>3, <3>1
  <2> QED
    BY <2>1, <2>2
<1>5. \A c \in MovingOps : c # e => c.addr # p.addr
  <2> SUFFICES ASSUME NEW q \in posted, [addr |-> q.addr, id |-> q.id] # e
               PROVE  q.addr # p.addr
    BY DEF MovingOps
  <2> QED
    BY <1>1
<1>6. MovingOps' = {[addr |-> q.addr, id |-> q.id] : q \in {q \in posted' : OpMoves(q)}}
  BY DEF MovingOps
<1>7. e.addr = p.addr
  OBVIOUS
<1>8. \A c \in MovingOps' : c \in (MovingOps \ {e}) \union New
  BY <1>3, <1>6 DEF MovingOps
<1>9. \A c \in MovingOps \ {e} : c \in MovingOps'
  BY <1>6 DEF MovingOps
<1>10. \A c \in New : c \in MovingOps'
  BY <1>6
<1> HIDE DEF New, e
<1>11. MovingOps' = (MovingOps \ {e}) \union New
  BY <1>8, <1>9, <1>10
<1>12. e \notin MovingStatuses
  BY <1>2, <1>7
<1>13. \A c \in Moving \ {e} : c.addr # p.addr
  BY <1>2, <1>5 DEF Moving
<1> QED
  BY <1>4, <1>11, <1>12, <1>13 DEF e, New

(* An address is reported in a new status. *)
LEMMA MovingReport ==
  ASSUME statuses \in Seq(StatusInfo), NEW s \in StatusInfo, statuses' = Append(statuses, s)
  PROVE  MovingStatuses' = IF StatusMoves(s)
                             THEN MovingStatuses \union {[addr |-> s.ptr, id |-> s.id]}
                             ELSE MovingStatuses
<1> DEFINE n == Len(statuses) + 1
<1>1. /\ DOMAIN statuses' = DOMAIN statuses \union {n} /\ n \notin DOMAIN statuses
      /\ statuses'[n] = s
      /\ \A i \in DOMAIN statuses : statuses'[i] = statuses[i]
  BY AppendStatus
<1> HIDE DEF n
<1>2. MovingStatuses' = {[addr |-> statuses'[i].ptr, id |-> statuses'[i].id] :
                           i \in {i \in DOMAIN statuses' : StatusMoves(statuses'[i])}}
  BY DEF MovingStatuses
<1>3. \A c \in MovingStatuses' : \/ c \in MovingStatuses
                                 \/ StatusMoves(s) /\ c = [addr |-> s.ptr, id |-> s.id]
  BY <1>1, <1>2 DEF MovingStatuses
<1>4. \A c \in MovingStatuses : c \in MovingStatuses'
  BY <1>1, <1>2 DEF MovingStatuses
<1>5. StatusMoves(s) => [addr |-> s.ptr, id |-> s.id] \in MovingStatuses'
  BY <1>1, <1>2
<1> QED
  BY <1>3, <1>4, <1>5

(* The first status is taken. *)
LEMMA MovingTaken ==
  ASSUME OpsInv, MemInv, statuses \in Seq(StatusInfo), statuses # <<>>,
         statuses' = Tail(statuses), UNCHANGED posted
  PROVE  LET s == Head(statuses)
             e == [addr |-> s.ptr, id |-> s.id] IN
         /\ Moving' = Moving \ {e}
         /\ e \in Moving <=> StatusMoves(s)
         /\ \A c \in Moving \ {e} : c.addr # s.ptr
<1> DEFINE s == Head(statuses)
           e == [addr |-> s.ptr, id |-> s.id]
<1>1. /\ 1 \in DOMAIN statuses /\ s = statuses[1]
      /\ \A i \in DOMAIN statuses' : /\ i + 1 \in DOMAIN statuses /\ i + 1 # 1 /\ i \in Nat
                                     /\ statuses'[i] = statuses[i + 1]
      /\ \A i \in DOMAIN statuses : i # 1 => i - 1 \in DOMAIN statuses'
                                             /\ statuses'[i - 1] = statuses[i]
  BY TailStatus
<1> HIDE DEF s
<1>2. \A i \in DOMAIN statuses : i # 1 => statuses[i].ptr # s.ptr
  BY <1>1 DEF MemInv
<1>3. ASSUME NEW c \in MovingOps PROVE c.addr # s.ptr
  <2>1. PICK p \in posted : c = [addr |-> p.addr, id |-> p.id]
    BY DEF MovingOps
  <2> QED
    BY <1>1, <2>1, OpsAllocated
<1>4. MovingStatuses' = {[addr |-> statuses'[i].ptr, id |-> statuses'[i].id] :
                           i \in {i \in DOMAIN statuses' : StatusMoves(statuses'[i])}}
  BY DEF MovingStatuses
<1>5. \A c \in MovingStatuses' : c \in MovingStatuses /\ c.addr # s.ptr
  <2> SUFFICES ASSUME NEW i \in DOMAIN statuses', StatusMoves(statuses'[i])
               PROVE  LET c == [addr |-> statuses'[i].ptr, id |-> statuses'[i].id] IN
                      c \in MovingStatuses /\ c.addr # s.ptr
    BY <1>4
  <2>1. i + 1 \in DOMAIN statuses /\ statuses'[i] = statuses[i + 1] /\ i + 1 # 1
    BY <1>1
  <2> QED
    BY <1>2, <2>1 DEF MovingStatuses
<1>6. \A c \in MovingStatuses : c \in MovingStatuses' \/ (c = e /\ StatusMoves(s))
  <2> SUFFICES ASSUME NEW i \in DOMAIN statuses, StatusMoves(statuses[i])
               PROVE  LET c == [addr |-> statuses[i].ptr, id |-> statuses[i].id] IN
                      c \in MovingStatuses' \/ (c = e /\ StatusMoves(s))
    BY DEF MovingStatuses
  <2>1. CASE i = 1
    BY <1>1, <2>1
  <2>2. CASE i # 1
    <3>1. i - 1 \in DOMAIN statuses' /\ statuses'[i - 1] = statuses[i]
      BY <1>1, <2>2
    <3> QED
      BY <1>4, <3>1
  <2> QED
    BY <2>1, <2>2
<1>7. StatusMoves(s) => e \in MovingStatuses
  BY <1>1 DEF MovingStatuses
<1>8. e.addr = s.ptr
  OBVIOUS
<1> HIDE DEF e
<1>9. MovingOps' = MovingOps
  BY DEF MovingOps
<1>10. /\ Moving' = Moving \ {e}
       /\ e \in Moving <=> StatusMoves(s)
       /\ \A c \in Moving \ {e} : c.addr # s.ptr
  BY <1>3, <1>5, <1>6, <1>7, <1>8, <1>9 DEF Moving
<1> QED
  BY <1>10 DEF s, e

--------------------------------------------------------------------------------
(* Every step                                                              *)

(* What a step keeps, and what it is for the channel. *)
Fine == TypeOK' /\ TableInv' /\ PBTypeOK' /\ PBInv' /\ FlightStep

LEMMA InitPB == PBInit => TypeOK /\ TableInv /\ PBTypeOK /\ PBInv
<1> SUFFICES ASSUME PBInit PROVE TypeOK /\ TableInv /\ PBTypeOK /\ PBInv
  OBVIOUS
<1>1. TypeOK /\ TableInv /\ Init
  BY InitTable DEF PBInit
<1>2. InUse = {} /\ DOMAIN todo = {} /\ DOMAIN statuses = {} /\ posted = {}
  BY <1>1 DEF PBInit, Init, InUse
<1>3. Moving = {}
  BY <1>2 DEF Moving, MovingOps, MovingStatuses
<1>4. PBTypeOK
  BY DEF PBInit, PBTypeOK
<1>5. PlainInv
  BY <1>1, <1>2 DEF PlainInv, Init
<1>6. OpsInv /\ MemInv
  <2>1. abandoned = {} /\ \A a \in Buf : heap[a] = Freed
    BY PiggybackAssumption DEF PBInit
  <2> QED
    BY <1>2, <2>1 DEF OpsInv, MemInv
<1>7. FlightInv
  BY <1>3, PiggybackAssumption DEF PBInit, FlightInv
<1>8. NetInv
  BY DEF PBInit, NetInv
<1> QED
  BY <1>1, <1>4, <1>5, <1>6, <1>7, <1>8 DEF PBInv

(* The request layer and what is kept with it when it takes no step. *)
LEMMA KeptStutter ==
  ASSUME TypeOK, TableInv, PBTypeOK, PlainInv, UNCHANGED <<vars, data>>
  PROVE  /\ TypeOK' /\ TableInv'
         /\ InUse' = InUse /\ Kept' = Kept /\ Slots' = Slots
         /\ \A g \in InUse : ParamsOf'[g] = ParamsOf[g]
         /\ UNCHANGED <<state, todo>>
         /\ data' \in [Slots' -> Buf \union {Wild}]
<1>1. TypeOK' /\ TableInv'
  BY StutterTable
<1>2. UNCHANGED <<size, reqs, requestmap, state, todo>>
  BY DEF vars, tableVars
<1>3. InUse' = InUse /\ Slots' = Slots
  BY <1>2 DEF InUse, Slots
<1>4. Kept' = Kept /\ ParamsOf' = ParamsOf
  BY <1>2, <1>3 DEF Kept, ParamsOf, Slot
<1> QED
  BY <1>1, <1>2, <1>3, <1>4 DEF PBTypeOK

(* A nonblocking call: the operation is on its way only if it is a send.   *)
LEMMA PostFine ==
  ASSUME TypeOK, TableInv, PBTypeOK, PBInv,
         NEW h \in Handle, NEW kind \in Kind, MPI_Isend(h, kind), statuses = <<>>,
         NEW a \in Unallocated, Stored(h, a),
         heap' \in [Buf \union {Out} -> Clock \union {Freed, Junk}],
         heap'[a] # Freed, \A b \in Buf : b # a => heap'[b] = heap[b],
         NEW id \in 0..MaxMessage,
         posted' = posted \union
           {[h |-> h, kind |-> kind, addr |-> a, moved |-> FALSE, id |-> id]},
         \/ kind = "send" /\ id = nsent /\ heap'[a] \in Clock /\ nsent < MaxMessage
              /\ nsent' = nsent + 1
         \/ kind = "recv" /\ nsent' = nsent,
         UNCHANGED <<net, statuses, abandoned>>
  PROVE  Fine
<1> USE DEF PBInv
<1> DEFINE o == [h |-> h, kind |-> kind, addr |-> a, moved |-> FALSE, id |-> id]
<1>1. a \in Buf /\ heap[a] = Freed /\ h # Nobody
  BY NobodyAssumption DEF Unallocated
<1>2. TypeOK' /\ TableInv'
  BY CreateTable
<1>3. /\ h \notin InUse /\ InUse' = InUse \union {h}
      /\ Kept' = [g \in InUse \union {h} |-> IF g = h THEN a ELSE Kept[g]]
      /\ ParamsOf'[h].kind = kind /\ \A g \in InUse : ParamsOf'[g] = ParamsOf[g]
      /\ data' \in [Slots' -> Buf \union {Wild}]
      /\ state' = [state EXCEPT ![h] = "active"] /\ todo = <<>> /\ todo' = todo
  BY <1>1, KeptCreate
<1>4. /\ o \in Operation /\ o.h = h /\ o.addr = a /\ o.kind = kind /\ o.id = id
      /\ OpMoves(o) <=> kind = "send"
  BY <1>1 DEF Operation, Kind, OpMoves
<1>5. posted' = posted \union {o}
  OBVIOUS
<1> HIDE DEF o
<1>6. PBTypeOK'
  BY <1>3, <1>4, <1>5 DEF PBTypeOK
<1>7. PlainInv'
  BY <1>3 DEF PlainInv, TypeOK
<1>8. OpsInv' /\ MemInv'
  BY <1>1, <1>3, <1>4, <1>5, MemTake
<1>9. \A c \in Moving : heap'[c.addr] = heap[c.addr]
  BY <1>1, MovingAllocated
<1>10. Moving' = IF OpMoves(o) THEN Moving \union {[addr |-> a, id |-> id]} ELSE Moving
  BY <1>4, <1>5, MovingPost
<1>11. FlightInv' /\ FlightStep
  <2>1. CASE kind = "send"
    <3>1. /\ id = nsent /\ heap'[a] \in Clock /\ nsent < MaxMessage /\ nsent' = nsent + 1
          /\ Moving' = Moving \union {[addr |-> a, id |-> nsent]}
      BY <1>4, <1>10, <2>1
    <3> QED
      BY <1>9, <3>1, FlightSend
  <2>2. CASE kind = "recv"
    <3>1. Moving' = Moving /\ nsent' = nsent
      BY <1>4, <1>10, <2>2
    <3> QED
      BY <1>9, <3>1, FlightQuiet
  <2> QED
    BY <2>1, <2>2 DEF Kind
<1>12. NetInv'
  BY DEF NetInv
<1> QED
  BY <1>2, <1>6, <1>7, <1>8, <1>11, <1>12 DEF Fine

LEMMA IsendFine ==
  ASSUME TypeOK, TableInv, PBTypeOK, PBInv, NEW h \in Handle, NEW v \in Clock,
         PB_MPI_Isend(h, v)
  PROVE  Fine
<1>1. /\ statuses = <<>> /\ nsent < MaxMessage /\ MPI_Isend(h, "send")
      /\ nsent' = nsent + 1 /\ UNCHANGED <<net, statuses, abandoned>>
  BY DEF PB_MPI_Isend, PBIdle
<1>2. PICK a \in Unallocated :
        /\ heap' = [heap EXCEPT ![Out] = v, ![a] = v]
        /\ Stored(h, a)
        /\ posted' = posted \union
             {[h |-> h, kind |-> "send", addr |-> a, moved |-> FALSE, id |-> nsent]}
  BY DEF PB_MPI_Isend
<1>3. heap \in [Buf \union {Out} -> Clock \union {Freed, Junk}] /\ a \in Buf /\ Out \notin Buf
  BY PiggybackAssumption DEF PBTypeOK, Unallocated
<1>4. /\ heap' \in [Buf \union {Out} -> Clock \union {Freed, Junk}]
      /\ heap'[a] = v /\ \A b \in Buf : b # a => heap'[b] = heap[b]
  BY <1>2, <1>3
<1>5. v # Freed
  BY PiggybackAssumption DEF Freed
<1>6. nsent \in 0..MaxMessage
  BY DEF PBInv, FlightInv
<1>7. "send" \in Kind
  BY DEF Kind
<1> QED
  BY <1>1, <1>2, <1>4, <1>5, <1>6, <1>7, PostFine

LEMMA IrecvFine ==
  ASSUME TypeOK, TableInv, PBTypeOK, PBInv, NEW h \in Handle, PB_MPI_Irecv(h)
  PROVE  Fine
<1>1. /\ statuses = <<>> /\ MPI_Isend(h, "recv")
      /\ UNCHANGED <<net, nsent, statuses, abandoned>>
  BY DEF PB_MPI_Irecv, PBIdle
<1>2. PICK a \in Unallocated :
        /\ heap' = [heap EXCEPT ![a] = Junk]
        /\ Stored(h, a)
        /\ posted' = posted \union
             {[h |-> h, kind |-> "recv", addr |-> a, moved |-> FALSE, id |-> 0]}
  BY DEF PB_MPI_Irecv
<1>3. heap \in [Buf \union {Out} -> Clock \union {Freed, Junk}] /\ a \in Buf
  BY DEF PBTypeOK, Unallocated
<1>4. /\ heap' \in [Buf \union {Out} -> Clock \union {Freed, Junk}]
      /\ heap'[a] # Freed /\ \A b \in Buf : b # a => heap'[b] = heap[b]
  BY <1>2, <1>3 DEF Junk, Freed
<1>5. 0 \in 0..MaxMessage /\ "recv" \in Kind
  BY PiggybackAssumption DEF Kind
<1> QED
  BY <1>1, <1>2, <1>4, <1>5, PostFine

(* The steps below leave the request layer alone. *)
LEMMA SendFine ==
  ASSUME TypeOK, TableInv, PBTypeOK, PBInv, NEW v \in Clock, PB_MPI_Send(v)
  PROVE  Fine
<1> USE DEF PBInv
<1>1. /\ nsent < MaxMessage /\ heap' = [heap EXCEPT ![Out] = v]
      /\ net' = net \union {[id |-> nsent, pb |-> v]} /\ nsent' = nsent + 1
      /\ UNCHANGED <<vars, data, posted, statuses, abandoned>>
  BY DEF PB_MPI_Send
<1>2. /\ TypeOK' /\ TableInv'
      /\ InUse' = InUse /\ Kept' = Kept /\ Slots' = Slots
      /\ \A g \in InUse : ParamsOf'[g] = ParamsOf[g]
      /\ UNCHANGED <<state, todo>> /\ data' \in [Slots' -> Buf \union {Wild}]
  BY <1>1, KeptStutter
<1>3. /\ heap' \in [Buf \union {Out} -> Clock \union {Freed, Junk}]
      /\ \A b \in Buf : heap'[b] = heap[b]
  BY <1>1, PiggybackAssumption DEF PBTypeOK
<1>4. PBTypeOK'
  <2>1. nsent \in 0..MaxMessage
    BY DEF FlightInv
  <2>2. net' \subseteq Message
    BY <1>1, <2>1 DEF Message, PBTypeOK
  <2> QED
    BY <1>1, <1>2, <1>3, <2>2 DEF PBTypeOK
<1>5. PlainInv'
  BY <1>1, <1>2 DEF PlainInv
<1>6. OpsInv' /\ MemInv'
  BY <1>1, <1>2, <1>3, MemSame
<1>7. Moving' = Moving /\ \A c \in Moving : heap'[c.addr] = heap[c.addr]
  BY <1>1, <1>3, MovingSame, MovingAllocated
<1>8. FlightInv' /\ FlightStep
  BY <1>1, <1>7, FlightSend
<1>9. NetInv'
  BY <1>1, PiggybackAssumption DEF NetInv, Freed
<1> QED
  BY <1>2, <1>4, <1>5, <1>6, <1>8, <1>9 DEF Fine

LEMMA RecvFine ==
  ASSUME TypeOK, TableInv, PBTypeOK, PBInv, PB_MPI_Recv
  PROVE  Fine
<1> USE DEF PBInv
<1>1. UNCHANGED <<vars, heap, data, posted, nsent, statuses, abandoned>>
  BY DEF PB_MPI_Recv
<1>2. PICK m \in net : net' = net \ {m}
  BY DEF PB_MPI_Recv
<1>3. /\ TypeOK' /\ TableInv'
      /\ InUse' = InUse /\ Kept' = Kept /\ Slots' = Slots
      /\ \A g \in InUse : ParamsOf'[g] = ParamsOf[g]
      /\ UNCHANGED <<state, todo>> /\ data' \in [Slots' -> Buf \union {Wild}]
  BY <1>1, KeptStutter
<1>4. PBTypeOK'
  BY <1>1, <1>2, <1>3 DEF PBTypeOK
<1>5. PlainInv'
  BY <1>1, <1>3 DEF PlainInv
<1>6. OpsInv' /\ MemInv'
  BY <1>1, <1>3, MemSame
<1>7. Moving' = Moving
  BY <1>1, MovingSame
<1>8. FlightInv' /\ FlightStep
  BY <1>1, <1>2, <1>7, FlightReceive
<1>9. NetInv'
  BY <1>2 DEF NetInv
<1> QED
  BY <1>3, <1>4, <1>5, <1>6, <1>8, <1>9 DEF Fine

LEMMA SendrecvFine ==
  ASSUME TypeOK, TableInv, PBTypeOK, PBInv, NEW v \in Clock, PB_MPI_Sendrecv(v)
  PROVE  Fine
<1> USE DEF PBInv
<1>1. /\ nsent < MaxMessage /\ heap' = [heap EXCEPT ![Out] = v] /\ nsent' = nsent + 1
      /\ UNCHANGED <<vars, data, posted, statuses, abandoned>>
  BY DEF PB_MPI_Sendrecv
<1>2. PICK m \in net \union {[id |-> nsent, pb |-> v]} :
        net' = (net \union {[id |-> nsent, pb |-> v]}) \ {m}
  BY DEF PB_MPI_Sendrecv
<1>3. /\ TypeOK' /\ TableInv'
      /\ InUse' = InUse /\ Kept' = Kept /\ Slots' = Slots
      /\ \A g \in InUse : ParamsOf'[g] = ParamsOf[g]
      /\ UNCHANGED <<state, todo>> /\ data' \in [Slots' -> Buf \union {Wild}]
  BY <1>1, KeptStutter
<1>4. /\ heap' \in [Buf \union {Out} -> Clock \union {Freed, Junk}]
      /\ \A b \in Buf : heap'[b] = heap[b]
  BY <1>1, PiggybackAssumption DEF PBTypeOK
<1>5. PBTypeOK'
  <2>1. nsent \in 0..MaxMessage
    BY DEF FlightInv
  <2>2. net' \subseteq Message
    BY <1>2, <2>1 DEF Message, PBTypeOK
  <2> QED
    BY <1>1, <1>3, <1>4, <2>2 DEF PBTypeOK
<1>6. PlainInv'
  BY <1>1, <1>3 DEF PlainInv
<1>7. OpsInv' /\ MemInv'
  BY <1>1, <1>3, <1>4, MemSame
<1>8. Moving' = Moving /\ \A c \in Moving : heap'[c.addr] = heap[c.addr]
  BY <1>1, <1>4, MovingSame, MovingAllocated
<1>9. FlightInv' /\ FlightStep
  BY <1>1, <1>2, <1>8, FlightSendrecv
<1>10. NetInv'
  BY <1>2, PiggybackAssumption DEF NetInv, Freed
<1> QED
  BY <1>3, <1>5, <1>6, <1>7, <1>9, <1>10 DEF Fine

LEMMA TransmitFine ==
  ASSUME TypeOK, TableInv, PBTypeOK, PBInv, Transmit
  PROVE  Fine
<1> USE DEF PBInv
<1>1. PICK p \in posted :
        /\ p.kind = "send" /\ ~ p.moved
        /\ net' = net \union {[id |-> p.id, pb |-> heap[p.addr]]}
        /\ posted' = (posted \ {p}) \union {[p EXCEPT !.moved = TRUE]}
        /\ UNCHANGED <<vars, heap, data, nsent, statuses, abandoned>>
  BY DEF Transmit
<1> DEFINE q == [p EXCEPT !.moved = TRUE]
           e == [addr |-> p.addr, id |-> p.id]
<1>2. p \in Operation
  BY DEF PBTypeOK
<1>3. /\ q \in Operation /\ q.h = p.h /\ q.addr = p.addr /\ q.kind = p.kind /\ q.moved = TRUE
      /\ e.addr = p.addr /\ e.id = p.id
  BY <1>2 DEF Operation
<1>4. posted' = (posted \ {p}) \union {q}
  BY <1>1
<1>5. OpMoves(p) /\ ~ OpMoves(q)
  BY <1>1, <1>3 DEF OpMoves
<1> HIDE DEF q
<1>6. /\ TypeOK' /\ TableInv'
      /\ InUse' = InUse /\ Kept' = Kept /\ Slots' = Slots
      /\ \A g \in InUse : ParamsOf'[g] = ParamsOf[g]
      /\ UNCHANGED <<state, todo>> /\ data' \in [Slots' -> Buf \union {Wild}]
  BY <1>1, KeptStutter
<1>7. PBTypeOK'
  <2>1. heap[p.addr] \in Clock \union {Freed, Junk} /\ p.id \in 0..MaxMessage
    BY <1>2 DEF PBTypeOK, Operation
  <2>2. net' \subseteq Message
    BY <1>1, <2>1 DEF Message, PBTypeOK
  <2>3. posted' \subseteq Operation
    BY <1>3, <1>4 DEF PBTypeOK
  <2> QED
    BY <1>1, <1>6, <2>2, <2>3 DEF PBTypeOK
<1>8. PlainInv'
  BY <1>1, <1>6 DEF PlainInv
<1>9. OpsInv' /\ MemInv'
  BY <1>1, <1>3, <1>4, <1>6, MemMove
<1>10. e \in Moving /\ Moving' = Moving \ {e}
  <2>1. /\ MovingOps' = (MovingOps \ {e}) \union
                          {[addr |-> r.addr, id |-> r.id] : r \in {r \in {q} : OpMoves(r)}}
        /\ e \in MovingOps <=> OpMoves(p)
        /\ e \notin MovingStatuses
    BY <1>4, MovingInstead
  <2>2. MovingOps' = MovingOps \ {e}
    BY <1>5, <2>1
  <2>3. MovingStatuses' = MovingStatuses
    BY <1>1 DEF MovingStatuses
  <2> QED
    BY <1>5, <2>1, <2>2, <2>3 DEF Moving
<1>11. net' = net \union {Carried(e)}
  BY <1>1, <1>3 DEF Carried
<1> HIDE DEF e
<1>12. FlightInv' /\ FlightStep
  BY <1>1, <1>10, <1>11, FlightRead
<1>13. NetInv'
  BY <1>1, OpsAllocated DEF NetInv
<1> QED
  BY <1>6, <1>7, <1>8, <1>9, <1>12, <1>13 DEF Fine

LEMMA DeliverFine ==
  ASSUME TypeOK, TableInv, PBTypeOK, PBInv, Deliver
  PROVE  Fine
<1> USE DEF PBInv
<1>1. PICK p \in posted : \E m \in net :
        /\ p.kind = "recv" /\ ~ p.moved
        /\ net' = net \ {m}
        /\ heap' = [heap EXCEPT ![p.addr] = IF @ = Freed THEN Freed ELSE m.pb]
        /\ posted' = (posted \ {p}) \union {[p EXCEPT !.moved = TRUE, !.id = m.id]}
        /\ UNCHANGED <<vars, data, nsent, statuses, abandoned>>
  BY DEF Deliver
<1>2. PICK m \in net :
        /\ net' = net \ {m}
        /\ heap' = [heap EXCEPT ![p.addr] = IF @ = Freed THEN Freed ELSE m.pb]
        /\ posted' = (posted \ {p}) \union {[p EXCEPT !.moved = TRUE, !.id = m.id]}
        /\ UNCHANGED <<vars, data, nsent, statuses, abandoned>>
  BY <1>1
<1> DEFINE q == [p EXCEPT !.moved = TRUE, !.id = m.id]
           e == [addr |-> p.addr, id |-> p.id]
           a == p.addr
<1>3. p \in Operation /\ m \in Message /\ p.kind = "recv" /\ ~ p.moved
  BY <1>1 DEF PBTypeOK
<1>4. /\ q \in Operation /\ q.h = p.h /\ q.addr = a /\ q.kind = p.kind /\ q.moved = TRUE
      /\ q.id = m.id
  BY <1>3 DEF Operation, Message
<1>5. posted' = (posted \ {p}) \union {q}
  BY <1>2
<1>6. ~ OpMoves(p) /\ OpMoves(q)
  BY <1>3, <1>4 DEF OpMoves
<1> HIDE DEF q
<1>7. /\ TypeOK' /\ TableInv'
      /\ InUse' = InUse /\ Kept' = Kept /\ Slots' = Slots
      /\ \A g \in InUse : ParamsOf'[g] = ParamsOf[g]
      /\ UNCHANGED <<state, todo>> /\ data' \in [Slots' -> Buf \union {Wild}]
  BY <1>2, KeptStutter
<1>8. a \in Buf /\ heap[a] # Freed
  BY OpsAllocated
<1>9. /\ m.pb \in Clock \union {Junk, Freed}
      /\ heap' \in [Buf \union {Out} -> Clock \union {Freed, Junk}]
      /\ heap'[a] = m.pb /\ \A b \in Buf : b # a => heap'[b] = heap[b]
  <2>1. m.pb \in Clock \union {Junk, Freed}
    BY <1>3 DEF Message
  <2>2. heap \in [Buf \union {Out} -> Clock \union {Freed, Junk}]
    BY DEF PBTypeOK
  <2>3. heap' = [heap EXCEPT ![a] = m.pb]
    BY <1>2, <1>8, <2>2
  <2> HIDE DEF a
  <2> QED
    BY <1>8, <2>1, <2>2, <2>3
<1>10. PBTypeOK'
  <2>1. net' \subseteq Message
    BY <1>2 DEF PBTypeOK
  <2>2. posted' \subseteq Operation
    BY <1>4, <1>5 DEF PBTypeOK
  <2> QED
    BY <1>2, <1>7, <1>9, <2>1, <2>2 DEF PBTypeOK
<1>11. PlainInv'
  BY <1>2, <1>7 DEF PlainInv
<1>12. NetInv' /\ m.pb # Freed
  BY <1>2 DEF NetInv
<1>13. OpsInv' /\ MemInv'
  <2>1. \A b \in Buf : heap'[b] = Freed <=> heap[b] = Freed
    BY <1>8, <1>9, <1>12
  <2> QED
    BY <1>2, <1>4, <1>5, <1>7, <2>1, MemMove
<1>14. /\ Moving' = Moving \union {[addr |-> a, id |-> m.id]}
       /\ \A c \in Moving : c.addr # a
  <2>1. /\ MovingOps' = (MovingOps \ {e}) \union
                          {[addr |-> r.addr, id |-> r.id] : r \in {r \in {q} : OpMoves(r)}}
        /\ e \in MovingOps <=> OpMoves(p)
        /\ e \notin MovingStatuses
        /\ \A c \in Moving \ {e} : c.addr # a
    BY <1>5, MovingInstead
  <2>2. e \notin Moving
    BY <1>6, <2>1 DEF Moving
  <2>3. MovingOps' = MovingOps \union {[addr |-> a, id |-> m.id]}
    BY <1>4, <1>6, <2>1, <2>2
  <2>4. MovingStatuses' = MovingStatuses
    BY <1>2 DEF MovingStatuses
  <2> HIDE DEF e
  <2> QED
    BY <2>1, <2>2, <2>3, <2>4 DEF Moving
<1> HIDE DEF a
<1>15. \A c \in Moving : heap'[c.addr] = heap[c.addr]
  BY <1>9, <1>14, MovingAllocated
<1>16. FlightInv' /\ FlightStep
  <2>1. net \subseteq Message
    BY DEF PBTypeOK
  <2> QED
    BY <1>2, <1>9, <1>14, <1>15, <2>1, FlightWrite
<1> QED
  BY <1>7, <1>10, <1>11, <1>12, <1>13, <1>16 DEF Fine

(* The calls that complete requests, and MPI_Test, take no memory. *)
LEMMA CompletesFine ==
  ASSUME TypeOK, TableInv, PBTypeOK, PBInv, ~ PassesNull,
         NEW n \in 1..MaxCount, NEW hs \in [1..n -> Completable], PB_Completes(hs)
  PROVE  Fine
<1> USE DEF PBInv
<1>1. PMPI_Completes(hs) /\ UNCHANGED <<heap, data, posted, net, nsent, statuses, abandoned>>
  BY DEF PB_Completes, pbVars
<1>2. TypeOK' /\ TableInv'
  BY <1>1, CompletesTable
<1>3. /\ InUse' = InUse /\ Kept' = Kept /\ Slots' = Slots
      /\ \A g \in InUse : ParamsOf'[g] = ParamsOf[g]
      /\ \A h \in Handle : state'[h] \in {"none", "active"}
      /\ \A i \in DOMAIN todo' : todo'[i] \in Handle
  BY <1>1, KeptCompletes
<1>4. PBTypeOK'
  BY <1>1, <1>3 DEF PBTypeOK
<1>5. PlainInv' /\ NetInv'
  BY <1>1, <1>3 DEF PlainInv, NetInv
<1>6. OpsInv' /\ MemInv'
  BY <1>1, <1>3, MemSame
<1>7. FlightInv' /\ FlightStep
  BY <1>1, MovingSame, FlightQuiet
<1> QED
  BY <1>2, <1>4, <1>5, <1>6, <1>7 DEF Fine

LEMMA TestFailsFine ==
  ASSUME TypeOK, TableInv, PBTypeOK, PBInv, NEW h \in Handle, PB_MPI_TestFails(h)
  PROVE  Fine
<1> USE DEF PBInv
<1>1. MPI_TestFails(h) /\ UNCHANGED <<heap, data, posted, net, nsent, statuses, abandoned>>
  BY DEF PB_MPI_TestFails, pbVars
<1>2. TypeOK' /\ TableInv'
  BY <1>1, TestFailsTable
<1>3. /\ InUse' = InUse /\ Kept' = Kept /\ Slots' = Slots
      /\ \A g \in InUse : ParamsOf'[g] = ParamsOf[g]
      /\ UNCHANGED <<state, todo>>
  BY <1>1, KeptTestFails
<1>4. PBTypeOK'
  BY <1>1, <1>3 DEF PBTypeOK
<1>5. PlainInv' /\ NetInv'
  BY <1>1, <1>3 DEF PlainInv, NetInv
<1>6. OpsInv' /\ MemInv'
  BY <1>1, <1>3, MemSame
<1>7. FlightInv' /\ FlightStep
  BY <1>1, MovingSame, FlightQuiet
<1> QED
  BY <1>2, <1>4, <1>5, <1>6, <1>7 DEF Fine

(* The operation of a request that the request layer reports is over: its  *)
(* address is in the status, and its message with it or lost.              *)
LEMMA LoopFine ==
  ASSUME TypeOK, TableInv, PBTypeOK, PBInv, PB_LoopStep
  PROVE  Fine
<1> USE DEF PBInv
<1> DEFINE h == Head(todo)
           info == [kind |-> reqs[Slot(h)].kind, inreq |-> reqs[Slot(h)].inreq,
                    ptr |-> data[Slot(h)], moved |-> FALSE, id |-> 0]
           done == {p \in posted : p.h = h}
<1>1. /\ LoopStep /\ UNCHANGED <<heap, data, net, nsent, abandoned>>
      /\ IF done = {}
           THEN statuses' = Append(statuses, info)
           ELSE \E p \in done :
                  statuses' = Append(statuses, [info EXCEPT !.moved = p.moved, !.id = p.id])
      /\ posted' = posted \ done
  BY DEF PB_LoopStep
<1>2. TypeOK' /\ TableInv'
  BY <1>1, LoopTable
<1>3. /\ h \in InUse /\ InUse' = InUse \ {h}
      /\ Kept' = [g \in InUse \ {h} |-> Kept[g]]
      /\ \A g \in InUse \ {h} : ParamsOf'[g] = ParamsOf[g]
      /\ Slots' = Slots /\ UNCHANGED state
      /\ \A i \in DOMAIN todo' : todo'[i] \in Handle
  BY <1>1, KeptLoop
<1>4. /\ h \in Handle /\ h # Nobody /\ Nobody \notin InUse
      /\ Kept[h] = data[Slot(h)] /\ ParamsOf[h] = reqs[Slot(h)]
      /\ ParamsOf[h].inreq = h /\ ParamsOf[h].kind \in Kind
  BY <1>3, KeptAt
<1>5. PICK p \in posted : /\ p.h = h /\ p.addr = Kept[h] /\ p.kind = ParamsOf[h].kind
                          /\ {r \in posted : r.h = h} = {p}
  BY <1>3, <1>4, OneOperation
<1> DEFINE s == [info EXCEPT !.moved = p.moved, !.id = p.id]
           e == [addr |-> p.addr, id |-> p.id]
<1>6. statuses' = Append(statuses, s) /\ posted' = posted \ {p}
  BY <1>1, <1>5
<1>7. p \in Operation /\ p.addr \in Buf
  BY <1>5, OpsAllocated DEF PBTypeOK
<1>8. /\ s.kind = p.kind /\ s.inreq = h /\ s.ptr = p.addr /\ s.moved = p.moved /\ s.id = p.id
      /\ s \in StatusInfo
  BY <1>4, <1>5, <1>7 DEF StatusInfo, Operation
<1>9. posted' = posted \ {r \in posted : r.h = h}
  BY <1>1
<1> HIDE DEF s, info, h, done
<1>10. statuses \in Seq(StatusInfo)
  BY DEF PBTypeOK
<1>11. PBTypeOK'
  <2>1. statuses' \in Seq(StatusInfo)
    BY <1>6, <1>8, <1>10, AppendStatus
  <2> QED
    BY <1>1, <1>3, <1>6, <2>1 DEF PBTypeOK
<1>12. PlainInv' /\ NetInv'
  <2>1. \A i \in DOMAIN statuses' : statuses'[i].inreq \in Handle
    <3> DEFINE n == Len(statuses) + 1
    <3>1. /\ DOMAIN statuses' = DOMAIN statuses \union {n} /\ statuses'[n] = s
          /\ \A i \in DOMAIN statuses : statuses'[i] = statuses[i]
      BY <1>6, <1>8, <1>10, AppendStatus
    <3> HIDE DEF n
    <3> QED
      BY <1>4, <1>8, <3>1 DEF PlainInv
  <2> QED
    BY <1>1, <1>3, <2>1 DEF PlainInv, NetInv
<1>13. OpsInv' /\ MemInv'
  BY <1>1, <1>3, <1>4, <1>5, <1>6, <1>8, <1>9, <1>10, MemReport
<1>14. FlightInv' /\ FlightStep
  <2>1. MovingOps' = MovingOps \ {e} /\ (e \in MovingOps <=> OpMoves(p)) /\ e \notin MovingStatuses
    <3>1. posted' = (posted \ {p}) \union {}
      BY <1>6
    <3>2. /\ MovingOps' = (MovingOps \ {e}) \union
                            {[addr |-> r.addr, id |-> r.id] : r \in {r \in {} : OpMoves(r)}}
          /\ e \in MovingOps <=> OpMoves(p)
          /\ e \notin MovingStatuses
      BY <3>1, MovingInstead
    <3> QED
      BY <3>2
  <2>2. MovingStatuses' = IF StatusMoves(s) THEN MovingStatuses \union {e} ELSE MovingStatuses
    BY <1>6, <1>8, <1>10, MovingReport
  <2> HIDE DEF e
  <2>3. CASE StatusMoves(s) \/ ~ OpMoves(p)
    <3>1. StatusMoves(s) => OpMoves(p)
      BY <1>7, <1>8 DEF StatusMoves, OpMoves, Operation
    <3>2. Moving' = Moving
      BY <2>1, <2>2, <2>3, <3>1 DEF Moving
    <3> QED
      BY <1>1, <3>2, FlightQuiet
  <2>4. CASE ~ StatusMoves(s) /\ OpMoves(p)
    <3>1. e \in Moving /\ Moving' = Moving \ {e}
      BY <2>1, <2>2, <2>4 DEF Moving
    <3> QED
      BY <1>1, <3>1, FlightDrop
  <2> QED
    BY <2>3, <2>4
<1> QED
  BY <1>2, <1>11, <1>12, <1>13, <1>14 DEF Fine

(* ASYNC_COMPLETE *)
LEMMA AsyncFine ==
  ASSUME TypeOK, TableInv, PBTypeOK, PBInv, AsyncComplete
  PROVE  Fine
<1> USE DEF PBInv
<1> DEFINE s == Head(statuses)
           e == [addr |-> s.ptr, id |-> s.id]
<1>1. /\ statuses # <<>> /\ statuses' = Tail(statuses)
      /\ heap' = IF s.inreq # NULL /\ s.ptr \in Buf THEN [heap EXCEPT ![s.ptr] = Freed] ELSE heap
      /\ UNCHANGED <<vars, data, posted, net, nsent, abandoned>>
  BY DEF AsyncComplete
<1>2. statuses \in Seq(StatusInfo)
  BY DEF PBTypeOK
<1>3. /\ 1 \in DOMAIN statuses /\ s = statuses[1] /\ statuses' \in Seq(StatusInfo)
      /\ \A i \in DOMAIN statuses' : i + 1 \in DOMAIN statuses /\ statuses'[i] = statuses[i + 1]
  BY <1>1, <1>2, TailStatus
<1>4. s.inreq # NULL /\ s.ptr \in Buf
  BY <1>3, TableAssumption DEF PlainInv, MemInv
<1>5. /\ heap' = [heap EXCEPT ![s.ptr] = Freed]
      /\ heap \in [Buf \union {Out} -> Clock \union {Freed, Junk}]
  BY <1>1, <1>4 DEF PBTypeOK
<1>6. /\ TypeOK' /\ TableInv'
      /\ InUse' = InUse /\ Kept' = Kept /\ Slots' = Slots
      /\ \A g \in InUse : ParamsOf'[g] = ParamsOf[g]
      /\ UNCHANGED <<state, todo>> /\ data' \in [Slots' -> Buf \union {Wild}]
  BY <1>1, KeptStutter
<1>7. PBTypeOK'
  <2>1. heap' \in [Buf \union {Out} -> Clock \union {Freed, Junk}]
    BY <1>5
  <2> QED
    BY <1>1, <1>3, <1>6, <2>1 DEF PBTypeOK
<1>8. PlainInv' /\ NetInv'
  BY <1>1, <1>3, <1>6 DEF PlainInv, NetInv
<1>9. OpsInv' /\ MemInv'
  BY <1>1, <1>2, <1>5, <1>6, MemRelease
<1>10. /\ Moving' = Moving \ {e}
       /\ e \in Moving <=> StatusMoves(s)
       /\ \A c \in Moving \ {e} : c.addr # s.ptr
  BY <1>1, <1>2, MovingTaken
<1> HIDE DEF s, e
<1>11. \A c \in Moving \ {e} : heap'[c.addr] = heap[c.addr]
  BY <1>5, <1>10, MovingAllocated
<1>12. FlightInv' /\ FlightStep
  <2>1. CASE e \in Moving
    BY <1>1, <1>10, <1>11, <2>1, FlightDrop
  <2>2. CASE e \notin Moving
    <3>1. Moving' = Moving /\ \A c \in Moving : heap'[c.addr] = heap[c.addr]
      BY <1>10, <1>11, <2>2
    <3> QED
      BY <1>1, <3>1, FlightQuiet
  <2> QED
    BY <2>1, <2>2
<1> QED
  BY <1>6, <1>7, <1>8, <1>9, <1>12 DEF Fine

LEMMA RequestFreeFine ==
  ASSUME TypeOK, TableInv, PBTypeOK, PBInv, NEW h \in Handle, PB_MPI_Request_free(h)
  PROVE  Fine
<1> USE DEF PBInv
<1> DEFINE Orphan(p) == [p EXCEPT !.h = IF @ = h THEN Nobody ELSE @]
<1>1. /\ MPI_Request_free(h)
      /\ posted' = {[p EXCEPT !.h = IF @ = h THEN Nobody ELSE @] : p \in posted}
      /\ abandoned' = abandoned \union {data[Slot(h)]}
      /\ UNCHANGED <<heap, data, net, nsent, statuses>>
  BY DEF PB_MPI_Request_free
<1>2. TypeOK' /\ TableInv'
  BY <1>1, RequestFreeTable
<1>3. /\ h \in InUse /\ InUse' = InUse \ {h}
      /\ Kept' = [g \in InUse \ {h} |-> Kept[g]]
      /\ \A g \in InUse \ {h} : ParamsOf'[g] = ParamsOf[g]
      /\ Slots' = Slots /\ state' = [state EXCEPT ![h] = "none"]
      /\ todo = <<>> /\ todo' = todo
  BY <1>1, KeptFree
<1>4. Nobody \notin InUse /\ Kept[h] = data[Slot(h)] /\ Kept[h] \in Buf
  BY <1>3, KeptAt DEF MemInv
<1>5. posted \subseteq Operation
  BY DEF PBTypeOK
<1>6. \A p \in posted : /\ Orphan(p) \in Operation
                        /\ Orphan(p).addr = p.addr /\ Orphan(p).kind = p.kind
                        /\ Orphan(p).moved = p.moved /\ Orphan(p).id = p.id
  BY <1>5 DEF Operation
<1>7. posted' = {Orphan(p) : p \in posted}
  BY <1>1
<1> HIDE DEF Orphan
<1>8. PBTypeOK'
  <2>1. posted' \subseteq Operation
    BY <1>6, <1>7
  <2>2. abandoned' \subseteq Buf
    BY <1>1, <1>4 DEF PBTypeOK
  <2> QED
    BY <1>1, <1>3, <2>1, <2>2 DEF PBTypeOK
<1>9. PlainInv' /\ NetInv'
  BY <1>1, <1>3 DEF PlainInv, NetInv, TypeOK
<1>10. OpsInv' /\ MemInv'
  <2>1. abandoned' = abandoned \union {Kept[h]}
    BY <1>1, <1>4
  <2> QED
    BY <1>1, <1>3, <1>4, <1>5, <2>1, MemAbandon
<1>11. Moving' = Moving
  <2>1. MovingStatuses' = MovingStatuses
    BY <1>1 DEF MovingStatuses
  <2>2. \A p \in posted : OpMoves(Orphan(p)) <=> OpMoves(p)
    BY <1>6 DEF OpMoves
  <2>3. MovingOps' = {[addr |-> q.addr, id |-> q.id] : q \in {q \in posted' : OpMoves(q)}}
    BY DEF MovingOps
  <2>4. ASSUME NEW c \in MovingOps PROVE c \in MovingOps'
    <3>1. PICK p \in posted : OpMoves(p) /\ c = [addr |-> p.addr, id |-> p.id]
      BY <2>4 DEF MovingOps
    <3>2. Orphan(p) \in posted' /\ OpMoves(Orphan(p))
          /\ c = [addr |-> Orphan(p).addr, id |-> Orphan(p).id]
      BY <1>6, <1>7, <2>2, <3>1
    <3> QED
      BY <2>3, <3>2
  <2>5. ASSUME NEW c \in MovingOps' PROVE c \in MovingOps
    <3>1. PICK q \in posted' : OpMoves(q) /\ c = [addr |-> q.addr, id |-> q.id]
      BY <2>3, <2>5
    <3>2. PICK p \in posted : q = Orphan(p)
      BY <1>7
    <3>3. OpMoves(p) /\ c = [addr |-> p.addr, id |-> p.id]
      BY <1>6, <2>2, <3>1, <3>2
    <3> QED
      BY <3>3 DEF MovingOps
  <2> QED
    BY <2>1, <2>4, <2>5 DEF Moving
<1>12. FlightInv' /\ FlightStep
  BY <1>1, <1>11, FlightQuiet
<1> QED
  BY <1>2, <1>8, <1>9, <1>10, <1>12 DEF Fine

LEMMA StepFine ==
  ASSUME ~ PassesNull, TypeOK, TableInv, PBTypeOK, PBInv, [PBNext]_allVars
  PROVE  Fine
<1>1. ASSUME NEW h \in Handle, NEW v \in Clock, PB_MPI_Isend(h, v) PROVE Fine
  BY <1>1, IsendFine
<1>2. ASSUME NEW h \in Handle, PB_MPI_Irecv(h) PROVE Fine
  BY <1>2, IrecvFine
<1>3. ASSUME NEW h \in Handle, PB_MPI_Request_free(h) PROVE Fine
  BY <1>3, RequestFreeFine
<1>4. ASSUME NEW h \in Handle, PB_MPI_TestFails(h) PROVE Fine
  BY <1>4, TestFailsFine
<1>5. ASSUME NEW v \in Clock, PB_MPI_Send(v) PROVE Fine
  BY <1>5, SendFine
<1>6. ASSUME NEW v \in Clock, PB_MPI_Sendrecv(v) PROVE Fine
  BY <1>6, SendrecvFine
<1>7. CASE PB_MPI_Recv
  BY <1>7, RecvFine
<1>8. CASE Transmit
  BY <1>8, TransmitFine
<1>9. CASE Deliver
  BY <1>9, DeliverFine
<1>10. ASSUME NEW n \in 1..MaxCount, NEW hs \in [1..n -> Completable], PB_Completes(hs)
       PROVE  Fine
  BY <1>10, CompletesFine
<1>11. CASE PB_LoopStep
  BY <1>11, LoopFine
<1>12. CASE AsyncComplete
  BY <1>12, AsyncFine
<1>13. CASE UNCHANGED allVars
  <2> USE DEF PBInv
  <2>1. UNCHANGED <<vars, heap, data, posted, net, nsent, statuses, abandoned>>
    BY <1>13 DEF allVars, pbVars
  <2>2. /\ TypeOK' /\ TableInv'
        /\ InUse' = InUse /\ Kept' = Kept /\ Slots' = Slots
        /\ \A g \in InUse : ParamsOf'[g] = ParamsOf[g]
        /\ UNCHANGED <<state, todo>> /\ data' \in [Slots' -> Buf \union {Wild}]
    BY <2>1, KeptStutter
  <2>3. PBTypeOK' /\ PlainInv' /\ NetInv'
    BY <2>1, <2>2 DEF PBTypeOK, PlainInv, NetInv
  <2>4. OpsInv' /\ MemInv'
    BY <2>1, <2>2, MemSame
  <2>5. FlightInv' /\ FlightStep
    BY <2>1, MovingSame, FlightQuiet
  <2> QED
    BY <2>2, <2>3, <2>4, <2>5 DEF Fine
<1> QED
  BY <1>1, <1>2, <1>3, <1>4, <1>5, <1>6, <1>7, <1>8, <1>9, <1>10, <1>11, <1>12, <1>13
     DEF PBNext

--------------------------------------------------------------------------------
(* The theorems                                                            *)

LEMMA PiggybackAlways ==
  ASSUME ~ PassesNull
  PROVE  PBSpec => [](TypeOK /\ TableInv /\ PBTypeOK /\ PBInv)
<1>1. PBInit => TypeOK /\ TableInv /\ PBTypeOK /\ PBInv
  BY InitPB
<1>2. TypeOK /\ TableInv /\ PBTypeOK /\ PBInv /\ [PBNext]_allVars
        => TypeOK' /\ TableInv' /\ PBTypeOK' /\ PBInv'
  BY StepFine DEF Fine
<1> QED
  BY <1>1, <1>2, PTL DEF PBSpec

(* What is kept with the slots, in the operations, on the wire and in the  *)
(* statuses is what the code declares there.                               *)
THEOREM PiggybackTypeCorrect ==
  ASSUME ~ PassesNull
  PROVE  PBSpec => []PBTypeOK
BY PiggybackAlways, PTL

(* Requests that still have to pass ASYNC_COMPLETE are those in use. *)
LEMMA OutstandingInUse ==
  ASSUME TypeOK, PlainInv
  PROVE  Outstanding = InUse
<1>1. NULL \notin Handle
  BY TableAssumption
<1>2. {todo[i] : i \in DOMAIN todo} \subseteq Handle
  BY DEF PlainInv
<1> QED
  BY <1>1, <1>2 DEF Outstanding, InUse, PlainInv

(* PBPTR_STORAGE and ASYNC_COMPLETE: the memory of every outstanding       *)
(* request and of every status is allocated and its own, and MPI works on  *)
(* memory that is there, however many requests there are and whatever      *)
(* slots they reuse.                                                       *)
THEOREM BuffersNeverShared ==
  ASSUME ~ PassesNull
  PROVE  PBSpec => []BuffersExclusive
<1>1. TypeOK /\ TableInv /\ PBTypeOK /\ PBInv => BuffersExclusive
  <2> SUFFICES ASSUME TypeOK, TableInv, PBTypeOK, PBInv PROVE BuffersExclusive
    OBVIOUS
  <2> USE DEF PBInv
  <2>1. /\ Outstanding = InUse
        /\ \A h \in InUse : data[Slot(h)] = Kept[h]
        /\ \A a : a \in Buf /\ heap[a] # Freed => a \notin Unallocated \union {Wild}
    BY OutstandingInUse, KeptAt, PiggybackAssumption DEF Unallocated
  <2>2. /\ \A h \in Outstanding : data[Slot(h)] \notin Unallocated \union {Wild}
        /\ \A h, g \in Outstanding : data[Slot(h)] = data[Slot(g)] => h = g
    BY <2>1 DEF MemInv
  <2>3. /\ \A i \in DOMAIN statuses : statuses[i].ptr \notin Unallocated \union {Wild}
        /\ \A i, j \in DOMAIN statuses : statuses[i].ptr = statuses[j].ptr => i = j
        /\ \A i \in DOMAIN statuses, h \in Outstanding : statuses[i].ptr # data[Slot(h)]
    BY <2>1 DEF MemInv
  <2>4. \A p \in posted : p.addr \notin Unallocated
    BY <2>1, OpsAllocated
  <2> QED
    BY <2>2, <2>3, <2>4 DEF BuffersExclusive
<1> QED
  BY <1>1, PiggybackAlways, PTL

(* No memory is forgotten but that of requests that MPI_Request_free took. *)
THEOREM BuffersGivenBack ==
  ASSUME ~ PassesNull
  PROVE  PBSpec => []BuffersAccounted
<1>1. TypeOK /\ TableInv /\ PBTypeOK /\ PBInv => BuffersAccounted
  <2> SUFFICES ASSUME TypeOK, TableInv, PBTypeOK, PBInv PROVE BuffersAccounted
    OBVIOUS
  <2> USE DEF PBInv
  <2> DEFINE Owned == {data[Slot(h)] : h \in Outstanding} \union
                      {statuses[i].ptr : i \in DOMAIN statuses} \union abandoned
  <2>1. Outstanding = InUse /\ \A h \in InUse : data[Slot(h)] = Kept[h]
    BY OutstandingInUse, KeptAt
  <2>2. ASSUME NEW a \in Buf \ Unallocated PROVE a \in Owned
    <3>1. a \in Buf /\ heap[a] # Freed
      BY DEF Unallocated
    <3> QED
      BY <2>1, <3>1 DEF MemInv
  <2>3. ASSUME NEW a \in Owned PROVE a \in Buf \ Unallocated
    <3>1. a \in Buf /\ heap[a] # Freed
      BY <2>1 DEF MemInv
    <3> QED
      BY <3>1 DEF Unallocated
  <2>4. Buf \ Unallocated = Owned
    BY <2>2, <2>3
  <2> QED
    BY <2>4 DEF BuffersAccounted
<1> QED
  BY <1>1, PiggybackAlways, PTL

(* A message arrives with the value that was set when it was sent, once,   *)
(* through the wire, the memory of requests and the statuses.              *)
THEOREM PiggybackImplementsChannel ==
  ASSUME ~ PassesNull
  PROVE  PBSpec => ImplementsChannel
<1>1. PBInit => Channel!PCInit
  <2> SUFFICES ASSUME PBInit PROVE Channel!PCInit
    OBVIOUS
  <2>1. posted = {} /\ DOMAIN statuses = {} /\ net = {} /\ nsent = 0
    BY DEF PBInit
  <2>2. InFlight = {}
    BY <2>1, FlightIs DEF Moving, MovingOps, MovingStatuses
  <2> QED
    BY <2>1, <2>2 DEF Channel!PCInit
<1>2. TypeOK /\ TableInv /\ PBTypeOK /\ PBInv /\ [PBNext]_allVars
        => [Channel!PCNext]_<<nsent, InFlight>>
  BY StepFine DEF Fine, FlightStep
<1> QED
  BY <1>1, <1>2, PiggybackAlways, PTL DEF PBSpec, ImplementsChannel, Channel!PCSpec
================================================================================
