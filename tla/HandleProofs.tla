----------------------------- MODULE HandleProofs -----------------------------
(***************************************************************************)
(* Proofs about the requests in the clock layer, for every number of       *)
(* ranks, handles and messages and every bound: irecv_request_map and      *)
(* request_to_local_clock know the requests they should, although MPI      *)
(* hands out handles again and the wrappers forget sends; the checks that  *)
(* end in exit(1) never fail; and the registered buffer tells the truth    *)
(* about every request of the array.                                       *)
(***************************************************************************)
EXTENDS ClmpiProofs

--------------------------------------------------------------------------------
(* The completion wrappers *)

(* The wrappers whose PMPI call fills in one status per request. *)
FullOps == {"Wait", "Waitall", "Test", "Testall"}

(* The wrappers that look at one status only. *)
SingleOps == {"Wait", "Waitany", "Test", "Testany"}

(* What the application and PMPI hand to a completion wrapper: an array of *)
(* different pending requests, and the indices of the completed ones.      *)
Served(r, op, a, done, n) ==
  /\ op \in CompletionOps
  /\ a \in Seq(Handle \union {NULL}) /\ Len(a) \in 1..MaxCount
  /\ done \in Seq(1..Len(a)) /\ Injective(done)
  /\ \A i \in DOMAIN a : a[i] \in Pending(r) \union {NULL}
  /\ \A i, j \in Live(a) : a[i] = a[j] => i = j
  /\ \A k \in DOMAIN done : done[k] \in Live(a)
  /\ op \in FullOps => Live(a) = DOMAIN a /\ \A k \in DOMAIN done : done[k] = k
  /\ n = IF op \in SingleOps THEN 1 ELSE Len(a)
  /\ op \in {"Wait", "Test"} => Len(a) = 1

(* The array of MPI_Waitall and MPI_Testall. *)
LEMMA ArraysFull ==
  ASSUME NEW r \in Rank, NEW a \in Arrays(r)
  PROVE  /\ a \in Seq(Handle \union {NULL}) /\ Len(a) \in 1..MaxCount
         /\ \A i \in DOMAIN a : a[i] \in Pending(r)
         /\ Live(a) = DOMAIN a
         /\ \A i, j \in Live(a) : a[i] = a[j] => i = j
<1>1. a \in Orders(Pending(r)) /\ a # <<>>
  BY DEF Arrays
<1>2. a \in Seq(Pending(r)) /\ Len(a) \in 0..MaxCount /\ DOMAIN a = 1..Len(a)
  BY <1>1, OrdersType
<1>3. \A i \in DOMAIN a : a[i] \in Pending(r) /\ a[i] # NULL
  BY <1>2, HandleAssumption DEF Pending
<1>4. Injective(a)
  BY <1>1 DEF Orders
<1>5. Len(a) \in 1..MaxCount
  BY <1>1, <1>2, BoundAssumption
<1>6. a \in Seq(Handle \union {NULL})
  BY ArraysType
<1> QED
  BY <1>3, <1>4, <1>5, <1>6 DEF Live, Injective

(* The array of the other wrappers over several requests. *)
LEMMA ArraysGapped ==
  ASSUME NEW r \in Rank, NEW a \in GappedArrays(r)
  PROVE  /\ a \in Seq(Handle \union {NULL}) /\ Len(a) \in 1..MaxCount
         /\ DOMAIN a = 1..Len(a)
         /\ \A i \in DOMAIN a : a[i] \in Pending(r) \union {NULL}
         /\ \A i, j \in Live(a) : a[i] = a[j] => i = j
<1>1. PICK n \in 1..MaxCount : a \in [1..n -> Pending(r) \union {NULL}]
  BY DEF GappedArrays
<1>2. n \in Nat
  BY BoundAssumption
<1>3. a \in Seq(Handle \union {NULL}) /\ DOMAIN a = 1..Len(a)
  BY ArraysType
<1>4. Len(a) = n
  BY <1>1, <1>2, FunctionIsSeq
<1> QED
  BY <1>1, <1>3, <1>4 DEF GappedArrays

(* Indices PMPI_Waitsome and PMPI_Testsome may report. *)
LEMMA OrderOfLive ==
  ASSUME NEW r \in Rank, NEW a \in GappedArrays(r), NEW done \in Orders(Live(a))
  PROVE  /\ done \in Seq(1..Len(a)) /\ Injective(done)
         /\ \A k \in DOMAIN done : done[k] \in Live(a)
<1>1. done \in Seq(Live(a)) /\ DOMAIN done = 1..Len(done)
  BY OrdersType
<1>2. Injective(done)
  BY DEF Orders
<1> QED
  BY <1>1, <1>2, PartDone

(* At most one status. *)
LEMMA OrderOfOne ==
  ASSUME NEW n \in Nat, NEW i \in 1..n, NEW done \in {<<>>, <<i>>}
  PROVE  /\ done \in Seq(1..n) /\ Injective(done)
         /\ \A k \in DOMAIN done : done[k] = i /\ k = 1
<1>1. CASE done = <<>>
  BY <1>1 DEF Injective
<1>2. CASE done = <<i>>
  BY <1>2 DEF Injective
<1> QED
  BY <1>1, <1>2

(* Every completion wrapper is called as Served says.                      *)
LEMMA CompletesServed ==
  ASSUME NEW r \in Rank, Completes(r), ~ Unregistered(r)
  PROVE  \E op, a, done, n : Served(r, op, a, done, n) /\ Complete(r, op, a, done, n)
<1> USE DEF CompletionOps, WaitOps, TestOps, FullOps, SingleOps
<1>1. ASSUME NEW h \in Pending(r)
      PROVE  /\ <<h>> \in Seq(Handle \union {NULL}) /\ Len(<<h>>) = 1
             /\ 1 \in 1..MaxCount
             /\ \A i \in DOMAIN <<h>> : <<h>>[i] \in Pending(r) /\ i = 1
             /\ Live(<<h>>) = DOMAIN <<h>> /\ 1 \in DOMAIN <<h>>
  BY HandleAssumption, BoundAssumption DEF Pending, Live
<1>2. CASE MPI_Wait(r)
  <2>1. PICK h \in Pending(r) : Complete(r, "Wait", <<h>>, <<1>>, 1)
    BY <1>2 DEF MPI_Wait
  <2>2. <<1>> \in Seq(1..1) /\ Injective(<<1>>) /\ \A k \in DOMAIN <<1>> : <<1>>[k] = 1 /\ k = 1
    BY OrderOfOne
  <2>3. Served(r, "Wait", <<h>>, <<1>>, 1)
    BY <1>1, <2>2 DEF Served
  <2> QED
    BY <2>1, <2>3
<1>3. CASE MPI_Waitany(r)
  <2>1. PICK a \in GappedArrays(r) :
          \E i \in Live(a) : Complete(r, "Waitany", a, <<i>>, 1)
    BY <1>3 DEF MPI_Waitany
  <2>2. PICK i \in Live(a) : Complete(r, "Waitany", a, <<i>>, 1)
    BY <2>1
  <2>3. Len(a) \in Nat /\ i \in 1..Len(a)
    BY ArraysGapped, BoundAssumption DEF Live
  <2>4. <<i>> \in Seq(1..Len(a)) /\ Injective(<<i>>) /\ \A k \in DOMAIN <<i>> : <<i>>[k] = i
    BY <2>3, OrderOfOne
  <2>5. Served(r, "Waitany", a, <<i>>, 1)
    BY <2>4, ArraysGapped DEF Served
  <2> QED
    BY <2>2, <2>5
<1>4. CASE MPI_Waitsome(r)
  <2>1. PICK a \in GappedArrays(r) : \E done \in Orders(Live(a)) :
          Complete(r, "Waitsome", a, done, Len(a))
    BY <1>4 DEF MPI_Waitsome
  <2>2. PICK done \in Orders(Live(a)) : Complete(r, "Waitsome", a, done, Len(a))
    BY <2>1
  <2>3. Served(r, "Waitsome", a, done, Len(a))
    BY OrderOfLive, ArraysGapped DEF Served
  <2> QED
    BY <2>2, <2>3
<1>5. CASE MPI_Waitall(r)
  <2>1. PICK a \in Arrays(r) : Complete(r, "Waitall", a, [i \in DOMAIN a |-> i], Len(a))
    BY <1>5 DEF MPI_Waitall
  <2>2. Served(r, "Waitall", a, [i \in DOMAIN a |-> i], Len(a))
    BY ArraysFull, FullDone DEF Served, Injective
  <2> QED
    BY <2>1, <2>2
<1>6. CASE MPI_Test(r)
  <2>1. PICK h \in Pending(r), done \in {<<>>, <<1>>} : Complete(r, "Test", <<h>>, done, 1)
    BY <1>6 DEF MPI_Test
  <2>2. done \in Seq(1..1) /\ Injective(done) /\ \A k \in DOMAIN done : done[k] = 1 /\ k = 1
    <3>1. CASE done = <<>>
      BY <3>1 DEF Injective
    <3>2. CASE done = <<1>>
      BY <3>2 DEF Injective
    <3> QED
      BY <3>1, <3>2
  <2>3. Served(r, "Test", <<h>>, done, 1)
    BY <1>1, <2>2 DEF Served
  <2> QED
    BY <2>1, <2>3
<1>7. CASE MPI_Testany(r)
  <2>1. PICK a \in GappedArrays(r) : \E done \in {<<>>} \union {<<i>> : i \in Live(a)} :
          Complete(r, "Testany", a, done, 1)
    BY <1>7 DEF MPI_Testany
  <2>2. PICK done \in {<<>>} \union {<<i>> : i \in Live(a)} : Complete(r, "Testany", a, done, 1)
    BY <2>1
  <2>3. PICK i \in Live(a) : done \in {<<>>, <<i>>}
    BY <2>2 DEF GappedArrays
  <2>4. Len(a) \in Nat /\ i \in 1..Len(a)
    BY ArraysGapped, BoundAssumption DEF Live
  <2>5. done \in Seq(1..Len(a)) /\ Injective(done) /\ \A k \in DOMAIN done : done[k] = i
    BY <2>3, <2>4, OrderOfOne
  <2>6. Served(r, "Testany", a, done, 1)
    BY <2>5, ArraysGapped DEF Served
  <2> QED
    BY <2>2, <2>6
<1>8. CASE MPI_Testsome(r)
  <2>1. PICK a \in GappedArrays(r) : \E done \in Orders(Live(a)) :
          Complete(r, "Testsome", a, done, Len(a))
    BY <1>8 DEF MPI_Testsome
  <2>2. PICK done \in Orders(Live(a)) : Complete(r, "Testsome", a, done, Len(a))
    BY <2>1
  <2>3. Served(r, "Testsome", a, done, Len(a))
    BY OrderOfLive, ArraysGapped DEF Served
  <2> QED
    BY <2>2, <2>3
<1>9. CASE MPI_Testall(r)
  <2>1. PICK a \in Arrays(r) : \E done \in {<<>>, [i \in DOMAIN a |-> i]} :
          Complete(r, "Testall", a, done, Len(a))
    BY <1>9 DEF MPI_Testall
  <2>2. PICK done \in {<<>>, [i \in DOMAIN a |-> i]} : Complete(r, "Testall", a, done, Len(a))
    BY <2>1
  <2>3. done \in Seq(1..Len(a)) /\ Injective(done) /\ \A k \in DOMAIN done : done[k] = k
    <3>1. CASE done = <<>>
      BY <3>1 DEF Injective
    <3>2. CASE done = [i \in DOMAIN a |-> i]
      BY <3>2, FullDone DEF Injective
    <3> QED
      BY <3>1, <3>2
  <2>4. \A k \in DOMAIN done : done[k] \in DOMAIN a
    BY <2>3, ArraysFull
  <2>5. Served(r, "Testall", a, done, Len(a))
    BY <2>3, <2>4, ArraysFull DEF Served
  <2> QED
    BY <2>2, <2>5
<1> QED
  BY <1>2, <1>3, <1>4, <1>5, <1>6, <1>7, <1>8, <1>9 DEF Completes
--------------------------------------------------------------------------------
(* The two sets of handles *)

(* The statuses a loop has yet to reach are of different requests, which   *)
(* MPI has completed; only a rank in a wrapper has any.                    *)
TodoInv ==
  \A r \in Rank :
    /\ todo[r] # <<>> => pc[r] \in CompletionOps \union BlockingOps \union {"Exited"}
    /\ \A k, l \in DOMAIN todo[r] : todo[r][k].h = todo[r][l].h => k = l
    /\ \A k \in DOMAIN todo[r] : todo[r][k].h \in Handle => req[r][todo[r][k].h] = "none"

(* A completed send that the loop has yet to reach has not been dropped.   *)
SendsKnown ==
  \A r \in Rank : \A k \in DOMAIN todo[r] :
    todo[r][k].msg = NoMessage => todo[r][k].h \in request_to_local_clock[r]

HandleInv == TodoInv /\ SendsKnown /\ IrecvMapExact /\ SendsNeverMissed

LEMMA InitHandle == Init => HandleInv
  BY DEF Init, HandleInv, TodoInv, SendsKnown, IrecvMapExact, SendsNeverMissed

(* A rank that is not in a wrapper with statuses has none.                 *)
LEMMA NoTodo ==
  ASSUME TodoInv, NEW r \in Rank,
         pc[r] \in {"Idle", "Send", "SendrecvPosted", "Collective", "Reduced"}
  PROVE  todo[r] = <<>>
  BY DEF TodoInv, CompletionOps, WaitOps, TestOps, BlockingOps

(* Steps that leave requests, statuses and maps alone.                     *)
LEMMA QuietHandle ==
  ASSUME HandleInv, UNCHANGED <<todo, req, irecv_request_map, request_to_local_clock>>,
         \A r \in Rank : todo[r] # <<>> =>
           pc'[r] \in CompletionOps \union BlockingOps \union {"Exited"}
  PROVE  HandleInv'
  BY DEF HandleInv, TodoInv, SendsKnown, IrecvMapExact, SendsNeverMissed

(* What is left of todo when the loop has taken its head.                  *)
LEMMA PopTodo ==
  ASSUME TypeOK, NEW r \in Rank, todo[r] # <<>>, todo' = [todo EXCEPT ![r] = Tail(@)]
  PROVE  /\ 1 \in DOMAIN todo[r] /\ Head(todo[r]) = todo[r][1]
         /\ \A q \in Rank : q # r => todo'[q] = todo[q]
         /\ \A k \in DOMAIN todo'[r] : k + 1 \in DOMAIN todo[r] /\ k + 1 # 1
                                       /\ todo'[r][k] = todo[r][k + 1]
         /\ \A k \in DOMAIN todo[r] : k # 1 =>
              \E l \in DOMAIN todo'[r] : todo[r][k] = todo'[r][l] /\ k = l + 1
<1>1. todo[r] \in Seq(Status) /\ todo \in [Rank -> Seq(Status)]
  BY DEF TypeOK
<1>2. todo'[r] = Tail(todo[r]) /\ \A q \in Rank : q # r => todo'[q] = todo[q]
  BY <1>1
<1>3. 1 \in DOMAIN todo[r] /\ Head(todo[r]) = todo[r][1]
  BY <1>1
<1>4. ASSUME NEW k \in DOMAIN todo'[r]
      PROVE  k + 1 \in DOMAIN todo[r] /\ k + 1 # 1 /\ todo'[r][k] = todo[r][k + 1]
  <2>1. k \in DOMAIN Tail(todo[r])
    BY <1>2, <1>4
  <2>2. Tail(todo[r])[k] = todo[r][k + 1] /\ k + 1 \in DOMAIN todo[r]
    BY <1>1, <2>1, TailPlaces
  <2>3. k \in Nat \ {0}
    BY <1>1, <2>1
  <2>4. k + 1 # 1
    BY <2>3
  <2> QED
    BY <1>2, <2>2, <2>4, Zenon
<1>5. ASSUME NEW k \in DOMAIN todo[r], k # 1
      PROVE  \E l \in DOMAIN todo'[r] : todo[r][k] = todo'[r][l] /\ k = l + 1
  <2>1. /\ Len(Tail(todo[r])) = Len(todo[r]) - 1
        /\ \A i \in 1..Len(Tail(todo[r])) : Tail(todo[r])[i] = todo[r][i + 1]
        /\ Tail(todo[r]) \in Seq(Status)
    BY <1>1, HeadTailProperties
  <2>2. k \in 2..Len(todo[r]) /\ Len(todo[r]) \in Nat
    BY <1>1, <1>5
  <2>3. k - 1 \in 1..(Len(todo[r]) - 1) /\ (k - 1) + 1 = k
    BY <2>2
  <2>4. DOMAIN Tail(todo[r]) = 1..Len(Tail(todo[r]))
    BY <2>1
  <2> QED
    BY <1>2, <2>1, <2>3, <2>4
<1> QED
  BY <1>2, <1>3, <1>4, <1>5

(* The same without the numbers: todo loses the status at its head only.   *)
LEMMA PopStatuses ==
  ASSUME TypeOK, NEW r \in Rank, todo[r] # <<>>, todo' = [todo EXCEPT ![r] = Tail(@)]
  PROVE  /\ \A q \in Rank : q # r => todo'[q] = todo[q]
         /\ \A k \in DOMAIN todo'[r] :
              \E l \in DOMAIN todo[r] : l # 1 /\ todo'[r][k] = todo[r][l]
         /\ \A l \in DOMAIN todo[r] : l # 1 =>
              \E k \in DOMAIN todo'[r] : todo'[r][k] = todo[r][l]
         /\ \A q \in Rank : \A k \in DOMAIN todo'[q] :
              \E l \in DOMAIN todo[q] : todo'[q][k] = todo[q][l]
<1>1. \A q \in Rank : q # r => todo'[q] = todo[q]
  BY PopTodo
<1>2. \A k \in DOMAIN todo'[r] :
        \E l \in DOMAIN todo[r] : l # 1 /\ todo'[r][k] = todo[r][l]
  <2> SUFFICES ASSUME NEW k \in DOMAIN todo'[r]
               PROVE  \E l \in DOMAIN todo[r] : l # 1 /\ todo'[r][k] = todo[r][l]
    OBVIOUS
  <2>1. k + 1 \in DOMAIN todo[r] /\ k + 1 # 1 /\ todo'[r][k] = todo[r][k + 1]
    BY PopTodo
  <2> QED
    BY <2>1, Zenon
<1>3. \A l \in DOMAIN todo[r] : l # 1 =>
        \E k \in DOMAIN todo'[r] : todo'[r][k] = todo[r][l]
  <2> SUFFICES ASSUME NEW l \in DOMAIN todo[r], l # 1
               PROVE  \E k \in DOMAIN todo'[r] : todo'[r][k] = todo[r][l]
    OBVIOUS
  <2>1. \E k \in DOMAIN todo'[r] : todo[r][l] = todo'[r][k] /\ l = k + 1
    BY PopTodo
  <2> QED
    BY <2>1, Zenon
<1>4. ASSUME NEW q \in Rank, NEW k \in DOMAIN todo'[q]
      PROVE  \E l \in DOMAIN todo[q] : todo'[q][k] = todo[q][l]
  <2>1. CASE q = r
    BY <1>2, <2>1, Zenon
  <2>2. CASE q # r
    BY <1>1, <2>2, Zenon
  <2> QED
    BY <2>1, <2>2
<1> QED
  BY <1>1, <1>2, <1>3, <1>4, Zenon

(* Statuses of a completion call: of different handles of the array, a     *)
(* message for the receives and none for the sends.                        *)
LEMMA CompleteTodo ==
  ASSUME TypeOK, NEW r \in Rank, NEW op, NEW a, NEW done, NEW n,
         Served(r, op, a, done, n), Complete(r, op, a, done, n)
  PROVE  /\ DOMAIN todo'[r] = DOMAIN done
         /\ \A k \in DOMAIN done :
              /\ todo'[r][k].slot = k /\ todo'[r][k].idx = done[k]
              /\ todo'[r][k].h = a[done[k]]
              /\ a[done[k]] \in Pending(r)
              /\ (todo'[r][k].msg = NoMessage) <=> (req[r][a[done[k]]] = "send")
         /\ \A k, l \in DOMAIN done : a[done[k]] = a[done[l]] => k = l
         /\ \A q \in Rank : q # r => todo'[q] = todo[q]
<1>1. PICK got \in Deliveries(r, a, done) :
        todo' = [todo EXCEPT ![r] = [k \in DOMAIN done |->
             [slot |-> k, idx |-> done[k], h |-> a[done[k]], msg |-> got[k]]]]
  BY DEF Complete
<1>2. todo'[r] = [k \in DOMAIN done |->
             [slot |-> k, idx |-> done[k], h |-> a[done[k]], msg |-> got[k]]]
  BY <1>1 DEF TypeOK
<1>3. \A k \in DOMAIN done : (got[k] = NoMessage) <=> (req[r][a[done[k]]] = "send")
  BY DEF Deliveries
<1>4. \A k \in DOMAIN done : done[k] \in Live(a) /\ a[done[k]] \in Pending(r)
  BY DEF Served, Live
<1>5. \A k, l \in DOMAIN done : a[done[k]] = a[done[l]] => k = l
  BY <1>4 DEF Served, Injective
<1>6. \A q \in Rank : q # r => todo'[q] = todo[q]
  BY <1>1 DEF TypeOK
<1> QED
  BY <1>2, <1>3, <1>4, <1>5, <1>6

LEMMA CompleteHandle ==
  ASSUME TypeOK, HandleInv, NEW r \in Rank, NEW op, NEW a, NEW done, NEW n,
         Served(r, op, a, done, n), Complete(r, op, a, done, n)
  PROVE  HandleInv'
<1>1. /\ UNCHANGED <<irecv_request_map, request_to_local_clock>>
      /\ pc' = [pc EXCEPT ![r] = op] /\ op \in CompletionOps
      /\ todo[r] = <<>>
  BY NoTodo DEF Complete, Calls, Goto, Served, HandleInv
<1>2. \A q \in Rank : q # r => req'[q] = req[q] /\ pc'[q] = pc[q] /\ todo'[q] = todo[q]
  BY CompleteTodo, <1>1 DEF Complete, TypeOK
<1>3. \A h \in Handle : req'[r][h] =
         IF \E k \in DOMAIN done : a[done[k]] = h THEN "none" ELSE req[r][h]
  BY DEF Complete, TypeOK
<1>4. pc'[r] = op
  BY <1>1 DEF TypeOK
<1>5. TodoInv'
  <2> SUFFICES ASSUME NEW q \in Rank
               PROVE  /\ todo'[q] # <<>> =>
                           pc'[q] \in CompletionOps \union BlockingOps \union {"Exited"}
                      /\ \A k, l \in DOMAIN todo'[q] : todo'[q][k].h = todo'[q][l].h => k = l
                      /\ \A k \in DOMAIN todo'[q] :
                           todo'[q][k].h \in Handle => req'[q][todo'[q][k].h] = "none"
    BY DEF TodoInv
  <2>1. CASE q = r
    BY <1>1, <1>3, <1>4, <2>1, CompleteTodo
  <2>2. CASE q # r
    BY <1>2, <2>2 DEF HandleInv, TodoInv
  <2> QED
    BY <2>1, <2>2
<1>6. SendsKnown'
  <2> SUFFICES ASSUME NEW q \in Rank, NEW k \in DOMAIN todo'[q], todo'[q][k].msg = NoMessage
               PROVE  todo'[q][k].h \in request_to_local_clock[q]
    BY <1>1 DEF SendsKnown
  <2>1. CASE q = r
    BY <2>1, CompleteTodo DEF HandleInv, SendsNeverMissed, Pending
  <2>2. CASE q # r
    BY <1>2, <2>2 DEF HandleInv, SendsKnown
  <2> QED
    BY <2>1, <2>2
<1>7. IrecvMapExact'
  <2> SUFFICES ASSUME NEW q \in Rank
               PROVE  irecv_request_map[q] =
                        {h \in Handle :
                           \/ req'[q][h] = "recv"
                           \/ \E k \in DOMAIN todo'[q] :
                                todo'[q][k].h = h /\ todo'[q][k].msg # NoMessage}
    BY <1>1 DEF IrecvMapExact
  <2>1. CASE q = r
    <3>1. irecv_request_map[q] = {h \in Handle : req[r][h] = "recv"}
      BY <1>1, <2>1 DEF HandleInv, IrecvMapExact
    <3>2. ASSUME NEW h \in Handle
          PROVE  req[r][h] = "recv" <=>
                   \/ req'[r][h] = "recv"
                   \/ \E k \in DOMAIN todo'[r] :
                        todo'[r][k].h = h /\ todo'[r][k].msg # NoMessage
      <4>1. CASE \E k \in DOMAIN done : a[done[k]] = h
        <5>1. PICK k \in DOMAIN done : a[done[k]] = h
          BY <4>1
        <5>2. req'[r][h] = "none" /\ req[r][h] \in {"send", "recv"}
          BY <1>3, <5>1, CompleteTodo, SMTT(20) DEF Pending, TypeOK
        <5>3. \A l \in DOMAIN todo'[r] : todo'[r][l].h = h => l = k
          BY <5>1, CompleteTodo
        <5>4. (todo'[r][k].msg = NoMessage) <=> (req[r][h] = "send")
          BY <5>1, CompleteTodo
        <5>5. k \in DOMAIN todo'[r] /\ todo'[r][k].h = h
          BY <5>1, CompleteTodo
        <5> QED
          BY <5>2, <5>3, <5>4, <5>5
      <4>2. CASE ~ \E k \in DOMAIN done : a[done[k]] = h
        BY <1>3, <4>2, CompleteTodo
      <4> QED
        BY <4>1, <4>2
    <3> QED
      BY <2>1, <3>1, <3>2
  <2>2. CASE q # r
    BY <1>2, <2>2 DEF HandleInv, IrecvMapExact
  <2> QED
    BY <2>1, <2>2
<1>8. SendsNeverMissed'
  <2>1. \A q \in Rank : \A h \in Handle : req'[q][h] = "send" => req[q][h] = "send"
    BY <1>2, <1>3
  <2> QED
    BY <1>1, <2>1 DEF HandleInv, SendsNeverMissed
<1> QED
  BY <1>5, <1>6, <1>7, <1>8 DEF HandleInv
(* A status of PMPI_Recv is of no request. *)
LEMMA ReceivesHandle ==
  ASSUME TypeOK, HandleInv, NEW r \in Rank, NEW op \in BlockingOps, Receives(r, op),
         pc[r] \in {"Idle", "SendrecvPosted"}
  PROVE  HandleInv'
<1>1. PICK m \in net :
        todo' = [todo EXCEPT ![r] = <<[slot |-> 1, idx |-> 1, h |-> NULL, msg |-> m]>>]
  BY DEF Receives
<1>2. m # NoMessage
  BY NoMessageAssumption DEF TypeOK
<1>3. todo[r] = <<>>
  BY NoTodo DEF HandleInv
<1>4. /\ UNCHANGED <<irecv_request_map, request_to_local_clock, req>>
      /\ pc' = [pc EXCEPT ![r] = op]
  BY DEF Receives, Goto, clmpiVars
<1>5. \A q \in Rank : q # r => pc'[q] = pc[q] /\ todo'[q] = todo[q]
  BY <1>1, <1>4 DEF TypeOK
<1>6. /\ pc'[r] = op
      /\ \A k \in DOMAIN todo'[r] : k = 1 /\ todo'[r][k].h = NULL /\ todo'[r][k].msg = m
  BY <1>1, <1>4 DEF TypeOK
<1>7. TodoInv'
  BY <1>4, <1>5, <1>6, HandleAssumption DEF HandleInv, TodoInv
<1>8. SendsKnown'
  BY <1>2, <1>4, <1>5, <1>6 DEF HandleInv, SendsKnown
<1>9. IrecvMapExact'
  <2> SUFFICES ASSUME NEW q \in Rank
               PROVE  irecv_request_map[q] =
                        {h \in Handle :
                           \/ req[q][h] = "recv"
                           \/ \E k \in DOMAIN todo'[q] :
                                todo'[q][k].h = h /\ todo'[q][k].msg # NoMessage}
    BY <1>4 DEF IrecvMapExact
  <2>1. CASE q = r
    BY <1>3, <1>6, <2>1, HandleAssumption DEF HandleInv, IrecvMapExact
  <2>2. CASE q # r
    BY <1>5, <2>2 DEF HandleInv, IrecvMapExact
  <2> QED
    BY <2>1, <2>2
<1>10. SendsNeverMissed'
  BY <1>4 DEF HandleInv, SendsNeverMissed
<1> QED
  BY <1>7, <1>8, <1>9, <1>10 DEF HandleInv

(* What the loop leaves in todo is as it was. *)
LEMMA PopTodoInv ==
  ASSUME TypeOK, TodoInv, NEW r \in Rank, todo[r] # <<>>,
         todo' = [todo EXCEPT ![r] = Tail(@)], UNCHANGED <<req, pc>>
  PROVE  TodoInv'
<1> SUFFICES ASSUME NEW q \in Rank
             PROVE  /\ todo'[q] # <<>> =>
                         pc[q] \in CompletionOps \union BlockingOps \union {"Exited"}
                    /\ \A k, l \in DOMAIN todo'[q] : todo'[q][k].h = todo'[q][l].h => k = l
                    /\ \A k \in DOMAIN todo'[q] :
                         todo'[q][k].h \in Handle => req[q][todo'[q][k].h] = "none"
  BY DEF TodoInv
<1>1. CASE q = r
  <2>1. pc[q] \in CompletionOps \union BlockingOps \union {"Exited"}
    BY <1>1 DEF TodoInv
  <2>2. \A k \in DOMAIN todo'[q] :
          todo'[q][k].h \in Handle => req[q][todo'[q][k].h] = "none"
    <3>1. \A k \in DOMAIN todo'[q] : \E l \in DOMAIN todo[q] : todo'[q][k] = todo[q][l]
      BY PopStatuses
    <3> QED
      BY <3>1 DEF TodoInv
  <2>3. ASSUME NEW k \in DOMAIN todo'[q], NEW l \in DOMAIN todo'[q],
               todo'[q][k].h = todo'[q][l].h
        PROVE  k = l
    <3>1. /\ k + 1 \in DOMAIN todo[q] /\ todo'[q][k] = todo[q][k + 1]
          /\ l + 1 \in DOMAIN todo[q] /\ todo'[q][l] = todo[q][l + 1]
      BY <1>1, <2>3, PopTodo
    <3>2. k + 1 = l + 1
      BY <2>3, <3>1 DEF TodoInv
    <3>3. todo'[q] \in Seq(Status)
      BY <1>1, HeadOfTodo DEF TypeOK
    <3>4. k \in Int /\ l \in Int
      BY <2>3, <3>3
    <3> QED
      BY <3>2, <3>4
  <2> QED
    BY <2>1, <2>2, <2>3
<1>2. CASE q # r
  BY <1>2, PopTodo DEF TodoInv
<1> QED
  BY <1>1, <1>2

LEMMA SyncRecvHandle ==
  ASSUME TypeOK, HandleInv, NEW r \in Rank, SyncRecv(r)
  PROVE  HandleInv'
<1> DEFINE s == Head(todo[r])
<1>1. /\ todo[r] # <<>> /\ todo' = [todo EXCEPT ![r] = Tail(@)]
      /\ s.msg # NoMessage
      /\ irecv_request_map' = [irecv_request_map EXCEPT ![r] = @ \ {s.h}]
      /\ UNCHANGED <<req, pc, request_to_local_clock>>
  BY DEF SyncRecv, InLoop, mpiVars
<1>2. TodoInv'
  BY <1>1, PopTodoInv DEF HandleInv
<1>3. SendsKnown'
  <2> SUFFICES ASSUME NEW q \in Rank, NEW k \in DOMAIN todo'[q], todo'[q][k].msg = NoMessage
               PROVE  todo'[q][k].h \in request_to_local_clock[q]
    BY <1>1 DEF SendsKnown
  <2>1. \E l \in DOMAIN todo[q] : todo'[q][k] = todo[q][l]
    BY <1>1, PopStatuses
  <2> QED
    BY <2>1 DEF HandleInv, SendsKnown
<1>4. IrecvMapExact'
  <2> SUFFICES ASSUME NEW q \in Rank, NEW h \in Handle
               PROVE  h \in irecv_request_map'[q] <=>
                        \/ req[q][h] = "recv"
                        \/ \E k \in DOMAIN todo'[q] :
                             todo'[q][k].h = h /\ todo'[q][k].msg # NoMessage
    <3>1. \A p \in Rank : irecv_request_map'[p] \subseteq Handle
      BY <1>1 DEF TypeOK
    <3> QED
      BY <1>1, <3>1 DEF IrecvMapExact
  <2>1. h \in irecv_request_map[q] <=>
          \/ req[q][h] = "recv"
          \/ \E k \in DOMAIN todo[q] :
               todo[q][k].h = h /\ todo[q][k].msg # NoMessage
    BY DEF HandleInv, IrecvMapExact
  <2>2. CASE q = r /\ h = s.h
    <3>1. 1 \in DOMAIN todo[r] /\ s = todo[r][1]
      BY <1>1, PopTodo
    <3>2. req[q][h] = "none"
      BY <2>2, <3>1 DEF HandleInv, TodoInv
    <3>3. ASSUME NEW k \in DOMAIN todo'[q] PROVE todo'[q][k].h # h
      <4>1. k + 1 \in DOMAIN todo[r] /\ k + 1 # 1 /\ todo'[r][k] = todo[r][k + 1]
        BY <1>1, <2>2, <3>3, PopTodo
      <4>2. todo[r][k + 1].h # todo[r][1].h
        BY <3>1, <4>1 DEF HandleInv, TodoInv
      <4> QED
        BY <2>2, <3>1, <4>1, <4>2
    <3>4. h \notin irecv_request_map'[q]
      BY <1>1, <2>2 DEF TypeOK
    <3> QED
      BY <3>2, <3>3, <3>4
  <2>3. CASE q = r /\ h # s.h
    <3>1. h \in irecv_request_map'[q] <=> h \in irecv_request_map[q]
      BY <1>1, <2>3 DEF TypeOK
    <3>2. \A k \in DOMAIN todo[r] : todo[r][k].h = h => k # 1
      BY <1>1, <2>3, PopTodo
    <3>3. (\E k \in DOMAIN todo[r] : todo[r][k].h = h /\ todo[r][k].msg # NoMessage)
            <=> \E k \in DOMAIN todo'[r] : todo'[r][k].h = h /\ todo'[r][k].msg # NoMessage
      <4>1. \A k \in DOMAIN todo'[r] : \E l \in DOMAIN todo[r] : todo'[r][k] = todo[r][l]
        BY <1>1, PopStatuses
      <4>2. \A l \in DOMAIN todo[r] : l # 1 => \E k \in DOMAIN todo'[r] : todo'[r][k] = todo[r][l]
        BY <1>1, PopStatuses
      <4> QED
        BY <3>2, <4>1, <4>2
    <3> QED
      BY <2>1, <2>3, <3>1, <3>3
  <2>4. CASE q # r
    <3>1. irecv_request_map'[q] = irecv_request_map[q] /\ todo'[q] = todo[q]
      BY <1>1, <2>4, PopTodo DEF TypeOK
    <3> QED
      BY <2>1, <3>1
  <2> QED
    BY <2>2, <2>3, <2>4
<1>5. SendsNeverMissed'
  BY <1>1 DEF HandleInv, SendsNeverMissed
<1> QED
  BY <1>2, <1>3, <1>4, <1>5 DEF HandleInv

LEMMA SyncSendHandle ==
  ASSUME TypeOK, HandleInv, NEW r \in Rank, SyncSend(r)
  PROVE  HandleInv'
<1> DEFINE s == Head(todo[r])
<1>1. /\ todo[r] # <<>> /\ todo' = [todo EXCEPT ![r] = Tail(@)]
      /\ s.msg = NoMessage
      /\ UNCHANGED <<req, pc, irecv_request_map>>
      /\ \/ UNCHANGED request_to_local_clock
         \/ /\ s.h \in request_to_local_clock[r]
            /\ request_to_local_clock' = [request_to_local_clock EXCEPT ![r] = @ \ {s.h}]
  BY DEF SyncSend, InLoop, mpiVars
<1>2. TodoInv'
  BY <1>1, PopTodoInv DEF HandleInv
<1>3. 1 \in DOMAIN todo[r] /\ s = todo[r][1]
  BY <1>1, PopTodo
<1>4. \A q \in Rank : \A h : h \in request_to_local_clock[q] /\ (q = r => h # s.h)
                               => h \in request_to_local_clock'[q]
  BY <1>1 DEF TypeOK
<1>5. SendsKnown'
  <2> SUFFICES ASSUME NEW q \in Rank, NEW k \in DOMAIN todo'[q], todo'[q][k].msg = NoMessage
               PROVE  todo'[q][k].h \in request_to_local_clock'[q]
    BY DEF SendsKnown
  <2>1. CASE q = r
    <3>1. k + 1 \in DOMAIN todo[r] /\ k + 1 # 1 /\ todo'[r][k] = todo[r][k + 1]
      BY <1>1, <2>1, PopTodo
    <3>2. todo[r][k + 1].h # s.h /\ todo[r][k + 1].h \in request_to_local_clock[r]
      BY <1>3, <2>1, <3>1 DEF HandleInv, TodoInv, SendsKnown
    <3> QED
      BY <1>4, <2>1, <3>1, <3>2
  <2>2. CASE q # r
    BY <1>1, <1>4, <2>2, PopTodo DEF HandleInv, SendsKnown
  <2> QED
    BY <2>1, <2>2
<1>6. IrecvMapExact'
  <2> SUFFICES ASSUME NEW q \in Rank
               PROVE  irecv_request_map[q] =
                        {h \in Handle :
                           \/ req[q][h] = "recv"
                           \/ \E k \in DOMAIN todo'[q] :
                                todo'[q][k].h = h /\ todo'[q][k].msg # NoMessage}
    BY <1>1 DEF IrecvMapExact
  <2>1. ASSUME NEW h
        PROVE  (\E k \in DOMAIN todo[q] : todo[q][k].h = h /\ todo[q][k].msg # NoMessage)
                 <=> \E k \in DOMAIN todo'[q] : todo'[q][k].h = h /\ todo'[q][k].msg # NoMessage
    <3>1. CASE q = r
      <4>1. \A k \in DOMAIN todo[r] : todo[r][k].msg # NoMessage => k # 1
        BY <1>1, <1>3
      <4>2. \A k \in DOMAIN todo'[r] : \E l \in DOMAIN todo[r] : todo'[r][k] = todo[r][l]
        BY <1>1, PopStatuses
      <4>3. \A l \in DOMAIN todo[r] : l # 1 => \E k \in DOMAIN todo'[r] : todo'[r][k] = todo[r][l]
        BY <1>1, PopStatuses
      <4> QED
        BY <3>1, <4>1, <4>2, <4>3
    <3>2. CASE q # r
      BY <1>1, <3>2, PopStatuses
    <3> QED
      BY <3>1, <3>2
  <2> QED
    BY <2>1 DEF HandleInv, IrecvMapExact
<1>7. SendsNeverMissed'
  <2>1. \A q \in Rank : \A h \in Handle : req[q][h] = "send" => (q = r => h # s.h)
    BY <1>3 DEF HandleInv, TodoInv
  <2> QED
    BY <1>1, <1>4, <2>1 DEF HandleInv, SendsNeverMissed
<1> QED
  BY <1>2, <1>5, <1>6, <1>7 DEF HandleInv

(* A request that the application starts has a handle of its own.          *)
LEMMA StartHandle ==
  ASSUME TypeOK, HandleInv, NEW r \in Rank,
         MPI_Irecv(r) \/ \E d \in Rank : MPI_Isend(r, d)
  PROVE  HandleInv'
<1>1. todo[r] = <<>> /\ todo' = todo /\ pc' = pc
  BY NoTodo DEF HandleInv, MPI_Irecv, MPI_Isend, Calls, ctlVars
<1>2. PICK h \in Handle \ Pending(r) :
        \/ /\ req' = [req EXCEPT ![r][h] = "recv"]
           /\ irecv_request_map' = [irecv_request_map EXCEPT ![r] = @ \union {h}]
           /\ UNCHANGED request_to_local_clock
        \/ /\ req' = [req EXCEPT ![r][h] = "send"]
           /\ request_to_local_clock' = [request_to_local_clock EXCEPT ![r] = @ \union {h}]
           /\ UNCHANGED irecv_request_map
  BY DEF MPI_Irecv, MPI_Isend
<1>3. /\ h \in Handle /\ req[r][h] = "none"
      /\ \A q \in Rank : \A g \in Handle : q # r \/ g # h => req'[q][g] = req[q][g]
  BY <1>2 DEF Pending, TypeOK
<1>4. TodoInv'
  BY <1>1, <1>3 DEF HandleInv, TodoInv
<1>5. SendsKnown' /\ SendsNeverMissed'
  <2>a. request_to_local_clock \in [Rank -> SUBSET Handle]
    BY DEF TypeOK
  <2>1. \A q \in Rank : request_to_local_clock[q] \subseteq request_to_local_clock'[q]
    BY <1>2, <2>a
  <2>2. req'[r][h] = "send" => h \in request_to_local_clock'[r]
    BY <1>2, <1>3 DEF TypeOK
  <2> QED
    BY <1>1, <1>3, <2>1, <2>2 DEF HandleInv, SendsKnown, SendsNeverMissed
<1>6. IrecvMapExact'
  <2> SUFFICES ASSUME NEW q \in Rank, NEW g \in Handle
               PROVE  g \in irecv_request_map'[q] <=>
                        \/ req'[q][g] = "recv"
                        \/ \E k \in DOMAIN todo[q] :
                             todo[q][k].h = g /\ todo[q][k].msg # NoMessage
    <3>1. irecv_request_map \in [Rank -> SUBSET Handle]
      BY DEF TypeOK
    <3>2. \A p \in Rank : irecv_request_map'[p] \subseteq Handle
      BY <1>2, <3>1
    <3> QED
      BY <1>1, <3>2 DEF IrecvMapExact
  <2>1. g \in irecv_request_map[q] <=>
          \/ req[q][g] = "recv"
          \/ \E k \in DOMAIN todo[q] : todo[q][k].h = g /\ todo[q][k].msg # NoMessage
    BY DEF HandleInv, IrecvMapExact
  <2>2. CASE q = r /\ g = h
    <3>1. (h \in irecv_request_map'[r] <=> req'[r][h] = "recv")
      BY <1>1, <1>2, <1>3, <2>1, <2>2 DEF TypeOK
    <3> QED
      BY <1>1, <2>2, <3>1
  <2>3. CASE ~ (q = r /\ g = h)
    <3>1. g \in irecv_request_map'[q] <=> g \in irecv_request_map[q]
      BY <1>2, <2>3 DEF TypeOK
    <3> QED
      BY <1>3, <2>1, <2>3, <3>1
  <2> QED
    BY <2>2, <2>3
<1> QED
  BY <1>4, <1>5, <1>6 DEF HandleInv

LEMMA StepHandle == TypeOK /\ HandleInv /\ [Next]_vars => HandleInv'
<1> SUFFICES ASSUME TypeOK, HandleInv, [Next]_vars PROVE HandleInv'
  OBVIOUS
<1>1. ASSUME NEW r \in Rank,
             NEW where \in CompletionOps \union BlockingOps \union
               {"Idle", "Send", "SendrecvPosted", "Collective", "Reduced", "Exited"},
             UNCHANGED <<todo, req, irecv_request_map, request_to_local_clock>>,
             pc' = [pc EXCEPT ![r] = where],
             todo[r] = <<>> \/ where = "Exited"
      PROVE  HandleInv'
  BY <1>1, QuietHandle DEF HandleInv, TodoInv, TypeOK
<1>2. ASSUME NEW r \in Rank, NEW d \in Rank, MPI_Send(r, d) \/ MPI_Sendrecv(r, d)
      PROVE  HandleInv'
  <2>1. todo[r] = <<>>
    BY <1>2, NoTodo DEF MPI_Send, MPI_Sendrecv, Calls, HandleInv
  <2> QED
    BY <1>1, <1>2, <2>1 DEF MPI_Send, MPI_Sendrecv, Goto, clmpiVars
<1>3. ASSUME NEW r \in Rank, NEW d \in Rank, MPI_Isend(r, d) PROVE HandleInv'
  BY <1>3, StartHandle
<1>4. ASSUME NEW r \in Rank, MPI_Irecv(r) PROVE HandleInv'
  BY <1>4, StartHandle
<1>5. ASSUME NEW r \in Rank, MPI_Recv(r) \/ SendrecvReceives(r) PROVE HandleInv'
  BY <1>5, ReceivesHandle DEF MPI_Recv, SendrecvReceives, Calls, BlockingOps
<1>6. ASSUME NEW r \in Rank, Unregistered(r) PROVE HandleInv'
  BY <1>1, <1>6 DEF Unregistered, Goto, clmpiVars, mpiVars
<1>7. ASSUME NEW r \in Rank, Completes(r) PROVE HandleInv'
  BY <1>6, <1>7, CompletesServed, CompleteHandle
<1>8. ASSUME NEW r \in Rank, SendReturns(r) \/ CollectiveReturns(r) PROVE HandleInv'
  <2>1. todo[r] = <<>>
    BY <1>8, NoTodo DEF SendReturns, CollectiveReturns, HandleInv
  <2> QED
    BY <1>1, <1>8, <2>1 DEF SendReturns, CollectiveReturns, Goto, mpiVars
<1>9. ASSUME NEW r \in Rank, SyncRecv(r) \/ SyncSend(r) PROVE HandleInv'
  BY <1>9, SyncRecvHandle, SyncSendHandle
<1>10. ASSUME NEW r \in Rank, LoopExits(r) PROVE HandleInv'
  BY <1>1, <1>10 DEF LoopExits, Goto, clmpiVars, mpiVars
<1>11. ASSUME NEW r \in Rank, Returns(r) PROVE HandleInv'
  BY <1>1, <1>11 DEF Returns, Goto, mpiVars
<1>12. ASSUME NEW r \in Rank, CollectiveSync(r) PROVE HandleInv'
  <2>1. todo[r] = <<>>
    BY <1>12, NoTodo DEF CollectiveSync, Calls, HandleInv
  <2> QED
    BY <1>1, <1>12, <2>1 DEF CollectiveSync, Goto, clmpiVars, mpiVars
<1>13. ASSUME NEW r \in Rank,
              \/ ClockControl(r)
              \/ \E n \in 1..MaxCount : RegisterRecvClocks(r, n)
              \/ \E c \in ClientClock : SyncClock(r, c) \/ SetPbClock(r, c)
       PROVE  HandleInv'
  <2>1. UNCHANGED <<todo, req, irecv_request_map, request_to_local_clock, pc>>
    BY <1>13 DEF ClockControl, RegisterRecvClocks, SyncClock, SetPbClock, mpiVars, ctlVars
  <2> QED
    BY <2>1, QuietHandle DEF HandleInv, TodoInv
<1>14. CASE Allreduce
  <2>1. \A r \in Rank : todo[r] = <<>>
    BY <1>14, NoTodo DEF Allreduce, HandleInv
  <2> QED
    BY <1>14, <2>1, QuietHandle DEF Allreduce, clmpiVars, mpiVars
<1>15. CASE UNCHANGED vars
  <2>1. UNCHANGED <<todo, req, irecv_request_map, request_to_local_clock, pc>>
    BY <1>15 DEF vars, clmpiVars, mpiVars, ctlVars
  <2> QED
    BY <2>1, QuietHandle DEF HandleInv, TodoInv
<1> QED
  BY <1>2, <1>3, <1>4, <1>5, <1>7, <1>8, <1>9, <1>10, <1>11, <1>12, <1>13, <1>14, <1>15
     DEF Next, Continues

(* Type correctness and the invariant of the handles, for later theorems.  *)
LEMMA HandlesHold == Spec => [](TypeOK /\ HandleInv)
<1>1. Init => TypeOK /\ HandleInv
  BY InitType, InitHandle
<1>2. TypeOK /\ HandleInv /\ [Next]_vars => (TypeOK /\ HandleInv)'
  BY StepType, StepHandle
<1> QED
  BY <1>1, <1>2, PTL DEF Spec

(* In every run irecv_request_map holds exactly the receive requests that  *)
(* are pending or whose status the running wrapper has yet to look at,     *)
(* however MPI reuses the handles of completed requests.                   *)
THEOREM IrecvMapCorrect == Spec => []IrecvMapExact
<1>1. HandleInv => IrecvMapExact
  BY DEF HandleInv
<1> QED
  BY HandlesHold, <1>1, PTL

(* In every run request_to_local_clock holds every incomplete nonblocking  *)
(* send, although five of the eight wrappers never drop a completed one.   *)
THEOREM SendsCounted == Spec => []SendsNeverMissed
<1>1. HandleInv => SendsNeverMissed
  BY DEF HandleInv
<1> QED
  BY HandlesHold, <1>1, PTL
--------------------------------------------------------------------------------
(* No exit(1) *)

(* The wrappers that check the length of the registered buffer against 1,  *)
(* whatever the length of the array the application passed.                *)
CountOneOps == {"Waitany", "Testany", "Recv", "Sendrecv"}

(* In a wrapper that the application called with a buffer of the right     *)
(* length the buffer keeps that length, and the statuses are of requests.  *)
CarefulInv ==
  \A r \in Rank :
    /\ pc[r] \notin CountOneOps \union {"SendrecvPosted", "Exited"}
    /\ pc[r] \in CompletionOps =>
         /\ registered_buff_length[r] = count[r] /\ count[r] \in 1..MaxCount
         /\ \A k \in DOMAIN todo[r] : todo[r][k].h \in Handle

LEMMA InitCareful == Init => CarefulInv
  BY DEF Init, CarefulInv, CountOneOps, CompletionOps, WaitOps, TestOps

(* No status makes the loop abort.                                         *)
LEMMA NoStatusAborts ==
  ASSUME TypeOK, HandleInv, CarefulInv, NEW r \in Rank
  PROVE  ~ LoopExits(r)
<1> SUFFICES ASSUME LoopExits(r) PROVE FALSE
  OBVIOUS
<1> DEFINE s == Head(todo[r])
<1>1. /\ todo[r] # <<>> /\ Aborts(r, s)
      /\ pc[r] \in CompletionOps
  BY DEF LoopExits, InLoop, CarefulInv, CountOneOps, BlockingOps
<1>2. registered_buff_length[r] = count[r] /\ registered_buff_length[r] # NoBuffer
  BY <1>1, BoundAssumption DEF CarefulInv, NoBuffer
<1>3. 1 \in DOMAIN todo[r] /\ s = todo[r][1]
  BY <1>1 DEF TypeOK
<1>4. s.h \in Handle
  BY <1>1, <1>3 DEF CarefulInv
<1>5. s.msg = NoMessage => s.h \in request_to_local_clock[r]
  BY <1>3 DEF HandleInv, SendsKnown
<1>6. s.msg # NoMessage => s.h \in irecv_request_map[r]
  BY <1>3, <1>4 DEF HandleInv, IrecvMapExact
<1>7. ~ LengthMismatch(r)
  BY <1>2 DEF LengthMismatch
<1> QED
  BY <1>1, <1>2, <1>5, <1>6, <1>7 DEF Aborts

LEMMA CompleteCareful ==
  ASSUME TypeOK, CarefulInv, Careful, Ops \cap CountOneOps = {},
         NEW r \in Rank, NEW op, NEW a, NEW done, NEW n,
         Served(r, op, a, done, n), Complete(r, op, a, done, n)
  PROVE  CarefulInv'
<1>1. /\ op \in CompletionOps /\ op \notin CountOneOps \union {"SendrecvPosted", "Exited"}
      /\ pc' = [pc EXCEPT ![r] = op] /\ count' = [count EXCEPT ![r] = n]
      /\ registered_buff_length' = registered_buff_length
      /\ registered_buff_length[r] = Len(a)
  BY DEF Complete, Calls, Goto, Served, CompletionOps, WaitOps, TestOps
<1>2. n = Len(a) /\ n \in 1..MaxCount
  BY <1>1 DEF Served, SingleOps, CountOneOps
<1>3. \A k \in DOMAIN todo'[r] : todo'[r][k].h \in Handle
  BY CompleteTodo DEF Pending
<1>4. pc'[r] = op /\ count'[r] = n
  BY <1>1 DEF TypeOK
<1>5. \A q \in Rank : q # r => pc'[q] = pc[q] /\ count'[q] = count[q] /\ todo'[q] = todo[q]
  <2>1. \A q \in Rank : q # r => pc'[q] = pc[q] /\ count'[q] = count[q]
    BY <1>1 DEF TypeOK
  <2> QED
    BY <2>1, CompleteTodo
<1> QED
  BY <1>1, <1>2, <1>3, <1>4, <1>5 DEF CarefulInv

(* A rank that stays where it is, or goes where it has no statuses.        *)
LEMMA QuietCareful ==
  ASSUME TypeOK, CarefulInv, NEW r \in Rank,
         \A q \in Rank : q # r => pc'[q] = pc[q]
                                  /\ registered_buff_length'[q] = registered_buff_length[q],
         UNCHANGED <<count, todo>>,
         pc'[r] \in {"Idle", "Send", "Collective", "Reduced"}
  PROVE  CarefulInv'
  BY DEF CarefulInv, CountOneOps, CompletionOps, WaitOps, TestOps

LEMMA StepCareful ==
  ASSUME Careful, Ops \cap CountOneOps = {}, TypeOK, HandleInv, CarefulInv, [Next]_vars
  PROVE  CarefulInv'
<1> USE DEF Goto
<1>1. ASSUME NEW r \in Rank, NEW d \in Rank, MPI_Send(r, d) PROVE CarefulInv'
  BY <1>1, QuietCareful DEF MPI_Send, clmpiVars, TypeOK
<1>2. ASSUME NEW r \in Rank, NEW d \in Rank, MPI_Isend(r, d) PROVE CarefulInv'
  BY <1>2 DEF MPI_Isend, ctlVars, CarefulInv
<1>3. ASSUME NEW r \in Rank, NEW d \in Rank PROVE ~ MPI_Sendrecv(r, d)
  BY DEF MPI_Sendrecv, Calls, CountOneOps
<1>4. ASSUME NEW r \in Rank, MPI_Irecv(r) PROVE CarefulInv'
  BY <1>4 DEF MPI_Irecv, ctlVars, CarefulInv
<1>5. ASSUME NEW r \in Rank PROVE ~ MPI_Recv(r) /\ ~ SendrecvReceives(r)
  BY DEF MPI_Recv, SendrecvReceives, Calls, CountOneOps, CarefulInv
<1>6. ASSUME NEW r \in Rank PROVE ~ Unregistered(r)
  BY DEF Unregistered
<1>7. ASSUME NEW r \in Rank, Completes(r) PROVE CarefulInv'
  BY <1>6, <1>7, CompletesServed, CompleteCareful
<1>8. ASSUME NEW r \in Rank, SendReturns(r) PROVE CarefulInv'
  BY <1>8, QuietCareful DEF SendReturns, TypeOK
<1>9. ASSUME NEW r \in Rank, CollectiveReturns(r) PROVE CarefulInv'
  BY <1>9, QuietCareful DEF CollectiveReturns, TypeOK
<1>10. ASSUME NEW r \in Rank, SyncRecv(r) \/ SyncSend(r) PROVE CarefulInv'
  <2>1. /\ todo[r] # <<>> /\ todo' = [todo EXCEPT ![r] = Tail(@)]
        /\ UNCHANGED <<pc, count, registered_buff_length>>
    BY <1>10 DEF SyncRecv, SyncSend, InLoop
  <2>2. \A q \in Rank : \A k \in DOMAIN todo'[q] :
          \E l \in DOMAIN todo[q] : todo'[q][k] = todo[q][l]
    BY <2>1, PopStatuses
  <2>3. \A q \in Rank : pc[q] \in CompletionOps =>
          \A k \in DOMAIN todo'[q] : todo'[q][k].h \in Handle
    BY <2>2 DEF CarefulInv
  <2> QED
    BY <2>1, <2>3 DEF CarefulInv
<1>11. ASSUME NEW r \in Rank, Returns(r) PROVE CarefulInv'
  BY <1>11, QuietCareful DEF Returns, TypeOK
<1>12. ASSUME NEW r \in Rank, CollectiveSync(r) PROVE CarefulInv'
  BY <1>12, QuietCareful DEF CollectiveSync, clmpiVars, TypeOK
<1>13. ASSUME NEW r \in Rank, NEW n \in 1..MaxCount, RegisterRecvClocks(r, n)
       PROVE  CarefulInv'
  BY <1>13, QuietCareful DEF RegisterRecvClocks, ctlVars, TypeOK
<1>14. ASSUME NEW r \in Rank,
              ClockControl(r) \/ \E c \in ClientClock : SyncClock(r, c) \/ SetPbClock(r, c)
       PROVE  CarefulInv'
  BY <1>14 DEF ClockControl, SyncClock, SetPbClock, ctlVars, CarefulInv
<1>15. CASE Allreduce
  BY <1>15 DEF Allreduce, clmpiVars, CarefulInv, CountOneOps, CompletionOps, WaitOps, TestOps
<1>16. CASE UNCHANGED vars
  BY <1>16 DEF vars, clmpiVars, ctlVars, CarefulInv
<1> QED
  BY <1>1, <1>2, <1>3, <1>4, <1>5, <1>7, <1>8, <1>9, <1>10, <1>11, <1>12, <1>13, <1>14,
     <1>15, <1>16, NoStatusAborts DEF Next, Continues

(* An application that registers a buffer of the right length before every *)
(* completion call, and keeps to the wrappers that compare that length     *)
(* with the count they were called with, is never aborted: not for want of *)
(* a buffer, not for its length, and not because a request is missing from *)
(* one of the two maps.                                                    *)
THEOREM NeverAborted ==
  ASSUME Careful, Ops \cap CountOneOps = {}
  PROVE  Spec => []NoAbort
<1>1. Init => TypeOK /\ HandleInv /\ CarefulInv
  BY InitType, InitHandle, InitCareful
<1>2. TypeOK /\ HandleInv /\ CarefulInv /\ [Next]_vars => (TypeOK /\ HandleInv /\ CarefulInv)'
  BY StepType, StepHandle, StepCareful
<1>3. CarefulInv => NoAbort
  BY DEF CarefulInv, NoAbort
<1> QED
  BY <1>1, <1>2, <1>3, PTL DEF Spec
--------------------------------------------------------------------------------
(* The registered buffer *)

(* The wrappers that do not get one status per request of the array.       *)
PartialOps == {"Waitany", "Waitsome", "Testany", "Testsome"}

(* What the status says about its request. *)
StatusClock(s) == IF s.msg = NoMessage THEN SendReqClock ELSE s.msg.pb

(* A slot is right already, or there is a status to come that puts it      *)
(* right; a send is right from the start.                                  *)
SlotInv ==
  /\ DOMAIN expect = Rank
  /\ \A r \in Rank : pc[r] \in CompletionOps =>
       /\ pc[r] \in FullOps
       /\ DOMAIN expect[r] \subseteq 1..MaxCount
       /\ DOMAIN expect[r] # {} => registered_buff_length[r] # NoBuffer
       /\ \A k \in DOMAIN todo[r] : todo[r][k].slot \in DOMAIN expect[r] =>
            expect[r][todo[r][k].slot] = StatusClock(todo[r][k])
       /\ \A i \in DOMAIN expect[r] :
            (\A k \in DOMAIN todo[r] : todo[r][k].slot = i => todo[r][k].msg = NoMessage)
              => buff[r][i] = expect[r][i]

LEMMA InitSlots == Init => SlotInv
  BY DEF Init, SlotInv, CompletionOps, WaitOps, TestOps

LEMMA SlotInvImplies == SlotInv => SlotsMatchRequests
  BY DEF SlotInv, SlotsMatchRequests

(* A rank outside the completion wrappers, and ranks that are left alone.  *)
LEMMA QuietSlots ==
  ASSUME SlotInv, NEW r \in Rank, pc'[r] \notin CompletionOps, DOMAIN expect' = Rank,
         \A q \in Rank : q # r =>
           /\ pc'[q] = pc[q] /\ registered_buff_length'[q] = registered_buff_length[q]
           /\ todo'[q] = todo[q] /\ expect'[q] = expect[q] /\ buff'[q] = buff[q]
  PROVE  SlotInv'
  BY DEF SlotInv

(* What Report expects, and what clmpi_init_registered_clocks writes.      *)
LEMMA ReportFull ==
  ASSUME TypeOK, HandleInv, NEW r \in Rank, todo[r] = <<>>,
         NEW op \in FullOps, NEW a, NEW done, NEW n, Served(r, op, a, done, n),
         NEW got \in Deliveries(r, a, done)
  PROVE  /\ DOMAIN Report(r, a, done, got) = DOMAIN a
         /\ \A k \in DOMAIN done :
              /\ k \in DOMAIN a
              /\ Report(r, a, done, got)[k] =
                   IF got[k] = NoMessage THEN SendReqClock ELSE got[k].pb
         /\ \A i \in DOMAIN a : (i \in DOMAIN done => got[i] = NoMessage) =>
              Report(r, a, done, got)[i] = UnmatchedClock(r, a[i])
<1>1. /\ Live(a) = DOMAIN a
      /\ \A k \in DOMAIN done : done[k] = k /\ k \in DOMAIN a
      /\ \A i \in DOMAIN a : a[i] \in Pending(r)
  BY DEF Served, Live
<1>2. DOMAIN Report(r, a, done, got) = DOMAIN a
  BY <1>1 DEF Report
<1>3. \A i \in DOMAIN a :
        Report(r, a, done, got)[i] =
          IF req[r][a[i]] = "send" THEN SendReqClock
          ELSE IF i \in DOMAIN done THEN got[i].pb ELSE UnmatchedRecvReqClock
  <2> SUFFICES ASSUME NEW i \in DOMAIN a
               PROVE  Report(r, a, done, got)[i] =
                        IF req[r][a[i]] = "send" THEN SendReqClock
                        ELSE IF i \in DOMAIN done THEN got[i].pb ELSE UnmatchedRecvReqClock
    OBVIOUS
  <2>1. (\E k \in DOMAIN done : done[k] = i) <=> i \in DOMAIN done
    BY <1>1
  <2>2. i \in DOMAIN done => (CHOOSE k \in DOMAIN done : done[k] = i) = i
    BY <1>1
  <2> QED
    BY <1>1, <2>1, <2>2 DEF Report
<1>4. \A k \in DOMAIN done : (got[k] = NoMessage) <=> (req[r][a[k]] = "send")
  BY <1>1 DEF Deliveries
<1>5. irecv_request_map[r] = {h \in Handle : req[r][h] = "recv"}
  BY DEF HandleInv, IrecvMapExact
<1>6. \A i \in DOMAIN a : UnmatchedClock(r, a[i]) =
                            IF req[r][a[i]] = "send" THEN SendReqClock ELSE UnmatchedRecvReqClock
  BY <1>1, <1>5 DEF UnmatchedClock, Pending, TypeOK
<1> QED
  BY <1>1, <1>2, <1>3, <1>4, <1>6

LEMMA CompleteSlots ==
  ASSUME TypeOK, HandleInv, SlotInv, Ops \cap PartialOps = {},
         NEW r \in Rank, NEW op, NEW a, NEW done, NEW n,
         Served(r, op, a, done, n), Complete(r, op, a, done, n)
  PROVE  SlotInv'
<1>1. PICK got \in Deliveries(r, a, done) :
        /\ todo' = [todo EXCEPT ![r] = [k \in DOMAIN done |->
             [slot |-> k, idx |-> done[k], h |-> a[done[k]], msg |-> got[k]]]]
        /\ expect' = [expect EXCEPT ![r] =
                        IF sync_clock[r] THEN Report(r, a, done, got) ELSE Nothing]
  BY DEF Complete
<1>2. /\ op \in FullOps
      /\ pc' = [pc EXCEPT ![r] = op]
      /\ UNCHANGED registered_buff_length
      /\ sync_clock[r] => registered_buff_length[r] # NoBuffer
      /\ pc[r] = "Idle"
      /\ InitRegisteredClocks(r, a)
  BY DEF Complete, Calls, Goto, Served, CompletionOps, WaitOps, TestOps, FullOps, PartialOps
<1>3. todo[r] = <<>>
  BY <1>2, NoTodo DEF HandleInv
<1>4. todo'[r] = [k \in DOMAIN done |->
                    [slot |-> k, idx |-> done[k], h |-> a[done[k]], msg |-> got[k]]]
  BY <1>1 DEF TypeOK
<1>5. Len(a) \in 1..MaxCount /\ DOMAIN a = 1..Len(a) /\ DOMAIN a \subseteq 1..MaxCount
  BY BoundAssumption DEF Served
<1>6. \A q \in Rank : q # r => /\ pc'[q] = pc[q] /\ todo'[q] = todo[q] /\ buff'[q] = buff[q]
                               /\ expect'[q] = expect[q]
  <2>1. \A q \in Rank : q # r => pc'[q] = pc[q] /\ todo'[q] = todo[q]
    BY <1>1, <1>2 DEF TypeOK
  <2>2. \A q \in Rank : q # r => buff'[q] = buff[q]
    BY <1>2 DEF InitRegisteredClocks, TypeOK
  <2>3. \A q \in Rank : q # r => expect'[q] = expect[q]
    BY <1>1 DEF SlotInv
  <2> QED
    BY <2>1, <2>2, <2>3
<1> DEFINE Right(q) ==
      /\ pc'[q] \in FullOps
      /\ DOMAIN expect'[q] \subseteq 1..MaxCount
      /\ DOMAIN expect'[q] # {} => registered_buff_length'[q] # NoBuffer
      /\ \A k \in DOMAIN todo'[q] : todo'[q][k].slot \in DOMAIN expect'[q] =>
           expect'[q][todo'[q][k].slot] = StatusClock(todo'[q][k])
      /\ \A i \in DOMAIN expect'[q] :
           (\A k \in DOMAIN todo'[q] : todo'[q][k].slot = i => todo'[q][k].msg = NoMessage)
             => buff'[q][i] = expect'[q][i]
<1>7. pc'[r] = op /\ DOMAIN expect' = Rank
  BY <1>1, <1>2 DEF TypeOK, SlotInv
<1>8. CASE sync_clock[r]
  <2>1. expect'[r] = Report(r, a, done, got)
    BY <1>1, <1>8 DEF SlotInv
  <2>2. \A i \in DOMAIN a : buff'[r][i] = UnmatchedClock(r, a[i])
    BY <1>2, <1>5, <1>8 DEF InitRegisteredClocks, TypeOK
  <2>3. \A k \in DOMAIN todo'[r] : k \in DOMAIN done /\ todo'[r][k].slot = k
                                   /\ StatusClock(todo'[r][k]) =
                                        IF got[k] = NoMessage THEN SendReqClock ELSE got[k].pb
    BY <1>4 DEF StatusClock
  <2>4. \A i \in DOMAIN a :
          (\A k \in DOMAIN todo'[r] : todo'[r][k].slot = i => todo'[r][k].msg = NoMessage)
            => (i \in DOMAIN done => got[i] = NoMessage)
    BY <1>4
  <2>5. Right(r)
    BY <1>2, <1>3, <1>5, <1>7, <1>8, <2>1, <2>2, <2>3, <2>4, ReportFull
  <2> QED
    BY <1>2, <1>6, <1>7, <2>5 DEF SlotInv
<1>9. CASE ~ sync_clock[r]
  <2>1. expect'[r] = Nothing
    BY <1>1, <1>9 DEF SlotInv
  <2>2. Right(r)
    BY <1>2, <1>7, <2>1 DEF Nothing
  <2> QED
    BY <1>2, <1>6, <1>7, <2>2 DEF SlotInv
<1> QED
  BY <1>8, <1>9
(* The loop writes the slot of the status it takes, and no other.          *)
LEMMA LoopSlots ==
  ASSUME TypeOK, SlotInv, NEW r \in Rank, SyncRecv(r) \/ SyncSend(r)
  PROVE  SlotInv'
<1> DEFINE s == Head(todo[r])
<1>1. /\ todo[r] # <<>> /\ todo' = [todo EXCEPT ![r] = Tail(@)]
      /\ UNCHANGED <<pc, registered_buff_length, expect>>
  <2>1. CASE SyncRecv(r)
    BY <2>1 DEF SyncRecv, InLoop
  <2>2. CASE SyncSend(r)
    BY <2>2 DEF SyncSend, InLoop, histVars
  <2> QED
    BY <2>1, <2>2
<1>2. 1 \in DOMAIN todo[r] /\ s = todo[r][1] /\ s \in Status
  <2>1. 1 \in DOMAIN todo[r] /\ s = todo[r][1]
    BY <1>1, PopTodo
  <2>2. s \in Status
    BY <1>1, HeadOfTodo
  <2> QED
    BY <2>1, <2>2
<1>3. s.slot \in 1..MaxCount
  BY <1>2 DEF Status
<1>4. \A q \in Rank : q # r => todo'[q] = todo[q] /\ buff'[q] = buff[q]
  <2>1. \A q \in Rank : q # r => buff'[q] = buff[q]
    BY DEF SyncRecv, SyncSend, SyncClockAt, TypeOK
  <2> QED
    BY <1>1, <2>1, PopTodo
<1>5. \A i \in 1..MaxCount : i # s.slot /\ pc[r] \in FullOps => buff'[r][i] = buff[r][i]
  <2>1. pc[r] \in FullOps => \/ UNCHANGED buff
                             \/ \E v : buff' = [buff EXCEPT ![r][s.slot] = v]
    BY DEF SyncRecv, SyncSend, SyncClockAt, FullOps
  <2>2. buff \in [Rank -> [1..MaxCount -> Nat]]
    BY DEF TypeOK
  <2> HIDE DEF s
  <2>3. ASSUME NEW v, buff' = [buff EXCEPT ![r][s.slot] = v], NEW i \in 1..MaxCount, i # s.slot
        PROVE  buff'[r][i] = buff[r][i]
    BY <2>2, <2>3
  <2> QED
    BY <2>1, <2>3
<1>6. ASSUME pc[r] \in FullOps, registered_buff_length[r] # NoBuffer
      PROVE  \/ buff'[r][s.slot] = StatusClock(s)
             \/ s.msg = NoMessage /\ buff'[r][s.slot] = buff[r][s.slot]
  <2>1. CASE SyncRecv(r)
    <3>1. s.msg # NoMessage /\ buff' = [buff EXCEPT ![r][s.slot] = s.msg.pb]
      BY <1>6, <2>1 DEF SyncRecv, SyncClockAt
    <3> QED
      BY <1>3, <3>1 DEF TypeOK, StatusClock
  <2>2. CASE SyncSend(r)
    <3>1. /\ s.msg = NoMessage
          /\ buff' = buff \/ buff' = [buff EXCEPT ![r][s.slot] = SendReqClock]
      BY <1>6, <2>2 DEF SyncSend, FullOps
    <3> QED
      BY <1>3, <3>1 DEF TypeOK, StatusClock
  <2> QED
    BY <2>1, <2>2
<1> HIDE DEF s
<1>7. ASSUME pc[r] \in CompletionOps
      PROVE  /\ \A k \in DOMAIN todo'[r] : todo'[r][k].slot \in DOMAIN expect[r] =>
                  expect[r][todo'[r][k].slot] = StatusClock(todo'[r][k])
             /\ \A i \in DOMAIN expect[r] :
                  (\A k \in DOMAIN todo'[r] :
                     todo'[r][k].slot = i => todo'[r][k].msg = NoMessage)
                    => buff'[r][i] = expect[r][i]
  <2>1. \A k \in DOMAIN todo'[r] : \E l \in DOMAIN todo[r] : todo'[r][k] = todo[r][l]
    BY <1>1, PopStatuses
  <2>2. \A l \in DOMAIN todo[r] : l # 1 => \E k \in DOMAIN todo'[r] : todo'[r][k] = todo[r][l]
    BY <1>1, PopStatuses
  <2>3. \A k \in DOMAIN todo'[r] : todo'[r][k].slot \in DOMAIN expect[r] =>
          expect[r][todo'[r][k].slot] = StatusClock(todo'[r][k])
    BY <1>7, <2>1 DEF SlotInv
  <2>4. ASSUME NEW i \in DOMAIN expect[r],
               \A k \in DOMAIN todo'[r] : todo'[r][k].slot = i => todo'[r][k].msg = NoMessage
        PROVE  buff'[r][i] = expect[r][i]
    <3>1. \A l \in DOMAIN todo[r] : l # 1 /\ todo[r][l].slot = i => todo[r][l].msg = NoMessage
      BY <2>2, <2>4
    <3>2. i \in 1..MaxCount /\ pc[r] \in FullOps /\ registered_buff_length[r] # NoBuffer
      BY <1>7 DEF SlotInv
    <3>3. s.slot = i => expect[r][i] = StatusClock(s)
      BY <1>2, <1>7 DEF SlotInv
    <3>4. s.msg = NoMessage \/ s.slot # i => buff[r][i] = expect[r][i]
      BY <1>2, <1>7, <3>1 DEF SlotInv
    <3>5. CASE s.slot = i
      BY <1>6, <3>2, <3>3, <3>4, <3>5
    <3>6. CASE s.slot # i
      BY <1>5, <3>2, <3>4, <3>6
    <3> QED
      BY <3>5, <3>6
  <2> QED
    BY <2>3, <2>4
<1> QED
  BY <1>1, <1>4, <1>7 DEF SlotInv

LEMMA StepSlots ==
  ASSUME Ops \cap PartialOps = {}, TypeOK, HandleInv, SlotInv, [Next]_vars
  PROVE  SlotInv'
<1> USE DEF Goto
<1>1. ASSUME UNCHANGED <<pc, registered_buff_length, todo, expect, buff>> PROVE SlotInv'
  BY <1>1 DEF SlotInv
<1>2. ASSUME NEW r \in Rank, NEW where, where \notin CompletionOps,
             pc' = [pc EXCEPT ![r] = where],
             UNCHANGED <<registered_buff_length, todo, expect, buff>>
      PROVE  SlotInv'
  <2>1. DOMAIN expect' = Rank /\ pc'[r] \notin CompletionOps
    BY <1>2 DEF SlotInv, TypeOK
  <2>2. \A q \in Rank : q # r => pc'[q] = pc[q]
    BY <1>2 DEF TypeOK
  <2> QED
    BY <1>2, <2>1, <2>2, QuietSlots
<1>3. /\ "Idle" \notin CompletionOps /\ "Send" \notin CompletionOps
      /\ "SendrecvPosted" \notin CompletionOps /\ "Collective" \notin CompletionOps
      /\ "Reduced" \notin CompletionOps /\ "Exited" \notin CompletionOps
      /\ CompletionOps \cap BlockingOps = {}
  BY DEF CompletionOps, WaitOps, TestOps, BlockingOps
<1>4. ASSUME NEW r \in Rank, NEW d \in Rank, MPI_Send(r, d) \/ MPI_Sendrecv(r, d)
      PROVE  SlotInv'
  BY <1>2, <1>3, <1>4 DEF MPI_Send, MPI_Sendrecv, clmpiVars, histVars
<1>5. ASSUME NEW r \in Rank, NEW d \in Rank, MPI_Isend(r, d) PROVE SlotInv'
  BY <1>1, <1>5 DEF MPI_Isend, ctlVars
<1>6. ASSUME NEW r \in Rank, MPI_Irecv(r) PROVE SlotInv'
  BY <1>1, <1>6 DEF MPI_Irecv, ctlVars, histVars
<1>7. ASSUME NEW r \in Rank, MPI_Recv(r) \/ SendrecvReceives(r) PROVE SlotInv'
  <2>1. PICK op \in BlockingOps : Receives(r, op)
    BY <1>7 DEF MPI_Recv, SendrecvReceives, BlockingOps
  <2>2. pc'[r] \notin CompletionOps /\ DOMAIN expect' = Rank
    BY <1>3, <2>1 DEF Receives, TypeOK, SlotInv, histVars
  <2>3. \A q \in Rank : q # r => pc'[q] = pc[q] /\ todo'[q] = todo[q]
    BY <2>1 DEF Receives, TypeOK
  <2> QED
    BY <2>1, <2>2, <2>3, QuietSlots DEF Receives, clmpiVars, histVars
<1>8. ASSUME NEW r \in Rank, Unregistered(r) PROVE SlotInv'
  BY <1>2, <1>3, <1>8 DEF Unregistered, clmpiVars, histVars
<1>9. ASSUME NEW r \in Rank, Completes(r) PROVE SlotInv'
  BY <1>8, <1>9, CompletesServed, CompleteSlots
<1>10. ASSUME NEW r \in Rank, SendReturns(r) \/ CollectiveReturns(r) PROVE SlotInv'
  BY <1>2, <1>3, <1>10 DEF SendReturns, CollectiveReturns
<1>11. ASSUME NEW r \in Rank, LoopExits(r) \/ CollectiveSync(r) PROVE SlotInv'
  BY <1>2, <1>3, <1>11 DEF LoopExits, CollectiveSync, clmpiVars, histVars
<1>12. ASSUME NEW r \in Rank, Returns(r) PROVE SlotInv'
  <2>1. pc'[r] \notin CompletionOps /\ DOMAIN expect' = Rank
    BY <1>3, <1>12 DEF Returns, TypeOK, SlotInv
  <2>2. \A q \in Rank : q # r => /\ pc'[q] = pc[q] /\ expect'[q] = expect[q]
                                 /\ registered_buff_length'[q] = registered_buff_length[q]
    BY <1>12 DEF Returns, TypeOK, SlotInv
  <2> QED
    BY <1>12, <2>1, <2>2, QuietSlots DEF Returns
<1>13. ASSUME NEW r \in Rank, NEW n \in 1..MaxCount, RegisterRecvClocks(r, n)
       PROVE  SlotInv'
  <2>1. pc'[r] \notin CompletionOps /\ DOMAIN expect' = Rank
    BY <1>3, <1>13 DEF RegisterRecvClocks, SlotInv, ctlVars, histVars
  <2>2. \A q \in Rank : q # r => /\ buff'[q] = buff[q]
                                 /\ registered_buff_length'[q] = registered_buff_length[q]
    BY <1>13 DEF RegisterRecvClocks, TypeOK
  <2> QED
    BY <1>13, <2>1, <2>2, QuietSlots DEF RegisterRecvClocks, ctlVars, histVars
<1>14. ASSUME NEW r \in Rank,
              ClockControl(r) \/ \E c \in ClientClock : SyncClock(r, c) \/ SetPbClock(r, c)
       PROVE  SlotInv'
  BY <1>1, <1>14 DEF ClockControl, SyncClock, SetPbClock, ctlVars, histVars
<1>15. CASE Allreduce
  BY <1>3, <1>15 DEF Allreduce, clmpiVars, SlotInv
<1>16. CASE UNCHANGED vars
  BY <1>1, <1>16 DEF vars, clmpiVars, ctlVars, histVars
<1> QED
  BY <1>4, <1>5, <1>6, <1>7, <1>9, <1>10, <1>11, <1>12, <1>13, <1>14, <1>15, <1>16,
     LoopSlots DEF Next, Continues

(* Where MPI fills in one status per request (MPI_Wait, MPI_Waitall,       *)
(* MPI_Test, MPI_Testall), the registered buffer tells for every request   *)
(* of the array the clock it received, or that it is a send or an          *)
(* unmatched receive, in whatever order the wrappers of the ranks run and  *)
(* however the clocks are switched in between.                             *)
THEOREM SlotsCorrect ==
  ASSUME Ops \cap PartialOps = {}
  PROVE  Spec => []SlotsMatchRequests
<1>1. Init => TypeOK /\ HandleInv /\ SlotInv
  BY InitType, InitHandle, InitSlots
<1>2. TypeOK /\ HandleInv /\ SlotInv /\ [Next]_vars => (TypeOK /\ HandleInv /\ SlotInv)'
  BY StepType, StepHandle, StepSlots
<1> QED
  BY <1>1, <1>2, SlotInvImplies, PTL DEF Spec
================================================================================
