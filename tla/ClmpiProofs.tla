------------------------------ MODULE ClmpiProofs ------------------------------
(***************************************************************************)
(* Proofs about the clock layer, for every number of ranks, handles and    *)
(* messages and every bound.                                               *)
(***************************************************************************)
EXTENDS Clmpi, SequenceTheorems, TLAPS

(* A finite function on 1..n is a sequence of length n. *)
LEMMA FunctionIsSeq ==
  ASSUME NEW S, NEW n \in Nat, NEW f \in [1..n -> S]
  PROVE  f \in Seq(S) /\ Len(f) = n /\ DOMAIN f = 1..n
  OBVIOUS

(* Orders: sequences of members of S, of bounded length. *)
LEMMA OrdersType ==
  ASSUME NEW S, NEW q \in Orders(S)
  PROVE  q \in Seq(S) /\ Len(q) \in 0..MaxCount /\ DOMAIN q = 1..Len(q)
<1>1. PICK n \in 0..MaxCount : q \in [1..n -> S]
  BY DEF Orders
<1>2. n \in Nat
  BY BoundAssumption
<1> QED
  BY <1>1, <1>2, FunctionIsSeq

LEMMA MergedType ==
  ASSUME TypeOK, NEW r \in Rank, NEW c \in Nat
  PROVE  Merged(r, c) \in Nat /\ local_clock[r] <= Merged(r, c)
  BY DEF TypeOK, Merged

(* The head of todo is a status, and its tail is a sequence of statuses. *)
LEMMA HeadOfTodo ==
  ASSUME TypeOK, NEW r \in Rank, todo[r] # <<>>
  PROVE  Head(todo[r]) \in Status /\ Tail(todo[r]) \in Seq(Status)
<1>1. todo[r] \in Seq(Status)
  BY DEF TypeOK
<1> QED
  BY <1>1

LEMMA ShipType ==
  ASSUME TypeOK, NEW r \in Rank, NEW d \in Rank, Ship(r, d)
  PROVE  /\ net' \in SUBSET Message
         /\ nsent' \in [Rank -> Nat]
  BY DEF TypeOK, Ship, Message

LEMMA TickAfterSendType ==
  ASSUME TypeOK, NEW r \in Rank, TickAfterSend(r)
  PROVE  /\ local_clock' \in [Rank -> Nat]
         /\ past' \in [Rank -> SUBSET Nat]
         /\ nticks' \in [Rank -> Nat]
  BY DEF TypeOK, TickAfterSend, Ticked, Remember, CountTicks

(* The statuses PMPI fills in, for requests that are in the array. *)
LEMMA StatusesType ==
  ASSUME TypeOK, NEW r \in Rank,
         NEW a \in Seq(Handle \union {NULL}), Len(a) \in 0..MaxCount,
         NEW done \in Seq(1..Len(a)), Len(done) \in 0..MaxCount,
         NEW got \in Deliveries(r, a, done)
  PROVE  [k \in DOMAIN done |->
            [slot |-> k, idx |-> done[k], h |-> a[done[k]], msg |-> got[k]]]
           \in Seq(Status)
<1>1. DOMAIN done = 1..Len(done) /\ Len(done) \in Nat /\ Len(done) <= MaxCount
  BY BoundAssumption
<1>2. ASSUME NEW k \in 1..Len(done)
      PROVE  [slot |-> k, idx |-> done[k], h |-> a[done[k]], msg |-> got[k]] \in Status
  <2>1. k \in 1..MaxCount
    BY <1>1, BoundAssumption
  <2>2. done[k] \in 1..Len(a) /\ done[k] \in 1..MaxCount
    BY BoundAssumption
  <2>3. a[done[k]] \in Handle \union {NULL}
    BY <2>2
  <2>4. got[k] \in Message \union {NoMessage}
    BY <1>1 DEF Deliveries, TypeOK
  <2> QED
    BY <2>1, <2>2, <2>3, <2>4 DEF Status
<1>3. [k \in 1..Len(done) |->
         [slot |-> k, idx |-> done[k], h |-> a[done[k]], msg |-> got[k]]]
        \in [1..Len(done) -> Status]
  BY <1>2
<1> QED
  BY <1>1, <1>3, FunctionIsSeq

LEMMA CompleteType ==
  ASSUME TypeOK, NEW r \in Rank, NEW op \in CompletionOps,
         NEW a \in Seq(Handle \union {NULL}), Len(a) \in 0..MaxCount,
         NEW done \in Seq(1..Len(a)), Len(done) \in 0..MaxCount,
         NEW n \in 0..MaxCount,
         Complete(r, op, a, done, n)
  PROVE  TypeOK'
<1>1. PICK got \in Deliveries(r, a, done) :
        /\ net' = net \ {got[k] : k \in DOMAIN done}
        /\ todo' = [todo EXCEPT ![r] = [k \in DOMAIN done |->
             [slot |-> k, idx |-> done[k], h |-> a[done[k]], msg |-> got[k]]]]
  BY DEF Complete
<1>2. todo' \in [Rank -> Seq(Status)]
  <2> DEFINE statuses == [k \in DOMAIN done |->
               [slot |-> k, idx |-> done[k], h |-> a[done[k]], msg |-> got[k]]]
  <2>1. statuses \in Seq(Status)
    BY StatusesType
  <2>2. todo' = [todo EXCEPT ![r] = statuses]
    BY <1>1
  <2>3. todo \in [Rank -> Seq(Status)]
    BY DEF TypeOK
  <2> HIDE DEF statuses
  <2> QED
    BY <2>1, <2>2, <2>3
<1>3. net' \in SUBSET Message
  BY <1>1 DEF TypeOK
<1>4. buff' \in [Rank -> [1..MaxCount -> Nat]]
  <2> DEFINE slots == [i \in 1..MaxCount |->
                         IF i <= Len(a) THEN UnmatchedClock(r, a[i]) ELSE buff[r][i]]
  <2>1. buff \in [Rank -> [1..MaxCount -> Nat]]
    BY DEF TypeOK
  <2>2. \A h : UnmatchedClock(r, h) \in Nat
    BY DEF UnmatchedClock, UnmatchedRecvReqClock, SendReqClock
  <2>3. slots \in [1..MaxCount -> Nat]
    BY <2>1, <2>2
  <2>4. buff' = buff \/ buff' = [buff EXCEPT ![r] = slots]
    BY DEF Complete, InitRegisteredClocks
  <2> HIDE DEF slots
  <2> QED
    BY <2>1, <2>3, <2>4
<1>5. req' \in [Rank -> [Handle -> {"none", "send", "recv"}]]
  BY DEF Complete, TypeOK
<1>6. pc' \in [Rank -> CompletionOps \union BlockingOps \union
               {"Idle", "Send", "SendrecvPosted", "Collective", "Reduced", "Exited"}]
  BY DEF Complete, Goto, TypeOK
<1>7. count' \in [Rank -> 0..MaxCount]
  BY DEF Complete, TypeOK
<1> QED
  BY <1>2, <1>3, <1>4, <1>5, <1>6, <1>7 DEF Complete, TypeOK

(* The arrays of the completion wrappers are sequences of handles and null *)
(* requests, and Live names places in them.                                *)
LEMMA ArraysType ==
  ASSUME NEW r \in Rank, NEW a \in Arrays(r) \union GappedArrays(r)
  PROVE  /\ a \in Seq(Handle \union {NULL})
         /\ Len(a) \in 0..MaxCount
         /\ DOMAIN a = 1..Len(a)
<1>1. \E n \in 0..MaxCount : a \in [1..n -> Handle \union {NULL}]
  BY DEF Arrays, GappedArrays, Orders, Pending
<1>2. PICK n \in 0..MaxCount : a \in [1..n -> Handle \union {NULL}]
  BY <1>1
<1>3. n \in Nat
  BY BoundAssumption
<1> QED
  BY <1>2, <1>3, FunctionIsSeq

LEMMA SingletonDone ==
  ASSUME NEW n \in Nat, NEW i \in 1..n
  PROVE  /\ <<i>> \in Seq(1..n)
         /\ Len(<<i>>) \in 0..MaxCount
         /\ <<>> \in Seq(1..n)
         /\ Len(<<>>) \in 0..MaxCount
  BY BoundAssumption

LEMMA FullDone ==
  ASSUME NEW r \in Rank, NEW a \in Arrays(r)
  PROVE  /\ [i \in DOMAIN a |-> i] \in Seq(1..Len(a))
         /\ Len([i \in DOMAIN a |-> i]) \in 0..MaxCount
<1>1. Len(a) \in 0..MaxCount /\ DOMAIN a = 1..Len(a)
  BY ArraysType
<1>2. [i \in 1..Len(a) |-> i] \in [1..Len(a) -> 1..Len(a)]
  OBVIOUS
<1>3. Len(a) \in Nat
  BY <1>1, BoundAssumption
<1> QED
  BY <1>1, <1>2, <1>3, FunctionIsSeq

LEMMA PartDone ==
  ASSUME NEW r \in Rank, NEW a \in GappedArrays(r), NEW done \in Orders(Live(a))
  PROVE  done \in Seq(1..Len(a)) /\ Len(done) \in 0..MaxCount
<1>1. Live(a) \subseteq 1..Len(a)
  BY ArraysType DEF Live
<1>2. done \in Seq(Live(a)) /\ Len(done) \in 0..MaxCount
  BY OrdersType
<1> QED
  BY <1>1, <1>2

(* Every completion wrapper preserves the types. *)
LEMMA CompletesType ==
  ASSUME TypeOK, NEW r \in Rank, Completes(r)
  PROVE  TypeOK'
<1> USE DEF CompletionOps, WaitOps, TestOps
<1>1. 1 \in 0..MaxCount
  BY BoundAssumption
<1>2. ASSUME NEW h \in Pending(r)
      PROVE  <<h>> \in Seq(Handle \union {NULL}) /\ Len(<<h>>) = 1
  BY DEF Pending
<1>3. CASE MPI_Wait(r)
  <2>1. PICK h \in Pending(r) : Complete(r, "Wait", <<h>>, <<1>>, 1)
    BY <1>3 DEF MPI_Wait
  <2>2. <<1>> \in Seq(1..Len(<<h>>)) /\ Len(<<1>>) \in 0..MaxCount
    BY SingletonDone, <1>2
  <2> QED
    BY <1>1, <1>2, <2>1, <2>2, CompleteType
<1>4. CASE MPI_Waitany(r)
  <2>a. PICK a \in GappedArrays(r) :
          \E i \in Live(a) : Complete(r, "Waitany", a, <<i>>, 1)
    BY <1>4 DEF MPI_Waitany
  <2>1. PICK i \in Live(a) : Complete(r, "Waitany", a, <<i>>, 1)
    BY <2>a
  <2>2. Len(a) \in Nat /\ i \in 1..Len(a)
    BY ArraysType, BoundAssumption DEF Live
  <2> QED
    BY <1>1, <2>1, <2>2, SingletonDone, ArraysType, CompleteType
<1>5. CASE MPI_Waitsome(r)
  <2>a. PICK a \in GappedArrays(r) : \E done \in Orders(Live(a)) :
          Complete(r, "Waitsome", a, done, Len(a))
    BY <1>5 DEF MPI_Waitsome
  <2>1. PICK done \in Orders(Live(a)) : Complete(r, "Waitsome", a, done, Len(a))
    BY <2>a
  <2> QED
    BY <2>1, PartDone, ArraysType, CompleteType
<1>6. CASE MPI_Waitall(r)
  <2>1. PICK a \in Arrays(r) : Complete(r, "Waitall", a, [i \in DOMAIN a |-> i], Len(a))
    BY <1>6 DEF MPI_Waitall
  <2> QED
    BY <2>1, FullDone, ArraysType, CompleteType
<1>7. CASE MPI_Test(r)
  <2>1. PICK h \in Pending(r), done \in {<<>>, <<1>>} : Complete(r, "Test", <<h>>, done, 1)
    BY <1>7 DEF MPI_Test
  <2>2. done \in Seq(1..1) /\ Len(done) \in 0..MaxCount
    <3>1. CASE done = <<1>>
      BY <3>1, SingletonDone
    <3>2. CASE done = <<>>
      BY <3>2, SingletonDone, 1 \in 1..1
    <3> QED
      BY <3>1, <3>2
  <2> QED
    BY <1>1, <1>2, <2>1, <2>2, CompleteType
<1>8. CASE MPI_Testany(r)
  <2>a. PICK a \in GappedArrays(r) : \E done \in {<<>>} \union {<<i>> : i \in Live(a)} :
          Complete(r, "Testany", a, done, 1)
    BY <1>8 DEF MPI_Testany
  <2>1. PICK done \in {<<>>} \union {<<i>> : i \in Live(a)} : Complete(r, "Testany", a, done, 1)
    BY <2>a
  <2>2. PICK i \in Live(a) : TRUE
    BY DEF GappedArrays
  <2>3. Len(a) \in Nat /\ Live(a) \subseteq 1..Len(a)
    BY ArraysType, BoundAssumption DEF Live
  <2>4. done \in Seq(1..Len(a)) /\ Len(done) \in 0..MaxCount
    BY <2>2, <2>3, SingletonDone
  <2> QED
    BY <1>1, <2>1, <2>4, ArraysType, CompleteType
<1>9. CASE MPI_Testsome(r)
  <2>a. PICK a \in GappedArrays(r) : \E done \in Orders(Live(a)) :
          Complete(r, "Testsome", a, done, Len(a))
    BY <1>9 DEF MPI_Testsome
  <2>1. PICK done \in Orders(Live(a)) : Complete(r, "Testsome", a, done, Len(a))
    BY <2>a
  <2> QED
    BY <2>1, PartDone, ArraysType, CompleteType
<1>10. CASE MPI_Testall(r)
  <2>a. PICK a \in Arrays(r) : \E done \in {<<>>, [i \in DOMAIN a |-> i]} :
          Complete(r, "Testall", a, done, Len(a))
    BY <1>10 DEF MPI_Testall
  <2>1. PICK done \in {<<>>, [i \in DOMAIN a |-> i]} : Complete(r, "Testall", a, done, Len(a))
    BY <2>a
  <2>2. <<>> \in Seq(1..Len(a)) /\ Len(<<>>) \in 0..MaxCount
    BY BoundAssumption
  <2> QED
    BY <2>1, <2>2, FullDone, ArraysType, CompleteType
<1>11. CASE Unregistered(r)
  BY <1>11 DEF Unregistered, Goto, TypeOK, clmpiVars, mpiVars, histVars
<1> QED
  BY <1>3, <1>4, <1>5, <1>6, <1>7, <1>8, <1>9, <1>10, <1>11 DEF Completes

LEMMA SyncClockAtType ==
  ASSUME TypeOK, NEW r \in Rank, NEW s \in Status, s.msg # NoMessage,
         SyncClockAt(r, s)
  PROVE  /\ local_clock' \in [Rank -> Nat]
         /\ buff' \in [Rank -> [1..MaxCount -> Nat]]
         /\ past' \in [Rank -> SUBSET Nat]
         /\ nticks' \in [Rank -> Nat]
<1>1. s.slot \in 1..MaxCount /\ s.msg \in Message
  BY DEF Status
<1>2. s.msg.pb \in Nat /\ s.msg.past \in SUBSET Nat
  BY <1>1 DEF Message
<1>3. local_clock' \in [Rank -> Nat]
  BY <1>2, MergedType DEF SyncClockAt, TypeOK
<1>4. buff' \in [Rank -> [1..MaxCount -> Nat]]
  BY <1>1, <1>2 DEF SyncClockAt, TypeOK
<1>5. past' \in [Rank -> SUBSET Nat]
  BY <1>2 DEF SyncClockAt, Remember, TypeOK
<1>6. nticks' \in [Rank -> Nat]
  BY DEF SyncClockAt, CountTicks, TypeOK
<1> QED
  BY <1>3, <1>4, <1>5, <1>6

LEMMA ReceivesType ==
  ASSUME TypeOK, NEW r \in Rank, NEW op \in BlockingOps, Receives(r, op)
  PROVE  TypeOK'
<1>1. PICK m \in net :
        /\ net' = net \ {m}
        /\ todo' = [todo EXCEPT ![r] =
                     <<[slot |-> 1, idx |-> 1, h |-> NULL, msg |-> m]>>]
  BY DEF Receives
<1>2. [slot |-> 1, idx |-> 1, h |-> NULL, msg |-> m] \in Status
  BY BoundAssumption DEF Status, TypeOK
<1>3. todo' \in [Rank -> Seq(Status)]
  BY <1>1, <1>2 DEF TypeOK
<1>4. net' \in SUBSET Message
  BY <1>1 DEF TypeOK
<1>5. pc' \in [Rank -> CompletionOps \union BlockingOps \union
               {"Idle", "Send", "SendrecvPosted", "Collective", "Reduced", "Exited"}]
  BY DEF Receives, Goto, TypeOK
<1>6. count' \in [Rank -> 0..MaxCount]
  BY BoundAssumption DEF Receives, TypeOK
<1> QED
  BY <1>3, <1>4, <1>5, <1>6 DEF Receives, TypeOK, clmpiVars, histVars

(* The initial state has the types. *)
LEMMA InitType == Init => TypeOK
<1> SUFFICES ASSUME Init PROVE TypeOK
  OBVIOUS
<1>1. todo \in [Rank -> Seq(Status)]
  BY DEF Init
<1>2. buff \in [Rank -> [1..MaxCount -> Nat]] /\ count \in [Rank -> 0..MaxCount]
  BY BoundAssumption DEF Init
<1> QED
  BY <1>1, <1>2 DEF Init, TypeOK, InitialClock, NoBuffer

(* Every step preserves the types. *)
LEMMA StepType == TypeOK /\ [Next]_vars => TypeOK'
<1> SUFFICES ASSUME TypeOK, [Next]_vars PROVE TypeOK'
  OBVIOUS
<1> USE DEF Goto
<1>1. ASSUME NEW r \in Rank, NEW d \in Rank, MPI_Send(r, d)
      PROVE  TypeOK'
  BY <1>1, ShipType DEF MPI_Send, TypeOK, clmpiVars, histVars
<1>2. ASSUME NEW r \in Rank, NEW d \in Rank, MPI_Isend(r, d)
      PROVE  TypeOK'
  <2>1. req' \in [Rank -> [Handle -> {"none", "send", "recv"}]]
    BY <1>2 DEF MPI_Isend, TypeOK
  <2>2. request_to_local_clock' \in [Rank -> SUBSET Handle]
    BY <1>2 DEF MPI_Isend, TypeOK
  <2> QED
    BY <1>2, <2>1, <2>2, ShipType, TickAfterSendType
       DEF MPI_Isend, TypeOK, ctlVars
<1>3. ASSUME NEW r \in Rank, NEW d \in Rank, MPI_Sendrecv(r, d)
      PROVE  TypeOK'
  BY <1>3, ShipType DEF MPI_Sendrecv, TypeOK, clmpiVars, histVars
<1>4. ASSUME NEW r \in Rank, MPI_Irecv(r)
      PROVE  TypeOK'
  <2>1. req' \in [Rank -> [Handle -> {"none", "send", "recv"}]]
    BY <1>4 DEF MPI_Irecv, TypeOK
  <2>2. irecv_request_map' \in [Rank -> SUBSET Handle]
    BY <1>4 DEF MPI_Irecv, TypeOK
  <2> QED
    BY <1>4, <2>1, <2>2 DEF MPI_Irecv, TypeOK, ctlVars, histVars
<1>5. ASSUME NEW r \in Rank, MPI_Recv(r) \/ SendrecvReceives(r)
      PROVE  TypeOK'
  BY <1>5, ReceivesType DEF MPI_Recv, SendrecvReceives, BlockingOps
<1>6. ASSUME NEW r \in Rank, SendReturns(r)
      PROVE  TypeOK'
  BY <1>6, TickAfterSendType DEF SendReturns, TypeOK, mpiVars
<1>7. ASSUME NEW r \in Rank, SyncRecv(r)
      PROVE  TypeOK'
  <2> DEFINE s == Head(todo[r])
  <2>1. s \in Status /\ Tail(todo[r]) \in Seq(Status)
    BY <1>7, HeadOfTodo DEF SyncRecv, InLoop
  <2>2. s.msg # NoMessage /\ SyncClockAt(r, s)
    BY <1>7 DEF SyncRecv
  <2>3. todo' \in [Rank -> Seq(Status)]
    BY <1>7, <2>1 DEF SyncRecv, TypeOK
  <2>4. irecv_request_map' \in [Rank -> SUBSET Handle]
    BY <1>7 DEF SyncRecv, TypeOK
  <2> HIDE DEF s
  <2> QED
    BY <1>7, <2>1, <2>2, <2>3, <2>4, SyncClockAtType DEF SyncRecv, TypeOK, mpiVars
<1>8. ASSUME NEW r \in Rank, SyncSend(r)
      PROVE  TypeOK'
  <2> DEFINE s == Head(todo[r])
  <2>1. s \in Status /\ Tail(todo[r]) \in Seq(Status)
    BY <1>8, HeadOfTodo DEF SyncSend, InLoop
  <2>2. s.slot \in 1..MaxCount /\ s.idx \in 1..MaxCount
    BY <2>1 DEF Status
  <2>3. buff' \in [Rank -> [1..MaxCount -> Nat]]
    BY <1>8, <2>2 DEF SyncSend, TypeOK, SendReqClock
  <2>4. request_to_local_clock' \in [Rank -> SUBSET Handle]
    BY <1>8 DEF SyncSend, TypeOK
  <2>5. todo' \in [Rank -> Seq(Status)]
    BY <1>8, <2>1 DEF SyncSend, TypeOK
  <2> QED
    BY <1>8, <2>3, <2>4, <2>5 DEF SyncSend, TypeOK, mpiVars, histVars
<1>9. ASSUME NEW r \in Rank, LoopExits(r)
      PROVE  TypeOK'
  BY <1>9 DEF LoopExits, TypeOK, clmpiVars, mpiVars, histVars
<1>10. ASSUME NEW r \in Rank, Returns(r)
       PROVE  TypeOK'
  BY <1>10 DEF Returns, TypeOK, mpiVars
<1>11. ASSUME NEW r \in Rank, CollectiveSync(r)
       PROVE  TypeOK'
  BY <1>11 DEF CollectiveSync, TypeOK, clmpiVars, mpiVars, histVars
<1>12. CASE Allreduce
  BY <1>12 DEF Allreduce, TypeOK, clmpiVars, mpiVars
<1>13. ASSUME NEW r \in Rank, CollectiveReturns(r)
       PROVE  TypeOK'
  <2>1. local_clock' \in [Rank -> Nat]
    BY <1>13 DEF CollectiveReturns, Ticked, TypeOK
  <2>2. past' \in [Rank -> SUBSET Nat]
    BY <1>13 DEF CollectiveReturns, TypeOK
  <2>3. nticks' \in [Rank -> Nat]
    BY <1>13 DEF CollectiveReturns, CountTicks, TypeOK
  <2> QED
    BY <1>13, <2>1, <2>2, <2>3 DEF CollectiveReturns, TypeOK, mpiVars
<1>14. ASSUME NEW r \in Rank, NEW n \in 1..MaxCount, RegisterRecvClocks(r, n)
       PROVE  TypeOK'
  <2>1. buff' \in [Rank -> [1..MaxCount -> Nat]]
    BY <1>14 DEF RegisterRecvClocks, TypeOK
  <2> QED
    BY <1>14, <2>1 DEF RegisterRecvClocks, TypeOK, mpiVars, ctlVars, histVars
<1>15. ASSUME NEW r \in Rank, ClockControl(r)
       PROVE  TypeOK'
  BY <1>15 DEF ClockControl, TypeOK, mpiVars, ctlVars, histVars
<1>16. ASSUME NEW r \in Rank, NEW c \in ClientClock, SyncClock(r, c)
       PROVE  TypeOK'
  BY <1>16, MergedType, ClientAssumption
     DEF SyncClock, TypeOK, mpiVars, ctlVars, histVars
<1>17. ASSUME NEW r \in Rank, NEW c \in ClientClock, SetPbClock(r, c)
       PROVE  TypeOK'
  BY <1>17, ClientAssumption DEF SetPbClock, TypeOK, mpiVars, ctlVars, histVars
<1>18. CASE UNCHANGED vars
  BY <1>18 DEF TypeOK, vars, clmpiVars, mpiVars, ctlVars, histVars
<1> QED
  BY <1>1, <1>2, <1>3, <1>4, <1>5, <1>6, <1>7, <1>8, <1>9, <1>10, <1>11, <1>12,
     <1>13, <1>14, <1>15, <1>16, <1>17, <1>18, CompletesType DEF Next, Continues

(* The clock layer's statics keep their types, whatever the number of      *)
(* ranks, requests and messages: clocks and reported clocks are natural    *)
(* numbers, and the two request tables hold handles that were handed out.  *)
THEOREM TypeCorrect == Spec => []TypeOK
<1> QED
  BY InitType, StepType, PTL DEF Spec

--------------------------------------------------------------------------------
(* Lamport's condition *)

(* A clock exceeds every stamp it depends on. *)
Above(stamps, clock) == \A s \in stamps : s < clock

(* The strengthening of ClockCondition: a rank that has left PMPI_Allreduce *)
(* but has not yet taken its result keeps its old clock, so the result has *)
(* to dominate both what the rank knows and what it will learn.            *)
ClockInv ==
  /\ \A r \in Rank : Above(past[r], local_clock[r])
  /\ \A m \in net : Above(m.past, m.pb)
  /\ \A r \in Rank : \A k \in DOMAIN todo[r] :
       todo[r][k].msg # NoMessage => Above(todo[r][k].msg.past, todo[r][k].msg.pb)
  /\ \A r \in Rank : pc[r] = "Reduced" =>
       local_clock[r] <= coll_max /\ Above(coll_past, coll_max)

LEMMA ClockInvImplies == TypeOK /\ ClockInv => ClockCondition
<1> SUFFICES ASSUME TypeOK, ClockInv PROVE ClockCondition
  OBVIOUS
<1>1. \A r \in Rank : \A s \in past[r] : s < local_clock[r]
  BY DEF ClockInv, Above
<1>2. ASSUME NEW m \in net PROVE \A s \in m.past : s < m.pb
  BY DEF ClockInv, Above
<1>3. ASSUME NEW r \in Rank, NEW m \in Unmerged(r)
      PROVE  \A s \in m.past : s < m.pb
  BY DEF ClockInv, Above, Unmerged
<1> QED
  BY <1>1, <1>2, <1>3 DEF ClockCondition

LEMMA InitClock == Init => ClockInv
  BY DEF Init, ClockInv, Above

(* A merge keeps the clock above what the rank knew, and brings it above   *)
(* the stamps it learns.                                                   *)
LEMMA MergedAbove ==
  ASSUME TypeOK, NEW r \in Rank, NEW c \in Nat, NEW stamps \in SUBSET Nat,
         Above(past[r], local_clock[r]), Above(stamps, c)
  PROVE  /\ Above(past[r], Merged(r, c))
         /\ sync_clock[r] =>
              Above(past[r] \union stamps \union {c} \union {local_clock[r]}, Merged(r, c))
<1>1. local_clock[r] \in Nat /\ past[r] \in SUBSET Nat /\ sync_clock[r] \in BOOLEAN
  BY DEF TypeOK
<1>2. local_clock[r] <= Merged(r, c) /\ Merged(r, c) \in Nat
  BY MergedType
<1>3. sync_clock[r] => c < Merged(r, c) /\ local_clock[r] < Merged(r, c)
  BY <1>1 DEF Merged
<1>4. ASSUME NEW s \in past[r] PROVE s < Merged(r, c)
  BY <1>1, <1>2 DEF Above
<1>5. ASSUME sync_clock[r], NEW s \in stamps PROVE s < Merged(r, c)
  BY <1>2, <1>3, <1>5 DEF Above
<1> QED
  BY <1>3, <1>4, <1>5 DEF Above

(* A message that is shipped carries a clock above all its sender knows. *)
LEMMA ShipAbove ==
  ASSUME TypeOK, ClockInv, NEW r \in Rank, NEW d \in Rank, Ship(r, d)
  PROVE  \A m \in net' : Above(m.past, m.pb)
  BY DEF TypeOK, ClockInv, Ship

LEMMA TickAfterSendAbove ==
  ASSUME TypeOK, ClockInv, NEW r \in Rank, TickAfterSend(r)
  PROVE  \A q \in Rank : Above(past'[q], local_clock'[q])
<1> SUFFICES ASSUME NEW q \in Rank, NEW s \in past'[q] PROVE s < local_clock'[q]
  BY DEF Above
<1>1. local_clock[q] \in Nat /\ past[q] \in SUBSET Nat
  BY DEF TypeOK
<1>2. local_clock'[q] = IF q = r /\ sync_clock[q] THEN local_clock[q] + 1 ELSE local_clock[q]
  BY DEF TickAfterSend, Ticked, TypeOK
<1>3. past'[q] = IF q = r /\ sync_clock[q] THEN past[q] \union {local_clock[q]} ELSE past[q]
  BY DEF TickAfterSend, Remember, TypeOK
<1>4. \A t \in past[q] : t < local_clock[q]
  BY DEF ClockInv, Above
<1> QED
  BY <1>1, <1>2, <1>3, <1>4

LEMMA ReceivesClock ==
  ASSUME TypeOK, ClockInv, NEW r \in Rank, NEW op \in BlockingOps, Receives(r, op)
  PROVE  ClockInv'
<1>1. PICK m \in net :
        /\ net' = net \ {m}
        /\ todo' = [todo EXCEPT ![r] =
                     <<[slot |-> 1, idx |-> 1, h |-> NULL, msg |-> m]>>]
  BY DEF Receives
<1>2. \A x \in net' : Above(x.past, x.pb)
  BY <1>1 DEF ClockInv
<1>3. ASSUME NEW q \in Rank, NEW k \in DOMAIN todo'[q]
      PROVE  Above(todo'[q][k].msg.past, todo'[q][k].msg.pb)
             \/ todo'[q][k].msg = NoMessage
  <2>1. CASE q = r
    BY <1>1, <1>3, <2>1 DEF ClockInv, TypeOK
  <2>2. CASE q # r
    BY <1>1, <1>3, <2>2 DEF ClockInv, TypeOK
  <2> QED
    BY <2>1, <2>2
<1>4. \A q \in Rank : pc'[q] = "Reduced" => pc[q] = "Reduced"
  BY DEF Receives, Goto, TypeOK, BlockingOps
<1> QED
  BY <1>2, <1>3, <1>4 DEF Receives, ClockInv, clmpiVars, histVars

LEMMA CompleteClock ==
  ASSUME TypeOK, ClockInv, NEW r \in Rank, NEW op \in CompletionOps,
         NEW a, NEW done, NEW n, Complete(r, op, a, done, n)
  PROVE  ClockInv'
<1>1. PICK got \in Deliveries(r, a, done) :
        /\ net' = net \ {got[k] : k \in DOMAIN done}
        /\ todo' = [todo EXCEPT ![r] = [k \in DOMAIN done |->
             [slot |-> k, idx |-> done[k], h |-> a[done[k]], msg |-> got[k]]]]
  BY DEF Complete
<1>2. \A x \in net' : Above(x.past, x.pb)
  BY <1>1 DEF ClockInv
<1>3. \A k \in DOMAIN done : got[k] \in net \union {NoMessage}
  BY DEF Deliveries
<1>4. ASSUME NEW q \in Rank, NEW k \in DOMAIN todo'[q], todo'[q][k].msg # NoMessage
      PROVE  Above(todo'[q][k].msg.past, todo'[q][k].msg.pb)
  <2>1. CASE q = r
    <3>1. k \in DOMAIN done /\ todo'[q][k].msg = got[k]
      BY <1>1, <1>4, <2>1 DEF TypeOK
    <3> QED
      BY <1>3, <1>4, <3>1 DEF ClockInv
  <2>2. CASE q # r
    BY <1>1, <1>4, <2>2 DEF ClockInv, TypeOK
  <2> QED
    BY <2>1, <2>2
<1>5. \A q \in Rank : pc'[q] = "Reduced" => pc[q] = "Reduced"
  BY DEF Complete, Goto, TypeOK, CompletionOps, WaitOps, TestOps
<1> QED
  BY <1>2, <1>4, <1>5 DEF Complete, ClockInv

LEMMA CompletesClock ==
  ASSUME TypeOK, ClockInv, NEW r \in Rank, Completes(r)
  PROVE  ClockInv'
<1>1. CASE Unregistered(r)
  BY <1>1 DEF Unregistered, Goto, TypeOK, ClockInv, clmpiVars, mpiVars, histVars
<1>2. CASE \E op \in CompletionOps : \E a, done, n : Complete(r, op, a, done, n)
  BY <1>2, CompleteClock
<1> QED
  BY <1>1, <1>2
     DEF Completes, CompletionOps, WaitOps, TestOps, MPI_Wait, MPI_Waitany,
         MPI_Waitsome, MPI_Waitall, MPI_Test, MPI_Testany, MPI_Testsome, MPI_Testall

(* The places of a sequence's tail. *)
LEMMA TailPlaces ==
  ASSUME NEW S, NEW q \in Seq(S), q # <<>>, NEW k \in DOMAIN Tail(q)
  PROVE  Tail(q)[k] = q[k + 1] /\ k + 1 \in DOMAIN q
<1>1. /\ Tail(q) \in Seq(S)
      /\ Len(Tail(q)) = Len(q) - 1
      /\ \A i \in 1..Len(Tail(q)) : Tail(q)[i] = q[i + 1]
  BY HeadTailProperties
<1>2. Len(q) \in Nat /\ DOMAIN q = 1..Len(q) /\ DOMAIN Tail(q) = 1..Len(Tail(q))
  BY <1>1
<1> QED
  BY <1>1, <1>2

(* What the loop takes from todo leaves the statuses behind it as they were. *)
LEMMA PopClock ==
  ASSUME TypeOK, ClockInv, NEW r \in Rank, todo[r] # <<>>,
         todo' = [todo EXCEPT ![r] = Tail(@)]
  PROVE  \A q \in Rank : \A k \in DOMAIN todo'[q] :
           todo'[q][k].msg # NoMessage =>
             Above(todo'[q][k].msg.past, todo'[q][k].msg.pb)
<1> SUFFICES ASSUME NEW q \in Rank, NEW k \in DOMAIN todo'[q],
                    todo'[q][k].msg # NoMessage
             PROVE  Above(todo'[q][k].msg.past, todo'[q][k].msg.pb)
  OBVIOUS
<1>1. todo[q] \in Seq(Status) /\ todo[r] \in Seq(Status)
  BY DEF TypeOK
<1>2. CASE q = r
  <2>1. todo'[q] = Tail(todo[q])
    BY <1>2 DEF TypeOK
  <2>a. k \in DOMAIN Tail(todo[q]) /\ todo[q] # <<>>
    BY <1>2, <2>1, Zenon
  <2>b. Tail(todo[q])[k] = todo[q][k + 1] /\ k + 1 \in DOMAIN todo[q]
    BY <1>1, <2>a, TailPlaces, Zenon
  <2>2. todo'[q][k] = todo[q][k + 1] /\ k + 1 \in DOMAIN todo[q]
    BY <2>1, <2>b, Zenon
  <2> QED
    BY <2>2 DEF ClockInv
<1>3. CASE q # r
  BY <1>3 DEF ClockInv, TypeOK
<1> QED
  BY <1>2, <1>3

LEMMA SyncRecvClock ==
  ASSUME TypeOK, ClockInv, NEW r \in Rank, SyncRecv(r)
  PROVE  ClockInv'
<1> DEFINE s == Head(todo[r])
<1>1. todo[r] # <<>> /\ s.msg # NoMessage /\ SyncClockAt(r, s)
  BY DEF SyncRecv, InLoop
<1>2. s \in Status /\ todo[r] \in Seq(Status)
  BY <1>1, HeadOfTodo DEF TypeOK
<1>3. s.msg \in Message
  BY <1>1, <1>2 DEF Status
<1>4. s.msg.pb \in Nat /\ s.msg.past \in SUBSET Nat
  BY <1>3 DEF Message
<1>5. Above(s.msg.past, s.msg.pb)
  <2>1. 1 \in DOMAIN todo[r] /\ s = todo[r][1]
    BY <1>1, <1>2
  <2> QED
    BY <1>1, <2>1 DEF ClockInv
<1>6. Above(past[r], local_clock[r])
  BY DEF ClockInv
<1> HIDE DEF s
<1>7. ASSUME NEW q \in Rank PROVE Above(past'[q], local_clock'[q])
  <2>1. CASE q = r /\ sync_clock[r]
    <3>1. local_clock'[r] = Merged(r, s.msg.pb)
      BY <1>1 DEF SyncClockAt, TypeOK
    <3>2. past'[r] \subseteq
            past[r] \union s.msg.past \union {s.msg.pb} \union {local_clock[r]}
      BY <1>1, <2>1 DEF SyncClockAt, Remember, TypeOK
    <3> QED
      BY <1>4, <1>5, <1>6, <2>1, <3>1, <3>2, MergedAbove DEF Above
  <2>2. CASE ~ (q = r /\ sync_clock[r])
    <3>1. local_clock'[q] = local_clock[q]
      BY <1>1, <2>2 DEF SyncClockAt, Merged, TypeOK
    <3>2. past'[q] = past[q]
      BY <1>1, <2>2 DEF SyncClockAt, Remember, TypeOK
    <3> QED
      BY <3>1, <3>2 DEF ClockInv
  <2> QED
    BY <2>1, <2>2
<1>8. \A q \in Rank : pc[q] = "Reduced" => q # r
  BY DEF SyncRecv, InLoop, CompletionOps, WaitOps, TestOps, BlockingOps
<1>9. \A q \in Rank : q # r => local_clock'[q] = local_clock[q]
  BY <1>1 DEF SyncClockAt, TypeOK
<1>10. \A q \in Rank : \A k \in DOMAIN todo'[q] :
         todo'[q][k].msg # NoMessage =>
           Above(todo'[q][k].msg.past, todo'[q][k].msg.pb)
  BY <1>1, PopClock DEF SyncRecv
<1> QED
  BY <1>7, <1>8, <1>9, <1>10 DEF SyncRecv, ClockInv, mpiVars

LEMMA CollectiveReturnsClock ==
  ASSUME TypeOK, ClockInv, NEW r \in Rank, CollectiveReturns(r)
  PROVE  ClockInv'
<1>1. local_clock[r] <= coll_max /\ Above(coll_past, coll_max)
  BY DEF CollectiveReturns, ClockInv
<1>2. /\ local_clock' = [local_clock EXCEPT ![r] = Ticked(r, coll_max)]
      /\ past' = [past EXCEPT ![r] = @ \union coll_past \union
                    (IF sync_clock[r] THEN {coll_max} ELSE {})]
      /\ pc' = [pc EXCEPT ![r] = "Idle"]
      /\ UNCHANGED <<net, todo, coll_max, coll_past>>
  BY DEF CollectiveReturns, Goto, mpiVars
<1>3. ASSUME NEW q \in Rank, NEW s \in past'[q] PROVE s < local_clock'[q]
  <2>1. CASE q = r
    <3>1. /\ local_clock[r] \in Nat /\ coll_max \in Nat
          /\ past[r] \in SUBSET Nat /\ coll_past \in SUBSET Nat
      BY DEF TypeOK
    <3>2. local_clock'[q] = IF sync_clock[r] THEN coll_max + 1 ELSE coll_max
      BY <1>2, <2>1 DEF Ticked, TypeOK
    <3>3. s \in past[r] \/ s \in coll_past \/ (sync_clock[r] /\ s = coll_max)
      BY <1>2, <1>3, <2>1 DEF TypeOK
    <3>4. (s \in past[r] => s < local_clock[r]) /\ (s \in coll_past => s < coll_max)
      BY <1>1 DEF ClockInv, Above
    <3>5. coll_max <= local_clock'[q] /\ local_clock'[q] \in Nat
      BY <3>1, <3>2
    <3>6. sync_clock[r] => coll_max < local_clock'[q]
      BY <3>1, <3>2
    <3>7. ASSUME s \in past[r] PROVE s < local_clock'[q]
      <4>1. s \in Nat /\ s < local_clock[r]
        BY <3>1, <3>4, <3>7
      <4> QED
        BY <1>1, <3>1, <3>5, <4>1
    <3>8. ASSUME s \in coll_past PROVE s < local_clock'[q]
      <4>1. s \in Nat /\ s < coll_max
        BY <3>1, <3>4, <3>8
      <4> QED
        BY <3>1, <3>5, <4>1
    <3> QED
      BY <3>3, <3>6, <3>7, <3>8
  <2>2. CASE q # r
    BY <1>2, <1>3, <2>2 DEF TypeOK, ClockInv, Above
  <2> QED
    BY <2>1, <2>2
<1>4. \A q \in Rank : pc'[q] = "Reduced" =>
        q # r /\ pc[q] = "Reduced" /\ local_clock'[q] = local_clock[q]
  BY <1>2 DEF TypeOK
<1> QED
  BY <1>2, <1>3, <1>4 DEF ClockInv, Above

LEMMA AllreduceClock == ASSUME TypeOK, ClockInv, Allreduce PROVE ClockInv'
<1>1. PICK q \in Rank :
        /\ \A r \in Rank : local_clock[r] <= local_clock[q]
        /\ coll_max' = local_clock[q]
  BY DEF Allreduce
<1>2. ASSUME NEW s \in coll_past' PROVE s < coll_max'
  <2>1. PICK r \in Rank : s \in past[r]
    BY <1>2 DEF Allreduce
  <2>2. s < local_clock[r] /\ local_clock[r] <= local_clock[q]
    BY <1>1, <2>1 DEF ClockInv, Above
  <2>3. s \in Nat /\ local_clock[r] \in Nat /\ local_clock[q] \in Nat
    BY <2>1 DEF TypeOK
  <2> QED
    BY <1>1, <2>2, <2>3
<1> QED
  BY <1>1, <1>2 DEF Allreduce, ClockInv, Above, clmpiVars, mpiVars

LEMMA StepClock == TypeOK /\ ClockInv /\ [Next]_vars => ClockInv'
<1> SUFFICES ASSUME TypeOK, ClockInv, [Next]_vars PROVE ClockInv'
  OBVIOUS
<1> USE DEF Goto
<1>1. ASSUME NEW r \in Rank, NEW d \in Rank, MPI_Send(r, d) \/ MPI_Sendrecv(r, d)
      PROVE  ClockInv'
  <2>1. \A m \in net' : Above(m.past, m.pb)
    BY <1>1, ShipAbove DEF MPI_Send, MPI_Sendrecv
  <2>2. \A q \in Rank : pc'[q] = "Reduced" => pc[q] = "Reduced"
    BY <1>1 DEF MPI_Send, MPI_Sendrecv, TypeOK
  <2> QED
    BY <1>1, <2>1, <2>2
       DEF MPI_Send, MPI_Sendrecv, ClockInv, clmpiVars, histVars
<1>2. ASSUME NEW r \in Rank, NEW d \in Rank, MPI_Isend(r, d)
      PROVE  ClockInv'
  <2>1. \A m \in net' : Above(m.past, m.pb)
    BY <1>2, ShipAbove DEF MPI_Isend
  <2>2. \A q \in Rank : Above(past'[q], local_clock'[q])
    BY <1>2, TickAfterSendAbove DEF MPI_Isend
  <2>3. \A q \in Rank : pc[q] = "Reduced" => local_clock'[q] = local_clock[q]
    BY <1>2 DEF MPI_Isend, Calls, TickAfterSend, TypeOK
  <2> QED
    BY <1>2, <2>1, <2>2, <2>3 DEF MPI_Isend, ClockInv, ctlVars
<1>3. ASSUME NEW r \in Rank, MPI_Irecv(r) \/ ClockControl(r)
                               \/ \E n \in 1..MaxCount : RegisterRecvClocks(r, n)
      PROVE  ClockInv'
  BY <1>3 DEF MPI_Irecv, ClockControl, RegisterRecvClocks, ClockInv,
              mpiVars, ctlVars, histVars
<1>4. ASSUME NEW r \in Rank, MPI_Recv(r) \/ SendrecvReceives(r)
      PROVE  ClockInv'
  BY <1>4, ReceivesClock DEF MPI_Recv, SendrecvReceives, BlockingOps
<1>5. ASSUME NEW r \in Rank, SendReturns(r)
      PROVE  ClockInv'
  <2>1. \A q \in Rank : Above(past'[q], local_clock'[q])
    BY <1>5, TickAfterSendAbove DEF SendReturns
  <2>2. \A q \in Rank : pc'[q] = "Reduced" =>
          pc[q] = "Reduced" /\ local_clock'[q] = local_clock[q]
    BY <1>5 DEF SendReturns, TickAfterSend, TypeOK
  <2> QED
    BY <1>5, <2>1, <2>2 DEF SendReturns, ClockInv, mpiVars
<1>6. ASSUME NEW r \in Rank, SyncSend(r)
      PROVE  ClockInv'
  <2>1. \A q \in Rank : \A k \in DOMAIN todo'[q] :
          todo'[q][k].msg # NoMessage =>
            Above(todo'[q][k].msg.past, todo'[q][k].msg.pb)
    BY <1>6, PopClock DEF SyncSend, InLoop
  <2> QED
    BY <1>6, <2>1 DEF SyncSend, ClockInv, mpiVars, histVars
<1>7. ASSUME NEW r \in Rank, LoopExits(r) \/ CollectiveSync(r)
      PROVE  ClockInv'
  BY <1>7 DEF LoopExits, CollectiveSync, ClockInv, TypeOK,
              clmpiVars, mpiVars, histVars
<1>8. ASSUME NEW r \in Rank, Returns(r)
      PROVE  ClockInv'
  BY <1>8 DEF Returns, ClockInv, TypeOK, mpiVars
<1>9. ASSUME NEW r \in Rank, NEW c \in ClientClock, SyncClock(r, c)
      PROVE  ClockInv'
  <2>1. ASSUME NEW q \in Rank PROVE Above(past[q], local_clock'[q])
    <3>1. Above(past[q], local_clock[q])
      BY DEF ClockInv
    <3>2. c \in Nat /\ Above({}, c)
      BY ClientAssumption DEF Above
    <3>3. Above(past[r], Merged(r, c))
      BY <3>2, MergedAbove DEF ClockInv
    <3>4. local_clock'[q] = IF q = r THEN Merged(r, c) ELSE local_clock[q]
      BY <1>9 DEF SyncClock, TypeOK
    <3> QED
      BY <3>1, <3>3, <3>4
  <2>2. \A q \in Rank : pc[q] = "Reduced" => local_clock'[q] = local_clock[q]
    BY <1>9 DEF SyncClock, Calls, TypeOK
  <2> QED
    BY <1>9, <2>1, <2>2 DEF SyncClock, ClockInv, mpiVars, ctlVars, histVars
<1>10. ASSUME NEW r \in Rank, NEW c \in ClientClock, SetPbClock(r, c)
       PROVE  ClockInv'
  <2>1. ASSUME NEW q \in Rank, NEW s \in past[q] PROVE s < local_clock'[q]
    <3>1. s < local_clock[q] /\ s \in Nat /\ local_clock[q] \in Nat /\ c \in Nat
      BY <2>1, ClientAssumption DEF ClockInv, Above, TypeOK
    <3>2. local_clock'[q] = local_clock[q] \/ (local_clock'[q] = c /\ local_clock[q] < c)
      BY <1>10 DEF SetPbClock, TypeOK
    <3> QED
      BY <3>1, <3>2
  <2>2. \A q \in Rank : pc[q] = "Reduced" => local_clock'[q] = local_clock[q]
    BY <1>10 DEF SetPbClock, Calls, TypeOK
  <2> QED
    BY <1>10, <2>1, <2>2 DEF SetPbClock, ClockInv, Above, mpiVars, ctlVars, histVars
<1>11. CASE UNCHANGED vars
  BY <1>11 DEF ClockInv, vars, clmpiVars, mpiVars, ctlVars, histVars
<1> QED
  BY <1>1, <1>2, <1>3, <1>4, <1>5, <1>6, <1>7, <1>8, <1>9, <1>10, <1>11,
     CompletesClock, SyncRecvClock, CollectiveReturnsClock, AllreduceClock
     DEF Next, Continues

(* Lamport's condition holds of the shipped clocks for every number of     *)
(* ranks and messages: whatever order the wrappers of clmpi.cpp run in,    *)
(* and whether the clocks are switched on or off on the way, a message     *)
(* carries a larger clock than every send and collective it depends on.    *)
THEOREM ClockConditionHolds == Spec => []ClockCondition
<1>1. Init => TypeOK /\ ClockInv
  BY InitType, InitClock
<1>2. TypeOK /\ ClockInv /\ [Next]_vars => (TypeOK /\ ClockInv)'
  BY StepType, StepClock
<1> QED
  BY <1>1, <1>2, ClockInvImplies, PTL DEF Spec
================================================================================
