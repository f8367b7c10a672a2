------------------------------ MODULE PbmpiProofs ------------------------------
(***************************************************************************)
(* Proofs about PBMPI, for every number of ranks, handles and messages and *)
(* every bound: received values reach the tool at the right places, the    *)
(* tool's memory is its own once a call has returned, and the two request  *)
(* maps never fail the wrappers.                                           *)
(***************************************************************************)
EXTENDS Pbmpi, FiniteSetTheorems, SequenceTheorems, TLAPS

--------------------------------------------------------------------------------
(* The completion wrappers *)

(* A finite function on 1..n is a sequence of length n. *)
LEMMA FunctionIsSeq ==
  ASSUME NEW S, NEW n \in Nat, NEW f \in [1..n -> S]
  PROVE  f \in Seq(S) /\ Len(f) = n /\ DOMAIN f = 1..n
  OBVIOUS

LEMMA SeqsOfType ==
  ASSUME NEW S, NEW n \in Nat, NEW q \in SeqsOf(S, n)
  PROVE  q \in Seq(S) /\ Len(q) \in 0..n /\ DOMAIN q = 1..Len(q)
<1>1. PICK k \in 0..n : q \in [1..k -> S]
  BY DEF SeqsOf
<1> QED
  BY <1>1, FunctionIsSeq

(* The k-th of increasing positive numbers is at least k. *)
LEMMA IncreasingAtLeast ==
  ASSUME NEW n \in Nat, NEW f \in Seq(1..n), Increasing(f), NEW k \in DOMAIN f
  PROVE  k <= f[k]
<1>1. DOMAIN f = 1..Len(f) /\ Len(f) \in Nat /\ k \in 1..Len(f)
  OBVIOUS
<1>2. f[k] \in Nat \ {0}
  BY <1>1
<1> DEFINE g == [i \in 1..k |-> f[i]]
<1>3. ASSUME NEW i \in 1..k
      PROVE  g[i] \in 1..f[k] /\ i \in DOMAIN f
  <2>1. i \in DOMAIN f /\ f[i] \in 1..n /\ i <= k
    BY <1>1
  <2>2. f[i] <= f[k]
    BY <1>1, <1>2, <2>1, SMTT(20) DEF Increasing
  <2> QED
    BY <1>2, <2>1, <2>2
<1>4. ASSUME NEW i \in 1..k, NEW j \in 1..k, g[i] = g[j]
      PROVE  i = j
  <2>1. i \in DOMAIN f /\ j \in DOMAIN f /\ f[i] = f[j] /\ f[i] \in Nat
    BY <1>1, <1>3, <1>4
  <2>2. i \in Nat /\ j \in Nat
    BY <1>1
  <2> QED
    BY <2>1, <2>2 DEF Increasing
<1>5. g \in Injection(1..k, 1..f[k])
  BY <1>3, <1>4 DEF Injection, IsInjective
<1>6. /\ IsFiniteSet(1..k) /\ IsFiniteSet(1..f[k])
      /\ Cardinality(1..k) = k /\ Cardinality(1..f[k]) = f[k]
  <2>1. ASSUME NEW l \in Nat \ {0}
        PROVE  IsFiniteSet(1..l) /\ Cardinality(1..l) = l
    <3>1. 1 \in Int /\ l \in Int /\ ~ (1 > l) /\ l - 1 + 1 = l
      OBVIOUS
    <3> QED
      BY <3>1, FS_Interval
  <2>2. k \in Nat \ {0}
    BY <1>1
  <2> QED
    BY <1>2, <2>1, <2>2
<1>7. Cardinality(1..k) <= Cardinality(1..f[k])
  BY <1>5, <1>6, FS_Injection
<1> QED
  BY <1>6, <1>7

(* What the application and PMPI hand to a completion wrapper: an array    *)
(* whose pending requests are different, and the indices of the completed  *)
(* ones in the order of the array.                                         *)
Served(r, a, done, n) ==
  /\ a \in Seq(Handle \union {NULL}) /\ Len(a) \in 1..MaxCount
  /\ done \in Seq(1..Len(a)) /\ Len(done) \in 0..MaxCount /\ Increasing(done)
  /\ \A i, j \in Live(a) : a[i] = a[j] => i = j
  /\ \A k \in DOMAIN done : done[k] \in Live(a) /\ a[done[k]] \in Pending(r)
  /\ n \in 1..MaxCount

(* The array of MPI_Waitall and MPI_Testall, and the call completing all.  *)
LEMMA ArraysFull ==
  ASSUME NEW r \in Rank, NEW a \in Arrays(r), NEW done \in {<<>>, AllOf(a)}
  PROVE  Served(r, a, done, Len(a))
<1>1. a \in SeqsOf(Pending(r), MaxCount) /\ a # <<>> /\ Injective(a)
  BY DEF Arrays
<1>2. a \in Seq(Pending(r)) /\ Len(a) \in 0..MaxCount /\ DOMAIN a = 1..Len(a)
  BY <1>1, SeqsOfType, PbmpiAssumption
<1>3. Len(a) \in 1..MaxCount /\ Len(a) \in Nat
  BY <1>1, <1>2, PbmpiAssumption
<1>4. a \in Seq(Handle \union {NULL})
  BY <1>2 DEF Pending
<1>5. Live(a) = DOMAIN a /\ \A i \in DOMAIN a : a[i] \in Pending(r)
  BY <1>2, PbmpiAssumption DEF Live, Pending
<1>6. done \in Seq(1..Len(a)) /\ Len(done) \in 0..MaxCount
      /\ \A k \in DOMAIN done : done[k] = k /\ k \in DOMAIN a
  <2>1. CASE done = <<>>
    BY <2>1, PbmpiAssumption
  <2>2. CASE done = AllOf(a)
    <3>1. done \in [1..Len(a) -> 1..Len(a)]
      BY <1>2, <2>2 DEF AllOf
    <3>2. done \in Seq(1..Len(a)) /\ Len(done) = Len(a) /\ DOMAIN done = 1..Len(a)
      BY <1>3, <3>1, FunctionIsSeq
    <3> QED
      BY <1>2, <2>2, <3>2 DEF AllOf
  <2> QED
    BY <2>1, <2>2
<1>7. Increasing(done)
  BY <1>6 DEF Increasing
<1> QED
  BY <1>1, <1>3, <1>4, <1>5, <1>6, <1>7 DEF Served, Injective

(* The array of the wrappers over several requests, which has gaps. *)
LEMMA GappedType ==
  ASSUME NEW r \in Rank, NEW a \in GappedArrays(r)
  PROVE  /\ a \in Seq(Handle \union {NULL}) /\ Len(a) \in 1..MaxCount
         /\ Live(a) \subseteq 1..Len(a) /\ Live(a) # {}
         /\ \A i \in Live(a) : a[i] \in Pending(r)
         /\ \A i, j \in Live(a) : a[i] = a[j] => i = j
<1>1. /\ a \in SeqsOf(Pending(r) \union {NULL}, MaxCount)
      /\ Live(a) # {} /\ \A i, j \in Live(a) : a[i] = a[j] => i = j
  BY DEF GappedArrays
<1>2. MaxCount \in Nat
  BY PbmpiAssumption
<1>3. a \in Seq(Pending(r) \union {NULL}) /\ Len(a) \in 0..MaxCount /\ DOMAIN a = 1..Len(a)
  BY <1>1, <1>2, SeqsOfType
<1>4. a \in Seq(Handle \union {NULL})
  BY <1>3 DEF Pending
<1>5. Live(a) \subseteq 1..Len(a)
  BY <1>3 DEF Live
<1>6. ASSUME NEW i \in Live(a) PROVE a[i] \in Pending(r)
  BY <1>3, <1>5 DEF Live
<1>7. Len(a) \in 1..MaxCount
  BY <1>1, <1>2, <1>3, <1>5
<1> QED
  BY <1>1, <1>4, <1>5, <1>6, <1>7

LEMMA ArraysGapped ==
  ASSUME NEW r \in Rank, NEW a \in GappedArrays(r), NEW done,
         done \in SomeOf(a) \/ done \in OneOf(a) \/ done = <<>>,
         NEW n, n = 1 \/ n = Len(a)
  PROVE  Served(r, a, done, n)
<1>1. MaxCount \in Nat \ {0}
  BY PbmpiAssumption
<1>2. done \in Seq(Live(a)) /\ Len(done) \in 0..MaxCount /\ Increasing(done)
  <2>1. CASE done \in SomeOf(a)
    BY <1>1, <2>1, SeqsOfType DEF SomeOf
  <2>2. CASE done \in OneOf(a)
    <3>1. PICK i \in Live(a) : done = <<i>>
      BY <2>2 DEF OneOf
    <3> QED
      BY <1>1, <3>1 DEF Increasing
  <2>3. CASE done = <<>>
    BY <1>1, <2>3 DEF Increasing
  <2> QED
    BY <2>1, <2>2, <2>3
<1>3. done \in Seq(1..Len(a)) /\ \A k \in DOMAIN done : done[k] \in Live(a)
  BY <1>2, GappedType
<1>4. n \in 1..MaxCount
  BY <1>1, GappedType
<1> QED
  BY <1>2, <1>3, <1>4, GappedType DEF Served

(* The array of MPI_Wait and MPI_Test. *)
LEMMA ArraysSingle ==
  ASSUME NEW r \in Rank, NEW h \in Pending(r), NEW done \in {<<>>, << 1 >>}
  PROVE  Served(r, <<h>>, done, 1)
<1>1. h \in Handle /\ h # NULL /\ 1 \in 1..MaxCount
  BY PbmpiAssumption DEF Pending
<1>2. done \in Seq(1..1) /\ Len(done) \in 0..MaxCount /\ Increasing(done)
      /\ \A k \in DOMAIN done : done[k] = 1
  <2>1. CASE done = <<>>
    BY <2>1, PbmpiAssumption DEF Increasing
  <2>2. CASE done = <<1>>
    BY <2>2, PbmpiAssumption DEF Increasing
  <2> QED
    BY <2>1, <2>2
<1>3. <<h>> \in Seq(Handle \union {NULL}) /\ Len(<<h>>) = 1 /\ Live(<<h>>) = {1} /\ <<h>>[1] = h
  BY <1>1 DEF Live
<1> QED
  BY <1>1, <1>2, <1>3 DEF Served

(* Every completion wrapper is called as Served says. *)
LEMMA CompletesServed ==
  ASSUME NEW r \in Rank, Completes(r)
  PROVE  \E op \in CompletionOps : \E a, done, n :
           Served(r, a, done, n) /\ Complete(r, op, a, done, n)
<1> USE DEF CompletionOps, WaitOps, TestOps
<1>1. CASE MPI_Wait(r)
  <2>1. PICK h \in Pending(r) : Complete(r, "Wait", <<h>>, <<1>>, 1)
    BY <1>1 DEF MPI_Wait
  <2>2. Served(r, <<h>>, <<1>>, 1)
    BY ArraysSingle
  <2> QED
    BY <2>1, <2>2
<1>2. CASE MPI_Test(r)
  <2>1. PICK h \in Pending(r), done \in {<<>>, <<1>>} : Complete(r, "Test", <<h>>, done, 1)
    BY <1>2 DEF MPI_Test
  <2>2. Served(r, <<h>>, done, 1)
    BY ArraysSingle
  <2> QED
    BY <2>1, <2>2
<1>3. CASE MPI_Waitall(r)
  <2>1. PICK a \in Arrays(r) : Complete(r, "Waitall", a, AllOf(a), Len(a))
    BY <1>3 DEF MPI_Waitall
  <2>2. Served(r, a, AllOf(a), Len(a))
    BY ArraysFull
  <2> QED
    BY <2>1, <2>2
<1>4. CASE MPI_Testall(r)
  <2>1. PICK a \in Arrays(r) : \E done \in {<<>>, AllOf(a)} :
          Complete(r, "Testall", a, done, Len(a))
    BY <1>4 DEF MPI_Testall
  <2>2. PICK done \in {<<>>, AllOf(a)} : Complete(r, "Testall", a, done, Len(a))
    BY <2>1
  <2>3. Served(r, a, done, Len(a))
    BY ArraysFull
  <2> QED
    BY <2>2, <2>3
<1>5. ASSUME NEW op \in CompletionOps, NEW a \in GappedArrays(r),
             NEW done, done \in SomeOf(a) \/ done \in OneOf(a) \/ done = <<>>,
             NEW n, n = 1 \/ n = Len(a),
             Complete(r, op, a, done, n)
      PROVE  \E p \in CompletionOps : \E b, d, l : Served(r, b, d, l) /\ Complete(r, p, b, d, l)
  <2>1. Served(r, a, done, n)
    BY <1>5, ArraysGapped
  <2> QED
    BY <1>5, <2>1
<1>6. CASE MPI_Waitany(r)
  BY <1>5, <1>6 DEF MPI_Waitany
<1>7. CASE MPI_Waitsome(r)
  BY <1>5, <1>7 DEF MPI_Waitsome
<1>8. CASE MPI_Testany(r)
  BY <1>5, <1>8 DEF MPI_Testany
<1>9. CASE MPI_Testsome(r)
  BY <1>5, <1>9 DEF MPI_Testsome
<1> QED
  BY <1>1, <1>2, <1>3, <1>4, <1>6, <1>7, <1>8, <1>9 DEF Completes
--------------------------------------------------------------------------------
(* Types *)

LEMMA InitType == Init => TypeOK
<1> SUFFICES ASSUME Init PROVE TypeOK
  OBVIOUS
<1>1. todo \in [Rank -> Seq(Status)] /\ count \in [Rank -> 0..MaxCount]
      /\ nsent \in [Rank -> 0..MaxSend]
  BY PbmpiAssumption DEF Init
<1> QED
  BY <1>1 DEF Init, TypeOK

(* The head of todo is a status, and its tail is a sequence of statuses. *)
LEMMA HeadOfTodo ==
  ASSUME TypeOK, NEW r \in Rank, InLoop(r)
  PROVE  Head(todo[r]) \in Status /\ Tail(todo[r]) \in Seq(Status)
<1>1. todo[r] \in Seq(Status) /\ todo[r] # <<>>
  BY DEF TypeOK, InLoop
<1> QED
  BY <1>1

LEMMA OutgoingType ==
  ASSUME TypeOK, NEW r \in Rank, NEW d \in Rank, CanSend(r, d)
  PROVE  net \union {Outgoing(r, d)} \in SUBSET Message
         /\ [nsent EXCEPT ![r] = @ + 1] \in [Rank -> 0..MaxSend]
<1>1. nsent[r] \in Nat /\ nsent[r] + 1 \in 0..MaxSend
  BY PbmpiAssumption DEF TypeOK, CanSend
<1>2. Outgoing(r, d) \in Message
  BY <1>1 DEF TypeOK, Outgoing, Message
<1> QED
  BY <1>1, <1>2 DEF TypeOK

(* The clock of a message fits into the buffer. *)
LEMMA SyncClockAtType ==
  ASSUME TypeOK, NEW r \in Rank, NEW n, NEW i \in 1..MaxCount, NEW m \in Message,
         SyncClockAt(r, n, i, m)
  PROVE  buff' \in [Rank -> [1..MaxCount -> Value \union {Cleared, SendReqClock, Unset}]]
<1>1. m.pb \in Value \union {Unset}
  BY DEF Message
<1> QED
  BY <1>1 DEF SyncClockAt, TypeOK

(* Statuses of a completion call: of different handles of the array, in    *)
(* the order of the array, a message for the receives and none for the     *)
(* sends.                                                                  *)
LEMMA CompleteTodo ==
  ASSUME TypeOK, NEW r \in Rank, NEW op, NEW a, NEW done, NEW n,
         Served(r, a, done, n), Complete(r, op, a, done, n)
  PROVE  /\ todo'[r] \in Seq(Status)
         /\ todo' = [todo EXCEPT ![r] = todo'[r]]
         /\ DOMAIN todo'[r] = DOMAIN done
         /\ \A k \in DOMAIN done :
              /\ todo'[r][k].slot = k
              /\ todo'[r][k].idx = done[k] /\ k <= done[k]
              /\ todo'[r][k].h = a[done[k]]
              /\ a[done[k]] \in Pending(r)
              /\ (todo'[r][k].msg = NoMessage) <=> (req[r][a[done[k]]] = "send")
         /\ \A k, l \in DOMAIN done : a[done[k]] = a[done[l]] => k = l
<1>1. PICK got \in Deliveries(r, a, done) :
        todo' = [todo EXCEPT ![r] = [k \in DOMAIN done |->
             [slot |-> k, idx |-> done[k], h |-> a[done[k]], msg |-> got[k]]]]
  BY DEF Complete
<1>2. todo'[r] = [k \in DOMAIN done |->
             [slot |-> k, idx |-> done[k], h |-> a[done[k]], msg |-> got[k]]]
  BY <1>1 DEF TypeOK
<1>3. /\ DOMAIN done = 1..Len(done) /\ Len(done) \in Nat /\ Len(done) \in 0..MaxCount
      /\ Len(a) \in 1..MaxCount /\ MaxCount \in Nat
      /\ done \in Seq(1..Len(a))
  BY PbmpiAssumption DEF Served
<1>4. \A k \in DOMAIN done : done[k] \in Live(a) /\ a[done[k]] \in Pending(r)
  BY DEF Served
<1>5. \A k \in DOMAIN done :
        /\ got[k] \in net \union {NoMessage}
        /\ (got[k] = NoMessage) <=> (req[r][a[done[k]]] = "send")
  BY DEF Deliveries
<1>6. ASSUME NEW k \in 1..Len(done)
      PROVE  [slot |-> k, idx |-> done[k], h |-> a[done[k]], msg |-> got[k]] \in Status
  <2>1. k \in 1..MaxCount /\ done[k] \in 1..MaxCount
    BY <1>3
  <2>2. a[done[k]] \in Handle
    BY <1>3, <1>4 DEF Pending
  <2>3. got[k] \in Message \union {NoMessage}
    BY <1>3, <1>5 DEF TypeOK
  <2> QED
    BY <2>1, <2>2, <2>3 DEF Status
<1>7. todo'[r] \in Seq(Status) /\ DOMAIN todo'[r] = DOMAIN done
  <2>1. todo'[r] \in [1..Len(done) -> Status]
    BY <1>2, <1>3, <1>6
  <2> QED
    BY <1>3, <2>1, FunctionIsSeq
<1>8. \A k, l \in DOMAIN done : done[k] = done[l] => k = l
  <2>1. \A k \in DOMAIN done : k \in Nat /\ done[k] \in Nat
    BY <1>3
  <2> QED
    BY <2>1 DEF Served, Increasing
<1>9. \A k, l \in DOMAIN done : a[done[k]] = a[done[l]] => k = l
  BY <1>4, <1>8 DEF Served
<1>10. \A k \in DOMAIN done : k <= done[k]
  BY <1>3, IncreasingAtLeast DEF Served
<1>11. todo' = [todo EXCEPT ![r] = todo'[r]]
  BY <1>1, <1>2
<1> QED
  BY <1>2, <1>4, <1>5, <1>7, <1>9, <1>10, <1>11

LEMMA CompleteType ==
  ASSUME TypeOK, NEW r \in Rank, NEW op \in CompletionOps, NEW a, NEW done, NEW n,
         Served(r, a, done, n), Complete(r, op, a, done, n)
  PROVE  TypeOK'
<1>1. todo' \in [Rank -> Seq(Status)]
  <2>1. todo'[r] \in Seq(Status) /\ todo' = [todo EXCEPT ![r] = todo'[r]]
    BY CompleteTodo
  <2>2. todo \in [Rank -> Seq(Status)]
    BY DEF TypeOK
  <2> QED
    BY <2>1, <2>2
<1>2. net' \subseteq Message /\ failed' \in [Rank -> BOOLEAN]
  BY DEF Complete, TypeOK
<1>3. req' \in [Rank -> [Handle -> {"none", "send", "recv"}]]
  BY DEF Complete, TypeOK
<1>4. pc' \in [Rank -> CompletionOps \union {"Idle", "Sendrecv", "Exited"}]
  BY DEF Complete, TypeOK
<1>5. count' \in [Rank -> 0..MaxCount]
  <2>1. n \in 0..MaxCount
    BY PbmpiAssumption DEF Served
  <2> QED
    BY <2>1 DEF Complete, TypeOK
<1>6. UNCHANGED <<statics, nsent>>
  BY DEF Complete
<1> QED
  BY <1>1, <1>2, <1>3, <1>4, <1>5, <1>6 DEF TypeOK, statics

(* The two calls that receive without a request. *)
LEMMA ReceivesType ==
  ASSUME TypeOK, NEW r \in Rank, MPI_Recv(r) \/ SendrecvReturns(r)
  PROVE  TypeOK'
<1>1. PICK m \in net : net' = net \ {m} /\ (SyncClockAt(r, 1, 1, m) \/ UNCHANGED buff)
  BY DEF MPI_Recv, SendrecvReturns
<1>2. m \in Message /\ 1 \in 1..MaxCount
  BY PbmpiAssumption DEF TypeOK
<1>3. buff' \in [Rank -> [1..MaxCount -> Value \union {Cleared, SendReqClock, Unset}]]
  <2>1. CASE SyncClockAt(r, 1, 1, m)
    BY <1>2, <2>1, SyncClockAtType
  <2>2. CASE UNCHANGED buff
    BY <2>2 DEF TypeOK
  <2> QED
    BY <1>1, <2>1, <2>2
<1>4. pc' \in [Rank -> CompletionOps \union {"Idle", "Sendrecv", "Exited"}]
  BY DEF MPI_Recv, SendrecvReturns, TypeOK, ctlVars
<1>5. UNCHANGED <<pb_outbuffer, registered_buff_length, irecv_request_map,
                  request_to_local_clock, req, nsent, count, failed, todo>>
  BY DEF MPI_Recv, SendrecvReturns, ctlVars
<1> QED
  BY <1>1, <1>3, <1>4, <1>5 DEF TypeOK

LEMMA SyncRecvType ==
  ASSUME TypeOK, NEW r \in Rank, SyncRecv(r)
  PROVE  TypeOK'
<1> DEFINE s == Head(todo[r])
<1>1. s \in Status /\ Tail(todo[r]) \in Seq(Status)
  BY HeadOfTodo DEF SyncRecv
<1>2. s.msg # NoMessage /\ s.msg \in Message /\ s.slot \in 1..MaxCount
  BY <1>1 DEF SyncRecv, Status
<1>3. SyncClockAt(r, count[r], s.slot, s.msg) \/ UNCHANGED buff
  BY DEF SyncRecv
<1>4. buff' \in [Rank -> [1..MaxCount -> Value \union {Cleared, SendReqClock, Unset}]]
  <2>1. CASE SyncClockAt(r, count[r], s.slot, s.msg)
    <3> HIDE DEF s
    <3> QED
      BY <1>2, <2>1, SyncClockAtType
  <2>2. CASE UNCHANGED buff
    BY <2>2 DEF TypeOK
  <2> QED
    BY <1>3, <2>1, <2>2
<1>5. todo' \in [Rank -> Seq(Status)]
  BY <1>1 DEF SyncRecv, NextStatus, TypeOK
<1>6. irecv_request_map' \in [Rank -> SUBSET Handle]
  BY DEF SyncRecv, TypeOK
<1>7. UNCHANGED <<pb_outbuffer, registered_buff_length, request_to_local_clock,
                  mpiVars, pc, count, failed>>
  BY DEF SyncRecv
<1> QED
  BY <1>4, <1>5, <1>6, <1>7 DEF TypeOK, mpiVars

LEMMA SyncSendType ==
  ASSUME TypeOK, NEW r \in Rank, SyncSend(r)
  PROVE  TypeOK'
<1>1. Tail(todo[r]) \in Seq(Status)
  BY HeadOfTodo DEF SyncSend
<1>2. buff' \in [Rank -> [1..MaxCount -> Value \union {Cleared, SendReqClock, Unset}]]
  BY DEF SyncSend, TypeOK
<1>3. todo' \in [Rank -> Seq(Status)]
  BY <1>1 DEF SyncSend, NextStatus, TypeOK
<1>4. request_to_local_clock' \in [Rank -> SUBSET Handle]
  BY DEF SyncSend, TypeOK
<1>5. UNCHANGED <<pb_outbuffer, registered_buff_length, irecv_request_map,
                  mpiVars, pc, count, failed>>
  BY DEF SyncSend
<1> QED
  BY <1>2, <1>3, <1>4, <1>5 DEF TypeOK, mpiVars

LEMMA StepType == TypeOK /\ [Next]_vars => TypeOK'
<1> SUFFICES ASSUME TypeOK, [Next]_vars PROVE TypeOK'
  OBVIOUS
<1>1. ASSUME NEW r \in Rank, NEW v \in Value, SetSendPbdata(r, v)
      PROVE  TypeOK'
  BY <1>1 DEF SetSendPbdata, TypeOK, mpiVars, ctlVars
<1>2. ASSUME NEW r \in Rank, NEW n \in 1..MaxCount, SetRecvPbdata(r, n)
      PROVE  TypeOK'
  BY <1>2 DEF SetRecvPbdata, TypeOK, mpiVars, ctlVars
<1>3. ASSUME NEW r \in Rank, NEW d \in Rank, MPI_Send(r, d)
      PROVE  TypeOK'
  BY <1>3, OutgoingType DEF MPI_Send, TypeOK, statics, ctlVars
<1>4. ASSUME NEW r \in Rank, NEW d \in Rank, MPI_Isend(r, d)
      PROVE  TypeOK'
  <2>1. req' \in [Rank -> [Handle -> {"none", "send", "recv"}]]
    BY <1>4 DEF MPI_Isend, TypeOK
  <2>2. request_to_local_clock' \in [Rank -> SUBSET Handle]
    BY <1>4 DEF MPI_Isend, TypeOK
  <2>3. net' \in SUBSET Message /\ nsent' \in [Rank -> 0..MaxSend]
    BY <1>4, OutgoingType DEF MPI_Isend
  <2>4. UNCHANGED <<pb_outbuffer, registered_buff_length, buff, irecv_request_map, ctlVars>>
    BY <1>4 DEF MPI_Isend
  <2> QED
    BY <2>1, <2>2, <2>3, <2>4 DEF TypeOK, ctlVars
<1>5. ASSUME NEW r \in Rank, NEW d \in Rank, MPI_Sendrecv(r, d)
      PROVE  TypeOK'
  BY <1>5, OutgoingType DEF MPI_Sendrecv, TypeOK, statics
<1>6. ASSUME NEW r \in Rank, MPI_Irecv(r)
      PROVE  TypeOK'
  <2>1. req' \in [Rank -> [Handle -> {"none", "send", "recv"}]]
    BY <1>6 DEF MPI_Irecv, TypeOK
  <2>2. irecv_request_map' \in [Rank -> SUBSET Handle]
    BY <1>6 DEF MPI_Irecv, TypeOK
  <2> QED
    BY <1>6, <2>1, <2>2 DEF MPI_Irecv, TypeOK, ctlVars
<1>7. ASSUME NEW r \in Rank, Completes(r)
      PROVE  TypeOK'
  BY <1>7, CompletesServed, CompleteType
<1>8. ASSUME NEW r \in Rank, LoopExits(r)
      PROVE  TypeOK'
  BY <1>8 DEF LoopExits, TypeOK, statics, mpiVars
<1>9. ASSUME NEW r \in Rank, Returns(r)
      PROVE  TypeOK'
  BY <1>9, PbmpiAssumption DEF Returns, TypeOK, mpiVars
<1>10. CASE UNCHANGED vars
  BY <1>10 DEF TypeOK, vars, statics, mpiVars, ctlVars
<1> QED
  BY <1>1, <1>2, <1>3, <1>4, <1>5, <1>6, <1>7, <1>8, <1>9, <1>10,
     ReceivesType, SyncRecvType, SyncSendType DEF Next

(* The statics of pbmpi.cpp and MPI's requests keep their types, whatever  *)
(* the number of ranks, requests and messages; the buffer holds values     *)
(* that were sent, marks of sends, or what the tool cleared it with.       *)
THEOREM PbmpiTypeCorrect == Spec => []TypeOK
<1> QED
  BY InitType, StepType, PTL DEF Spec
--------------------------------------------------------------------------------
(* The two sets of handles *)

(* The statuses a loop has yet to reach are of different requests, which   *)
(* MPI has completed; only a rank in a completion wrapper has any.         *)
TodoInv ==
  \A r \in Rank :
    /\ todo[r] # <<>> => pc[r] \in CompletionOps \union {"Exited"}
    /\ \A k, l \in DOMAIN todo[r] : todo[r][k].h = todo[r][l].h => k = l
    /\ \A k \in DOMAIN todo[r] : req[r][todo[r][k].h] = "none"

(* A completed send that the loop has yet to reach has not been dropped.   *)
SendsKnown ==
  \A r \in Rank : \A k \in DOMAIN todo[r] :
    todo[r][k].msg = NoMessage => todo[r][k].h \in request_to_local_clock[r]

HandleInv == TodoInv /\ SendsKnown /\ SendsNeverMissed /\ AbortsForWantOfBuffer

LEMMA InitHandle == Init => HandleInv
  BY DEF Init, HandleInv, TodoInv, SendsKnown, SendsNeverMissed, AbortsForWantOfBuffer

(* Steps that leave requests, statuses and maps alone. *)
LEMMA QuietHandle ==
  ASSUME TypeOK, HandleInv, UNCHANGED <<todo, req, request_to_local_clock>>,
         \A r \in Rank :
           \/ pc'[r] = pc[r] /\ registered_buff_length'[r] = registered_buff_length[r]
           \/ pc'[r] # "Exited" /\ (todo[r] = <<>> \/ pc'[r] \in CompletionOps)
  PROVE  HandleInv'
<1>1. TodoInv'
  BY DEF HandleInv, TodoInv
<1>2. AbortsForWantOfBuffer'
  BY DEF HandleInv, AbortsForWantOfBuffer
<1> QED
  BY <1>1, <1>2 DEF HandleInv, SendsKnown, SendsNeverMissed

(* Creating a request takes a handle that no status still to be looked at  *)
(* names: only an idle rank creates one.                                   *)
LEMMA CreateHandle ==
  ASSUME TypeOK, HandleInv, NEW r \in Rank, pc[r] = "Idle",
         NEW h \in Handle \ Pending(r), NEW kind \in {"send", "recv"},
         req' = [req EXCEPT ![r][h] = kind],
         request_to_local_clock' =
           [request_to_local_clock EXCEPT ![r] = IF kind = "send" THEN @ \union {h} ELSE @],
         UNCHANGED <<todo, pc, registered_buff_length>>
  PROVE  HandleInv'
<1>1. todo[r] = <<>>
  BY DEF HandleInv, TodoInv, CompletionOps, WaitOps, TestOps
<1>2. \A q \in Rank : q # r => req'[q] = req[q]
                               /\ request_to_local_clock'[q] = request_to_local_clock[q]
  BY DEF TypeOK
<1>3. TodoInv'
  BY <1>1, <1>2 DEF HandleInv, TodoInv
<1>4. SendsKnown'
  BY <1>1, <1>2 DEF HandleInv, SendsKnown
<1>5. SendsNeverMissed'
  <2> SUFFICES ASSUME NEW q \in Rank, NEW g \in Handle, req'[q][g] = "send"
               PROVE  g \in request_to_local_clock'[q]
    BY DEF SendsNeverMissed
  <2>1. CASE q = r /\ g = h
    BY <2>1 DEF TypeOK
  <2>2. CASE ~ (q = r /\ g = h)
    <3>1. req[q][g] = "send"
      BY <2>2 DEF TypeOK
    <3>2. g \in request_to_local_clock[q]
      BY <3>1 DEF HandleInv, SendsNeverMissed
    <3> QED
      BY <3>2 DEF TypeOK
  <2> QED
    BY <2>1, <2>2
<1>6. AbortsForWantOfBuffer'
  BY <1>2 DEF HandleInv, AbortsForWantOfBuffer
<1> QED
  BY <1>3, <1>4, <1>5, <1>6 DEF HandleInv

LEMMA CompleteHandle ==
  ASSUME TypeOK, HandleInv, NEW r \in Rank, NEW op \in CompletionOps,
         NEW a, NEW done, NEW n,
         Served(r, a, done, n), Complete(r, op, a, done, n)
  PROVE  HandleInv'
<1>1. /\ UNCHANGED <<registered_buff_length, request_to_local_clock>>
      /\ pc' = [pc EXCEPT ![r] = op]
  BY DEF Complete, statics
<1>2. pc'[r] = op /\ op # "Exited"
  BY <1>1 DEF TypeOK, CompletionOps, WaitOps, TestOps
<1>3. \A q \in Rank : q # r => req'[q] = req[q] /\ pc'[q] = pc[q] /\ todo'[q] = todo[q]
  <2>1. todo' = [todo EXCEPT ![r] = todo'[r]]
    BY CompleteTodo
  <2> QED
    BY <1>1, <2>1 DEF Complete, TypeOK
<1>4. \A h \in Handle : req'[r][h] =
         IF \E k \in DOMAIN done : a[done[k]] = h THEN "none" ELSE req[r][h]
  BY DEF Complete, TypeOK
<1>5. TodoInv'
  <2> SUFFICES ASSUME NEW q \in Rank
               PROVE  /\ todo'[q] # <<>> => pc'[q] \in CompletionOps \union {"Exited"}
                      /\ \A k, l \in DOMAIN todo'[q] : todo'[q][k].h = todo'[q][l].h => k = l
                      /\ \A k \in DOMAIN todo'[q] : req'[q][todo'[q][k].h] = "none"
    BY DEF TodoInv
  <2>1. CASE q = r
    BY <1>2, <1>4, <2>1, CompleteTodo DEF Pending
  <2>2. CASE q # r
    BY <1>3, <2>2 DEF HandleInv, TodoInv
  <2> QED
    BY <2>1, <2>2
<1>6. SendsKnown'
  <2> SUFFICES ASSUME NEW q \in Rank, NEW k \in DOMAIN todo'[q], todo'[q][k].msg = NoMessage
               PROVE  todo'[q][k].h \in request_to_local_clock[q]
    BY <1>1 DEF SendsKnown
  <2>1. CASE q = r
    BY <2>1, CompleteTodo DEF HandleInv, SendsNeverMissed, Pending
  <2>2. CASE q # r
    BY <1>3, <2>2 DEF HandleInv, SendsKnown
  <2> QED
    BY <2>1, <2>2
<1>7. SendsNeverMissed'
  <2> SUFFICES ASSUME NEW q \in Rank, NEW h \in Handle, req'[q][h] = "send"
               PROVE  h \in request_to_local_clock[q]
    BY <1>1 DEF SendsNeverMissed
  <2>1. req[q][h] = "send"
    BY <1>3, <1>4
  <2> QED
    BY <2>1 DEF HandleInv, SendsNeverMissed
<1>8. AbortsForWantOfBuffer'
  BY <1>1, <1>2, <1>3 DEF HandleInv, AbortsForWantOfBuffer
<1> QED
  BY <1>5, <1>6, <1>7, <1>8 DEF HandleInv

(* What is left of todo when the loop has taken its head. *)
LEMMA PopStatuses ==
  ASSUME TypeOK, NEW r \in Rank, InLoop(r), NextStatus(r)
  PROVE  /\ \A q \in Rank : q # r => todo'[q] = todo[q]
         /\ 1 \in DOMAIN todo[r] /\ Head(todo[r]) = todo[r][1]
         /\ \A k \in DOMAIN todo'[r] :
              k + 1 \in DOMAIN todo[r] /\ k + 1 # 1 /\ todo'[r][k] = todo[r][k + 1]
         /\ \A k \in DOMAIN todo'[r] :
              \E l \in DOMAIN todo[r] : l # 1 /\ todo'[r][k] = todo[r][l]
         /\ \A l \in DOMAIN todo[r] : l # 1 =>
              \E k \in DOMAIN todo'[r] : todo'[r][k] = todo[r][l]
<1>1. todo[r] \in Seq(Status) /\ todo \in [Rank -> Seq(Status)] /\ todo[r] # <<>>
  BY DEF TypeOK, InLoop
<1>2. todo'[r] = Tail(todo[r]) /\ \A q \in Rank : q # r => todo'[q] = todo[q]
  BY <1>1 DEF NextStatus
<1>3. 1 \in DOMAIN todo[r] /\ Head(todo[r]) = todo[r][1]
  BY <1>1
<1>4. /\ Len(Tail(todo[r])) = Len(todo[r]) - 1
      /\ \A i \in 1..Len(Tail(todo[r])) : Tail(todo[r])[i] = todo[r][i + 1]
      /\ Tail(todo[r]) \in Seq(Status)
  BY <1>1, HeadTailProperties
<1>5. /\ Len(todo[r]) \in Nat \ {0}
      /\ DOMAIN todo'[r] = 1..(Len(todo[r]) - 1) /\ DOMAIN todo[r] = 1..Len(todo[r])
  BY <1>1, <1>2, <1>4
<1>6. ASSUME NEW k \in DOMAIN todo'[r]
      PROVE  k + 1 \in DOMAIN todo[r] /\ k + 1 # 1 /\ todo'[r][k] = todo[r][k + 1]
  <2>1. k \in 1..(Len(todo[r]) - 1)
    BY <1>5
  <2>2. k + 1 \in 1..Len(todo[r]) /\ k + 1 # 1
    BY <1>5, <2>1
  <2> QED
    BY <1>2, <1>4, <1>5, <2>1, <2>2
<1>7. ASSUME NEW k \in DOMAIN todo'[r]
      PROVE  \E l \in DOMAIN todo[r] : l # 1 /\ todo'[r][k] = todo[r][l]
  BY <1>6, Zenon
<1>8. ASSUME NEW l \in DOMAIN todo[r], l # 1
      PROVE  \E k \in DOMAIN todo'[r] : todo'[r][k] = todo[r][l]
  <2>1. l - 1 \in DOMAIN todo'[r] /\ (l - 1) + 1 = l
    BY <1>5, <1>8
  <2>2. todo'[r][l - 1] = todo[r][(l - 1) + 1]
    BY <1>6, <2>1, Zenon
  <2> QED
    BY <2>1, <2>2
<1> QED
  BY <1>2, <1>3, <1>6, <1>7, <1>8

(* A loop step drops at most the send whose status it takes. *)
LEMMA PopHandle ==
  ASSUME TypeOK, HandleInv, NEW r \in Rank, InLoop(r), NextStatus(r),
         NEW dropped \in SUBSET {Head(todo[r]).h},
         request_to_local_clock' =
           [request_to_local_clock EXCEPT ![r] = @ \ dropped],
         UNCHANGED <<req, pc, registered_buff_length>>
  PROVE  HandleInv'
<1>1. /\ \A q \in Rank : q # r => todo'[q] = todo[q]
      /\ 1 \in DOMAIN todo[r] /\ Head(todo[r]) = todo[r][1]
      /\ \A k \in DOMAIN todo'[r] :
           \E l \in DOMAIN todo[r] : l # 1 /\ todo'[r][k] = todo[r][l]
      /\ \A k \in DOMAIN todo'[r] :
           k + 1 \in DOMAIN todo[r] /\ k + 1 # 1 /\ todo'[r][k] = todo[r][k + 1]
  BY PopStatuses
<1>2. /\ \A q \in Rank : q # r => request_to_local_clock'[q] = request_to_local_clock[q]
      /\ request_to_local_clock'[r] = request_to_local_clock[r] \ dropped
  BY DEF TypeOK
<1>3. /\ pc[r] \in CompletionOps /\ pc[r] # "Exited"
      /\ \A k, l \in DOMAIN todo[r] : todo[r][k].h = todo[r][l].h => k = l
      /\ \A k \in DOMAIN todo[r] : req[r][todo[r][k].h] = "none"
  BY DEF InLoop, HandleInv, TodoInv, CompletionOps, WaitOps, TestOps
<1>4. \A k, l \in DOMAIN todo'[r] : todo'[r][k].h = todo'[r][l].h => k = l
  <2> SUFFICES ASSUME NEW k \in DOMAIN todo'[r], NEW l \in DOMAIN todo'[r],
                      todo'[r][k].h = todo'[r][l].h
               PROVE  k = l
    OBVIOUS
  <2>1. k + 1 \in DOMAIN todo[r] /\ todo'[r][k] = todo[r][k + 1]
    BY <1>1, Zenon
  <2>2. l + 1 \in DOMAIN todo[r] /\ todo'[r][l] = todo[r][l + 1]
    BY <1>1, Zenon
  <2>3. todo[r][k + 1].h = todo[r][l + 1].h
    BY <2>1, <2>2
  <2>4. k + 1 = l + 1
    BY <1>3, <2>1, <2>2, <2>3, Zenon
  <2>5. todo'[r] \in Seq(Status)
    BY HeadOfTodo DEF NextStatus, TypeOK
  <2>6. k \in Nat /\ l \in Nat
    BY <2>5
  <2> QED
    BY <2>4, <2>6
<1>5. TodoInv'
  <2> SUFFICES ASSUME NEW q \in Rank
               PROVE  /\ todo'[q] # <<>> => pc[q] \in CompletionOps \union {"Exited"}
                      /\ \A k, l \in DOMAIN todo'[q] : todo'[q][k].h = todo'[q][l].h => k = l
                      /\ \A k \in DOMAIN todo'[q] : req[q][todo'[q][k].h] = "none"
    BY DEF TodoInv
  <2>1. CASE q = r
    BY <1>1, <1>3, <1>4, <2>1
  <2>2. CASE q # r
    BY <1>1, <2>2 DEF HandleInv, TodoInv
  <2> QED
    BY <2>1, <2>2
<1>6. SendsKnown'
  <2> SUFFICES ASSUME NEW q \in Rank, NEW k \in DOMAIN todo'[q], todo'[q][k].msg = NoMessage
               PROVE  todo'[q][k].h \in request_to_local_clock'[q]
    BY DEF SendsKnown
  <2>1. CASE q = r
    <3>1. PICK l \in DOMAIN todo[r] : l # 1 /\ todo'[r][k] = todo[r][l]
      BY <1>1, <2>1
    <3>2. todo[r][l].h \in request_to_local_clock[r]
      BY <2>1, <3>1 DEF HandleInv, SendsKnown
    <3>3. todo[r][l].h \notin dropped
      BY <1>1, <1>3, <3>1
    <3> QED
      BY <1>2, <2>1, <3>1, <3>2, <3>3
  <2>2. CASE q # r
    BY <1>1, <1>2, <2>2 DEF HandleInv, SendsKnown
  <2> QED
    BY <2>1, <2>2
<1>7. SendsNeverMissed'
  <2> SUFFICES ASSUME NEW q \in Rank, NEW h \in Handle, req[q][h] = "send"
               PROVE  h \in request_to_local_clock'[q]
    BY DEF SendsNeverMissed
  <2>1. h \in request_to_local_clock[q]
    BY DEF HandleInv, SendsNeverMissed
  <2>2. q = r => h \notin dropped
    BY <1>1, <1>3
  <2> QED
    BY <1>2, <2>1, <2>2
<1>8. AbortsForWantOfBuffer'
  BY <1>1, <1>2, <1>3 DEF HandleInv, AbortsForWantOfBuffer
<1> QED
  BY <1>5, <1>6, <1>7, <1>8 DEF HandleInv

LEMMA StepHandle == TypeOK /\ HandleInv /\ [Next]_vars => HandleInv'
<1> SUFFICES ASSUME TypeOK, HandleInv, [Next]_vars PROVE HandleInv'
  OBVIOUS
<1> USE DEF CompletionOps, WaitOps, TestOps
<1>1. ASSUME NEW r \in Rank,
             \/ \E v \in Value : SetSendPbdata(r, v)
             \/ \E d \in Rank : MPI_Send(r, d) \/ MPI_Sendrecv(r, d)
             \/ MPI_Recv(r) \/ SendrecvReturns(r)
      PROVE  HandleInv'
  <2>1. UNCHANGED <<todo, req, request_to_local_clock, registered_buff_length>>
        /\ (UNCHANGED pc \/ pc' = [pc EXCEPT ![r] = "Sendrecv"] \/ pc' = [pc EXCEPT ![r] = "Idle"])
        /\ pc[r] \in {"Idle", "Sendrecv"}
    BY <1>1 DEF SetSendPbdata, MPI_Send, MPI_Sendrecv, MPI_Recv, SendrecvReturns, CanSend,
                statics, mpiVars, ctlVars
  <2>2. todo[r] = <<>>
    BY <2>1 DEF HandleInv, TodoInv
  <2> QED
    BY <2>1, <2>2, QuietHandle DEF TypeOK
<1>2. ASSUME NEW r \in Rank, NEW n \in 1..MaxCount, SetRecvPbdata(r, n)
      PROVE  HandleInv'
  <2>1. UNCHANGED <<todo, req, request_to_local_clock, pc>> /\ pc[r] = "Idle"
        /\ registered_buff_length' = [registered_buff_length EXCEPT ![r] = n]
    BY <1>2 DEF SetRecvPbdata, mpiVars, ctlVars
  <2>2. todo[r] = <<>>
    BY <2>1 DEF HandleInv, TodoInv
  <2> QED
    BY <2>1, <2>2, QuietHandle DEF TypeOK
<1>3. ASSUME NEW r \in Rank, NEW d \in Rank, MPI_Isend(r, d)
      PROVE  HandleInv'
  <2>1. PICK h \in Handle \ Pending(r) :
          /\ req' = [req EXCEPT ![r][h] = "send"]
          /\ request_to_local_clock' = [request_to_local_clock EXCEPT ![r] = @ \union {h}]
    BY <1>3 DEF MPI_Isend
  <2>2. pc[r] = "Idle" /\ UNCHANGED <<todo, pc, registered_buff_length>>
    BY <1>3 DEF MPI_Isend, CanSend, ctlVars
  <2>3. request_to_local_clock' =
          [request_to_local_clock EXCEPT ![r] = IF "send" = "send" THEN @ \union {h} ELSE @]
    BY <2>1
  <2> QED
    BY <2>1, <2>2, <2>3, CreateHandle
<1>4. ASSUME NEW r \in Rank, MPI_Irecv(r)
      PROVE  HandleInv'
  <2>1. PICK h \in Handle \ Pending(r) : req' = [req EXCEPT ![r][h] = "recv"]
    BY <1>4 DEF MPI_Irecv
  <2>2. pc[r] = "Idle" /\ UNCHANGED <<todo, pc, registered_buff_length, request_to_local_clock>>
    BY <1>4 DEF MPI_Irecv, ctlVars
  <2>3. request_to_local_clock' =
          [request_to_local_clock EXCEPT ![r] = IF "recv" = "send" THEN @ \union {h} ELSE @]
    BY <2>2 DEF TypeOK
  <2> QED
    BY <2>1, <2>2, <2>3, CreateHandle
<1>5. ASSUME NEW r \in Rank, Completes(r)
      PROVE  HandleInv'
  BY <1>5, CompletesServed, CompleteHandle
<1>6. ASSUME NEW r \in Rank, SyncRecv(r)
      PROVE  HandleInv'
  <2>1. /\ InLoop(r) /\ NextStatus(r)
        /\ UNCHANGED <<req, pc, registered_buff_length, request_to_local_clock>>
    BY <1>6 DEF SyncRecv, mpiVars
  <2>2. request_to_local_clock' = [request_to_local_clock EXCEPT ![r] = @ \ {}]
    BY <2>1 DEF TypeOK
  <2> QED
    BY <2>1, <2>2, PopHandle
<1>7. ASSUME NEW r \in Rank, SyncSend(r)
      PROVE  HandleInv'
  <2> DEFINE dropped == IF DropsSend(r) THEN {Head(todo[r]).h} ELSE {}
  <2>1. /\ InLoop(r) /\ NextStatus(r)
        /\ UNCHANGED <<req, pc, registered_buff_length>>
    BY <1>7 DEF SyncSend, mpiVars
  <2>2. request_to_local_clock' = [request_to_local_clock EXCEPT ![r] = @ \ dropped]
    BY <1>7 DEF SyncSend, TypeOK
  <2>3. dropped \in SUBSET {Head(todo[r]).h}
    OBVIOUS
  <2> HIDE DEF dropped
  <2> QED
    BY <2>1, <2>2, <2>3, PopHandle
<1>8. ASSUME NEW r \in Rank, LoopExits(r)
      PROVE  HandleInv'
  <2>1. /\ InLoop(r) /\ Aborts(r, Head(todo[r])) /\ pc' = [pc EXCEPT ![r] = "Exited"]
        /\ UNCHANGED <<todo, req, request_to_local_clock, registered_buff_length>>
    BY <1>8 DEF LoopExits, statics, mpiVars
  <2>2. Head(todo[r]).h \in request_to_local_clock[r]
    <3>1. todo[r] \in Seq(Status) /\ todo[r] # <<>>
      BY <2>1 DEF TypeOK, InLoop
    <3>2. 1 \in DOMAIN todo[r] /\ Head(todo[r]) = todo[r][1]
      BY <3>1
    <3> QED
      BY <2>1, <3>2 DEF Aborts, HandleInv, SendsKnown
  <2>3. registered_buff_length[r] = NoBuffer
    BY <2>1, <2>2 DEF Aborts
  <2>4. AbortsForWantOfBuffer'
    BY <2>1, <2>2, <2>3 DEF HandleInv, AbortsForWantOfBuffer, TypeOK
  <2>5. TodoInv'
    BY <2>1 DEF HandleInv, TodoInv, TypeOK
  <2> QED
    BY <2>1, <2>4, <2>5 DEF HandleInv, SendsKnown, SendsNeverMissed
<1>9. ASSUME NEW r \in Rank, Returns(r)
      PROVE  HandleInv'
  <2>1. /\ UNCHANGED <<todo, req, request_to_local_clock>>
        /\ todo[r] = <<>> /\ pc' = [pc EXCEPT ![r] = "Idle"]
        /\ registered_buff_length' = [registered_buff_length EXCEPT ![r] = NoBuffer]
    BY <1>9 DEF Returns, mpiVars
  <2> QED
    BY <2>1, QuietHandle DEF TypeOK
<1>10. CASE UNCHANGED vars
  BY <1>10, QuietHandle DEF vars, statics, mpiVars, ctlVars
<1> QED
  BY <1>1, <1>2, <1>3, <1>4, <1>5, <1>6, <1>7, <1>8, <1>9, <1>10 DEF Next

LEMMA HandlesHold == Spec => [](TypeOK /\ HandleInv)
<1> QED
  BY InitType, StepType, InitHandle, StepHandle, PTL DEF Spec

(* cmpi_update_local_sent_clock never finds a completed send unknown and   *)
(* never exits, though failing calls and most of the wrappers leave        *)
(* completed sends in the map and MPI hands their handles out again: a     *)
(* call exits only when it has to mark a send and has no buffer.           *)
THEOREM ExitsForWantOfBuffer == Spec => []AbortsForWantOfBuffer
<1>1. TypeOK /\ HandleInv => AbortsForWantOfBuffer
  BY DEF HandleInv
<1> QED
  BY <1>1, HandlesHold, PTL

(* PNMPIMOD_get_num_of_incomplete_sending_msg misses no nonblocking send   *)
(* that is still incomplete.                                               *)
THEOREM PbmpiSendsCounted == Spec => []SendsNeverMissed
<1>1. TypeOK /\ HandleInv => SendsNeverMissed
  BY DEF HandleInv
<1> QED
  BY <1>1, HandlesHold, PTL
--------------------------------------------------------------------------------
(* The registered buffer *)

(* The call that is running writes values: it succeeded, and the buffer    *)
(* has the length it compares with.                                        *)
Writes(r) == ~ failed[r] /\ registered_buff_length[r] = count[r]

(* In a completion wrapper: statuses lie in the order of their slots, and  *)
(* each slot of which something is expected either is right and will be    *)
(* left alone, or waits for the value of a status that is to come.  A mark *)
(* goes to the slot of its status or to a later one, so no mark follows    *)
(* the value of a slot.                                                    *)
LoopInv(r) ==
  /\ \A k, l \in DOMAIN todo[r] : k < l => todo[r][k].slot < todo[r][l].slot
  /\ \A k \in DOMAIN todo[r] : todo[r][k].slot <= todo[r][k].idx
  /\ \A k \in DOMAIN todo[r] :
       todo[r][k].msg # NoMessage /\ Writes(r) /\ todo[r][k].slot \in DOMAIN expect[r] =>
         expect[r][todo[r][k].slot] = todo[r][k].msg.pb
  /\ \A i \in DOMAIN expect[r] :
       \/ /\ buff[r][i] = expect[r][i]
          /\ \A k \in DOMAIN todo[r] : Marks(r) /\ todo[r][k].msg = NoMessage =>
               MarkedSlot(pc[r], todo[r][k]) # i
       \/ /\ Writes(r)
          /\ \E k \in DOMAIN todo[r] : todo[r][k].slot = i /\ todo[r][k].msg # NoMessage

(* Between calls the tool's memory is as the last call left it, and a      *)
(* buffer that is registered has been cleared since.                       *)
RestInv(r) ==
  BufferAsExpected(r) /\ (registered_buff_length[r] = NoBuffer \/ DOMAIN expect[r] = {})

ValuesAt(r) ==
  /\ DOMAIN expect[r] \subseteq 1..MaxCount
  /\ pc[r] \in CompletionOps => LoopInv(r)
  /\ pc[r] \in {"Idle", "Sendrecv"} => RestInv(r)

ValuesInv == DOMAIN expect = Rank /\ \A r \in Rank : ValuesAt(r)

LEMMA InitValues == Init => ValuesInv
  BY DEF Init, ValuesInv, ValuesAt, RestInv, BufferAsExpected, Nothing,
         CompletionOps, WaitOps, TestOps

(* A step of one rank is no concern of another. *)
LEMMA OtherValues ==
  ASSUME NEW q \in Rank, ValuesAt(q),
         pc'[q] = pc[q], todo'[q] = todo[q], failed'[q] = failed[q], count'[q] = count[q],
         registered_buff_length'[q] = registered_buff_length[q],
         buff'[q] = buff[q], expect'[q] = expect[q]
  PROVE  ValuesAt(q)'
<1>1. (BufferAsExpected(q) <=> BufferAsExpected(q)') /\ (Writes(q) <=> Writes(q)')
      /\ (Marks(q) <=> Marks(q)')
  BY DEF BufferAsExpected, Writes, Marks
<1>2. RestInv(q) => RestInv(q)'
  BY <1>1 DEF RestInv
<1>3. LoopInv(q) => LoopInv(q)'
  BY <1>1 DEF LoopInv, MarkedSlot
<1> QED
  BY <1>2, <1>3 DEF ValuesAt

(* What a completion wrapper expects when PMPI has returned. *)
LEMMA CompleteValues ==
  ASSUME TypeOK, ValuesInv, NEW r \in Rank, NEW op \in CompletionOps,
         NEW a, NEW done, NEW n,
         Served(r, a, done, n), Complete(r, op, a, done, n)
  PROVE  ValuesInv'
<1>1. PICK fails \in BOOLEAN :
        /\ failed' = [failed EXCEPT ![r] = fails]
        /\ expect' = [expect EXCEPT ![r] = Expected(r, op, todo'[r], n, fails)]
  BY DEF Complete
<1>2. /\ pc'[r] = op /\ count'[r] = n /\ failed'[r] = fails
      /\ UNCHANGED <<buff, registered_buff_length>>
      /\ \A q \in Rank : q # r =>
           pc'[q] = pc[q] /\ count'[q] = count[q] /\ failed'[q] = failed[q]
  BY <1>1 DEF Complete, TypeOK, statics
<1>3. /\ DOMAIN expect' = Rank
      /\ expect'[r] = Expected(r, op, todo'[r], n, fails)
      /\ \A q \in Rank : q # r => expect'[q] = expect[q]
  BY <1>1 DEF ValuesInv
<1>4. \A q \in Rank : q # r => todo'[q] = todo[q]
  <2>1. todo' = [todo EXCEPT ![r] = todo'[r]]
    BY CompleteTodo
  <2> QED
    BY <2>1 DEF TypeOK
<1>5. /\ DOMAIN todo'[r] \subseteq Nat
      /\ \A k \in DOMAIN todo'[r] :
           todo'[r][k].slot = k /\ k <= todo'[r][k].idx /\ k \in 1..MaxCount
  <2>1. todo'[r] \in Seq(Status)
    BY CompleteTodo
  <2>3. \A k \in DOMAIN todo'[r] : todo'[r][k] \in Status
    BY <2>1
  <2>2. \A k \in DOMAIN todo'[r] : todo'[r][k].slot \in 1..MaxCount
    BY <2>3 DEF Status
  <2> QED
    BY <2>1, <2>2, CompleteTodo
<1> DEFINE statuses == todo'[r]
           got == IF fails \/ registered_buff_length[r] # n THEN {}
                  ELSE {k \in DOMAIN statuses : statuses[k].msg # NoMessage}
           marked == IF fails \/ op \notin TestOps THEN {}
                     ELSE {MarkedSlot(op, statuses[k]) :
                             k \in {k \in DOMAIN statuses : statuses[k].msg = NoMessage}}
<1>6. /\ DOMAIN expect'[r] = ((1..MaxCount) \ marked) \union got
      /\ \A i \in DOMAIN expect'[r] :
           expect'[r][i] = IF i \in got THEN statuses[i].msg.pb ELSE buff[r][i]
  BY <1>3 DEF Expected
<1>7. LoopInv(r)'
  <2>1. \A k, l \in DOMAIN todo'[r] : k < l => todo'[r][k].slot < todo'[r][l].slot
    BY <1>5
  <2>2. \A k \in DOMAIN todo'[r] : todo'[r][k].slot <= todo'[r][k].idx
    BY <1>5
  <2>3. ASSUME NEW k \in DOMAIN todo'[r], todo'[r][k].msg # NoMessage, Writes(r)'
        PROVE  expect'[r][todo'[r][k].slot] = todo'[r][k].msg.pb
    <3>1. k \in got
      BY <1>2, <2>3 DEF Writes
    <3> QED
      BY <1>5, <1>6, <3>1
  <2>4. ASSUME NEW i \in DOMAIN expect'[r]
        PROVE  \/ /\ buff'[r][i] = expect'[r][i]
                  /\ \A k \in DOMAIN todo'[r] : Marks(r)' /\ todo'[r][k].msg = NoMessage =>
                       MarkedSlot(pc'[r], todo'[r][k]) # i
               \/ /\ Writes(r)'
                  /\ \E k \in DOMAIN todo'[r] : todo'[r][k].slot = i /\ todo'[r][k].msg # NoMessage
    <3>1. CASE i \in got
      BY <1>2, <1>5, <3>1 DEF Writes
    <3>2. CASE i \notin got
      <4>1. i \notin marked /\ expect'[r][i] = buff[r][i]
        BY <1>6, <3>2
      <4>2. \A k \in DOMAIN todo'[r] : Marks(r)' /\ todo'[r][k].msg = NoMessage =>
              MarkedSlot(op, todo'[r][k]) # i
        BY <1>2, <4>1 DEF Marks
      <4> QED
        BY <1>2, <4>1, <4>2
    <3> QED
      BY <3>1, <3>2
  <2> QED
    BY <2>1, <2>2, <2>3, <2>4 DEF LoopInv
<1>8. ValuesAt(r)'
  BY <1>2, <1>5, <1>6, <1>7 DEF ValuesAt, CompletionOps, WaitOps, TestOps
<1>9. ASSUME NEW q \in Rank, q # r PROVE ValuesAt(q)'
  BY <1>2, <1>3, <1>4, <1>9, OtherValues DEF ValuesInv
<1> QED
  BY <1>3, <1>8, <1>9 DEF ValuesInv

(* The loop writes at most one slot: that of a message at the head, or the *)
(* one marked for a send at the head.                                      *)
LEMMA PopValues ==
  ASSUME TypeOK, ValuesInv, NEW r \in Rank, InLoop(r), NextStatus(r),
         UNCHANGED <<pc, count, failed, registered_buff_length, expect>>,
         NEW i, NEW v,
         buff' = [buff EXCEPT ![r][i] = v] \/ UNCHANGED buff,
         Head(todo[r]).msg # NoMessage =>
           IF Writes(r) THEN buff' = [buff EXCEPT ![r][Head(todo[r]).slot] = Head(todo[r]).msg.pb]
                        ELSE UNCHANGED buff,
         Head(todo[r]).msg = NoMessage =>
           IF Marks(r) THEN i = MarkedSlot(pc[r], Head(todo[r])) ELSE UNCHANGED buff
  PROVE  ValuesInv'
<1> DEFINE s == Head(todo[r])
<1>1. /\ \A q \in Rank : q # r => todo'[q] = todo[q]
      /\ 1 \in DOMAIN todo[r] /\ s = todo[r][1]
      /\ \A k \in DOMAIN todo'[r] :
           k + 1 \in DOMAIN todo[r] /\ k + 1 # 1 /\ todo'[r][k] = todo[r][k + 1]
      /\ \A k \in DOMAIN todo'[r] :
           \E l \in DOMAIN todo[r] : l # 1 /\ todo'[r][k] = todo[r][l]
      /\ \A l \in DOMAIN todo[r] : l # 1 =>
           \E k \in DOMAIN todo'[r] : todo'[r][k] = todo[r][l]
  BY PopStatuses
<1> HIDE DEF s
<1>2. LoopInv(r)
  BY DEF ValuesInv, ValuesAt, InLoop
<1>3. (Writes(r)' <=> Writes(r)) /\ (Marks(r)' <=> Marks(r))
  BY DEF Writes, Marks
<1>4. /\ todo[r] \in Seq(Status) /\ todo'[r] \in Seq(Status)
      /\ \A k \in DOMAIN todo[r] : todo[r][k] \in Status
      /\ DOMAIN todo[r] \subseteq Nat \ {0} /\ DOMAIN todo'[r] \subseteq Nat \ {0}
  <2>1. todo[r] \in Seq(Status) /\ todo'[r] \in Seq(Status)
    BY HeadOfTodo DEF NextStatus, TypeOK
  <2> QED
    BY <2>1
<1>5. \A k \in DOMAIN todo[r] :
        /\ todo[r][k].slot \in Nat /\ todo[r][k].idx \in Nat /\ todo[r][k].slot \in 1..MaxCount
        /\ todo[r][k].slot <= MarkedSlot(pc[r], todo[r][k])
        /\ k # 1 => s.slot < todo[r][k].slot
  <2> SUFFICES ASSUME NEW k \in DOMAIN todo[r]
               PROVE  /\ todo[r][k].slot \in Nat /\ todo[r][k].idx \in Nat
                      /\ todo[r][k].slot \in 1..MaxCount
                      /\ todo[r][k].slot <= MarkedSlot(pc[r], todo[r][k])
                      /\ k # 1 => s.slot < todo[r][k].slot
    OBVIOUS
  <2>1. todo[r][k].slot \in 1..MaxCount /\ todo[r][k].idx \in 1..MaxCount
    BY <1>4 DEF Status
  <2>2. todo[r][k].slot <= todo[r][k].idx
    BY <1>2 DEF LoopInv
  <2>3. k # 1 => 1 < k
    BY <1>4
  <2>4. 1 < k => todo[r][1].slot < todo[r][k].slot
    BY <1>1, <1>2 DEF LoopInv
  <2>5. MaxCount \in Nat
    BY PbmpiAssumption
  <2>6. todo[r][k].slot \in Nat /\ todo[r][k].idx \in Nat
    BY <2>1, <2>5
  <2>7. todo[r][k].slot <= MarkedSlot(pc[r], todo[r][k])
    BY <2>2, <2>6 DEF MarkedSlot
  <2>8. k # 1 => s.slot < todo[r][k].slot
    BY <1>1, <2>3, <2>4
  <2> QED
    BY <2>1, <2>6, <2>7, <2>8, Zenon
<1>6. ASSUME NEW j \in 1..MaxCount, j # i PROVE buff'[r][j] = buff[r][j]
  <2>1. CASE buff' = [buff EXCEPT ![r][i] = v]
    <3>1. r \in DOMAIN buff /\ DOMAIN buff[r] = 1..MaxCount
      BY DEF TypeOK
    <3>2. buff'[r] = [buff[r] EXCEPT ![i] = v]
      BY <2>1, <3>1
    <3> QED
      BY <1>6, <3>1, <3>2
  <2>2. CASE UNCHANGED buff
    BY <2>2
  <2> QED
    BY <2>1, <2>2
<1>7. LoopInv(r)'
  <2>1. \A k, l \in DOMAIN todo'[r] : k < l => todo'[r][k].slot < todo'[r][l].slot
    <3> SUFFICES ASSUME NEW k \in DOMAIN todo'[r], NEW l \in DOMAIN todo'[r], k < l
                 PROVE  todo'[r][k].slot < todo'[r][l].slot
      OBVIOUS
    <3>1. k + 1 \in DOMAIN todo[r] /\ todo'[r][k] = todo[r][k + 1]
      BY <1>1, Zenon
    <3>2. l + 1 \in DOMAIN todo[r] /\ todo'[r][l] = todo[r][l + 1]
      BY <1>1, Zenon
    <3>3. k + 1 < l + 1
      BY <1>4
    <3>4. todo[r][k + 1].slot < todo[r][l + 1].slot
      BY <1>2, <3>1, <3>2, <3>3 DEF LoopInv
    <3> QED
      BY <3>1, <3>2, <3>4
  <2>2. \A k \in DOMAIN todo'[r] : todo'[r][k].slot <= todo'[r][k].idx
    BY <1>1, <1>2 DEF LoopInv
  <2>3. \A k \in DOMAIN todo'[r] :
          todo'[r][k].msg # NoMessage /\ Writes(r)' /\ todo'[r][k].slot \in DOMAIN expect'[r] =>
            expect'[r][todo'[r][k].slot] = todo'[r][k].msg.pb
    BY <1>1, <1>2, <1>3 DEF LoopInv
  <2>4. ASSUME NEW j \in DOMAIN expect[r]
        PROVE  \/ /\ buff'[r][j] = expect[r][j]
                  /\ \A k \in DOMAIN todo'[r] : Marks(r) /\ todo'[r][k].msg = NoMessage =>
                       MarkedSlot(pc[r], todo'[r][k]) # j
               \/ /\ Writes(r)
                  /\ \E k \in DOMAIN todo'[r] : todo'[r][k].slot = j /\ todo'[r][k].msg # NoMessage
    <3>1. CASE /\ buff[r][j] = expect[r][j]
               /\ \A k \in DOMAIN todo[r] : Marks(r) /\ todo[r][k].msg = NoMessage =>
                    MarkedSlot(pc[r], todo[r][k]) # j
      <4>1. \A k \in DOMAIN todo'[r] : Marks(r) /\ todo'[r][k].msg = NoMessage =>
              MarkedSlot(pc[r], todo'[r][k]) # j
        BY <1>1, <3>1
      <4>2. buff'[r][j] = expect[r][j]
        <5>1. CASE s.msg # NoMessage /\ Writes(r)
          <6>1. buff' = [buff EXCEPT ![r][s.slot] = s.msg.pb]
            BY <5>1 DEF s
          <6>2. s.slot \in DOMAIN expect[r] => expect[r][s.slot] = s.msg.pb
            BY <1>1, <1>2, <5>1 DEF LoopInv
          <6>3. s.slot \in 1..MaxCount
            BY <1>1, <1>5
          <6> QED
            BY <3>1, <6>1, <6>2, <6>3 DEF TypeOK
        <5>2. CASE s.msg = NoMessage /\ Marks(r)
          <6>1. i = MarkedSlot(pc[r], s) /\ i # j
            BY <1>1, <3>1, <5>2 DEF s
          <6>2. j \in 1..MaxCount
            BY DEF ValuesInv, ValuesAt
          <6> QED
            BY <1>6, <3>1, <6>1, <6>2
        <5>3. CASE UNCHANGED buff
          BY <3>1, <5>3
        <5> QED
          BY <5>1, <5>2, <5>3 DEF s
      <4> QED
        BY <4>1, <4>2
    <3>2. CASE /\ Writes(r)
               /\ \E k \in DOMAIN todo[r] : todo[r][k].slot = j /\ todo[r][k].msg # NoMessage
      <4>1. PICK k \in DOMAIN todo[r] : todo[r][k].slot = j /\ todo[r][k].msg # NoMessage
        BY <3>2
      <4>2. CASE k # 1
        <5>1. \E l \in DOMAIN todo'[r] : todo'[r][l] = todo[r][k]
          BY <1>1, <4>2
        <5> QED
          BY <3>2, <4>1, <5>1
      <4>3. CASE k = 1
        <5>1. s.slot = j /\ s.msg # NoMessage /\ expect[r][j] = s.msg.pb
          BY <1>1, <1>2, <2>4, <3>2, <4>1, <4>3 DEF LoopInv
        <5>2. buff' = [buff EXCEPT ![r][s.slot] = s.msg.pb] /\ s.slot \in 1..MaxCount
          BY <1>1, <1>5, <3>2, <5>1 DEF s
        <5>3. buff'[r][j] = expect[r][j]
          BY <5>1, <5>2 DEF TypeOK
        <5>4. ASSUME NEW m \in DOMAIN todo'[r]
              PROVE  MarkedSlot(pc[r], todo'[r][m]) # j
          <6>1. PICK l \in DOMAIN todo[r] : l # 1 /\ todo'[r][m] = todo[r][l]
            BY <1>1
          <6>2. s.slot < todo[r][l].slot /\ todo[r][l].slot <= MarkedSlot(pc[r], todo[r][l])
                /\ todo[r][l].slot \in Nat /\ todo[r][l].idx \in Nat /\ s.slot \in Nat
            BY <1>1, <1>5, <6>1
          <6>3. MarkedSlot(pc[r], todo[r][l]) \in Nat
            BY <6>2 DEF MarkedSlot
          <6> QED
            BY <5>1, <6>1, <6>2, <6>3
        <5> QED
          BY <5>3, <5>4
      <4> QED
        BY <4>2, <4>3
    <3> QED
      BY <1>2, <3>1, <3>2 DEF LoopInv
  <2>5. pc'[r] = pc[r] /\ expect'[r] = expect[r]
    OBVIOUS
  <2> QED
    BY <1>3, <2>1, <2>2, <2>3, <2>4, <2>5 DEF LoopInv
<1>8. ValuesAt(r)'
  BY <1>7 DEF ValuesInv, ValuesAt, InLoop, CompletionOps, WaitOps, TestOps
<1>9. ASSUME NEW q \in Rank, q # r PROVE ValuesAt(q)'
  <2>1. buff'[q] = buff[q] /\ todo'[q] = todo[q]
    BY <1>1, <1>9 DEF TypeOK
  <2> QED
    BY <2>1, OtherValues DEF ValuesInv
<1> QED
  BY <1>8, <1>9 DEF ValuesInv

LEMMA StepValues == TypeOK /\ HandleInv /\ ValuesInv /\ [Next]_vars => ValuesInv'
<1> SUFFICES ASSUME TypeOK, HandleInv, ValuesInv, [Next]_vars PROVE ValuesInv'
  OBVIOUS
<1> USE DEF CompletionOps, WaitOps, TestOps
<1>1. ASSUME NEW r \in Rank, ValuesAt(r)', DOMAIN expect' = Rank,
             \A q \in Rank : q # r =>
               /\ pc'[q] = pc[q] /\ todo'[q] = todo[q] /\ failed'[q] = failed[q]
               /\ count'[q] = count[q] /\ buff'[q] = buff[q] /\ expect'[q] = expect[q]
               /\ registered_buff_length'[q] = registered_buff_length[q]
      PROVE  ValuesInv'
  <2>1. ASSUME NEW q \in Rank, q # r PROVE ValuesAt(q)'
    BY <1>1, <2>1, OtherValues DEF ValuesInv
  <2> QED
    BY <1>1, <2>1 DEF ValuesInv
<1>2. ASSUME NEW r \in Rank,
             pc[r] \in {"Idle", "Sendrecv"}, pc'[r] \in {"Idle", "Sendrecv"},
             BufferAsExpected(r)', DOMAIN expect'[r] \subseteq 1..MaxCount,
             registered_buff_length'[r] = NoBuffer \/ DOMAIN expect'[r] = {}
      PROVE  ValuesAt(r)'
  BY <1>2 DEF ValuesAt, RestInv
<1>3. ASSUME NEW r \in Rank, pc[r] \in {"Idle", "Sendrecv"}
      PROVE  /\ BufferAsExpected(r) /\ DOMAIN expect[r] \subseteq 1..MaxCount
             /\ registered_buff_length[r] = NoBuffer \/ DOMAIN expect[r] = {}
  BY <1>3 DEF ValuesInv, ValuesAt, RestInv
<1>4. ASSUME NEW r \in Rank,
             \/ \E v \in Value : SetSendPbdata(r, v)
             \/ \E d \in Rank : MPI_Send(r, d) \/ MPI_Isend(r, d) \/ MPI_Sendrecv(r, d)
             \/ MPI_Irecv(r)
      PROVE  ValuesInv'
  <2>1. /\ pc[r] = "Idle"
        /\ UNCHANGED <<todo, failed, count, registered_buff_length, buff, expect>>
        /\ UNCHANGED pc \/ pc' = [pc EXCEPT ![r] = "Sendrecv"]
    BY <1>4 DEF SetSendPbdata, MPI_Send, MPI_Isend, MPI_Sendrecv, MPI_Irecv, CanSend,
                statics, mpiVars, ctlVars
  <2>2. pc'[r] \in {"Idle", "Sendrecv"} /\ \A q \in Rank : q # r => pc'[q] = pc[q]
    BY <2>1 DEF TypeOK
  <2>3. BufferAsExpected(r)'
    BY <1>3, <2>1 DEF BufferAsExpected
  <2>4. ValuesAt(r)'
    BY <1>2, <1>3, <2>1, <2>2, <2>3
  <2> QED
    BY <1>1, <2>1, <2>2, <2>4 DEF ValuesInv
<1>5. ASSUME NEW r \in Rank, NEW n \in 1..MaxCount, SetRecvPbdata(r, n)
      PROVE  ValuesInv'
  <2>1. /\ pc[r] = "Idle" /\ UNCHANGED <<pc, todo, failed, count>>
        /\ expect'[r] = Nothing /\ DOMAIN expect' = Rank
    BY <1>5 DEF SetRecvPbdata, ValuesInv, ctlVars
  <2>2. DOMAIN Nothing = {}
    BY DEF Nothing
  <2>3. ValuesAt(r)'
    BY <1>2, <2>1, <2>2 DEF BufferAsExpected
  <2>4. \A q \in Rank : q # r =>
          /\ buff'[q] = buff[q] /\ expect'[q] = expect[q]
          /\ registered_buff_length'[q] = registered_buff_length[q]
    BY <1>5 DEF SetRecvPbdata, TypeOK, ValuesInv
  <2> QED
    BY <1>1, <2>1, <2>3, <2>4
<1>6. ASSUME NEW r \in Rank, MPI_Recv(r) \/ SendrecvReturns(r)
      PROVE  ValuesInv'
  <2>1. /\ pc[r] \in {"Idle", "Sendrecv"}
        /\ UNCHANGED <<todo, failed, count, registered_buff_length, expect>>
        /\ UNCHANGED pc \/ pc' = [pc EXCEPT ![r] = "Idle"]
    BY <1>6 DEF MPI_Recv, SendrecvReturns, ctlVars
  <2>2. pc'[r] \in {"Idle", "Sendrecv"} /\ \A q \in Rank : q # r => pc'[q] = pc[q]
    BY <2>1 DEF TypeOK
  <2>3. PICK m \in net : SyncClockAt(r, 1, 1, m) \/ UNCHANGED buff
    BY <1>6 DEF MPI_Recv, SendrecvReturns
  <2>4. \A q \in Rank : q # r => buff'[q] = buff[q]
    BY <2>3 DEF SyncClockAt, TypeOK
  <2>5. BufferAsExpected(r)'
    <3>1. CASE registered_buff_length[r] = NoBuffer
      <4>1. UNCHANGED buff
        BY <2>3, <3>1 DEF SyncClockAt, NoBuffer
      <4> QED
        BY <1>3, <2>1, <4>1 DEF BufferAsExpected
    <3>2. CASE DOMAIN expect[r] = {}
      BY <2>1, <3>2 DEF BufferAsExpected
    <3> QED
      BY <1>3, <2>1, <3>1, <3>2
  <2>6. ValuesAt(r)'
    BY <1>2, <1>3, <2>1, <2>2, <2>5
  <2> QED
    BY <1>1, <2>1, <2>2, <2>4, <2>6 DEF ValuesInv
<1>7. ASSUME NEW r \in Rank, Completes(r)
      PROVE  ValuesInv'
  BY <1>7, CompletesServed, CompleteValues
<1>8. ASSUME NEW r \in Rank, SyncRecv(r)
      PROVE  ValuesInv'
  <2>1. /\ InLoop(r) /\ NextStatus(r) /\ Head(todo[r]).msg # NoMessage
        /\ UNCHANGED <<pc, count, failed, registered_buff_length, expect>>
    BY <1>8 DEF SyncRecv
  <2>2. IF Writes(r) THEN buff' = [buff EXCEPT ![r][Head(todo[r]).slot] = Head(todo[r]).msg.pb]
                     ELSE UNCHANGED buff
    BY <1>8 DEF SyncRecv, SyncClockAt, Writes
  <2> QED
    BY <2>1, <2>2, PopValues
<1>9. ASSUME NEW r \in Rank, SyncSend(r)
      PROVE  ValuesInv'
  <2>1. /\ InLoop(r) /\ NextStatus(r) /\ Head(todo[r]).msg = NoMessage
        /\ UNCHANGED <<pc, count, failed, registered_buff_length, expect>>
    BY <1>9 DEF SyncSend
  <2>2. IF Marks(r)
          THEN buff' = [buff EXCEPT ![r][MarkedSlot(pc[r], Head(todo[r]))] = SendReqClock]
          ELSE UNCHANGED buff
    BY <1>9 DEF SyncSend
  <2> QED
    BY <2>1, <2>2, PopValues
<1>10. ASSUME NEW r \in Rank, LoopExits(r)
       PROVE  ValuesInv'
  <2>1. /\ pc' = [pc EXCEPT ![r] = "Exited"]
        /\ UNCHANGED <<todo, count, failed, registered_buff_length, buff, expect>>
    BY <1>10 DEF LoopExits, statics
  <2>2. pc'[r] = "Exited" /\ \A q \in Rank : q # r => pc'[q] = pc[q]
    BY <2>1 DEF TypeOK
  <2>3. ValuesAt(r)'
    BY <2>1, <2>2 DEF ValuesInv, ValuesAt
  <2> QED
    BY <1>1, <2>1, <2>2, <2>3 DEF ValuesInv
<1>11. ASSUME NEW r \in Rank, Returns(r)
       PROVE  ValuesInv'
  <2>1. UNCHANGED <<todo, buff>>
    BY <1>11 DEF Returns
  <2>2. /\ pc'[r] = "Idle" /\ registered_buff_length'[r] = NoBuffer
        /\ \A q \in Rank : q # r =>
             /\ pc'[q] = pc[q] /\ failed'[q] = failed[q] /\ count'[q] = count[q]
             /\ registered_buff_length'[q] = registered_buff_length[q]
    BY <1>11 DEF Returns, TypeOK
  <2>3. /\ expect'[r] = buff[r] /\ DOMAIN expect' = Rank
        /\ \A q \in Rank : q # r => expect'[q] = expect[q]
    BY <1>11 DEF Returns, ValuesInv
  <2>4. DOMAIN buff[r] = 1..MaxCount
    BY DEF TypeOK
  <2>5. ValuesAt(r)'
    BY <2>1, <2>2, <2>3, <2>4 DEF ValuesAt, RestInv, BufferAsExpected
  <2> QED
    BY <1>1, <2>1, <2>2, <2>3, <2>5
<1>12. CASE UNCHANGED vars
  <2>1. \A q \in Rank : ValuesAt(q)'
    BY <1>12, OtherValues DEF ValuesInv, vars, statics, mpiVars, ctlVars
  <2> QED
    BY <1>12, <2>1 DEF ValuesInv, vars
<1> QED
  BY <1>4, <1>5, <1>6, <1>7, <1>8, <1>9, <1>10, <1>11, <1>12 DEF Next

LEMMA ValuesHold == Spec => [](TypeOK /\ HandleInv /\ ValuesInv)
<1> QED
  BY InitType, StepType, InitHandle, StepHandle, InitValues, StepValues, PTL DEF Spec

(* When the loop of a completion wrapper has taken all statuses, the       *)
(* registered buffer holds the value of each received message at the       *)
(* position of its status, and nothing else has been written but marks of  *)
(* sends; no mark has overwritten a value, in whatever order MPI completed *)
(* the requests and wherever the array had gaps.                           *)
THEOREM ValuesCorrect == Spec => []ValuesReported
<1>1. TypeOK /\ HandleInv /\ ValuesInv => ValuesReported
  BY DEF ValuesInv, ValuesAt, LoopInv, ValuesReported, BufferAsExpected
<1> QED
  BY <1>1, ValuesHold, PTL

(* Once a completion call has returned, successful or not, the memory of   *)
(* the buffer is the tool's: no MPI_Recv or MPI_Sendrecv writes through    *)
(* the old pointer.                                                        *)
THEOREM MemoryReleased == Spec => []BufferReleased
<1>1. TypeOK /\ HandleInv /\ ValuesInv => BufferReleased
  BY DEF ValuesInv, ValuesAt, RestInv, BufferReleased
<1> QED
  BY <1>1, ValuesHold, PTL
================================================================================
