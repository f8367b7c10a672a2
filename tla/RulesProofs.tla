------------------------------ MODULE RulesProofs ------------------------------
(***************************************************************************)
(* Proofs that the clock layer keeps the rules of README.md, for every     *)
(* number of ranks, handles and messages and every bound: every event      *)
(* ticks, and Clmpi implements LamportClock.                               *)
(*                                                                         *)
(* MPI_Sendrecv breaks the first rule (run sendrecv_tick), so the theorems *)
(* are about applications that do not call it.                             *)
(***************************************************************************)
EXTENDS HandleProofs

(* No rank is in MPI_Sendrecv. *)
NoSendrecv == \A r \in Rank : pc[r] \notin {"Sendrecv", "SendrecvPosted"}

LEMMA StepNoSendrecv ==
  ASSUME "Sendrecv" \notin Ops, TypeOK, NoSendrecv, [Next]_vars
  PROVE  NoSendrecv'
<1>1. ASSUME NEW r \in Rank, NEW where, where \notin {"Sendrecv", "SendrecvPosted"},
             pc' = [pc EXCEPT ![r] = where]
      PROVE  NoSendrecv'
  BY <1>1 DEF NoSendrecv, TypeOK
<1>2. CASE UNCHANGED pc
  BY <1>2 DEF NoSendrecv
<1>3. ASSUME NEW r \in Rank, NEW d \in Rank,
             MPI_Send(r, d) \/ MPI_Isend(r, d) \/ MPI_Sendrecv(r, d)
      PROVE  NoSendrecv'
  BY <1>1, <1>2, <1>3 DEF MPI_Send, MPI_Isend, MPI_Sendrecv, Calls, Goto, ctlVars
<1>4. ASSUME NEW r \in Rank, MPI_Recv(r) \/ SendrecvReceives(r)
      PROVE  NoSendrecv'
  BY <1>1, <1>4 DEF MPI_Recv, SendrecvReceives, Receives, Goto, NoSendrecv
<1>5. ASSUME NEW r \in Rank, Completes(r)
      PROVE  NoSendrecv'
  <2>1. CASE Unregistered(r)
    BY <1>1, <2>1 DEF Unregistered, Goto
  <2>2. CASE ~ Unregistered(r)
    <3>1. PICK op, a, done, n : Served(r, op, a, done, n) /\ Complete(r, op, a, done, n)
      BY <1>5, <2>2, CompletesServed
    <3> QED
      BY <1>1, <3>1 DEF Complete, Served, Goto, CompletionOps, WaitOps, TestOps
  <2> QED
    BY <2>1, <2>2
<1>6. ASSUME NEW r \in Rank, MPI_Irecv(r) \/ ClockControl(r) \/ SyncRecv(r) \/ SyncSend(r)
      PROVE  NoSendrecv'
  BY <1>2, <1>6 DEF MPI_Irecv, ClockControl, SyncRecv, SyncSend, ctlVars
<1>10. ASSUME NEW r \in Rank, NEW n \in 1..MaxCount, RegisterRecvClocks(r, n)
       PROVE  NoSendrecv'
  BY <1>2, <1>10 DEF RegisterRecvClocks, ctlVars
<1>11. ASSUME NEW r \in Rank, NEW c \in ClientClock, SyncClock(r, c) \/ SetPbClock(r, c)
       PROVE  NoSendrecv'
  BY <1>2, <1>11 DEF SyncClock, SetPbClock, ctlVars
<1>7. ASSUME NEW r \in Rank, SendReturns(r) \/ LoopExits(r) \/ Returns(r)
                             \/ CollectiveReturns(r) \/ CollectiveSync(r)
      PROVE  NoSendrecv'
  BY <1>1, <1>7 DEF SendReturns, LoopExits, Returns, CollectiveReturns, CollectiveSync, Goto
<1>8. CASE Allreduce
  BY <1>8 DEF Allreduce, NoSendrecv
<1>9. CASE UNCHANGED vars
  BY <1>2, <1>9 DEF vars, ctlVars
<1> QED
  BY <1>3, <1>4, <1>5, <1>6, <1>7, <1>8, <1>9, <1>10, <1>11 DEF Next, Continues

--------------------------------------------------------------------------------
(* Every event ticks *)

(* Steps that count no event, and turn no clock back. *)
LEMMA QuietTicks ==
  ASSUME TypeOK, EveryEventTicks, UNCHANGED nticks,
         \A r \in Rank : local_clock'[r] \in Nat /\ local_clock[r] <= local_clock'[r]
  PROVE  EveryEventTicks'
  BY DEF TypeOK, EveryEventTicks, InitialClock

(* Steps of a rank that count an event if its clock is on, and tick then.  *)
LEMMA TickingStep ==
  ASSUME TypeOK, EveryEventTicks, NEW r \in Rank, CountTicks(r, 1),
         NEW c \in Nat, local_clock' = [local_clock EXCEPT ![r] = c],
         local_clock[r] <= c, sync_clock[r] => local_clock[r] < c
  PROVE  EveryEventTicks'
<1>1. /\ local_clock \in [Rank -> Nat] /\ nticks \in [Rank -> Nat]
  BY DEF TypeOK
<1>2. \A q \in Rank : local_clock[q] >= 10 + nticks[q]
  BY DEF EveryEventTicks, InitialClock
<1>3. nticks'[r] = IF sync_clock[r] THEN nticks[r] + 1 ELSE nticks[r]
  BY <1>1 DEF CountTicks
<1>4. \A q \in Rank : q # r => nticks'[q] = nticks[q] /\ local_clock'[q] = local_clock[q]
  BY <1>1 DEF CountTicks
<1>5. local_clock'[r] >= 10 + nticks'[r]
  BY <1>1, <1>2, <1>3
<1> QED
  BY <1>2, <1>4, <1>5 DEF EveryEventTicks, InitialClock

LEMMA StepTicks ==
  ASSUME "Sendrecv" \notin Ops, TypeOK, ClockInv, NoSendrecv, EveryEventTicks, [Next]_vars
  PROVE  EveryEventTicks'
<1>1. ASSUME UNCHANGED <<local_clock, nticks>> PROVE EveryEventTicks'
  BY <1>1 DEF EveryEventTicks
<1>2. ASSUME NEW r \in Rank, TickAfterSend(r) PROVE EveryEventTicks'
  <2>1. Ticked(r, local_clock[r]) \in Nat /\ local_clock[r] <= Ticked(r, local_clock[r])
    BY DEF Ticked, TypeOK
  <2>2. sync_clock[r] => local_clock[r] < Ticked(r, local_clock[r])
    BY DEF Ticked, TypeOK
  <2> QED
    BY <1>2, <2>1, <2>2, TickingStep DEF TickAfterSend
<1>3. ASSUME NEW r \in Rank, NEW d \in Rank,
             MPI_Send(r, d) \/ MPI_Isend(r, d) \/ MPI_Sendrecv(r, d)
      PROVE  EveryEventTicks'
  BY <1>1, <1>2, <1>3 DEF MPI_Send, MPI_Isend, MPI_Sendrecv, clmpiVars, histVars
<1>4. ASSUME NEW r \in Rank, MPI_Irecv(r) \/ MPI_Recv(r) \/ SendrecvReceives(r)
      PROVE  EveryEventTicks'
  BY <1>1, <1>4 DEF MPI_Irecv, MPI_Recv, SendrecvReceives, Receives, clmpiVars, histVars
<1>5. ASSUME NEW r \in Rank, Completes(r)
      PROVE  EveryEventTicks'
  <2>1. CASE Unregistered(r)
    BY <1>1, <2>1 DEF Unregistered, clmpiVars, histVars
  <2>2. CASE ~ Unregistered(r)
    BY <1>1, <1>5, <2>2, CompletesServed DEF Complete
  <2> QED
    BY <2>1, <2>2
<1>6. ASSUME NEW r \in Rank, SendReturns(r) PROVE EveryEventTicks'
  BY <1>2, <1>6 DEF SendReturns
<1>7. ASSUME NEW r \in Rank, SyncRecv(r) PROVE EveryEventTicks'
  <2> DEFINE s == Head(todo[r])
  <2>1. todo[r] # <<>> /\ s.msg # NoMessage /\ SyncClockAt(r, s)
    BY <1>7 DEF SyncRecv, InLoop
  <2>2. s.msg.pb \in Nat
    BY <2>1, HeadOfTodo DEF Status, Message
  <2>3. /\ local_clock' = [local_clock EXCEPT ![r] = Merged(r, s.msg.pb)]
        /\ CountTicks(r, 1)
    BY <2>1 DEF SyncClockAt, NoSendrecv
  <2> HIDE DEF s
  <2>4. Merged(r, s.msg.pb) \in Nat /\ local_clock[r] <= Merged(r, s.msg.pb)
    BY <2>2, MergedType
  <2>5. sync_clock[r] => local_clock[r] < Merged(r, s.msg.pb)
    BY <2>2 DEF Merged, TypeOK
  <2> QED
    BY <2>3, <2>4, <2>5, TickingStep
<1>8. ASSUME NEW r \in Rank, SyncSend(r) \/ LoopExits(r) \/ Returns(r) \/ CollectiveSync(r)
                             \/ ClockControl(r) \/ \E n \in 1..MaxCount : RegisterRecvClocks(r, n)
      PROVE  EveryEventTicks'
  BY <1>1, <1>8 DEF SyncSend, LoopExits, Returns, CollectiveSync, ClockControl,
                    RegisterRecvClocks, clmpiVars, histVars
<1>9. ASSUME NEW r \in Rank, CollectiveReturns(r) PROVE EveryEventTicks'
  <2>1. local_clock[r] <= coll_max /\ coll_max \in Nat /\ local_clock[r] \in Nat
    BY <1>9 DEF CollectiveReturns, ClockInv, TypeOK
  <2>2. /\ Ticked(r, coll_max) \in Nat /\ local_clock[r] <= Ticked(r, coll_max)
        /\ sync_clock[r] => local_clock[r] < Ticked(r, coll_max)
    BY <2>1 DEF Ticked
  <2> QED
    BY <1>9, <2>2, TickingStep DEF CollectiveReturns
<1>10. ASSUME NEW r \in Rank, NEW c \in ClientClock, SyncClock(r, c) PROVE EveryEventTicks'
  <2>1. c \in Nat
    BY ClientAssumption
  <2>2. Merged(r, c) \in Nat /\ local_clock[r] <= Merged(r, c)
    BY <2>1, MergedType
  <2>3. UNCHANGED nticks /\ local_clock' = [local_clock EXCEPT ![r] = Merged(r, c)]
    BY <1>10 DEF SyncClock, histVars
  <2>4. \A q \in Rank : local_clock'[q] \in Nat /\ local_clock[q] <= local_clock'[q]
    BY <2>2, <2>3 DEF TypeOK
  <2> QED
    BY <2>3, <2>4, QuietTicks
<1>11. ASSUME NEW r \in Rank, NEW c \in ClientClock, SetPbClock(r, c) PROVE EveryEventTicks'
  <2>1. c \in Nat /\ local_clock[r] < c
    BY <1>11, ClientAssumption DEF SetPbClock
  <2>2. UNCHANGED nticks /\ local_clock' = [local_clock EXCEPT ![r] = c]
    BY <1>11 DEF SetPbClock, histVars
  <2>3. \A q \in Rank : local_clock'[q] \in Nat /\ local_clock[q] <= local_clock'[q]
    BY <2>1, <2>2 DEF TypeOK
  <2> QED
    BY <2>2, <2>3, QuietTicks
<1>12. CASE Allreduce
  BY <1>1, <1>12 DEF Allreduce, clmpiVars
<1>13. CASE UNCHANGED vars
  BY <1>1, <1>13 DEF vars, clmpiVars, histVars
<1> QED
  BY <1>3, <1>4, <1>5, <1>6, <1>7, <1>8, <1>9, <1>10, <1>11, <1>12, <1>13 DEF Next, Continues

(* In every run of an application without MPI_Sendrecv, every send and     *)
(* receive of a rank whose clock is on advances the clock by one at least: *)
(* neither a merge, nor a collective, nor the tool above loses a tick.     *)
THEOREM EventsTick ==
  ASSUME "Sendrecv" \notin Ops
  PROVE  Spec => []EveryEventTicks
<1> DEFINE IInv == TypeOK /\ ClockInv /\ NoSendrecv /\ EveryEventTicks
<1>1. Init => IInv
  <2>1. Init => NoSendrecv
    BY DEF Init, NoSendrecv
  <2>2. Init => EveryEventTicks
    BY DEF Init, EveryEventTicks, InitialClock
  <2> QED
    BY <2>1, <2>2, InitType, InitClock
<1>2. IInv /\ [Next]_vars => IInv'
  BY StepType, StepClock, StepNoSendrecv, StepTicks
<1> QED
  BY <1>1, <1>2, PTL DEF Spec
--------------------------------------------------------------------------------
(* Messages are told apart *)

(* The messages that are neither delivered nor merged. *)
Travelling == net \union UNION {Unmerged(r) : r \in Rank}

(* A message is known by its sender and number; each is in one place only, *)
(* and the one a rank is about to merge was sent to it.                    *)
MessagesDistinct ==
  /\ \A m \in Travelling : m \in Message /\ m.seq < nsent[m.src]
  /\ \A m, n \in Travelling : m.src = n.src /\ m.seq = n.seq => m = n
  /\ \A r \in Rank : \A k \in DOMAIN todo[r] : todo[r][k].msg # NoMessage =>
       /\ todo[r][k].msg.dst = r /\ todo[r][k].msg \notin net
       /\ \A l \in DOMAIN todo[r] : todo[r][l].msg = todo[r][k].msg => l = k

LEMMA InitMessages == Init => MessagesDistinct
  BY DEF Init, MessagesDistinct, Travelling, Unmerged

LEMMA UnmergedMember ==
  ASSUME NEW r \in Rank
  PROVE  \A m : m \in Unmerged(r) <=> \E k \in DOMAIN todo[r] : todo[r][k].msg = m /\ m # NoMessage
  BY DEF Unmerged

(* The members of Travelling, spelled out. *)
LEMMA TravellingMember ==
  \A m : m \in Travelling <=>
           \/ m \in net
           \/ \E r \in Rank : \E k \in DOMAIN todo[r] : todo[r][k].msg = m /\ m # NoMessage
  BY DEF Travelling, Unmerged

(* Steps that leave the messages where they are. *)
LEMMA QuietMessages ==
  ASSUME MessagesDistinct, UNCHANGED <<net, todo, nsent>>
  PROVE  MessagesDistinct' /\ Travelling' = Travelling
  BY DEF MessagesDistinct, Travelling, Unmerged

(* The message that Ship sends. *)
Shipped(r, d) == [src |-> r, seq |-> nsent[r], dst |-> d, pb |-> local_clock[r], past |-> past[r]]

LEMMA ShipMessages ==
  ASSUME TypeOK, MessagesDistinct, NEW r \in Rank, NEW d \in Rank, Ship(r, d), UNCHANGED todo
  PROVE  MessagesDistinct' /\ Travelling' = Travelling \union {Shipped(r, d)}
<1> DEFINE new == Shipped(r, d)
<1>1. net' = net \union {new} /\ nsent' = [nsent EXCEPT ![r] = @ + 1] /\ nsent[r] \in Nat
  BY DEF Ship, Shipped, TypeOK
<1>2. new \in Message /\ new.src = r /\ new.seq = nsent[r]
  BY DEF Shipped, Message, TypeOK
<1> HIDE DEF new
<1>3. Travelling' = Travelling \union {new}
  BY <1>1 DEF Travelling, Unmerged
<1>4. \A q \in Rank : nsent[q] \in Nat /\ nsent'[q] = IF q = r THEN nsent[q] + 1 ELSE nsent[q]
  BY <1>1 DEF TypeOK
<1>5. \A m \in Travelling : m \in Message /\ m.src \in Rank /\ m.seq \in Nat /\ m.seq < nsent[m.src]
  BY DEF MessagesDistinct, Message
<1>6. \A m \in Travelling' : m \in Message /\ m.seq < nsent'[m.src]
  BY <1>1, <1>2, <1>3, <1>4, <1>5
<1>7. \A m \in Travelling : ~ (m.src = new.src /\ m.seq = new.seq)
  BY <1>1, <1>2, <1>5
<1>8. \A m, n \in Travelling' : m.src = n.src /\ m.seq = n.seq => m = n
  BY <1>3, <1>7 DEF MessagesDistinct
<1>9. \A q \in Rank : \A k \in DOMAIN todo[q] : todo[q][k].msg # NoMessage => todo[q][k].msg # new
  BY <1>7, TravellingMember
<1> QED
  BY <1>1, <1>3, <1>6, <1>8, <1>9 DEF MessagesDistinct, new

(* PMPI hands messages for r to statuses of r, which had none: each of     *)
(* them to one, and none is lost.                                          *)
LEMMA DeliverMessages ==
  ASSUME TypeOK, MessagesDistinct, NEW r \in Rank, UNCHANGED nsent, todo[r] = <<>>,
         \A q \in Rank : q # r => todo'[q] = todo[q],
         net' = net \ {todo'[r][k].msg : k \in DOMAIN todo'[r]},
         \A k \in DOMAIN todo'[r] : todo'[r][k].msg # NoMessage =>
           /\ todo'[r][k].msg \in net /\ todo'[r][k].msg.dst = r
           /\ \A l \in DOMAIN todo'[r] : todo'[r][l].msg = todo'[r][k].msg => l = k
  PROVE  MessagesDistinct' /\ Travelling' = Travelling
<1>1. \A m : m \in Travelling' <=>
               \/ m \in net'
               \/ \E q \in Rank : \E k \in DOMAIN todo'[q] : todo'[q][k].msg = m /\ m # NoMessage
  BY DEF Travelling, Unmerged
<1>2. \A m \in net : m # NoMessage
  BY NoMessageAssumption DEF TypeOK
<1>3. ASSUME NEW m \in Travelling' PROVE m \in Travelling
  <2>1. CASE m \in net'
    BY <2>1, TravellingMember
  <2>2. CASE \E q \in Rank : \E k \in DOMAIN todo'[q] : todo'[q][k].msg = m /\ m # NoMessage
    <3>1. PICK q \in Rank : \E k \in DOMAIN todo'[q] : todo'[q][k].msg = m /\ m # NoMessage
      BY <2>2
    <3>2. CASE q = r
      BY <3>1, <3>2, TravellingMember
    <3>3. CASE q # r
      BY <3>1, <3>3, TravellingMember
    <3> QED
      BY <3>2, <3>3
  <2> QED
    BY <1>1, <2>1, <2>2
<1>4. ASSUME NEW m \in Travelling PROVE m \in Travelling'
  <2>1. CASE m \in net
    <3>1. CASE m \in net'
      BY <1>1, <3>1
    <3>2. CASE m \notin net'
      <4>1. PICK k \in DOMAIN todo'[r] : todo'[r][k].msg = m
        BY <2>1, <3>2
      <4> QED
        BY <1>1, <1>2, <2>1, <4>1
    <3> QED
      BY <3>1, <3>2
  <2>2. CASE m \notin net
    <3>1. PICK q \in Rank : \E k \in DOMAIN todo[q] : todo[q][k].msg = m /\ m # NoMessage
      BY <1>4, <2>2, TravellingMember
    <3>2. q # r
      BY <3>1
    <3> QED
      BY <1>1, <3>1, <3>2
  <2> QED
    BY <2>1, <2>2
<1>5. Travelling' = Travelling
  BY <1>3, <1>4
<1>6. ASSUME NEW q \in Rank, NEW k \in DOMAIN todo'[q], todo'[q][k].msg # NoMessage
      PROVE  /\ todo'[q][k].msg.dst = q /\ todo'[q][k].msg \notin net'
             /\ \A l \in DOMAIN todo'[q] : todo'[q][l].msg = todo'[q][k].msg => l = k
  <2>1. CASE q = r
    BY <1>6, <2>1
  <2>2. CASE q # r
    BY <1>6, <2>2 DEF MessagesDistinct
  <2> QED
    BY <2>1, <2>2
<1> QED
  BY <1>5, <1>6 DEF MessagesDistinct
(* The loop takes the message of the head of todo, if it has one, from the *)
(* messages on their way, and no other.                                    *)
LEMMA PopMessages ==
  ASSUME TypeOK, MessagesDistinct, NEW r \in Rank, todo[r] # <<>>,
         todo' = [todo EXCEPT ![r] = Tail(@)], UNCHANGED <<net, nsent>>
  PROVE  MessagesDistinct' /\ Travelling' = Travelling \ {Head(todo[r]).msg}
<1> DEFINE s == Head(todo[r])
<1>1. 1 \in DOMAIN todo[r] /\ s = todo[r][1]
  BY PopTodo
<1>2. \A q \in Rank : q # r => todo'[q] = todo[q]
  BY PopStatuses
<1>3. \A k \in DOMAIN todo'[r] : \E l \in DOMAIN todo[r] : l # 1 /\ todo'[r][k] = todo[r][l]
  BY PopStatuses
<1>4. \A l \in DOMAIN todo[r] : l # 1 => \E k \in DOMAIN todo'[r] : todo'[r][k] = todo[r][l]
  BY PopStatuses
<1> HIDE DEF s
<1>5. \A m : m \in Travelling' <=>
               \/ m \in net
               \/ \E q \in Rank : \E k \in DOMAIN todo'[q] : todo'[q][k].msg = m /\ m # NoMessage
  BY DEF Travelling, Unmerged
<1>6. \A m \in net : m # NoMessage
  BY NoMessageAssumption DEF TypeOK
<1>7. ASSUME NEW m \in Travelling' PROVE m \in Travelling /\ m # s.msg
  <2>1. CASE m \in net
    <3>1. s.msg # NoMessage => s.msg \notin net
      BY <1>1 DEF MessagesDistinct
    <3> QED
      BY <1>6, <2>1, <3>1, TravellingMember
  <2>2. CASE m \notin net
    <3>a. PICK q \in Rank : \E k \in DOMAIN todo'[q] : todo'[q][k].msg = m /\ m # NoMessage
      BY <1>5, <1>7, <2>2
    <3>1. PICK k \in DOMAIN todo'[q] : todo'[q][k].msg = m /\ m # NoMessage
      BY <3>a
    <3>2. CASE q = r
      <4>1. PICK l \in DOMAIN todo[r] : l # 1 /\ todo'[r][k] = todo[r][l]
        BY <1>3, <3>1, <3>2
      <4> QED
        BY <1>1, <3>1, <3>2, <4>1, TravellingMember DEF MessagesDistinct
    <3>3. CASE q # r
      <4>1. k \in DOMAIN todo[q] /\ todo[q][k].msg = m
        BY <1>2, <3>1, <3>3
      <4>2. m.dst = q /\ (s.msg # NoMessage => s.msg.dst = r)
        BY <1>1, <3>1, <4>1 DEF MessagesDistinct
      <4> QED
        BY <3>1, <3>3, <4>1, <4>2, TravellingMember
    <3> QED
      BY <3>2, <3>3
  <2> QED
    BY <2>1, <2>2
<1>8. ASSUME NEW m \in Travelling, m # s.msg PROVE m \in Travelling'
  <2>1. CASE m \in net
    BY <1>5, <2>1
  <2>2. CASE m \notin net
    <3>a. PICK q \in Rank : \E k \in DOMAIN todo[q] : todo[q][k].msg = m /\ m # NoMessage
      BY <1>8, <2>2, TravellingMember
    <3>1. PICK k \in DOMAIN todo[q] : todo[q][k].msg = m /\ m # NoMessage
      BY <3>a
    <3>2. CASE q = r
      <4>1. k # 1
        BY <1>1, <1>8, <3>1, <3>2
      <4>2. PICK l \in DOMAIN todo'[r] : todo'[r][l] = todo[r][k]
        BY <1>4, <3>1, <3>2, <4>1
      <4> QED
        BY <1>5, <3>1, <3>2, <4>2
    <3>3. CASE q # r
      BY <1>2, <1>5, <3>1, <3>3
    <3> QED
      BY <3>2, <3>3
  <2> QED
    BY <2>1, <2>2
<1>9. Travelling' = Travelling \ {s.msg}
  BY <1>7, <1>8
<1>10. ASSUME NEW q \in Rank, NEW k \in DOMAIN todo'[q], todo'[q][k].msg # NoMessage
       PROVE  /\ todo'[q][k].msg.dst = q /\ todo'[q][k].msg \notin net
              /\ \A l \in DOMAIN todo'[q] : todo'[q][l].msg = todo'[q][k].msg => l = k
  <2>1. CASE q = r
    <3>1. k + 1 \in DOMAIN todo[r] /\ todo'[r][k] = todo[r][k + 1]
      BY <1>10, <2>1, PopTodo
    <3>2. todo[r][k + 1].msg.dst = r /\ todo[r][k + 1].msg \notin net
      BY <1>10, <2>1, <3>1 DEF MessagesDistinct
    <3>3. ASSUME NEW l \in DOMAIN todo'[r], todo'[r][l].msg = todo'[r][k].msg PROVE l = k
      <4>1. l + 1 \in DOMAIN todo[r] /\ todo'[r][l] = todo[r][l + 1]
        BY <3>3, PopTodo
      <4>2. l + 1 = k + 1
        BY <1>10, <2>1, <3>1, <3>3, <4>1 DEF MessagesDistinct
      <4>3. todo'[r] \in Seq(Status)
        BY HeadOfTodo DEF TypeOK
      <4>4. k \in Int /\ l \in Int
        BY <1>10, <2>1, <3>3, <4>3
      <4> QED
        BY <4>2, <4>4
    <3> QED
      BY <2>1, <3>1, <3>2, <3>3
  <2>2. CASE q # r
    BY <1>2, <1>10, <2>2 DEF MessagesDistinct
  <2> QED
    BY <2>1, <2>2
<1> QED
  BY <1>9, <1>10 DEF MessagesDistinct, s

LEMMA ReceivesMessages ==
  ASSUME TypeOK, HandleInv, MessagesDistinct, NEW r \in Rank, NEW op, Receives(r, op),
         pc[r] \in {"Idle", "SendrecvPosted"}
  PROVE  MessagesDistinct' /\ Travelling' = Travelling
<1>1. PICK m \in net :
        /\ m.dst = r
        /\ net' = net \ {m}
        /\ todo' = [todo EXCEPT ![r] = <<[slot |-> 1, idx |-> 1, h |-> NULL, msg |-> m]>>]
  BY DEF Receives
<1>2. todo[r] = <<>> /\ UNCHANGED nsent
  BY NoTodo DEF HandleInv, Receives
<1>3. \A q \in Rank : q # r => todo'[q] = todo[q]
  BY <1>1 DEF TypeOK
<1>4. DOMAIN todo'[r] = {1} /\ todo'[r][1].msg = m
  BY <1>1 DEF TypeOK
<1>5. net' = net \ {todo'[r][k].msg : k \in DOMAIN todo'[r]}
  BY <1>1, <1>4
<1> QED
  BY <1>1, <1>2, <1>3, <1>4, <1>5, DeliverMessages

LEMMA CompleteMessages ==
  ASSUME TypeOK, HandleInv, MessagesDistinct, NEW r \in Rank, NEW op, NEW a, NEW done, NEW n,
         Served(r, op, a, done, n), Complete(r, op, a, done, n)
  PROVE  MessagesDistinct' /\ Travelling' = Travelling
<1>1. PICK got \in Deliveries(r, a, done) :
        /\ net' = net \ {got[k] : k \in DOMAIN done}
        /\ todo' = [todo EXCEPT ![r] = [k \in DOMAIN done |->
             [slot |-> k, idx |-> done[k], h |-> a[done[k]], msg |-> got[k]]]]
  BY DEF Complete
<1>2. todo[r] = <<>> /\ UNCHANGED nsent
  BY NoTodo DEF HandleInv, Complete, Calls
<1>3. \A q \in Rank : q # r => todo'[q] = todo[q]
  BY <1>1 DEF TypeOK
<1>4. DOMAIN todo'[r] = DOMAIN done /\ \A k \in DOMAIN done : todo'[r][k].msg = got[k]
  BY <1>1 DEF TypeOK
<1>5. net' = net \ {todo'[r][k].msg : k \in DOMAIN todo'[r]}
  BY <1>1, <1>4
<1>6. \A k \in DOMAIN done : got[k] # NoMessage =>
        /\ got[k] \in net /\ got[k].dst = r
        /\ \A l \in DOMAIN done : got[l] = got[k] => l = k
  BY DEF Deliveries
<1>7. \A k \in DOMAIN todo'[r] : todo'[r][k].msg # NoMessage =>
           /\ todo'[r][k].msg \in net /\ todo'[r][k].msg.dst = r
           /\ \A l \in DOMAIN todo'[r] : todo'[r][l].msg = todo'[r][k].msg => l = k
  BY <1>4, <1>6
<1> QED
  BY <1>2, <1>3, <1>5, <1>7, DeliverMessages
--------------------------------------------------------------------------------
(* The refinement *)

(* The clocks and the messages as LamportClock sees them. *)
Clocks == [r \in Rank |-> EffectiveClock(r)]
Stamps == {Stamped(m) : m \in Travelling}

(* What a rank's clock is to the rules: in MPI_Send and in a collective it *)
(* ticks before the code does.                                             *)
LEMMA ClockOfRank ==
  ASSUME TypeOK, NEW r \in Rank
  PROVE  /\ pc[r] = "Send" => EffectiveClock(r) = Ticked(r, local_clock[r])
         /\ pc[r] = "Reduced" => EffectiveClock(r) = Ticked(r, coll_max)
         /\ pc[r] \notin {"Send", "Reduced"} => EffectiveClock(r) = local_clock[r]
  BY DEF EffectiveClock

(* A message is known by its stamp. *)
LEMMA StampInjective ==
  ASSUME MessagesDistinct, NEW m \in Travelling
  PROVE  {Stamped(x) : x \in Travelling \ {m}} = Stamps \ {Stamped(m)}
  BY DEF MessagesDistinct, Stamps, Stamped

LEMMA AbstractStutter ==
  ASSUME Clocks' = Clocks, Stamps' = Stamps, UNCHANGED <<sync_clock, nsent>>
  PROVE  UNCHANGED Abstract!lcVars
  BY DEF Abstract!lcVars, Clocks, Stamps, Travelling

(* Steps that the rules do not see. *)
LEMMA QuietRules ==
  ASSUME TypeOK, TypeOK', UNCHANGED <<sync_clock, nsent>>, Travelling' = Travelling,
         \A r \in Rank : EffectiveClock(r)' = EffectiveClock(r)
  PROVE  UNCHANGED Abstract!lcVars
<1>1. Clocks' = Clocks
  BY DEF Clocks
<1>2. Stamps' = Stamps
  BY DEF Stamps, Stamped
<1> QED
  BY <1>1, <1>2, AbstractStutter

LEMMA InitRules == Init => Abstract!LCInit
<1> SUFFICES ASSUME Init PROVE Abstract!LCInit
  OBVIOUS
<1>1. \A r \in Rank : EffectiveClock(r) = 10
  BY DEF Init, EffectiveClock, InitialClock
<1>2. Travelling = {}
  BY DEF Init, Travelling, Unmerged
<1> QED
  BY <1>1, <1>2 DEF Init, Abstract!LCInit, Travelling
(* A message leaves: the rule for a send. *)
LEMMA SendRules ==
  ASSUME TypeOK, MessagesDistinct, NEW r \in Rank, NEW d \in Rank, pc[r] = "Idle",
         Ship(r, d), UNCHANGED <<sync_clock, todo>>,
         EffectiveClock(r)' = Ticked(r, local_clock[r]),
         \A q \in Rank : q # r => EffectiveClock(q)' = EffectiveClock(q)
  PROVE  Abstract!SendRule(r, d)
<1>1. Travelling' = Travelling \union {Shipped(r, d)}
  BY ShipMessages
<1>2. EffectiveClock(r) = local_clock[r]
  BY ClockOfRank
<1>3. Stamped(Shipped(r, d)) = [src |-> r, seq |-> nsent[r], dst |-> d, stamp |-> Clocks[r]]
  BY <1>2 DEF Stamped, Shipped, Clocks
<1>4. Stamps' = Stamps \union {[src |-> r, seq |-> nsent[r], dst |-> d, stamp |-> Clocks[r]]}
  BY <1>1, <1>3 DEF Stamps, Stamped
<1>5. Clocks' = [Clocks EXCEPT ![r] = IF sync_clock[r] THEN @ + 1 ELSE @]
  BY <1>2 DEF Clocks, Ticked
<1>6. nsent' = [nsent EXCEPT ![r] = @ + 1]
  BY DEF Ship
<1> QED
  BY <1>4, <1>5, <1>6 DEF Abstract!SendRule, Abstract!After, Clocks, Stamps, Travelling

(* The loop merges a message: the rule for a receive. *)
LEMMA ReceiveRules ==
  ASSUME TypeOK, TypeOK', MessagesDistinct, NoSendrecv, NEW r \in Rank, SyncRecv(r)
  PROVE  Abstract!ReceiveRule(r)
<1> DEFINE s == Head(todo[r])
           m == s.msg
<1>1. /\ todo[r] # <<>> /\ m # NoMessage /\ SyncClockAt(r, s)
      /\ todo' = [todo EXCEPT ![r] = Tail(@)]
      /\ UNCHANGED <<net, nsent, sync_clock, pc, coll_max>>
      /\ pc[r] \in CompletionOps \union BlockingOps
  BY DEF SyncRecv, InLoop, mpiVars
<1>2. 1 \in DOMAIN todo[r] /\ s = todo[r][1]
  BY <1>1, PopTodo
<1>3. m \in Travelling /\ m.dst = r
  BY <1>1, <1>2, TravellingMember DEF MessagesDistinct
<1>4. Travelling' = Travelling \ {m}
  BY <1>1, PopMessages
<1>5. local_clock' = [local_clock EXCEPT ![r] = Merged(r, m.pb)]
  BY <1>1 DEF SyncClockAt
<1> HIDE DEF s, m
<1>6. Stamps' = Stamps \ {Stamped(m)}
  <2>1. Stamps' = {Stamped(x) : x \in Travelling \ {m}}
    BY <1>4 DEF Stamps, Stamped
  <2> QED
    BY <1>3, <2>1, StampInjective
<1>7. EffectiveClock(r) = local_clock[r] /\ EffectiveClock(r)' = Merged(r, m.pb)
  <2>1. pc[r] \notin {"Send", "Reduced"} /\ pc'[r] = pc[r] /\ local_clock'[r] = Merged(r, m.pb)
    BY <1>1, <1>5 DEF CompletionOps, WaitOps, TestOps, BlockingOps, TypeOK
  <2> QED
    BY <2>1 DEF EffectiveClock
<1>8. \A q \in Rank : q # r => EffectiveClock(q)' = EffectiveClock(q)
  BY <1>1, <1>5 DEF EffectiveClock, Ticked, TypeOK
<1>9. Clocks' = [Clocks EXCEPT ![r] =
                   IF sync_clock[r] THEN (IF @ <= m.pb THEN m.pb ELSE @) + 1 ELSE @]
  BY <1>7, <1>8 DEF Clocks, Merged
<1>10. Stamped(m) \in Stamps /\ Stamped(m).dst = r /\ Stamped(m).stamp = m.pb
  BY <1>3 DEF Stamps, Stamped
<1>11. UNCHANGED <<sync_clock, nsent>>
  BY <1>1
<1> QED
  BY <1>6, <1>9, <1>10, <1>11
     DEF Abstract!ReceiveRule, Abstract!MergeClock, Abstract!Larger, Clocks, Stamps, Travelling

(* PMPI_Allreduce has its result: the rule for a collective. *)
LEMMA CollectiveRules ==
  ASSUME TypeOK, TypeOK', MessagesDistinct, Allreduce
  PROVE  Abstract!CollectiveRule
<1>1. PICK q \in Rank :
        /\ \A r \in Rank : local_clock[r] <= local_clock[q]
        /\ coll_max' = local_clock[q]
  BY DEF Allreduce
<1>2. /\ \A r \in Rank : pc[r] = "Collective" /\ pc'[r] = "Reduced"
      /\ UNCHANGED <<net, todo, nsent, sync_clock>>
  BY DEF Allreduce, clmpiVars, mpiVars
<1>3. \A r \in Rank : /\ EffectiveClock(r) = local_clock[r]
                      /\ EffectiveClock(r)' = IF sync_clock[r] THEN local_clock[q] + 1
                                              ELSE local_clock[q]
  BY <1>1, <1>2 DEF EffectiveClock, Ticked
<1>4. Travelling' = Travelling
  BY <1>2, QuietMessages
<1>5. Stamps' = Stamps
  BY <1>4 DEF Stamps, Stamped
<1>6. Clocks' = [r \in Rank |-> IF sync_clock[r] THEN Clocks[q] + 1 ELSE Clocks[q]]
  BY <1>3 DEF Clocks
<1>7. Clocks[q] \in {Clocks[r] : r \in Rank} /\ \A r \in Rank : Clocks[r] <= Clocks[q]
  BY <1>1, <1>3 DEF Clocks
<1> QED
  BY <1>2, <1>5, <1>6, <1>7
     DEF Abstract!CollectiveRule, Abstract!After, Clocks, Stamps, Travelling

(* The tool above sets or switches the clock of a rank that is in no       *)
(* wrapper.                                                                *)
LEMMA ClientRules ==
  ASSUME TypeOK, TypeOK', MessagesDistinct, NEW r \in Rank
  PROVE  /\ ClockControl(r) => Abstract!Switch(r)
         /\ \A c \in ClientClock : SyncClock(r, c) => Abstract!ClientMerge(r)
         /\ \A c \in ClientClock : SetPbClock(r, c) => Abstract!ClientRebase(r)
<1>1. ASSUME pc[r] = "Idle", UNCHANGED <<net, todo, nsent, pc, coll_max>>
      PROVE  /\ Stamps' = Stamps
             /\ EffectiveClock(r) = local_clock[r] /\ EffectiveClock(r)' = local_clock'[r]
             /\ \A q \in Rank : local_clock'[q] = local_clock[q]
                                /\ (q # r => sync_clock'[q] = sync_clock[q])
                                => EffectiveClock(q)' = EffectiveClock(q)
  <2>1. Travelling' = Travelling
    BY <1>1, QuietMessages
  <2>2. Stamps' = Stamps
    BY <2>1 DEF Stamps, Stamped
  <2> QED
    BY <1>1, <2>2 DEF EffectiveClock, Ticked
<1>2. ASSUME ClockControl(r) PROVE Abstract!Switch(r)
  <2>1. /\ pc[r] = "Idle" /\ UNCHANGED <<net, todo, nsent, pc, coll_max, local_clock>>
        /\ sync_clock' = [sync_clock EXCEPT ![r] = ~ @]
    BY <1>2 DEF ClockControl, Calls, mpiVars, ctlVars
  <2>2. \A q \in Rank : EffectiveClock(q)' = EffectiveClock(q)
    BY <1>1, <2>1 DEF TypeOK
  <2>3. Clocks' = Clocks
    BY <2>2 DEF Clocks
  <2>4. (~ sync_clock[r]) \in BOOLEAN
    BY DEF TypeOK
  <2> QED
    BY <1>1, <2>1, <2>3, <2>4 DEF Abstract!Switch, Clocks, Stamps, Travelling
<1>3. ASSUME NEW c \in ClientClock, SyncClock(r, c) PROVE Abstract!ClientMerge(r)
  <2>1. /\ pc[r] = "Idle" /\ UNCHANGED <<net, todo, nsent, pc, coll_max, sync_clock>>
        /\ local_clock' = [local_clock EXCEPT ![r] = Merged(r, c)]
    BY <1>3 DEF SyncClock, Calls, mpiVars, ctlVars
  <2>2. /\ EffectiveClock(r) = local_clock[r] /\ EffectiveClock(r)' = Merged(r, c)
        /\ \A q \in Rank : q # r => EffectiveClock(q)' = EffectiveClock(q)
    BY <1>1, <2>1 DEF TypeOK
  <2>3. Clocks' = [Clocks EXCEPT ![r] =
                     IF sync_clock[r] THEN (IF @ <= c THEN c ELSE @) + 1 ELSE @]
    BY <2>2 DEF Clocks, Merged
  <2> QED
    BY <1>1, <2>1, <2>3
       DEF Abstract!ClientMerge, Abstract!MergeClock, Abstract!Larger, Clocks, Stamps, Travelling
<1>4. ASSUME NEW c \in ClientClock, SetPbClock(r, c) PROVE Abstract!ClientRebase(r)
  <2>1. /\ pc[r] = "Idle" /\ UNCHANGED <<net, todo, nsent, pc, coll_max, sync_clock>>
        /\ local_clock' = [local_clock EXCEPT ![r] = c] /\ local_clock[r] < c
    BY <1>4 DEF SetPbClock, Calls, mpiVars, ctlVars
  <2>2. /\ EffectiveClock(r) = local_clock[r] /\ EffectiveClock(r)' = c
        /\ \A q \in Rank : q # r => EffectiveClock(q)' = EffectiveClock(q)
    BY <1>1, <2>1 DEF TypeOK
  <2>3. Clocks[r] < c /\ Clocks' = [Clocks EXCEPT ![r] = c]
    BY <2>1, <2>2 DEF Clocks
  <2> QED
    BY <1>1, <2>1, <2>3 DEF Abstract!ClientRebase, Clocks, Stamps, Travelling
<1> QED
  BY <1>2, <1>3, <1>4
(* A rank moves between places where its clock is the one of the code.     *)
LEMMA MoveRules ==
  ASSUME TypeOK, TypeOK', NEW r \in Rank, UNCHANGED <<sync_clock, nsent, local_clock, coll_max>>,
         Travelling' = Travelling,
         \A q \in Rank : q # r => pc'[q] = pc[q],
         pc[r] \notin {"Send", "Reduced"}, pc'[r] \notin {"Send", "Reduced"}
  PROVE  UNCHANGED Abstract!lcVars
<1>1. \A q \in Rank : EffectiveClock(q)' = EffectiveClock(q)
  BY DEF EffectiveClock, Ticked
<1> QED
  BY <1>1, QuietRules

(* The wrapper returns, and the clock ticks in the code as well.           *)
LEMMA ReturnRules ==
  ASSUME TypeOK, TypeOK', MessagesDistinct, NEW r \in Rank, SendReturns(r) \/ CollectiveReturns(r)
  PROVE  MessagesDistinct' /\ UNCHANGED Abstract!lcVars
<1>1. UNCHANGED <<net, todo, nsent, sync_clock, coll_max>>
  BY DEF SendReturns, CollectiveReturns, mpiVars
<1>2. MessagesDistinct' /\ Travelling' = Travelling
  BY <1>1, QuietMessages
<1>3. pc' = [pc EXCEPT ![r] = "Idle"]
  BY DEF SendReturns, CollectiveReturns, Goto
<1>4. \A q \in Rank : q # r => local_clock'[q] = local_clock[q] /\ pc'[q] = pc[q]
  BY <1>3 DEF SendReturns, CollectiveReturns, TickAfterSend, TypeOK
<1>5. local_clock'[r] = EffectiveClock(r)
  BY ClockOfRank DEF SendReturns, CollectiveReturns, TickAfterSend, TypeOK
<1>6. EffectiveClock(r)' = local_clock'[r]
  BY <1>3 DEF EffectiveClock, TypeOK
<1>7. \A q \in Rank : q # r => EffectiveClock(q)' = EffectiveClock(q)
  BY <1>1, <1>4 DEF EffectiveClock, Ticked
<1> QED
  BY <1>1, <1>2, <1>5, <1>6, <1>7, QuietRules

(* Every step keeps messages apart, and is a step of the rules or none.    *)
LEMMA StepRules ==
  ASSUME "Sendrecv" \notin Ops, TypeOK, TypeOK', HandleInv, NoSendrecv, MessagesDistinct,
         [Next]_vars
  PROVE  MessagesDistinct' /\ [Abstract!LCNext]_(Abstract!lcVars)
<1> DEFINE Kept == MessagesDistinct' /\ [Abstract!LCNext]_(Abstract!lcVars)
<1> USE DEF Goto
<1>1. ASSUME NEW r \in Rank, NEW d \in Rank, Ship(r, d), pc[r] = "Idle",
             UNCHANGED <<sync_clock, todo>>,
             EffectiveClock(r)' = Ticked(r, local_clock[r]),
             \A q \in Rank : q # r => EffectiveClock(q)' = EffectiveClock(q)
      PROVE  Kept
  BY <1>1, ShipMessages, SendRules DEF Abstract!LCNext
<1>2. ASSUME NEW r \in Rank, NEW d \in Rank, MPI_Send(r, d) PROVE Kept
  <2>1. /\ pc[r] = "Idle" /\ Ship(r, d) /\ pc' = [pc EXCEPT ![r] = "Send"]
        /\ UNCHANGED <<sync_clock, local_clock, todo, coll_max>>
    BY <1>2 DEF MPI_Send, Calls, clmpiVars
  <2>2. /\ EffectiveClock(r)' = Ticked(r, local_clock[r])
        /\ \A q \in Rank : q # r => EffectiveClock(q)' = EffectiveClock(q)
    BY <2>1 DEF EffectiveClock, Ticked, TypeOK
  <2> QED
    BY <1>1, <2>1, <2>2
<1>3. ASSUME NEW r \in Rank, NEW d \in Rank, MPI_Isend(r, d) PROVE Kept
  <2>1. /\ pc[r] = "Idle" /\ Ship(r, d)
        /\ local_clock' = [local_clock EXCEPT ![r] = Ticked(r, @)]
        /\ UNCHANGED <<sync_clock, todo, coll_max, pc>>
    BY <1>3 DEF MPI_Isend, Calls, TickAfterSend, ctlVars
  <2>2. /\ EffectiveClock(r)' = Ticked(r, local_clock[r])
        /\ \A q \in Rank : q # r => EffectiveClock(q)' = EffectiveClock(q)
    BY <2>1 DEF EffectiveClock, Ticked, TypeOK
  <2> QED
    BY <1>1, <2>1, <2>2
<1>4. ASSUME NEW r \in Rank, NEW d \in Rank PROVE ~ MPI_Sendrecv(r, d)
  BY DEF MPI_Sendrecv, Calls
<1>5. ASSUME NEW r \in Rank, UNCHANGED <<sync_clock, nsent, local_clock, coll_max>>,
             MessagesDistinct', Travelling' = Travelling,
             NEW where, pc' = [pc EXCEPT ![r] = where],
             pc[r] \notin {"Send", "Reduced"}, where \notin {"Send", "Reduced"}
      PROVE  Kept
  <2>1. pc'[r] = where /\ \A q \in Rank : q # r => pc'[q] = pc[q]
    BY <1>5 DEF TypeOK
  <2> QED
    BY <1>5, <2>1, MoveRules
<1>6. ASSUME UNCHANGED <<sync_clock, nsent, local_clock, coll_max, pc, net, todo>> PROVE Kept
  <2>1. MessagesDistinct' /\ Travelling' = Travelling
    BY <1>6, QuietMessages
  <2>2. \A q \in Rank : EffectiveClock(q)' = EffectiveClock(q)
    BY <1>6 DEF EffectiveClock, Ticked
  <2> QED
    BY <1>6, <2>1, <2>2, QuietRules
<1>7. ASSUME NEW r \in Rank, MPI_Irecv(r) PROVE Kept
  BY <1>6, <1>7 DEF MPI_Irecv, ctlVars
<1>8. ASSUME NEW r \in Rank, MPI_Recv(r) \/ SendrecvReceives(r) PROVE Kept
  <2>1. Receives(r, "Recv") /\ pc[r] = "Idle"
    BY <1>8 DEF MPI_Recv, SendrecvReceives, Calls, NoSendrecv
  <2>2. MessagesDistinct' /\ Travelling' = Travelling
    BY <2>1, ReceivesMessages
  <2>3. /\ UNCHANGED <<sync_clock, nsent, local_clock, coll_max>>
        /\ pc' = [pc EXCEPT ![r] = "Recv"]
    BY <2>1 DEF Receives, clmpiVars
  <2> QED
    BY <1>5, <2>1, <2>2, <2>3
<1>9. ASSUME NEW r \in Rank, Unregistered(r) \/ LoopExits(r) \/ CollectiveSync(r) \/ Returns(r)
      PROVE  Kept
  <2>1. UNCHANGED <<sync_clock, nsent, local_clock, coll_max, net, todo>>
    BY <1>9 DEF Unregistered, LoopExits, CollectiveSync, Returns, clmpiVars, mpiVars
  <2>2. MessagesDistinct' /\ Travelling' = Travelling
    BY <2>1, QuietMessages
  <2>3. pc[r] \in CompletionOps \union BlockingOps \union {"Idle"}
    BY <1>9 DEF Unregistered, LoopExits, CollectiveSync, Returns, InLoop, Calls
  <2>4. \E where \in {"Exited", "Collective", "Idle"} : pc' = [pc EXCEPT ![r] = where]
    BY <1>9 DEF Unregistered, LoopExits, CollectiveSync, Returns
  <2>5. pc[r] \notin {"Send", "Reduced"}
    BY <2>3 DEF CompletionOps, WaitOps, TestOps, BlockingOps
  <2> QED
    BY <1>5, <2>1, <2>2, <2>4, <2>5
<1>10. ASSUME NEW r \in Rank, Completes(r) PROVE Kept
  <2>1. CASE Unregistered(r)
    BY <1>9, <2>1
  <2>2. CASE ~ Unregistered(r)
    <3>1. PICK op, a, done, n : Served(r, op, a, done, n) /\ Complete(r, op, a, done, n)
      BY <1>10, <2>2, CompletesServed
    <3>2. MessagesDistinct' /\ Travelling' = Travelling
      BY <3>1, CompleteMessages
    <3>3. /\ pc[r] = "Idle" /\ pc' = [pc EXCEPT ![r] = op]
          /\ UNCHANGED <<sync_clock, nsent, local_clock, coll_max>>
      BY <3>1 DEF Complete, Calls
    <3>4. op \notin {"Send", "Reduced"}
      BY <3>1 DEF Served, CompletionOps, WaitOps, TestOps
    <3> QED
      BY <1>5, <3>2, <3>3, <3>4
  <2> QED
    BY <2>1, <2>2
<1>11. ASSUME NEW r \in Rank, SendReturns(r) \/ CollectiveReturns(r) PROVE Kept
  BY <1>11, ReturnRules
<1>12. ASSUME NEW r \in Rank, SyncRecv(r) PROVE Kept
  <2>1. MessagesDistinct'
    BY <1>12, PopMessages DEF SyncRecv, InLoop, mpiVars
  <2> QED
    BY <1>12, <2>1, ReceiveRules DEF Abstract!LCNext
<1>13. ASSUME NEW r \in Rank, SyncSend(r) PROVE Kept
  <2>1. /\ todo[r] # <<>> /\ Head(todo[r]).msg = NoMessage
        /\ todo' = [todo EXCEPT ![r] = Tail(@)]
        /\ UNCHANGED <<net, nsent, sync_clock, local_clock, coll_max, pc>>
    BY <1>13 DEF SyncSend, InLoop, mpiVars
  <2>2. MessagesDistinct' /\ Travelling' = Travelling \ {NoMessage}
    BY <2>1, PopMessages
  <2>3. NoMessage \notin Travelling
    BY NoMessageAssumption DEF MessagesDistinct
  <2>4. \A q \in Rank : EffectiveClock(q)' = EffectiveClock(q)
    BY <2>1 DEF EffectiveClock, Ticked
  <2> QED
    BY <2>1, <2>2, <2>3, <2>4, QuietRules
<1>14. ASSUME NEW r \in Rank, ClockControl(r) PROVE Kept
  <2>1. MessagesDistinct'
    BY <1>14, QuietMessages DEF ClockControl, mpiVars, ctlVars
  <2> QED
    BY <1>14, <2>1, ClientRules DEF Abstract!LCNext
<1>15. ASSUME NEW r \in Rank, NEW n \in 1..MaxCount, RegisterRecvClocks(r, n) PROVE Kept
  BY <1>6, <1>15 DEF RegisterRecvClocks, mpiVars, ctlVars
<1>16. ASSUME NEW r \in Rank, NEW c \in ClientClock, SyncClock(r, c) \/ SetPbClock(r, c)
       PROVE  Kept
  <2>1. MessagesDistinct'
    BY <1>16, QuietMessages DEF SyncClock, SetPbClock, mpiVars, ctlVars
  <2> QED
    BY <1>16, <2>1, ClientRules DEF Abstract!LCNext
<1>17. CASE Allreduce
  <2>1. MessagesDistinct'
    BY <1>17, QuietMessages DEF Allreduce, mpiVars
  <2> QED
    BY <1>17, <2>1, CollectiveRules DEF Abstract!LCNext
<1>18. CASE UNCHANGED vars
  BY <1>6, <1>18 DEF vars, clmpiVars, mpiVars, ctlVars
<1> QED
  BY <1>2, <1>3, <1>4, <1>7, <1>8, <1>9, <1>10, <1>11, <1>12, <1>13, <1>14, <1>15, <1>16,
     <1>17, <1>18 DEF Next, Continues

(* Clmpi implements the rules of README.md (module LamportClock), when the *)
(* application does not call MPI_Sendrecv: every step of the wrappers is a *)
(* send, a receive, a collective or a step of the tool as the rules have   *)
(* it, or invisible to them.                                               *)
THEOREM RulesImplemented ==
  ASSUME "Sendrecv" \notin Ops
  PROVE  Spec => ImplementsRules
<1> DEFINE IInv == TypeOK /\ HandleInv /\ NoSendrecv /\ MessagesDistinct
<1>1. Init => IInv
  <2>1. Init => NoSendrecv
    BY DEF Init, NoSendrecv
  <2> QED
    BY <2>1, InitType, InitHandle, InitMessages
<1>2. IInv /\ [Next]_vars => IInv' /\ [Abstract!LCNext]_(Abstract!lcVars)
  BY StepType, StepHandle, StepNoSendrecv, StepRules
<1> QED
  BY <1>1, <1>2, InitRules, PTL DEF Spec, ImplementsRules, Abstract!LCSpec
================================================================================
