----------------------------- MODULE ThreadsProofs -----------------------------
(***************************************************************************)
(* Proofs about module Threads, for any number of processes and threads    *)
(* and any programs: the types, the exclusion that the mutex gives, that   *)
(* no message brings a clock older than its own send, and that it brings   *)
(* exactly that of its send where one thread of the process sends.         *)
(***************************************************************************)
EXTENDS Threads, TLAPS

(* The thread that is inside a locked call owns the mutex of its process.  *)
LockOwner == \A t \in Thread : Inside(t) => mutex[RankOf[t]] = t

(* The buffer holds the last PBSET of its process, every send in progress  *)
(* and every message on its way has a PBSET of its own that is not newer,  *)
(* and a clock that was read is not older than it.                         *)
Fresh ==
  /\ \A r \in Rank : outbuffer[r] = nset[r]
  /\ \A t \in Thread : own[t] <= nset[RankOf[t]]
  /\ \A m \in net : /\ m.own <= nset[RankOf[m.from]]
                    /\ m.clock /= Unread => m.clock >= m.own

IInv == TypeOK /\ LockOwner /\ Fresh /\ NotStale

--------------------------------------------------------------------------------

(* The initial states satisfy the inductive invariant. *)
LEMMA InitIInv == Init => IInv
  <1> SUFFICES ASSUME Init PROVE IInv
    OBVIOUS
  <1>1. TypeOK
    BY ThreadsAssumption DEF Init, TypeOK
  <1>2. LockOwner
    BY DEF Init, LockOwner, Inside
  <1>3. Fresh
    BY ThreadsAssumption DEF Init, Fresh
  <1>4. NotStale
    BY DEF Init, NotStale
  <1> QED
    BY <1>1, <1>2, <1>3, <1>4 DEF IInv

(* A step keeps the types. *)
LEMMA StepTypeOK ==
  ASSUME TypeOK, NEW t \in Thread, Step(t)
  PROVE  TypeOK'
  <1> USE ThreadsAssumption
  <1> RankOf[t] \in Rank
    OBVIOUS
  <1>1. CASE PBSET(t)
    BY <1>1 DEF TypeOK, PBSET, Filled, Calls, Done
  <1>2. CASE Enter(t)
    <2>1. mutex' \in [Rank -> Thread \union {Free}]
      BY <1>2 DEF TypeOK, Enter, Lock
    <2>2. \A r \in Rank : mutex'[r] /= Free => RankOf[mutex'[r]] = r
      BY <1>2 DEF TypeOK, Enter, Lock
    <2> QED
      BY <1>2, <2>1, <2>2 DEF TypeOK, Enter, Done
  <1>3. ASSUME NEW sync \in BOOLEAN, PMPI_Send(t, sync) PROVE TypeOK'
    <2>1. /\ own[t] \in Nat
          /\ (IF ReadsLate(t, sync) THEN Unread ELSE outbuffer[RankOf[t]]) \in Nat
      BY DEF TypeOK, Unread
    <2>2. \A m \in net' : m.from \in Thread /\ m.own \in Nat /\ m.clock \in Nat
      BY <1>3, <2>1 DEF TypeOK, PMPI_Send
    <2>3. pc' \in [Thread -> {"ready", "set", "inside", "blocked", "leave"}]
      BY <1>3 DEF TypeOK, PMPI_Send
    <2> QED
      BY <1>3, <2>2, <2>3 DEF TypeOK, PMPI_Send, Calls, Done
  <1>4. CASE PMPI_SendReturns(t)
    BY <1>4 DEF TypeOK, PMPI_SendReturns, Done
  <1>5. CASE PMPI_Recv(t)
    <2>1. PICK m \in net :
            /\ net' = net \ {m}
            /\ got' = got \union {[from |-> m.from, n |-> m.n, own |-> m.own,
                                   clock |-> ClockOf(m)]}
      BY <1>5 DEF PMPI_Recv
    <2>2. m.from \in Thread /\ m.own \in Nat /\ ClockOf(m) \in Nat
      BY DEF TypeOK, ClockOf
    <2>3. \A g \in got' : g.from \in Thread /\ g.own \in Nat /\ g.clock \in Nat
      BY <2>1, <2>2 DEF TypeOK
    <2>4. pc' \in [Thread -> {"ready", "set", "inside", "blocked", "leave"}]
      BY <1>5 DEF TypeOK, PMPI_Recv
    <2> QED
      BY <1>5, <2>1, <2>3, <2>4 DEF TypeOK, PMPI_Recv, Calls, Done
  <1>6. CASE Leave(t)
    <2>1. \A u \in Thread : u /= t => (Done(u)' <=> Done(u))
      BY <1>6 DEF TypeOK, Leave, Done
    <2>2. \A u \in Thread : Done(u)' => pc'[u] = "ready"
      BY <1>6, <2>1 DEF TypeOK, Leave
    <2> QED
      BY <1>6, <2>2 DEF TypeOK, Leave, Unlock
  <1> QED
    BY <1>1, <1>2, <1>3, <1>4, <1>5, <1>6 DEF Step

(* Whoever enters a locked call owns the mutex, and only its owner gives   *)
(* it back.                                                                *)
LEMMA StepLockOwner ==
  ASSUME TypeOK, LockOwner, NEW t \in Thread, Step(t)
  PROVE  LockOwner'
  <1> SUFFICES ASSUME NEW u \in Thread, Inside(u)' PROVE mutex'[RankOf[u]] = u
    BY ThreadsAssumption DEF LockOwner
  <1> USE ThreadsAssumption DEF TypeOK
  <1>1. CASE PBSET(t)
    <2>1. u /= t /\ Inside(u) /\ mutex' = mutex
      BY <1>1 DEF PBSET, Inside, Calls, Done, Call
    <2> QED
      BY <2>1 DEF LockOwner
  <1>2. CASE Enter(t)
    <2>1. CASE u = t
      BY <1>2, <2>1 DEF Enter, Lock, Inside, Calls, Done, Call
    <2>2. CASE u /= t
      <3>1. Inside(u)
        BY <1>2, <2>2 DEF Enter, Inside, Calls, Done, Call
      <3>2. mutex[RankOf[u]] = u
        BY <3>1 DEF LockOwner
      <3> QED
        BY <1>2, <3>2 DEF Enter, Lock
    <2> QED
      BY <2>1, <2>2
  <1>3. ASSUME NEW sync \in BOOLEAN, PMPI_Send(t, sync) PROVE mutex'[RankOf[u]] = u
    <2>1. Inside(u) /\ mutex' = mutex
      BY <1>3 DEF PMPI_Send, Inside, Calls, Done, Call
    <2> QED
      BY <2>1 DEF LockOwner
  <1>4. CASE PMPI_SendReturns(t)
    <2>1. Inside(u) /\ mutex' = mutex
      BY <1>4 DEF PMPI_SendReturns, Inside, Calls, Done, Call
    <2> QED
      BY <2>1 DEF LockOwner
  <1>5. CASE PMPI_Recv(t)
    <2>1. Inside(u) /\ mutex' = mutex
      BY <1>5 DEF PMPI_Recv, Inside, Calls, Done, Call
    <2> QED
      BY <2>1 DEF LockOwner
  <1>6. CASE Leave(t)
    <2>1. u /= t /\ Inside(u)
      BY <1>6 DEF Leave, Inside, Calls, Done, Call
    <2>2. mutex[RankOf[u]] = u
      BY <2>1 DEF LockOwner
    <2>3. CASE Call(t) \in Locked
      <3>1. ~ Done(t)
        BY <1>6 DEF Leave
      <3>2. mutex[RankOf[t]] = t
        BY <1>6, <2>3, <3>1 DEF Leave, Inside, Calls, LockOwner
      <3> QED
        BY <1>6, <2>1, <2>2, <3>2 DEF Leave, Unlock
    <2>4. CASE Call(t) \notin Locked
      BY <1>6, <2>2, <2>4 DEF Leave, Unlock
    <2> QED
      BY <2>3, <2>4
  <1> QED
    BY <1>1, <1>2, <1>3, <1>4, <1>5, <1>6 DEF Step

(* The clock that a receive takes from a message is not older than the     *)
(* PBSET of its send.                                                      *)
LEMMA ClockNotOlder ==
  ASSUME TypeOK, Fresh, NEW m \in net
  PROVE  ClockOf(m) >= m.own
  BY ThreadsAssumption DEF TypeOK, Fresh, ClockOf

(* PBSET only ever puts a newer clock in the buffer, and what is read from *)
(* the buffer stays.                                                       *)
LEMMA StepFresh ==
  ASSUME TypeOK, Fresh, NotStale, NEW t \in Thread, Step(t)
  PROVE  Fresh' /\ NotStale'
  <1> USE ThreadsAssumption
  <1>1. CASE PBSET(t)
    <2>1. \A r \in Rank : outbuffer'[r] = nset'[r] /\ nset[r] <= nset'[r]
      BY <1>1 DEF TypeOK, Fresh, PBSET, Filled
    <2>2. \A u \in Thread : own'[u] <= nset'[RankOf[u]]
      BY <1>1, <2>1 DEF TypeOK, Fresh, PBSET
    <2>3. \A m \in net' : /\ m.own <= nset'[RankOf[m.from]]
                          /\ m.clock /= Unread => m.clock >= m.own
      BY <1>1, <2>1 DEF TypeOK, Fresh, PBSET
    <2> QED
      BY <1>1, <2>1, <2>2, <2>3 DEF Fresh, NotStale, PBSET
  <1>2. CASE Enter(t)
    BY <1>2 DEF Fresh, NotStale, Enter
  <1>3. ASSUME NEW sync \in BOOLEAN, PMPI_Send(t, sync) PROVE Fresh' /\ NotStale'
    <2> DEFINE clock == IF ReadsLate(t, sync) THEN Unread ELSE outbuffer[RankOf[t]]
    <2>1. own[t] <= nset[RankOf[t]] /\ (clock /= Unread => clock >= own[t])
      BY DEF TypeOK, Fresh
    <2>2. \A m \in net' : /\ m.own <= nset[RankOf[m.from]]
                          /\ m.clock /= Unread => m.clock >= m.own
      BY <1>3, <2>1 DEF Fresh, PMPI_Send
    <2> QED
      BY <1>3, <2>2 DEF Fresh, NotStale, PMPI_Send
  <1>4. CASE PMPI_SendReturns(t)
    BY <1>4 DEF Fresh, NotStale, PMPI_SendReturns
  <1>5. CASE PMPI_Recv(t)
    <2>1. PICK m \in net :
            /\ net' = net \ {m}
            /\ got' = got \union {[from |-> m.from, n |-> m.n, own |-> m.own,
                                   clock |-> ClockOf(m)]}
      BY <1>5 DEF PMPI_Recv
    <2>2. NotStale'
      BY <2>1, ClockNotOlder DEF NotStale
    <2> QED
      BY <1>5, <2>1, <2>2 DEF Fresh, PMPI_Recv
  <1>6. CASE Leave(t)
    BY <1>6 DEF Fresh, NotStale, Leave
  <1> QED
    BY <1>1, <1>2, <1>3, <1>4, <1>5, <1>6 DEF Step

(* Every step, and every stuttering step, keeps the inductive invariant.   *)
LEMMA StepIInv == IInv /\ [Next]_vars => IInv'
  <1> SUFFICES ASSUME IInv, [Next]_vars PROVE IInv'
    OBVIOUS
  <1>1. ASSUME NEW t \in Thread, Step(t) PROVE IInv'
    BY <1>1, StepTypeOK, StepLockOwner, StepFresh DEF IInv
  <1>2. CASE UNCHANGED vars
    BY <1>2 DEF IInv, vars, TypeOK, LockOwner, Fresh, NotStale, Inside, Calls, Done, Call
  <1> QED
    BY <1>1, <1>2 DEF Next

(* The owner of a mutex is one, so only one thread is inside.              *)
LEMMA IInvExclusive == IInv => LockExclusive
  BY DEF IInv, LockOwner, LockExclusive

(* In every run the state variables keep their types: in particular the    *)
(* mutex of a process is only owned by threads of it.                      *)
THEOREM ThreadsTypeCorrect == Spec => []TypeOK
  <1>1. IInv => TypeOK
    BY DEF IInv
  <1> QED
    BY InitIInv, StepIInv, <1>1, PTL DEF Spec

(* In every run no two threads of a process are between the lock and the   *)
(* unlock of MPI_Send and MPI_Recv.                                        *)
THEOREM Exclusion == Spec => []LockExclusive
  BY InitIInv, StepIInv, IInvExclusive, PTL DEF Spec

(* In every run a message brings a clock that was set for its own send or  *)
(* later, although PBSET and the nonblocking sends take no lock.           *)
THEOREM NeverStale == Spec => []NotStale
  <1>1. IInv => NotStale
    BY DEF IInv
  <1> QED
    BY InitIInv, StepIInv, <1>1, PTL DEF Spec
--------------------------------------------------------------------------------
(* One sending thread per process. *)

(* A thread that sends and has not called MPI yet has done a PBSET.        *)
SetFirst ==
  \A t \in Thread :
    pc[t] = "set" \/ (pc[t] = "inside" /\ Calls(t, SendCalls)) => own[t] > 0

(* The last PBSET of the process is that of its only sender; a message     *)
(* whose clock is unread is the one its sender is blocked in.              *)
SoleSender ==
  /\ \A t \in Thread : Alone(t) => own[t] = nset[RankOf[t]]
  /\ \A m \in net : Alone(m.from) =>
       IF m.clock = Unread
       THEN pc[m.from] = "blocked" /\ m.n = pos[m.from] /\ m.own = own[m.from]
       ELSE m.clock = m.own

AloneInv == IInv /\ SetFirst /\ SoleSender /\ ExactWhenAlone

LEMMA InitAlone == Init => AloneInv
  <1> SUFFICES ASSUME Init PROVE AloneInv
    OBVIOUS
  <1>1. SetFirst
    BY DEF Init, SetFirst
  <1>2. SoleSender
    BY ThreadsAssumption DEF Init, SoleSender
  <1>3. ExactWhenAlone
    BY DEF Init, ExactWhenAlone
  <1> QED
    BY InitIInv, <1>1, <1>2, <1>3 DEF AloneInv

(* PBSET is the only way from "ready" into a send.                         *)
LEMMA StepSetFirst ==
  ASSUME TypeOK, SetFirst, NEW t \in Thread, Step(t)
  PROVE  SetFirst'
  <1> USE ThreadsAssumption DEF TypeOK
  <1>1. CASE PBSET(t)
    BY <1>1 DEF SetFirst, PBSET, Calls, Done, Call
  <1>2. CASE Enter(t)
    BY <1>2 DEF SetFirst, Enter, Calls, Done, Call
  <1>3. ASSUME NEW sync \in BOOLEAN, PMPI_Send(t, sync) PROVE SetFirst'
    BY <1>3 DEF SetFirst, PMPI_Send, Calls, Done, Call
  <1>4. CASE PMPI_SendReturns(t)
    BY <1>4 DEF SetFirst, PMPI_SendReturns, Calls, Done, Call
  <1>5. CASE PMPI_Recv(t)
    BY <1>5 DEF SetFirst, PMPI_Recv, Calls, Done, Call
  <1>6. CASE Leave(t)
    BY <1>6 DEF SetFirst, Leave, Calls, Done, Call
  <1> QED
    BY <1>1, <1>2, <1>3, <1>4, <1>5, <1>6 DEF Step

(* A thread that calls a send is one that sends: where another thread is   *)
(* the only sender, it belongs to another process.                         *)
LEMMA OtherSender ==
  ASSUME TypeOK, NEW t \in Thread, NEW u \in Thread, Calls(u, SendCalls), Alone(t),
         RankOf[u] = RankOf[t]
  PROVE  u = t
  <1>1. pos[u] \in 1..Len(prog[u]) /\ prog[u][pos[u]].call \in SendCalls
    BY DEF TypeOK, Calls, Done, Call
  <1>2. Sends(u)
    BY <1>1 DEF Sends
  <1> QED
    BY <1>2 DEF Alone

(* A message whose sender is alone brings the clock of its send.           *)
LEMMA ClockExact ==
  ASSUME TypeOK, Fresh, SoleSender, NEW m \in net, Alone(m.from)
  PROVE  ClockOf(m) = m.own
  BY ThreadsAssumption DEF TypeOK, Fresh, SoleSender, ClockOf

LEMMA StepAlone ==
  ASSUME TypeOK, Fresh, SetFirst, SoleSender, ExactWhenAlone,
         NEW t \in Thread, Step(t)
  PROVE  SoleSender' /\ ExactWhenAlone'
  <1> USE ThreadsAssumption
  <1>1. prog' = prog
    BY DEF Step, PBSET, Enter, PMPI_Send, PMPI_SendReturns, PMPI_Recv, Leave
  <1>2. \A u : Alone(u)' <=> Alone(u)
    BY <1>1 DEF Alone, Sends
  <1>3. CASE PBSET(t)
    <2>1. \A u \in Thread : Alone(u) /\ RankOf[t] = RankOf[u] => t = u
      BY <1>3, OtherSender DEF PBSET
    <2>2. \A u \in Thread : Alone(u) => own'[u] = nset'[RankOf[u]]
      BY <1>3, <2>1 DEF PBSET, SoleSender, TypeOK
    <2>3. \A m \in net : m.clock = Unread /\ Alone(m.from) => m.from /= t
      BY <1>3 DEF PBSET, SoleSender
    <2> QED
      BY <1>2, <1>3, <2>2, <2>3 DEF PBSET, SoleSender, ExactWhenAlone, TypeOK
  <1>4. CASE Enter(t)
    <2>1. pc[t] \in {"set", "ready"}
      BY <1>4 DEF Enter
    <2> QED
      BY <1>2, <1>4, <2>1 DEF Enter, SoleSender, ExactWhenAlone, TypeOK
  <1>5. ASSUME NEW sync \in BOOLEAN, PMPI_Send(t, sync)
        PROVE  SoleSender' /\ ExactWhenAlone'
    <2> DEFINE new == [from |-> t, n |-> pos[t], to |-> prog[t][pos[t]].to, own |-> own[t],
                       clock |-> IF ReadsLate(t, sync) THEN Unread ELSE outbuffer[RankOf[t]]]
    <2>1. net' = net \union {new}
      BY <1>5 DEF PMPI_Send
    <2>2. own[t] > 0
      BY <1>5 DEF PMPI_Send, SetFirst
    <2>3. Alone(t) => outbuffer[RankOf[t]] = own[t]
      BY DEF Fresh, SoleSender
    <2>4. pc'[t] = IF sync THEN "blocked" ELSE "leave"
      BY <1>5 DEF PMPI_Send, TypeOK
    <2>5. Alone(t) => IF new.clock = Unread
                      THEN pc'[t] = "blocked" /\ new.n = pos[t] /\ new.own = own[t]
                      ELSE new.clock = new.own
      BY <2>2, <2>3, <2>4 DEF ReadsLate, Unread, TypeOK
    <2>6. \A m \in net : m.clock = Unread /\ Alone(m.from) => m.from /= t
      BY <1>5 DEF PMPI_Send, SoleSender
    <2>7. \A u \in Thread : u /= t => pc'[u] = pc[u]
      BY <1>5 DEF PMPI_Send, TypeOK
    <2> HIDE DEF new
    <2>8. \A m \in net' : Alone(m.from) =>
            IF m.clock = Unread
            THEN pc'[m.from] = "blocked" /\ m.n = pos[m.from] /\ m.own = own[m.from]
            ELSE m.clock = m.own
      <3> SUFFICES ASSUME NEW m \in net', Alone(m.from)
                   PROVE  IF m.clock = Unread
                          THEN pc'[m.from] = "blocked" /\ m.n = pos[m.from] /\ m.own = own[m.from]
                          ELSE m.clock = m.own
        OBVIOUS
      <3>1. CASE m = new
        BY <2>5, <3>1 DEF new
      <3>2. CASE m \in net
        BY <2>6, <2>7, <3>2 DEF SoleSender, TypeOK
      <3> QED
        BY <2>1, <3>1, <3>2
    <2> QED
      BY <1>2, <1>5, <2>8 DEF PMPI_Send, SoleSender, ExactWhenAlone
  <1>6. CASE PMPI_SendReturns(t)
    <2>1. \A m \in net : m.clock = Unread /\ Alone(m.from) => m.from /= t
      BY <1>6 DEF PMPI_SendReturns, SoleSender
    <2> QED
      BY <1>2, <1>6, <2>1 DEF PMPI_SendReturns, SoleSender, ExactWhenAlone, TypeOK
  <1>7. CASE PMPI_Recv(t)
    <2>1. PICK m \in net :
            /\ net' = net \ {m}
            /\ got' = got \union {[from |-> m.from, n |-> m.n, own |-> m.own,
                                   clock |-> ClockOf(m)]}
      BY <1>7 DEF PMPI_Recv
    <2>2. Alone(m.from) => ClockOf(m) = m.own
      BY ClockExact
    <2>3. ExactWhenAlone'
      BY <1>2, <2>1, <2>2 DEF ExactWhenAlone
    <2>4. \A k \in net : k.clock = Unread /\ Alone(k.from) => k.from /= t
      BY <1>7 DEF PMPI_Recv, SoleSender
    <2> QED
      BY <1>2, <1>7, <2>1, <2>3, <2>4 DEF PMPI_Recv, SoleSender, TypeOK
  <1>8. CASE Leave(t)
    <2>1. \A m \in net : m.clock = Unread /\ Alone(m.from) => m.from /= t
      BY <1>8 DEF Leave, SoleSender
    <2> QED
      BY <1>2, <1>8, <2>1 DEF Leave, SoleSender, ExactWhenAlone, TypeOK
  <1> QED
    BY <1>3, <1>4, <1>5, <1>6, <1>7, <1>8 DEF Step

LEMMA StepAloneInv == AloneInv /\ [Next]_vars => AloneInv'
  <1> SUFFICES ASSUME AloneInv, [Next]_vars PROVE AloneInv'
    OBVIOUS
  <1>1. ASSUME NEW t \in Thread, Step(t) PROVE SetFirst' /\ SoleSender' /\ ExactWhenAlone'
    BY <1>1, StepSetFirst, StepAlone DEF AloneInv, IInv
  <1>2. ASSUME UNCHANGED vars PROVE SetFirst' /\ SoleSender' /\ ExactWhenAlone'
    <2>1. SetFirst'
      BY <1>2 DEF AloneInv, vars, SetFirst, Calls, Done, Call
    <2>2. SoleSender' /\ ExactWhenAlone'
      BY <1>2 DEF AloneInv, vars, SoleSender, ExactWhenAlone, Alone, Sends
    <2> QED
      BY <2>1, <2>2
  <1> QED
    BY <1>1, <1>2, StepIInv DEF AloneInv, Next

(* In every run a message of a process where one thread sends brings       *)
(* exactly the clock that was set for its send, although MPI_Send and      *)
(* MPI_Ssend let MPI read the common buffer as late as it likes.           *)
THEOREM ExactForOneSender == Spec => []ExactWhenAlone
  <1>1. AloneInv => ExactWhenAlone
    BY DEF AloneInv
  <1> QED
    BY InitAlone, StepAloneInv, <1>1, PTL DEF Spec
================================================================================
