-------------------------------- MODULE Threads --------------------------------
(***************************************************************************)
(* Several threads per process inside the piggyback layer                  *)
(* (clmpi_piggyback.c): the buffer pb_outbuffer that PBSET fills for every *)
(* send, and the mutex fastmutex that MPI_Send and MPI_Recv hold around    *)
(* their calls of MPI while the other operations take no lock.             *)
(*                                                                         *)
(* The content of the buffer is the number of the PBSET that wrote it, so  *)
(* that a clock can be traced to the call it was written for.              *)
(***************************************************************************)
EXTENDS Naturals, Sequences

CONSTANTS
  Rank, Thread,
  RankOf,     \* the process of a thread
  Programs,   \* what the threads do: functions from Thread to sequences of calls
  Free        \* the mutex is not locked

ASSUME ThreadsAssumption ==
  /\ RankOf \in [Thread -> Rank]
  /\ Free \notin Thread

SendCalls == {"Send", "Ssend", "Bsend", "Isend"}
RecvCalls == {"Recv", "Irecv"}   \* MPI_Irecv and the MPI_Wait for it
Locked == {"Send", "Recv"}       \* the calls that take fastmutex

Unread == 0   \* MPI has not read the clock of the message yet; PBSETs count from 1

VARIABLES
  prog,       \* the program of each thread
  pos,        \* its current call
  pc,         \* "ready", "set" (PBSET done), "inside", "blocked", "leave"
  mutex,      \* fastmutex of each process: its owner, or Free
  nset,       \* number of PBSETs of each process
  outbuffer,  \* pb_outbuffer of each process
  own,        \* the PBSET of the send that each thread is in
  net,        \* the messages not received
  got         \* history: the messages received, with the clocks they brought

vars == <<prog, pos, pc, mutex, nset, outbuffer, own, net, got>>

Done(t) == pos[t] > Len(prog[t])
Call(t) == prog[t][pos[t]].call
Calls(t, ops) == ~ Done(t) /\ Call(t) \in ops

Init ==
  /\ prog \in Programs
  /\ pos = [t \in Thread |-> 1]
  /\ pc = [t \in Thread |-> "ready"]
  /\ mutex = [r \in Rank |-> Free]
  /\ nset = [r \in Rank |-> 0]
  /\ outbuffer = [r \in Rank |-> 0]
  /\ own = [t \in Thread |-> 0]
  /\ net = {} /\ got = {}

--------------------------------------------------------------------------------

(* Mutant: the clock layer does not set the clock (run_set is 0). *)
FilledNot(r) == outbuffer

(* PNMPIMOD_Piggyback copies the clock to the buffer of the process. *)
Filled(r) == [outbuffer EXCEPT ![r] = nset[r] + 1]

(* PBSET, in the clock layer: no lock is held. *)
PBSET(t) ==
  /\ Calls(t, SendCalls) /\ pc[t] = "ready"
  /\ outbuffer' = Filled(RankOf[t])
  /\ nset' = [nset EXCEPT ![RankOf[t]] = @ + 1]
  /\ own' = [own EXCEPT ![t] = nset[RankOf[t]] + 1]
  /\ pc' = [pc EXCEPT ![t] = "set"]
  /\ UNCHANGED <<prog, pos, mutex, net, got>>

(* Mutant: nobody waits for the mutex. *)
LockTaken(t) == mutex' = [mutex EXCEPT ![RankOf[t]] = t]

(* Mutant: all processes share the mutex. *)
LockAll(t) == mutex[RankOf[t]] = Free /\ mutex' = [r \in Rank |-> t]

(* pthread_mutex_lock *)
Lock(t) == mutex[RankOf[t]] = Free /\ mutex' = [mutex EXCEPT ![RankOf[t]] = t]

(* The operation of the piggyback layer begins. *)
Enter(t) ==
  /\ ~ Done(t)
  /\ pc[t] = IF Call(t) \in SendCalls THEN "set" ELSE "ready"
  /\ IF Call(t) \in Locked THEN Lock(t) ELSE UNCHANGED mutex
  /\ pc' = [pc EXCEPT ![t] = "inside"]
  /\ UNCHANGED <<prog, pos, nset, outbuffer, own, net, got>>

(* Mutant: MPI_Isend sends from the common buffer. *)
ReadsLateIsend(t, sync) == sync \/ Call(t) = "Isend"

(* The datatype of a send refers to pb_outbuffer itself (DT_OUTALLOC): MPI *)
(* reads it when it transfers the message.  MPI_Isend copies the clock     *)
(* first (PBCOPYDEF).                                                      *)
ReadsLate(t, sync) == sync

(* The call of MPI: MPI_Ssend waits for the receiver, MPI_Send may.        *)
PMPI_Send(t, sync) ==
  /\ Calls(t, SendCalls) /\ pc[t] = "inside"
  /\ Call(t) = "Ssend" => sync
  /\ sync => Call(t) \in {"Send", "Ssend"}
  /\ net' = net \union
       {[from |-> t, n |-> pos[t], to |-> prog[t][pos[t]].to, own |-> own[t],
         clock |-> IF ReadsLate(t, sync) THEN Unread ELSE outbuffer[RankOf[t]]]}
  /\ pc' = [pc EXCEPT ![t] = IF sync THEN "blocked" ELSE "leave"]
  /\ UNCHANGED <<prog, pos, mutex, nset, outbuffer, own, got>>

(* A blocked send returns when its message has been received. *)
PMPI_SendReturns(t) ==
  /\ pc[t] = "blocked"
  /\ ~ \E m \in net : m.from = t /\ m.n = pos[t]
  /\ pc' = [pc EXCEPT ![t] = "leave"]
  /\ UNCHANGED <<prog, pos, mutex, nset, outbuffer, own, net, got>>

ClockOf(m) == IF m.clock = Unread THEN outbuffer[RankOf[m.from]] ELSE m.clock

(* A receive blocks until there is a message for the process; MPI may give *)
(* the messages of two threads in any order.                               *)
PMPI_Recv(t) ==
  /\ Calls(t, RecvCalls) /\ pc[t] = "inside"
  /\ \E m \in net :
       /\ m.to = RankOf[t]
       /\ net' = net \ {m}
       /\ got' = got \union {[from |-> m.from, n |-> m.n, own |-> m.own, clock |-> ClockOf(m)]}
  /\ pc' = [pc EXCEPT ![t] = "leave"]
  /\ UNCHANGED <<prog, pos, mutex, nset, outbuffer, own>>

(* Mutant: MPI_Recv returns without unlocking. *)
UnlockSend(t) ==
  IF Call(t) = "Send" THEN mutex' = [mutex EXCEPT ![RankOf[t]] = Free] ELSE UNCHANGED mutex

(* pthread_mutex_unlock *)
Unlock(t) ==
  IF Call(t) \in Locked THEN mutex' = [mutex EXCEPT ![RankOf[t]] = Free] ELSE UNCHANGED mutex

(* The operation returns. *)
Leave(t) ==
  /\ pc[t] = "leave"
  /\ Unlock(t)
  /\ pos' = [pos EXCEPT ![t] = @ + 1]
  /\ pc' = [pc EXCEPT ![t] = "ready"]
  /\ UNCHANGED <<prog, nset, outbuffer, own, net, got>>

Step(t) ==
  \/ PBSET(t)
  \/ Enter(t)
  \/ \E sync \in BOOLEAN : PMPI_Send(t, sync)
  \/ PMPI_SendReturns(t)
  \/ PMPI_Recv(t)
  \/ Leave(t)

AllDone == \A t \in Thread : Done(t)

Next == \E t \in Thread : Step(t)

Spec == Init /\ [][Next]_vars

(* Every thread that can take a step is scheduled in the end, and MPI      *)
(* completes what is matched.                                              *)
FairSpec == Spec /\ \A t \in Thread : WF_vars(Step(t))

--------------------------------------------------------------------------------
(* Properties *)

(* A mutex is owned by a thread of its process, a program counter stays in *)
(* its program, and a message is one of a send.                            *)
TypeOK ==
  /\ prog \in Programs
  /\ pos \in [Thread -> Nat \ {0}]
  /\ pc \in [Thread -> {"ready", "set", "inside", "blocked", "leave"}]
  /\ \A t \in Thread : Done(t) => pc[t] = "ready"
  /\ mutex \in [Rank -> Thread \union {Free}]
  /\ \A r \in Rank : mutex[r] /= Free => RankOf[mutex[r]] = r
  /\ nset \in [Rank -> Nat] /\ outbuffer \in [Rank -> Nat]
  /\ own \in [Thread -> Nat]
  /\ \A m \in net : m.from \in Thread /\ m.own \in Nat /\ m.clock \in Nat
  /\ \A g \in got : g.from \in Thread /\ g.own \in Nat /\ g.clock \in Nat

Inside(t) == pc[t] \in {"inside", "blocked", "leave"} /\ Calls(t, Locked)

(* Two threads of a process are never both between the lock and the unlock *)
(* of MPI_Send and MPI_Recv, blocking calls of MPI included.               *)
LockExclusive ==
  \A t, u \in Thread : Inside(t) /\ Inside(u) /\ RankOf[t] = RankOf[u] => t = u

(* The clock that a message brings was set for its own send or for a later *)
(* one of another thread, never for an earlier one: PBSET is outside the   *)
(* mutex, and MPI may read the buffer as late as it transfers the message. *)
NotStale == \A g \in got : g.clock >= g.own

Sends(t) == \E i \in 1..Len(prog[t]) : prog[t][i].call \in SendCalls
Alone(t) == \A u \in Thread : RankOf[u] = RankOf[t] /\ Sends(u) => u = t

(* A message of a process where one thread sends brings exactly the clock  *)
(* set for its send: the thread sets the next one when the buffer has been *)
(* read or copied.                                                         *)
ExactWhenAlone == \A g \in got : Alone(g.from) => g.clock = g.own

(* When the program matches its messages, and no thread in MPI_Send or     *)
(* MPI_Recv waits for what a sibling has yet to do in one of them, every   *)
(* thread gets through: the mutex held across a blocking call keeps nobody *)
(* from what would end the call, and is always given back.                 *)
ThreadsFinish == <>AllDone
================================================================================
