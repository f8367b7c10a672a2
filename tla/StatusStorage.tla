----------------------------- MODULE StatusStorage -----------------------------
(***************************************************************************)
(* The storage behind an MPI_Status, through which the layers of one       *)
(* process talk about a completed request: the status layer                *)
(* (clmpi_status.c, clmpi_status.h) makes room for it, the request layer   *)
(* puts the parameters of the request there, the piggyback layer reads     *)
(* them and puts the clock there, the clock layer reads both.              *)
(*                                                                         *)
(* Memory is modelled byte by byte, since the layers find each other's     *)
(* data by offsets that they reserve while they start.  A byte holds the   *)
(* name of what was last written there and the status it was written for.  *)
(***************************************************************************)
EXTENDS Integers, Sequences

CONSTANTS
  StatusSize,  \* sizeof(MPI_Status)
  PbSize,      \* size of the piggyback, PNMPIMOD_Piggyback_Size
  MaxCount     \* bound: largest array given to a completion call

ASSUME StorageAssumption ==
  /\ StatusSize \in Nat /\ StatusSize >= 8
  /\ PbSize \in Nat \ {0}
  /\ MaxCount \in Nat \ {0}

(* sizeof and field offsets of PNMPIMOD_Requests_Parameters_t on x86-64,   *)
(* where MPI_Comm and MPI_Request are ints (MPICH).                        *)
ParamsSize == 64
TypeField == [at |-> 0, len |-> 4]
InreqField == [at |-> 48, len |-> 4]
PointerSize == 8    \* sizeof(char*)
ErrorSize == 4      \* MPI_ERROR, the last field of MPI_Status

AllOps == {"Waitall", "Testall"}
SomeOps == {"Waitsome", "Testsome"}
ArrayOps == AllOps \union SomeOps
Copied == {"Wait", "Test"}     \* copied before MPI completes the request
Received == {"Recv", "Sendrecv"}
Ops == ArrayOps \union Copied \union Received \union {"Waitany", "Testany", "Probe"}
Active == {"recv", "send"}
Kinds == Active \union {"null"}  \* MPI_REQUEST_NULL, with the parameters of slot 0

VARIABLES
  (* how much the layers have reserved, and where *)
  add_status_storage,   \* the status layer's counter, then the total
  extra_request_space,  \* the request layer's counter
  storage_stride,       \* of the pointer table; frozen at the start
  request_offset,       \* of the piggyback's pointer in that table
  offsetInStatus,       \* PNMPIMOD_Request_offsetInStatus
  piggyback_offset,     \* of the clock in the storage
  (* one call *)
  pc, op,
  count,                \* number of statuses the status layer allocated
  kinds,                \* the requests reported, in the order of their statuses
  k,                    \* the position the running loop has reached
  mem,                  \* newstatus and the storage behind it
  reach,                \* history: the end of the memory touched so far
  user                  \* the statuses of the application

layoutVars == <<add_status_storage, extra_request_space, storage_stride,
                request_offset, offsetInStatus, piggyback_offset>>
callVars == <<pc, op, count, kinds, k, mem, reach, user>>
vars == <<layoutVars, callVars>>

Garbage == [what |-> "garbage", of |-> 0]
Token(what, of) == [what |-> what, of |-> of]

Init ==
  /\ add_status_storage = 1
  /\ extra_request_space = 0
  /\ storage_stride = 0
  /\ request_offset = 0
  /\ offsetInStatus = 0
  /\ piggyback_offset = 0
  /\ pc = "Start" /\ op = "Probe" /\ count = 0 /\ kinds = <<>> /\ k = 0
  /\ mem = <<>>
  /\ reach = 0
  /\ user = <<>>

--------------------------------------------------------------------------------
(* MPI_Init and MPI_Init_thread: each layer's wrapper calls the one below  *)
(* it in the middle.                                                       *)

(* The piggyback layer, on the way down: req_add *)
PiggybackReserves ==
  /\ pc = "Start"
  /\ request_offset' = extra_request_space
  /\ extra_request_space' = extra_request_space + PointerSize
  /\ pc' = "RequestInit"
  /\ UNCHANGED <<add_status_storage, storage_stride, offsetInStatus,
                 piggyback_offset, op, count, kinds, k, mem, reach, user>>

(* Mutant: room for the pointers only. *)
RequestReservesStride ==
  /\ pc = "RequestInit"
  /\ storage_stride' = extra_request_space
  /\ offsetInStatus' = add_status_storage
  /\ add_status_storage' = add_status_storage + extra_request_space
  /\ pc' = "PiggybackInit"
  /\ UNCHANGED <<extra_request_space, request_offset, piggyback_offset,
                 op, count, kinds, k, mem, reach, user>>

(* The request layer freezes its stride and reserves room in the status    *)
(* (PNMPIMOD_Status_RequestStorage).                                       *)
RequestReserves ==
  /\ pc = "RequestInit"
  /\ storage_stride' = extra_request_space
  /\ offsetInStatus' = add_status_storage
  /\ add_status_storage' = add_status_storage + extra_request_space + ParamsSize
  /\ pc' = "PiggybackInit"
  /\ UNCHANGED <<extra_request_space, request_offset, piggyback_offset,
                 op, count, kinds, k, mem, reach, user>>

(* The piggyback layer, on the way up: its status_add is the service of    *)
(* the request layer, so the clock gets its place from the wrong counter.  *)
PiggybackReservesClock ==
  /\ pc = "PiggybackInit"
  /\ piggyback_offset' = extra_request_space
  /\ extra_request_space' = extra_request_space + PbSize
  /\ pc' = "Idle"
  /\ UNCHANGED <<add_status_storage, storage_stride, request_offset,
                 offsetInStatus, op, count, kinds, k, mem, reach, user>>

--------------------------------------------------------------------------------
(* Memory *)

(* Mutant: the count is taken for one. *)
StorageAtOne(c, num, offset) == StatusSize + num * add_status_storage + offset

(* STATUS_STORAGE_ARRAY: storage starts behind the last status. *)
StorageAt(c, num, offset) == c * StatusSize + num * add_status_storage + offset

Info(num) == StorageAt(count, num, offsetInStatus + request_offset + ParamsSize)

Written(m, a, len, what) == [x \in DOMAIN m |-> IF x \in a..(a + len - 1) THEN what ELSE m[x]]
Holds(a, len, what) == \A x \in a..(a + len - 1) : x \in DOMAIN mem /\ mem[x] = what

Touch(end) == reach' = IF end > reach THEN end ELSE reach

(* What MPI writes to newstatus[j]: all but MPI_ERROR *)
Envelope == StatusSize - ErrorSize

(* ALLOCATE_STATUS *)
Allocated(c) ==
  [x \in 0..(c * (add_status_storage + StatusSize) - 1) |->
     IF x < c * StatusSize /\ x % StatusSize >= Envelope THEN Token("tag", 0) ELSE Garbage]

(* CHECK_COPY: only the first status is looked at. *)
CheckCopy == \A x \in Envelope..(StatusSize - 1) : mem[x] = Token("tag", 0)

(* COPY_REQUEST_STATUSARRAY: the parameters of the request, then its row    *)
(* of the pointer table, for the status at position num (from 0).          *)
CopyRequest(num) ==
  LET params == StorageAt(count, num, offsetInStatus)
      all == Written(mem, params, ParamsSize, Token("params", num))
      type == Written(all, params + TypeField.at, TypeField.len, Token("type", num))
      inreq == Written(type, params + InreqField.at, InreqField.len, Token("inreq", num))
  IN  /\ mem' = Written(inreq, params + ParamsSize, storage_stride, Token("pointer", num))
      /\ Touch(params + ParamsSize + storage_stride)

WriteClock(m, num) ==
  LET at == StorageAt(count, num, piggyback_offset)
  IN  /\ mem' = Written(m, at, PbSize, Token("clock", num))
      /\ Touch(at + PbSize)

--------------------------------------------------------------------------------
(* The calls of the application, from the status layer down and back up. *)

callArgs == <<op, count>>

(* The wrapper of the status layer: c statuses for an array call, or one *)
Call(o, c) ==
  /\ pc = "Idle"
  /\ o \in ArrayOps \/ c = 1
  /\ op' = o /\ count' = c
  /\ mem' = Allocated(c)
  /\ reach' = 0
  /\ kinds' = <<>> /\ k' = 0 /\ user' = <<>>
  /\ pc' = IF o \in Copied THEN "CopyFirst" ELSE "PMPI"
  /\ UNCHANGED layoutVars

(* MPI_Wait and MPI_Test of the request layer copy first. *)
CopyFirst(kind) ==
  /\ pc = "CopyFirst"
  /\ kinds' = <<kind>>
  /\ IF CheckCopy THEN CopyRequest(0) ELSE UNCHANGED <<mem, reach>>
  /\ pc' = "PMPI"
  /\ UNCHANGED <<layoutVars, callArgs, k, user>>

(* How many requests the call of MPI may report; none after MPI_Test,      *)
(* MPI_Testany and MPI_Testall stands for a false flag.                    *)
Reported == CASE op \in {"Wait", "Waitany", "Recv", "Sendrecv"} -> {1}
              [] op \in {"Test", "Testany"}                     -> {0, 1}
              [] op = "Probe"                                   -> {0}
              [] op = "Waitall"                                 -> {count}
              [] op = "Testall"                                 -> {0, count}
              [] op \in SomeOps                                 -> 0..count

(* MPI_Waitany, MPI_Testany, MPI_Waitsome and MPI_Testsome pass over null  *)
(* requests.                                                               *)
Reportable == IF op \in AllOps THEN Kinds ELSE Active

(* MPI fills the statuses of what it reports.  It writes MPI_ERROR only    *)
(* when it has to tell which request of an array failed.                   *)
EnvelopesIn(n, failed) ==
  [x \in DOMAIN mem |->
     IF x < n * StatusSize /\ (failed \/ x % StatusSize < Envelope)
     THEN Token("envelope", x \div StatusSize) ELSE mem[x]]

(* A probe and a receive fill the only status. *)
PMPI_Probe ==
  /\ pc = "PMPI" /\ op = "Probe"
  /\ mem' = EnvelopesIn(1, FALSE)
  /\ pc' = "Return"
  /\ UNCHANGED <<layoutVars, callArgs, kinds, k, reach, user>>

(* MPI_Recv and MPI_Sendrecv of the piggyback layer receive the clock in   *)
(* its place, by the datatype of DT_STATUSALLOC.                           *)
PMPI_Receive ==
  /\ pc = "PMPI" /\ op \in Received
  /\ kinds' = <<"recv">>
  /\ WriteClock(EnvelopesIn(1, FALSE), 0)
  /\ pc' = "Clock"
  /\ UNCHANGED <<layoutVars, callArgs, k, user>>

(* Mutant: the tag is looked at when MPI is back. *)
PMPI_CompleteThenCheck(n, failed) ==
  /\ pc = "PMPI" /\ op \notin Received \union {"Probe"}
  /\ n \in Reported
  /\ failed => op \in ArrayOps
  /\ IF op \in Copied THEN kinds' = SubSeq(kinds, 1, n) ELSE kinds' \in [1..n -> Reportable]
  /\ mem' = EnvelopesIn(n, failed)
  /\ pc' = IF op \in Copied \/ failed THEN "Piggyback" ELSE "Request"
  /\ UNCHANGED <<layoutVars, callArgs, k, reach, user>>

(* MPI completes requests.  The request layer has looked at the tag before *)
(* (check = CHECK_COPY), so what MPI does to MPI_ERROR does not matter.    *)
PMPI_Complete(n, failed) ==
  /\ pc = "PMPI" /\ op \notin Received \union {"Probe"}
  /\ n \in Reported
  /\ failed => op \in ArrayOps
  /\ IF op \in Copied THEN kinds' = SubSeq(kinds, 1, n) ELSE kinds' \in [1..n -> Reportable]
  /\ mem' = EnvelopesIn(n, failed)
  /\ pc' = IF op \in Copied \/ ~ CheckCopy THEN "Piggyback" ELSE "Request"
  /\ UNCHANGED <<layoutVars, callArgs, k, reach, user>>

(* The loop of a layer moves on, or ends and gives way to the next layer. *)
Loop(last, next) ==
  IF k < last THEN k' = k + 1 /\ pc' = pc ELSE k' = 0 /\ pc' = next

(* The request layer copies each request that was reported. *)
CopyAfter ==
  /\ pc = "Request"
  /\ Loop(Len(kinds), "Piggyback")
  /\ IF k < Len(kinds) THEN CopyRequest(k) ELSE UNCHANGED <<mem, reach>>
  /\ UNCHANGED <<layoutVars, callArgs, kinds, user>>

(* The piggyback layer: ASYNC_COMPLETE moves the clock of a receive from   *)
(* the buffer of its request to the storage.                               *)
AsyncComplete ==
  /\ pc = "Piggyback"
  /\ Loop(Len(kinds), "Clock")
  /\ IF k < Len(kinds) /\ kinds[k + 1] = "recv" THEN WriteClock(mem, k)
     ELSE UNCHANGED <<mem, reach>>
  /\ UNCHANGED <<layoutVars, callArgs, kinds, user>>

(* Mutant: every status of the array is visited. *)
SyncClockAll ==
  /\ pc = "Clock"
  /\ Loop(count, "Return")
  /\ UNCHANGED <<layoutVars, callArgs, kinds, mem, reach, user>>

(* The clock layer reads (see ReadsIntact); its own state is not here. *)
SyncClock ==
  /\ pc = "Clock"
  /\ Loop(Len(kinds), "Return")
  /\ UNCHANGED <<layoutVars, callArgs, kinds, mem, reach, user>>

(* Mutant: MPI_Waitsome and MPI_Testsome copy the whole array. *)
CopiedCountAll == count

(* How many statuses COPY_STATUS copies *)
CopiedCount == IF op \in SomeOps THEN Len(kinds) ELSE count

(* COPY_STATUS, unless the application passed MPI_STATUS(ES)_IGNORE *)
CopyStatus(ignored) ==
  /\ pc = "Return"
  /\ user' = IF ignored THEN <<>>
             ELSE [j \in 1..count |->
                     IF j <= CopiedCount
                     THEN [b \in 0..(StatusSize - 1) |-> mem[(j - 1) * StatusSize + b]]
                     ELSE [b \in 0..(StatusSize - 1) |-> Token("application", j)]]
  /\ pc' = "Idle"
  /\ UNCHANGED <<layoutVars, callArgs, kinds, k, mem, reach>>

Next ==
  \/ PiggybackReserves
  \/ RequestReserves
  \/ PiggybackReservesClock
  \/ \E o \in Ops, c \in 1..MaxCount : Call(o, c)
  \/ \E kind \in Kinds : CopyFirst(kind)
  \/ PMPI_Probe
  \/ PMPI_Receive
  \/ \E n \in 0..MaxCount, failed \in BOOLEAN : PMPI_Complete(n, failed)
  \/ CopyAfter
  \/ AsyncComplete
  \/ SyncClock
  \/ \E ignored \in BOOLEAN : CopyStatus(ignored)

Spec == Init /\ [][Next]_vars

--------------------------------------------------------------------------------
(* Properties *)

(* The counters are sizes, the statuses reported fit the array, and the    *)
(* loops of the layers stay within the statuses that MPI filled.           *)
TypeOK ==
  /\ add_status_storage \in Nat /\ extra_request_space \in Nat
  /\ storage_stride \in Nat /\ request_offset \in Nat
  /\ offsetInStatus \in Nat /\ piggyback_offset \in Nat
  /\ pc \in {"Start", "RequestInit", "PiggybackInit", "Idle", "CopyFirst", "PMPI",
            "Request", "Piggyback", "Clock", "Return"}
  /\ op \in Ops
  /\ count \in 0..MaxCount
  /\ kinds \in Seq(Kinds) /\ Len(kinds) <= count
  /\ k \in 0..Len(kinds)
  /\ reach \in Nat
  /\ Len(user) <= count

(* What a layer reads is what the layer below wrote for the same status:   *)
(* type and inreq whenever the piggyback and the clock layer test them,    *)
(* the pointer that ASYNC_COMPLETE copies from and frees, the clock that   *)
(* cmpi_sync_clock_at merges.  The clock is stored in bytes that belong to *)
(* the parameters, and must not spoil the fields still to be read.         *)
ReadsIntact ==
  (pc \in {"Piggyback", "Clock"} /\ k < Len(kinds)) =>
    LET params == StorageAt(count, k, offsetInStatus)
    IN  /\ op \notin Received =>
             /\ Holds(params + TypeField.at, TypeField.len, Token("type", k))
             /\ Holds(params + InreqField.at, InreqField.len, Token("inreq", k))
        /\ (pc = "Piggyback" /\ kinds[k + 1] /= "null") =>
             Holds(Info(k), PointerSize, Token("pointer", k))
        /\ (pc = "Clock" /\ kinds[k + 1] = "recv") =>
             Holds(StorageAt(count, k, piggyback_offset), PbSize, Token("clock", k))

(* No layer writes behind the memory that ALLOCATE_STATUS took from the    *)
(* stack, for any number of statuses.                                      *)
WithinStorage ==
  pc \notin {"Start", "RequestInit", "PiggybackInit"} =>
    reach <= count * (add_status_storage + StatusSize)

(* When a call returns, the application has the envelope of every request  *)
(* that was reported, at its position, and nothing else of its array was   *)
(* touched by MPI_Waitsome and MPI_Testsome: the data that the layers keep *)
(* behind the statuses never reaches it.                                   *)
UserSeesStatuses ==
  (pc = "Idle" /\ user /= <<>>) =>
    /\ \A j \in 1..Len(kinds), b \in 0..(Envelope - 1) :
         user[j][b] = Token("envelope", j - 1)
    /\ op \in SomeOps =>
         \A j \in (Len(kinds) + 1)..count, b \in 0..(StatusSize - 1) :
           user[j][b] = Token("application", j)
================================================================================
