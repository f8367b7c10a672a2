------------------------------ MODULE StatusProofs ------------------------------
(***************************************************************************)
(* Proofs about module StatusStorage, for arrays of any length and any     *)
(* size of MPI_Status: the layers stay within the memory of                *)
(* ALLOCATE_STATUS, the application gets its statuses and nothing else,    *)
(* and what a layer reads was written for the same status.                 *)
(***************************************************************************)
EXTENDS StatusStorage, TLAPS

(* A function on 1..n is a sequence of length n. *)
LEMMA ArrayIsSeq ==
  ASSUME NEW S, NEW n \in Nat, NEW f \in [1..n -> S]
  PROVE  f \in Seq(S) /\ Len(f) = n
  OBVIOUS

(* An entry of e bytes in row num of c rows of t bytes ends within the     *)
(* memory of c statuses of s bytes and their rows.                         *)
LEMMA RowFits ==
  ASSUME NEW c \in Nat, NEW num \in Nat, num < c,
         NEW t \in Nat, NEW s \in Nat, NEW e \in Nat, e <= t
  PROVE  c * s + num * t + e <= c * (t + s)
  <1>1. PICK d \in Nat : c = num + 1 + d
    <2>1. c - num - 1 \in Nat /\ c = num + 1 + (c - num - 1)
      OBVIOUS
    <2> QED
      BY <2>1
  <1>2. num * t \in Nat /\ d * t \in Nat /\ c * s \in Nat /\ c * t \in Nat
    OBVIOUS
  <1>3. c * t = num * t + t + d * t
    BY <1>1
  <1>4. c * (t + s) = c * t + c * s
    OBVIOUS
  <1> QED
    BY <1>2, <1>3, <1>4

(* What the layers have reserved, by how far they have started.            *)
Layout ==
  /\ pc = "Start" => add_status_storage = 1 /\ extra_request_space = 0
  /\ pc /= "Start" => request_offset = 0
  /\ pc = "RequestInit" => add_status_storage = 1 /\ extra_request_space = PointerSize
  /\ pc = "PiggybackInit" => extra_request_space = PointerSize
  /\ pc \notin {"Start", "RequestInit"} =>
       /\ storage_stride = PointerSize
       /\ offsetInStatus = 1
       /\ add_status_storage = 1 + PointerSize + ParamsSize
  /\ pc \notin {"Start", "RequestInit", "PiggybackInit"} => piggyback_offset = PointerSize

(* Nothing is touched before the first call; a call has at least one       *)
(* status, and the loops start at the first.                               *)
Calling ==
  /\ pc \in {"Start", "RequestInit", "PiggybackInit"} => reach = 0
  /\ pc \notin {"Start", "RequestInit", "PiggybackInit", "Idle"} => count >= 1
  /\ pc \notin {"Request", "Piggyback", "Clock"} => k = 0
  /\ pc = "CopyFirst" => op \in Copied
  /\ pc = "PMPI" /\ op \in Copied => Len(kinds) = 1

IInv == TypeOK /\ Layout /\ Calling /\ WithinStorage

Started == {"Idle", "CopyFirst", "PMPI", "Request", "Piggyback", "Clock", "Return"}

(* With an entry that fits the row of its status, the memory suffices.     *)
LEMMA EntryFits ==
  ASSUME TypeOK, pc \in Started, WithinStorage, NEW num \in Nat, num < count,
         NEW e \in Nat, e <= add_status_storage, Touch(StorageAt(count, num, e))
  PROVE  reach' \in Nat /\ reach' <= count * (add_status_storage + StatusSize)
  <1>1. /\ count \in Nat /\ add_status_storage \in Nat /\ StatusSize \in Nat
        /\ reach \in Nat /\ reach <= count * (add_status_storage + StatusSize)
    BY StorageAssumption DEF TypeOK, WithinStorage, Started
  <1>2. StorageAt(count, num, e) <= count * (add_status_storage + StatusSize)
    BY <1>1, RowFits DEF StorageAt
  <1>3. StorageAt(count, num, e) \in Nat
    BY <1>1 DEF StorageAt
  <1> QED
    BY <1>1, <1>2, <1>3 DEF Touch

(* COPY_REQUEST ends with the row of the pointer table, which the request  *)
(* layer reserved together with the parameters.                            *)
LEMMA CopyRequestFits ==
  ASSUME TypeOK, Layout, WithinStorage, pc \in Started,
         NEW num \in Nat, num < count, CopyRequest(num)
  PROVE  reach' \in Nat /\ reach' <= count * (add_status_storage + StatusSize)
  <1> DEFINE e == offsetInStatus + ParamsSize + storage_stride
  <1>1. e \in Nat /\ e <= add_status_storage
    BY DEF Layout, Started, ParamsSize, PointerSize
  <1>2. StorageAt(count, num, offsetInStatus) + ParamsSize + storage_stride
          = StorageAt(count, num, e)
    BY StorageAssumption DEF StorageAt, TypeOK, Layout, Started, ParamsSize, PointerSize
  <1>3. Touch(StorageAt(count, num, e))
    BY <1>2 DEF CopyRequest
  <1> QED
    BY <1>1, <1>3, EntryFits

(* The clock, whose place the piggyback layer took from the wrong counter, *)
(* ends within the row all the same unless it is longer than the row.      *)
LEMMA WriteClockFits ==
  ASSUME TypeOK, Layout, WithinStorage, pc \in Started, PbSize <= ParamsSize + 1,
         NEW num \in Nat, num < count, NEW m, WriteClock(m, num)
  PROVE  reach' \in Nat /\ reach' <= count * (add_status_storage + StatusSize)
  <1> DEFINE e == piggyback_offset + PbSize
  <1>1. e \in Nat /\ e <= add_status_storage
    BY StorageAssumption DEF Layout, Started, ParamsSize, PointerSize
  <1>2. StorageAt(count, num, piggyback_offset) + PbSize = StorageAt(count, num, e)
    BY StorageAssumption DEF StorageAt, TypeOK, Layout, Started, ParamsSize, PointerSize
  <1>3. Touch(StorageAt(count, num, e))
    BY <1>2 DEF WriteClock
  <1> QED
    BY <1>1, <1>3, EntryFits

(* The loop of a layer ends at its last status.                            *)
LEMMA LoopStays ==
  ASSUME NEW last \in Nat, NEW next, k \in 0..last, Loop(last, next)
  PROVE  /\ k' \in 0..last
         /\ k < last => pc' = pc
         /\ k = last => pc' = next /\ k' = 0
  BY DEF Loop

(* While the layers start, they reserve what Layout says.                  *)
LEMMA ReserveStep ==
  ASSUME IInv, PiggybackReserves \/ RequestReserves \/ PiggybackReservesClock
  PROVE  IInv'
  <1> USE StorageAssumption DEF IInv, TypeOK, Layout, Calling, WithinStorage,
          ParamsSize, PointerSize
  <1>1. CASE PiggybackReserves
    BY <1>1 DEF PiggybackReserves
  <1>2. CASE RequestReserves
    BY <1>2 DEF RequestReserves
  <1>3. CASE PiggybackReservesClock
    <2>1. count' * (add_status_storage' + StatusSize) \in Nat
      BY <1>3 DEF PiggybackReservesClock
    <2> QED
      BY <1>3, <2>1 DEF PiggybackReservesClock
  <1> QED
    BY <1>1, <1>2, <1>3

(* The initial states satisfy the inductive invariant. *)
LEMMA InitIInv == Init => IInv
  BY StorageAssumption
  DEF Init, IInv, TypeOK, Layout, Calling, WithinStorage, Ops, Copied, ArrayOps,
      AllOps, SomeOps, Received, Kinds

(* What changes neither the layout nor the start of the loops needs only   *)
(* its own variables looked at.                                            *)
LEMMA CallStep ==
  ASSUME IInv, NEW o \in Ops, NEW c \in 1..MaxCount, Call(o, c)
  PROVE  IInv'
  <1> USE StorageAssumption
  <1>1. TypeOK'
    <2>1. kinds' = <<>> /\ user' = <<>> /\ Len(<<>>) = 0 /\ <<>> \in Seq(Kinds)
      BY DEF Call
    <2> QED
      BY <2>1 DEF Call, IInv, TypeOK, layoutVars
  <1>2. Layout'
    BY DEF Call, IInv, Layout, layoutVars
  <1>3. Calling'
    BY DEF Call, Calling
  <1>4. WithinStorage'
    <2>1. c * (add_status_storage + StatusSize) \in Nat
      BY DEF IInv, TypeOK
    <2> QED
      BY <2>1 DEF Call, WithinStorage, layoutVars
  <1> QED
    BY <1>1, <1>2, <1>3, <1>4 DEF IInv

LEMMA CopyFirstStep ==
  ASSUME IInv, NEW kind \in Kinds, CopyFirst(kind)
  PROVE  IInv'
  <1> USE StorageAssumption
  <1>0. pc = "CopyFirst" /\ pc \in Started /\ count \in Nat /\ count >= 1 /\ k = 0
    BY DEF CopyFirst, Started, IInv, TypeOK, Calling
  <1>1. reach' \in Nat /\ reach' <= count * (add_status_storage + StatusSize)
    <2>1. CASE CheckCopy
      BY <1>0, <2>1, CopyRequestFits DEF CopyFirst, IInv
    <2>2. CASE ~ CheckCopy
      BY <1>0, <2>2 DEF CopyFirst, IInv, TypeOK, WithinStorage
    <2> QED
      BY <2>1, <2>2
  <1>2. kinds' \in Seq(Kinds) /\ Len(kinds') = 1
    BY DEF CopyFirst
  <1>3. TypeOK'
    BY <1>0, <1>1, <1>2 DEF CopyFirst, IInv, TypeOK, layoutVars, callArgs
  <1>4. Layout'
    BY <1>0 DEF CopyFirst, IInv, Layout, layoutVars
  <1>5. Calling'
    BY <1>0, <1>2 DEF CopyFirst, IInv, Calling, callArgs
  <1>6. WithinStorage'
    BY <1>1 DEF CopyFirst, WithinStorage, layoutVars, callArgs
  <1> QED
    BY <1>3, <1>4, <1>5, <1>6 DEF IInv

LEMMA ProbeStep ==
  ASSUME IInv, PMPI_Probe
  PROVE  IInv'
  <1>1. TypeOK'
    BY DEF PMPI_Probe, IInv, TypeOK, layoutVars, callArgs
  <1>2. Layout' /\ Calling' /\ WithinStorage'
    BY DEF PMPI_Probe, IInv, Layout, Calling, WithinStorage, layoutVars, callArgs
  <1> QED
    BY <1>1, <1>2 DEF IInv

LEMMA ReceiveStep ==
  ASSUME IInv, PbSize <= ParamsSize + 1, PMPI_Receive
  PROVE  IInv'
  <1>0. pc = "PMPI" /\ pc \in Started /\ count \in Nat /\ count >= 1 /\ k = 0
    BY StorageAssumption DEF PMPI_Receive, Started, IInv, TypeOK, Calling
  <1>1. reach' \in Nat /\ reach' <= count * (add_status_storage + StatusSize)
    <2>1. WriteClock(EnvelopesIn(1, FALSE), 0)
      BY DEF PMPI_Receive
    <2>2. TypeOK /\ Layout /\ WithinStorage /\ 0 \in Nat /\ 0 < count
      BY <1>0 DEF IInv
    <2> QED
      BY <1>0, <2>1, <2>2, WriteClockFits
  <1>2. kinds' \in Seq(Kinds) /\ Len(kinds') = 1
    BY DEF PMPI_Receive, Kinds, Active
  <1>3. TypeOK'
    BY <1>0, <1>1, <1>2 DEF PMPI_Receive, IInv, TypeOK, layoutVars, callArgs
  <1>4. Layout'
    BY <1>0 DEF PMPI_Receive, IInv, Layout, layoutVars
  <1>5. Calling'
    BY <1>0, <1>2 DEF PMPI_Receive, IInv, Calling, callArgs
  <1>6. WithinStorage'
    BY <1>1 DEF PMPI_Receive, WithinStorage, layoutVars, callArgs
  <1> QED
    BY <1>3, <1>4, <1>5, <1>6 DEF IInv

(* At most as many requests are reported as the call has statuses.         *)
LEMMA ReportedFits ==
  ASSUME TypeOK, Calling, pc = "PMPI", NEW n \in Reported
  PROVE  n \in 0..count
  BY StorageAssumption DEF TypeOK, Calling, Reported, Ops, Copied, ArrayOps,
     AllOps, SomeOps, Received

LEMMA CompleteStep ==
  ASSUME IInv, NEW n \in 0..MaxCount, NEW failed \in BOOLEAN, PMPI_Complete(n, failed)
  PROVE  IInv'
  <1> USE StorageAssumption
  <1>0. pc = "PMPI" /\ count \in Nat /\ count >= 1 /\ k = 0 /\ n \in Nat /\ n <= count
    BY ReportedFits DEF PMPI_Complete, IInv, TypeOK, Calling
  <1>1. kinds' \in Seq(Kinds) /\ Len(kinds') <= count
    <2>1. CASE op \in Copied
      <3>1. kinds \in Seq(Kinds) /\ Len(kinds) = 1 /\ n \in {0, 1}
        BY <1>0, <2>1 DEF IInv, TypeOK, Calling, PMPI_Complete, Reported, Copied, SomeOps
      <3>2. SubSeq(kinds, 1, n) \in Seq(Kinds) /\ Len(SubSeq(kinds, 1, n)) = n
        BY <3>1
      <3> QED
        BY <1>0, <2>1, <3>2 DEF PMPI_Complete
    <2>2. CASE op \notin Copied
      <3>1. kinds' \in [1..n -> Kinds]
        BY <1>0, <2>2 DEF PMPI_Complete, Reportable, Kinds
      <3> QED
        BY <1>0, <3>1, ArrayIsSeq
    <2> QED
      BY <2>1, <2>2
  <1>2. pc' \in {"Piggyback", "Request"}
    BY DEF PMPI_Complete
  <1>3. TypeOK'
    BY <1>0, <1>1, <1>2 DEF PMPI_Complete, IInv, TypeOK, layoutVars, callArgs
  <1>4. Layout' /\ Calling' /\ WithinStorage'
    BY <1>0, <1>2
    DEF PMPI_Complete, IInv, Layout, Calling, WithinStorage, layoutVars, callArgs
  <1> QED
    BY <1>3, <1>4 DEF IInv

(* A step of a loop keeps the invariant when it stays within the memory.   *)
LEMMA LoopStep ==
  ASSUME IInv, NEW next \in {"Piggyback", "Clock", "Return"},
         pc \in {"Request", "Piggyback", "Clock"}, Loop(Len(kinds), next),
         reach' \in Nat, reach' <= count * (add_status_storage + StatusSize),
         UNCHANGED <<layoutVars, callArgs, kinds, user>>
  PROVE  IInv'
  <1>1. /\ k' \in 0..Len(kinds)
        /\ pc' \in {"Request", "Piggyback", "Clock", "Return"}
        /\ pc' = "Return" => k' = 0
    BY LoopStays DEF IInv, TypeOK, Loop
  <1>2. TypeOK'
    BY <1>1 DEF IInv, TypeOK, layoutVars, callArgs
  <1>3. Layout' /\ Calling' /\ WithinStorage'
    BY <1>1 DEF IInv, Layout, Calling, WithinStorage, layoutVars, callArgs
  <1> QED
    BY <1>2, <1>3 DEF IInv

LEMMA LoopsStep ==
  ASSUME IInv, PbSize <= ParamsSize + 1, CopyAfter \/ AsyncComplete \/ SyncClock
  PROVE  IInv'
  <1>0. TypeOK /\ Layout /\ WithinStorage /\ count \in Nat /\ Len(kinds) <= count
    BY StorageAssumption DEF IInv, TypeOK
  <1>1. k \in Nat /\ Len(kinds) \in Nat
    BY <1>0 DEF TypeOK
  <1>2. ASSUME pc \in Started
        PROVE  reach \in Nat /\ reach <= count * (add_status_storage + StatusSize)
    BY <1>0, <1>2 DEF TypeOK, WithinStorage, Started
  <1>3. CASE CopyAfter
    <2>0. pc = "Request" /\ pc \in Started
      BY <1>3 DEF CopyAfter, Started
    <2>1. CASE k < Len(kinds)
      <3>1. CopyRequest(k) /\ k < count
        BY <1>0, <1>1, <1>3, <2>1 DEF CopyAfter
      <3>2. reach' \in Nat /\ reach' <= count * (add_status_storage + StatusSize)
        BY <1>0, <1>1, <2>0, <3>1, CopyRequestFits
      <3> QED
        BY <1>3, <2>0, <3>2, LoopStep DEF CopyAfter
    <2>2. CASE ~ (k < Len(kinds))
      BY <1>2, <1>3, <2>0, <2>2, LoopStep DEF CopyAfter
    <2> QED
      BY <2>1, <2>2
  <1>4. CASE AsyncComplete
    <2>0. pc = "Piggyback" /\ pc \in Started
      BY <1>4 DEF AsyncComplete, Started
    <2>1. CASE k < Len(kinds) /\ kinds[k + 1] = "recv"
      <3>1. WriteClock(mem, k) /\ k < count
        BY <1>0, <1>1, <1>4, <2>1 DEF AsyncComplete
      <3>2. reach' \in Nat /\ reach' <= count * (add_status_storage + StatusSize)
        BY <1>0, <1>1, <2>0, <3>1, WriteClockFits
      <3> QED
        BY <1>4, <2>0, <3>2, LoopStep DEF AsyncComplete
    <2>2. CASE ~ (k < Len(kinds) /\ kinds[k + 1] = "recv")
      BY <1>2, <1>4, <2>0, <2>2, LoopStep DEF AsyncComplete
    <2> QED
      BY <2>1, <2>2
  <1>5. CASE SyncClock
    <2>1. pc = "Clock" /\ pc \in Started
      BY <1>5 DEF SyncClock, Started
    <2> QED
      BY <1>2, <1>5, <2>1, LoopStep DEF SyncClock
  <1> QED
    BY <1>3, <1>4, <1>5

LEMMA CopyStatusStep ==
  ASSUME IInv, NEW ignored \in BOOLEAN, CopyStatus(ignored)
  PROVE  IInv'
  <1>1. Len(user') <= count
    <2>1. count \in Nat
      BY StorageAssumption DEF IInv, TypeOK
    <2>2. CASE ignored
      BY <2>1, <2>2 DEF CopyStatus
    <2>3. CASE ~ ignored
      <3> DEFINE statuses == [j \in 1..count |->
                    IF j <= CopiedCount
                    THEN [b \in 0..(StatusSize - 1) |-> mem[(j - 1) * StatusSize + b]]
                    ELSE [b \in 0..(StatusSize - 1) |-> Token("application", j)]]
      <3>1. user' = statuses
        BY <2>3 DEF CopyStatus
      <3>2. PICK S : statuses \in [1..count -> S]
        <4>1. statuses \in [1..count -> {statuses[j] : j \in 1..count}]
          OBVIOUS
        <4> QED
          BY <4>1
      <3> HIDE DEF statuses
      <3> QED
        BY <2>1, <3>1, <3>2, ArrayIsSeq
    <2> QED
      BY <2>2, <2>3
  <1>2. TypeOK'
    BY <1>1 DEF CopyStatus, IInv, TypeOK, layoutVars, callArgs
  <1>3. Layout' /\ Calling' /\ WithinStorage'
    BY DEF CopyStatus, IInv, Layout, Calling, WithinStorage, layoutVars, callArgs
  <1> QED
    BY <1>2, <1>3 DEF IInv

(* Every step keeps the inductive invariant.                               *)
LEMMA StepIInv ==
  ASSUME IInv, PbSize <= ParamsSize + 1, [Next]_vars
  PROVE  IInv'
  <1>1. CASE PiggybackReserves \/ RequestReserves \/ PiggybackReservesClock
    BY <1>1, ReserveStep
  <1>2. ASSUME NEW o \in Ops, NEW c \in 1..MaxCount, Call(o, c) PROVE IInv'
    BY <1>2, CallStep
  <1>3. ASSUME NEW kind \in Kinds, CopyFirst(kind) PROVE IInv'
    BY <1>3, CopyFirstStep
  <1>4. CASE PMPI_Probe
    BY <1>4, ProbeStep
  <1>5. CASE PMPI_Receive
    BY <1>5, ReceiveStep
  <1>6. ASSUME NEW n \in 0..MaxCount, NEW failed \in BOOLEAN, PMPI_Complete(n, failed)
        PROVE  IInv'
    BY <1>6, CompleteStep
  <1>7. CASE CopyAfter \/ AsyncComplete \/ SyncClock
    BY <1>7, LoopsStep
  <1>8. ASSUME NEW ignored \in BOOLEAN, CopyStatus(ignored) PROVE IInv'
    BY <1>8, CopyStatusStep
  <1>9. CASE UNCHANGED vars
    BY <1>9 DEF vars, layoutVars, callVars, IInv, TypeOK, Layout, Calling, WithinStorage
  <1> QED
    BY <1>1, <1>2, <1>3, <1>4, <1>5, <1>6, <1>7, <1>8, <1>9 DEF Next

(* For arrays of any length no layer writes behind the memory of           *)
(* ALLOCATE_STATUS, as long as the piggyback is not longer than the        *)
(* parameters of a request: the piggyback layer reserves its place from    *)
(* the counter of the request layer, when the status layer's total is      *)
(* already fixed (piggyback_offset), and only the parameters leave room.   *)
THEOREM StorageSuffices ==
  ASSUME PbSize <= ParamsSize + 1
  PROVE  Spec => [](TypeOK /\ WithinStorage)
  <1>1. IInv /\ [Next]_vars => IInv'
    BY StepIInv
  <1>2. IInv => TypeOK /\ WithinStorage
    BY DEF IInv
  <1> QED
    BY InitIInv, <1>1, <1>2, PTL DEF Spec

--------------------------------------------------------------------------------
(* What the layers read, and what the application gets *)

Busy == Started \ {"Idle"}

(* The offsets that the layers reserve in MPI_Init are sizes, and their    *)
(* loops stay within the statuses that were reported.                      *)
THEOREM StatusTypeCorrect ==
  ASSUME PbSize <= ParamsSize + 1
  PROVE  Spec => []TypeOK
  BY StorageSuffices, PTL

(* The row of status j: a byte to align it, the parameters, the pointer.   *)
RowSize == 1 + ParamsSize + PointerSize
Row(j) == count * StatusSize + j * RowSize
End == count * StatusSize + count * RowSize

(* What COPY_REQUEST leaves in a row, and what the piggyback layer does.   *)
FieldsAt(j) ==
  /\ Holds(Row(j) + 1 + TypeField.at, TypeField.len, Token("type", j))
  /\ Holds(Row(j) + 1 + InreqField.at, InreqField.len, Token("inreq", j))
  /\ Holds(Row(j) + 1 + ParamsSize, PointerSize, Token("pointer", j))
ClockAt(j) == Holds(Row(j) + PointerSize, PbSize, Token("clock", j))

(* The memory of a call is what ALLOCATE_STATUS took, as it left it until  *)
(* a layer looks at its tag.                                               *)
MemInv ==
  /\ pc \in Busy => DOMAIN mem = 0..(End - 1)
  /\ pc = "CopyFirst" \/ (pc = "PMPI" /\ op \notin Copied) =>
       mem = Allocated(count) /\ kinds = <<>>
  /\ pc /= "Idle" => user = <<>>

(* Each status that MPI filled has its envelope until it is copied. *)
EnvelopeInv ==
  pc \in {"Request", "Piggyback", "Clock", "Return"} =>
    \A j \in 0..(Len(kinds) - 1), b \in 0..(Envelope - 1) :
      mem[j * StatusSize + b] = Token("envelope", j)

(* The rows are filled as far as the loops of the layers have come. *)
FieldsInv ==
  /\ pc = "Request" => op \notin Copied \union Received
  /\ pc = "Piggyback" => op \notin Received
  /\ pc = "PMPI" /\ op \in Copied => FieldsAt(0)
  /\ pc = "Request" => \A j \in 0..(k - 1) : FieldsAt(j)
  /\ pc = "Piggyback" \/ (pc = "Clock" /\ op \notin Received) =>
       \A j \in 0..(Len(kinds) - 1) : FieldsAt(j)

ClockInv ==
  /\ pc = "Piggyback" => \A j \in 0..(k - 1) : kinds[j + 1] = "recv" => ClockAt(j)
  /\ pc = "Clock" =>
       \A j \in 0..(Len(kinds) - 1) : kinds[j + 1] = "recv" => ClockAt(j)

(* Two rows have no byte in common, and none with the statuses. *)
LEMMA RowsApart ==
  ASSUME TypeOK, NEW i \in Nat, NEW j \in Nat
  PROVE  /\ Row(i) \in Nat /\ count * StatusSize \in Nat /\ End \in Nat
         /\ Row(i) >= count * StatusSize
         /\ i < j => Row(i) + RowSize <= Row(j)
         /\ i < count => Row(i) + RowSize <= End
  <1>1. count \in Nat /\ StatusSize \in Nat
    BY StorageAssumption DEF TypeOK
  <1>2. count * StatusSize \in Nat
    BY <1>1
  <1> QED
    BY <1>1, <1>2 DEF Row, End, RowSize, ParamsSize, PointerSize

(* Where the layers find the parameters, the pointer and the clock. *)
LEMMA Addresses ==
  ASSUME IInv, pc \in Started, NEW j \in Nat
  PROVE  /\ StorageAt(count, j, offsetInStatus) = Row(j) + 1
         /\ Info(j) = Row(j) + 1 + ParamsSize
         /\ StorageAt(count, j, piggyback_offset) = Row(j) + PointerSize
         /\ storage_stride = PointerSize
         /\ count * (add_status_storage + StatusSize) = End
  <1>1. count \in Nat /\ StatusSize \in Nat
    BY StorageAssumption DEF IInv, TypeOK
  <1>2. /\ storage_stride = 8 /\ offsetInStatus = 1 /\ add_status_storage = 73
        /\ piggyback_offset = 8 /\ request_offset = 0
    BY DEF IInv, Layout, Started, ParamsSize, PointerSize
  <1>3. count * StatusSize \in Nat /\ count * (73 + StatusSize) = count * StatusSize + count * 73
    BY <1>1
  <1> QED
    BY <1>1, <1>2, <1>3
    DEF StorageAt, Info, Row, End, RowSize, ParamsSize, PointerSize

(* COPY_REQUEST fills its row, and writes nowhere else. *)
LEMMA CopyRequestFills ==
  ASSUME IInv, MemInv, pc \in Busy, UNCHANGED <<layoutVars, count>>,
         NEW num \in Nat, num < count, CopyRequest(num)
  PROVE  /\ DOMAIN mem' = DOMAIN mem
         /\ \A x \in DOMAIN mem :
              x <= Row(num) \/ x >= Row(num) + RowSize => mem'[x] = mem[x]
         /\ FieldsAt(num)'
  <1>1. Row(num) \in Nat /\ End \in Nat /\ Row(num) + RowSize <= End
    BY RowsApart DEF IInv
  <1>2. /\ StorageAt(count, num, offsetInStatus) = Row(num) + 1
        /\ storage_stride = PointerSize
    BY Addresses DEF IInv, Busy
  <1>3. DOMAIN mem = 0..(End - 1)
    BY DEF MemInv
  <1>4. \A x \in (Row(num) + 1)..(Row(num) + RowSize - 1) : x \in DOMAIN mem
    BY <1>1, <1>3 DEF RowSize, ParamsSize, PointerSize
  <1> DEFINE p == Row(num) + 1
             all == Written(mem, p, ParamsSize, Token("params", num))
             type == Written(all, p + TypeField.at, TypeField.len, Token("type", num))
             inreq == Written(type, p + InreqField.at, InreqField.len, Token("inreq", num))
  <1>5. mem' = Written(inreq, p + ParamsSize, PointerSize, Token("pointer", num))
    BY <1>2 DEF CopyRequest
  <1>6. /\ DOMAIN all = DOMAIN mem /\ DOMAIN type = DOMAIN mem
        /\ DOMAIN inreq = DOMAIN mem /\ DOMAIN mem' = DOMAIN mem
    BY <1>5 DEF Written
  <1>7. \A x \in DOMAIN mem :
          mem'[x] = IF x \in (p + 64)..(p + 71) THEN Token("pointer", num)
                    ELSE IF x \in (p + 48)..(p + 51) THEN Token("inreq", num)
                    ELSE IF x \in p..(p + 3) THEN Token("type", num)
                    ELSE IF x \in p..(p + 63) THEN Token("params", num) ELSE mem[x]
    <2>1. p \in Int
      BY <1>1
    <2>2. /\ (p + ParamsSize)..(p + ParamsSize + PointerSize - 1) = (p + 64)..(p + 71)
          /\ (p + InreqField.at)..(p + InreqField.at + InreqField.len - 1) = (p + 48)..(p + 51)
          /\ (p + TypeField.at)..(p + TypeField.at + TypeField.len - 1) = p..(p + 3)
          /\ p..(p + ParamsSize - 1) = p..(p + 63)
      BY <2>1 DEF ParamsSize, PointerSize, InreqField, TypeField
    <2> HIDE DEF p
    <2> QED
      BY <1>5, <1>6, <2>2 DEF Written
  <1>8. \A x \in DOMAIN mem :
          x <= Row(num) \/ x >= Row(num) + RowSize => mem'[x] = mem[x]
    <2>1. ASSUME NEW x \in DOMAIN mem, x <= Row(num) \/ x >= Row(num) + RowSize
          PROVE  /\ x \notin (p + 64)..(p + 71) /\ x \notin (p + 48)..(p + 51)
                 /\ x \notin p..(p + 3) /\ x \notin p..(p + 63)
      BY <1>1, <1>3, <2>1 DEF RowSize, ParamsSize, PointerSize
    <2> HIDE DEF p
    <2> QED
      BY <1>7, <2>1
  <1>9. Row(num)' = Row(num)
    BY DEF Row
  <1>10. FieldsAt(num)'
    BY <1>1, <1>4, <1>6, <1>7, <1>9
    DEF FieldsAt, Holds, TypeField, InreqField, RowSize, ParamsSize, PointerSize
  <1> QED
    BY <1>6, <1>8, <1>10

(* A clock is written to its row, behind the status it belongs to. *)
LEMMA WriteClockFills ==
  ASSUME IInv, pc \in Busy, PbSize <= ParamsSize + 1, UNCHANGED <<layoutVars, count>>,
         NEW num \in Nat, num < count, NEW m, DOMAIN m = 0..(End - 1), WriteClock(m, num)
  PROVE  /\ DOMAIN mem' = DOMAIN m
         /\ \A x \in DOMAIN m :
              x < Row(num) + PointerSize \/ x >= Row(num) + PointerSize + PbSize =>
                mem'[x] = m[x]
         /\ ClockAt(num)'
  <1>1. /\ Row(num) \in Nat /\ End \in Nat /\ Row(num) + RowSize <= End
        /\ PbSize \in Nat
    BY RowsApart, StorageAssumption DEF IInv
  <1>2. StorageAt(count, num, piggyback_offset) = Row(num) + PointerSize
    BY Addresses DEF IInv, Busy
  <1>3. mem' = Written(m, Row(num) + PointerSize, PbSize, Token("clock", num))
    BY <1>2 DEF WriteClock
  <1>4. \A x \in (Row(num) + PointerSize)..(Row(num) + PointerSize + PbSize - 1) : x \in DOMAIN m
    BY <1>1 DEF RowSize, ParamsSize, PointerSize
  <1>5. Row(num)' = Row(num)
    BY DEF Row
  <1>6. ClockAt(num)'
    BY <1>3, <1>4, <1>5 DEF ClockAt, Holds, Written
  <1>7. \A x \in DOMAIN m :
          x < Row(num) + PointerSize \/ x >= Row(num) + PointerSize + PbSize => mem'[x] = m[x]
    BY <1>1, <1>3 DEF Written, PointerSize
  <1> QED
    BY <1>3, <1>6, <1>7 DEF Written

(* The quotient and the remainder of an address in an array of statuses. *)
LEMMA StatusByte ==
  ASSUME NEW s \in Nat, NEW j \in Nat, NEW b \in 0..(s - 1)
  PROVE  (j * s + b) \div s = j /\ (j * s + b) % s = b
  OBVIOUS

(* The bytes of one of c statuses lie before the rows. *)
LEMMA StatusInArray ==
  ASSUME NEW s \in Nat, NEW c \in Nat, NEW j \in Nat, j < c, NEW b \in 0..(s - 1)
  PROVE  j * s + b \in Nat /\ j * s + b < c * s
  <1>1. c * 0 + j * s + (b + 1) <= c * (s + 0)
    BY RowFits
  <1>2. j * s \in Nat
    OBVIOUS
  <1> QED
    BY <1>1, <1>2

(* MPI fills n statuses, and the rows stay as they are. *)
LEMMA EnvelopesFill ==
  ASSUME IInv, MemInv, pc \in Busy, NEW n \in Nat, n <= count, NEW failed \in BOOLEAN
  PROVE  /\ DOMAIN EnvelopesIn(n, failed) = DOMAIN mem
         /\ \A x \in DOMAIN mem : x >= count * StatusSize => EnvelopesIn(n, failed)[x] = mem[x]
         /\ \A j \in 0..(n - 1), b \in 0..(Envelope - 1) :
              EnvelopesIn(n, failed)[j * StatusSize + b] = Token("envelope", j)
  <1>1. /\ count \in Nat /\ StatusSize \in Nat /\ StatusSize >= 8
        /\ Envelope \in Nat /\ Envelope < StatusSize
        /\ n * StatusSize \in Nat /\ count * StatusSize \in Nat
    BY StorageAssumption DEF IInv, TypeOK, Envelope, ErrorSize
  <1>2. n * StatusSize <= count * StatusSize
    <2>1. PICK d \in Nat : count = n + d
      BY <1>1, count - n \in Nat, count = n + (count - n)
    <2>2. d * StatusSize \in Nat /\ count * StatusSize = n * StatusSize + d * StatusSize
      BY <1>1, <2>1
    <2> QED
      BY <1>1, <2>2
  <1>3. \A x \in DOMAIN mem : x >= count * StatusSize => EnvelopesIn(n, failed)[x] = mem[x]
    <2>1. End \in Nat /\ DOMAIN mem = 0..(End - 1)
      BY RowsApart DEF IInv, MemInv
    <2>2. ASSUME NEW x \in DOMAIN mem, x >= count * StatusSize
          PROVE  ~ (x < n * StatusSize)
      BY <1>1, <1>2, <2>1, <2>2
    <2> QED
      BY <2>2 DEF EnvelopesIn
  <1>4. ASSUME NEW j \in 0..(n - 1), NEW b \in 0..(Envelope - 1)
        PROVE  EnvelopesIn(n, failed)[j * StatusSize + b] = Token("envelope", j)
    <2> DEFINE x == j * StatusSize + b
    <2>1. b \in 0..(StatusSize - 1) /\ j \in Nat /\ j < n
      BY <1>1
    <2>2. x \in Nat /\ x < n * StatusSize
      BY <1>1, <2>1, StatusInArray
    <2>3. x \div StatusSize = j /\ x % StatusSize = b
      BY <1>1, <2>1, StatusByte
    <2>4. x \in DOMAIN mem
      <3>1. End \in Nat /\ End >= count * StatusSize /\ DOMAIN mem = 0..(End - 1)
        <4>1. count * RowSize \in Nat
          BY <1>1 DEF RowSize, ParamsSize, PointerSize
        <4> QED
          BY <1>1, <4>1 DEF End, MemInv
      <3> HIDE DEF x
      <3> QED
        BY <1>1, <1>2, <2>2, <3>1
    <2>5. b < Envelope
      BY <1>1
    <2> HIDE DEF x
    <2>6. EnvelopesIn(n, failed)[x] = Token("envelope", j)
      BY <2>2, <2>3, <2>4, <2>5 DEF EnvelopesIn
    <2> QED
      BY <2>6 DEF x
  <1> QED
    BY <1>3, <1>4 DEF EnvelopesIn

(* A row that is written nowhere keeps what it holds; its fields stay even *)
(* when the clock comes, which is stored among the parameters but before   *)
(* the first field that is read later.                                     *)
LEMMA FieldsKept ==
  ASSUME IInv, UNCHANGED count, NEW j \in Nat, DOMAIN mem' = DOMAIN mem,
         \A x \in DOMAIN mem :
           (Row(j) < x /\ x < Row(j) + PointerSize)
             \/ (Row(j) + 1 + InreqField.at <= x /\ x < Row(j) + RowSize) => mem'[x] = mem[x],
         FieldsAt(j)
  PROVE  FieldsAt(j)'
  <1>1. Row(j) \in Nat
    BY RowsApart DEF IInv
  <1>2. Row(j)' = Row(j)
    BY DEF Row
  <1> QED
    BY <1>1, <1>2
    DEF FieldsAt, Holds, TypeField, InreqField, RowSize, ParamsSize, PointerSize

LEMMA ClockKept ==
  ASSUME IInv, UNCHANGED count, NEW j \in Nat, DOMAIN mem' = DOMAIN mem,
         PbSize <= ParamsSize + 1,
         \A x \in DOMAIN mem :
           Row(j) < x /\ x < Row(j) + RowSize => mem'[x] = mem[x],
         ClockAt(j)
  PROVE  ClockAt(j)'
  <1>1. Row(j) \in Nat /\ PbSize \in Nat
    BY RowsApart, StorageAssumption DEF IInv
  <1>2. Row(j)' = Row(j)
    BY DEF Row
  <1> QED
    BY <1>1, <1>2 DEF ClockAt, Holds, RowSize, ParamsSize, PointerSize

(* The memory, its envelopes and what the application got, step by step.   *)
UserInv == MemInv /\ EnvelopeInv /\ UserSeesStatuses

(* The envelopes outlive every step that writes behind the statuses only.  *)
LEMMA EnvelopesKept ==
  ASSUME IInv, UNCHANGED <<count, kinds>>, MemInv, EnvelopeInv,
         pc \in {"Request", "Piggyback", "Clock"},
         \A x \in DOMAIN mem : x < count * StatusSize => mem'[x] = mem[x]
  PROVE  EnvelopeInv'
  <1>1. /\ count \in Nat /\ StatusSize \in Nat /\ Len(kinds) \in Nat /\ Len(kinds) <= count
        /\ Envelope \in Nat /\ Envelope < StatusSize /\ End \in Nat
        /\ End >= count * StatusSize /\ count * StatusSize \in Nat
    <2>1. count \in Nat /\ StatusSize \in Nat /\ StatusSize >= 8
          /\ Len(kinds) \in Nat /\ Len(kinds) <= count
      BY StorageAssumption DEF IInv, TypeOK
    <2>2. count * RowSize \in Nat /\ count * StatusSize \in Nat
      BY <2>1 DEF RowSize, ParamsSize, PointerSize
    <2> QED
      BY <2>1, <2>2 DEF Envelope, ErrorSize, End
  <1>2. ASSUME NEW j \in 0..(Len(kinds) - 1), NEW b \in 0..(Envelope - 1)
        PROVE  mem'[j * StatusSize + b] = Token("envelope", j)
    <2>1. j \in Nat /\ j < count /\ b \in 0..(StatusSize - 1)
      BY <1>1
    <2> DEFINE x == j * StatusSize + b
    <2>2. x \in Nat /\ x < count * StatusSize
      BY <1>1, <2>1, StatusInArray
    <2>3. DOMAIN mem = 0..(End - 1)
      BY DEF MemInv, Busy, Started
    <2>4. mem[x] = Token("envelope", j)
      BY DEF EnvelopeInv
    <2> HIDE DEF x
    <2>5. mem'[x] = mem[x]
      BY <1>1, <2>2, <2>3
    <2> QED
      BY <2>4, <2>5 DEF x
  <1> QED
    BY <1>2 DEF EnvelopeInv, Envelope

(* What leaves the memory and the statuses alone needs no more. *)
LEMMA UserSame ==
  ASSUME UserInv, UNCHANGED <<layoutVars, count, op, kinds, mem, user>>,
         pc' = pc \/ (/\ pc \in {"Request", "Piggyback", "Clock"}
                      /\ pc' \in {"Request", "Piggyback", "Clock", "Return"})
  PROVE  UserInv'
  <1>1. MemInv'
    <2>1. Allocated(count)' = Allocated(count)
      BY DEF Allocated, layoutVars, Envelope, Token, Garbage
    <2>2. pc' \in {"CopyFirst", "PMPI"} => pc' = pc
      OBVIOUS
    <2>3. pc' \in Busy => pc \in Busy
      BY DEF Busy, Started
    <2> QED
      BY <2>1, <2>2, <2>3 DEF UserInv, MemInv, End
  <1>2. EnvelopeInv'
    BY DEF UserInv, EnvelopeInv, Envelope
  <1>3. UserSeesStatuses'
    BY DEF UserInv, UserSeesStatuses, Envelope
  <1> QED
    BY <1>1, <1>2, <1>3 DEF UserInv

(* While the layers start there is no call, and a call begins with what    *)
(* ALLOCATE_STATUS leaves.                                                 *)
LEMMA UserBegins ==
  ASSUME IInv, UserInv,
         \/ PiggybackReserves \/ RequestReserves \/ PiggybackReservesClock
         \/ \E o \in Ops, c \in 1..MaxCount : Call(o, c)
  PROVE  UserInv'
  <1>1. CASE PiggybackReserves \/ RequestReserves \/ PiggybackReservesClock
    BY <1>1 DEF PiggybackReserves, RequestReserves, PiggybackReservesClock, UserInv, MemInv,
       EnvelopeInv, UserSeesStatuses, Busy, Started
  <1>2. ASSUME NEW o \in Ops, NEW c \in 1..MaxCount, Call(o, c)
        PROVE  UserInv'
    <2>1. /\ mem' = Allocated(c) /\ count' = c /\ kinds' = <<>> /\ user' = <<>>
          /\ pc' \in {"CopyFirst", "PMPI"} /\ pc = "Idle"
      BY <1>2 DEF Call
    <2>2. c * (add_status_storage + StatusSize) = End'
      <3>1. c \in Nat /\ StatusSize \in Nat /\ add_status_storage = 73
        BY <2>1, StorageAssumption DEF IInv, Layout, ParamsSize, PointerSize
      <3>2. c * (73 + StatusSize) = c * StatusSize + c * 73
        BY <3>1
      <3> QED
        BY <2>1, <3>1, <3>2 DEF End, RowSize, ParamsSize, PointerSize
    <2>3. MemInv'
      <3>1. DOMAIN mem' = 0..(End' - 1)
        BY <2>1, <2>2 DEF Allocated
      <3>2. Allocated(c)' = mem'
        BY <1>2, <2>1 DEF Call, Allocated, layoutVars, Envelope, Token, Garbage
      <3>3. Allocated(count)' = mem'
        BY <2>1, <3>2 DEF Allocated
      <3> QED
        BY <2>1, <3>1, <3>3 DEF MemInv
    <2>4. EnvelopeInv' /\ UserSeesStatuses'
      BY <2>1 DEF EnvelopeInv, UserSeesStatuses
    <2> QED
      BY <2>3, <2>4 DEF UserInv
  <1> QED
    BY <1>1, <1>2

(* The request layer copies the request before MPI_Wait and MPI_Test. *)
LEMMA UserCopyFirst ==
  ASSUME IInv, UserInv, NEW kind \in Kinds, CopyFirst(kind)
  PROVE  UserInv'
  <1>1. pc = "CopyFirst" /\ pc' = "PMPI" /\ op \in Copied /\ op' = op /\ user' = user
    BY DEF CopyFirst, IInv, Calling, callArgs
  <1>2. pc \in Busy /\ 0 \in Nat /\ 0 < count /\ UNCHANGED <<layoutVars, count>>
    BY <1>1, StorageAssumption DEF CopyFirst, IInv, TypeOK, Calling, Busy, Started, callArgs
  <1>3. DOMAIN mem' = DOMAIN mem
    <2>1. CASE CheckCopy
      BY <1>2, <2>1, CopyRequestFills DEF CopyFirst, UserInv
    <2>2. CASE ~ CheckCopy
      BY <2>2 DEF CopyFirst
    <2> QED
      BY <2>1, <2>2
  <1>4. MemInv'
    BY <1>1, <1>2, <1>3 DEF UserInv, MemInv, End
  <1>5. EnvelopeInv' /\ UserSeesStatuses'
    BY <1>1 DEF EnvelopeInv, UserSeesStatuses
  <1> QED
    BY <1>4, <1>5 DEF UserInv

(* MPI fills the statuses, whichever call it is. *)
LEMMA UserCompletes ==
  ASSUME IInv, UserInv, pc = "PMPI", NEW n \in Nat, n <= count, NEW failed \in BOOLEAN,
         mem' = EnvelopesIn(n, failed), UNCHANGED <<count, user>>,
         pc' \in {"Request", "Piggyback", "Clock", "Return"}, Len(kinds') <= n,
         Len(kinds') \in Nat
  PROVE  UserInv'
  <1>1. pc \in Busy
    BY DEF Busy, Started
  <1>2. /\ DOMAIN mem' = DOMAIN mem
        /\ \A j \in 0..(n - 1), b \in 0..(Envelope - 1) :
             mem'[j * StatusSize + b] = Token("envelope", j)
    BY <1>1, EnvelopesFill DEF UserInv
  <1>3. MemInv'
    BY <1>1, <1>2 DEF UserInv, MemInv, End
  <1>4. EnvelopeInv'
    <2>1. \A j \in 0..(Len(kinds') - 1) : j \in 0..(n - 1)
      OBVIOUS
    <2> QED
      BY <1>2, <2>1 DEF EnvelopeInv, Envelope
  <1>5. UserSeesStatuses'
    BY DEF UserSeesStatuses
  <1> QED
    BY <1>3, <1>4, <1>5 DEF UserInv

LEMMA UserPMPI ==
  ASSUME IInv, UserInv, PbSize <= ParamsSize + 1,
         \/ PMPI_Probe \/ PMPI_Receive
         \/ \E n \in 0..MaxCount, failed \in BOOLEAN : PMPI_Complete(n, failed)
  PROVE  UserInv'
  <1>0. pc = "PMPI" /\ pc \in Busy /\ count \in Nat /\ count >= 1
    <2>1. pc = "PMPI"
      BY DEF PMPI_Probe, PMPI_Receive, PMPI_Complete
    <2>2. count \in 0..MaxCount /\ MaxCount \in Nat
      BY StorageAssumption DEF IInv, TypeOK
    <2> QED
      BY <2>1, <2>2 DEF IInv, Calling, Busy, Started
  <1>1. CASE PMPI_Probe
    <2>1. kinds' = <<>>
      BY <1>0, <1>1 DEF PMPI_Probe, UserInv, MemInv, Copied
    <2>2. Len(kinds') = 0
      BY <2>1
    <2>3. mem' = EnvelopesIn(1, FALSE) /\ pc' = "Return" /\ UNCHANGED <<count, user>>
      BY <1>1 DEF PMPI_Probe, callArgs
    <2>4. 1 \in Nat /\ Len(kinds') <= 1 /\ Len(kinds') \in Nat /\ FALSE \in BOOLEAN
      BY <2>2
    <2>5. 1 <= count
      BY <1>0
    <2> QED
      BY <1>0, <2>3, <2>4, <2>5, UserCompletes
  <1>2. CASE PMPI_Receive
    <2> DEFINE m == EnvelopesIn(1, FALSE)
    <2>1. /\ DOMAIN m = DOMAIN mem
          /\ \A j \in 0..(1 - 1), b \in 0..(Envelope - 1) :
               m[j * StatusSize + b] = Token("envelope", j)
      <3>1. 1 \in Nat /\ 1 <= count /\ FALSE \in BOOLEAN /\ MemInv
        BY <1>0 DEF UserInv
      <3> QED
        BY <1>0, <3>1, EnvelopesFill, Zenon
    <2>2. DOMAIN m = 0..(End - 1)
      BY <1>0, <2>1 DEF UserInv, MemInv
    <2>3. WriteClock(m, 0) /\ UNCHANGED <<layoutVars, count>>
      BY <1>2 DEF PMPI_Receive, callArgs
    <2> HIDE DEF m
    <2>4. /\ DOMAIN mem' = DOMAIN m
          /\ \A x \in DOMAIN m :
               x < Row(0) + PointerSize \/ x >= Row(0) + PointerSize + PbSize => mem'[x] = m[x]
      <3>1. 0 \in Nat /\ 0 < count
        BY <1>0
      <3> QED
        BY <1>0, <2>2, <2>3, <3>1, WriteClockFills, Zenon
    <2>5. Row(0) \in Nat /\ End \in Nat /\ Row(0) + RowSize <= End /\ Row(0) >= count * StatusSize
      BY <1>0, RowsApart DEF IInv
    <2>6. EnvelopeInv'
      <3>1. kinds' = <<"recv">> /\ Len(kinds') = 1
        BY <1>2 DEF PMPI_Receive
      <3>2. ASSUME NEW b \in 0..(Envelope - 1)
            PROVE  mem'[0 * StatusSize + b] = Token("envelope", 0)
        <4>1. StatusSize \in Nat /\ b \in 0..(StatusSize - 1)
          BY StorageAssumption DEF Envelope, ErrorSize
        <4>2. 0 * StatusSize + b = b /\ b < count * StatusSize /\ b \in Nat
          BY <1>0, <4>1, StatusInArray
        <4>3. m[b] = Token("envelope", 0)
          BY <2>1, <4>2
        <4>4. count * StatusSize \in Nat
          BY <1>0, <4>1
        <4>5. b \in DOMAIN m /\ b < Row(0) + PointerSize
          BY <2>2, <2>5, <4>2, <4>4 DEF RowSize, ParamsSize, PointerSize
        <4> QED
          BY <2>4, <4>2, <4>3, <4>5
      <3>3. \A j \in 0..(Len(kinds') - 1) : j = 0
        BY <3>1
      <3> QED
        BY <3>2, <3>3 DEF EnvelopeInv, Envelope
    <2>7. MemInv' /\ UserSeesStatuses'
      BY <1>0, <1>2, <2>2, <2>4 DEF PMPI_Receive, UserInv, MemInv, End, UserSeesStatuses, callArgs
    <2> QED
      BY <2>6, <2>7 DEF UserInv
  <1>3. ASSUME NEW n \in 0..MaxCount, NEW failed \in BOOLEAN, PMPI_Complete(n, failed)
        PROVE  UserInv'
    <2>1. n \in Nat /\ n <= count
      BY <1>0, <1>3, ReportedFits DEF PMPI_Complete, IInv
    <2>2. Len(kinds') \in Nat /\ Len(kinds') <= n
      <3>1. CASE op \in Copied
        <4>1. kinds \in Seq(Kinds) /\ Len(kinds) = 1 /\ n \in {0, 1}
          BY <1>0, <1>3, <3>1
          DEF IInv, TypeOK, Calling, PMPI_Complete, Reported, Copied, SomeOps
        <4>2. Len(SubSeq(kinds, 1, n)) = n
          BY <4>1
        <4> QED
          BY <1>3, <2>1, <3>1, <4>2 DEF PMPI_Complete
      <3>2. CASE op \notin Copied
        <4>1. kinds' \in [1..n -> Reportable]
          BY <1>3, <3>2 DEF PMPI_Complete
        <4> QED
          BY <2>1, <4>1, ArrayIsSeq
      <3> QED
        BY <3>1, <3>2
    <2>3. pc' \in {"Request", "Piggyback", "Clock", "Return"}
      BY <1>3 DEF PMPI_Complete
    <2> QED
      BY <1>0, <1>3, <2>1, <2>2, <2>3, UserCompletes DEF PMPI_Complete, callArgs
  <1> QED
    BY <1>1, <1>2, <1>3

(* A step of a loop that writes behind the statuses only *)
LEMMA UserLoop ==
  ASSUME IInv, UserInv, pc \in {"Request", "Piggyback", "Clock"},
         pc' \in {"Request", "Piggyback", "Clock", "Return"},
         UNCHANGED <<layoutVars, callArgs, kinds, user>>, DOMAIN mem' = DOMAIN mem,
         \A x \in DOMAIN mem : x < count * StatusSize => mem'[x] = mem[x]
  PROVE  UserInv'
  <1>1. EnvelopeInv'
    BY EnvelopesKept DEF UserInv, callArgs
  <1>2. MemInv' /\ UserSeesStatuses'
    BY DEF UserInv, MemInv, End, UserSeesStatuses, callArgs, Busy, Started
  <1> QED
    BY <1>1, <1>2 DEF UserInv

LEMMA UserLoops ==
  ASSUME IInv, UserInv, PbSize <= ParamsSize + 1, CopyAfter \/ AsyncComplete \/ SyncClock
  PROVE  UserInv'
  <1>1. /\ pc \in {"Request", "Piggyback", "Clock"} /\ pc \in Busy
        /\ pc' \in {"Request", "Piggyback", "Clock", "Return"}
        /\ UNCHANGED <<layoutVars, callArgs, kinds, user>> /\ UNCHANGED count
    BY DEF CopyAfter, AsyncComplete, SyncClock, Loop, callArgs, Busy, Started
  <1>2. /\ k \in Nat /\ Len(kinds) \in Nat /\ Len(kinds) <= count /\ count \in Nat
        /\ DOMAIN mem = 0..(End - 1)
    BY <1>1, StorageAssumption DEF IInv, TypeOK, UserInv, MemInv
  <1>3. /\ Row(k) \in Nat /\ count * StatusSize \in Nat /\ End \in Nat
        /\ Row(k) >= count * StatusSize
    BY <1>2, RowsApart DEF IInv
  <1>4. CASE mem' = mem
    BY <1>1, <1>4, UserLoop
  <1>5. CASE k < Len(kinds) /\ CopyRequest(k)
    <2>1. /\ DOMAIN mem' = DOMAIN mem
          /\ \A x \in DOMAIN mem : x <= Row(k) => mem'[x] = mem[x]
      BY <1>1, <1>2, <1>5, CopyRequestFills DEF UserInv
    <2>2. \A x \in DOMAIN mem : x < count * StatusSize => mem'[x] = mem[x]
      BY <1>2, <1>3, <2>1
    <2> QED
      BY <1>1, <2>1, <2>2, UserLoop
  <1>6. CASE k < Len(kinds) /\ WriteClock(mem, k)
    <2>1. /\ DOMAIN mem' = DOMAIN mem
          /\ \A x \in DOMAIN mem :
               x < Row(k) + PointerSize \/ x >= Row(k) + PointerSize + PbSize => mem'[x] = mem[x]
      <3>1. k < count
        BY <1>2, <1>6
      <3> QED
        BY <1>1, <1>2, <1>6, <3>1, WriteClockFills, Zenon
    <2>2. \A x \in DOMAIN mem : x < count * StatusSize => mem'[x] = mem[x]
      BY <1>2, <1>3, <2>1 DEF PointerSize
    <2> QED
      BY <1>1, <2>1, <2>2, UserLoop
  <1> QED
    BY <1>4, <1>5, <1>6 DEF CopyAfter, AsyncComplete, SyncClock

(* COPY_STATUS hands over the statuses, and no byte behind them. *)
LEMMA UserReturns ==
  ASSUME IInv, UserInv, NEW ignored \in BOOLEAN, CopyStatus(ignored)
  PROVE  UserInv'
  <1>0. /\ count \in Nat /\ Len(kinds) \in Nat /\ Len(kinds) <= count
        /\ StatusSize \in Nat /\ Envelope \in Nat /\ Envelope <= StatusSize
    BY StorageAssumption DEF IInv, TypeOK, Envelope, ErrorSize
  <1>1. pc = "Return" /\ pc' = "Idle" /\ UNCHANGED <<layoutVars, callArgs, kinds, mem>>
    BY DEF CopyStatus
  <1>2. MemInv' /\ EnvelopeInv'
    <2>1. /\ pc' \notin Busy /\ pc' /= "CopyFirst" /\ pc' /= "PMPI"
          /\ pc' \notin {"Request", "Piggyback", "Clock", "Return"}
      BY <1>1 DEF Busy
    <2>2. EnvelopeInv'
      BY <2>1 DEF EnvelopeInv
    <2>3. MemInv'
      BY <1>1, <2>1 DEF MemInv
    <2> QED
      BY <2>2, <2>3
  <1>3. ASSUME ignored
        PROVE  UserSeesStatuses'
    BY <1>1, <1>3 DEF CopyStatus, UserSeesStatuses
  <1>4. ASSUME ~ ignored
        PROVE  UserSeesStatuses'
    <2>1. user' = [j \in 1..count |->
                     IF j <= CopiedCount
                     THEN [b \in 0..(StatusSize - 1) |-> mem[(j - 1) * StatusSize + b]]
                     ELSE [b \in 0..(StatusSize - 1) |-> Token("application", j)]]
      BY <1>4 DEF CopyStatus
    <2>2. ASSUME NEW j \in 1..Len(kinds), NEW b \in 0..(Envelope - 1)
          PROVE  user'[j][b] = Token("envelope", j - 1)
      <3>1. j \in 1..count /\ j <= CopiedCount /\ b \in 0..(StatusSize - 1)
        BY <1>0 DEF CopiedCount
      <3>2. user'[j][b] = mem[(j - 1) * StatusSize + b]
        BY <2>1, <3>1
      <3>3. j - 1 \in 0..(Len(kinds) - 1)
        BY <1>0
      <3> QED
        BY <1>1, <3>2, <3>3 DEF UserInv, EnvelopeInv
    <2>3. ASSUME op \in SomeOps, NEW j \in (Len(kinds) + 1)..count,
                 NEW b \in 0..(StatusSize - 1)
          PROVE  user'[j][b] = Token("application", j)
      <3>1. j \in 1..count /\ ~ (j <= CopiedCount)
        BY <1>0, <2>3 DEF CopiedCount
      <3> QED
        BY <2>1, <3>1
    <2>4. op' = op /\ kinds' = kinds /\ count' = count
      BY <1>1 DEF callArgs
    <2>5. \A j \in 1..Len(kinds), b \in 0..(Envelope - 1) :
            user'[j][b] = Token("envelope", j - 1)
      BY <2>2
    <2>6. op \in SomeOps => \A j \in (Len(kinds) + 1)..count, b \in 0..(StatusSize - 1) :
            user'[j][b] = Token("application", j)
      BY <2>3
    <2>7. Envelope' = Envelope
      BY DEF Envelope
    <2> QED
      BY <2>4, <2>5, <2>6, <2>7, Zenon DEF UserSeesStatuses
  <1> QED
    BY <1>2, <1>3, <1>4 DEF UserInv

LEMMA UserStep ==
  ASSUME PbSize <= ParamsSize + 1, IInv, UserInv, [Next]_vars
  PROVE  UserInv'
  <1>1. CASE UNCHANGED vars
    BY <1>1, UserSame DEF vars, callVars
  <1>2. CASE \E kind \in Kinds : CopyFirst(kind)
    BY <1>2, UserCopyFirst
  <1>3. CASE \E ignored \in BOOLEAN : CopyStatus(ignored)
    BY <1>3, UserReturns
  <1> QED
    BY <1>1, <1>2, <1>3, UserBegins, UserPMPI, UserLoops DEF Next

(* When a call returns, the application has the envelope of every request  *)
(* reported, at its position, and MPI_Waitsome and MPI_Testsome leave the  *)
(* rest of its array alone: nothing that COPY_REQUEST and ASYNC_COMPLETE   *)
(* write behind the statuses reaches COPY_STATUS.                          *)
THEOREM ApplicationGetsStatuses ==
  ASSUME PbSize <= ParamsSize + 1
  PROVE  Spec => []UserSeesStatuses
  <1>1. Init => UserInv
    BY DEF Init, UserInv, MemInv, EnvelopeInv, UserSeesStatuses, Busy, Started
  <1>2. IInv /\ [Next]_vars => IInv'
    BY StepIInv
  <1>3. IInv /\ UserInv /\ [Next]_vars => UserInv'
    BY UserStep
  <1>4. UserInv => UserSeesStatuses
    BY DEF UserInv
  <1> QED
    BY InitIInv, <1>1, <1>2, <1>3, <1>4, PTL DEF Spec

(* What the layers read.  Each row is kept by every step that does not     *)
(* write to it, and its clock comes when type and inreq are still needed:  *)
(* the offset the piggyback layer took from the wrong counter puts it      *)
(* among the parameters, ahead of inreq if it is short enough.             *)
ShortClock == PointerSize + PbSize <= 1 + InreqField.at

ReadInv == FieldsInv /\ ClockInv

(* The tag of ALLOCATE_STATUS is there until MPI is called. *)
LEMMA TagThere ==
  ASSUME IInv, UserInv, pc = "CopyFirst" \/ (pc = "PMPI" /\ op \notin Copied)
  PROVE  CheckCopy
  <1>1. mem = Allocated(count) /\ count \in Nat /\ count >= 1
    <2>1. count \in 0..MaxCount /\ MaxCount \in Nat
      BY StorageAssumption DEF IInv, TypeOK
    <2> QED
      BY <2>1 DEF IInv, Calling, UserInv, MemInv
  <1>2. StatusSize \in Nat /\ Envelope \in Nat /\ End \in Nat /\ StatusSize <= count * StatusSize
        /\ count * StatusSize \in Nat
    <2>1. StatusSize \in Nat /\ StatusSize >= 8
      BY StorageAssumption
    <2>2. PICK d \in Nat : count = d + 1
      BY <1>1, count - 1 \in Nat, count = (count - 1) + 1
    <2>3. d * StatusSize \in Nat /\ count * StatusSize = d * StatusSize + StatusSize
      BY <2>1, <2>2
    <2> QED
      BY <2>1, <2>3, RowsApart DEF IInv, Envelope, ErrorSize
  <1>3. End >= count * StatusSize
    BY <1>1, <1>2 DEF End, RowSize, ParamsSize, PointerSize
  <1>4. 0..(count * (add_status_storage + StatusSize) - 1) = 0..(End - 1)
    BY Addresses, <1>1 DEF IInv, Started
  <1>5. ASSUME NEW x \in Envelope..(StatusSize - 1)
        PROVE  Allocated(count)[x] = Token("tag", 0)
    <2>1. x \in Nat /\ x < StatusSize /\ x >= Envelope
      BY <1>2
    <2>2. x % StatusSize = x
      BY <1>2, <2>1
    <2>3. x \in 0..(End - 1) /\ x < count * StatusSize
      BY <1>2, <1>3, <2>1
    <2> QED
      BY <1>4, <2>1, <2>2, <2>3 DEF Allocated
  <1> QED
    BY <1>1, <1>5 DEF CheckCopy

LEMMA ReadCopyFirst ==
  ASSUME IInv, UserInv, NEW kind \in Kinds, CopyFirst(kind)
  PROVE  ReadInv'
  <1>1. /\ pc = "CopyFirst" /\ pc' = "PMPI" /\ pc \in Busy
        /\ UNCHANGED <<layoutVars, count>>
    BY DEF CopyFirst, callArgs, Busy, Started
  <1>2. 0 \in Nat /\ 0 < count
    <2>1. count \in 0..MaxCount /\ MaxCount \in Nat
      BY StorageAssumption DEF IInv, TypeOK
    <2> QED
      BY <1>1, <2>1 DEF IInv, Calling
  <1>3. CopyRequest(0)
    BY <1>1, TagThere DEF CopyFirst
  <1>4. FieldsAt(0)'
    BY <1>1, <1>2, <1>3, CopyRequestFills DEF UserInv
  <1> QED
    BY <1>1, <1>4 DEF ReadInv, FieldsInv, ClockInv

LEMMA ReadPMPI ==
  ASSUME IInv, UserInv, ReadInv, PbSize <= ParamsSize + 1,
         \/ PMPI_Probe \/ PMPI_Receive
         \/ \E n \in 0..MaxCount, failed \in BOOLEAN : PMPI_Complete(n, failed)
  PROVE  ReadInv'
  <1>0. pc = "PMPI" /\ pc \in Busy /\ count \in Nat /\ count >= 1 /\ k = 0
    <2>1. pc = "PMPI"
      BY DEF PMPI_Probe, PMPI_Receive, PMPI_Complete
    <2>2. count \in 0..MaxCount /\ MaxCount \in Nat
      BY StorageAssumption DEF IInv, TypeOK
    <2> QED
      BY <2>1, <2>2 DEF IInv, Calling, Busy, Started
  <1>1. CASE PMPI_Probe
    BY <1>1 DEF PMPI_Probe, ReadInv, FieldsInv, ClockInv
  <1>2. CASE PMPI_Receive
    <2> DEFINE m == EnvelopesIn(1, FALSE)
    <2>1. DOMAIN m = 0..(End - 1)
      BY <1>0 DEF EnvelopesIn, UserInv, MemInv
    <2>2. /\ WriteClock(m, 0) /\ UNCHANGED <<layoutVars, count, op>> /\ kinds' = <<"recv">>
          /\ pc' = "Clock" /\ op \in Received
      BY <1>2 DEF PMPI_Receive, callArgs
    <2> HIDE DEF m
    <2>3. ClockAt(0)'
      <3>1. 0 \in Nat /\ 0 < count
        BY <1>0
      <3> QED
        BY <1>0, <2>1, <2>2, <3>1, WriteClockFills, Zenon
    <2>4. \A j \in 0..(Len(kinds') - 1) : j = 0
      BY <2>2
    <2>5. FieldsInv'
      BY <2>2 DEF FieldsInv
    <2>6. ClockInv'
      BY <2>2, <2>3, <2>4 DEF ClockInv
    <2> QED
      BY <2>5, <2>6 DEF ReadInv
  <1>3. ASSUME NEW n \in 0..MaxCount, NEW failed \in BOOLEAN, PMPI_Complete(n, failed)
        PROVE  ReadInv'
    <2>1. n \in Nat /\ n <= count
      BY <1>0, <1>3, ReportedFits DEF PMPI_Complete, IInv
    <2>2. /\ op \notin Received /\ UNCHANGED <<layoutVars, count, op, k>>
          /\ mem' = EnvelopesIn(n, failed)
      BY <1>3 DEF PMPI_Complete, callArgs
    <2>3. CASE op \in Copied
      <3>1. pc' = "Piggyback"
        BY <1>3, <2>3 DEF PMPI_Complete
      <3>2. /\ DOMAIN mem' = DOMAIN mem
            /\ \A x \in DOMAIN mem : x >= count * StatusSize => mem'[x] = mem[x]
        BY <1>0, <2>1, <2>2, EnvelopesFill DEF UserInv
      <3>3. FieldsAt(0)'
        <4>1. FieldsAt(0) /\ 0 \in Nat
          BY <1>0, <2>3 DEF ReadInv, FieldsInv
        <4>2. Row(0) \in Nat /\ Row(0) >= count * StatusSize /\ count * StatusSize \in Nat
              /\ End \in Nat /\ DOMAIN mem = 0..(End - 1)
          BY <1>0, RowsApart DEF IInv, UserInv, MemInv
        <4>3. \A x \in DOMAIN mem : Row(0) < x => mem'[x] = mem[x]
          BY <3>2, <4>2
        <4>4. \A x \in DOMAIN mem :
                (Row(0) < x /\ x < Row(0) + PointerSize)
                  \/ (Row(0) + 1 + InreqField.at <= x /\ x < Row(0) + RowSize) => mem'[x] = mem[x]
          BY <4>2, <4>3 DEF InreqField, RowSize, PointerSize
        <4> QED
          BY <2>2, <3>2, <4>1, <4>4, FieldsKept, Zenon
      <3>4. \A j \in 0..(Len(kinds') - 1) : j = 0
        <4>1. kinds \in Seq(Kinds) /\ Len(kinds) = 1 /\ n \in {0, 1}
          BY <1>0, <1>3, <2>3
          DEF IInv, TypeOK, Calling, PMPI_Complete, Reported, Copied, SomeOps
        <4>2. Len(SubSeq(kinds, 1, n)) = n
          BY <4>1
        <4>3. Len(kinds') = n
          BY <1>3, <2>3, <4>2 DEF PMPI_Complete
        <4> QED
          BY <4>1, <4>3
      <3>5. FieldsInv'
        BY <2>2, <3>1, <3>3, <3>4 DEF FieldsInv
      <3>6. ClockInv'
        <4>1. \A j \in 0..(k' - 1) : FALSE
          BY <1>0, <2>2
        <4> QED
          BY <3>1, <4>1 DEF ClockInv
      <3> QED
        BY <3>5, <3>6 DEF ReadInv
    <2>4. CASE op \notin Copied
      <3>1. pc' = "Request"
        BY <1>0, <1>3, <2>4, TagThere DEF PMPI_Complete
      <3>2. \A j \in 0..(k' - 1) : FALSE
        BY <1>0, <2>2
      <3> QED
        BY <2>2, <2>4, <3>1, <3>2 DEF ReadInv, FieldsInv, ClockInv
    <2> QED
      BY <2>3, <2>4
  <1> QED
    BY <1>1, <1>2, <1>3

LEMMA ReadLoops ==
  ASSUME IInv, UserInv, ReadInv, PbSize <= ParamsSize + 1, ShortClock,
         CopyAfter \/ AsyncComplete \/ SyncClock
  PROVE  ReadInv'
  <1>1. /\ pc \in {"Request", "Piggyback", "Clock"} /\ pc \in Busy
        /\ UNCHANGED <<layoutVars, op, count, kinds>>
    BY DEF CopyAfter, AsyncComplete, SyncClock, callArgs, Busy, Started
  <1>2. /\ k \in Nat /\ Len(kinds) \in Nat /\ k <= Len(kinds) /\ Len(kinds) <= count
        /\ count \in Nat
    BY StorageAssumption DEF IInv, TypeOK
  <1>3. DOMAIN mem = 0..(End - 1)
    BY <1>1 DEF UserInv, MemInv
  <1>4. PICK i \in Nat : i = k
    BY <1>2
  <1>5. CASE CopyAfter
    <2>0. /\ pc = "Request" /\ op \notin Copied \union Received
          /\ \A j \in 0..(i - 1) : FieldsAt(j)
      BY <1>4, <1>5 DEF CopyAfter, ReadInv, FieldsInv
    <2>1. CASE i < Len(kinds)
      <3>1. CopyRequest(i) /\ k' = i + 1 /\ pc' = "Request" /\ i < count
        BY <1>2, <1>4, <1>5, <2>0, <2>1 DEF CopyAfter, Loop
      <3>2. /\ DOMAIN mem' = DOMAIN mem
            /\ \A x \in DOMAIN mem : x <= Row(i) \/ x >= Row(i) + RowSize => mem'[x] = mem[x]
            /\ FieldsAt(i)'
        BY <1>1, <1>2, <1>4, <3>1, CopyRequestFills DEF UserInv
      <3>3. ASSUME NEW j \in 0..(i - 1)
            PROVE  FieldsAt(j)'
        <4>1. j \in Nat /\ j < i
          BY <1>2, <1>4
        <4>2. /\ Row(j) \in Nat /\ Row(i) \in Nat /\ Row(j) + RowSize <= Row(i)
              /\ End \in Nat
          BY <1>2, <1>4, <4>1, RowsApart DEF IInv
        <4>3. \A x \in DOMAIN mem : x < Row(j) + RowSize => mem'[x] = mem[x]
          BY <1>3, <3>2, <4>2 DEF RowSize, ParamsSize, PointerSize
        <4>4. \A x \in DOMAIN mem :
                (Row(j) < x /\ x < Row(j) + PointerSize)
                  \/ (Row(j) + 1 + InreqField.at <= x /\ x < Row(j) + RowSize) => mem'[x] = mem[x]
          BY <1>3, <4>2, <4>3 DEF RowSize, ParamsSize, PointerSize
        <4> QED
          BY <1>1, <2>0, <3>2, <4>1, <4>4, FieldsKept, Zenon
      <3>4. \A j \in 0..(k' - 1) : j = i \/ j \in 0..(i - 1)
        BY <1>2, <1>4, <3>1
      <3> QED
        BY <1>1, <2>0, <3>1, <3>2, <3>3, <3>4 DEF ReadInv, FieldsInv, ClockInv
    <2>2. CASE ~ (i < Len(kinds))
      <3>1. mem' = mem /\ k' = 0 /\ pc' = "Piggyback" /\ i = Len(kinds)
        BY <1>2, <1>4, <1>5, <2>2 DEF CopyAfter, Loop
      <3>2. \A j : FieldsAt(j)' <=> FieldsAt(j)
        BY <1>1, <3>1 DEF FieldsAt, Holds, Row
      <3>3. FieldsInv'
        BY <1>1, <2>0, <3>1, <3>2 DEF FieldsInv
      <3>4. \A j \in 0..(k' - 1) : FALSE
        BY <3>1
      <3> QED
        BY <3>1, <3>3, <3>4 DEF ReadInv, ClockInv
    <2> QED
      BY <2>1, <2>2
  <1>6. CASE AsyncComplete
    <2>0. /\ pc = "Piggyback" /\ op \notin Received
          /\ \A j \in 0..(Len(kinds) - 1) : FieldsAt(j)
          /\ \A j \in 0..(i - 1) : kinds[j + 1] = "recv" => ClockAt(j)
      BY <1>4, <1>6 DEF AsyncComplete, ReadInv, FieldsInv, ClockInv
    <2>1. ASSUME i < Len(kinds), kinds[i + 1] = "recv"
          PROVE  /\ \A j \in 0..(Len(kinds) - 1) : FieldsAt(j)'
                 /\ \A j \in 0..(i - 1) : kinds[j + 1] = "recv" => ClockAt(j)'
                 /\ ClockAt(i)'
      <3>1. WriteClock(mem, i) /\ i < count
        BY <1>2, <1>4, <1>6, <2>1 DEF AsyncComplete
      <3>2. /\ DOMAIN mem' = DOMAIN mem
            /\ \A x \in DOMAIN mem :
                 x < Row(i) + PointerSize \/ x >= Row(i) + PointerSize + PbSize =>
                   mem'[x] = mem[x]
            /\ ClockAt(i)'
        BY <1>1, <1>2, <1>3, <1>4, <3>1, WriteClockFills, Zenon
      <3>3. Row(i) \in Nat /\ End \in Nat /\ PbSize \in Nat
        BY <1>2, <1>4, RowsApart, StorageAssumption DEF IInv
      <3>4. ASSUME NEW j \in 0..(Len(kinds) - 1), NEW x \in DOMAIN mem,
                   \/ j /= i /\ Row(j) < x /\ x < Row(j) + RowSize
                   \/ Row(j) < x /\ x < Row(j) + PointerSize
                   \/ Row(j) + 1 + InreqField.at <= x /\ x < Row(j) + RowSize
            PROVE  mem'[x] = mem[x]
        <4>1. j \in Nat /\ Row(j) \in Nat /\ x \in Nat
          <5>1. j \in Nat
            BY <1>2
          <5>2. x \in Nat
            BY <1>3, <3>3
          <5> QED
            BY <1>2, <5>1, <5>2, RowsApart DEF IInv
        <4>2. CASE j = i
          BY <3>2, <3>3, <3>4, <4>1, <4>2 DEF ShortClock, InreqField, RowSize, PointerSize
        <4>3. CASE j < i
          <5>1. Row(j) + RowSize <= Row(i)
            BY <1>2, <1>4, <4>1, <4>3, RowsApart DEF IInv
          <5> QED
            BY <3>2, <3>3, <3>4, <4>1, <5>1 DEF InreqField, RowSize, ParamsSize, PointerSize
        <4>4. CASE i < j
          <5>1. Row(i) + RowSize <= Row(j)
            BY <1>2, <1>4, <4>1, <4>4, RowsApart DEF IInv
          <5>2. PointerSize + PbSize <= RowSize
            BY <3>3 DEF RowSize, ParamsSize, PointerSize
          <5> QED
            BY <3>2, <3>3, <3>4, <4>1, <5>1, <5>2 DEF InreqField, RowSize, ParamsSize, PointerSize
        <4> QED
          BY <1>2, <1>4, <4>1, <4>2, <4>3, <4>4
      <3>5. ASSUME NEW j \in 0..(Len(kinds) - 1)
            PROVE  FieldsAt(j)'
        <4>1. j \in Nat /\ FieldsAt(j)
          BY <2>0
        <4>2. \A x \in DOMAIN mem :
                (Row(j) < x /\ x < Row(j) + PointerSize)
                  \/ (Row(j) + 1 + InreqField.at <= x /\ x < Row(j) + RowSize) => mem'[x] = mem[x]
          BY <3>4
        <4> QED
          BY <1>1, <3>2, <4>1, <4>2, FieldsKept, Zenon
      <3>6. ASSUME NEW j \in 0..(i - 1), kinds[j + 1] = "recv"
            PROVE  ClockAt(j)'
        <4>1. j \in Nat /\ j /= i /\ j \in 0..(Len(kinds) - 1)
          BY <1>2, <1>4
        <4>2. ClockAt(j)
          BY <2>0, <3>6
        <4>3. \A x \in DOMAIN mem : Row(j) < x /\ x < Row(j) + RowSize => mem'[x] = mem[x]
          BY <3>4, <4>1
        <4> QED
          BY <1>1, <3>2, <4>1, <4>2, <4>3, ClockKept, Zenon
      <3> QED
        BY <3>2, <3>5, <3>6
    <2>2. ASSUME ~ (i < Len(kinds) /\ kinds[i + 1] = "recv")
          PROVE  /\ \A j \in 0..(Len(kinds) - 1) : FieldsAt(j)'
                 /\ \A j \in 0..(i - 1) : kinds[j + 1] = "recv" => ClockAt(j)'
      <3>1. mem' = mem
        BY <1>4, <1>6, <2>2 DEF AsyncComplete
      <3>2. \A j : (FieldsAt(j)' <=> FieldsAt(j)) /\ (ClockAt(j)' <=> ClockAt(j))
        BY <1>1, <3>1 DEF FieldsAt, ClockAt, Holds, Row
      <3> QED
        BY <2>0, <3>2
    <2>3. FieldsInv'
      <3>1. pc' \in {"Piggyback", "Clock"}
        BY <1>6, <2>0 DEF AsyncComplete, Loop
      <3>2. \A j \in 0..(Len(kinds) - 1) : FieldsAt(j)'
        BY <2>1, <2>2
      <3> QED
        BY <1>1, <2>0, <3>1, <3>2 DEF FieldsInv
    <2>4. ClockInv'
      <3>1. \A j \in 0..(i - 1) : kinds[j + 1] = "recv" => ClockAt(j)'
        BY <2>1, <2>2
      <3>2. CASE i < Len(kinds)
        <4>1. k' = i + 1 /\ pc' = "Piggyback"
          BY <1>4, <1>6, <2>0, <3>2 DEF AsyncComplete, Loop
        <4>2. \A j \in 0..(k' - 1) : j = i \/ j \in 0..(i - 1)
          BY <1>2, <1>4, <4>1
        <4>3. kinds[i + 1] = "recv" => ClockAt(i)'
          BY <2>1, <3>2
        <4>4. \A j \in 0..(k' - 1) : kinds[j + 1] = "recv" => ClockAt(j)'
          BY <3>1, <4>2, <4>3
        <4> QED
          BY <1>1, <4>1, <4>4 DEF ClockInv
      <3>3. CASE ~ (i < Len(kinds))
        <4>1. k' = 0 /\ pc' = "Clock" /\ i = Len(kinds)
          BY <1>2, <1>4, <1>6, <3>3 DEF AsyncComplete, Loop
        <4> QED
          BY <1>1, <3>1, <4>1 DEF ClockInv
      <3> QED
        BY <3>2, <3>3
    <2> QED
      BY <2>3, <2>4 DEF ReadInv
  <1>7. CASE SyncClock
    <2>1. mem' = mem /\ pc = "Clock" /\ pc' \in {"Clock", "Return"}
      BY <1>7 DEF SyncClock, Loop
    <2>2. \A j : (FieldsAt(j)' <=> FieldsAt(j)) /\ (ClockAt(j)' <=> ClockAt(j))
      BY <1>1, <2>1 DEF FieldsAt, ClockAt, Holds, Row
    <2>3. FieldsInv'
      BY <1>1, <2>1, <2>2 DEF FieldsInv, ReadInv
    <2>4. ClockInv'
      BY <1>1, <2>1, <2>2 DEF ClockInv, ReadInv
    <2> QED
      BY <2>3, <2>4 DEF ReadInv
  <1> QED
    BY <1>5, <1>6, <1>7

LEMMA ReadStep ==
  ASSUME PbSize <= ParamsSize + 1, ShortClock, IInv, UserInv, ReadInv, [Next]_vars
  PROVE  ReadInv'
  <1>1. CASE UNCHANGED vars
    <2>1. UNCHANGED <<pc, op, count, kinds, k, mem>>
      BY <1>1 DEF vars, callVars
    <2>2. \A j : (FieldsAt(j)' <=> FieldsAt(j)) /\ (ClockAt(j)' <=> ClockAt(j))
      BY <2>1 DEF FieldsAt, ClockAt, Holds, Row
    <2>3. FieldsInv'
      BY <2>1, <2>2 DEF FieldsInv, ReadInv
    <2>4. ClockInv'
      BY <2>1, <2>2 DEF ClockInv, ReadInv
    <2> QED
      BY <2>3, <2>4 DEF ReadInv
  <1>2. CASE PiggybackReserves \/ RequestReserves \/ PiggybackReservesClock
    BY <1>2 DEF PiggybackReserves, RequestReserves, PiggybackReservesClock, ReadInv,
       FieldsInv, ClockInv
  <1>3. CASE \E o \in Ops, c \in 1..MaxCount : Call(o, c)
    BY <1>3 DEF Call, ReadInv, FieldsInv, ClockInv
  <1>4. CASE \E kind \in Kinds : CopyFirst(kind)
    BY <1>4, ReadCopyFirst
  <1>5. CASE \E ignored \in BOOLEAN : CopyStatus(ignored)
    BY <1>5 DEF CopyStatus, ReadInv, FieldsInv, ClockInv
  <1> QED
    BY <1>1, <1>2, <1>3, <1>4, <1>5, ReadPMPI, ReadLoops DEF Next

(* The parameters that ASYNC_COMPLETE and cmpi_sync_clock_at test, the     *)
(* pointer that ASYNC_COMPLETE copies from and the clock that the clock    *)
(* layer merges are those of the request of that status, for arrays of any *)
(* length: as long as the clock ends before the field inreq, into which    *)
(* the piggyback layer's offset would otherwise make it run.               *)
THEOREM LayersReadTheirStatus ==
  ASSUME PointerSize + PbSize <= 1 + InreqField.at
  PROVE  Spec => []ReadsIntact
  <1>0. PbSize <= ParamsSize + 1 /\ ShortClock
    BY StorageAssumption DEF ShortClock, PointerSize, ParamsSize, InreqField
  <1>1. Init => UserInv /\ ReadInv
    BY DEF Init, UserInv, MemInv, EnvelopeInv, UserSeesStatuses, ReadInv, FieldsInv,
       ClockInv, Busy, Started
  <1>2. IInv /\ [Next]_vars => IInv'
    BY <1>0, StepIInv
  <1>3. IInv /\ UserInv /\ [Next]_vars => UserInv'
    BY <1>0, UserStep
  <1>4. IInv /\ UserInv /\ ReadInv /\ [Next]_vars => ReadInv'
    BY <1>0, ReadStep
  <1>5. IInv /\ ReadInv => ReadsIntact
    <2> SUFFICES ASSUME IInv, ReadInv, pc \in {"Piggyback", "Clock"}, k < Len(kinds)
                 PROVE  LET params == StorageAt(count, k, offsetInStatus)
                        IN  /\ op \notin Received =>
                                 /\ Holds(params + TypeField.at, TypeField.len, Token("type", k))
                                 /\ Holds(params + InreqField.at, InreqField.len,
                                          Token("inreq", k))
                            /\ (pc = "Piggyback" /\ kinds[k + 1] /= "null") =>
                                 Holds(Info(k), PointerSize, Token("pointer", k))
                            /\ (pc = "Clock" /\ kinds[k + 1] = "recv") =>
                                 Holds(StorageAt(count, k, piggyback_offset), PbSize,
                                       Token("clock", k))
      BY DEF ReadsIntact
    <2>1. k \in Nat /\ k \in 0..(Len(kinds) - 1)
      BY DEF IInv, TypeOK
    <2>2. /\ StorageAt(count, k, offsetInStatus) = Row(k) + 1
          /\ Info(k) = Row(k) + 1 + ParamsSize
          /\ StorageAt(count, k, piggyback_offset) = Row(k) + PointerSize
      BY <2>1, Addresses DEF Started
    <2>3. op \notin Received => FieldsAt(k)
      BY <2>1 DEF ReadInv, FieldsInv
    <2>4. pc = "Piggyback" => op \notin Received
      BY DEF ReadInv, FieldsInv
    <2>5. (pc = "Clock" /\ kinds[k + 1] = "recv") => ClockAt(k)
      BY <2>1 DEF ReadInv, ClockInv
    <2> QED
      BY <2>2, <2>3, <2>4, <2>5 DEF FieldsAt, ClockAt
  <1> QED
    BY InitIInv, <1>1, <1>2, <1>3, <1>4, <1>5, PTL DEF Spec
================================================================================
