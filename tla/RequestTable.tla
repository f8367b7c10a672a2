----------------------------- MODULE RequestTable ------------------------------
(***************************************************************************)
(* The request layer of CLMPI (src/src/clmpi_request.cpp) on one rank: a   *)
(* table of slots for the parameters of requests, a freelist linked        *)
(* through the slots, and the map from request handles to slots.           *)
(*                                                                         *)
(* requestmap is a std::map read with operator[], which enters an unknown  *)
(* handle with slot 0: Slot and Touched model that.  MPI hands out any     *)
(* handle that is not in use.  A PMPI call that completes requests may     *)
(* return an error.                                                        *)
(***************************************************************************)
EXTENDS Integers, Sequences, FiniteSets

CONSTANTS
  Handle,      \* values of an MPI_Request in use
  NULL,        \* MPI_REQUEST_NULL
  Segment,     \* TABLE_SEGMENT_SIZE
  MaxCount,    \* bound: largest array given to a call
  MaxLost,     \* bound: slots that failing calls may lose
  Cancels,     \* the requests the application cancels, by their state
  PassesNull   \* the application passes MPI_REQUEST_NULL

ASSUME TableAssumption ==
  /\ NULL \notin Handle
  /\ Segment \in Nat \ {0}
  /\ MaxCount \in Nat
  /\ MaxLost \in Nat
  /\ Cancels \subseteq {"active", "started"}
  /\ PassesNull \in BOOLEAN

EndOfList == -1

(* Of PNMPIMOD_Requests_Parameters_t, what a layer above or the table      *)
(* itself looks at.                                                        *)
Kind == {"send", "recv"}
Params == [kind : Kind, persistent : BOOLEAN, active : BOOLEAN, inreq : Handle]

(* The memory of a slot that was never associated: it belongs to nobody. *)
Uninitialised == [kind |-> "recv", persistent |-> FALSE, active |-> FALSE, inreq |-> "nobody"]

VARIABLES
  size,        \* reqtable.size
  reqs,        \* reqtable.reqs[slot].param
  next_free,   \* reqtable.reqs[slot].next_free
  freelist,    \* reqtable.freelist
  requestmap,  \* slots of the requests in it
  state,       \* state[h] in MPI: "none" (free for reuse), "active",
               \* "cancelled", and for a persistent one "inactive", "started"
  todo,        \* completed requests a wrapper's loop has not reached
  failed,      \* the PMPI call of that wrapper returned an error
  lost         \* history: slots of requests that such a call completed

tableVars == <<size, reqs, next_free, freelist>>
failVars == <<failed, lost>>
vars == <<tableVars, requestmap, state, todo, failVars>>

Slots == 0..(size - 1)

(* Mutant: the last new slot links past the table. *)
GrownPast(s, list) ==
  [i \in 0..(s + Segment - 1) |-> IF i < s THEN next_free[i] ELSE i + 1]

(* allocate_new_reqtable: the new slots come before the old freelist. *)
Grown(s, list) ==
  [i \in 0..(s + Segment - 1) |->
     IF i < s THEN next_free[i]
     ELSE IF i = s + Segment - 1 THEN list ELSE i + 1]

Init ==
  /\ size = Segment
  /\ reqs = [i \in 0..(Segment - 1) |-> Uninitialised]
  /\ next_free = [i \in 0..(Segment - 1) |-> IF i = Segment - 1 THEN EndOfList ELSE i + 1]
  /\ freelist = 0
  /\ requestmap = [h \in {} |-> 0]
  /\ state = [h \in Handle |-> "none"]
  /\ todo = <<>>
  /\ failed = FALSE
  /\ lost = {}

--------------------------------------------------------------------------------
(* requestmap[h] *)
Slot(h) == IF h \in DOMAIN requestmap THEN requestmap[h] ELSE 0

Touched(hs) == [g \in DOMAIN requestmap \union hs |-> Slot(g)]

(* Mutant: the slot stays on the freelist. *)
AssociateNoUnlink(h, p) ==
  /\ freelist # EndOfList
  /\ requestmap' = [Touched({h}) EXCEPT ![h] = freelist]
  /\ reqs' = [reqs EXCEPT ![freelist] = p]
  /\ UNCHANGED <<size, next_free, freelist>>

(* ASSOCIATE_REQUEST, growing the table when the freelist is empty. *)
Associate(h, p) ==
  IF freelist # EndOfList
    THEN /\ requestmap' = [Touched({h}) EXCEPT ![h] = freelist]
         /\ reqs' = [reqs EXCEPT ![freelist] = p]
         /\ freelist' = next_free[freelist]
         /\ UNCHANGED <<size, next_free>>
    ELSE /\ requestmap' = [Touched({h}) EXCEPT ![h] = size]
         /\ reqs' = [i \in 0..(size + Segment - 1) |->
                       IF i < size THEN reqs[i] ELSE IF i = size THEN p ELSE Uninitialised]
         /\ next_free' = Grown(size, freelist)
         /\ freelist' = next_free'[size]
         /\ size' = size + Segment

(* Mutant: a completed persistent request gives its slot back. *)
FreeAlways(h) ==
  IF h = NULL
    THEN requestmap' = Touched({NULL}) /\ UNCHANGED tableVars
    ELSE /\ next_free' = [next_free EXCEPT ![Slot(h)] = freelist]
         /\ freelist' = Slot(h)
         /\ requestmap' = [g \in DOMAIN requestmap \ {h} |-> requestmap[g]]
         /\ UNCHANGED <<size, reqs>>

(* COPY_REQUEST, which enters even MPI_REQUEST_NULL in the map, followed   *)
(* by FREE_REQUEST: a persistent request turns inactive, any other gives   *)
(* its slot back.                                                          *)
Free(h) ==
  IF h = NULL
    THEN requestmap' = Touched({NULL}) /\ UNCHANGED tableVars
    ELSE IF reqs[Slot(h)].persistent
      THEN /\ reqs' = [reqs EXCEPT ![Slot(h)].active = FALSE]
           /\ requestmap' = Touched({h})
           /\ UNCHANGED <<size, next_free, freelist>>
      ELSE /\ next_free' = [next_free EXCEPT ![Slot(h)] = freelist]
           /\ freelist' = Slot(h)
           /\ requestmap' = [g \in DOMAIN requestmap \ {h} |-> requestmap[g]]
           /\ UNCHANGED <<size, reqs>>

(* The same two after a PMPI call that failed: FREE_REQUEST does nothing,  *)
(* and the slot of a request that MPI has completed stays taken for ever.  *)
Keep(h) ==
  /\ requestmap' = Touched({h})
  /\ lost' = IF h = NULL \/ reqs[Slot(h)].persistent THEN lost ELSE lost \union {Slot(h)}
  /\ UNCHANGED tableVars

Idle == todo = <<>>

--------------------------------------------------------------------------------
(* MPI_Isend, MPI_Ibsend, MPI_Issend, MPI_Irsend, MPI_Irecv *)
MPI_Isend(h, kind) ==
  /\ Idle
  /\ state[h] = "none"
  /\ state' = [state EXCEPT ![h] = "active"]
  /\ Associate(h, [kind |-> kind, persistent |-> FALSE, active |-> TRUE, inreq |-> h])
  /\ UNCHANGED <<todo, failVars>>

(* MPI_Send_init, MPI_Bsend_init, MPI_Rsend_init, MPI_Ssend_init, MPI_Recv_init *)
MPI_Send_init(h, kind) ==
  /\ Idle
  /\ state[h] = "none"
  /\ state' = [state EXCEPT ![h] = "inactive"]
  /\ Associate(h, [kind |-> kind, persistent |-> TRUE, active |-> FALSE, inreq |-> h])
  /\ UNCHANGED <<todo, failVars>>

(* MPI_Start (one request) and MPI_Startall *)
MPI_Startall(hs) ==
  /\ Idle
  /\ hs # {}
  /\ \A h \in hs : state[h] = "inactive"
  /\ state' = [h \in Handle |-> IF h \in hs THEN "started" ELSE state[h]]
  /\ requestmap' = Touched(hs)
  /\ reqs' = [i \in Slots |-> IF \E h \in hs : Slot(h) = i
                                THEN [reqs[i] EXCEPT !.active = TRUE] ELSE reqs[i]]
  /\ UNCHANGED <<size, next_free, freelist, todo, failVars>>

(* What completion makes of a request inside MPI *)
Completed(s) == IF s \in {"started", "inactive"} THEN "inactive" ELSE "none"

(* The requests MPI may complete, and MPI_REQUEST_NULL. *)
Completable == {h \in Handle : state[h] # "none"} \union (IF PassesNull THEN {NULL} ELSE {})

(* PMPI completes the requests hs in a Wait or Test wrapper; MPI_Waitany,  *)
(* MPI_Testany, MPI_Waitsome and MPI_Testsome never complete a null one,   *)
(* the others pass over it in the array.  The call may report an error for *)
(* a request it has completed, as for a message that was truncated.        *)
PMPI_Completes(hs) ==
  /\ Idle
  /\ \A i, j \in DOMAIN hs : hs[i] = hs[j] /\ hs[i] # NULL => i = j
  /\ todo' = hs
  /\ failed' \in BOOLEAN
  /\ failed' => Cardinality(lost) + Len(hs) <= MaxLost
  /\ state' = [h \in Handle |->
                 IF \E i \in DOMAIN hs : hs[i] = h THEN Completed(state[h]) ELSE state[h]]
  /\ UNCHANGED <<tableVars, requestmap, lost>>

(* One round of the wrapper's loop: COPY_REQUEST and FREE_REQUEST *)
LoopStep ==
  /\ todo # <<>>
  /\ IF failed THEN Keep(Head(todo)) ELSE Free(Head(todo)) /\ UNCHANGED lost
  /\ todo' = Tail(todo)
  /\ failed' = (failed /\ todo' # <<>>)
  /\ UNCHANGED state

(* MPI_Test on a request that is not complete copies its parameters only. *)
MPI_TestFails(h) ==
  /\ Idle
  /\ state[h] \in {"active", "started", "cancelled"}
  /\ requestmap' = Touched({h})
  /\ UNCHANGED <<tableVars, state, todo, failVars>>

(* MPI_Cancel frees the slot; the request has yet to be completed. *)
MPI_Cancel(h) ==
  /\ Idle
  /\ state[h] \in Cancels
  /\ state' = [state EXCEPT ![h] = IF @ = "active" THEN "cancelled" ELSE @]
  /\ Free(h)
  /\ UNCHANGED <<todo, failVars>>

(* MPI_Request_free of a persistent request, or of one in progress *)
MPI_Request_free(h) ==
  /\ Idle
  /\ state[h] # "none"
  /\ state' = [state EXCEPT ![h] = "none"]
  /\ next_free' = [next_free EXCEPT ![Slot(h)] = freelist]
  /\ freelist' = Slot(h)
  /\ reqs' = [reqs EXCEPT ![Slot(h)].persistent = FALSE]
  /\ requestmap' = [g \in DOMAIN requestmap \ {h} |-> requestmap[g]]
  /\ UNCHANGED <<size, todo, failVars>>

Next ==
  \/ \E h \in Handle :
       \/ \E kind \in Kind : MPI_Isend(h, kind) \/ MPI_Send_init(h, kind)
       \/ MPI_TestFails(h)
       \/ MPI_Request_free(h)
       \/ MPI_Cancel(h)
  \/ \E hs \in SUBSET Handle : MPI_Startall(hs)
  \/ \E n \in 1..MaxCount : \E hs \in [1..n -> Completable] : PMPI_Completes(hs)
  \/ LoopStep

Spec == Init /\ [][Next]_vars

--------------------------------------------------------------------------------
(* Properties *)

TypeOK ==
  /\ size \in Nat \ {0}
  /\ reqs \in [Slots -> Params \union {Uninitialised}]
  /\ next_free \in [Slots -> Slots \union {EndOfList}]
  /\ freelist \in Slots \union {EndOfList}
  /\ DOMAIN requestmap \subseteq Handle \union {NULL}
  /\ \A h \in DOMAIN requestmap : requestmap[h] \in Slots
  /\ state \in [Handle -> {"none", "active", "cancelled", "inactive", "started"}]
  /\ todo \in Seq(Handle \union {NULL})
  /\ failed \in BOOLEAN
  /\ lost \subseteq Slots

(* The n-th slot of the freelist, or its end *)
FreeSlot ==
  LET f[n \in 0..size] ==
        IF n = 0 THEN freelist
        ELSE IF f[n - 1] = EndOfList THEN EndOfList ELSE next_free[f[n - 1]]
  IN f

(* Requests the application or a wrapper still has to do with *)
InUse == {h \in Handle : state[h] # "none" \/ \E i \in DOMAIN todo : todo[i] = h}

(* ASSOCIATE_REQUEST and FREE_REQUEST: each slot is on the freelist, once, *)
(* or belongs to one request, or was lost to a failed call, and the        *)
(* freelist ends: no request is given a slot in use, and no other slot is  *)
(* lost, whatever order slots come back in and although the requests of a  *)
(* failed call stay in requestmap while MPI hands out their handles again. *)
SlotsExclusive ==
  LET free == {FreeSlot[n] : n \in 0..size} \ {EndOfList}
      used == {requestmap[h] : h \in InUse} IN
  /\ FreeSlot[size] = EndOfList
  /\ InUse \subseteq DOMAIN requestmap
  /\ \A h, g \in InUse : requestmap[h] = requestmap[g] => h = g
  /\ used \intersect (lost \union free) = {}
  /\ lost \intersect free = {}
  /\ used \union lost \union free = Slots

(* COPY_REQUEST: the parameters a wrapper copies to the status of a        *)
(* completed request are those of the request, not of another one.         *)
ReportsTheRequest ==
  todo # <<>> /\ Head(todo) # NULL => reqs[Slot(Head(todo))].inreq = Head(todo)

(* The table implements a map from requests to their parameters. *)
Abstract == INSTANCE RequestMap WITH
  params <- [h \in InUse |-> reqs[Slot(h)]]

ImplementsMap == Abstract!RMSpec
================================================================================
