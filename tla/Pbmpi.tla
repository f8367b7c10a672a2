--------------------------------- MODULE Pbmpi ---------------------------------
(***************************************************************************)
(* PBMPI (src/src/pbmpi.cpp), the layer that takes the place of the clock  *)
(* layer for a tool that sends values of its own with the messages: the    *)
(* tool sets the value to send, and registers a buffer for the values of   *)
(* the messages that the next completion call receives.                    *)
(*                                                                         *)
(* A rank runs one wrapper at a time.  Completion wrappers take one step   *)
(* up to the return of PMPI, which may be an error, and one for each       *)
(* status; the other wrappers take a single step, as they read and write   *)
(* nothing that other ranks see once their message is out.  The local      *)
(* clock is left out: this layer counts, but never ships or reports it.    *)
(***************************************************************************)
EXTENDS Integers, Sequences, FiniteSets

CONSTANTS
  Rank,        \* the MPI processes of the job
  Channel,     \* pairs <<r, d>>: r sends to d
  Handle,      \* values of an MPI_Request while the request is active
  NULL,        \* MPI_REQUEST_NULL
  NoMessage,   \* the message of a send's status: none
  Ops,         \* the completion wrappers the application calls
  Value,       \* values the tool sends
  MaxCount,    \* bound: largest array given to a completion call
  MaxSend      \* bound: messages a rank sends

SendReqClock == 1   \* PNMPI_MODULE_CLMPI_SEND_REQ_CLOCK, the mark of a send
Cleared == 0        \* what the tool fills its buffer with
NoBuffer == -1      \* registered_buff_length of a NULL buffer
Unset == -1         \* pb_outbuffer before the tool has set a value

WaitOps == {"Wait", "Waitany", "Waitsome", "Waitall"}
TestOps == {"Test", "Testany", "Testsome", "Testall"}
CompletionOps == WaitOps \union TestOps

ASSUME PbmpiAssumption ==
  /\ Channel \subseteq Rank \X Rank
  /\ NULL \notin Handle
  /\ Ops \subseteq CompletionOps
  /\ Value \subseteq Nat \ {Cleared, SendReqClock}
  /\ MaxCount \in Nat \ {0}
  /\ MaxSend \in Nat

Message == [src : Rank, seq : Nat, dst : Rank, pb : Value \union {Unset}]

ASSUME NoMessageAssumption == NoMessage \notin Message

(* The status of a completed request: its place in the array of statuses,  *)
(* the index of the request in the array of requests, the handle the       *)
(* request layer saved (inreq), and the message a receive got.             *)
Status == [slot : 1..MaxCount, idx : 1..MaxCount, h : Handle,
           msg : Message \union {NoMessage}]

VARIABLES
  (* static variables of pbmpi.cpp, one copy per rank *)
  pb_outbuffer,             \* the value the piggyback layer sends
  registered_buff_length,   \* length of the registered buffer
  buff,                     \* memory behind registered_buff_clocks
  irecv_request_map,        \* its keys
  request_to_local_clock,   \* its keys
  (* MPI below *)
  req,                      \* req[r][h]: "none", "send" or "recv"
  net,                      \* messages in flight
  nsent,                    \* messages sent by a rank
  (* control *)
  pc,                       \* the wrapper the rank is in
  count,                    \* the count it compares with the buffer's length
  failed,                   \* its PMPI call returned an error
  todo,                     \* statuses its loop has not reached
  (* history: no guard reads it *)
  expect                    \* what the memory of the buffer should hold

statics == <<pb_outbuffer, registered_buff_length, buff, irecv_request_map,
             request_to_local_clock>>
mpiVars == <<req, net, nsent>>
ctlVars == <<pc, count, failed, todo>>
vars == <<statics, mpiVars, ctlVars, expect>>

Nothing == [i \in {} |-> Cleared]

Init ==
  /\ pb_outbuffer = [r \in Rank |-> Unset]
  /\ registered_buff_length = [r \in Rank |-> NoBuffer]
  /\ buff = [r \in Rank |-> [i \in 1..MaxCount |-> Cleared]]
  /\ irecv_request_map = [r \in Rank |-> {}]
  /\ request_to_local_clock = [r \in Rank |-> {}]
  /\ req = [r \in Rank |-> [h \in Handle |-> "none"]]
  /\ net = {}
  /\ nsent = [r \in Rank |-> 0]
  /\ pc = [r \in Rank |-> "Idle"]
  /\ count = [r \in Rank |-> 0]
  /\ failed = [r \in Rank |-> FALSE]
  /\ todo = [r \in Rank |-> <<>>]
  /\ expect = [r \in Rank |-> Nothing]

--------------------------------------------------------------------------------
(* The tool *)

(* pbmpi_set_send_pbdata: pb_set copies the value. *)
SetSendPbdata(r, v) ==
  /\ pc[r] = "Idle"
  /\ pb_outbuffer' = [pb_outbuffer EXCEPT ![r] = v]
  /\ UNCHANGED <<registered_buff_length, buff, irecv_request_map,
                 request_to_local_clock, mpiVars, ctlVars, expect>>

(* Mutant: one slot too many is recorded. *)
SetRecvPbdataLong(r, n) ==
  /\ pc[r] = "Idle"
  /\ registered_buff_length' = [registered_buff_length EXCEPT ![r] = n + 1]
  /\ buff' = [buff EXCEPT ![r] = [i \in 1..MaxCount |-> Cleared]]
  /\ expect' = [expect EXCEPT ![r] = Nothing]
  /\ UNCHANGED <<pb_outbuffer, irecv_request_map, request_to_local_clock,
                 mpiVars, ctlVars>>

(* pbmpi_set_recv_pbdata, PNMPIMOD_register_recv_clocks, by a tool that    *)
(* has cleared its memory.                                                 *)
SetRecvPbdata(r, n) ==
  /\ pc[r] = "Idle"
  /\ registered_buff_length' = [registered_buff_length EXCEPT ![r] = n]
  /\ buff' = [buff EXCEPT ![r] = [i \in 1..MaxCount |-> Cleared]]
  /\ expect' = [expect EXCEPT ![r] = Nothing]
  /\ UNCHANGED <<pb_outbuffer, irecv_request_map, request_to_local_clock,
                 mpiVars, ctlVars>>

--------------------------------------------------------------------------------
(* Sending: PBSET is empty, the piggyback layer sends what was set last. *)

Outgoing(r, d) == [src |-> r, seq |-> nsent[r], dst |-> d, pb |-> pb_outbuffer[r]]

CanSend(r, d) == pc[r] = "Idle" /\ <<r, d>> \in Channel /\ nsent[r] < MaxSend

(* MPI_Send, MPI_Bsend, MPI_Ssend, MPI_Rsend *)
MPI_Send(r, d) ==
  /\ CanSend(r, d)
  /\ net' = net \union {Outgoing(r, d)}
  /\ nsent' = [nsent EXCEPT ![r] = @ + 1]
  /\ UNCHANGED <<statics, req, ctlVars, expect>>

Pending(r) == {h \in Handle : req[r][h] # "none"}

(* MPI_Isend, MPI_Ibsend, MPI_Issend, MPI_Irsend *)
MPI_Isend(r, d) ==
  /\ CanSend(r, d)
  /\ net' = net \union {Outgoing(r, d)}
  /\ nsent' = [nsent EXCEPT ![r] = @ + 1]
  /\ \E h \in Handle \ Pending(r) :
       /\ req' = [req EXCEPT ![r][h] = "send"]
       /\ request_to_local_clock' = [request_to_local_clock EXCEPT ![r] = @ \union {h}]
  /\ UNCHANGED <<pb_outbuffer, registered_buff_length, buff, irecv_request_map,
                 ctlVars, expect>>

--------------------------------------------------------------------------------
(* Receiving *)

MPI_Irecv(r) ==
  /\ pc[r] = "Idle"
  /\ \E h \in Handle \ Pending(r) :
       /\ req' = [req EXCEPT ![r][h] = "recv"]
       /\ irecv_request_map' = [irecv_request_map EXCEPT ![r] = @ \union {h}]
  /\ UNCHANGED <<pb_outbuffer, registered_buff_length, buff,
                 request_to_local_clock, net, nsent, ctlVars, expect>>

(* cmpi_sync_clock_at: a buffer of another length is left alone. *)
SyncClockAt(r, n, i, m) ==
  buff' = IF registered_buff_length[r] = n
            THEN [buff EXCEPT ![r][i] = m.pb] ELSE buff

(* MPI_Recv: a buffer registered for one value gets it, and stays          *)
(* registered.  A call that fails has used up the message.                 *)
MPI_Recv(r) ==
  /\ pc[r] = "Idle"
  /\ \E m \in net :
       /\ m.dst = r
       /\ net' = net \ {m}
       /\ SyncClockAt(r, 1, 1, m) \/ UNCHANGED buff
  /\ UNCHANGED <<pb_outbuffer, registered_buff_length, irecv_request_map,
                 request_to_local_clock, req, nsent, ctlVars, expect>>

(* MPI_Sendrecv waits for its message between its two halves. *)
MPI_Sendrecv(r, d) ==
  /\ CanSend(r, d)
  /\ net' = net \union {Outgoing(r, d)}
  /\ nsent' = [nsent EXCEPT ![r] = @ + 1]
  /\ pc' = [pc EXCEPT ![r] = "Sendrecv"]
  /\ UNCHANGED <<statics, req, count, failed, todo, expect>>

SendrecvReturns(r) ==
  /\ pc[r] = "Sendrecv"
  /\ \E m \in net :
       /\ m.dst = r
       /\ net' = net \ {m}
       /\ SyncClockAt(r, 1, 1, m) \/ UNCHANGED buff
  /\ pc' = [pc EXCEPT ![r] = "Idle"]
  /\ UNCHANGED <<pb_outbuffer, registered_buff_length, irecv_request_map,
                 request_to_local_clock, req, nsent, count, failed, todo, expect>>

--------------------------------------------------------------------------------
(* Completing requests *)

Injective(f) == \A i, j \in DOMAIN f : f[i] = f[j] => i = j
Increasing(f) == \A i, j \in DOMAIN f : i < j => f[i] < f[j]

SeqsOf(S, n) == UNION {[1..k -> S] : k \in 0..n}

(* Arrays of pending requests, and arrays where completed requests have    *)
(* left MPI_REQUEST_NULL behind.                                           *)
Arrays(r) == {a \in SeqsOf(Pending(r), MaxCount) \ {<<>>} : Injective(a)}
Live(a) == {i \in DOMAIN a : a[i] # NULL}
GappedArrays(r) ==
  {a \in SeqsOf(Pending(r) \union {NULL}, MaxCount) :
     Live(a) # {} /\ \A i, j \in Live(a) : a[i] = a[j] => i = j}

(* MPI scans the array when it completes some of its requests. *)
SomeOf(a) == {q \in SeqsOf(Live(a), MaxCount) : Increasing(q)}
OneOf(a) == {<<i>> : i \in Live(a)}
AllOf(a) == [i \in DOMAIN a |-> i]

(* What PMPI may have delivered to the requests a[done[k]]. *)
Deliveries(r, a, done) ==
  {got \in [DOMAIN done -> {m \in net : m.dst = r} \union {NoMessage}] :
     /\ \A k \in DOMAIN done :
          (got[k] = NoMessage) <=> (req[r][a[done[k]]] = "send")
     /\ \A k, l \in DOMAIN done : got[k] = got[l] /\ got[k] # NoMessage => k = l}

(* The Test wrappers mark a completed send in the buffer without looking   *)
(* at the length: a tool that registers one registers enough, as           *)
(* example/pbmpi_test.c does.                                              *)
BufferSuffices(r, op, a, n) ==
  op \in TestOps /\ (\E i \in Live(a) : req[r][a[i]] = "send")
    => registered_buff_length[r] = NoBuffer \/ registered_buff_length[r] >= n

(* The slot in which a Test wrapper marks the send of status s. *)
MarkedSlot(op, s) == IF op = "Testsome" THEN s.idx ELSE s.slot

(* What the call should leave in the memory of the buffer: the values of   *)
(* the messages received, at the positions of their statuses, if the       *)
(* buffer has the right length and the call succeeded; marks of sends in a *)
(* Test wrapper, on which nothing depends; else what was there before.     *)
Expected(r, op, statuses, n, fails) ==
  LET got == IF fails \/ registered_buff_length[r] # n THEN {}
             ELSE {k \in DOMAIN statuses : statuses[k].msg # NoMessage}
      marked == IF fails \/ op \notin TestOps THEN {}
                ELSE {MarkedSlot(op, statuses[k]) :
                        k \in {k \in DOMAIN statuses : statuses[k].msg = NoMessage}}
  IN  [i \in ((1..MaxCount) \ marked) \union got |->
         IF i \in got THEN statuses[i].msg.pb ELSE buff[r][i]]

(* A completion wrapper up to the return of PMPI: op is called on array a, *)
(* and PMPI completes the requests with indices done.  n is the count the  *)
(* wrapper passes to cmpi_sync_clock_at.                                   *)
Complete(r, op, a, done, n) ==
  /\ pc[r] = "Idle" /\ op \in Ops
  /\ BufferSuffices(r, op, a, n)
  /\ \E got \in Deliveries(r, a, done), fails \in BOOLEAN :
       /\ fails => done # <<>>
       /\ net' = net \ {got[k] : k \in DOMAIN done}
       /\ failed' = [failed EXCEPT ![r] = fails]
       /\ todo' = [todo EXCEPT ![r] = [k \in DOMAIN done |->
                     [slot |-> k, idx |-> done[k], h |-> a[done[k]], msg |-> got[k]]]]
       /\ expect' = [expect EXCEPT ![r] = Expected(r, op, todo'[r], n, fails)]
  /\ req' = [req EXCEPT ![r] = [h \in Handle |->
               IF \E k \in DOMAIN done : a[done[k]] = h THEN "none" ELSE @[h]]]
  /\ pc' = [pc EXCEPT ![r] = op]
  /\ count' = [count EXCEPT ![r] = n]
  /\ UNCHANGED <<statics, nsent>>

MPI_Wait(r) == \E h \in Pending(r) : Complete(r, "Wait", <<h>>, <<1>>, 1)

MPI_Waitany(r) ==
  \E a \in GappedArrays(r) : \E done \in OneOf(a) : Complete(r, "Waitany", a, done, 1)

MPI_Waitsome(r) ==
  \E a \in GappedArrays(r) : \E done \in SomeOf(a) \ {<<>>} :
    Complete(r, "Waitsome", a, done, Len(a))

MPI_Waitall(r) == \E a \in Arrays(r) : Complete(r, "Waitall", a, AllOf(a), Len(a))

(* The Test wrappers complete what the Wait wrappers do, or nothing. *)
MPI_Test(r) ==
  \E h \in Pending(r) : \E done \in {<<>>, <<1>>} : Complete(r, "Test", <<h>>, done, 1)

MPI_Testany(r) ==
  \E a \in GappedArrays(r) : \E done \in OneOf(a) \union {<<>>} :
    Complete(r, "Testany", a, done, 1)

MPI_Testsome(r) ==
  \E a \in GappedArrays(r) : \E done \in SomeOf(a) :
    Complete(r, "Testsome", a, done, Len(a))

MPI_Testall(r) ==
  \E a \in Arrays(r) : \E done \in {<<>>, AllOf(a)} :
    Complete(r, "Testall", a, done, Len(a))

Completes(r) ==
  \/ MPI_Wait(r) \/ MPI_Waitany(r) \/ MPI_Waitsome(r) \/ MPI_Waitall(r)
  \/ MPI_Test(r) \/ MPI_Testany(r) \/ MPI_Testsome(r) \/ MPI_Testall(r)

--------------------------------------------------------------------------------
(* The loop of a wrapper over its statuses *)

InLoop(r) == pc[r] \in CompletionOps /\ todo[r] # <<>>

NextStatus(r) == todo' = [todo EXCEPT ![r] = Tail(@)]

(* Mutant: the value goes to the slot of the request. *)
SyncRecvAtIndex(r) ==
  /\ InLoop(r)
  /\ LET s == Head(todo[r]) IN
       /\ s.msg # NoMessage
       /\ IF failed[r] THEN UNCHANGED buff ELSE SyncClockAt(r, count[r], s.idx, s.msg)
       /\ irecv_request_map' = [irecv_request_map EXCEPT ![r] = @ \ {s.h}]
  /\ NextStatus(r)
  /\ UNCHANGED <<pb_outbuffer, registered_buff_length, request_to_local_clock,
                 mpiVars, pc, count, failed, expect>>

(* A received message, and clmpi_irecv_test_erase, which forgives a        *)
(* request it does not know.                                               *)
SyncRecv(r) ==
  /\ InLoop(r)
  /\ LET s == Head(todo[r]) IN
       /\ s.msg # NoMessage
       /\ IF failed[r] THEN UNCHANGED buff ELSE SyncClockAt(r, count[r], s.slot, s.msg)
       /\ irecv_request_map' = [irecv_request_map EXCEPT ![r] = @ \ {s.h}]
  /\ NextStatus(r)
  /\ UNCHANGED <<pb_outbuffer, registered_buff_length, request_to_local_clock,
                 mpiVars, pc, count, failed, expect>>

Marks(r) == pc[r] \in TestOps /\ ~ failed[r]

(* cmpi_update_local_sent_clock: MPI_Test calls it only after success. *)
DropsSend(r) ==
  pc[r] \in {"Waitall", "Testsome"} \/ (pc[r] = "Test" /\ ~ failed[r])

(* A status on which the loop ends in exit(1): a send that has no buffer   *)
(* to be marked in, or is not known to be incomplete.                      *)
Aborts(r, s) ==
  /\ s.msg = NoMessage
  /\ \/ Marks(r) /\ registered_buff_length[r] = NoBuffer
     \/ DropsSend(r) /\ s.h \notin request_to_local_clock[r]

(* Mutant: a send is dropped along with all others. *)
SyncSendDropsAll(r) ==
  /\ InLoop(r)
  /\ Head(todo[r]).msg = NoMessage
  /\ ~ Aborts(r, Head(todo[r]))
  /\ buff' = IF Marks(r)
               THEN [buff EXCEPT ![r][MarkedSlot(pc[r], Head(todo[r]))] = SendReqClock]
               ELSE buff
  /\ request_to_local_clock' =
       [request_to_local_clock EXCEPT ![r] = IF DropsSend(r) THEN {} ELSE @]
  /\ NextStatus(r)
  /\ UNCHANGED <<pb_outbuffer, registered_buff_length, irecv_request_map,
                 mpiVars, pc, count, failed, expect>>

(* A completed send *)
SyncSend(r) ==
  /\ InLoop(r)
  /\ LET s == Head(todo[r]) IN
       /\ s.msg = NoMessage
       /\ ~ Aborts(r, s)
       /\ buff' = IF Marks(r)
                    THEN [buff EXCEPT ![r][MarkedSlot(pc[r], s)] = SendReqClock]
                    ELSE buff
       /\ request_to_local_clock' =
            [request_to_local_clock EXCEPT ![r] = IF DropsSend(r) THEN @ \ {s.h} ELSE @]
  /\ NextStatus(r)
  /\ UNCHANGED <<pb_outbuffer, registered_buff_length, irecv_request_map,
                 mpiVars, pc, count, failed, expect>>

LoopExits(r) ==
  /\ InLoop(r)
  /\ Aborts(r, Head(todo[r]))
  /\ pc' = [pc EXCEPT ![r] = "Exited"]
  /\ UNCHANGED <<statics, mpiVars, count, failed, todo, expect>>

(* Mutant: the Wait wrappers keep the buffer, as those of clmpi.cpp do. *)
ReturnsKeeping(r) ==
  /\ pc[r] \in CompletionOps
  /\ todo[r] = <<>>
  /\ registered_buff_length' =
       [registered_buff_length EXCEPT ![r] = IF pc[r] \in WaitOps THEN @ ELSE NoBuffer]
  /\ pc' = [pc EXCEPT ![r] = "Idle"]
  /\ failed' = [failed EXCEPT ![r] = FALSE]
  /\ count' = [count EXCEPT ![r] = 0]
  /\ expect' = [expect EXCEPT ![r] = buff[r]]
  /\ UNCHANGED <<pb_outbuffer, buff, irecv_request_map, request_to_local_clock,
                 mpiVars, todo>>

(* Every completion wrapper ends by dropping the registered buffer, when   *)
(* it completed nothing too.                                               *)
Returns(r) ==
  /\ pc[r] \in CompletionOps
  /\ todo[r] = <<>>
  /\ registered_buff_length' = [registered_buff_length EXCEPT ![r] = NoBuffer]
  /\ pc' = [pc EXCEPT ![r] = "Idle"]
  /\ failed' = [failed EXCEPT ![r] = FALSE]
  /\ count' = [count EXCEPT ![r] = 0]
  /\ expect' = [expect EXCEPT ![r] = buff[r]]
  /\ UNCHANGED <<pb_outbuffer, buff, irecv_request_map, request_to_local_clock,
                 mpiVars, todo>>

--------------------------------------------------------------------------------
Next ==
  \/ \E r \in Rank :
       \/ \E v \in Value : SetSendPbdata(r, v)
       \/ \E n \in 1..MaxCount : SetRecvPbdata(r, n)
       \/ \E d \in Rank : MPI_Send(r, d) \/ MPI_Isend(r, d) \/ MPI_Sendrecv(r, d)
       \/ MPI_Irecv(r) \/ MPI_Recv(r) \/ SendrecvReturns(r)
       \/ Completes(r)
       \/ SyncRecv(r) \/ SyncSend(r) \/ LoopExits(r) \/ Returns(r)

Spec == Init /\ [][Next]_vars

--------------------------------------------------------------------------------
(* Properties *)

(* Type invariant of the layer's statics and of the model's control *)
TypeOK ==
  /\ pb_outbuffer \in [Rank -> Value \union {Unset}]
  /\ registered_buff_length \in [Rank -> {NoBuffer} \union (1..MaxCount)]
  /\ buff \in [Rank -> [1..MaxCount -> Value \union {Cleared, SendReqClock, Unset}]]
  /\ irecv_request_map \in [Rank -> SUBSET Handle]
  /\ request_to_local_clock \in [Rank -> SUBSET Handle]
  /\ req \in [Rank -> [Handle -> {"none", "send", "recv"}]]
  /\ net \subseteq Message
  /\ nsent \in [Rank -> 0..MaxSend]
  /\ pc \in [Rank -> CompletionOps \union {"Idle", "Sendrecv", "Exited"}]
  /\ count \in [Rank -> 0..MaxCount]
  /\ failed \in [Rank -> BOOLEAN]
  /\ todo \in [Rank -> Seq(Status)]

BufferAsExpected(r) == \A i \in DOMAIN expect[r] : buff[r][i] = expect[r][i]

(* cmpi_sync_clock_at and the loops of the completion wrappers: when a     *)
(* call is about to return, the registered buffer holds the value of each  *)
(* message it received at the position of its status; nothing is written   *)
(* to a buffer of another length, for a call that failed, or in any other  *)
(* slot, except the marks of sends, which never overwrite a value.         *)
ValuesReported ==
  \A r \in Rank : pc[r] \in CompletionOps /\ todo[r] = <<>> => BufferAsExpected(r)

(* The last two lines of each completion wrapper: once a call that was to  *)
(* fill the buffer has returned, successful or not, the memory belongs to  *)
(* the tool again, and no later receive writes through the old pointer.    *)
BufferReleased ==
  \A r \in Rank : pc[r] \in {"Idle", "Sendrecv"} => BufferAsExpected(r)

(* A wrapper exits only for want of a buffer, never in                     *)
(* cmpi_update_local_sent_clock: each completed send is still known there, *)
(* although failing calls and most wrappers leave completed sends in       *)
(* request_to_local_clock and MPI hands their handles out again.           *)
AbortsForWantOfBuffer ==
  \A r \in Rank : pc[r] = "Exited" =>
    /\ registered_buff_length[r] = NoBuffer
    /\ Head(todo[r]).h \in request_to_local_clock[r]

(* PNMPIMOD_get_num_of_incomplete_sending_msg counts every incomplete      *)
(* nonblocking send (and completed ones that nothing has dropped).         *)
SendsNeverMissed ==
  \A r \in Rank : {h \in Handle : req[r][h] = "send"} \subseteq request_to_local_clock[r]
================================================================================
