----------------------------- MODULE LamportClock -----------------------------
(***************************************************************************)
(* What CLMPI promises: the three rules of README.md, lines 8 to 10.       *)
(*                                                                         *)
(*   - the initial logical clock is 10;                                    *)
(*   - a process that sends a message increments its clock by 1;           *)
(*   - a process that receives a message sets its clock to the maximum of  *)
(*     its own clock and the received one, and then increments it by 1.    *)
(*                                                                         *)
(* The rules apply to a rank while its clock is switched on                *)
(* (clock_control); a collective synchronisation and the two operations    *)
(* that hand CLMPI a clock from outside complete the interface of clmpi.h. *)
(* Clmpi.tla is shown to implement this module.                            *)
(***************************************************************************)
EXTENDS Naturals

CONSTANTS
  Rank,         \* the MPI processes
  ClientClock   \* clock values the tool above CLMPI may hand in

VARIABLES
  clock,        \* clock[r]: the Lamport clock of r
  switchedOn,   \* switchedOn[r]: the rules apply to r
  sent,         \* sent[r]: number of messages r has sent
  inFlight      \* messages sent whose receipt has not been clocked

lcVars == <<clock, switchedOn, sent, inFlight>>

Larger(a, b) == IF a <= b THEN b ELSE a

LCInit ==
  /\ clock = [r \in Rank |-> 10]
  /\ switchedOn = [r \in Rank |-> TRUE]
  /\ sent = [r \in Rank |-> 0]
  /\ inFlight = {}

(* Tick by one, when the clock of r is on. *)
After(r, c) == IF switchedOn[r] THEN c + 1 ELSE c

(* r sends to d: the message carries the clock of before the increment. *)
SendRule(r, d) ==
  /\ inFlight' = inFlight \union
       {[src |-> r, seq |-> sent[r], dst |-> d, stamp |-> clock[r]]}
  /\ sent' = [sent EXCEPT ![r] = @ + 1]
  /\ clock' = [clock EXCEPT ![r] = After(r, @)]
  /\ UNCHANGED switchedOn

(* r merges the clock c and ticks, if its clock is on. *)
MergeClock(r, c) ==
  clock' = [clock EXCEPT ![r] = IF switchedOn[r] THEN Larger(@, c) + 1 ELSE @]

ReceiveRule(r) ==
  /\ \E m \in inFlight :
       /\ m.dst = r
       /\ inFlight' = inFlight \ {m}
       /\ MergeClock(r, m.stamp)
  /\ UNCHANGED <<switchedOn, sent>>

(* All ranks synchronise on the largest of their clocks. *)
CollectiveRule ==
  /\ \E top \in {clock[r] : r \in Rank} :
       /\ \A r \in Rank : clock[r] <= top
       /\ clock' = [r \in Rank |-> After(r, top)]
  /\ UNCHANGED <<switchedOn, sent, inFlight>>

(* The tool above merges a clock value of its own into r's clock. *)
ClientMerge(r) ==
  /\ \E c \in ClientClock : MergeClock(r, c)
  /\ UNCHANGED <<switchedOn, sent, inFlight>>

(* The tool above replaces r's clock by a cell that holds a later value. *)
ClientRebase(r) ==
  /\ \E c \in ClientClock : clock[r] < c /\ clock' = [clock EXCEPT ![r] = c]
  /\ UNCHANGED <<switchedOn, sent, inFlight>>

(* The tool above switches r's clock on or off. *)
Switch(r) ==
  /\ \E on \in BOOLEAN : switchedOn' = [switchedOn EXCEPT ![r] = on]
  /\ UNCHANGED <<clock, sent, inFlight>>

LCNext ==
  \/ \E r, d \in Rank : SendRule(r, d)
  \/ \E r \in Rank : ReceiveRule(r) \/ ClientMerge(r) \/ ClientRebase(r) \/ Switch(r)
  \/ CollectiveRule

LCSpec == LCInit /\ [][LCNext]_lcVars
================================================================================
