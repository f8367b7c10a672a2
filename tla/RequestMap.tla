------------------------------ MODULE RequestMap -------------------------------
(***************************************************************************)
(* What the request layer promises: each live request has the parameters   *)
(* it was created with, and a call on one request leaves the parameters of *)
(* every other request alone.  RequestTable.tla implements it.             *)
(***************************************************************************)
CONSTANTS Handle, Params

VARIABLE params   \* a function from the known requests to their parameters

Known == DOMAIN params

RMInit == params = [h \in {} |-> CHOOSE p \in Params : TRUE]

Create(h, p) ==
  /\ h \notin Known
  /\ params' = [g \in Known \union {h} |-> IF g = h THEN p ELSE params[g]]

(* A persistent request is started or completed. *)
SetActive(h, on) ==
  /\ h \in Known
  /\ params[h].persistent
  /\ params' = [params EXCEPT ![h].active = on]

(* Several persistent requests are started by one call. *)
ActivateAll(hs) ==
  /\ hs \subseteq Known
  /\ \A h \in hs : params[h].persistent
  /\ params' = [g \in Known |->
                  IF g \in hs THEN [params[g] EXCEPT !.active = TRUE] ELSE params[g]]

Forget(h) ==
  /\ h \in Known
  /\ params' = [g \in Known \ {h} |-> params[g]]

RMNext ==
  \/ \E h \in Handle :
       \/ \E p \in Params : p.inreq = h /\ Create(h, p)
       \/ \E on \in BOOLEAN : SetActive(h, on)
       \/ Forget(h)
  \/ \E hs \in SUBSET Handle : ActivateAll(hs)

RMSpec == RMInit /\ [][RMNext]_params
================================================================================
