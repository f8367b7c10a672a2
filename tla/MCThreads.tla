------------------------------- MODULE MCThreads -------------------------------
(* Two threads on rank 0, one on rank 1.  In the programs of Untangled no  *)
(* thread holds the mutex while it waits for a sibling that needs it; in   *)
(* Tangled one waits in MPI_Recv for the answer to the message of another. *)
EXTENDS Threads

CONSTANTS t1, t2, t3

MCThread == {t1, t2, t3}
MCRank == {0, 1}
MCRankOf == [t \in MCThread |-> IF t = t3 THEN 1 ELSE 0]

To(call, r) == [call |-> call, to |-> r]
From(call) == [call |-> call]
Prog(a, b, c) == [t \in MCThread |-> CASE t = t1 -> a [] t = t2 -> b [] t = t3 -> c]

Untangled == {
  Prog(<<To("Send", 1), From("Recv")>>,
       <<To("Isend", 1), From("Irecv")>>,
       <<From("Recv"), From("Recv"), To("Send", 0), To("Send", 0)>>),
  Prog(<<From("Recv"), To("Send", 1)>>,
       <<To("Ssend", 1), To("Bsend", 1)>>,
       <<From("Recv"), From("Recv"), To("Isend", 0), From("Recv")>>),
  Prog(<<From("Recv"), From("Recv")>>,
       <<From("Irecv"), From("Irecv")>>,
       <<To("Isend", 0), To("Send", 0), To("Isend", 0), To("Ssend", 0)>>),
  Prog(<<To("Send", 1), To("Send", 1)>>,
       <<To("Isend", 1), To("Bsend", 1)>>,
       <<From("Irecv"), From("Recv"), From("Irecv"), From("Recv")>>),
  Prog(<<To("Send", 1), To("Isend", 1)>>,
       <<To("Send", 1), To("Send", 1)>>,
       <<From("Recv"), From("Irecv"), From("Recv"), From("Recv")>>) }

Tangled == {
  Prog(<<From("Recv")>>, <<To("Send", 1)>>, <<From("Recv"), To("Send", 0)>>) }
================================================================================
