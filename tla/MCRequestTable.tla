----------------------------- MODULE MCRequestTable ----------------------------
(***************************************************************************)
(* Instances of RequestTable for TLC.                                      *)
(***************************************************************************)
EXTENDS RequestTable, TLC

HandleSymmetry == Permutations(Handle)
================================================================================
