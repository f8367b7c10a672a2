-------------------------------- MODULE MCPbmpi --------------------------------
(***************************************************************************)
(* Instances of Pbmpi for TLC.                                             *)
(***************************************************************************)
EXTENDS Pbmpi, TLC

CONSTANT r1

(* A rank that sends to itself, so that sends and receives meet in its arrays. *)
Loopback == {<<r1, r1>>}

HandleSymmetry == Permutations(Handle)
================================================================================
