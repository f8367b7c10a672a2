------------------------------ MODULE MCPiggyback ------------------------------
(***************************************************************************)
(* Instances of Piggyback for TLC.                                         *)
(***************************************************************************)
EXTENDS Piggyback, TLC

(* Handles are interchangeable, and so are the addresses of malloc. *)
MemorySymmetry == Permutations(Handle) \union Permutations(Buf)
================================================================================
