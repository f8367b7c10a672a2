-------------------------------- MODULE MCClmpi --------------------------------
(***************************************************************************)
(* Instances of Clmpi for TLC.                                             *)
(***************************************************************************)
EXTENDS Clmpi, TLC

CONSTANTS r1, r2, r3, h1, h2

Ranks == {r1, r2, r3}
Pair == {r1, r2}

(* Every ordered pair of distinct ranks; one direction; a relay r1-r2-r3. *)
Mesh == {c \in Rank \X Rank : c[1] # c[2]}
OneWay == {<<r1, r2>>}
Relay == {<<r1, r2>>, <<r2, r3>>, <<r1, r3>>}

OneHandle == {h1}
TwoHandles == {h1, h2}

(* MPI hands out handles in any order, and the two ranks of a Mesh are alike. *)
HandleSymmetry == Permutations(TwoHandles)
PairSymmetry == Permutations(TwoHandles) \union Permutations(Pair)
================================================================================
