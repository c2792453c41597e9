----------------------------- MODULE MCFreeboard -----------------------------
(* Instances of Freeboard for TLC.                                         *)
EXTENDS Freeboard, TLC

(* A reward, none, and one that createDrop must refuse. *)
RewardsAsked == {-5, 0, 5}

Symmetry == Permutations(Drop) \cup Permutations(Call)
=============================================================================
