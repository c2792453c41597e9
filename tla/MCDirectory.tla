----------------------------- MODULE MCDirectory -----------------------------
(* Instances of Directory for TLC.                                         *)
EXTENDS Directory, TLC

Symmetry == Permutations(Proc) \cup Permutations(Vid) \cup Permutations(Kind)
=============================================================================
