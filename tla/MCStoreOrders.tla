---------------------------- MODULE MCStoreOrders ----------------------------
(* Instances of StoreOrders for TLC.                                       *)
EXTENDS StoreOrders, TLC

Symmetry == Permutations(Proc) \cup Permutations(User)
=============================================================================
