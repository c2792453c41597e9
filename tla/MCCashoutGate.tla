---------------------------- MODULE MCCashoutGate ----------------------------
(* Instances of CashoutGate for TLC.                                       *)
EXTENDS CashoutGate, TLC

Symmetry ==
  Permutations(Proc) \cup Permutations(User) \cup Permutations(Name) \cup Permutations(Account)
=============================================================================
