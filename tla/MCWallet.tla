------------------------------- MODULE MCWallet -------------------------------
(* Instances of WalletTx for TLC.                                          *)
EXTENDS WalletTx, TLC

(* No user has a role.                                                     *)
Symmetry == Permutations(Proc) \cup Permutations(User)
=============================================================================
