------------------------------ MODULE MCCashout ------------------------------
(* Instances of CashoutTx for TLC; each .cfg says which requests compete.  *)
EXTENDS CashoutFunds, TLC

(* Requests of the same kinds are interchangeable.                         *)
Symmetry == Permutations(Req)
=============================================================================
