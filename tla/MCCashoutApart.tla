--------------------------- MODULE MCCashoutApart ---------------------------
(* Instance of CashoutApart for TLC.                                       *)
EXTENDS CashoutApart, TLC

(* Requests of the same kinds are interchangeable.                         *)
Symmetry == Permutations(Req)
=============================================================================
