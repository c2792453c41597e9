----------------------------- MODULE CashoutBook -----------------------------
(***************************************************************************)
(* What WalletService promises of a cashout to its owner, with no word of  *)
(* transactions: a cashout is opened once, it fails only from PENDING and  *)
(* is refunded in the same step, it is completed once and stays completed. *)
(* An admin may complete a cashout that failed (the money goes out again); *)
(* nothing else happens to it.                                             *)
(***************************************************************************)
EXTENDS Integers

CONSTANT Id

VARIABLES
  status,   \* id -> NONE | PENDING | FAILED | COMPLETED
  refunds   \* id -> how many times it was refunded

BookInit ==
  /\ status = [c \in Id |-> "NONE"]
  /\ refunds = [c \in Id |-> 0]

Open(c) ==
  /\ status[c] = "NONE"
  /\ status' = [status EXCEPT ![c] = "PENDING"]
  /\ UNCHANGED refunds

Fail(c) ==
  /\ status[c] = "PENDING"
  /\ status' = [status EXCEPT ![c] = "FAILED"]
  /\ refunds' = [refunds EXCEPT ![c] = @ + 1]

Complete(c) ==
  /\ status[c] \in {"PENDING", "FAILED"}
  /\ status' = [status EXCEPT ![c] = "COMPLETED"]
  /\ UNCHANGED refunds

BookNext == \E c \in Id : Open(c) \/ Fail(c) \/ Complete(c)

BookSpec == BookInit /\ [][BookNext]_<<status, refunds>>
=============================================================================
