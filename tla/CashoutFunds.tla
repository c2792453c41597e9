---------------------------- MODULE CashoutFunds ----------------------------
(* The money of the wallet against its cashouts: what is left available,   *)
(* what is locked in cashouts, what was paid out.                          *)
EXTENDS CashoutTx, FiniteSetsExt

TotalOf(C) == SumFunctionOnSet([c \in Id |-> cashout[c].amt], C)

(* What the ledger says the cashouts hold of the wallet: the amounts that  *)
(* were debited and not refunded.                                          *)
HeldOf(c) == cashout[c].amt * (ledger[c].debit - ledger[c].refund)

Held == SumFunctionOnSet([c \in Id |-> HeldOf(c)], Id)

(* "Funds are: locked when cashout is created, refunded only if ..."       *)
(* (cashout-scheduler.service.ts:19): what is available and what cashouts  *)
(* hold is at all times what there was at the start.                       *)
FundsConserved == avail + Held = InitAvail + TotalOf(Legacy)

(* listCashoutsCanonical, one of its filters.                              *)
Listed(status) == {c \in Id : cashout[c].status = status}

(* getCashoutMetrics: totalPendingCents and the others, by status.         *)
TotalCents(status) == TotalOf(Listed(status))

(* getNextPayout: the oldest that is pending, if there is one.             *)
NextPayout == {c \in Listed("PENDING") : \A d \in Listed("PENDING") : c <= d}

(* Where no two transactions overlap on the wallet, and no two repairs of  *)
(* one cashout: an owner can reconcile the pages that read the rows        *)
(* (metrics, next payout) with the balance.  What is available, pending    *)
(* and paid out is what there was, but for two kinds of cashouts: old      *)
(* debit-only ones that were not repaired, and failed ones that            *)
(* adminComplete, which looks only for COMPLETED, paid after the refund.   *)
(* Each counts once: a second repair is a no-op (wallet.service.ts:785).   *)
MetricsReconcile ==
  LET unrepaired == {c \in Listed("FAILED") : ledger[c].refund = 0}
      paidTwice == {c \in Listed("COMPLETED") : ledger[c].refund > 0} IN
  /\ avail + TotalCents("PENDING") + TotalCents("COMPLETED")
       = InitAvail + TotalOf(Legacy \ unrepaired) + TotalOf(paidTwice)
  /\ NextPayout = {} <=> TotalCents("PENDING") = 0

-----------------------------------------------------------------------------
(* What FundsConserved rests on.                                           *)

(* Past the read of the wallet, and not yet committed.                     *)
InWallet(r) ==
  /\ req[r].op \in Credits \cup Debits
  /\ req[r].pc \in {"saveWallet", "insert", "saveCashout", "commit"}

(* No transaction reads the wallet while another is about to write it: what*)
(* a lock taken by the read (SELECT ... FOR UPDATE) would see to.          *)
WalletApart == \A r, s \in Proc : InWallet(r) /\ InWallet(s) => r = s

(* A request has the amount of its cashout; the value it is about to save  *)
(* is what is there and that amount, and is saved or there already.        *)
AmountRead(r) ==
  req[r].op \in Kinds \ {"cashout"} /\ req[r].pc # "read" => req[r].amt = Row(r).amt

Computed(r) ==
  /\ InWallet(r) => req[r].val = IF req[r].op \in Credits THEN avail + req[r].amt
                                                         ELSE avail - req[r].amt
  /\ InWallet(r) /\ req[r].pc # "saveWallet" => walletLock = r \/ req[r].val = avail
  /\ walletLock = r => InWallet(r) /\ req[r].pc # "saveWallet"

(* The old rows stay there: no new cashout takes the id of one.            *)
LegacyStay == \A c \in Legacy : cashout[c].status # "NONE"

FundsInv ==
  /\ FundsConserved
  /\ \A r \in Proc : AmountRead(r) /\ Computed(r)
  /\ LegacyStay

-----------------------------------------------------------------------------
(* What MetricsReconcile rests on besides.                                 *)

(* A repair past the sum of the ledger rows, and not yet committed.        *)
Repairing(r) == req[r].op = "repair" /\ req[r].pc \in {"wallet", "saveWallet", "commit"}

(* One such repair of a cashout at a time.                                 *)
RepairsApart == \A r, s \in Proc : Repairing(r) /\ Repairing(s) /\ req[r].id = req[s].id => r = s

(* A cashout that exists was debited once, of some money, and refunded at  *)
(* most once; an old one is never PENDING again.                           *)
EachCounts ==
  \A c \in Id : cashout[c].status # "NONE" =>
    /\ cashout[c].amt > 0 /\ ledger[c].debit = 1 /\ ledger[c].refund <= 1
    /\ c \in Legacy => cashout[c].status # "PENDING"

CountInv ==
  /\ EachCounts
  /\ \A r \in Proc : Repairing(r) => ledger[req[r].id].refund = 0
  /\ \A r \in Proc : req[r].op \in Debits /\ req[r].pc # "read" => req[r].amt > 0
=============================================================================
