---------------------------- MODULE CashoutApart ----------------------------
(***************************************************************************)
(* CashoutFunds, watched.  Nothing locks a row when it is read, so three   *)
(* things the service means to keep are lost when two transactions are     *)
(* between a read and what they write from it at the same time.  A history *)
(* variable remembers which of these overlaps there have been; no action   *)
(* of the system reads it.  The properties say that nothing else ever      *)
(* loses them, whatever races whatever, and wherever it is interrupted.    *)
(***************************************************************************)
EXTENDS CashoutFunds

VARIABLE overlaps   \* the kinds of overlap there have been

watched == <<vars, overlaps>>

Overlapping ==
  (IF WalletApart THEN {} ELSE {"wallet"})
    \cup (IF RetriesApart THEN {} ELSE {"retry"})
    \cup (IF RepairsApart THEN {} ELSE {"repair"})

WatchedInit == Init /\ overlaps = {}

WatchedNext == Next /\ overlaps' = overlaps \cup Overlapping'

WatchedSpec == WatchedInit /\ [][WatchedNext]_watched

-----------------------------------------------------------------------------
(* On numeric columns: what is available and what the cashouts hold is     *)
(* what there was, unless a transaction read the wallet while another was  *)
(* about to save it (wallet.service.ts:430 to 434 and its like).  Claims   *)
(* that lose, refunds that are rolled back and retries change nothing.     *)
FundsKeptApart == "wallet" \in overlaps \/ FundsConserved

(* Of the retries of one cashout at most one is PENDING, unless two looked *)
(* for one before either had committed its own (wallet.service.ts:928).    *)
OneRetryApart == "retry" \in overlaps \/ OneLiveRetry

(* With the engine off and on numeric columns: an owner can reconcile the  *)
(* pages with the balance, unless transactions overlapped on the wallet or *)
(* two repairs had added up the ledger rows of one cashout before either   *)
(* had refunded it (wallet.service.ts:779).                                *)
PagesReconcileApart == overlaps \cap {"wallet", "repair"} # {} \/ MetricsReconcile
=============================================================================
