------------------------------ MODULE CashoutTx ------------------------------
(***************************************************************************)
(* The cashouts of one wallet, statement by statement.                     *)
(*                                                                         *)
(* wallet.service.ts and cashout-scheduler.service.ts move a cashout       *)
(* PENDING -> COMPLETED | FAILED, debit and refund the wallet, and append  *)
(* rows to the ledger (wallet_transactions).  Requests run concurrently on *)
(* Postgres at READ COMMITTED: every `findOne` reads what is committed at  *)
(* that moment, every UPDATE locks its row until the transaction ends, a   *)
(* second UPDATE of the row waits for the lock, and an `UPDATE ... WHERE   *)
(* status = 'PENDING'` re-evaluates its condition when the wait is over.   *)
(* One action of this module is one such statement; what a transaction     *)
(* wrote shows at its Commit.                                              *)
(***************************************************************************)
EXTENDS Bigint, FiniteSets

CONSTANTS
  Req,         \* HTTP requests that can be in flight at the same time
  Tick,        \* overlapping runs of the 30 s timer; {} when MOCK_CASHOUT_ENGINE
               \* is not "true" and handleTick returns at once
  Nobody,      \* the holder of a row lock nobody holds
  Ops,         \* the kinds of request clients send
  MaxId,       \* bound: ids the sequence of cashout_requests hands out
  Amounts,     \* amounts of new cashouts, in cents
  InitAvail,   \* cashoutAvailableCents at the start
  LegacyRows   \* ids 1..LegacyRows are FAILED rows with no refund row, as
               \* written before refunds had ledger rows

Proc == Req \cup Tick

Id == 1..MaxId

RequestKinds == {"cashout", "complete", "fail", "cancel", "repair", "retry"}

EngineKinds == {"engineFail", "engineComplete"}

(* minAmountCents of POST /wallet/cashout. *)
MinCashout == 500

Kinds == RequestKinds \cup EngineKinds

ASSUME CashoutAssumption ==
  /\ Req \cap Tick = {}
  /\ Nobody \notin Proc
  /\ Ops \subseteq RequestKinds
  /\ MaxId \in Nat
  /\ Amounts \subseteq {a \in AmountRange : a >= MinCashout} /\ Amounts # {}
  /\ InitAvail \in Nat
  /\ LegacyRows \in 0..MaxId

Legacy == 1..LegacyRows

VARIABLES
  cashout,      \* committed cashout_requests: id -> row
  avail,        \* committed wallets.cashoutAvailableCents
  ledger,       \* committed ledger rows of a cashout, counted by kind
  nextId,       \* the id sequence; a rolled back INSERT leaves a gap
  cashoutLock,  \* id -> the transaction that updated the row, or Nobody
  walletLock,   \* the same for the wallet row
  req,          \* proc -> its request: where it is and what it has read
  queue         \* tick -> ids of its snapshot of PENDING rows still to do

tables == <<cashout, avail, ledger, nextId>>
locks == <<cashoutLock, walletLock>>
vars == <<tables, locks, req, queue>>

Statuses == {"NONE", "PENDING", "COMPLETED", "FAILED"}   \* NONE: no such row

NoRow == [status |-> "NONE", amt |-> 0, retryOf |-> 0]

NoLedger == [debit |-> 0, refund |-> 0, paid |-> 0]

DebitOnly == [debit |-> 1, refund |-> 0, paid |-> 0]

(* The sum of the ledger rows of a cashout, in units of its amount. *)
Net(c) == ledger[c].refund + ledger[c].paid - ledger[c].debit

Points == {"idle", "read", "claim", "sum", "findPending", "wallet",
           "saveWallet", "saveCashout", "insert", "commit", "tick"}

(* pc: the next statement; id: the cashout of the URL; amt: its amount;    *)
(* val: the new wallet value, computed from the value read; new: the id of *)
(* an inserted row.                                                        *)
Started(kind, point, c, a) ==
  [pc |-> point, op |-> kind, id |-> c, amt |-> a, val |-> 0, new |-> 0]

NoRequest == Started("none", "idle", 0, 0)

-----------------------------------------------------------------------------
At(r, kinds, point) == req[r].op \in kinds /\ req[r].pc = point

Row(r) == cashout[req[r].id]

Goto(r, point) == req' = [req EXCEPT ![r].pc = point]

(* The handler returned or threw before it wrote anything.  The tick goes  *)
(* on with its next row, a request is over.                                *)
Finish(r) ==
  req' = [req EXCEPT ![r] = Started("none", IF r \in Tick THEN "tick" ELSE "idle", 0, 0)]

Init ==
  /\ \E a \in Amounts :
       cashout = [c \in Id |-> IF c \in Legacy
                                 THEN [status |-> "FAILED", amt |-> a, retryOf |-> 0]
                                 ELSE NoRow]
  /\ avail = InitAvail
  /\ ledger = [c \in Id |-> IF c \in Legacy THEN DebitOnly ELSE NoLedger]
  /\ nextId = LegacyRows + 1
  /\ cashoutLock = [c \in Id |-> Nobody]
  /\ walletLock = Nobody
  /\ req = [r \in Proc |-> NoRequest]
  /\ queue = [t \in Tick |-> {}]

-----------------------------------------------------------------------------
(* Arrival of a request.  A cashout of at most what the controller reads   *)
(* to be available, identity verified and bank info on file, goes to its   *)
(* first statement inside the transaction; the other endpoints name an     *)
(* existing row or not.                                                    *)
BeginCashout(r, a) ==
  /\ "cashout" \in Ops
  /\ req[r].pc = "idle"
  /\ a <= avail
  /\ req' = [req EXCEPT ![r] = Started("cashout", "wallet", 0, a)]
  /\ UNCHANGED <<tables, locks, queue>>

Begin(r, kind, c) ==
  /\ kind \in Ops \ {"cashout"}
  /\ req[r].pc = "idle"
  /\ req' = [req EXCEPT ![r] = Started(kind, "read", c, 0)]
  /\ UNCHANGED <<tables, locks, queue>>

(* The first statement: findOne of the cashout, and the early returns on   *)
(* its status.  `ok` is the set of statuses the handler goes on with.      *)
ReadCashout(r, kind, ok, next) ==
  /\ At(r, {kind}, "read")
  /\ IF Row(r).status \in ok
       THEN req' = [req EXCEPT ![r].pc = next, ![r].amt = Row(r).amt]
       ELSE Finish(r)
  /\ UNCHANGED <<tables, locks, queue>>

CompleteRead(r) == ReadCashout(r, "complete", {"PENDING", "FAILED"}, "saveCashout")

FailRead(r) == ReadCashout(r, "fail", {"PENDING"}, "claim")

CancelRead(r) == ReadCashout(r, "cancel", Statuses \ {"NONE"}, "claim")

RepairRead(r) == ReadCashout(r, "repair", {"FAILED"}, "sum")

RetryRead(r) == ReadCashout(r, "retry", {"FAILED"}, "findPending")

EngineFailRead(r) == ReadCashout(r, "engineFail", {"PENDING"}, "wallet")

(* Mutant: the status check of the success path inverted. *)
EngineCompleteReadInverted(r) ==
  ReadCashout(r, "engineComplete", {"COMPLETED", "FAILED"}, "saveCashout")

EngineCompleteRead(r) == ReadCashout(r, "engineComplete", {"PENDING"}, "saveCashout")

(* adminCompleteCashout: an UPDATE by id in a transaction of its own, with *)
(* no condition on the status that was read and no ledger row.  It waits   *)
(* for the row lock; a row already COMPLETED has nothing to update.        *)
CompleteSave(r) ==
  /\ At(r, {"complete"}, "saveCashout")
  /\ Row(r).status = "COMPLETED" \/ cashoutLock[req[r].id] = Nobody
  /\ cashout' = [cashout EXCEPT ![req[r].id].status = "COMPLETED"]
  /\ Finish(r)
  /\ UNCHANGED <<avail, ledger, nextId, locks, queue>>

(* Mutant: the claim without `AND status = 'PENDING'`. *)
ClaimAnyStatus(r) ==
  /\ At(r, {"fail", "cancel"}, "claim")
  /\ cashoutLock[req[r].id] = Nobody
  /\ Goto(r, "wallet")
  /\ cashoutLock' = [cashoutLock EXCEPT ![req[r].id] = r]
  /\ UNCHANGED <<tables, walletLock, queue>>

(* The claim of adminFailCashout and cancelCashout: UPDATE ... SET status  *)
(* = 'FAILED' WHERE id = c AND status = 'PENDING'.  It waits for the lock  *)
(* of a row that is PENDING.  No row affected: the handler re-reads,       *)
(* returns or throws, and nothing is written.                              *)
Claim(r) ==
  /\ At(r, {"fail", "cancel"}, "claim")
  /\ \/ /\ Row(r).status = "PENDING" /\ cashoutLock[req[r].id] = Nobody
        /\ Goto(r, "wallet")
        /\ cashoutLock' = [cashoutLock EXCEPT ![req[r].id] = r]
     \/ /\ Row(r).status # "PENDING"
        /\ Finish(r) /\ UNCHANGED cashoutLock
  /\ UNCHANGED <<tables, walletLock, queue>>

(* Mutant: the repair does not look at the sum of the ledger rows. *)
RepairSumUnchecked(r) ==
  /\ At(r, {"repair"}, "sum")
  /\ Goto(r, "wallet")
  /\ UNCHANGED <<tables, locks, queue>>

(* adminRepairFailedCashoutRefund adds up the ledger rows of the cashout   *)
(* and goes on only when there are some and they sum to -amount.           *)
RepairSum(r) ==
  /\ At(r, {"repair"}, "sum")
  /\ IF ledger[req[r].id] # NoLedger /\ Net(req[r].id) = -1
       THEN Goto(r, "wallet")
       ELSE Finish(r)
  /\ UNCHANGED <<tables, locks, queue>>

(* Mutant: the retry goes on although one is PENDING. *)
RetryUnchecked(r) ==
  /\ At(r, {"retry"}, "findPending")
  /\ Goto(r, "wallet")
  /\ UNCHANGED <<tables, locks, queue>>

(* retryCashout returns a retry of the same original that is PENDING.      *)
RetryFindPending(r) ==
  /\ At(r, {"retry"}, "findPending")
  /\ IF \E c \in Id : cashout[c].retryOf = req[r].id /\ cashout[c].status = "PENDING"
       THEN Finish(r)
       ELSE Goto(r, "wallet")
  /\ UNCHANGED <<tables, locks, queue>>

Debits == {"cashout", "retry"}

Credits == {"fail", "cancel", "repair", "engineFail"}

(* Mutant: a debit without the balance check. *)
WalletReadUnchecked(r) ==
  /\ req[r].pc = "wallet"
  /\ req' = [req EXCEPT ![r].pc = "saveWallet",
                       ![r].val = IF req[r].op \in Credits THEN PlusEq(avail, req[r].amt)
                                                           ELSE avail - req[r].amt]
  /\ UNCHANGED <<tables, locks, queue>>

(* findOne of the wallet, the balance check of a debit, and the new value  *)
(* the handler assigns to the entity it read.                              *)
WalletRead(r) ==
  /\ req[r].pc = "wallet"
  /\ \/ /\ req[r].op \in Credits
        /\ req' = [req EXCEPT ![r].pc = "saveWallet", ![r].val = PlusEq(avail, req[r].amt)]
     \/ /\ req[r].op \in Debits
        /\ avail >= req[r].amt
        /\ req' = [req EXCEPT ![r].pc = "saveWallet", ![r].val = avail - req[r].amt]
     \/ /\ req[r].op \in Debits
        /\ avail < req[r].amt
        /\ Finish(r)
  /\ UNCHANGED <<tables, locks, queue>>

AfterWalletSave(kind) ==
  CASE kind \in Debits       -> "insert"
    [] kind = "engineFail"   -> "saveCashout"
    [] OTHER                 -> "commit"

(* walletRepo.save: a SELECT of the row, then an UPDATE of the columns that *)
(* differ from the entity; none if the row already holds the value.  The   *)
(* comparison is by ===, so a number always differs from a bigint that was *)
(* read as a string (a debit leaves a number in the entity, `+=` does not).*)
AlwaysDiffers(r) == BigintStrings /\ req[r].op \in Debits

WalletSave(r) ==
  /\ req[r].pc = "saveWallet"
  /\ \/ walletLock = Nobody /\ walletLock' = r
     \/ avail = req[r].val /\ ~AlwaysDiffers(r) /\ UNCHANGED walletLock
  /\ Goto(r, AfterWalletSave(req[r].op))
  /\ UNCHANGED <<tables, cashoutLock, queue>>

(* cashoutRepo.save of a new row: the id comes from the sequence.          *)
InsertCashout(r) ==
  /\ req[r].pc = "insert"
  /\ nextId <= MaxId
  /\ nextId' = nextId + 1
  /\ req' = [req EXCEPT ![r].pc = "commit", ![r].new = nextId]
  /\ UNCHANGED <<cashout, avail, ledger, locks, queue>>

(* The mock engine saves the row it read, at its id, whatever its status   *)
(* has become since; a row COMPLETED meanwhile has nothing to update.      *)
EngineSave(r) ==
  /\ req[r].op \in EngineKinds
  /\ req[r].pc = "saveCashout"
  /\ \/ /\ cashoutLock[req[r].id] = Nobody
        /\ cashoutLock' = [cashoutLock EXCEPT ![req[r].id] = r]
     \/ /\ req[r].op = "engineComplete" /\ Row(r).status = "COMPLETED"
        /\ UNCHANGED cashoutLock
  /\ Goto(r, "commit")
  /\ UNCHANGED <<tables, walletLock, queue>>

-----------------------------------------------------------------------------
(* COMMIT: the wallet value shows if the transaction wrote it, and the row *)
(* locks go.                                                               *)
Release(r) ==
  /\ cashoutLock' = [c \in Id |-> IF cashoutLock[c] = r THEN Nobody ELSE cashoutLock[c]]
  /\ walletLock' = IF walletLock = r THEN Nobody ELSE walletLock

ShowWallet(r) == avail' = IF walletLock = r THEN req[r].val ELSE avail

AddRow(c, kind) == ledger' = [ledger EXCEPT ![c][kind] = @ + 1]

(* A new PENDING cashout and its ledger row of -amount.                    *)
CommitCreate(r) ==
  /\ At(r, Debits, "commit")
  /\ cashout' = [cashout EXCEPT ![req[r].new] =
                   [status |-> "PENDING", amt |-> req[r].amt, retryOf |-> req[r].id]]
  /\ AddRow(req[r].new, "debit")
  /\ ShowWallet(r) /\ Release(r) /\ Finish(r)
  /\ UNCHANGED <<nextId, queue>>

(* Mutant: a refund without its ledger row. *)
CommitRefundNoRow(r) ==
  /\ At(r, {"fail", "cancel", "engineFail"}, "commit")
  /\ cashout' = [cashout EXCEPT ![req[r].id].status = "FAILED"]
  /\ ShowWallet(r) /\ Release(r) /\ Finish(r)
  /\ UNCHANGED <<ledger, nextId, queue>>

(* FAILED, the refund and its ledger row of +amount, together: the claim   *)
(* of fail and cancel, the save of the mock engine.                        *)
CommitRefund(r) ==
  /\ At(r, {"fail", "cancel", "engineFail"}, "commit")
  /\ cashout' = [cashout EXCEPT ![req[r].id].status = "FAILED"]
  /\ AddRow(req[r].id, "refund")
  /\ ShowWallet(r) /\ Release(r) /\ Finish(r)
  /\ UNCHANGED <<nextId, queue>>

CommitRepair(r) ==
  /\ At(r, {"repair"}, "commit")
  /\ AddRow(req[r].id, "refund")
  /\ ShowWallet(r) /\ Release(r) /\ Finish(r)
  /\ UNCHANGED <<cashout, nextId, queue>>

(* Mutants: the success path without its status, and without its row. *)
CommitPaidNoStatus(r) ==
  /\ At(r, {"engineComplete"}, "commit")
  /\ AddRow(req[r].id, "paid")
  /\ ShowWallet(r) /\ Release(r) /\ Finish(r)
  /\ UNCHANGED <<cashout, nextId, queue>>

CommitPaidNoRow(r) ==
  /\ At(r, {"engineComplete"}, "commit")
  /\ cashout' = [cashout EXCEPT ![req[r].id].status = "COMPLETED"]
  /\ ShowWallet(r) /\ Release(r) /\ Finish(r)
  /\ UNCHANGED <<ledger, nextId, queue>>

(* The success path of the engine: COMPLETED and its ledger row of +amount *)
(* that balances the debit.                                                *)
CommitPaid(r) ==
  /\ At(r, {"engineComplete"}, "commit")
  /\ cashout' = IF cashoutLock[req[r].id] = r
                  THEN [cashout EXCEPT ![req[r].id].status = "COMPLETED"]
                  ELSE cashout
  /\ AddRow(req[r].id, "paid")
  /\ ShowWallet(r) /\ Release(r) /\ Finish(r)
  /\ UNCHANGED <<nextId, queue>>

(* Mutant: a catch block that forgets rollbackTransaction and release. *)
RollbackKeepsLocks(r) ==
  /\ req[r].pc \notin {"idle", "tick"}
  /\ req' = [req EXCEPT ![r] = NoRequest]
  /\ queue' = [t \in Tick |-> IF t = r THEN {} ELSE queue[t]]
  /\ UNCHANGED <<tables, locks>>

(* Any statement fails, the connection drops, the process stops, or        *)
(* Postgres picks the transaction as a deadlock victim: nothing of it      *)
(* remains.  In a tick the exception leaves the loop over the snapshot.    *)
Rollback(r) ==
  /\ req[r].pc \notin {"idle", "tick"}
  /\ req' = [req EXCEPT ![r] = NoRequest]
  /\ queue' = [t \in Tick |-> IF t = r THEN {} ELSE queue[t]]
  /\ Release(r)
  /\ UNCHANGED tables

-----------------------------------------------------------------------------
(* handleTick: the snapshot of the PENDING rows, then one transaction per  *)
(* row, each a coin toss.  Rows of equal createdAt come in any order, and  *)
(* the order matters to nothing here, so the next row is any of the queue. *)
TickStart(t) ==
  /\ req[t].pc = "idle"
  /\ \E c \in Id : cashout[c].status = "PENDING"
  /\ queue' = [queue EXCEPT ![t] = {c \in Id : cashout[c].status = "PENDING"}]
  /\ req' = [req EXCEPT ![t].pc = "tick"]
  /\ UNCHANGED <<tables, locks>>

TickNext(t) ==
  /\ req[t].pc = "tick"
  /\ \E c \in queue[t], kind \in EngineKinds :
       /\ queue' = [queue EXCEPT ![t] = @ \ {c}]
       /\ req' = [req EXCEPT ![t] = Started(kind, "read", c, 0)]
  /\ UNCHANGED <<tables, locks>>

TickEnd(t) ==
  /\ req[t].pc = "tick"
  /\ queue[t] = {}
  /\ req' = [req EXCEPT ![t] = NoRequest]
  /\ UNCHANGED <<tables, locks, queue>>

-----------------------------------------------------------------------------
(* The statements of a transaction that has begun, but for its rollback.   *)
Statement(r) ==
  \/ CompleteRead(r) \/ FailRead(r) \/ CancelRead(r) \/ RepairRead(r) \/ RetryRead(r)
  \/ EngineFailRead(r) \/ EngineCompleteRead(r)
  \/ CompleteSave(r) \/ Claim(r) \/ RepairSum(r) \/ RetryFindPending(r)
  \/ WalletRead(r) \/ WalletSave(r) \/ InsertCashout(r) \/ EngineSave(r)
  \/ CommitCreate(r) \/ CommitRefund(r) \/ CommitRepair(r) \/ CommitPaid(r)

Next ==
  \/ \E r \in Req, a \in Amounts : BeginCashout(r, a)
  \/ \E r \in Req, kind \in RequestKinds, c \in Id : Begin(r, kind, c)
  \/ \E r \in Proc : Statement(r)
  \/ \E r \in Proc : Rollback(r)
  \/ \E t \in Tick : TickStart(t) \/ TickNext(t) \/ TickEnd(t)

Spec == Init /\ [][Next]_vars

-----------------------------------------------------------------------------
(* Fairness.  A request in flight ends, one way or the other; a client may *)
(* never send another.  The timer always fires again and its loop goes on; *)
(* Postgres hands a row lock to those that wait for it.  The transactions  *)
(* of the timer are rolled back any number of times, but not for ever.     *)
FairSpec ==
  /\ Spec
  /\ \A r \in Req : WF_vars(Statement(r) \/ Rollback(r))
  /\ \A t \in Tick : WF_vars(TickStart(t) \/ TickNext(t) \/ TickEnd(t))
  /\ \A t \in Tick : SF_vars(Statement(t))
  /\ \A t \in Tick : <>[][~Rollback(t)]_vars

-----------------------------------------------------------------------------
(* Type invariant of the tables, the locks and the requests in flight.     *)
CashoutRow == [status : Statuses, amt : Nat, retryOf : 0..MaxId]

LedgerRows == [debit : Nat, refund : Nat, paid : Nat]

Request == [pc : Points, op : Kinds \cup {"none"}, id : 0..MaxId, amt : Nat,
            val : Nat, new : 0..MaxId]

TypeOK ==
  /\ cashout \in [Id -> CashoutRow]
  /\ avail \in Nat
  /\ ledger \in [Id -> LedgerRows]
  /\ nextId \in 1..MaxId + 1
  /\ cashoutLock \in [Id -> Proc \cup {Nobody}]
  /\ walletLock \in Proc \cup {Nobody}
  /\ req \in [Proc -> Request]
  /\ queue \in [Tick -> SUBSET Id]

(* A PENDING cashout has its debit row and nothing else: no interleaving   *)
(* refunds or pays one and leaves it PENDING, to be refunded or paid again *)
(* (every transaction that adds a row moves the status in the same one).   *)
PendingIsDebitOnly ==
  \A c \in Id : cashout[c].status = "PENDING" => ledger[c] = DebitOnly

(* FV-10 of cashout-scheduler.service.ts: a cashout is never FAILED unless *)
(* its refund row is written, whoever failed it and whatever raced.        *)
FailedIsRefunded ==
  \A c \in Id \ Legacy : cashout[c].status = "FAILED" => ledger[c].refund >= 1

(* "Refund ONCE (only the winner reaches here)", wallet.service.ts:680: a  *)
(* cashout has at most one refund row.                                     *)
RefundedOnce == \A c \in Id \ Legacy : ledger[c].refund <= 1

(* "Never allow COMPLETED -> FAILED", wallet.service.ts:644: the last      *)
(* status of a paid cashout is COMPLETED.                                  *)
CompletedIsFinal ==
  [][\A c \in Id : cashout[c].status = "COMPLETED" => cashout'[c].status = "COMPLETED"]_vars

(* The ledger rows of a settled cashout add up to zero: one debit, and one *)
(* refund or one completion row (FV-10 and FV-11 together, exactly once).  *)
SettledBalances ==
  \A c \in Id \ Legacy : cashout[c].status \in {"FAILED", "COMPLETED"} => Net(c) = 0

(* retryOfCashoutId is an "idempotency link" (cashout-request.entity.ts:38)*)
(* so of the retries of one cashout at most one is PENDING.                *)
OneLiveRetry ==
  \A c, d \in Id :
    /\ cashout[c].retryOf # 0 /\ cashout[c].retryOf = cashout[d].retryOf
    /\ cashout[c].status = "PENDING" /\ cashout[d].status = "PENDING"
    => c = d

(* The transaction r waits for, or Nobody.                                 *)
WaitsFor(r) ==
  CASE req[r].pc = "claim" /\ Row(r).status = "PENDING" -> cashoutLock[req[r].id]
    [] req[r].pc = "saveWallet" -> walletLock
    [] req[r].pc = "saveCashout" -> cashoutLock[req[r].id]
    [] OTHER -> Nobody

(* Row locks are taken in an order that no set of transactions can wait in *)
(* a circle, so none is ever a deadlock victim.                            *)
NoDeadlock == \A S \in (SUBSET Proc) \ {{}} : \E r \in S : WaitsFor(r) \notin S

(* The timer settles every cashout.                                        *)
PendingSettles == \A c \in Id : cashout[c].status = "PENDING" ~> cashout[c].status # "PENDING"

-----------------------------------------------------------------------------
(* The inductive invariant behind the properties.                          *)

(* A request of a kind is at a point of its own code.                      *)
PointOK(kind, point) ==
  \/ kind = "none" /\ point \in {"idle", "tick"}
  \/ kind \in Kinds \ {"cashout"} /\ point = "read"
  \/ kind \in {"fail", "cancel"} /\ point = "claim"
  \/ kind = "repair" /\ point = "sum"
  \/ kind = "retry" /\ point = "findPending"
  \/ kind \in Credits \cup Debits /\ point \in {"wallet", "saveWallet"}
  \/ kind \in EngineKinds \cup {"complete"} /\ point = "saveCashout"
  \/ kind \in Debits /\ point = "insert"
  \/ kind \in Kinds \ {"complete"} /\ point = "commit"

Inserted(r) == At(r, Debits, "commit")

(* Where a request is, what it has read is still true: the row exists, a   *)
(* repaired cashout has failed and one past the sum has no refund, a row   *)
(* to insert is not there yet.                                             *)
RequestOK(r) ==
  /\ PointOK(req[r].op, req[r].pc)
  /\ r \in Req => req[r].op \notin EngineKinds
  /\ req[r].op \in Kinds \ {"cashout"} => req[r].id \in Id
  /\ req[r].op \in Kinds \ {"cashout"} /\ req[r].pc # "read" => Row(r).status # "NONE"
  /\ req[r].op = "repair" /\ req[r].pc # "read" =>
       /\ Row(r).status # "PENDING"
       /\ req[r].id \in Legacy \/ ledger[req[r].id].refund >= 1
       /\ req[r].pc = "sum" \/ req[r].id \in Legacy
  /\ At(r, {"engineComplete"}, "commit") /\ cashoutLock[req[r].id] # r =>
       Row(r).status # "PENDING"
  /\ Inserted(r) =>
       req[r].new \in Id /\ req[r].new < nextId /\ cashout[req[r].new].status = "NONE"

CashoutOK(c) ==
  /\ c >= nextId => cashout[c].status = "NONE"
  /\ cashout[c].status = "NONE" => ledger[c] = NoLedger
  /\ ledger[c].debit <= 1

IndInv ==
  /\ TypeOK
  /\ \A r \in Proc : RequestOK(r)
  /\ \A c \in Id : CashoutOK(c)
  /\ \A r, s \in Proc : Inserted(r) /\ Inserted(s) /\ req[r].new = req[s].new => r = s
  /\ PendingIsDebitOnly
  /\ FailedIsRefunded

(* Without the mock engine: the row lock of a cashout is held exactly by   *)
(* the transaction whose claim won, and until it commits the row is        *)
(* PENDING for everyone else.                                              *)
HasClaim(r) == req[r].op \in {"fail", "cancel"} /\ req[r].pc \in {"wallet", "saveWallet", "commit"}

ClaimsOK ==
  /\ \A r \in Proc, c \in Id : cashoutLock[c] = r => HasClaim(r) /\ req[r].id = c
  /\ \A r \in Proc : HasClaim(r) =>
       cashoutLock[req[r].id] = r /\ Row(r).status = "PENDING"

ClaimInv == IndInv /\ ClaimsOK /\ RefundedOnce

(* The wallet row is locked last: who has its lock waits for no other.     *)
WalletLockedLast == \A r \in Proc : walletLock = r => req[r].pc \in {"insert", "commit"}

-----------------------------------------------------------------------------
(* What has to be kept apart for the two properties that races break.      *)

(* A retry past its check, and not yet committed.                          *)
Checked(r) == req[r].op = "retry" /\ req[r].pc \in {"wallet", "saveWallet", "insert", "commit"}

(* One such retry of a cashout at a time.                                  *)
RetriesApart == \A r, s \in Proc : Checked(r) /\ Checked(s) /\ req[r].id = req[s].id => r = s

(* It found no retry of its cashout PENDING, and that is still so; a       *)
(* request that is no retry inserts a row that is none.                    *)

RetryInv ==
  /\ OneLiveRetry
  /\ \A r \in Proc : req[r].op = "cashout" => req[r].id = 0
  /\ \A r \in Proc : Checked(r) =>
       \A c \in Id : cashout[c].retryOf = req[r].id => cashout[c].status # "PENDING"

(* While the mock engine settles a cashout nothing else does.              *)
EngineApart ==
  \A t, r \in Proc :
    /\ req[t].op \in EngineKinds /\ req[r].op \notin Debits \cup {"none"}
    /\ req[r].id = req[t].id
    => r = t

(* What a claim won, or the engine read to be PENDING, still is.           *)
SettleInv ==
  /\ SettledBalances
  /\ \A r \in Proc : HasClaim(r) => cashoutLock[req[r].id] = r /\ Row(r).status = "PENDING"
  /\ \A t \in Proc : req[t].op \in EngineKinds /\ req[t].pc # "read" => Row(t).status = "PENDING"
  /\ \A r \in Proc : req[r].op \in Ops \cup EngineKinds \cup {"none"}

-----------------------------------------------------------------------------
Book == INSTANCE CashoutBook WITH
          status <- [c \in Id |-> cashout[c].status],
          refunds <- [c \in Id |-> ledger[c].refund]

(* Without the mock engine and without old rows, the requests implement    *)
(* the promise, however their statements interleave.                       *)
ImplementsBook == Book!BookSpec
=============================================================================
