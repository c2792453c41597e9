---------------------------- MODULE CashoutProofs ----------------------------
(***************************************************************************)
(* Theorems about CashoutTx, CashoutFunds and CashoutApart, for any number *)
(* of requests and ticks and any amounts.                                  *)
(*                                                                         *)
(* IndInv holds with and without the mock engine, on both backends; the    *)
(* parts after it add what holds if retries do not overlap (RetryInv), if  *)
(* the engine settles alone (SettleInv), if there is no engine (ClaimInv)  *)
(* and if nobody comes between a wallet's read and its commit (FundsInv);  *)
(* the last ones say so of CashoutApart, which sees what overlapped.       *)
(* The steps that write no table go through LocalStep.                     *)
(***************************************************************************)
EXTENDS CashoutApart, Sums, TLAPS

-----------------------------------------------------------------------------
(* The value of `column += n` is a natural number.                         *)
LEMMA PlusEqType ==
  ASSUME NEW x \in Nat, NEW n \in Nat
  PROVE  PlusEq(x, n) \in Nat
  <1>1. Shift(n) \in Nat
    BY DEF Shift
  <1>2. x * Shift(n) \in Nat
    BY <1>1
  <1>3. QED
    BY <1>2 DEF PlusEq

LEMMA RequestType ==
  ASSUME TypeOK, NEW r \in Proc
  PROVE  /\ req[r] \in Request
         /\ req[r].id \in 0..MaxId /\ req[r].new \in 0..MaxId
         /\ req[r].amt \in Nat /\ req[r].val \in Nat
         /\ req[r].op \in Kinds \cup {"none"} /\ req[r].pc \in Points
  BY DEF TypeOK, Request

LEMMA NoRequestType == NoRequest \in Request
  BY CashoutAssumption DEF NoRequest, Started, Request, Points

(* What the constants are.                                                 *)
LEMMA Constants ==
  /\ \A a \in Amounts : a \in Nat
  /\ LegacyRows \in 0..MaxId /\ MaxId \in Nat /\ InitAvail \in Nat
  <1>1. \A a \in Amounts : a \in AmountRange
    BY CashoutAssumption, Zenon
  <1>2. \A a \in AmountRange : a \in Nat
    BY DEF AmountRange, MaxAmount
  <1>3. LegacyRows \in 0..MaxId /\ MaxId \in Nat /\ InitAvail \in Nat
    BY CashoutAssumption, Zenon
  <1>4. QED
    BY <1>1, <1>2, <1>3

LEMMA InitIndInv == Init => IndInv
  <1> SUFFICES ASSUME Init PROVE IndInv
    OBVIOUS
  <1>1. Amounts \subseteq Nat /\ LegacyRows \in 0..MaxId /\ MaxId \in Nat /\ InitAvail \in Nat
    BY Constants
  <1>2. \A c \in Id : cashout[c].status \in {"NONE", "FAILED"} /\
                      (cashout[c].status = "FAILED" <=> c \in Legacy)
    BY DEF Init, NoRow, Legacy
  <1>3. \A c \in Id : ledger[c] = IF c \in Legacy THEN DebitOnly
                                                  ELSE NoLedger
    BY DEF Init
  <1>4. \A r \in Proc : req[r] = NoRequest
    BY DEF Init
  <1>5. TypeOK
    <2>1. cashout \in [Id -> CashoutRow]
      BY <1>1 DEF Init, CashoutRow, Statuses, NoRow, Id
    <2>2. ledger \in [Id -> LedgerRows]
      BY <1>1 DEF Init, LedgerRows, NoLedger, DebitOnly, Id
    <2>3. avail \in Nat /\ nextId \in 1..MaxId + 1
      BY <1>1 DEF Init
    <2>4. cashoutLock \in [Id -> Proc \cup {Nobody}] /\ walletLock \in Proc \cup {Nobody}
      BY DEF Init
    <2>5. req \in [Proc -> Request] /\ queue \in [Tick -> SUBSET Id]
      BY NoRequestType DEF Init
    <2>6. QED
      BY <2>1, <2>2, <2>3, <2>4, <2>5 DEF TypeOK
  <1>6. \A r \in Proc : RequestOK(r) /\ ~Inserted(r)
    BY <1>4 DEF RequestOK, Inserted, At, NoRequest, Started, PointOK, Kinds, RequestKinds, EngineKinds, Debits
  <1>7. \A c \in Id : CashoutOK(c)
    <2> TAKE c \in Id
    <2>1. c \in Nat /\ nextId = LegacyRows + 1
      BY <1>1 DEF Id, Init
    <2>2. c >= nextId => c \notin Legacy
      BY <1>1, <2>1 DEF Legacy
    <2>3. ledger[c].debit <= 1
      BY <1>3 DEF DebitOnly, NoLedger
    <2>4. QED
      BY <1>2, <1>3, <2>2, <2>3 DEF CashoutOK
  <1>8. PendingIsDebitOnly /\ FailedIsRefunded
    BY <1>2 DEF PendingIsDebitOnly, FailedIsRefunded
  <1>9. QED
    BY <1>5, <1>6, <1>7, <1>8 DEF IndInv

(* A step of r that writes no table, takes no lock from another            *)
(* transaction and inserts nothing keeps the invariant if r's own request  *)
(* is in order after it.                                                   *)
LEMMA LocalStep ==
  ASSUME IndInv, UNCHANGED tables, NEW r \in Proc,
         \A s \in Proc : s # r => req'[s] = req[s],
         \A s \in Proc, c \in Id : s # r /\ cashoutLock[c] = s => cashoutLock'[c] = s,
         TypeOK', RequestOK(r)', ~Inserted(r)'
  PROVE  IndInv'
  <1>1. ASSUME NEW s \in Proc, s # r
        PROVE  RequestOK(s)' /\ (Inserted(s)' <=> Inserted(s))
    <2>1. RequestOK(s) /\ req'[s] = req[s] /\ Row(s)' = Row(s)
      BY <1>1 DEF IndInv, tables, Row
    <2>2. At(s, {"engineComplete"}, "commit")' /\ cashoutLock'[req'[s].id] # s
            => At(s, {"engineComplete"}, "commit") /\ cashoutLock[req[s].id] # s
      BY <1>1, <2>1 DEF At, RequestOK, Kinds, RequestKinds, EngineKinds
    <2>3. Inserted(s)' <=> Inserted(s)
      BY <2>1 DEF Inserted, At
    <2>4. QED
      BY <2>1, <2>2, <2>3 DEF RequestOK, tables
  <1>2. \A s \in Proc : RequestOK(s)'
    BY <1>1
  <1>3. \A c \in Id : CashoutOK(c)'
    BY DEF IndInv, CashoutOK, tables
  <1>4. \A s, t \in Proc : Inserted(s)' /\ Inserted(t)' /\ req'[s].new = req'[t].new => s = t
    BY <1>1 DEF IndInv
  <1>5. PendingIsDebitOnly' /\ FailedIsRefunded'
    BY DEF IndInv, PendingIsDebitOnly, FailedIsRefunded, tables
  <1>6. QED
    BY <1>2, <1>3, <1>4, <1>5 DEF IndInv

(* A request that is over is in order, whatever the tables hold.           *)
LEMMA OverOK ==
  ASSUME NEW r \in Proc, req'[r].op = "none", req'[r].pc \in {"idle", "tick"}
  PROVE  RequestOK(r)' /\ ~Inserted(r)'
  BY DEF RequestOK, Inserted, At, PointOK, Kinds, RequestKinds, EngineKinds, Debits

LEMMA FinishStep ==
  ASSUME TypeOK, NEW r \in Proc, Finish(r)
  PROVE  /\ req' \in [Proc -> Request]
         /\ \A s \in Proc : s # r => req'[s] = req[s]
         /\ RequestOK(r)' /\ ~Inserted(r)'
  <1>1. req'[r] = Started("none", IF r \in Tick THEN "tick" ELSE "idle", 0, 0)
    BY DEF Finish, TypeOK
  <1>2. req'[r].op = "none" /\ req'[r].pc \in {"idle", "tick"} /\ req'[r] \in Request
    BY <1>1, NoRequestType DEF NoRequest, Started, Request, Points
  <1>3. RequestOK(r)' /\ ~Inserted(r)'
    BY <1>2, OverOK
  <1>4. QED
    BY <1>2, <1>3 DEF Finish, TypeOK

(* Steps that write nothing but the program counter and locals of r.       *)
LEMMA QuietStep ==
  ASSUME IndInv, UNCHANGED <<tables, locks, queue>>, NEW r \in Proc,
         req' \in [Proc -> Request],
         \A s \in Proc : s # r => req'[s] = req[s],
         RequestOK(r)', ~Inserted(r)'
  PROVE  IndInv'
  <1>1. TypeOK'
    BY DEF IndInv, TypeOK, tables, locks
  <1>2. QED
    BY <1>1, LocalStep DEF locks

LEMMA GotoStep ==
  ASSUME TypeOK, NEW r \in Proc, NEW point \in Points, Goto(r, point)
  PROVE  /\ req' \in [Proc -> Request]
         /\ \A s \in Proc : s # r => req'[s] = req[s]
         /\ req'[r] = [req[r] EXCEPT !.pc = point]
         /\ req'[r].pc = point /\ req'[r].op = req[r].op /\ req'[r].id = req[r].id
  <1>1. req'[r] = [req[r] EXCEPT !.pc = point] /\ \A s \in Proc : s # r => req'[s] = req[s]
    BY DEF Goto, TypeOK
  <1>2. req[r] \in Request
    BY RequestType
  <1>3. req'[r] \in Request
    BY <1>1, <1>2 DEF Request
  <1>4. QED
    BY <1>1, <1>2, <1>3 DEF Goto, TypeOK, Request

(* The first statement of a handler goes on only with a row that exists.   *)
LEMMA ReadStep ==
  ASSUME IndInv, NEW r \in Proc, NEW kind \in Kinds \ {"cashout"},
         NEW ok \in SUBSET (Statuses \ {"NONE"}), NEW next \in Points,
         PointOK(kind, next), next \notin {"commit", "read"},
         kind = "repair" => ok = {"FAILED"} /\ next = "sum",
         ReadCashout(r, kind, ok, next)
  PROVE  IndInv'
  <1>1. TypeOK /\ RequestOK(r) /\ UNCHANGED <<tables, locks, queue>>
    BY DEF IndInv, ReadCashout
  <1>2. req[r].op = kind /\ req[r].pc = "read" /\ req[r].id \in Id
    BY <1>1 DEF ReadCashout, At, RequestOK
  <1>3. CASE Row(r).status \in ok
    <2>1. req' = [req EXCEPT ![r].pc = next, ![r].amt = Row(r).amt]
      BY <1>3 DEF ReadCashout
    <2>2. req[r] \in Request /\ Row(r).amt \in Nat /\ Row(r) \in CashoutRow
      BY <1>1, <1>2, RequestType DEF TypeOK, Row, CashoutRow
    <2>3. /\ req'[r] = [req[r] EXCEPT !.pc = next, !.amt = Row(r).amt]
          /\ \A s \in Proc : s # r => req'[s] = req[s]
      BY <1>1, <2>1 DEF TypeOK
    <2>4. req'[r] \in Request
      BY <2>2, <2>3 DEF Request
    <2>5. req' \in [Proc -> Request]
      BY <1>1, <2>1, <2>4 DEF TypeOK
    <2>6. req'[r].op = kind /\ req'[r].pc = next /\ req'[r].id = req[r].id
      BY <1>2, <2>2, <2>3 DEF Request
    <2>7. Row(r)' = Row(r)
      BY <1>1, <2>6 DEF Row, tables
    <2>8. kind = "repair" => req[r].id \in Legacy \/ ledger[req[r].id].refund >= 1
      BY <1>2, <1>3 DEF IndInv, FailedIsRefunded, Row
    <2>9. r \in Req => kind \notin EngineKinds
      BY <1>1, <1>2 DEF RequestOK
    <2>10. RequestOK(r)'
      BY <1>1, <1>2, <1>3, <2>6, <2>7, <2>8, <2>9 DEF RequestOK, Inserted, At, tables
    <2>11. ~Inserted(r)'
      BY <2>6 DEF Inserted, At
    <2>12. QED
      BY <1>1, <2>3, <2>5, <2>10, <2>11, QuietStep
  <1>4. CASE Row(r).status \notin ok
    BY <1>1, <1>4, FinishStep, QuietStep DEF ReadCashout
  <1>5. QED
    BY <1>3, <1>4

LEMMA ReadsStep ==
  ASSUME IndInv, NEW r \in Proc,
         \/ CompleteRead(r) \/ FailRead(r) \/ CancelRead(r) \/ RepairRead(r) \/ RetryRead(r)
         \/ EngineFailRead(r) \/ EngineCompleteRead(r)
  PROVE  IndInv'
  <1> USE DEF Kinds, RequestKinds, EngineKinds, Statuses, Points, PointOK, Credits
  <1>1. CASE CompleteRead(r)
    BY <1>1, ReadStep DEF CompleteRead
  <1>2. CASE FailRead(r)
    BY <1>2, ReadStep DEF FailRead
  <1>3. CASE CancelRead(r)
    BY <1>3, ReadStep DEF CancelRead
  <1>4. CASE RepairRead(r)
    BY <1>4, ReadStep DEF RepairRead
  <1>5. CASE RetryRead(r)
    BY <1>5, ReadStep DEF RetryRead
  <1>6. CASE EngineFailRead(r)
    BY <1>6, ReadStep DEF EngineFailRead
  <1>7. CASE EngineCompleteRead(r)
    BY <1>7, ReadStep DEF EngineCompleteRead
  <1>8. QED
    BY <1>1, <1>2, <1>3, <1>4, <1>5, <1>6, <1>7

(* A request that starts, with the locals it starts with.                  *)
LEMMA StartStep ==
  ASSUME IndInv, UNCHANGED <<tables, locks>>, NEW r \in Proc, NEW new \in Request,
         req' = [req EXCEPT ![r] = new],
         queue' \in [Tick -> SUBSET Id],
         r \in Req => new.op \notin EngineKinds,
         \/ new.op = "none" /\ new.pc \in {"idle", "tick"}
         \/ new.op \in Kinds \ {"cashout"} /\ new.pc = "read" /\ new.id \in Id
         \/ new.op = "cashout" /\ new.pc = "wallet"
  PROVE  IndInv'
  <1>1. TypeOK
    BY DEF IndInv
  <1>2. req'[r] = new /\ (\A s \in Proc : s # r => req'[s] = req[s]) /\ req' \in [Proc -> Request]
    BY <1>1 DEF TypeOK
  <1>3. RequestOK(r)' /\ ~Inserted(r)'
    BY <1>2 DEF RequestOK, Inserted, At, PointOK, Kinds, RequestKinds, EngineKinds, Debits, Credits
  <1>4. TypeOK'
    BY <1>1, <1>2 DEF TypeOK, tables, locks
  <1>5. QED
    BY <1>2, <1>3, <1>4, LocalStep DEF locks

LEMMA BeginCashoutStep ==
  ASSUME IndInv, NEW r \in Req, NEW a \in Amounts, BeginCashout(r, a)
  PROVE  IndInv'
  <1> DEFINE start == Started("cashout", "wallet", 0, a)
  <1>1. a \in Nat /\ MaxId \in Nat
    BY Constants
  <1>2. /\ start \in Request /\ start.op = "cashout" /\ start.pc = "wallet"
        /\ start.op \notin EngineKinds
    BY <1>1 DEF Started, Request, Points, Kinds, RequestKinds, EngineKinds
  <1>3. req' = [req EXCEPT ![r] = start]
    BY DEF BeginCashout
  <1>4. UNCHANGED <<tables, locks>> /\ queue' \in [Tick -> SUBSET Id]
    BY DEF BeginCashout, IndInv, TypeOK
  <1>5. r \in Proc
    BY DEF Proc
  <1> HIDE DEF start
  <1>6. QED
    BY <1>2, <1>3, <1>4, <1>5, StartStep

LEMMA BeginStep ==
  ASSUME IndInv, NEW r \in Req, NEW kind \in RequestKinds, NEW c \in Id, Begin(r, kind, c)
  PROVE  IndInv'
  <1> DEFINE start == Started(kind, "read", c, 0)
  <1>1. c \in 0..MaxId /\ 0 \in 0..MaxId
    BY CashoutAssumption DEF Id
  <1>2. kind # "cashout"
    BY DEF Begin
  <1>3. /\ start \in Request /\ start.op \in Kinds \ {"cashout"}
        /\ start.pc = "read" /\ start.id \in Id
        /\ start.op \notin EngineKinds
    BY <1>1, <1>2 DEF Started, Request, Points, Kinds, RequestKinds, EngineKinds
  <1>4. req' = [req EXCEPT ![r] = start]
    BY DEF Begin
  <1>5. UNCHANGED <<tables, locks>> /\ queue' \in [Tick -> SUBSET Id]
    BY DEF Begin, IndInv, TypeOK
  <1>6. r \in Proc
    BY DEF Proc
  <1> HIDE DEF start
  <1>7. QED
    BY <1>3, <1>4, <1>5, <1>6, StartStep

LEMMA TickStep ==
  ASSUME IndInv, NEW t \in Tick, TickStart(t) \/ TickNext(t) \/ TickEnd(t)
  PROVE  IndInv'
  <1>1. TypeOK /\ t \in Proc /\ t \notin Req
    BY CashoutAssumption DEF IndInv, Proc
  <1>2. queue \in [Tick -> SUBSET Id] /\ queue[t] \subseteq Id
    BY <1>1 DEF TypeOK
  <1>3. CASE TickStart(t)
    <2>1. queue' \in [Tick -> SUBSET Id]
      BY <1>2, <1>3 DEF TickStart
    <2>2. req'[t].pc = "tick" /\ req'[t] = [req[t] EXCEPT !.pc = "tick"] /\ req[t].op = "none"
      BY <1>1, <1>3 DEF TickStart, TypeOK, IndInv, RequestOK, PointOK
    <2>3. req[t] \in Request
      BY <1>1, RequestType
    <2> DEFINE new == [req[t] EXCEPT !.pc = "tick"]
    <2>4. new \in Request /\ new.op = "none" /\ new.pc = "tick"
      BY <2>2, <2>3 DEF Request, Points
    <2>5. req' = [req EXCEPT ![t] = new] /\ UNCHANGED <<tables, locks>>
      BY <1>1, <1>3 DEF TickStart, TypeOK
    <2> HIDE DEF new
    <2>6. QED
      BY <1>1, <2>1, <2>4, <2>5, StartStep
  <1>4. CASE TickNext(t)
    <2>1. PICK c \in queue[t], kind \in EngineKinds :
            /\ queue' = [queue EXCEPT ![t] = @ \ {c}]
            /\ req' = [req EXCEPT ![t] = Started(kind, "read", c, 0)]
      BY <1>4 DEF TickNext
    <2> DEFINE new == Started(kind, "read", c, 0)
    <2>0. c \in Id /\ c \in 0..MaxId /\ 0 \in 0..MaxId
      BY <1>2, CashoutAssumption DEF Id
    <2>2. new \in Request /\ new.op \in Kinds \ {"cashout"} /\ new.pc = "read" /\ new.id \in Id
      BY <2>0 DEF Started, Request, Points, Kinds, RequestKinds, EngineKinds
    <2>3. req' = [req EXCEPT ![t] = new] /\ UNCHANGED <<tables, locks>>
      BY <1>4, <2>1 DEF TickNext
    <2>4. queue' \in [Tick -> SUBSET Id]
      BY <1>2, <2>1
    <2> HIDE DEF new
    <2>5. QED
      BY <1>1, <2>2, <2>3, <2>4, StartStep
  <1>5. CASE TickEnd(t)
    BY <1>1, <1>2, <1>5, NoRequestType, StartStep DEF TickEnd, NoRequest, Started
  <1>6. QED
    BY <1>3, <1>4, <1>5

(* The statements that look at the tables and go on or give up.            *)
LEMMA RepairSumStep ==
  ASSUME IndInv, NEW r \in Proc, RepairSum(r)
  PROVE  IndInv'
  <1>1. TypeOK /\ RequestOK(r) /\ UNCHANGED <<tables, locks, queue>>
    BY DEF IndInv, RepairSum
  <1>2. req[r].op = "repair" /\ req[r].pc = "sum" /\ req[r].id \in Id
    BY <1>1 DEF RepairSum, At, RequestOK, Kinds, RequestKinds
  <1>3. CASE Goto(r, "wallet")  /\ Net(req[r].id) = -1
    <2>1. /\ req' \in [Proc -> Request]
          /\ \A s \in Proc : s # r => req'[s] = req[s]
          /\ req'[r].pc = "wallet" /\ req'[r].op = "repair" /\ req'[r].id = req[r].id
      BY <1>1, <1>2, <1>3, GotoStep DEF Points
    <2>2. ledger[req[r].id] \in LedgerRows /\ ledger[req[r].id].debit <= 1
      BY <1>1, <1>2 DEF TypeOK, IndInv, CashoutOK
    <2>3. ~(ledger[req[r].id].refund >= 1)
      BY <1>3, <2>2 DEF Net, LedgerRows
    <2>4. req[r].id \in Legacy
      BY <1>1, <1>2, <2>3 DEF RequestOK
    <2>5. RequestOK(r)' /\ ~Inserted(r)'
      BY <1>1, <1>2, <2>1, <2>4
      DEF RequestOK, Inserted, At, PointOK, Credits, Debits, Kinds, RequestKinds, EngineKinds, Row, tables
    <2>6. QED
      BY <1>1, <2>1, <2>5, QuietStep
  <1>4. CASE Finish(r)
    BY <1>1, <1>4, FinishStep, QuietStep
  <1>5. QED
    BY <1>3, <1>4 DEF RepairSum

LEMMA RetryFindPendingStep ==
  ASSUME IndInv, NEW r \in Proc, RetryFindPending(r)
  PROVE  IndInv'
  <1>1. TypeOK /\ RequestOK(r) /\ UNCHANGED <<tables, locks, queue>>
    BY DEF IndInv, RetryFindPending
  <1>2. req[r].op = "retry" /\ req[r].pc = "findPending" /\ req[r].id \in Id
    BY <1>1 DEF RetryFindPending, At, RequestOK, Kinds, RequestKinds
  <1>3. CASE Goto(r, "wallet")
    <2>1. /\ req' \in [Proc -> Request]
          /\ \A s \in Proc : s # r => req'[s] = req[s]
          /\ req'[r].pc = "wallet" /\ req'[r].op = "retry" /\ req'[r].id = req[r].id
      BY <1>1, <1>2, <1>3, GotoStep DEF Points
    <2>2. RequestOK(r)' /\ ~Inserted(r)'
      BY <1>1, <1>2, <2>1
      DEF RequestOK, Inserted, At, PointOK, Credits, Debits, Kinds, RequestKinds, EngineKinds, Row, tables
    <2>3. QED
      BY <1>1, <2>1, <2>2, QuietStep
  <1>4. CASE Finish(r)
    BY <1>1, <1>4, FinishStep, QuietStep
  <1>5. QED
    BY <1>3, <1>4 DEF RetryFindPending

LEMMA ClaimStep ==
  ASSUME IndInv, NEW r \in Proc, Claim(r)
  PROVE  IndInv'
  <1>1. TypeOK /\ RequestOK(r) /\ UNCHANGED <<tables, walletLock, queue>>
    BY DEF IndInv, Claim
  <1>2. req[r].op \in {"fail", "cancel"} /\ req[r].pc = "claim" /\ req[r].id \in Id
    BY <1>1 DEF Claim, At, RequestOK, Kinds, RequestKinds
  <1>3. CASE Goto(r, "wallet") /\ cashoutLock' = [cashoutLock EXCEPT ![req[r].id] = r]
    <2>1. /\ req' \in [Proc -> Request]
          /\ \A s \in Proc : s # r => req'[s] = req[s]
          /\ req'[r].pc = "wallet" /\ req'[r].op = req[r].op /\ req'[r].id = req[r].id
      BY <1>1, <1>3, GotoStep DEF Points
    <2>2. RequestOK(r)' /\ ~Inserted(r)'
      BY <1>1, <1>2, <2>1
      DEF RequestOK, Inserted, At, PointOK, Credits, Debits, Kinds, RequestKinds, EngineKinds, Row, tables
    <2>3. \A s \in Proc, c \in Id : s # r /\ cashoutLock[c] = s => cashoutLock'[c] = s
      BY <1>1, <1>2, <1>3, CashoutAssumption DEF Claim, TypeOK
    <2>4. TypeOK'
      BY <1>1, <1>2, <1>3, <2>1 DEF TypeOK, tables
    <2>5. QED
      BY <1>1, <2>1, <2>2, <2>3, <2>4, LocalStep
  <1>4. CASE Finish(r) /\ UNCHANGED cashoutLock
    BY <1>1, <1>4, FinishStep, QuietStep DEF locks
  <1>5. QED
    BY <1>3, <1>4 DEF Claim

LEMMA WalletReadStep ==
  ASSUME IndInv, NEW r \in Proc, WalletRead(r)
  PROVE  IndInv'
  <1>1. TypeOK /\ RequestOK(r) /\ UNCHANGED <<tables, locks, queue>> /\ req[r].pc = "wallet"
    BY DEF IndInv, WalletRead
  <1>2. avail \in Nat /\ req[r] \in Request /\ req[r].amt \in Nat
    BY <1>1, RequestType DEF TypeOK
  <1>3. ASSUME NEW v \in Nat, req' = [req EXCEPT ![r].pc = "saveWallet", ![r].val = v]
        PROVE  IndInv'
    <2>1. /\ req'[r] = [req[r] EXCEPT !.pc = "saveWallet", !.val = v]
          /\ \A s \in Proc : s # r => req'[s] = req[s]
      BY <1>1, <1>3 DEF TypeOK
    <2>2. req'[r] \in Request
      BY <1>2, <2>1 DEF Request, Points
    <2>3. req' \in [Proc -> Request]
      BY <1>1, <1>3, <2>2 DEF TypeOK
    <2>4. req'[r].op = req[r].op /\ req'[r].pc = "saveWallet" /\ req'[r].id = req[r].id
      BY <1>2, <2>1 DEF Request
    <2>5. RequestOK(r)' /\ ~Inserted(r)'
      BY <1>1, <2>4 DEF RequestOK, Inserted, At, PointOK, Row, tables
    <2>6. QED
      BY <1>1, <2>1, <2>3, <2>5, QuietStep
  <1>4. CASE req' = [req EXCEPT ![r].pc = "saveWallet", ![r].val = PlusEq(avail, req[r].amt)]
    BY <1>2, <1>3, <1>4, PlusEqType
  <1>5. CASE avail >= req[r].amt /\ req' = [req EXCEPT ![r].pc = "saveWallet", ![r].val = avail - req[r].amt]
    <2>1. avail - req[r].amt \in Nat
      BY <1>2, <1>5
    <2>2. QED
      BY <1>3, <1>5, <2>1
  <1>6. CASE Finish(r)
    BY <1>1, <1>6, FinishStep, QuietStep
  <1>7. QED
    BY <1>4, <1>5, <1>6 DEF WalletRead

LEMMA WalletSaveStep ==
  ASSUME IndInv, NEW r \in Proc, WalletSave(r)
  PROVE  IndInv'
  <1>1. TypeOK /\ RequestOK(r) /\ UNCHANGED <<tables, cashoutLock, queue>>
    BY DEF IndInv, WalletSave
  <1>2. req[r].pc = "saveWallet" /\ req[r].op \in Credits \cup Debits
    BY <1>1 DEF WalletSave, RequestOK, PointOK
  <1> DEFINE next == AfterWalletSave(req[r].op)
  <1>3. /\ next \in Points /\ PointOK(req[r].op, next) /\ next # "read"
        /\ next = "commit" => req[r].op \in {"fail", "cancel", "repair"}
    BY <1>2 DEF AfterWalletSave, Points, PointOK, Credits, Debits, Kinds, RequestKinds, EngineKinds
  <1>4. Goto(r, next)
    BY DEF WalletSave
  <1> HIDE DEF next
  <1>5. /\ req' \in [Proc -> Request]
        /\ \A s \in Proc : s # r => req'[s] = req[s]
        /\ req'[r].pc = next /\ req'[r].op = req[r].op /\ req'[r].id = req[r].id
    BY <1>1, <1>3, <1>4, GotoStep
  <1>6. RequestOK(r)' /\ ~Inserted(r)'
    BY <1>1, <1>2, <1>3, <1>5 DEF RequestOK, Inserted, At, Debits, Row, tables
  <1>7. walletLock' \in Proc \cup {Nobody}
    BY <1>1 DEF WalletSave, TypeOK
  <1>8. TypeOK'
    BY <1>1, <1>5, <1>7 DEF TypeOK, tables
  <1>9. QED
    BY <1>1, <1>5, <1>6, <1>8, LocalStep

LEMMA EngineSaveStep ==
  ASSUME IndInv, NEW r \in Proc, EngineSave(r)
  PROVE  IndInv'
  <1>1. TypeOK /\ RequestOK(r) /\ UNCHANGED <<tables, walletLock, queue>>
    BY DEF IndInv, EngineSave
  <1>2. req[r].pc = "saveCashout" /\ req[r].op \in EngineKinds /\ req[r].id \in Id
    BY <1>1 DEF EngineSave, RequestOK, Kinds, EngineKinds
  <1>3. /\ req' \in [Proc -> Request]
        /\ \A s \in Proc : s # r => req'[s] = req[s]
        /\ req'[r].pc = "commit" /\ req'[r].op = req[r].op /\ req'[r].id = req[r].id
    BY <1>1, GotoStep DEF EngineSave, Points
  <1>4. \/ cashoutLock[req[r].id] = Nobody /\ cashoutLock' = [cashoutLock EXCEPT ![req[r].id] = r]
        \/ Row(r).status = "COMPLETED" /\ UNCHANGED cashoutLock
    BY DEF EngineSave
  <1>5. cashoutLock'[req[r].id] = r \/ Row(r).status # "PENDING"
    BY <1>1, <1>2, <1>4 DEF TypeOK
  <1>6. RequestOK(r)' /\ ~Inserted(r)'
    BY <1>1, <1>2, <1>3, <1>5
    DEF RequestOK, Inserted, At, Debits, PointOK, Kinds, RequestKinds, EngineKinds, Row, tables
  <1>7. cashoutLock' \in [Id -> Proc \cup {Nobody}]
    BY <1>1, <1>2, <1>4 DEF TypeOK
  <1>8. TypeOK'
    BY <1>1, <1>3, <1>7 DEF TypeOK, tables
  <1>9. \A s \in Proc, c \in Id : s # r /\ cashoutLock[c] = s => cashoutLock'[c] = s
    BY <1>1, <1>2, <1>4, CashoutAssumption DEF TypeOK
  <1>10. QED
    BY <1>1, <1>3, <1>6, <1>8, <1>9, LocalStep

(* The one step that hands out an id: the row to insert gets an id that no *)
(* other transaction has.                                                  *)
LEMMA InsertStep ==
  ASSUME IndInv, NEW r \in Proc, InsertCashout(r)
  PROVE  IndInv'
  <1>1. /\ TypeOK /\ (\A s \in Proc : RequestOK(s)) /\ req[r] \in Request
        /\ UNCHANGED <<cashout, avail, ledger, locks, queue>> /\ nextId' = nextId + 1
    BY RequestType DEF IndInv, InsertCashout
  <1>2. req[r].pc = "insert" /\ req[r].op \in Debits /\ nextId \in Id /\ nextId \in Nat
    <2>1. req[r].pc = "insert" /\ PointOK(req[r].op, req[r].pc) /\ nextId <= MaxId
      BY <1>1 DEF InsertCashout, RequestOK
    <2>2. req[r].op \in Debits
      BY <2>1 DEF PointOK
    <2>3. nextId \in Id /\ nextId \in Nat
      BY <1>1, <2>1, CashoutAssumption DEF TypeOK, Id
    <2>4. QED
      BY <2>1, <2>2, <2>3
  <1>3. /\ req'[r] = [req[r] EXCEPT !.pc = "commit", !.new = nextId]
        /\ \A s \in Proc : s # r => req'[s] = req[s]
    BY <1>1 DEF InsertCashout, TypeOK
  <1>4. /\ req'[r] \in Request /\ req'[r].op = req[r].op /\ req'[r].pc = "commit"
        /\ req'[r].id = req[r].id /\ req'[r].new = nextId
    <2>1. nextId \in 0..MaxId
      BY <1>2, CashoutAssumption DEF Id
    <2>2. QED
      BY <1>1, <1>2, <1>3, <2>1 DEF Request, Points
  <1>5. cashout[nextId].status = "NONE"
    BY <1>2 DEF IndInv, CashoutOK
  <1>6. RequestOK(r)' /\ Inserted(r)'
    BY <1>1, <1>2, <1>4, <1>5
    DEF RequestOK, Inserted, At, PointOK, Debits, Kinds, RequestKinds, EngineKinds, Row
  <1>7. ASSUME NEW s \in Proc, s # r
        PROVE  /\ RequestOK(s)' /\ (Inserted(s)' <=> Inserted(s))
               /\ Inserted(s) => req[s].new < nextId
    <2>1. RequestOK(s) /\ req'[s] = req[s] /\ Row(s)' = Row(s)
      BY <1>1, <1>3, <1>7 DEF Row
    <2>2. Inserted(s)' <=> Inserted(s)
      BY <2>1 DEF Inserted, At
    <2>3. req[s].new \in Int
      BY <1>1, RequestType, CashoutAssumption
    <2>4. Inserted(s)' => /\ req'[s].new \in Id /\ req'[s].new < nextId'
                         /\ cashout'[req'[s].new].status = "NONE"
      BY <1>1, <1>2, <2>1, <2>2, <2>3 DEF RequestOK
    <2>5. RequestOK(s)'
      BY <1>1, <2>1, <2>4 DEF RequestOK, At, locks
    <2>6. QED
      BY <2>1, <2>2, <2>5 DEF RequestOK
  <1>8. TypeOK'
    <2>1. nextId' \in 1..MaxId + 1
      BY <1>1, <1>2, CashoutAssumption DEF Id
    <2>2. req' \in [Proc -> Request]
      BY <1>1, <1>4 DEF InsertCashout, TypeOK
    <2>3. QED
      BY <1>1, <2>1, <2>2 DEF TypeOK, locks
  <1>9. \A s, t \in Proc : Inserted(s)' /\ Inserted(t)' /\ req'[s].new = req'[t].new => s = t
    <2> TAKE s, t \in Proc
    <2>1. ASSUME NEW u \in Proc, u # r, Inserted(u)'
          PROVE  req'[u].new # req'[r].new
      <3>1. req[u].new < nextId /\ req'[u] = req[u] /\ req'[r].new = nextId
        BY <1>3, <1>4, <1>7, <2>1
      <3>2. QED
        BY <1>2, <3>1
    <2>2. CASE s = r \/ t = r
      BY <2>1, <2>2
    <2>3. CASE s # r /\ t # r
      BY <1>3, <1>7, <2>3 DEF IndInv
    <2>4. QED
      BY <2>2, <2>3
  <1>10. \A c \in Id : CashoutOK(c)'
    <2> TAKE c \in Id
    <2>1. CashoutOK(c) /\ c \in Int
      BY DEF IndInv, Id
    <2>2. QED
      BY <1>1, <1>2, <2>1 DEF CashoutOK
  <1>11. PendingIsDebitOnly' /\ FailedIsRefunded'
    BY <1>1 DEF IndInv, PendingIsDebitOnly, FailedIsRefunded
  <1>12. QED
    BY <1>6, <1>7, <1>8, <1>9, <1>10, <1>11 DEF IndInv

LEMMA ReleaseStep ==
  ASSUME TypeOK, NEW r \in Proc, Release(r)
  PROVE  /\ cashoutLock' \in [Id -> Proc \cup {Nobody}] /\ walletLock' \in Proc \cup {Nobody}
         /\ \A s \in Proc, c \in Id : s # r /\ cashoutLock[c] = s => cashoutLock'[c] = s
  BY DEF Release, TypeOK

LEMMA RollbackStep ==
  ASSUME IndInv, NEW r \in Proc, Rollback(r)
  PROVE  IndInv'
  <1>1. TypeOK
    BY DEF IndInv
  <1>2. UNCHANGED tables /\ Release(r) /\ req' = [req EXCEPT ![r] = NoRequest]
    BY DEF Rollback
  <1>3. queue' \in [Tick -> SUBSET Id]
    BY <1>1 DEF Rollback, TypeOK
  <1>4. req'[r] = NoRequest /\ (\A s \in Proc : s # r => req'[s] = req[s])
    BY <1>1, <1>2 DEF TypeOK
  <1>5. TypeOK'
    BY <1>1, <1>2, <1>3, ReleaseStep, NoRequestType DEF TypeOK, tables
  <1>6. RequestOK(r)' /\ ~Inserted(r)'
    BY <1>4, OverOK DEF NoRequest, Started
  <1>7. QED
    BY <1>1, <1>2, <1>4, <1>5, <1>6, ReleaseStep, LocalStep

(* A step of r that writes the tables and ends r's request.  It may bring  *)
(* a row into being only if r inserted it, never returns one to PENDING    *)
(* and never takes a ledger row away.                                      *)
LEMMA TableStep ==
  ASSUME IndInv, NEW r \in Proc, Finish(r), TypeOK', nextId' = nextId,
         \A s \in Proc, c \in Id : s # r /\ cashoutLock[c] = s => cashoutLock'[c] = s,
         \A c \in Id : cashout[c].status # "NONE" => cashout'[c].status # "NONE",
         \A c \in Id : cashout[c].status \notin {"NONE", "PENDING"} =>
                        cashout'[c].status # "PENDING",
         \A c \in Id : ledger'[c].refund >= ledger[c].refund,
         \A c \in Id : cashout[c].status = "NONE" /\ cashout'[c].status # "NONE" =>
                        Inserted(r) /\ c = req[r].new,
         \A c \in Id : CashoutOK(c)', PendingIsDebitOnly', FailedIsRefunded'
  PROVE  IndInv'
  <1>1. TypeOK /\ (\A s \in Proc : RequestOK(s))
    BY DEF IndInv
  <1>2. /\ RequestOK(r)' /\ ~Inserted(r)'
        /\ \A s \in Proc : s # r => req'[s] = req[s]
    BY <1>1, FinishStep
  <1>3. ASSUME NEW s \in Proc, s # r
        PROVE  RequestOK(s)' /\ (Inserted(s)' <=> Inserted(s))
    <2>1. RequestOK(s) /\ req'[s] = req[s]
      BY <1>1, <1>2, <1>3
    <2>2. Inserted(s)' <=> Inserted(s)
      BY <2>1 DEF Inserted, At
    <2>3. Inserted(s) => /\ req[s].new \in Id /\ req[s].new < nextId
                        /\ cashout'[req[s].new].status = "NONE"
      BY <1>3, <2>1 DEF IndInv, RequestOK
    <2>4. req[s].op \in Kinds \ {"cashout"} => req[s].id \in Id
      BY <2>1 DEF RequestOK
    <2>5. req[s].op \in Kinds \ {"cashout"} /\ req[s].pc # "read" => Row(s)'.status # "NONE"
      BY <2>1, <2>4 DEF RequestOK, Row
    <2>6. req[s].op = "repair" /\ req[s].pc # "read" =>
            /\ Row(s)'.status # "PENDING"
            /\ req[s].id \in Legacy \/ ledger'[req[s].id].refund >= 1
            /\ req[s].pc = "sum" \/ req[s].id \in Legacy
      <3>1. SUFFICES ASSUME req[s].op = "repair" /\ req[s].pc # "read"
                     PROVE  /\ Row(s)'.status # "PENDING"
                            /\ req[s].id \in Legacy \/ ledger'[req[s].id].refund >= 1
                            /\ req[s].pc = "sum" \/ req[s].id \in Legacy
        OBVIOUS
      <3>2. req[s].op \in Kinds \ {"cashout"}
        BY <3>1 DEF Kinds, RequestKinds
      <3>3. req[s].id \in Id /\ Row(s).status \notin {"NONE", "PENDING"}
        BY <2>1, <2>4, <3>1, <3>2 DEF RequestOK
      <3>4. Row(s)'.status # "PENDING"
        BY <2>1, <3>3 DEF Row
      <3>5. ledger[req[s].id].refund \in Nat /\ ledger'[req[s].id].refund \in Nat
        BY <1>1, <3>3 DEF TypeOK, LedgerRows
      <3>6. req[s].id \in Legacy \/ ledger'[req[s].id].refund >= 1
        BY <2>1, <3>1, <3>3, <3>5 DEF RequestOK
      <3>7. QED
        BY <2>1, <3>1, <3>4, <3>6 DEF RequestOK
    <2>7. At(s, {"engineComplete"}, "commit") /\ cashoutLock'[req[s].id] # s =>
            Row(s)'.status # "PENDING"
      <3>1. SUFFICES ASSUME At(s, {"engineComplete"}, "commit"), cashoutLock'[req[s].id] # s
                     PROVE  Row(s)'.status # "PENDING"
        OBVIOUS
      <3>2. req[s].op \in Kinds \ {"cashout"} /\ req[s].pc # "read"
        BY <3>1 DEF At, Kinds, EngineKinds
      <3>3. req[s].id \in Id /\ Row(s).status # "NONE"
        BY <2>1, <2>4, <3>2 DEF RequestOK
      <3>4. cashoutLock[req[s].id] # s
        BY <1>3, <3>1, <3>3
      <3>5. Row(s).status # "PENDING"
        BY <2>1, <3>1, <3>4 DEF RequestOK
      <3>6. QED
        BY <2>1, <3>3, <3>5 DEF Row
    <2>8. RequestOK(s)'
      BY <2>1, <2>2, <2>3, <2>4, <2>5, <2>6, <2>7 DEF RequestOK, At
    <2>9. QED
      BY <2>2, <2>8
  <1>4. \A s \in Proc : RequestOK(s)'
    BY <1>2, <1>3
  <1>5. \A s, t \in Proc : Inserted(s)' /\ Inserted(t)' /\ req'[s].new = req'[t].new => s = t
    BY <1>2, <1>3 DEF IndInv
  <1>6. QED
    BY <1>4, <1>5 DEF IndInv

(* The types of what a commit writes.                                      *)
LEMMA CommitType ==
  ASSUME TypeOK, NEW r \in Proc, Finish(r), Release(r), ShowWallet(r),
         UNCHANGED <<nextId, queue>>,
         cashout' \in [Id -> CashoutRow], ledger' \in [Id -> LedgerRows]
  PROVE  TypeOK'
  <1>1. avail' \in Nat
    BY RequestType DEF ShowWallet, TypeOK
  <1>2. QED
    BY <1>1, FinishStep, ReleaseStep DEF TypeOK

(* Rows and ledger entries, one by one.                                    *)
LEMMA RowType ==
  ASSUME TypeOK, NEW c \in Id
  PROVE  /\ cashout[c] \in CashoutRow /\ cashout[c].status \in Statuses
         /\ ledger[c] \in LedgerRows
         /\ ledger[c].debit \in Nat /\ ledger[c].refund \in Nat /\ ledger[c].paid \in Nat
  BY DEF TypeOK, CashoutRow, LedgerRows

LEMMA SetStatus ==
  ASSUME TypeOK, NEW c \in Id, NEW st \in Statuses,
         cashout' = [cashout EXCEPT ![c].status = st]
  PROVE  /\ cashout' \in [Id -> CashoutRow]
         /\ cashout'[c].status = st
         /\ \A d \in Id : d # c => cashout'[d] = cashout[d]
  <1>1. cashout[c] \in CashoutRow
    BY RowType
  <1>2. cashout'[c] = [cashout[c] EXCEPT !.status = st] /\ \A d \in Id : d # c => cashout'[d] = cashout[d]
    BY DEF TypeOK
  <1>3. cashout'[c] \in CashoutRow /\ cashout'[c].status = st
    BY <1>1, <1>2 DEF CashoutRow
  <1>4. QED
    BY <1>2, <1>3 DEF TypeOK

LEMMA AddRowStep ==
  ASSUME TypeOK, NEW c \in Id, NEW kind \in {"debit", "refund", "paid"}, AddRow(c, kind)
  PROVE  /\ ledger' \in [Id -> LedgerRows]
         /\ \A d \in Id : d # c => ledger'[d] = ledger[d]
         /\ ledger'[c].debit = ledger[c].debit + (IF kind = "debit" THEN 1 ELSE 0)
         /\ ledger'[c].refund = ledger[c].refund + (IF kind = "refund" THEN 1 ELSE 0)
         /\ ledger'[c].paid = ledger[c].paid + (IF kind = "paid" THEN 1 ELSE 0)
  <1>1. ledger[c] \in LedgerRows
    BY RowType
  <1>2. /\ ledger'[c] = [ledger[c] EXCEPT ![kind] = @ + 1]
        /\ \A d \in Id : d # c => ledger'[d] = ledger[d]
    BY DEF AddRow, TypeOK
  <1>3. /\ ledger'[c] \in LedgerRows
        /\ ledger'[c].debit = ledger[c].debit + (IF kind = "debit" THEN 1 ELSE 0)
        /\ ledger'[c].refund = ledger[c].refund + (IF kind = "refund" THEN 1 ELSE 0)
        /\ ledger'[c].paid = ledger[c].paid + (IF kind = "paid" THEN 1 ELSE 0)
    <2>1. CASE kind = "debit"
      BY <1>1, <1>2, <2>1 DEF LedgerRows
    <2>2. CASE kind = "refund"
      BY <1>1, <1>2, <2>2 DEF LedgerRows
    <2>3. CASE kind = "paid"
      BY <1>1, <1>2, <2>3 DEF LedgerRows
    <2>4. QED
      BY <2>1, <2>2, <2>3
  <1>4. QED
    BY <1>2, <1>3 DEF TypeOK, AddRow

(* What IndInv says of one cashout.                                        *)
LEMMA CashoutFacts ==
  ASSUME IndInv, NEW c \in Id
  PROVE  /\ c >= nextId => cashout[c].status = "NONE"
         /\ cashout[c].status = "NONE" => ledger[c] = NoLedger
         /\ ledger[c].debit <= 1
         /\ cashout[c].status = "PENDING" => ledger[c] = DebitOnly
         /\ cashout[c].status = "FAILED" /\ c \notin Legacy => ledger[c].refund >= 1
  BY DEF IndInv, CashoutOK, PendingIsDebitOnly, FailedIsRefunded

(* A commit that touches one existing cashout n, in what CashoutOK and the  *)
(* two properties of IndInv say of it.                                     *)
LEMMA OneCashout ==
  ASSUME IndInv, nextId' = nextId, NEW n \in Id,
         cashout[n].status # "NONE", cashout'[n].status # "NONE",
         ledger'[n].debit <= 1,
         cashout'[n].status = "PENDING" => ledger'[n] = DebitOnly,
         cashout'[n].status = "FAILED" /\ n \notin Legacy => ledger'[n].refund >= 1,
         \A d \in Id : d # n => cashout'[d] = cashout[d] /\ ledger'[d] = ledger[d]
  PROVE  (\A c \in Id : CashoutOK(c)') /\ PendingIsDebitOnly' /\ FailedIsRefunded'
  <1>1. ASSUME NEW c \in Id
        PROVE  /\ c >= nextId' => cashout'[c].status = "NONE"
               /\ cashout'[c].status = "NONE" => ledger'[c] = NoLedger
               /\ ledger'[c].debit <= 1
               /\ cashout'[c].status = "PENDING" => ledger'[c] = DebitOnly
               /\ cashout'[c].status = "FAILED" /\ c \notin Legacy => ledger'[c].refund >= 1
    <2>1. CASE c = n
      BY <2>1, CashoutFacts
    <2>2. CASE c # n
      BY <2>2, CashoutFacts
    <2>3. QED
      BY <2>1, <2>2
  <1>2. QED
    BY <1>1 DEF CashoutOK, PendingIsDebitOnly, FailedIsRefunded

LEMMA CompleteSaveStep ==
  ASSUME IndInv, NEW r \in Proc, CompleteSave(r)
  PROVE  IndInv'
  <1>1. TypeOK /\ RequestOK(r) /\ Finish(r) /\ UNCHANGED <<avail, ledger, nextId, locks, queue>>
    BY DEF IndInv, CompleteSave
  <1>2. req[r].id \in Id /\ Row(r).status # "NONE"
    BY <1>1 DEF CompleteSave, At, RequestOK, Kinds, RequestKinds
  <1>3. /\ cashout' \in [Id -> CashoutRow]
        /\ cashout'[req[r].id].status = "COMPLETED"
        /\ \A d \in Id : d # req[r].id => cashout'[d] = cashout[d]
    BY <1>1, <1>2, SetStatus DEF CompleteSave, Statuses
  <1>4. TypeOK'
    BY <1>1, <1>3, FinishStep DEF TypeOK, locks
  <1>5. ledger' = ledger /\ ledger[req[r].id].debit <= 1 /\ nextId' = nextId
    BY <1>1, <1>2, CashoutFacts
  <1>6. (\A c \in Id : CashoutOK(c)') /\ PendingIsDebitOnly' /\ FailedIsRefunded'
    BY <1>2, <1>3, <1>5, OneCashout DEF Row
  <1>7. \A c \in Id : ledger'[c].refund >= ledger[c].refund
    BY <1>1, RowType
  <1>8. /\ \A c \in Id : cashout[c].status # "NONE" => cashout'[c].status # "NONE"
        /\ \A c \in Id : cashout[c].status \notin {"NONE", "PENDING"} =>
                           cashout'[c].status # "PENDING"
    BY <1>2, <1>3 DEF Row
  <1>9. \A c \in Id : cashout[c].status = "NONE" /\ cashout'[c].status # "NONE" =>
                          Inserted(r) /\ c = req[r].new
    BY <1>2, <1>3 DEF Row
  <1>10. nextId' = nextId /\ \A s \in Proc, c \in Id : s # r /\ cashoutLock[c] = s => cashoutLock'[c] = s
    BY <1>1 DEF locks
  <1>11. QED
    BY <1>1, <1>4, <1>6, <1>7, <1>8, <1>9, <1>10, TableStep

LEMMA CommitCreateStep ==
  ASSUME IndInv, NEW r \in Proc, CommitCreate(r)
  PROVE  IndInv'
  <1> DEFINE n == req[r].new
  <1>1. /\ TypeOK /\ RequestOK(r) /\ Finish(r) /\ Release(r) /\ ShowWallet(r)
        /\ UNCHANGED <<nextId, queue>> /\ Inserted(r) /\ AddRow(n, "debit")
    BY DEF IndInv, CommitCreate, Inserted
  <1>2. n \in Id /\ n < nextId /\ cashout[n].status = "NONE"
    BY <1>1 DEF RequestOK
  <1>3. req[r].amt \in Nat /\ req[r].id \in 0..MaxId
    BY <1>1, RequestType
  <1>4. /\ cashout'[n] = [status |-> "PENDING", amt |-> req[r].amt, retryOf |-> req[r].id]
        /\ \A d \in Id : d # n => cashout'[d] = cashout[d]
        /\ cashout' \in [Id -> CashoutRow]
    BY <1>1, <1>2, <1>3 DEF CommitCreate, TypeOK, CashoutRow, Statuses
  <1> HIDE DEF n
  <1>5. ledger[n] = NoLedger
    BY <1>2, CashoutFacts
  <1>6. /\ ledger' \in [Id -> LedgerRows] /\ ledger'[n] = DebitOnly
        /\ \A d \in Id : d # n => ledger'[d] = ledger[d]
    <2>1. /\ ledger' \in [Id -> LedgerRows] /\ \A d \in Id : d # n => ledger'[d] = ledger[d]
          /\ ledger'[n].debit = ledger[n].debit + 1 /\ ledger'[n].refund = ledger[n].refund + 0
          /\ ledger'[n].paid = ledger[n].paid + 0
      BY <1>1, <1>2, AddRowStep
    <2>2. ledger'[n] \in LedgerRows /\ ledger'[n].debit = 1 /\ ledger'[n].refund = 0 /\ ledger'[n].paid = 0
      BY <1>2, <1>5, <2>1 DEF NoLedger
    <2>3. ledger'[n] = DebitOnly
      BY <2>2 DEF LedgerRows, DebitOnly
    <2>4. QED
      BY <2>1, <2>3
  <1>7. TypeOK'
    BY <1>1, <1>4, <1>6, CommitType
  <1>8. (\A c \in Id : CashoutOK(c)') /\ PendingIsDebitOnly' /\ FailedIsRefunded'
    <2>1. nextId' = nextId /\ n \in Int /\ nextId \in Int
      BY <1>1, <1>2, CashoutAssumption DEF Id, TypeOK
    <2>2. ASSUME NEW c \in Id
          PROVE  /\ c >= nextId' => cashout'[c].status = "NONE"
                 /\ cashout'[c].status = "NONE" => ledger'[c] = NoLedger
                 /\ ledger'[c].debit <= 1
                 /\ cashout'[c].status = "PENDING" => ledger'[c] = DebitOnly
                 /\ cashout'[c].status = "FAILED" /\ c \notin Legacy => ledger'[c].refund >= 1
      <3>1. CASE c = n
        BY <1>2, <1>4, <1>6, <2>1, <3>1 DEF DebitOnly
      <3>2. CASE c # n
        BY <1>4, <1>6, <2>1, <3>2, CashoutFacts
      <3>3. QED
        BY <3>1, <3>2
    <2>3. QED
      BY <2>2 DEF CashoutOK, PendingIsDebitOnly, FailedIsRefunded
  <1>9. \A c \in Id : ledger'[c].refund >= ledger[c].refund
    BY <1>1, <1>5, <1>6, RowType DEF NoLedger, DebitOnly
  <1>10. /\ \A c \in Id : cashout[c].status # "NONE" => cashout'[c].status # "NONE"
         /\ \A c \in Id : cashout[c].status \notin {"NONE", "PENDING"} =>
                            cashout'[c].status # "PENDING"
    BY <1>2, <1>4
  <1>11. \A c \in Id : cashout[c].status = "NONE" /\ cashout'[c].status # "NONE" =>
                          Inserted(r) /\ c = req[r].new
    BY <1>1, <1>2, <1>4 DEF n
  <1>12. nextId' = nextId /\ \A s \in Proc, c \in Id : s # r /\ cashoutLock[c] = s => cashoutLock'[c] = s
    BY <1>1, ReleaseStep
  <1>13. QED
    BY <1>1, <1>7, <1>8, <1>9, <1>10, <1>11, <1>12, TableStep

LEMMA CommitRefundStep ==
  ASSUME IndInv, NEW r \in Proc, CommitRefund(r)
  PROVE  IndInv'
  <1> DEFINE n == req[r].id
  <1>1. /\ TypeOK /\ RequestOK(r) /\ Finish(r) /\ Release(r) /\ ShowWallet(r)
        /\ UNCHANGED <<nextId, queue>> /\ AddRow(n, "refund")
    BY DEF IndInv, CommitRefund
  <1>2. n \in Id /\ cashout[n].status # "NONE"
    <2>1. req[r].op \in Kinds \ {"cashout"} /\ req[r].pc # "read"
      BY <1>1 DEF CommitRefund, At, Kinds, RequestKinds, EngineKinds
    <2>2. QED
      BY <1>1, <2>1 DEF RequestOK, Row
  <1>3. /\ cashout' \in [Id -> CashoutRow] /\ cashout'[n].status = "FAILED"
        /\ \A d \in Id : d # n => cashout'[d] = cashout[d]
    BY <1>1, <1>2, SetStatus DEF CommitRefund, Statuses
  <1> HIDE DEF n
  <1>4. /\ ledger' \in [Id -> LedgerRows] /\ ledger'[n].refund = ledger[n].refund + 1
        /\ ledger'[n].debit = ledger[n].debit
        /\ \A d \in Id : d # n => ledger'[d] = ledger[d]
    BY <1>1, <1>2, AddRowStep, RowType
  <1>5. TypeOK'
    BY <1>1, <1>3, <1>4, CommitType
  <1>6. /\ ledger'[n].debit <= 1 /\ ledger'[n].refund >= 1 /\ nextId' = nextId
    BY <1>1, <1>2, <1>4, RowType, CashoutFacts
  <1>7. (\A c \in Id : CashoutOK(c)') /\ PendingIsDebitOnly' /\ FailedIsRefunded'
    BY <1>2, <1>3, <1>4, <1>6, OneCashout
  <1>8. \A c \in Id : ledger'[c].refund >= ledger[c].refund
    BY <1>1, <1>2, <1>4, RowType
  <1>9. /\ \A c \in Id : cashout[c].status # "NONE" => cashout'[c].status # "NONE"
        /\ \A c \in Id : cashout[c].status \notin {"NONE", "PENDING"} =>
                           cashout'[c].status # "PENDING"
    BY <1>2, <1>3
  <1>10. \A c \in Id : cashout[c].status = "NONE" /\ cashout'[c].status # "NONE" =>
                          Inserted(r) /\ c = req[r].new
    BY <1>2, <1>3
  <1>11. nextId' = nextId /\ \A s \in Proc, c \in Id : s # r /\ cashoutLock[c] = s => cashoutLock'[c] = s
    BY <1>1, ReleaseStep
  <1>12. QED
    BY <1>1, <1>5, <1>7, <1>8, <1>9, <1>10, <1>11, TableStep

LEMMA CommitRepairStep ==
  ASSUME IndInv, NEW r \in Proc, CommitRepair(r)
  PROVE  IndInv'
  <1> DEFINE n == req[r].id
  <1>1. /\ TypeOK /\ RequestOK(r) /\ Finish(r) /\ Release(r) /\ ShowWallet(r)
        /\ UNCHANGED <<cashout, nextId, queue>> /\ AddRow(n, "refund")
    BY DEF IndInv, CommitRepair
  <1>2. n \in Id /\ cashout[n].status \notin {"NONE", "PENDING"}
    <2>1. req[r].op \in Kinds \ {"cashout"} /\ req[r].pc # "read" /\ req[r].op = "repair"
      BY <1>1 DEF CommitRepair, At, Kinds, RequestKinds, EngineKinds
    <2>2. QED
      BY <1>1, <2>1 DEF RequestOK, Row
  <1> HIDE DEF n
  <1>3. /\ ledger' \in [Id -> LedgerRows] /\ ledger'[n].refund = ledger[n].refund + 1
        /\ ledger'[n].debit = ledger[n].debit
        /\ \A d \in Id : d # n => ledger'[d] = ledger[d]
    BY <1>1, <1>2, AddRowStep, RowType
  <1>4. TypeOK'
    BY <1>1, <1>3, CommitType DEF TypeOK
  <1>5. ledger'[n].debit <= 1 /\ ledger'[n].refund >= 1 /\ nextId' = nextId /\ cashout' = cashout
    BY <1>1, <1>2, <1>3, RowType, CashoutFacts
  <1>6. (\A c \in Id : CashoutOK(c)') /\ PendingIsDebitOnly' /\ FailedIsRefunded'
    BY <1>2, <1>3, <1>5, OneCashout
  <1>7. \A c \in Id : ledger'[c].refund >= ledger[c].refund
    BY <1>1, <1>2, <1>3, RowType
  <1>8. /\ \A c \in Id : cashout[c].status # "NONE" => cashout'[c].status # "NONE"
        /\ \A c \in Id : cashout[c].status \notin {"NONE", "PENDING"} =>
                           cashout'[c].status # "PENDING"
    BY <1>5
  <1>9. \A c \in Id : cashout[c].status = "NONE" /\ cashout'[c].status # "NONE" =>
                          Inserted(r) /\ c = req[r].new
    BY <1>5
  <1>10. nextId' = nextId /\ \A s \in Proc, c \in Id : s # r /\ cashoutLock[c] = s => cashoutLock'[c] = s
    BY <1>1, ReleaseStep
  <1>11. QED
    BY <1>1, <1>4, <1>5, <1>6, <1>7, <1>8, <1>9, <1>10, TableStep

LEMMA CommitPaidStep ==
  ASSUME IndInv, NEW r \in Proc, CommitPaid(r)
  PROVE  IndInv'
  <1> DEFINE n == req[r].id
  <1>1. /\ TypeOK /\ RequestOK(r) /\ Finish(r) /\ Release(r) /\ ShowWallet(r)
        /\ UNCHANGED <<nextId, queue>> /\ AddRow(n, "paid") /\ At(r, {"engineComplete"}, "commit")
    BY DEF IndInv, CommitPaid
  <1>2. n \in Id /\ cashout[n].status # "NONE"
    <2>1. req[r].op \in Kinds \ {"cashout"} /\ req[r].pc # "read"
      BY <1>1 DEF At, Kinds, RequestKinds, EngineKinds
    <2>2. QED
      BY <1>1, <2>1 DEF RequestOK, Row
  <1>3. \/ cashout' = [cashout EXCEPT ![n].status = "COMPLETED"]
        \/ cashout' = cashout /\ cashout[n].status # "PENDING"
    BY <1>1 DEF CommitPaid, RequestOK, Row
  <1> HIDE DEF n
  <1>4. /\ cashout' \in [Id -> CashoutRow]
        /\ \A d \in Id : d # n => cashout'[d] = cashout[d]
        /\ cashout'[n].status \notin {"NONE", "PENDING"}
        /\ cashout[n].status # "FAILED" => cashout'[n].status # "FAILED"
    <2>1. CASE cashout' = [cashout EXCEPT ![n].status = "COMPLETED"]
      <3>1. "COMPLETED" \in Statuses
        BY DEF Statuses
      <3>2. /\ cashout' \in [Id -> CashoutRow]
            /\ cashout'[n].status = "COMPLETED"
            /\ \A d \in Id : d # n => cashout'[d] = cashout[d]
        BY <1>1, <1>2, <2>1, <3>1, SetStatus
      <3>3. QED
        BY <3>2
    <2>2. CASE cashout' = cashout /\ cashout[n].status # "PENDING"
      BY <1>1, <1>2, <2>2 DEF TypeOK
    <2>3. QED
      BY <1>3, <2>1, <2>2
  <1>5. /\ ledger' \in [Id -> LedgerRows] /\ ledger'[n].refund = ledger[n].refund
        /\ ledger'[n].debit = ledger[n].debit
        /\ \A d \in Id : d # n => ledger'[d] = ledger[d]
    BY <1>1, <1>2, AddRowStep, RowType
  <1>6. TypeOK'
    BY <1>1, <1>4, <1>5, CommitType
  <1>7. /\ ledger'[n].debit <= 1 /\ nextId' = nextId
        /\ cashout'[n].status \notin {"NONE", "PENDING"}
        /\ cashout'[n].status = "FAILED" /\ n \notin Legacy => ledger'[n].refund >= 1
    BY <1>1, <1>2, <1>4, <1>5, RowType, CashoutFacts
  <1>8. (\A c \in Id : CashoutOK(c)') /\ PendingIsDebitOnly' /\ FailedIsRefunded'
    BY <1>2, <1>4, <1>5, <1>7, OneCashout
  <1>9. \A c \in Id : ledger'[c].refund >= ledger[c].refund
    BY <1>1, <1>2, <1>5, RowType
  <1>10. /\ \A c \in Id : cashout[c].status # "NONE" => cashout'[c].status # "NONE"
         /\ \A c \in Id : cashout[c].status \notin {"NONE", "PENDING"} =>
                            cashout'[c].status # "PENDING"
    BY <1>2, <1>4
  <1>11. \A c \in Id : cashout[c].status = "NONE" /\ cashout'[c].status # "NONE" =>
                          Inserted(r) /\ c = req[r].new
    BY <1>2, <1>4
  <1>12. nextId' = nextId /\ \A s \in Proc, c \in Id : s # r /\ cashoutLock[c] = s => cashoutLock'[c] = s
    BY <1>1, ReleaseStep
  <1>13. QED
    BY <1>1, <1>6, <1>8, <1>9, <1>10, <1>11, <1>12, TableStep

LEMMA StatementStep ==
  ASSUME IndInv, NEW r \in Proc, Statement(r)
  PROVE  IndInv'
  BY ReadsStep, CompleteSaveStep, ClaimStep, RepairSumStep, RetryFindPendingStep,
     WalletReadStep, WalletSaveStep, InsertStep, EngineSaveStep,
     CommitCreateStep, CommitRefundStep, CommitRepairStep, CommitPaidStep
  DEF Statement

LEMMA NextIndInv == IndInv /\ [Next]_vars => IndInv'
  <1> SUFFICES ASSUME IndInv, [Next]_vars PROVE IndInv'
    OBVIOUS
  <1>1. CASE Next
    BY <1>1, BeginCashoutStep, BeginStep, StatementStep, RollbackStep, TickStep DEF Next
  <1>2. CASE UNCHANGED vars
    <2>1. TypeOK'
      BY <1>2 DEF vars, tables, locks, IndInv, TypeOK
    <2>2. \A s \in Proc : RequestOK(s)' /\ (Inserted(s)' <=> Inserted(s))
      BY <1>2 DEF vars, tables, locks, IndInv, RequestOK, Inserted, At, Row
    <2>3. (\A c \in Id : CashoutOK(c)') /\ PendingIsDebitOnly' /\ FailedIsRefunded'
      BY <1>2 DEF vars, tables, IndInv, CashoutOK, PendingIsDebitOnly, FailedIsRefunded
    <2>4. QED
      BY <1>2, <2>1, <2>2, <2>3 DEF vars, IndInv
  <1>3. QED
    BY <1>1, <1>2

-----------------------------------------------------------------------------
(* The inductive invariant, with and without the mock engine.              *)
THEOREM Inductive == Spec => []IndInv
  BY InitIndInv, NextIndInv, PTL DEF Spec

(* Every table, lock and request keeps its type; no debit ever takes the   *)
(* available balance below zero, whatever it raced.                        *)
THEOREM TypeCorrect == Spec => []TypeOK
  <1>1. IndInv => TypeOK
    BY DEF IndInv
  <1>2. QED
    BY <1>1, Inductive, PTL

(* FV-10: wallet.service.ts and the mock engine together never leave a     *)
(* cashout FAILED without its refund row ...                               *)
THEOREM RefundBeforeFailed == Spec => []FailedIsRefunded
  <1>1. IndInv => FailedIsRefunded
    BY DEF IndInv
  <1>2. QED
    BY <1>1, Inductive, PTL

(* ... nor PENDING with a refund or a completion row.                      *)
THEOREM PendingUntouched == Spec => []PendingIsDebitOnly
  <1>1. IndInv => PendingIsDebitOnly
    BY DEF IndInv
  <1>2. QED
    BY <1>1, Inductive, PTL

-----------------------------------------------------------------------------
(* Retries of one cashout that do not overlap.                             *)

(* A step of r that makes no row PENDING: r is past its check only if it   *)
(* was, or has just found nothing PENDING.                                 *)
LEMMA RetryFrame ==
  ASSUME RetryInv, NEW r \in Proc,
         \A s \in Proc : s # r => req'[s] = req[s],
         \A c \in Id : cashout'[c].status = "PENDING" => cashout'[c] = cashout[c],
         req'[r].op = "cashout" => req'[r].id = 0,
         Checked(r)' =>
           \/ Checked(r) /\ req'[r].id = req[r].id
           \/ \A c \in Id : cashout[c].retryOf = req'[r].id => cashout[c].status # "PENDING"
  PROVE  RetryInv'
  <1>1. OneLiveRetry'
    BY DEF RetryInv, OneLiveRetry
  <1>2. \A s \in Proc : req'[s].op = "cashout" => req'[s].id = 0
    BY DEF RetryInv
  <1>3. ASSUME NEW s \in Proc, Checked(s)', NEW c \in Id, cashout'[c].retryOf = req'[s].id,
               cashout'[c].status = "PENDING"
        PROVE  FALSE
    <2>1. cashout[c].retryOf = req'[s].id /\ cashout[c].status = "PENDING"
      BY <1>3
    <2>2. CASE s = r
      BY <1>3, <2>1, <2>2 DEF RetryInv
    <2>3. CASE s # r
      BY <1>3, <2>1, <2>3 DEF RetryInv, Checked
    <2>4. QED
      BY <2>2, <2>3
  <1>4. QED
    BY <1>1, <1>2, <1>3 DEF RetryInv

(* The statements before a retry's check, and those of other requests.     *)
LEMMA ReadKeepsRetries ==
  ASSUME IndInv, RetryInv, NEW r \in Proc, NEW kind \in Kinds \ {"cashout"}, NEW ok, NEW next,
         kind = "retry" => next = "findPending",
         ReadCashout(r, kind, ok, next)
  PROVE  RetryInv'
  <1>1. req \in [Proc -> Request] /\ req[r] \in Request /\ req[r].op = kind /\ UNCHANGED cashout
    BY RequestType DEF IndInv, TypeOK, ReadCashout, At, tables
  <1>2. \A s \in Proc : s # r => req'[s] = req[s]
    BY <1>1 DEF ReadCashout, Finish
  <1>3. req'[r].op = "none" \/ (req'[r].op = kind /\ req'[r].pc = next)
    BY <1>1 DEF ReadCashout, Finish, Started, Request
  <1>4. req'[r].op # "cashout" /\ ~Checked(r)'
    BY <1>3 DEF Checked
  <1>5. QED
    BY <1>1, <1>2, <1>4, RetryFrame

(* A request that ends, and one that starts.                               *)
LEMMA NewKeepsRetries ==
  ASSUME IndInv, RetryInv, NEW r \in Proc, NEW new, req' = [req EXCEPT ![r] = new],
         new.op = "cashout" => new.id = 0, new.op = "retry" => new.pc = "read",
         \A c \in Id : cashout'[c].status = "PENDING" => cashout'[c] = cashout[c]
  PROVE  RetryInv'
  <1>1. req'[r] = new /\ \A s \in Proc : s # r => req'[s] = req[s]
    BY DEF IndInv, TypeOK
  <1>2. ~Checked(r)'
    BY <1>1 DEF Checked
  <1>3. QED
    BY <1>1, <1>2, RetryFrame

LEMMA FinishKeepsRetries ==
  ASSUME IndInv, RetryInv, NEW r \in Proc, Finish(r),
         \A c \in Id : cashout'[c].status = "PENDING" => cashout'[c] = cashout[c]
  PROVE  RetryInv'
  <1> DEFINE new == Started("none", IF r \in Tick THEN "tick" ELSE "idle", 0, 0)
  <1>1. req' = [req EXCEPT ![r] = new] /\ new.op = "none"
    BY DEF Finish, Started
  <1> HIDE DEF new
  <1>2. QED
    BY <1>1, NewKeepsRetries

(* A statement inside the transaction: same request, a point further.      *)
LEMMA WithinKeepsRetries ==
  ASSUME IndInv, RetryInv, NEW r \in Proc, UNCHANGED cashout,
         \A s \in Proc : s # r => req'[s] = req[s],
         req'[r].op = req[r].op, req'[r].id = req[r].id,
         req[r].pc \in {"claim", "sum", "findPending", "wallet", "saveWallet", "insert", "saveCashout"},
         req[r].pc = "findPending" =>
           \A c \in Id : cashout[c].retryOf = req[r].id => cashout[c].status # "PENDING"
  PROVE  RetryInv'
  <1>1. PointOK(req[r].op, req[r].pc)
    BY DEF IndInv, RequestOK
  <1>2. req[r].op = "cashout" => req[r].id = 0
    BY DEF RetryInv
  <1>3. req[r].op = "retry" => req[r].pc = "findPending" \/ Checked(r)
    BY <1>1 DEF PointOK, Checked, EngineKinds
  <1>4. Checked(r)' => req[r].op = "retry"
    BY DEF Checked
  <1>5. QED
    BY <1>2, <1>3, <1>4, RetryFrame

LEMMA WithinRetries ==
  ASSUME IndInv, RetryInv, NEW r \in Proc,
         \/ Claim(r) \/ RepairSum(r) \/ RetryFindPending(r) \/ WalletRead(r) \/ WalletSave(r)
         \/ InsertCashout(r) \/ EngineSave(r)
  PROVE  RetryInv'
  <1>1. /\ req \in [Proc -> Request] /\ req[r] \in Request /\ UNCHANGED cashout
    BY RequestType DEF IndInv, TypeOK, Claim, RepairSum, RetryFindPending, WalletRead, WalletSave,
                       InsertCashout, EngineSave, tables
  <1>2. Finish(r) => RetryInv'
    BY <1>1, FinishKeepsRetries
  <1>3. ASSUME NEW point, Goto(r, point)
        PROVE  /\ \A s \in Proc : s # r => req'[s] = req[s]
               /\ req'[r].op = req[r].op /\ req'[r].id = req[r].id
    BY <1>1, <1>3 DEF Goto, Request
  <1>4. CASE Claim(r) \/ RepairSum(r) \/ WalletSave(r) \/ EngineSave(r)
    <2>1. req[r].pc \in {"claim", "sum", "saveWallet", "saveCashout"}
      BY <1>4 DEF Claim, RepairSum, WalletSave, EngineSave, At
    <2>2. Finish(r) \/ \E point : Goto(r, point)
      BY <1>4 DEF Claim, RepairSum, WalletSave, EngineSave
    <2>3. QED
      BY <1>1, <1>2, <1>3, <2>1, <2>2, WithinKeepsRetries
  <1>5. CASE RetryFindPending(r)
    <2>1. req[r].pc = "findPending"
      BY <1>5 DEF RetryFindPending, At
    <2>2. CASE \E c \in Id : cashout[c].retryOf = req[r].id /\ cashout[c].status = "PENDING"
      BY <1>2, <1>5, <2>2 DEF RetryFindPending
    <2>3. CASE ~\E c \in Id : cashout[c].retryOf = req[r].id /\ cashout[c].status = "PENDING"
      <3>1. Goto(r, "wallet")
        BY <1>5, <2>3 DEF RetryFindPending
      <3>2. QED
        BY <1>1, <1>3, <2>1, <2>3, <3>1, WithinKeepsRetries
    <2>4. QED
      BY <2>2, <2>3
  <1>6. CASE WalletRead(r)
    <2>1. req[r].pc = "wallet"
      BY <1>6 DEF WalletRead
    <2>2. ASSUME NEW v, req' = [req EXCEPT ![r].pc = "saveWallet", ![r].val = v]
          PROVE  RetryInv'
      <3>1. /\ \A s \in Proc : s # r => req'[s] = req[s]
            /\ req'[r].op = req[r].op /\ req'[r].id = req[r].id
        BY <1>1, <2>2 DEF Request
      <3>2. QED
        BY <1>1, <2>1, <3>1, WithinKeepsRetries
    <2>3. QED
      BY <1>2, <1>6, <2>2 DEF WalletRead
  <1>7. CASE InsertCashout(r)
    <2>1. /\ \A s \in Proc : s # r => req'[s] = req[s]
          /\ req'[r].op = req[r].op /\ req'[r].id = req[r].id /\ req[r].pc = "insert"
      BY <1>1, <1>7 DEF InsertCashout, Request
    <2>2. QED
      BY <1>1, <2>1, WithinKeepsRetries
  <1>8. QED
    BY <1>4, <1>5, <1>6, <1>7

(* The one row that becomes PENDING: if it is a retry, its request found   *)
(* no other, and no other request is past its check for the same cashout.  *)
LEMMA CreateKeepsRetries ==
  ASSUME IndInv, RetryInv, RetriesApart, NEW r \in Proc, CommitCreate(r)
  PROVE  RetryInv'
  <1> DEFINE n == req[r].new
  <1>1. /\ TypeOK /\ RequestOK(r) /\ Inserted(r) /\ Finish(r)
        /\ req[r].op \in {"cashout", "retry"} /\ req[r].pc = "commit"
    BY DEF IndInv, CommitCreate, Inserted, At, Debits
  <1>2. n \in Id /\ req[r].id \in Int
    BY <1>1, RequestType DEF RequestOK
  <1>3. /\ cashout'[n].status = "PENDING" /\ cashout'[n].retryOf = req[r].id
        /\ \A d \in Id : d # n => cashout'[d] = cashout[d]
    BY <1>1, <1>2 DEF CommitCreate, TypeOK
  <1>4. /\ req'[r].op = "none"
        /\ \A s \in Proc : s # r => req'[s] = req[s]
    BY <1>1 DEF Finish, Started, TypeOK
  <1> HIDE DEF n
  <1>5. req[r].id # 0 =>
          /\ req[r].op = "retry"
          /\ \A c \in Id : cashout[c].retryOf = req[r].id => cashout[c].status # "PENDING"
    BY <1>1 DEF RetryInv, Checked
  <1>6. OneLiveRetry'
    <2> SUFFICES ASSUME NEW c \in Id, NEW d \in Id, cashout'[c].retryOf # 0,
                        cashout'[c].retryOf = cashout'[d].retryOf,
                        cashout'[c].status = "PENDING", cashout'[d].status = "PENDING", c # d
                 PROVE  FALSE
      BY DEF OneLiveRetry
    <2>1. CASE c = n
      BY <1>3, <1>5, <2>1
    <2>2. CASE d = n
      BY <1>3, <1>5, <2>2
    <2>3. CASE c # n /\ d # n
      BY <1>3, <2>3 DEF RetryInv, OneLiveRetry
    <2>4. QED
      BY <2>1, <2>2, <2>3
  <1>7. \A s \in Proc : req'[s].op = "cashout" => req'[s].id = 0
    BY <1>4 DEF RetryInv
  <1>8. ASSUME NEW s \in Proc, Checked(s)', NEW c \in Id, cashout'[c].retryOf = req'[s].id,
               cashout'[c].status = "PENDING"
        PROVE  FALSE
    <2>1. s # r /\ req'[s] = req[s] /\ Checked(s) /\ req[s].op = "retry"
      BY <1>4, <1>8 DEF Checked
    <2>2. req[s].id \in Id
      BY <2>1 DEF IndInv, RequestOK, Kinds, RequestKinds
    <2>3. req[s].id # 0
      BY <2>2 DEF Id
    <2>4. CASE c = n
      <3>1. req[r].id = req[s].id /\ req[r].id # 0
        BY <1>3, <1>8, <2>1, <2>3, <2>4
      <3>2. Checked(r)
        BY <1>1, <1>5, <3>1 DEF Checked
      <3>3. QED
        BY <2>1, <3>1, <3>2 DEF RetriesApart
    <2>5. CASE c # n
      BY <1>3, <1>8, <2>1, <2>5 DEF RetryInv
    <2>6. QED
      BY <2>4, <2>5
  <1>9. QED
    BY <1>6, <1>7, <1>8 DEF RetryInv

(* The other steps that end a transaction make nothing PENDING.            *)
LEMMA EndKeepsRetries ==
  ASSUME IndInv, RetryInv, NEW r \in Proc,
         CompleteSave(r) \/ CommitRefund(r) \/ CommitRepair(r) \/ CommitPaid(r) \/ Rollback(r)
  PROVE  RetryInv'
  <1>1. cashout \in [Id -> CashoutRow]
    BY DEF IndInv, TypeOK
  <1>2. ASSUME NEW c, NEW st \in {"COMPLETED", "FAILED"}, cashout' = [cashout EXCEPT ![c].status = st]
        PROVE  \A d \in Id : cashout'[d].status = "PENDING" => cashout'[d] = cashout[d]
    <2> TAKE d \in Id
    <2>1. CASE c = d
      BY <1>1, <1>2, <2>1 DEF CashoutRow
    <2>2. CASE c # d
      BY <1>1, <1>2, <2>2
    <2>3. QED
      BY <2>1, <2>2
  <1>3. \A d \in Id : cashout'[d].status = "PENDING" => cashout'[d] = cashout[d]
    <2>1. \/ UNCHANGED cashout
          \/ \E c, st \in {"COMPLETED", "FAILED"} : cashout' = [cashout EXCEPT ![c].status = st]
          \/ \E c : cashout' = [cashout EXCEPT ![c].status = "COMPLETED"]
          \/ \E c : cashout' = [cashout EXCEPT ![c].status = "FAILED"]
      BY DEF CompleteSave, CommitRefund, CommitRepair, CommitPaid, Rollback, tables
    <2>2. QED
      BY <1>1, <1>2, <2>1
  <1>4. CASE Rollback(r)
    BY <1>3, <1>4, NewKeepsRetries DEF Rollback, NoRequest, Started
  <1>5. CASE CompleteSave(r) \/ CommitRefund(r) \/ CommitRepair(r) \/ CommitPaid(r)
    BY <1>3, <1>5, FinishKeepsRetries DEF CompleteSave, CommitRefund, CommitRepair, CommitPaid
  <1>6. QED
    BY <1>4, <1>5

LEMMA NextRetry == IndInv /\ RetryInv /\ RetriesApart /\ [Next]_vars => RetryInv'
  <1> SUFFICES ASSUME IndInv, RetryInv, RetriesApart, [Next]_vars PROVE RetryInv'
    OBVIOUS
  <1>1. ASSUME NEW r \in Proc, Statement(r)
        PROVE  RetryInv'
    <2>1. ASSUME \/ CompleteRead(r) \/ FailRead(r) \/ CancelRead(r) \/ RepairRead(r) \/ RetryRead(r)
                 \/ EngineFailRead(r) \/ EngineCompleteRead(r)
          PROVE  RetryInv'
      <3> USE DEF Kinds, RequestKinds, EngineKinds
      <3>1. QED
        BY <2>1, ReadKeepsRetries
        DEF CompleteRead, FailRead, CancelRead, RepairRead, RetryRead, EngineFailRead, EngineCompleteRead
    <2>2. QED
      BY <1>1, <2>1, WithinRetries, CreateKeepsRetries, EndKeepsRetries DEF Statement
  <1>2. ASSUME NEW r \in Req, NEW a \in Amounts, BeginCashout(r, a)
        PROVE  RetryInv'
    BY <1>2, NewKeepsRetries DEF BeginCashout, Started, tables, Proc
  <1>3. ASSUME NEW r \in Req, NEW kind \in RequestKinds, NEW c \in Id, Begin(r, kind, c)
        PROVE  RetryInv'
    BY <1>3, NewKeepsRetries DEF Begin, Started, tables, Proc
  <1>4. ASSUME NEW t \in Tick, TickStart(t) \/ TickNext(t) \/ TickEnd(t)
        PROVE  RetryInv'
    <2>1. t \in Proc /\ TypeOK /\ UNCHANGED cashout
      BY <1>4 DEF Proc, IndInv, TickStart, TickNext, TickEnd, tables
    <2>2. CASE TickStart(t)
      <3>1. req[t].op = "none"
        BY <2>1, <2>2 DEF TickStart, IndInv, RequestOK, PointOK
      <3>2. req[t] \in Request
        BY <2>1, RequestType
      <3> DEFINE new == [req[t] EXCEPT !.pc = "tick"]
      <3>3. req' = [req EXCEPT ![t] = new] /\ new.op = "none"
        BY <2>1, <2>2, <3>1, <3>2 DEF TickStart, TypeOK, Request
      <3> HIDE DEF new
      <3>4. QED
        BY <2>1, <3>3, NewKeepsRetries
    <2>3. CASE TickNext(t)
      BY <2>1, <2>3, NewKeepsRetries DEF TickNext, Started, EngineKinds
    <2>4. CASE TickEnd(t)
      BY <2>1, <2>4, NewKeepsRetries DEF TickEnd, NoRequest, Started
    <2>5. QED
      BY <1>4, <2>2, <2>3, <2>4
  <1>5. CASE UNCHANGED vars
    BY <1>5 DEF vars, tables, RetryInv, OneLiveRetry, Checked
  <1>6. QED
    BY <1>1, <1>2, <1>3, <1>4, <1>5, EndKeepsRetries DEF Next

LEMMA InitRetry == Init => RetryInv
  BY CashoutAssumption DEF Init, RetryInv, OneLiveRetry, Checked, NoRow, NoRequest, Started

-----------------------------------------------------------------------------
(* The mock engine settling cashouts that nothing else settles meanwhile.  *)

Settling(t) == req[t].op \in EngineKinds /\ req[t].pc # "read"

(* A step of r: what the others have claimed or read to be PENDING stays   *)
(* PENDING and locked, and r has what it needs to be among them.           *)
LEMMA SettleFrame ==
  ASSUME IndInv, SettleInv, NEW r \in Proc,
         \A s \in Proc : s # r => req'[s] = req[s],
         \A s \in Proc, c \in Id : s # r /\ cashoutLock[c] = s => cashoutLock'[c] = s,
         \A s \in Proc : s # r /\ (HasClaim(s) \/ Settling(s)) =>
                           cashout'[req[s].id].status = "PENDING",
         HasClaim(r)' => cashoutLock'[req'[r].id] = r /\ Row(r)'.status = "PENDING",
         Settling(r)' => Row(r)'.status = "PENDING",
         req'[r].op \in Ops \cup EngineKinds \cup {"none"},
         SettledBalances'
  PROVE  SettleInv'
  <1>1. ASSUME NEW s \in Proc, s # r
        PROVE  /\ HasClaim(s)' => cashoutLock'[req'[s].id] = s /\ Row(s)'.status = "PENDING"
               /\ Settling(s)' => Row(s)'.status = "PENDING"
               /\ req'[s].op \in Ops \cup EngineKinds \cup {"none"}
    <2>1. req'[s] = req[s] /\ (HasClaim(s)' <=> HasClaim(s)) /\ (Settling(s)' <=> Settling(s))
      BY <1>1 DEF HasClaim, Settling
    <2>2. HasClaim(s) => req[s].id \in Id /\ cashoutLock[req[s].id] = s
      BY DEF SettleInv, IndInv, RequestOK, HasClaim, Kinds, RequestKinds
    <2>3. QED
      BY <1>1, <2>1, <2>2 DEF SettleInv, Row
  <1>2. \A s \in Proc :
          /\ HasClaim(s)' => cashoutLock'[req'[s].id] = s /\ Row(s)'.status = "PENDING"
          /\ Settling(s)' => Row(s)'.status = "PENDING"
          /\ req'[s].op \in Ops \cup EngineKinds \cup {"none"}
    BY <1>1
  <1>3. QED
    BY <1>2 DEF SettleInv, Settling

(* A step of r that writes neither table.                                  *)
LEMMA QuietSettle ==
  ASSUME IndInv, SettleInv, NEW r \in Proc, UNCHANGED <<cashout, ledger>>,
         \A s \in Proc : s # r => req'[s] = req[s],
         \A s \in Proc, c \in Id : s # r /\ cashoutLock[c] = s => cashoutLock'[c] = s,
         HasClaim(r)' => cashoutLock'[req'[r].id] = r /\ Row(r)'.status = "PENDING",
         Settling(r)' => Row(r)'.status = "PENDING",
         req'[r].op \in Ops \cup EngineKinds \cup {"none"}
  PROVE  SettleInv'
  <1>1. SettledBalances'
    BY DEF SettleInv, SettledBalances, Net
  <1>2. \A s \in Proc : s # r /\ (HasClaim(s) \/ Settling(s)) =>
                           cashout'[req[s].id].status = "PENDING"
    BY DEF SettleInv, Row, Settling
  <1>3. QED
    BY <1>1, <1>2, SettleFrame

LEMMA NewSettle ==
  ASSUME IndInv, SettleInv, NEW r \in Proc, NEW new, req' = [req EXCEPT ![r] = new],
         UNCHANGED <<cashout, ledger>>, UNCHANGED cashoutLock \/ Release(r),
         new.op \in Ops \cup EngineKinds \cup {"none"},
         new.op = "none" \/ new.pc = "read" \/ new.op = "cashout"
  PROVE  SettleInv'
  <1>1. TypeOK /\ req'[r] = new /\ \A s \in Proc : s # r => req'[s] = req[s]
    BY DEF IndInv, TypeOK
  <1>2. ~HasClaim(r)' /\ ~Settling(r)'
    BY <1>1 DEF HasClaim, Settling, EngineKinds
  <1>3. \A s \in Proc, c \in Id : s # r /\ cashoutLock[c] = s => cashoutLock'[c] = s
    BY DEF Release
  <1>4. QED
    BY <1>1, <1>2, <1>3, QuietSettle

LEMMA FinishSettle ==
  ASSUME IndInv, SettleInv, NEW r \in Proc, Finish(r), UNCHANGED <<cashout, ledger, cashoutLock>>
  PROVE  SettleInv'
  <1> DEFINE new == Started("none", IF r \in Tick THEN "tick" ELSE "idle", 0, 0)
  <1>1. req' = [req EXCEPT ![r] = new] /\ new.op = "none"
    BY DEF Finish, Started
  <1> HIDE DEF new
  <1>2. QED
    BY <1>1, NewSettle

(* The first statement: the engine goes on only with a PENDING row, the    *)
(* others have no claim yet.                                               *)
LEMMA ReadSettle ==
  ASSUME IndInv, SettleInv, NEW r \in Proc, NEW kind \in Kinds \ {"cashout"}, NEW ok, NEW next,
         kind \in EngineKinds => ok = {"PENDING"},
         kind \in {"fail", "cancel"} => next = "claim",
         ReadCashout(r, kind, ok, next)
  PROVE  SettleInv'
  <1>1. /\ req \in [Proc -> Request] /\ req[r] \in Request /\ req[r].op = kind
        /\ UNCHANGED <<cashout, ledger, cashoutLock>>
    BY RequestType DEF IndInv, TypeOK, ReadCashout, At, tables, locks
  <1>2. CASE Finish(r)
    BY <1>1, <1>2, FinishSettle
  <1>3. CASE Row(r).status \in ok /\ req' = [req EXCEPT ![r].pc = next, ![r].amt = Row(r).amt]
    <2>1. /\ \A s \in Proc : s # r => req'[s] = req[s]
          /\ req'[r].op = kind /\ req'[r].pc = next /\ req'[r].id = req[r].id
      BY <1>1, <1>3 DEF Request
    <2>2. Row(r)' = Row(r)
      BY <1>1, <2>1 DEF Row
    <2>3. ~HasClaim(r)'
      BY <2>1 DEF HasClaim
    <2>4. Settling(r)' => Row(r)'.status = "PENDING"
      BY <1>3, <2>1, <2>2 DEF Settling
    <2>5. req'[r].op \in Ops \cup EngineKinds \cup {"none"}
      BY <1>1, <2>1 DEF SettleInv
    <2>6. QED
      BY <1>1, <2>1, <2>3, <2>4, <2>5, QuietSettle
  <1>4. QED
    BY <1>2, <1>3 DEF ReadCashout

(* The claim: the row is PENDING and its lock was free.                    *)
LEMMA ClaimSettle ==
  ASSUME IndInv, SettleInv, NEW r \in Proc, Claim(r)
  PROVE  SettleInv'
  <1>1. /\ TypeOK /\ RequestOK(r) /\ UNCHANGED <<cashout, ledger>>
        /\ req[r].op \in {"fail", "cancel"} /\ req[r].pc = "claim"
    BY DEF IndInv, Claim, At, tables
  <1>2. req[r].id \in Id
    BY <1>1 DEF RequestOK, Kinds, RequestKinds
  <1>3. CASE Row(r).status = "PENDING" /\ cashoutLock[req[r].id] = Nobody /\ Goto(r, "wallet")
             /\ cashoutLock' = [cashoutLock EXCEPT ![req[r].id] = r]
    <2>1. /\ \A s \in Proc : s # r => req'[s] = req[s]
          /\ req'[r].op = req[r].op /\ req'[r].id = req[r].id
      BY <1>1, <1>3, GotoStep DEF Points
    <2>2. \A s \in Proc, c \in Id : s # r /\ cashoutLock[c] = s => cashoutLock'[c] = s
      BY <1>1, <1>2, <1>3, CashoutAssumption DEF TypeOK
    <2>3. cashoutLock'[req'[r].id] = r /\ Row(r)'.status = "PENDING"
      BY <1>1, <1>2, <1>3, <2>1 DEF TypeOK, Row
    <2>4. req'[r].op \in Ops \cup EngineKinds \cup {"none"}
      BY <2>1 DEF SettleInv
    <2>5. QED
      BY <1>1, <2>1, <2>2, <2>3, <2>4, QuietSettle
  <1>4. CASE Finish(r) /\ UNCHANGED cashoutLock
    BY <1>1, <1>4, FinishSettle
  <1>5. QED
    BY <1>3, <1>4 DEF Claim

(* A statement between the claim or the read and the commit.               *)
LEMMA WithinSettle ==
  ASSUME IndInv, SettleInv, NEW r \in Proc, UNCHANGED <<cashout, ledger>>,
         \A s \in Proc : s # r => req'[s] = req[s],
         req'[r].op = req[r].op, req'[r].id = req[r].id,
         req[r].pc \in {"sum", "findPending", "wallet", "saveWallet", "insert", "saveCashout"},
         \A s \in Proc, c \in Id : cashoutLock[c] = s => cashoutLock'[c] = s
  PROVE  SettleInv'
  <1>1. PointOK(req[r].op, req[r].pc) /\ Row(r)' = Row(r)
    BY DEF IndInv, RequestOK, Row
  <1>2. HasClaim(r)' => HasClaim(r) /\ req[r].id \in Id
    BY <1>1 DEF HasClaim, PointOK, Debits, EngineKinds, IndInv, RequestOK, Kinds, RequestKinds
  <1>3. Settling(r)' => Settling(r)
    BY <1>1 DEF Settling
  <1>4. HasClaim(r)' => cashoutLock'[req'[r].id] = r /\ Row(r)'.status = "PENDING"
    BY <1>1, <1>2 DEF SettleInv
  <1>5. Settling(r)' => Row(r)'.status = "PENDING"
    BY <1>1, <1>3 DEF SettleInv, Settling
  <1>6. req'[r].op \in Ops \cup EngineKinds \cup {"none"}
    BY DEF SettleInv
  <1>7. QED
    BY <1>4, <1>5, <1>6, QuietSettle

LEMMA WithinStatementsSettle ==
  ASSUME IndInv, SettleInv, NEW r \in Proc,
         \/ RepairSum(r) \/ RetryFindPending(r) \/ WalletRead(r) \/ WalletSave(r)
         \/ InsertCashout(r) \/ EngineSave(r)
  PROVE  SettleInv'
  <1>1. /\ req \in [Proc -> Request] /\ req[r] \in Request /\ TypeOK
        /\ UNCHANGED <<cashout, ledger>>
    BY RequestType DEF IndInv, TypeOK, RepairSum, RetryFindPending, WalletRead, WalletSave,
                       InsertCashout, EngineSave, tables
  <1>2. ASSUME NEW point, Goto(r, point)
        PROVE  /\ \A s \in Proc : s # r => req'[s] = req[s]
               /\ req'[r].op = req[r].op /\ req'[r].id = req[r].id
    BY <1>1, <1>2 DEF Goto, Request
  <1>3. CASE RepairSum(r) \/ RetryFindPending(r)
    <2>1. req[r].pc \in {"sum", "findPending"} /\ UNCHANGED cashoutLock
      BY <1>3 DEF RepairSum, RetryFindPending, At, locks
    <2>2. Finish(r) \/ Goto(r, "wallet")
      BY <1>3 DEF RepairSum, RetryFindPending
    <2>3. QED
      BY <1>1, <1>2, <2>1, <2>2, WithinSettle, FinishSettle
  <1>4. CASE WalletSave(r)
    <2>1. req[r].pc = "saveWallet" /\ UNCHANGED cashoutLock /\ Goto(r, AfterWalletSave(req[r].op))
      BY <1>4 DEF WalletSave
    <2>2. QED
      BY <1>1, <1>2, <2>1, WithinSettle
  <1>5. CASE WalletRead(r)
    <2>1. req[r].pc = "wallet" /\ UNCHANGED cashoutLock
      BY <1>5 DEF WalletRead, locks
    <2>2. ASSUME NEW v, req' = [req EXCEPT ![r].pc = "saveWallet", ![r].val = v]
          PROVE  SettleInv'
      <3>1. /\ \A s \in Proc : s # r => req'[s] = req[s]
            /\ req'[r].op = req[r].op /\ req'[r].id = req[r].id
        BY <1>1, <2>2 DEF Request
      <3>2. QED
        BY <1>1, <2>1, <3>1, WithinSettle
    <2>3. QED
      BY <1>1, <1>5, <2>1, <2>2, FinishSettle DEF WalletRead
  <1>6. CASE InsertCashout(r)
    <2>1. /\ \A s \in Proc : s # r => req'[s] = req[s]
          /\ req'[r].op = req[r].op /\ req'[r].id = req[r].id /\ req[r].pc = "insert"
          /\ UNCHANGED cashoutLock
      BY <1>1, <1>6 DEF InsertCashout, Request, locks
    <2>2. QED
      BY <1>1, <2>1, WithinSettle
  <1>7. CASE EngineSave(r)
    <2>1. req[r].pc = "saveCashout" /\ Goto(r, "commit") /\ req[r].op \in EngineKinds
      BY <1>7 DEF EngineSave
    <2>2. req[r].id \in Id
      BY <2>1 DEF IndInv, RequestOK, Kinds, EngineKinds
    <2>3. \A s \in Proc, c \in Id : cashoutLock[c] = s => cashoutLock'[c] = s
      BY <1>1, <1>7, <2>2, CashoutAssumption DEF EngineSave, TypeOK
    <2>4. QED
      BY <1>1, <1>2, <2>1, <2>3, WithinSettle
  <1>8. QED
    BY <1>3, <1>4, <1>5, <1>6, <1>7

(* Who settles a PENDING cashout settles it alone.                         *)
LEMMA SettlesAlone ==
  ASSUME IndInv, SettleInv, EngineApart, NEW r \in Proc, NEW s \in Proc,
         HasClaim(r) \/ Settling(r), HasClaim(s) \/ Settling(s), req[r].id = req[s].id
  PROVE  r = s
  <1>1. CASE HasClaim(r) /\ HasClaim(s)
    BY <1>1 DEF SettleInv
  <1>2. CASE Settling(r)
    BY <1>2 DEF EngineApart, Settling, HasClaim, EngineKinds, Debits
  <1>3. CASE Settling(s)
    BY <1>3 DEF EngineApart, Settling, HasClaim, EngineKinds, Debits
  <1>4. QED
    BY <1>1, <1>2, <1>3

(* The commit that settles a cashout: its one debit row gets the row that  *)
(* balances it.                                                            *)
LEMMA SettleCommit ==
  ASSUME IndInv, SettleInv, EngineApart, NEW r \in Proc, HasClaim(r) \/ Settling(r),
         Finish(r), Release(r), NEW st \in {"FAILED", "COMPLETED"}, NEW kind \in {"refund", "paid"},
         cashout' = [cashout EXCEPT ![req[r].id].status = st], AddRow(req[r].id, kind)
  PROVE  SettleInv'
  <1> DEFINE n == req[r].id
  <1>1. TypeOK /\ n \in Id /\ cashout[n].status = "PENDING"
    <2>1. req[r].op \in Kinds \ {"cashout"}
      BY DEF HasClaim, Settling, Kinds, RequestKinds, EngineKinds
    <2>2. QED
      BY <2>1 DEF IndInv, RequestOK, SettleInv, Settling, Row
  <1>2. /\ cashout' \in [Id -> CashoutRow] /\ cashout'[n].status = st
        /\ \A d \in Id : d # n => cashout'[d] = cashout[d]
    BY <1>1, SetStatus DEF Statuses
  <1>3. ledger[n] = DebitOnly
    BY <1>1 DEF IndInv, PendingIsDebitOnly
  <1>4. /\ ledger'[n].refund + ledger'[n].paid - ledger'[n].debit = 0
        /\ \A d \in Id : d # n => ledger'[d] = ledger[d]
    <2>1. /\ \A d \in Id : d # n => ledger'[d] = ledger[d]
          /\ ledger'[n].debit = 1
          /\ ledger'[n].refund = IF kind = "refund" THEN 1 ELSE 0
          /\ ledger'[n].paid = IF kind = "paid" THEN 1 ELSE 0
      BY <1>1, <1>3, AddRowStep DEF DebitOnly
    <2>2. QED
      BY <2>1
  <1>5. /\ req'[r].op = "none" /\ \A s \in Proc : s # r => req'[s] = req[s]
        /\ \A s \in Proc, c \in Id : s # r /\ cashoutLock[c] = s => cashoutLock'[c] = s
    BY <1>1, ReleaseStep DEF Finish, Started, TypeOK
  <1>6. ASSUME NEW s \in Proc, s # r, HasClaim(s) \/ Settling(s)
        PROVE  cashout'[req[s].id].status = "PENDING"
    <2>1. req[s].id # n
      BY <1>6, SettlesAlone
    <2>2. cashout[req[s].id].status = "PENDING"
      BY <1>6 DEF SettleInv, Settling, Row
    <2>3. req[s].id \in Id
      BY <1>6 DEF HasClaim, Settling, IndInv, RequestOK, Kinds, RequestKinds, EngineKinds
    <2>4. QED
      BY <1>2, <2>1, <2>2, <2>3
  <1> HIDE DEF n
  <1>7. SettledBalances'
    <2> SUFFICES ASSUME NEW c \in Id \ Legacy, cashout'[c].status \in {"FAILED", "COMPLETED"}
                 PROVE  ledger'[c].refund + ledger'[c].paid - ledger'[c].debit = 0
      BY DEF SettledBalances, Net
    <2>1. CASE c = n
      BY <1>4, <2>1
    <2>2. CASE c # n
      BY <1>2, <1>4, <2>2 DEF SettleInv, SettledBalances, Net
    <2>3. QED
      BY <2>1, <2>2
  <1>8. ~HasClaim(r)' /\ ~Settling(r)'
    BY <1>5 DEF HasClaim, Settling, EngineKinds
  <1>9. QED
    BY <1>5, <1>6, <1>7, <1>8, SettleFrame

LEMMA RefundSettle ==
  ASSUME IndInv, SettleInv, EngineApart, NEW r \in Proc, CommitRefund(r) \/ CommitPaid(r)
  PROVE  SettleInv'
  <1>1. HasClaim(r) \/ Settling(r)
    BY DEF CommitRefund, CommitPaid, At, HasClaim, Settling, EngineKinds
  <1>2. CASE CommitRefund(r)
    BY <1>1, <1>2, SettleCommit DEF CommitRefund
  <1>3. CASE CommitPaid(r)
    <2>1. Row(r).status = "PENDING"
      BY <1>3 DEF CommitPaid, At, SettleInv, EngineKinds
    <2>2. cashoutLock[req[r].id] = r
      BY <1>3, <2>1 DEF CommitPaid, IndInv, RequestOK
    <2>3. cashout' = [cashout EXCEPT ![req[r].id].status = "COMPLETED"]
      BY <1>3, <2>2 DEF CommitPaid
    <2>4. QED
      BY <1>1, <1>3, <2>3, SettleCommit DEF CommitPaid
  <1>4. QED
    BY <1>2, <1>3

(* A repair writes a row for an old cashout only.                          *)
LEMMA RepairSettle ==
  ASSUME IndInv, SettleInv, NEW r \in Proc, CommitRepair(r)
  PROVE  SettleInv'
  <1>1. /\ TypeOK /\ req[r].id \in Legacy /\ req[r].id \in Id
    BY DEF IndInv, CommitRepair, At, RequestOK, Kinds, RequestKinds
  <1>2. cashout' = cashout /\ \A d \in Id \ Legacy : ledger'[d] = ledger[d]
    BY <1>1, AddRowStep DEF CommitRepair
  <1>3. /\ req'[r].op = "none" /\ \A s \in Proc : s # r => req'[s] = req[s]
        /\ \A s \in Proc, c \in Id : s # r /\ cashoutLock[c] = s => cashoutLock'[c] = s
    BY <1>1, ReleaseStep DEF CommitRepair, Finish, Started, TypeOK
  <1>4. SettledBalances'
    BY <1>2 DEF SettleInv, SettledBalances, Net
  <1>5. \A s \in Proc : s # r /\ (HasClaim(s) \/ Settling(s)) =>
                           cashout'[req[s].id].status = "PENDING"
    BY <1>2 DEF SettleInv, Row, Settling
  <1>6. ~HasClaim(r)' /\ ~Settling(r)'
    BY <1>3 DEF HasClaim, Settling, EngineKinds
  <1>7. QED
    BY <1>3, <1>4, <1>5, <1>6, SettleFrame

LEMMA CreateSettle ==
  ASSUME IndInv, SettleInv, NEW r \in Proc, CommitCreate(r)
  PROVE  SettleInv'
  <1> DEFINE n == req[r].new
  <1>1. TypeOK /\ n \in Id /\ cashout[n].status = "NONE"
    BY DEF IndInv, CommitCreate, Inserted, RequestOK
  <1>2. /\ cashout'[n].status = "PENDING"
        /\ \A d \in Id : d # n => cashout'[d] = cashout[d]
    BY <1>1 DEF CommitCreate, TypeOK
  <1>3. \A d \in Id : d # n => ledger'[d] = ledger[d]
    BY <1>1, AddRowStep DEF CommitCreate
  <1>4. /\ req'[r].op = "none" /\ \A s \in Proc : s # r => req'[s] = req[s]
        /\ \A s \in Proc, c \in Id : s # r /\ cashoutLock[c] = s => cashoutLock'[c] = s
    BY <1>1, ReleaseStep DEF CommitCreate, Finish, Started, TypeOK
  <1>5. ASSUME NEW s \in Proc, s # r, HasClaim(s) \/ Settling(s)
        PROVE  cashout'[req[s].id].status = "PENDING"
    <2>1. cashout[req[s].id].status = "PENDING"
      BY <1>5 DEF SettleInv, Settling, Row
    <2>2. req[s].id \in Id
      BY <1>5 DEF HasClaim, Settling, IndInv, RequestOK, Kinds, RequestKinds, EngineKinds
    <2>3. QED
      BY <1>1, <1>2, <2>1, <2>2
  <1> HIDE DEF n
  <1>6. SettledBalances'
    <2> SUFFICES ASSUME NEW c \in Id \ Legacy, cashout'[c].status \in {"FAILED", "COMPLETED"}
                 PROVE  ledger'[c].refund + ledger'[c].paid - ledger'[c].debit = 0
      BY DEF SettledBalances, Net
    <2>1. c # n
      BY <1>2
    <2>2. QED
      BY <1>2, <1>3, <2>1 DEF SettleInv, SettledBalances, Net
  <1>7. ~HasClaim(r)' /\ ~Settling(r)'
    BY <1>4 DEF HasClaim, Settling, EngineKinds
  <1>8. QED
    BY <1>4, <1>5, <1>6, <1>7, SettleFrame

(* adminCompleteCashout writes no ledger row: it is not among the requests.*)
NoAdminComplete == "complete" \notin Ops

LEMMA NextSettle ==
  ASSUME NoAdminComplete
  PROVE  IndInv /\ SettleInv /\ EngineApart /\ [Next]_vars => SettleInv'
  <1> SUFFICES ASSUME IndInv, SettleInv, EngineApart, [Next]_vars PROVE SettleInv'
    OBVIOUS
  <1>1. ASSUME NEW r \in Proc, Statement(r)
        PROVE  SettleInv'
    <2>1. ASSUME \/ CompleteRead(r) \/ FailRead(r) \/ CancelRead(r) \/ RepairRead(r) \/ RetryRead(r)
                 \/ EngineFailRead(r) \/ EngineCompleteRead(r)
          PROVE  SettleInv'
      <3> USE DEF Kinds, RequestKinds, EngineKinds
      <3>1. QED
        BY <2>1, ReadSettle
        DEF CompleteRead, FailRead, CancelRead, RepairRead, RetryRead, EngineFailRead, EngineCompleteRead
    <2>2. ~CompleteSave(r)
      BY DEF CompleteSave, At, SettleInv, NoAdminComplete, EngineKinds
    <2>3. QED
      BY <1>1, <2>1, <2>2, ClaimSettle, WithinStatementsSettle, CreateSettle, RefundSettle, RepairSettle
      DEF Statement
  <1>2. ASSUME NEW r \in Req, NEW a \in Amounts, BeginCashout(r, a)
        PROVE  SettleInv'
    BY <1>2, NewSettle DEF BeginCashout, Started, tables, locks, Proc
  <1>3. ASSUME NEW r \in Req, NEW kind \in RequestKinds, NEW c \in Id, Begin(r, kind, c)
        PROVE  SettleInv'
    BY <1>3, NewSettle DEF Begin, Started, tables, locks, Proc
  <1>4. ASSUME NEW r \in Proc, Rollback(r)
        PROVE  SettleInv'
    BY <1>4, NewSettle DEF Rollback, NoRequest, Started, tables
  <1>5. ASSUME NEW t \in Tick, TickStart(t) \/ TickNext(t) \/ TickEnd(t)
        PROVE  SettleInv'
    <2>1. t \in Proc /\ TypeOK /\ UNCHANGED <<cashout, ledger, cashoutLock>>
      BY <1>5 DEF Proc, IndInv, TickStart, TickNext, TickEnd, tables, locks
    <2>2. CASE TickStart(t)
      <3>1. req[t].op = "none"
        BY <2>1, <2>2 DEF TickStart, IndInv, RequestOK, PointOK
      <3>2. req[t] \in Request
        BY <2>1, RequestType
      <3> DEFINE new == [req[t] EXCEPT !.pc = "tick"]
      <3>3. req' = [req EXCEPT ![t] = new] /\ new.op = "none"
        BY <2>1, <2>2, <3>1, <3>2 DEF TickStart, TypeOK, Request
      <3> HIDE DEF new
      <3>4. QED
        BY <2>1, <3>3, NewSettle
    <2>3. CASE TickNext(t)
      BY <2>1, <2>3, NewSettle DEF TickNext, Started
    <2>4. CASE TickEnd(t)
      BY <2>1, <2>4, NewSettle DEF TickEnd, NoRequest, Started
    <2>5. QED
      BY <1>5, <2>2, <2>3, <2>4
  <1>6. CASE UNCHANGED vars
    <2>1. UNCHANGED <<cashout, ledger, req, cashoutLock>>
      BY <1>6 DEF vars, tables, locks
    <2>2. QED
      BY <2>1 DEF SettleInv, SettledBalances, Net, HasClaim, Row
  <1>7. QED
    BY <1>1, <1>2, <1>3, <1>4, <1>5, <1>6 DEF Next

LEMMA InitSettle == Init => SettleInv
  <1> SUFFICES ASSUME Init PROVE SettleInv
    OBVIOUS
  <1>1. \A r \in Proc : req[r].op = "none"
    BY DEF Init, NoRequest, Started
  <1>2. \A c \in Id \ Legacy : cashout[c].status = "NONE"
    BY DEF Init, NoRow
  <1>3. QED
    BY <1>1, <1>2 DEF SettleInv, SettledBalances, HasClaim, EngineKinds

(* FV-10 and FV-11 together: a cashout that fail, cancel, repair and the   *)
(* mock engine settle, the engine never while another is at the same row,  *)
(* ends with ledger rows that add up to zero.  adminComplete, which        *)
(* writes no row, and two that settle the same row are what breaks it.     *)
THEOREM SettledApart ==
  ASSUME NoAdminComplete
  PROVE  Spec /\ []EngineApart => []SettledBalances
  <1>1. SettleInv => SettledBalances
    BY DEF SettleInv
  <1>2. QED
    BY <1>1, InitSettle, NextSettle, Inductive, PTL DEF Spec

(* With one timer, and clients that only ask for cashouts and retry them,  *)
(* nothing has to be kept apart: the engine balances all it settles.       *)
OneTimer == Ops \subseteq Debits /\ \A s, t \in Tick : s = t

THEOREM TimerBalances ==
  ASSUME OneTimer
  PROVE  Spec => []SettledBalances
  <1>1. NoAdminComplete
    BY DEF OneTimer, NoAdminComplete, Debits
  <1> DEFINE Asked == \A r \in Proc : req[r].op \in Ops \cup EngineKinds \cup {"none"}
  <1>2. IndInv /\ Asked => EngineApart
    BY DEF IndInv, RequestOK, EngineApart, OneTimer, Proc, EngineKinds, Debits
  <1>3. SettleInv => Asked /\ SettledBalances
    BY DEF SettleInv
  <1> HIDE DEF Asked
  <1>4. IndInv /\ SettleInv /\ [Next]_vars => SettleInv'
    BY <1>1, <1>2, <1>3, NextSettle
  <1>5. QED
    BY <1>3, <1>4, InitSettle, Inductive, PTL DEF Spec

-----------------------------------------------------------------------------
(* What holds when the mock engine is off (MOCK_CASHOUT_ENGINE is not      *)
(* "true", so no tick runs): the conditional UPDATE of adminFailCashout    *)
(* and cancelCashout is a claim, and what follows from it.                 *)

(* Which transaction has the row lock of each cashout, and who has a claim,*)
(* after a step of r.                                                      *)
LEMMA ClaimFrame ==
  ASSUME ClaimInv, NEW r \in Proc,
         \A s \in Proc : s # r => req'[s] = req[s],
         \A s \in Proc, c \in Id : s # r => (cashoutLock'[c] = s <=> cashoutLock[c] = s),
         \A s \in Proc, c \in Id :
           s # r /\ cashoutLock[c] = s => cashout'[c].status = cashout[c].status,
         HasClaim(r)' => cashoutLock'[req'[r].id] = r /\ Row(r)'.status = "PENDING",
         \A c \in Id : cashoutLock'[c] = r => HasClaim(r)' /\ req'[r].id = c
  PROVE  ClaimsOK'
  <1>1. ASSUME NEW s \in Proc, s # r
        PROVE  /\ \A c \in Id : cashoutLock'[c] = s => HasClaim(s)' /\ req'[s].id = c
               /\ HasClaim(s)' => cashoutLock'[req'[s].id] = s /\ Row(s)'.status = "PENDING"
    <2>1. req'[s] = req[s] /\ (HasClaim(s)' <=> HasClaim(s))
      BY <1>1 DEF HasClaim
    <2>2. \A c \in Id : cashoutLock'[c] = s => HasClaim(s)' /\ req'[s].id = c
      BY <1>1, <2>1 DEF ClaimInv, ClaimsOK
    <2>3. HasClaim(s) => req[s].id \in Id
      BY DEF ClaimInv, IndInv, RequestOK, HasClaim, Kinds, RequestKinds
    <2>4. HasClaim(s) => cashoutLock[req[s].id] = s /\ cashout[req[s].id].status = "PENDING"
      BY DEF ClaimInv, ClaimsOK, Row
    <2>5. HasClaim(s) => cashoutLock'[req[s].id] = s /\ cashout'[req[s].id].status = "PENDING"
      BY <1>1, <2>3, <2>4
    <2>6. QED
      BY <2>1, <2>2, <2>5 DEF Row
  <1>2. QED
    BY <1>1 DEF ClaimsOK

(* Without ticks no request is of an engine kind.                          *)
LEMMA NoEngine ==
  ASSUME Tick = {}, IndInv, NEW r \in Proc
  PROVE  r \in Req /\ req[r].op \notin EngineKinds
  BY DEF Proc, IndInv, RequestOK

(* A locked row is PENDING and claimed by the lock's holder.               *)
LEMMA LockedIsPending ==
  ASSUME ClaimInv, NEW s \in Proc, NEW c \in Id, cashoutLock[c] = s
  PROVE  cashout[c].status = "PENDING" /\ HasClaim(s) /\ req[s].id = c
  BY DEF ClaimInv, ClaimsOK, Row

(* A step of r that neither had nor gets a claim.                          *)
LEMMA PlainStep ==
  ASSUME ClaimInv, NEW r \in Proc, ~HasClaim(r), ~HasClaim(r)',
         \A s \in Proc : s # r => req'[s] = req[s],
         UNCHANGED cashoutLock \/ Release(r),
         \A c \in Id : cashout[c].status = "PENDING" => 
                         cashoutLock[c] = Nobody \/ cashout'[c].status = "PENDING"
  PROVE  ClaimsOK'
  <1>1. \A s \in Proc, c \in Id : cashoutLock[c] = s => cashout[c].status = "PENDING" /\ s # r /\ s # Nobody
    BY LockedIsPending, CashoutAssumption
  <1>2. \A c \in Id : cashoutLock'[c] = cashoutLock[c]
    BY <1>1 DEF Release
  <1>3. \A s \in Proc, c \in Id : s # r => (cashoutLock'[c] = s <=> cashoutLock[c] = s)
    BY <1>2
  <1>4. \A s \in Proc, c \in Id :
           s # r /\ cashoutLock[c] = s => cashout'[c].status = cashout[c].status
    BY <1>1
  <1>5. \A c \in Id : cashoutLock'[c] # r
    BY <1>1, <1>2
  <1>6. QED
    BY <1>3, <1>4, <1>5, ClaimFrame

LEMMA BeginClaims ==
  ASSUME ClaimInv, NEW r \in Proc, NEW new \in Request, req' = [req EXCEPT ![r] = new],
         req[r].pc = "idle", new.pc \in {"read"} \/ new.op = "cashout", UNCHANGED <<tables, locks>>
  PROVE  ClaimsOK'
  <1>1. req'[r] = new /\ \A s \in Proc : s # r => req'[s] = req[s]
    BY DEF ClaimInv, IndInv, TypeOK
  <1>2. ~HasClaim(r) /\ ~HasClaim(r)'
    BY <1>1 DEF HasClaim
  <1>3. QED
    BY <1>1, <1>2, PlainStep DEF tables, locks

(* A request that ends without writing had no claim, unless it rolls back. *)
LEMMA FinishClaims ==
  ASSUME ClaimInv, NEW r \in Proc, ~HasClaim(r), Finish(r), UNCHANGED <<tables, locks>>
  PROVE  ClaimsOK'
  <1>1. /\ \A s \in Proc : s # r => req'[s] = req[s]
        /\ req'[r].op = "none"
    BY DEF Finish, Started, ClaimInv, IndInv, TypeOK
  <1>2. ~HasClaim(r)'
    BY <1>1 DEF HasClaim
  <1>3. QED
    BY <1>1, <1>2, PlainStep DEF tables, locks

(* A step of r within its transaction that keeps its claim, if it has one. *)
LEMMA WithinClaims ==
  ASSUME ClaimInv, NEW r \in Proc,
         \A s \in Proc : s # r => req'[s] = req[s],
         req'[r].id = req[r].id, HasClaim(r)' <=> HasClaim(r),
         UNCHANGED <<cashout, cashoutLock>>
  PROVE  ClaimsOK'
  <1>1. HasClaim(r) => cashoutLock[req[r].id] = r /\ Row(r).status = "PENDING"
    BY DEF ClaimInv, ClaimsOK
  <1>2. \A c \in Id : cashoutLock[c] = r => HasClaim(r) /\ req[r].id = c
    BY DEF ClaimInv, ClaimsOK
  <1>3. HasClaim(r)' => cashoutLock'[req'[r].id] = r /\ Row(r)'.status = "PENDING"
    BY <1>1 DEF Row
  <1>4. \A c \in Id : cashoutLock'[c] = r => HasClaim(r)' /\ req'[r].id = c
    BY <1>2
  <1>5. QED
    BY <1>3, <1>4, ClaimFrame

LEMMA ReadClaims ==
  ASSUME ClaimInv, NEW r \in Proc, NEW kind, NEW ok, NEW next,
         next \notin {"wallet", "saveWallet", "commit"} \/ kind \notin {"fail", "cancel"},
         ReadCashout(r, kind, ok, next)
  PROVE  ClaimsOK'
  <1>1. req[r] \in Request /\ req \in [Proc -> Request] /\ ~HasClaim(r)
    BY RequestType DEF ClaimInv, IndInv, TypeOK, ReadCashout, At, HasClaim
  <1>2. UNCHANGED <<tables, locks>> /\ req[r].op = kind
    BY DEF ReadCashout, At
  <1>3. CASE Finish(r)
    BY <1>1, <1>2, <1>3, FinishClaims
  <1>4. CASE req' = [req EXCEPT ![r].pc = next, ![r].amt = Row(r).amt]
    <2>1. /\ req'[r] = [req[r] EXCEPT !.pc = next, !.amt = Row(r).amt]
          /\ \A s \in Proc : s # r => req'[s] = req[s]
      BY <1>1, <1>4
    <2>2. req'[r].op = kind /\ req'[r].pc = next
      BY <1>1, <1>2, <2>1 DEF Request
    <2>3. ~HasClaim(r)'
      BY <2>2 DEF HasClaim
    <2>4. QED
      BY <1>1, <1>2, <2>1, <2>3, PlainStep DEF tables, locks
  <1>5. QED
    BY <1>3, <1>4 DEF ReadCashout

(* The claim itself: the row was PENDING and nobody had its lock.          *)
LEMMA ClaimClaims ==
  ASSUME ClaimInv, NEW r \in Proc, Claim(r)
  PROVE  ClaimsOK'
  <1>1. /\ TypeOK /\ RequestOK(r) /\ UNCHANGED <<tables, walletLock>>
        /\ req[r].op \in {"fail", "cancel"} /\ req[r].pc = "claim"
    BY DEF ClaimInv, IndInv, Claim, At
  <1>2. req[r].id \in Id /\ ~HasClaim(r)
    BY <1>1 DEF RequestOK, Kinds, RequestKinds, HasClaim
  <1>3. CASE Row(r).status = "PENDING" /\ cashoutLock[req[r].id] = Nobody /\ Goto(r, "wallet")
             /\ cashoutLock' = [cashoutLock EXCEPT ![req[r].id] = r]
    <2>1. /\ \A s \in Proc : s # r => req'[s] = req[s]
          /\ req'[r].pc = "wallet" /\ req'[r].op = req[r].op /\ req'[r].id = req[r].id
      BY <1>1, <1>3, GotoStep DEF Points
    <2>2. HasClaim(r)' /\ Row(r)' = Row(r)
      BY <1>1, <2>1 DEF HasClaim, Row, tables
    <2>3. /\ cashoutLock'[req[r].id] = r
          /\ \A c \in Id : c # req[r].id => cashoutLock'[c] = cashoutLock[c]
      BY <1>1, <1>2, <1>3 DEF TypeOK
    <2>4. \A c \in Id : cashoutLock[c] # r
      BY <1>2 DEF ClaimInv, ClaimsOK
    <2>5. \A s \in Proc, c \in Id : s # r => (cashoutLock'[c] = s <=> cashoutLock[c] = s)
      BY <1>1, <1>2, <1>3, <2>3, CashoutAssumption
    <2>6. HasClaim(r)' => cashoutLock'[req'[r].id] = r /\ Row(r)'.status = "PENDING"
      BY <1>3, <2>1, <2>2, <2>3
    <2>7. \A c \in Id : cashoutLock'[c] = r => HasClaim(r)' /\ req'[r].id = c
      BY <2>1, <2>2, <2>3, <2>4
    <2>8. QED
      BY <1>1, <2>1, <2>5, <2>6, <2>7, ClaimFrame DEF tables
  <1>4. CASE Finish(r) /\ UNCHANGED cashoutLock
    BY <1>1, <1>2, <1>4, FinishClaims DEF locks
  <1>5. QED
    BY <1>3, <1>4 DEF Claim

LEMMA WithinStatements ==
  ASSUME ClaimInv, NEW r \in Proc,
         RepairSum(r) \/ RetryFindPending(r) \/ WalletRead(r) \/ WalletSave(r) \/ InsertCashout(r)
  PROVE  ClaimsOK'
  <1>1. /\ TypeOK /\ RequestOK(r) /\ req \in [Proc -> Request] /\ req[r] \in Request
        /\ UNCHANGED <<cashout, cashoutLock>>
    BY RequestType
    DEF ClaimInv, IndInv, TypeOK, RepairSum, RetryFindPending, WalletRead, WalletSave,
        InsertCashout, tables, locks
  <1>2. CASE RepairSum(r) \/ RetryFindPending(r)
    <2>1. ~HasClaim(r) /\ UNCHANGED <<tables, locks>> /\ (Finish(r) \/ Goto(r, "wallet"))
      BY <1>2 DEF HasClaim, RepairSum, RetryFindPending, At
    <2>2. CASE Finish(r)
      BY <2>1, <2>2, FinishClaims
    <2>3. CASE Goto(r, "wallet")
      <3>1. /\ \A s \in Proc : s # r => req'[s] = req[s]
            /\ req'[r].op = req[r].op /\ req'[r].id = req[r].id
        BY <1>1, <2>3, GotoStep DEF Points
      <3>2. ~HasClaim(r)'
        BY <1>2, <3>1 DEF HasClaim, RepairSum, RetryFindPending, At
      <3>3. QED
        BY <1>1, <2>1, <3>1, <3>2, WithinClaims
    <2>4. QED
      BY <2>1, <2>2, <2>3
  <1>3. CASE WalletRead(r)
    <2>1. req[r].pc = "wallet" /\ UNCHANGED <<tables, locks>>
      BY <1>3 DEF WalletRead
    <2>2. ASSUME NEW v, req' = [req EXCEPT ![r].pc = "saveWallet", ![r].val = v]
          PROVE  ClaimsOK'
      <3>1. /\ req'[r] = [req[r] EXCEPT !.pc = "saveWallet", !.val = v]
            /\ \A s \in Proc : s # r => req'[s] = req[s]
        BY <1>1, <2>2
      <3>2. req'[r].pc = "saveWallet" /\ req'[r].op = req[r].op /\ req'[r].id = req[r].id
        BY <1>1, <3>1 DEF Request
      <3>3. HasClaim(r)' <=> HasClaim(r)
        BY <2>1, <3>2 DEF HasClaim
      <3>4. QED
        BY <1>1, <3>1, <3>2, <3>3, WithinClaims
    <2>3. Finish(r) /\ req[r].op \in Debits => ClaimsOK'
      BY <2>1, FinishClaims DEF HasClaim, Debits
    <2>4. QED
      BY <1>3, <2>2, <2>3 DEF WalletRead
  <1>4. CASE WalletSave(r)
    <2>1. req[r].pc = "saveWallet" /\ Goto(r, AfterWalletSave(req[r].op))
      BY <1>4 DEF WalletSave
    <2>2. req[r].op \in Credits \cup Debits
      BY <1>1, <2>1 DEF RequestOK, PointOK
    <2>3. /\ AfterWalletSave(req[r].op) \in Points
          /\ req[r].op \in {"fail", "cancel"} => AfterWalletSave(req[r].op) = "commit"
      BY <2>2 DEF AfterWalletSave, Points, Debits, Credits
    <2>4. /\ \A s \in Proc : s # r => req'[s] = req[s]
          /\ req'[r].op = req[r].op /\ req'[r].id = req[r].id
          /\ req'[r].pc = AfterWalletSave(req[r].op)
      BY <1>1, <2>1, <2>3, GotoStep
    <2>5. HasClaim(r)' <=> HasClaim(r)
      BY <2>1, <2>3, <2>4 DEF HasClaim
    <2>6. QED
      BY <1>1, <2>4, <2>5, WithinClaims
  <1>5. CASE InsertCashout(r)
    <2>1. /\ req'[r] = [req[r] EXCEPT !.pc = "commit", !.new = nextId]
          /\ \A s \in Proc : s # r => req'[s] = req[s]
      BY <1>1, <1>5 DEF InsertCashout
    <2>2. req'[r].op = req[r].op /\ req'[r].id = req[r].id /\ req[r].pc = "insert"
      BY <1>1, <1>5, <2>1 DEF InsertCashout, Request
    <2>3. req[r].op \in Debits
      BY <1>1, <2>2 DEF RequestOK, PointOK
    <2>4. ~HasClaim(r) /\ ~HasClaim(r)'
      BY <2>2, <2>3 DEF HasClaim, Debits
    <2>5. QED
      BY <1>1, <2>1, <2>2, <2>4, WithinClaims
  <1>6. QED
    BY <1>2, <1>3, <1>4, <1>5

(* The steps that end a transaction.  A commit that touches a cashout      *)
(* another transaction has claimed leaves it PENDING: CompleteSave waits   *)
(* for the lock, a new row is nobody's.                                    *)
LEMMA EndClaims ==
  ASSUME ClaimInv, NEW r \in Proc, req[r].op \notin EngineKinds,
         \/ CompleteSave(r) \/ CommitCreate(r) \/ CommitRefund(r) \/ CommitRepair(r)
         \/ Rollback(r)
  PROVE  ClaimsOK'
  <1>1. TypeOK /\ IndInv /\ RequestOK(r)
    BY DEF ClaimInv, IndInv
  <1>2. /\ \A s \in Proc : s # r => req'[s] = req[s]
        /\ req'[r].op = "none" /\ ~HasClaim(r)'
    BY <1>1 DEF TypeOK, CompleteSave, CommitCreate, CommitRefund, CommitRepair, Rollback,
                Finish, NoRequest, Started, HasClaim
  <1>3. CASE CompleteSave(r)
    <2>1. ~HasClaim(r) /\ req[r].id \in Id
      BY <1>1, <1>3 DEF CompleteSave, At, HasClaim, RequestOK, Kinds, RequestKinds
    <2>2. UNCHANGED cashoutLock
      BY <1>3 DEF CompleteSave, locks
    <2>3. Row(r).status = "COMPLETED" \/ cashoutLock[req[r].id] = Nobody
      BY <1>3 DEF CompleteSave
    <2>4. \A c \in Id : c # req[r].id => cashout'[c] = cashout[c]
      BY <1>1, <1>3 DEF CompleteSave, TypeOK
    <2>5. \A c \in Id : cashout[c].status = "PENDING" =>
                          cashoutLock[c] = Nobody \/ cashout'[c].status = "PENDING"
      BY <2>3, <2>4 DEF Row
    <2>6. QED
      BY <1>2, <2>1, <2>2, <2>5, PlainStep
  <1>4. CASE CommitCreate(r)
    <2>1. ~HasClaim(r) /\ Release(r) /\ Inserted(r)
      BY <1>4 DEF CommitCreate, At, HasClaim, Debits, Inserted
    <2>2. cashout[req[r].new].status = "NONE" /\ req[r].new \in Id
      BY <1>1, <2>1 DEF RequestOK
    <2>3. \A c \in Id : c # req[r].new => cashout'[c] = cashout[c]
      BY <1>1, <1>4 DEF CommitCreate, TypeOK
    <2>4. \A c \in Id : cashout[c].status = "PENDING" =>
                          cashoutLock[c] = Nobody \/ cashout'[c].status = "PENDING"
      BY <2>2, <2>3
    <2>5. QED
      BY <1>2, <2>1, <2>4, PlainStep
  <1>5. CASE CommitRefund(r) \/ Rollback(r)
    <2>1. Release(r) /\ \A c \in Id : c # req[r].id => cashout'[c] = cashout[c]
      BY <1>1, <1>5 DEF CommitRefund, Rollback, tables, TypeOK
    <2>2. cashout' = cashout \/ HasClaim(r)
      BY <1>5 DEF CommitRefund, Rollback, tables, At, HasClaim, EngineKinds
    <2>3. \A c \in Id : cashoutLock[c] = r => HasClaim(r) /\ req[r].id = c
      BY LockedIsPending
    <2>4. HasClaim(r) => req[r].id \in Id /\ cashoutLock[req[r].id] = r
      BY <1>1 DEF ClaimInv, ClaimsOK, RequestOK, HasClaim, Kinds, RequestKinds
    <2>5. \A c \in Id : cashoutLock'[c] = IF cashoutLock[c] = r THEN Nobody ELSE cashoutLock[c]
      BY <2>1 DEF Release
    <2>6. \A s \in Proc, c \in Id : s # r => (cashoutLock'[c] = s <=> cashoutLock[c] = s)
      BY <2>5, CashoutAssumption
    <2>7. \A c \in Id : cashoutLock'[c] # r
      BY <2>5, CashoutAssumption
    <2>8. \A s \in Proc, c \in Id :
           s # r /\ cashoutLock[c] = s => cashout'[c].status = cashout[c].status
      BY <2>1, <2>2, <2>4
    <2>9. QED
      BY <1>2, <2>6, <2>7, <2>8, ClaimFrame
  <1>6. CASE CommitRepair(r)
    BY <1>2, <1>6, PlainStep DEF CommitRepair, At, HasClaim
  <1>7. QED
    BY <1>3, <1>4, <1>5, <1>6

LEMMA StatementClaims ==
  ASSUME ClaimInv, Tick = {}, NEW r \in Proc, Statement(r) \/ Rollback(r)
  PROVE  ClaimsOK'
  <1>1. req[r].op \notin EngineKinds
    BY NoEngine DEF ClaimInv
  <1>2. ASSUME CompleteRead(r) \/ FailRead(r) \/ CancelRead(r) \/ RepairRead(r) \/ RetryRead(r)
        PROVE  ClaimsOK'
    BY <1>2, ReadClaims DEF CompleteRead, FailRead, CancelRead, RepairRead, RetryRead
  <1>3. ~EngineFailRead(r) /\ ~EngineCompleteRead(r) /\ ~EngineSave(r) /\ ~CommitPaid(r)
    BY <1>1 DEF EngineFailRead, EngineCompleteRead, ReadCashout, EngineSave, CommitPaid, At, EngineKinds
  <1>4. QED
    BY <1>1, <1>2, <1>3, ClaimClaims, WithinStatements, EndClaims DEF Statement

LEMMA NextClaims ==
  ASSUME ClaimInv, Tick = {}, [Next]_vars
  PROVE  ClaimsOK'
  <1>1. ASSUME NEW r \in Req, NEW a \in Amounts, BeginCashout(r, a)
        PROVE  ClaimsOK'
    <2> DEFINE start == Started("cashout", "wallet", 0, a)
    <2>1. a \in Nat /\ MaxId \in Nat /\ r \in Proc
      BY Constants DEF Proc
    <2>2. start \in Request /\ start.op = "cashout"
      BY <2>1 DEF Started, Request, Points, Kinds, RequestKinds
    <2>3. req' = [req EXCEPT ![r] = start] /\ req[r].pc = "idle" /\ UNCHANGED <<tables, locks>>
      BY <1>1 DEF BeginCashout
    <2> HIDE DEF start
    <2>4. QED
      BY <2>1, <2>2, <2>3, BeginClaims
  <1>2. ASSUME NEW r \in Req, NEW kind \in RequestKinds, NEW c \in Id, Begin(r, kind, c)
        PROVE  ClaimsOK'
    <2> DEFINE start == Started(kind, "read", c, 0)
    <2>1. c \in 0..MaxId /\ 0 \in 0..MaxId /\ r \in Proc
      BY CashoutAssumption DEF Id, Proc
    <2>2. start \in Request /\ start.pc = "read"
      BY <2>1 DEF Started, Request, Points, Kinds
    <2>3. req' = [req EXCEPT ![r] = start] /\ req[r].pc = "idle" /\ UNCHANGED <<tables, locks>>
      BY <1>2 DEF Begin
    <2> HIDE DEF start
    <2>4. QED
      BY <2>1, <2>2, <2>3, BeginClaims
  <1>3. CASE UNCHANGED vars
    BY <1>3 DEF vars, tables, locks, ClaimInv, ClaimsOK, HasClaim, Row
  <1>4. QED
    BY <1>1, <1>2, <1>3, StatementClaims DEF Next

-----------------------------------------------------------------------------
(* All a step can do to the tables: nothing, or one move of one cashout.   *)
Opens(n) ==
  /\ cashout[n].status = "NONE" /\ cashout'[n].status = "PENDING"
  /\ ledger'[n].refund = ledger[n].refund

Completes(n) ==
  /\ cashout[n].status # "NONE" /\ cashout'[n].status = "COMPLETED"
  /\ ledger' = ledger

Fails(n) ==
  /\ cashout[n].status = "PENDING" /\ cashout'[n].status = "FAILED"
  /\ ledger'[n].refund = ledger[n].refund + 1

Repairs(n) == n \in Legacy /\ cashout' = cashout

Move(n) ==
  /\ \A d \in Id : d # n => cashout'[d] = cashout[d] /\ ledger'[d] = ledger[d]
  /\ Opens(n) \/ Completes(n) \/ Fails(n) \/ Repairs(n)

LEMMA Moves ==
  ASSUME ClaimInv, Tick = {}, [Next]_vars
  PROVE  UNCHANGED <<cashout, ledger>> \/ \E n \in Id : Move(n)
  <1>1. TypeOK /\ IndInv
    BY DEF ClaimInv, IndInv
  <1>2. ASSUME NEW r \in Proc, CompleteSave(r)
        PROVE  \E n \in Id : Move(n)
    <2>1. RequestOK(r) /\ req[r].op = "complete" /\ req[r].pc # "read"
      BY <1>1, <1>2 DEF CompleteSave, At, IndInv
    <2>2. req[r].id \in Id /\ Row(r).status # "NONE"
      BY <2>1 DEF RequestOK, Kinds, RequestKinds
    <2>3. cashout' = [cashout EXCEPT ![req[r].id].status = "COMPLETED"] /\ ledger' = ledger
      BY <1>2 DEF CompleteSave
    <2>4. "COMPLETED" \in Statuses
      BY DEF Statuses
    <2>5. Move(req[r].id)
      BY <1>1, <2>2, <2>3, <2>4, SetStatus DEF Move, Completes, Row
    <2>6. QED
      BY <2>2, <2>5
  <1>3. ASSUME NEW r \in Proc, CommitCreate(r)
        PROVE  \E n \in Id : Move(n)
    <2>1. RequestOK(r) /\ Inserted(r) /\ AddRow(req[r].new, "debit")
      BY <1>1, <1>3 DEF CommitCreate, Inserted, IndInv
    <2>2. req[r].new \in Id /\ cashout[req[r].new].status = "NONE"
      BY <2>1 DEF RequestOK
    <2>3. /\ cashout'[req[r].new].status = "PENDING"
          /\ \A d \in Id : d # req[r].new => cashout'[d] = cashout[d]
      BY <1>1, <1>3, <2>2 DEF CommitCreate, TypeOK
    <2>4. /\ ledger'[req[r].new].refund = ledger[req[r].new].refund
          /\ \A d \in Id : d # req[r].new => ledger'[d] = ledger[d]
      BY <1>1, <2>1, <2>2, AddRowStep, RowType
    <2>5. QED
      BY <2>2, <2>3, <2>4 DEF Move, Opens
  <1>4. ASSUME NEW r \in Proc, CommitRefund(r)
        PROVE  \E n \in Id : Move(n)
    <2>1. RequestOK(r) /\ HasClaim(r) /\ AddRow(req[r].id, "refund")
      BY <1>1, <1>4, NoEngine DEF CommitRefund, HasClaim, At, EngineKinds, IndInv
    <2>2. req[r].id \in Id /\ cashout[req[r].id].status = "PENDING"
      BY <2>1 DEF RequestOK, HasClaim, Kinds, RequestKinds, ClaimInv, ClaimsOK, Row
    <2>3. "FAILED" \in Statuses
      BY DEF Statuses
    <2>4. /\ cashout'[req[r].id].status = "FAILED"
          /\ \A d \in Id : d # req[r].id => cashout'[d] = cashout[d]
      BY <1>1, <1>4, <2>2, <2>3, SetStatus DEF CommitRefund
    <2>5. /\ ledger'[req[r].id].refund = ledger[req[r].id].refund + 1
          /\ \A d \in Id : d # req[r].id => ledger'[d] = ledger[d]
      BY <1>1, <2>1, <2>2, AddRowStep
    <2>6. QED
      BY <2>2, <2>4, <2>5 DEF Move, Fails
  <1>5. ASSUME NEW r \in Proc, CommitRepair(r)
        PROVE  \E n \in Id : Move(n)
    <2>1. RequestOK(r) /\ AddRow(req[r].id, "refund") /\ req[r].op = "repair" /\ req[r].pc = "commit"
      BY <1>1, <1>5 DEF CommitRepair, At, IndInv
    <2>2. req[r].id \in Id /\ req[r].id \in Legacy
      BY <2>1 DEF RequestOK, Kinds, RequestKinds
    <2>3. cashout' = cashout /\ \A d \in Id : d # req[r].id => ledger'[d] = ledger[d]
      BY <1>1, <1>5, <2>1, <2>2, AddRowStep DEF CommitRepair
    <2>4. QED
      BY <2>2, <2>3 DEF Move, Repairs
  <1>6. ASSUME NEW r \in Proc, Statement(r)
        PROVE  UNCHANGED <<cashout, ledger>> \/ \E n \in Id : Move(n)
    <2>1. ~EngineFailRead(r) /\ ~EngineCompleteRead(r) /\ ~EngineSave(r) /\ ~CommitPaid(r)
      BY <1>1, NoEngine
      DEF EngineFailRead, EngineCompleteRead, ReadCashout, EngineSave, CommitPaid, At, EngineKinds
    <2>2. /\ CompleteRead(r) \/ FailRead(r) \/ CancelRead(r) \/ RepairRead(r) \/ RetryRead(r)
               => UNCHANGED <<cashout, ledger>>
          /\ Claim(r) \/ RepairSum(r) \/ RetryFindPending(r) \/ WalletRead(r) \/ WalletSave(r)
             \/ InsertCashout(r) => UNCHANGED <<cashout, ledger>>
      BY DEF CompleteRead, FailRead, CancelRead, RepairRead, RetryRead, ReadCashout, Claim,
             RepairSum, RetryFindPending, WalletRead, WalletSave, InsertCashout, tables
    <2>3. QED
      BY <1>2, <1>3, <1>4, <1>5, <1>6, <2>1, <2>2 DEF Statement
  <1>7. QED
    BY <1>6 DEF Next, vars, tables, BeginCashout, Begin, Rollback, TickStart, TickNext, TickEnd

LEMMA NextClaimInv ==
  ASSUME Tick = {}
  PROVE  ClaimInv /\ [Next]_vars => ClaimInv'
  <1> SUFFICES ASSUME ClaimInv, [Next]_vars PROVE ClaimInv'
    OBVIOUS
  <1>1. IndInv' /\ ClaimsOK'
    BY NextIndInv, NextClaims DEF ClaimInv
  <1>2. \A c \in Id \ Legacy : ledger'[c].refund <= 1
    <2> TAKE c \in Id \ Legacy
    <2>1. ledger[c].refund <= 1 /\ (cashout[c].status = "PENDING" => ledger[c].refund = 0)
      BY CashoutFacts DEF ClaimInv, RefundedOnce, DebitOnly
    <2>2. CASE UNCHANGED <<cashout, ledger>>
      BY <2>1, <2>2
    <2>3. ASSUME NEW n \in Id, Move(n)
          PROVE  ledger'[c].refund <= 1
      BY <2>1, <2>3 DEF Move, Opens, Completes, Fails, Repairs
    <2>4. QED
      BY <2>2, <2>3, Moves
  <1>3. QED
    BY <1>1, <1>2 DEF ClaimInv, RefundedOnce

LEMMA InitClaimInv == Init => ClaimInv
  <1> SUFFICES ASSUME Init PROVE ClaimInv
    OBVIOUS
  <1>1. ClaimsOK
    BY CashoutAssumption DEF Init, ClaimsOK, HasClaim, NoRequest, Started
  <1>2. RefundedOnce
    BY DEF Init, RefundedOnce, NoLedger
  <1>3. QED
    BY <1>1, <1>2, InitIndInv DEF ClaimInv

-----------------------------------------------------------------------------
(* The row lock of a cashout is held exactly by the claim that won it.     *)
THEOREM ClaimHeld ==
  ASSUME Tick = {}
  PROVE  Spec => []ClaimInv
  BY InitClaimInv, NextClaimInv, PTL DEF Spec

(* "Refund ONCE (only the winner reaches here)", wallet.service.ts:680:    *)
(* with the engine off, however fail, cancel, complete and retry requests  *)
(* interleave, a cashout is refunded at most once.                         *)
THEOREM RefundOnce ==
  ASSUME Tick = {}
  PROVE  Spec => []RefundedOnce
  <1>1. ClaimInv => RefundedOnce
    BY DEF ClaimInv
  <1>2. QED
    BY <1>1, ClaimHeld, PTL

(* "Never allow COMPLETED -> FAILED", wallet.service.ts:644: with the      *)
(* engine off no request takes a cashout out of COMPLETED.                 *)
THEOREM CompletedStays ==
  ASSUME Tick = {}
  PROVE  Spec => CompletedIsFinal
  <1>1. ClaimInv /\ [Next]_vars =>
          [\A c \in Id : cashout[c].status = "COMPLETED" => cashout'[c].status = "COMPLETED"]_vars
    <2> SUFFICES ASSUME ClaimInv, [Next]_vars, NEW c \in Id, cashout[c].status = "COMPLETED"
                 PROVE  cashout'[c].status = "COMPLETED"
      OBVIOUS
    <2>1. ASSUME NEW n \in Id, Move(n)
          PROVE  cashout'[c].status = "COMPLETED"
      BY <2>1 DEF Move, Opens, Completes, Fails, Repairs
    <2>2. QED
      BY <2>1, Moves
  <1>2. QED
    BY <1>1, ClaimHeld, PTL DEF Spec, CompletedIsFinal

-----------------------------------------------------------------------------
LEMMA NextLockedLast ==
  ASSUME Tick = {}, ClaimInv, WalletLockedLast, [Next]_vars
  PROVE  WalletLockedLast'
  <1>1. TypeOK /\ (\A s \in Proc : RequestOK(s)) /\ req \in [Proc -> Request]
    BY DEF ClaimInv, IndInv, TypeOK
  <1>2. ASSUME NEW r \in Proc, \A s \in Proc : s # r => req'[s] = req[s],
               walletLock' \in {walletLock, Nobody, r},
               walletLock' = r => req'[r].pc \in {"insert", "commit"}
        PROVE  WalletLockedLast'
    BY <1>2, CashoutAssumption DEF WalletLockedLast
  <1>3. ASSUME NEW r \in Proc, req[r].pc \notin {"insert", "commit"}, walletLock' = walletLock,
               \A s \in Proc : s # r => req'[s] = req[s]
        PROVE  WalletLockedLast'
    BY <1>2, <1>3 DEF WalletLockedLast
  <1>4. ASSUME NEW r \in Proc, Release(r), \A s \in Proc : s # r => req'[s] = req[s]
        PROVE  WalletLockedLast'
    BY <1>2, <1>4, CashoutAssumption DEF Release
  <1>5. ASSUME NEW r \in Proc, Statement(r)
        PROVE  WalletLockedLast'
    <2>1. ~EngineFailRead(r) /\ ~EngineCompleteRead(r) /\ ~EngineSave(r) /\ ~CommitPaid(r)
      BY NoEngine DEF EngineFailRead, EngineCompleteRead, ReadCashout, EngineSave, CommitPaid, At,
                      EngineKinds, ClaimInv
    <2>2. ASSUME \/ CompleteRead(r) \/ FailRead(r) \/ CancelRead(r) \/ RepairRead(r) \/ RetryRead(r)
                 \/ CompleteSave(r) \/ Claim(r) \/ RepairSum(r) \/ RetryFindPending(r) \/ WalletRead(r)
          PROVE  WalletLockedLast'
      <3>1. req[r].pc \notin {"insert", "commit"} /\ walletLock' = walletLock
        BY <2>2 DEF CompleteRead, FailRead, CancelRead, RepairRead, RetryRead, ReadCashout,
                    CompleteSave, Claim, RepairSum, RetryFindPending, WalletRead, At, locks
      <3>2. \A s \in Proc : s # r => req'[s] = req[s]
        BY <1>1, <2>2 DEF CompleteRead, FailRead, CancelRead, RepairRead, RetryRead, ReadCashout,
                    CompleteSave, Claim, RepairSum, RetryFindPending, WalletRead, Goto, Finish
      <3>3. QED
        BY <1>3, <3>1, <3>2
    <2>3. CASE WalletSave(r)
      <3>1. req[r].op \in (Credits \cup Debits) \ EngineKinds
        BY <1>1, <2>3, NoEngine DEF WalletSave, RequestOK, PointOK, ClaimInv
      <3>2. AfterWalletSave(req[r].op) \in {"insert", "commit"}
        BY <3>1 DEF AfterWalletSave, Debits, Credits, EngineKinds
      <3>3. /\ \A s \in Proc : s # r => req'[s] = req[s]
            /\ req'[r].pc \in {"insert", "commit"}
        BY <1>1, <2>3, <3>2, GotoStep DEF WalletSave, Points
      <3>4. walletLock' \in {walletLock, r}
        BY <2>3 DEF WalletSave
      <3>5. QED
        BY <1>2, <3>3, <3>4
    <2>4. CASE InsertCashout(r)
      <3>1. req'[r] = [req[r] EXCEPT !.pc = "commit", !.new = nextId]
        BY <1>1, <2>4 DEF InsertCashout
      <3>2. req'[r].pc = "commit" /\ walletLock' = walletLock
        BY <1>1, <2>4, <3>1 DEF InsertCashout, Request, locks
      <3>3. \A s \in Proc : s # r => req'[s] = req[s]
        BY <1>1, <2>4 DEF InsertCashout
      <3>4. QED
        BY <1>2, <3>2, <3>3
    <2>5. CASE CommitCreate(r) \/ CommitRefund(r) \/ CommitRepair(r)
      BY <1>1, <1>4, <2>5 DEF CommitCreate, CommitRefund, CommitRepair, Finish
    <2>6. QED
      BY <1>5, <2>1, <2>2, <2>3, <2>4, <2>5 DEF Statement
  <1>6. ASSUME NEW r \in Proc, Rollback(r)
        PROVE  WalletLockedLast'
    BY <1>1, <1>4, <1>6 DEF Rollback
  <1>7. ASSUME NEW r \in Req, NEW a \in Amounts, BeginCashout(r, a)
        PROVE  WalletLockedLast'
    BY <1>1, <1>3, <1>7 DEF BeginCashout, Proc, locks
  <1>8. ASSUME NEW r \in Req, NEW kind \in RequestKinds, NEW c \in Id, Begin(r, kind, c)
        PROVE  WalletLockedLast'
    BY <1>1, <1>3, <1>8 DEF Begin, Proc, locks
  <1>9. CASE UNCHANGED vars
    BY <1>9 DEF vars, locks, WalletLockedLast
  <1>10. QED
    BY <1>5, <1>6, <1>7, <1>8, <1>9 DEF Next

(* Row locks are taken cashout first, wallet last, by every request: no    *)
(* set of requests, of any size, ever waits in a circle.                   *)
THEOREM DeadlockFree ==
  ASSUME Tick = {}
  PROVE  Spec => []NoDeadlock
  <1>1. Init => WalletLockedLast
    BY CashoutAssumption DEF Init, WalletLockedLast
  <1>2. ClaimInv /\ WalletLockedLast /\ [Next]_vars => WalletLockedLast'
    BY NextLockedLast
  <1>3. ClaimInv /\ WalletLockedLast => NoDeadlock
    <2> SUFFICES ASSUME ClaimInv, WalletLockedLast, NEW S \in SUBSET Proc, S # {}
                 PROVE  \E r \in S : WaitsFor(r) \notin S
      BY DEF NoDeadlock
    <2>1. Nobody \notin S
      BY CashoutAssumption
    <2>2. CASE walletLock \in S
      <3>1. req[walletLock].pc \in {"insert", "commit"}
        BY <2>2 DEF WalletLockedLast
      <3>2. WaitsFor(walletLock) = Nobody
        BY <3>1 DEF WaitsFor
      <3>3. QED
        BY <2>1, <2>2, <3>2
    <2>3. CASE walletLock \notin S
      <3>1. PICK r \in S : TRUE
        OBVIOUS
      <3>2. CASE WaitsFor(r) \in S
        <4>1. req[r].pc \in {"claim", "saveCashout"} /\ WaitsFor(r) = cashoutLock[req[r].id]
          BY <2>1, <2>3, <3>2 DEF WaitsFor
        <4>2. req[r].id \in Id
          <5>1. req[r].op \in Kinds \ {"cashout"} /\ RequestOK(r)
            BY <4>1 DEF ClaimInv, IndInv, RequestOK, PointOK, Kinds, RequestKinds, EngineKinds, Credits, Debits
          <5>2. QED
            BY <5>1 DEF RequestOK
        <4>3. HasClaim(WaitsFor(r))
          BY <3>2, <4>1, <4>2, LockedIsPending
        <4>4. WaitsFor(WaitsFor(r)) \in {Nobody, walletLock}
          BY <4>3 DEF HasClaim, WaitsFor
        <4>5. QED
          BY <2>1, <2>3, <3>2, <4>4
      <3>3. QED
        BY <3>1, <3>2
    <2>4. QED
      BY <2>2, <2>3
  <1>4. QED
    BY <1>1, <1>2, <1>3, ClaimHeld, PTL DEF Spec

-----------------------------------------------------------------------------
(* A move of a cashout is a step of the promise, or changes nothing there. *)
LEMMA MoveIsBookStep ==
  ASSUME ClaimInv, ClaimInv', Legacy = {}, NEW n \in Id, Move(n)
  PROVE  [Book!BookNext]_<<[c \in Id |-> cashout[c].status], [c \in Id |-> ledger[c].refund]>>
  <1> DEFINE status == [c \in Id |-> cashout[c].status]
             refunds == [c \in Id |-> ledger[c].refund]
             statusN == [c \in Id |-> cashout'[c].status]
             refundsN == [c \in Id |-> ledger'[c].refund]
  <1>1. \A d \in Id : d # n => statusN[d] = status[d] /\ refundsN[d] = refunds[d]
    BY DEF Move
  <1>2. CASE Opens(n)
    <2>1. statusN = [status EXCEPT ![n] = "PENDING"] /\ refundsN = refunds /\ status[n] = "NONE"
      BY <1>1, <1>2 DEF Opens
    <2>2. QED
      BY <2>1 DEF Book!BookNext, Book!Open
  <1>3. CASE Fails(n)
    <2>1. /\ statusN = [status EXCEPT ![n] = "FAILED"] /\ status[n] = "PENDING"
          /\ refundsN = [refunds EXCEPT ![n] = @ + 1]
      BY <1>1, <1>3 DEF Fails
    <2>2. QED
      BY <2>1 DEF Book!BookNext, Book!Fail
  <1>4. CASE Completes(n)
    <2>1. statusN = [status EXCEPT ![n] = "COMPLETED"] /\ refundsN = refunds
      BY <1>1, <1>4 DEF Completes
    <2>2. status[n] \in {"PENDING", "FAILED", "COMPLETED"}
      BY <1>4, RowType DEF Completes, ClaimInv, IndInv, Statuses
    <2>3. status[n] = "COMPLETED" => statusN = status
      BY <2>1
    <2>4. QED
      BY <2>1, <2>2, <2>3 DEF Book!BookNext, Book!Complete
  <1>5. QED
    BY <1>2, <1>3, <1>4 DEF Move, Repairs

(* With the engine off and no rows from before refunds had ledger rows,    *)
(* the requests implement CashoutBook: opened once, failed from PENDING    *)
(* only and refunded in that step, completed for good.                     *)
THEOREM Implements ==
  ASSUME Tick = {}, LegacyRows = 0
  PROVE  Spec => ImplementsBook
  <1>1. Legacy = {}
    BY DEF Legacy
  <1>2. Init => Book!BookInit
    BY <1>1 DEF Init, Book!BookInit, NoRow, NoLedger
  <1>3. ClaimInv /\ ClaimInv' /\ [Next]_vars =>
          [Book!BookNext]_<<[c \in Id |-> cashout[c].status], [c \in Id |-> ledger[c].refund]>>
    BY <1>1, Moves, MoveIsBookStep
  <1>4. QED
    BY <1>2, <1>3, ClaimHeld, PTL DEF Spec, ImplementsBook, Book!BookSpec

-----------------------------------------------------------------------------
(* Transactions on the wallet that do not overlap.                         *)

(* On the development fallback, whose driver returns numbers: on Postgres  *)
(* a refund appends its digits to the balance.                             *)
NumberColumns == ~BigintStrings

LEMMA IdFinite == IsFiniteSet(Id) /\ IsFiniteSet(Legacy) /\ Legacy \in SUBSET Id
  <1>1. LegacyRows \in Int /\ MaxId \in Int /\ LegacyRows <= MaxId
    BY Constants
  <1>2. Legacy \in SUBSET Id
    BY <1>1 DEF Legacy, Id
  <1>3. QED
    BY <1>1, <1>2, FS_Interval DEF Id, Legacy

LEMMA HeldType ==
  ASSUME TypeOK, NEW c \in Id
  PROVE  HeldOf(c) \in Int /\ cashout[c].amt \in Int
  <1>1. cashout[c].amt \in Int /\ ledger[c].debit \in Int /\ ledger[c].refund \in Int
    BY RowType DEF CashoutRow
  <1>2. ledger[c].debit - ledger[c].refund \in Int
    BY <1>1
  <1>3. QED
    BY <1>1, <1>2 DEF HeldOf

(* A step that leaves what is held and the old amounts keeps the funds ... *)
LEMMA FundsSame ==
  ASSUME FundsConserved, avail' = avail,
         \A c \in Id : HeldOf(c)' = HeldOf(c),
         \A c \in Legacy : cashout'[c].amt = cashout[c].amt
  PROVE  FundsConserved'
  <1>1. Held' = Held
    BY DEF Held, HeldOf
  <1>2. TotalOf(Legacy)' = TotalOf(Legacy)
    <2> DEFINE d == [c \in Id |-> cashout[c].amt]
               e == [c \in Id |-> cashout'[c].amt]
    <2>1. \A c \in Legacy : d[c] = e[c]
      BY IdFinite
    <2> HIDE DEF d, e
    <2>2. SumFunctionOnSet(d, Legacy) = SumFunctionOnSet(e, Legacy)
      BY <2>1, IdFinite, SumSame
    <2>3. TotalOf(Legacy) = SumFunctionOnSet(d, Legacy) /\ TotalOf(Legacy)' = SumFunctionOnSet(e, Legacy)
      BY DEF TotalOf, d, e
    <2>4. QED
      BY <2>2, <2>3
  <1>3. QED
    BY <1>1, <1>2 DEF FundsConserved

(* ... and so does one that takes from the wallet what it adds to one      *)
(* cashout.                                                                *)
LEMMA FundsMoved ==
  ASSUME FundsConserved, TypeOK, TypeOK', NEW n \in Id,
         NEW x \in Int, NEW y \in Int, HeldOf(n) = x, HeldOf(n)' = y,
         avail' = avail + x - y,
         \A c \in Id : c # n => HeldOf(c)' = HeldOf(c),
         \A c \in Legacy : cashout'[c].amt = cashout[c].amt
  PROVE  FundsConserved'
  <1> DEFINE d == [c \in Id |-> HeldOf(c)]
             e == [c \in Id |-> HeldOf(c)']
  <1>1. /\ \A c \in Id : d[c] \in Int /\ d[c] = HeldOf(c)
        /\ \A c \in Id : e[c] \in Int /\ e[c] = HeldOf(c)'
        /\ \A c \in Id : c # n => d[c] = e[c]
    <2>1. \A c \in Id : HeldOf(c)' \in Int
      BY HeldType DEF TypeOK, HeldOf, CashoutRow, LedgerRows
    <2>2. QED
      BY <2>1, HeldType
  <1>2. Held = SumFunctionOnSet(d, Id) /\ Held' = SumFunctionOnSet(e, Id)
    BY DEF Held, HeldOf
  <1> HIDE DEF d, e
  <1>3. Held' - e[n] = Held - d[n] /\ Held \in Int /\ Held' \in Int
    BY <1>1, <1>2, IdFinite, SumUpdate, SumInt
  <1>4. avail \in Int /\ avail' \in Int
    BY DEF TypeOK
  <1>5. avail' + Held' = avail + Held
    <2>1. Held' = Held - x + y
      BY <1>1, <1>3
    <2>2. QED
      BY <1>3, <1>4, <2>1
  <1>6. TotalOf(Legacy)' = TotalOf(Legacy)
    <2> DEFINE f == [c \in Id |-> cashout[c].amt]
               g == [c \in Id |-> cashout'[c].amt]
    <2>1. \A c \in Legacy : f[c] = g[c]
      BY IdFinite
    <2> HIDE DEF f, g
    <2>2. SumFunctionOnSet(f, Legacy) = SumFunctionOnSet(g, Legacy)
      BY <2>1, IdFinite, SumSame
    <2>3. TotalOf(Legacy) = SumFunctionOnSet(f, Legacy) /\ TotalOf(Legacy)' = SumFunctionOnSet(g, Legacy)
      BY DEF TotalOf, f, g
    <2>4. QED
      BY <2>2, <2>3
  <1>7. QED
    BY <1>5, <1>6 DEF FundsConserved

(* A step of r: the others compute on the balance they read.               *)
LEMMA FundsFrame ==
  ASSUME IndInv, FundsInv, NEW r \in Proc,
         \A s \in Proc : s # r => req'[s] = req[s] /\ (walletLock' = s <=> walletLock = s),
         \A c \in Id : cashout[c].status # "NONE" =>
                         cashout'[c].status # "NONE" /\ cashout'[c].amt = cashout[c].amt,
         avail' = avail \/ \A s \in Proc : s # r => ~InWallet(s),
         AmountRead(r)', Computed(r)', FundsConserved'
  PROVE  FundsInv'
  <1>1. ASSUME NEW s \in Proc, s # r
        PROVE  AmountRead(s)'
    <2>1. AmountRead(s) /\ req'[s] = req[s]
      BY <1>1 DEF FundsInv
    <2>2. req[s].op \in Kinds \ {"cashout"} /\ req[s].pc # "read" =>
            req[s].id \in Id /\ cashout[req[s].id].status # "NONE"
      BY DEF IndInv, RequestOK, Row
    <2>3. QED
      BY <2>1, <2>2 DEF AmountRead, Row
  <1>2. ASSUME NEW s \in Proc, s # r
        PROVE  Computed(s)'
    <2>1. /\ Computed(s) /\ req'[s] = req[s] /\ (walletLock' = s <=> walletLock = s)
          /\ InWallet(s)' <=> InWallet(s)
      BY <1>2 DEF FundsInv, InWallet
    <2>2. CASE avail' = avail
      BY <2>1, <2>2 DEF Computed
    <2>3. CASE ~InWallet(s)
      BY <2>1, <2>3 DEF Computed
    <2>4. QED
      BY <1>2, <2>2, <2>3
  <1>3. LegacyStay'
    BY IdFinite DEF FundsInv, LegacyStay
  <1>4. QED
    BY <1>1, <1>2, <1>3 DEF FundsInv

(* A step of r that writes neither the wallet nor the tables.              *)
LEMMA QuietFunds ==
  ASSUME IndInv, FundsInv, NEW r \in Proc, UNCHANGED <<cashout, avail, ledger>>,
         \A s \in Proc : s # r => req'[s] = req[s] /\ (walletLock' = s <=> walletLock = s),
         AmountRead(r)', Computed(r)'
  PROVE  FundsInv'
  <1>1. FundsConserved'
    BY DEF FundsInv, FundsConserved, Held, HeldOf, TotalOf
  <1>2. QED
    BY <1>1, FundsFrame

(* The start of a request, and its end before it wrote anything.           *)
LEMMA NewFunds ==
  ASSUME IndInv, FundsInv, NEW r \in Proc, NEW new, req' = [req EXCEPT ![r] = new],
         UNCHANGED <<cashout, avail, ledger>>,
         (UNCHANGED walletLock /\ walletLock # r) \/ Release(r),
         new.op = "none" \/ new.pc = "read" \/ (new.op = "cashout" /\ new.pc = "wallet")
  PROVE  FundsInv'
  <1>1. TypeOK /\ req'[r] = new /\ \A s \in Proc : s # r => req'[s] = req[s]
    BY DEF IndInv, TypeOK
  <1>2. walletLock' # r /\ \A s \in Proc : s # r => (walletLock' = s <=> walletLock = s)
    BY CashoutAssumption DEF Release
  <1>3. AmountRead(r)' /\ ~InWallet(r)'
    BY <1>1 DEF AmountRead, InWallet, Kinds, RequestKinds, EngineKinds, Credits, Debits
  <1>4. Computed(r)'
    BY <1>2, <1>3 DEF Computed
  <1>5. QED
    BY <1>1, <1>2, <1>3, <1>4, QuietFunds

(* Before it saves the wallet a request does not have its lock.            *)
LEMMA NotLocked ==
  ASSUME FundsInv, NEW r \in Proc, ~InWallet(r) \/ req[r].pc = "saveWallet"
  PROVE  walletLock # r
  BY DEF FundsInv, Computed

LEMMA FinishFunds ==
  ASSUME IndInv, FundsInv, NEW r \in Proc, Finish(r), ~InWallet(r),
         UNCHANGED <<cashout, avail, ledger, walletLock>>
  PROVE  FundsInv'
  <1> DEFINE new == Started("none", IF r \in Tick THEN "tick" ELSE "idle", 0, 0)
  <1>1. req' = [req EXCEPT ![r] = new] /\ new.op = "none"
    BY DEF Finish, Started
  <1> HIDE DEF new
  <1>2. QED
    BY <1>1, NotLocked, NewFunds

(* A step of r to a point where it is not at the wallet.                   *)
LEMMA AsideFunds ==
  ASSUME IndInv, FundsInv, NEW r \in Proc, ~InWallet(r), ~InWallet(r)',
         UNCHANGED <<cashout, avail, ledger, walletLock>>,
         \A s \in Proc : s # r => req'[s] = req[s], AmountRead(r)'
  PROVE  FundsInv'
  <1>1. walletLock # r
    BY NotLocked
  <1>2. Computed(r)'
    BY <1>1 DEF Computed
  <1>3. QED
    BY <1>2, QuietFunds

LEMMA ReadFunds ==
  ASSUME IndInv, FundsInv, NEW r \in Proc, NEW kind \in Kinds \ {"cashout"}, NEW ok, NEW next,
         next \in {"claim", "sum", "findPending", "wallet", "saveCashout"},
         next = "saveCashout" => kind \notin Credits \cup Debits,
         ReadCashout(r, kind, ok, next)
  PROVE  FundsInv'
  <1>1. /\ req \in [Proc -> Request] /\ req[r] \in Request /\ req[r].op = kind
        /\ req[r].pc = "read" /\ ~InWallet(r)
        /\ UNCHANGED <<cashout, avail, ledger, walletLock>>
    BY RequestType DEF IndInv, TypeOK, ReadCashout, At, tables, locks, InWallet
  <1>2. CASE Finish(r)
    BY <1>1, <1>2, FinishFunds
  <1>3. CASE req' = [req EXCEPT ![r].pc = next, ![r].amt = Row(r).amt]
    <2>1. /\ \A s \in Proc : s # r => req'[s] = req[s]
          /\ req'[r].op = kind /\ req'[r].pc = next /\ req'[r].id = req[r].id
          /\ req'[r].amt = Row(r).amt
      BY <1>1, <1>3 DEF Request
    <2>2. ~InWallet(r)' /\ AmountRead(r)'
      BY <1>1, <2>1 DEF InWallet, AmountRead, Row
    <2>3. QED
      BY <1>1, <2>1, <2>2, AsideFunds
  <1>4. QED
    BY <1>2, <1>3 DEF ReadCashout

(* The amount of a request under way is that of its cashout as long as     *)
(* neither changes.                                                        *)
LEMMA SameAmount ==
  ASSUME FundsInv, NEW r \in Proc, UNCHANGED cashout, req[r].pc # "read",
         req'[r].op = req[r].op, req'[r].id = req[r].id, req'[r].amt = req[r].amt
  PROVE  AmountRead(r)'
  BY DEF FundsInv, AmountRead, Row

(* A statement at the wallet, or beside it.                                *)
LEMMA WalletReadFunds ==
  ASSUME NumberColumns, IndInv, FundsInv, NEW r \in Proc, WalletRead(r)
  PROVE  FundsInv'
  <1>1. /\ req \in [Proc -> Request] /\ req[r] \in Request /\ req[r].pc = "wallet"
        /\ ~InWallet(r) /\ walletLock # r /\ UNCHANGED <<cashout, avail, ledger, walletLock>>
    BY RequestType, NotLocked DEF IndInv, TypeOK, WalletRead, tables, locks, InWallet
  <1>2. ASSUME NEW v, req' = [req EXCEPT ![r].pc = "saveWallet", ![r].val = v],
               v = IF req[r].op \in Credits THEN avail + req[r].amt ELSE avail - req[r].amt
        PROVE  FundsInv'
    <2>1. /\ \A s \in Proc : s # r => req'[s] = req[s]
          /\ req'[r].op = req[r].op /\ req'[r].pc = "saveWallet" /\ req'[r].id = req[r].id
          /\ req'[r].amt = req[r].amt /\ req'[r].val = v
      BY <1>1, <1>2 DEF Request
    <2>2. AmountRead(r)'
      BY <1>1, <2>1, SameAmount
    <2>3. Computed(r)'
      BY <1>1, <1>2, <2>1 DEF Computed
    <2>4. QED
      BY <1>1, <2>1, <2>2, <2>3, QuietFunds
  <1>3. PlusEq(avail, req[r].amt) = avail + req[r].amt
    BY DEF PlusEq, NumberColumns
  <1>4. req[r].op \in Debits => req[r].op \notin Credits
    BY DEF Debits, Credits
  <1>5. CASE Finish(r)
    BY <1>1, <1>5, FinishFunds
  <1>6. CASE req[r].op \in Credits
             /\ req' = [req EXCEPT ![r].pc = "saveWallet", ![r].val = PlusEq(avail, req[r].amt)]
    BY <1>2, <1>3, <1>6
  <1>7. CASE req[r].op \in Debits
             /\ req' = [req EXCEPT ![r].pc = "saveWallet", ![r].val = avail - req[r].amt]
    BY <1>2, <1>4, <1>7
  <1>8. QED
    BY <1>5, <1>6, <1>7 DEF WalletRead

LEMMA WalletSaveFunds ==
  ASSUME IndInv, FundsInv, NEW r \in Proc, WalletSave(r)
  PROVE  FundsInv'
  <1>1. /\ req \in [Proc -> Request] /\ req[r] \in Request /\ req[r].pc = "saveWallet"
        /\ UNCHANGED <<cashout, avail, ledger>>
        /\ req' = [req EXCEPT ![r].pc = AfterWalletSave(req[r].op)]
    BY RequestType DEF IndInv, TypeOK, WalletSave, Goto, tables
  <1>2. req[r].op \in Credits \cup Debits /\ InWallet(r)
    BY <1>1 DEF IndInv, RequestOK, PointOK, InWallet, EngineKinds
  <1>3. AfterWalletSave(req[r].op) \in {"insert", "saveCashout", "commit"}
    BY <1>2 DEF AfterWalletSave, Credits, Debits
  <1>4. /\ \A s \in Proc : s # r => req'[s] = req[s]
        /\ req'[r].op = req[r].op /\ req'[r].id = req[r].id
        /\ req'[r].pc \in {"insert", "saveCashout", "commit"}
        /\ req'[r].amt = req[r].amt /\ req'[r].val = req[r].val
    BY <1>1, <1>3 DEF Request
  <1>5. InWallet(r)' /\ AmountRead(r)'
    BY <1>1, <1>2, <1>4, SameAmount DEF InWallet
  <1>6. \/ walletLock = Nobody /\ walletLock' = r
        \/ avail = req[r].val /\ UNCHANGED walletLock
    BY DEF WalletSave
  <1>7. Computed(r)'
    BY <1>1, <1>2, <1>4, <1>5, <1>6 DEF FundsInv, Computed
  <1>8. \A s \in Proc : s # r => (walletLock' = s <=> walletLock = s)
    BY <1>6, CashoutAssumption
  <1>9. QED
    BY <1>1, <1>4, <1>5, <1>7, <1>8, QuietFunds

(* The statements after the wallet is saved.                               *)
LEMMA AfterSaveFunds ==
  ASSUME IndInv, FundsInv, NEW r \in Proc, InsertCashout(r) \/ EngineSave(r)
  PROVE  FundsInv'
  <1>1. /\ req \in [Proc -> Request] /\ req[r] \in Request
        /\ UNCHANGED <<cashout, avail, ledger, walletLock>>
        /\ req[r].pc \in {"insert", "saveCashout"}
    BY RequestType DEF IndInv, TypeOK, InsertCashout, EngineSave, tables, locks
  <1>2. /\ \A s \in Proc : s # r => req'[s] = req[s]
        /\ req'[r].op = req[r].op /\ req'[r].id = req[r].id /\ req'[r].pc = "commit"
        /\ req'[r].amt = req[r].amt /\ req'[r].val = req[r].val
    BY <1>1 DEF InsertCashout, EngineSave, Goto, Request
  <1>3. AmountRead(r)' /\ (InWallet(r)' <=> InWallet(r))
    BY <1>1, <1>2, SameAmount DEF InWallet
  <1>4. Computed(r)'
    BY <1>1, <1>2, <1>3 DEF FundsInv, Computed
  <1>5. QED
    BY <1>1, <1>2, <1>3, <1>4, QuietFunds

LEMMA BeforeWalletFunds ==
  ASSUME IndInv, FundsInv, NEW r \in Proc, Claim(r) \/ RepairSum(r) \/ RetryFindPending(r)
  PROVE  FundsInv'
  <1>1. /\ TypeOK /\ UNCHANGED <<cashout, avail, ledger, walletLock>>
        /\ req[r].pc \in {"claim", "sum", "findPending"} /\ ~InWallet(r)
    BY DEF IndInv, Claim, RepairSum, RetryFindPending, At, tables, locks, InWallet
  <1>2. CASE Goto(r, "wallet")
    <2>1. /\ \A s \in Proc : s # r => req'[s] = req[s]
          /\ req'[r].op = req[r].op /\ req'[r].id = req[r].id /\ req'[r].pc = "wallet"
      BY <1>1, <1>2, GotoStep DEF Points
    <2>2. req'[r].amt = req[r].amt
      BY <1>1, <1>2, RequestType DEF Goto, TypeOK, Request
    <2>3. AmountRead(r)' /\ ~InWallet(r)'
      BY <1>1, <2>1, <2>2, SameAmount DEF InWallet
    <2>4. QED
      BY <1>1, <2>1, <2>3, AsideFunds
  <1>3. CASE Finish(r)
    BY <1>1, <1>3, FinishFunds
  <1>4. QED
    BY <1>2, <1>3 DEF Claim, RepairSum, RetryFindPending

(* An end of r's request that writes the tables or the wallet.             *)
LEMMA OverFunds ==
  ASSUME IndInv, FundsInv, WalletApart, NEW r \in Proc, Finish(r), FundsConserved',
         (UNCHANGED walletLock /\ walletLock # r) \/ Release(r),
         avail' = avail \/ InWallet(r),
         \A c \in Id : cashout[c].status # "NONE" =>
                         cashout'[c].status # "NONE" /\ cashout'[c].amt = cashout[c].amt
  PROVE  FundsInv'
  <1>1. TypeOK /\ \A s \in Proc : s # r => req'[s] = req[s]
    BY DEF IndInv, TypeOK, Finish
  <1>2. req'[r].op = "none"
    BY <1>1 DEF Finish, Started, TypeOK
  <1>3. walletLock' # r /\ \A s \in Proc : s # r => (walletLock' = s <=> walletLock = s)
    BY CashoutAssumption DEF Release
  <1>4. AmountRead(r)' /\ Computed(r)'
    BY <1>2, <1>3 DEF AmountRead, Computed, InWallet, Kinds, RequestKinds, EngineKinds, Credits, Debits
  <1>5. avail' = avail \/ \A s \in Proc : s # r => ~InWallet(s)
    BY DEF WalletApart
  <1>6. QED
    BY <1>1, <1>3, <1>4, <1>5, FundsFrame

(* What a commit shows of the wallet is what was there and the amount.     *)
LEMMA ShownFunds ==
  ASSUME IndInv, FundsInv, NEW r \in Proc, InWallet(r), req[r].pc = "commit", ShowWallet(r)
  PROVE  avail' = IF req[r].op \in Credits THEN avail + req[r].amt ELSE avail - req[r].amt
  <1>1. walletLock = r \/ req[r].val = avail
    BY DEF FundsInv, Computed
  <1>2. req[r].val = IF req[r].op \in Credits THEN avail + req[r].amt ELSE avail - req[r].amt
    BY DEF FundsInv, Computed
  <1>3. QED
    BY <1>1, <1>2 DEF ShowWallet

(* A row whose status is set keeps its amount.                             *)
LEMMA StatusOnly ==
  ASSUME TypeOK, NEW n \in Id, NEW st \in Statuses \ {"NONE"},
         cashout' = [cashout EXCEPT ![n].status = st]
  PROVE  /\ \A c \in Id : cashout'[c].amt = cashout[c].amt
         /\ \A c \in Id : cashout[c].status # "NONE" => cashout'[c].status # "NONE"
  <1>1. cashout[n] \in CashoutRow
    BY RowType
  <1>2. /\ cashout'[n] = [cashout[n] EXCEPT !.status = st]
        /\ \A c \in Id : c # n => cashout'[c] = cashout[c]
    BY DEF TypeOK
  <1>3. cashout'[n].amt = cashout[n].amt /\ cashout'[n].status = st
    BY <1>1, <1>2 DEF CashoutRow
  <1>4. QED
    BY <1>2, <1>3

(* One refund more: the cashout holds its amount less.                     *)
LEMMA RefundHeld ==
  ASSUME TypeOK, TypeOK', NEW n \in Id, AddRow(n, "refund"), cashout'[n].amt = cashout[n].amt
  PROVE  HeldOf(n)' = HeldOf(n) - cashout[n].amt
  <1>1. /\ ledger'[n].debit = ledger[n].debit /\ ledger'[n].refund = ledger[n].refund + 1
        /\ ledger[n].debit \in Int /\ ledger[n].refund \in Int /\ cashout[n].amt \in Int
    BY AddRowStep, RowType, HeldType
  <1>2. \A a, d, f \in Int : a * (d - (f + 1)) = a * (d - f) - a
    OBVIOUS
  <1>3. QED
    BY <1>1, <1>2 DEF HeldOf

(* The commit of a refund, by whomever.                                    *)
LEMMA RefundFunds ==
  ASSUME IndInv, IndInv', FundsInv, WalletApart, NEW r \in Proc,
         CommitRefund(r) \/ CommitRepair(r)
  PROVE  FundsInv'
  <1>0. PICK n : n = req[r].id
    OBVIOUS
  <1>1. /\ TypeOK /\ TypeOK' /\ Finish(r) /\ Release(r) /\ ShowWallet(r) /\ AddRow(n, "refund")
        /\ req[r].pc = "commit" /\ req[r].op \in Credits /\ InWallet(r)
    BY <1>0 DEF IndInv, CommitRefund, CommitRepair, At, Credits, InWallet
  <1>2. n \in Id /\ req[r].amt = cashout[n].amt /\ cashout[n].status # "NONE"
    <2>1. req[r].op \in Kinds \ {"cashout"}
      BY <1>1 DEF Credits, Kinds, RequestKinds, EngineKinds
    <2>2. QED
      BY <1>0, <1>1, <2>1 DEF IndInv, RequestOK, FundsInv, AmountRead, Row
  <1>3. /\ \A c \in Id : cashout'[c].amt = cashout[c].amt
        /\ \A c \in Id : cashout[c].status # "NONE" => cashout'[c].status # "NONE"
    <2>1. CASE CommitRepair(r)
      BY <2>1 DEF CommitRepair
    <2>2. CASE CommitRefund(r)
      BY <1>0, <1>1, <1>2, <2>2, StatusOnly DEF CommitRefund, Statuses
    <2>3. QED
      BY <2>1, <2>2
  <1>4. /\ HeldOf(n)' = HeldOf(n) - cashout[n].amt
        /\ HeldOf(n) \in Int /\ cashout[n].amt \in Int
    BY <1>1, <1>2, <1>3, RefundHeld, HeldType
  <1>5. \A c \in Id : c # n => HeldOf(c)' = HeldOf(c)
    BY <1>1, <1>2, <1>3, AddRowStep DEF HeldOf
  <1>6. avail' = avail + cashout[n].amt /\ avail \in Int
    BY <1>0, <1>1, <1>2, ShownFunds DEF TypeOK
  <1>7. FundsConserved'
    <2>1. PICK x \in Int, y \in Int : HeldOf(n) = x /\ HeldOf(n)' = y /\ y = x - cashout[n].amt
      BY <1>4
    <2>2. avail' = avail + x - y
      BY <1>4, <1>6, <2>1
    <2>3. FundsConserved /\ \A c \in Legacy : cashout'[c].amt = cashout[c].amt
      BY <1>3, IdFinite DEF FundsInv
    <2>4. QED
      BY <1>1, <1>2, <1>5, <2>1, <2>2, <2>3, FundsMoved
  <1>8. QED
    BY <1>1, <1>3, <1>7, OverFunds

(* The commit of a new cashout: it holds what the wallet lost.             *)
LEMMA CreateFunds ==
  ASSUME IndInv, IndInv', FundsInv, WalletApart, NEW r \in Proc, CommitCreate(r)
  PROVE  FundsInv'
  <1>0. PICK n, a : n = req[r].new /\ a = req[r].amt
    OBVIOUS
  <1>1. /\ TypeOK /\ TypeOK' /\ Finish(r) /\ Release(r) /\ ShowWallet(r) /\ AddRow(n, "debit")
        /\ cashout' = [cashout EXCEPT ![n] = [status |-> "PENDING", amt |-> a, retryOf |-> req[r].id]]
        /\ req[r].pc = "commit" /\ req[r].op \in Debits /\ req[r].op \notin Credits /\ InWallet(r)
    BY <1>0 DEF IndInv, CommitCreate, At, Debits, Credits, InWallet
  <1>2. n \in Id /\ cashout[n].status = "NONE" /\ a \in Int
    BY <1>0, <1>1, RequestType DEF IndInv, RequestOK, Inserted, At
  <1>3. n \notin Legacy /\ ledger[n] = NoLedger
    BY <1>2, CashoutFacts DEF FundsInv, LegacyStay
  <1>4. /\ cashout'[n].status = "PENDING" /\ cashout'[n].amt = a
        /\ \A c \in Id : c # n => cashout'[c] = cashout[c]
    BY <1>1, <1>2 DEF TypeOK
  <1>5. /\ ledger'[n].debit = 1 /\ ledger'[n].refund = 0
        /\ \A c \in Id : c # n => ledger'[c] = ledger[c]
    BY <1>1, <1>2, <1>3, AddRowStep DEF NoLedger
  <1>6. HeldOf(n) = 0 /\ HeldOf(n)' = a
    <2>1. HeldOf(n) = cashout[n].amt * (0 - 0) /\ cashout[n].amt \in Int
      BY <1>1, <1>2, <1>3, HeldType DEF HeldOf, NoLedger
    <2>2. HeldOf(n)' = a * (1 - 0)
      BY <1>4, <1>5 DEF HeldOf
    <2>3. QED
      BY <1>2, <2>1, <2>2
  <1>7. avail' = avail + 0 - a
    <2>1. avail' = avail - a /\ avail \in Int
      BY <1>0, <1>1, ShownFunds DEF TypeOK
    <2>2. QED
      BY <1>2, <2>1
  <1>8. FundsConserved'
    <2>1. \A c \in Id : c # n => HeldOf(c)' = HeldOf(c)
      BY <1>4, <1>5 DEF HeldOf
    <2>2. FundsConserved /\ \A c \in Legacy : cashout'[c].amt = cashout[c].amt
      BY <1>3, <1>4, IdFinite DEF FundsInv
    <2>3. QED
      BY <1>1, <1>2, <1>6, <1>7, <2>1, <2>2, FundsMoved
  <1>9. QED
    BY <1>1, <1>2, <1>4, <1>8, OverFunds

(* Paying, completing and rolling back leave the funds alone.              *)
LEMMA PaidFunds ==
  ASSUME IndInv, FundsInv, WalletApart, NEW r \in Proc, CommitPaid(r) \/ CompleteSave(r)
  PROVE  FundsInv'
  <1> DEFINE n == req[r].id
  <1>1. /\ TypeOK /\ Finish(r) /\ n \in Id /\ ~InWallet(r)
        /\ cashout' = cashout \/ cashout' = [cashout EXCEPT ![n].status = "COMPLETED"]
    <2>1. req[r].op \in {"complete", "engineComplete"} /\ Finish(r)
      BY DEF CommitPaid, CompleteSave, At
    <2>2. req[r].op \in Kinds \ {"cashout"} /\ ~InWallet(r)
      BY <2>1 DEF Kinds, RequestKinds, EngineKinds, InWallet, Credits, Debits
    <2>3. QED
      BY <2>1, <2>2 DEF IndInv, RequestOK, CommitPaid, CompleteSave
  <1>2. walletLock # r
    BY <1>1, NotLocked
  <1>3. avail' = avail /\ (UNCHANGED walletLock \/ Release(r))
    BY <1>2 DEF CommitPaid, CompleteSave, ShowWallet, locks
  <1>4. /\ \A c \in Id : ledger'[c].debit = ledger[c].debit /\ ledger'[c].refund = ledger[c].refund
    <2>1. CASE CommitPaid(r)
      <3>1. AddRow(n, "paid")
        BY <2>1 DEF CommitPaid
      <3>2. /\ \A d \in Id : d # n => ledger'[d] = ledger[d]
            /\ ledger'[n].debit = ledger[n].debit + 0 /\ ledger'[n].refund = ledger[n].refund + 0
        BY <1>1, <3>1, AddRowStep
      <3>3. ledger[n].debit \in Nat /\ ledger[n].refund \in Nat
        BY <1>1, RowType
      <3>4. QED
        BY <3>2, <3>3
    <2>2. CASE CompleteSave(r)
      BY <2>2 DEF CompleteSave
    <2>3. QED
      BY <2>1, <2>2
  <1> HIDE DEF n
  <1>5. /\ \A c \in Id : cashout'[c].amt = cashout[c].amt
        /\ \A c \in Id : cashout[c].status # "NONE" => cashout'[c].status # "NONE"
    <2>1. CASE cashout' = [cashout EXCEPT ![n].status = "COMPLETED"]
      BY <1>1, <2>1, StatusOnly DEF Statuses
    <2>2. QED
      BY <1>1, <2>1
  <1>6. FundsConserved'
    <2>1. \A c \in Id : HeldOf(c)' = HeldOf(c)
      BY <1>4, <1>5 DEF HeldOf
    <2>2. FundsConserved /\ \A c \in Legacy : cashout'[c].amt = cashout[c].amt
      BY <1>5, IdFinite DEF FundsInv
    <2>3. QED
      BY <1>3, <2>1, <2>2, FundsSame
  <1>7. QED
    BY <1>1, <1>2, <1>3, <1>5, <1>6, OverFunds

LEMMA NextFunds ==
  ASSUME NumberColumns
  PROVE  IndInv /\ IndInv' /\ FundsInv /\ WalletApart /\ [Next]_vars => FundsInv'
  <1> SUFFICES ASSUME IndInv, IndInv', FundsInv, WalletApart, [Next]_vars PROVE FundsInv'
    OBVIOUS
  <1>1. ASSUME NEW r \in Proc, Statement(r)
        PROVE  FundsInv'
    <2>1. ASSUME \/ CompleteRead(r) \/ FailRead(r) \/ CancelRead(r) \/ RepairRead(r) \/ RetryRead(r)
                 \/ EngineFailRead(r) \/ EngineCompleteRead(r)
          PROVE  FundsInv'
      <3> USE DEF Kinds, RequestKinds, EngineKinds, Credits, Debits
      <3>1. QED
        BY <2>1, ReadFunds
        DEF CompleteRead, FailRead, CancelRead, RepairRead, RetryRead, EngineFailRead, EngineCompleteRead
    <2>2. QED
      BY <1>1, <2>1, BeforeWalletFunds, WalletReadFunds, WalletSaveFunds, AfterSaveFunds,
         RefundFunds, CreateFunds, PaidFunds
      DEF Statement
  <1>2. ASSUME NEW r \in Proc, req[r].pc \in {"idle", "tick"}
        PROVE  ~InWallet(r) /\ walletLock # r
    BY <1>2, NotLocked DEF InWallet
  <1>3. ASSUME NEW r \in Req, NEW a \in Amounts, BeginCashout(r, a)
        PROVE  FundsInv'
    BY <1>2, <1>3, NewFunds DEF BeginCashout, Started, tables, locks, Proc
  <1>4. ASSUME NEW r \in Req, NEW kind \in RequestKinds, NEW c \in Id, Begin(r, kind, c)
        PROVE  FundsInv'
    BY <1>2, <1>4, NewFunds DEF Begin, Started, tables, locks, Proc
  <1>5. ASSUME NEW r \in Proc, Rollback(r)
        PROVE  FundsInv'
    BY <1>5, NewFunds DEF Rollback, NoRequest, Started, tables
  <1>6. ASSUME NEW t \in Tick, TickStart(t) \/ TickNext(t) \/ TickEnd(t)
        PROVE  FundsInv'
    <2>1. t \in Proc /\ TypeOK /\ UNCHANGED <<cashout, avail, ledger, walletLock>>
      BY <1>6 DEF Proc, IndInv, TickStart, TickNext, TickEnd, tables, locks
    <2>2. walletLock # t
      BY <1>2, <1>6, <2>1 DEF TickStart, TickNext, TickEnd
    <2>3. CASE TickStart(t)
      <3>1. req[t].op = "none"
        BY <2>1, <2>3 DEF TickStart, IndInv, RequestOK, PointOK
      <3>2. req[t] \in Request
        BY <2>1, RequestType
      <3> DEFINE new == [req[t] EXCEPT !.pc = "tick"]
      <3>3. req' = [req EXCEPT ![t] = new] /\ new.op = "none"
        BY <2>1, <2>3, <3>1, <3>2 DEF TickStart, TypeOK, Request
      <3> HIDE DEF new
      <3>4. QED
        BY <2>1, <2>2, <3>3, NewFunds
    <2>4. CASE TickNext(t)
      BY <2>1, <2>2, <2>4, NewFunds DEF TickNext, Started
    <2>5. CASE TickEnd(t)
      BY <2>1, <2>2, <2>5, NewFunds DEF TickEnd, NoRequest, Started
    <2>6. QED
      BY <1>6, <2>3, <2>4, <2>5
  <1>7. CASE UNCHANGED vars
    <2>1. UNCHANGED <<cashout, avail, ledger, req, walletLock>>
      BY <1>7 DEF vars, tables, locks
    <2>2. QED
      BY <2>1
      DEF FundsInv, FundsConserved, Held, HeldOf, TotalOf, LegacyStay, AmountRead, Computed, InWallet, Row
  <1>8. QED
    BY <1>1, <1>3, <1>4, <1>5, <1>6, <1>7 DEF Next

(* At the start the old rows hold their amounts.                           *)
LEMMA InitFunds == Init => FundsInv
  <1> SUFFICES ASSUME Init PROVE FundsInv
    OBVIOUS
  <1>1. TypeOK
    BY InitIndInv DEF IndInv
  <1> DEFINE d == [c \in Id |-> cashout[c].amt]
             e == [c \in Id |-> HeldOf(c)]
             f == [c \in Id |-> IF c \in Legacy THEN d[c] ELSE 0]
  <1>2. \A c \in Id : e[c] = f[c] /\ d[c] \in Int
    <2> TAKE c \in Id
    <2>1. cashout[c].amt \in Int
      BY <1>1, HeldType
    <2>2. CASE c \in Legacy
      BY <2>1, <2>2 DEF Init, DebitOnly, HeldOf
    <2>3. CASE c \notin Legacy
      BY <2>1, <2>3 DEF Init, NoLedger, HeldOf
    <2>4. QED
      BY <2>1, <2>2, <2>3
  <1>3. TotalOf(Legacy) = SumFunctionOnSet(d, Legacy) /\ Held = SumFunctionOnSet(e, Id)
    BY DEF TotalOf, Held
  <1>4. SumFunctionOnSet(d, Legacy) = SumFunctionOnSet(f, Id)
    <2> HIDE DEF d
    <2>1. QED
      BY <1>2, IdFinite, SumRestrict
  <1>5. avail = InitAvail
    BY DEF Init
  <1> HIDE DEF d, e, f
  <1>6. FundsConserved
    BY <1>2, <1>3, <1>4, <1>5, IdFinite, SumSame DEF FundsConserved
  <1>7. \A r \in Proc : AmountRead(r) /\ Computed(r)
    BY CashoutAssumption
    DEF Init, NoRequest, Started, AmountRead, Computed, InWallet, Kinds, RequestKinds, EngineKinds,
        Credits, Debits
  <1>8. LegacyStay
    BY IdFinite DEF Init, LegacyStay
  <1>9. QED
    BY <1>6, <1>7, <1>8 DEF FundsInv

-----------------------------------------------------------------------------
(* What the pages that read the rows add up to.                            *)

LEMMA AmountsPositive == \A a \in Amounts : a \in Nat /\ a > 0
  <1>1. \A a \in Amounts : a >= MinCashout
    BY CashoutAssumption, Zenon
  <1>2. QED
    BY <1>1, Constants DEF MinCashout

(* A step of r that writes no table: r is past the sum only when there is  *)
(* no refund, and has an amount above 0.                                   *)
LEMMA QuietCount ==
  ASSUME CountInv, NEW r \in Proc, UNCHANGED <<cashout, ledger>>,
         \A s \in Proc : s # r => req'[s] = req[s],
         Repairing(r)' => ledger[req'[r].id].refund = 0,
         req'[r].op \in Debits /\ req'[r].pc # "read" => req'[r].amt > 0
  PROVE  CountInv'
  <1>1. EachCounts'
    BY DEF CountInv, EachCounts
  <1>2. \A s \in Proc : Repairing(s)' => ledger'[req'[s].id].refund = 0
    BY DEF CountInv, Repairing
  <1>3. \A s \in Proc : req'[s].op \in Debits /\ req'[s].pc # "read" => req'[s].amt > 0
    BY DEF CountInv
  <1>4. QED
    BY <1>1, <1>2, <1>3 DEF CountInv

LEMMA NewCount ==
  ASSUME IndInv, CountInv, NEW r \in Proc, NEW new, req' = [req EXCEPT ![r] = new],
         UNCHANGED <<cashout, ledger>>,
         new.op = "none" \/ new.pc = "read" \/ (new.op = "cashout" /\ new.amt > 0)
  PROVE  CountInv'
  <1>1. req'[r] = new /\ \A s \in Proc : s # r => req'[s] = req[s]
    BY DEF IndInv, TypeOK
  <1>2. QED
    BY <1>1, QuietCount DEF Repairing, Debits

LEMMA FinishCount ==
  ASSUME IndInv, CountInv, NEW r \in Proc, Finish(r), UNCHANGED <<cashout, ledger>>
  PROVE  CountInv'
  <1> DEFINE new == Started("none", IF r \in Tick THEN "tick" ELSE "idle", 0, 0)
  <1>1. req' = [req EXCEPT ![r] = new] /\ new.op = "none"
    BY DEF Finish, Started
  <1> HIDE DEF new
  <1>2. QED
    BY <1>1, NewCount

LEMMA ReadCount ==
  ASSUME IndInv, CountInv, NEW r \in Proc, NEW kind \in Kinds \ {"cashout"}, NEW ok, NEW next,
         kind = "retry" => ok = {"FAILED"}, kind = "repair" => next = "sum",
         ReadCashout(r, kind, ok, next)
  PROVE  CountInv'
  <1>1. /\ req \in [Proc -> Request] /\ req[r] \in Request /\ req[r].op = kind
        /\ UNCHANGED <<cashout, ledger>> /\ req[r].id \in Id
    BY RequestType DEF IndInv, TypeOK, ReadCashout, At, tables, RequestOK
  <1>2. CASE Finish(r)
    BY <1>1, <1>2, FinishCount
  <1>3. CASE Row(r).status \in ok /\ req' = [req EXCEPT ![r].pc = next, ![r].amt = Row(r).amt]
    <2>1. /\ \A s \in Proc : s # r => req'[s] = req[s]
          /\ req'[r].op = kind /\ req'[r].pc = next /\ req'[r].amt = Row(r).amt
      BY <1>1, <1>3 DEF Request
    <2>2. kind \in Debits => Row(r).amt > 0
      BY <1>1, <1>3 DEF Debits, CountInv, EachCounts, Row
    <2>3. QED
      BY <1>1, <2>1, <2>2, QuietCount DEF Repairing
  <1>4. QED
    BY <1>2, <1>3 DEF ReadCashout

(* The sum of the ledger rows is that of a debit and nothing else.         *)
LEMMA SumFinds ==
  ASSUME IndInv, NEW c \in Id, Net(c) = -1
  PROVE  ledger[c].refund = 0
  <1>1. /\ ledger[c].debit \in Nat /\ ledger[c].refund \in Nat /\ ledger[c].paid \in Nat
        /\ ledger[c].debit <= 1
    BY RowType, CashoutFacts DEF IndInv
  <1>2. QED
    BY <1>1 DEF Net

LEMMA WithinCount ==
  ASSUME IndInv, CountInv, NEW r \in Proc,
         \/ Claim(r) \/ RepairSum(r) \/ RetryFindPending(r) \/ WalletRead(r) \/ WalletSave(r)
         \/ InsertCashout(r) \/ EngineSave(r)
  PROVE  CountInv'
  <1>1. /\ req \in [Proc -> Request] /\ req[r] \in Request /\ UNCHANGED <<cashout, ledger>>
        /\ req[r].pc \in {"claim", "sum", "findPending", "wallet", "saveWallet", "insert", "saveCashout"}
        /\ PointOK(req[r].op, req[r].pc)
    BY RequestType
    DEF IndInv, TypeOK, RequestOK, Claim, RepairSum, RetryFindPending, WalletRead, WalletSave,
        InsertCashout, EngineSave, At, tables
  <1>2. CASE Finish(r)
    BY <1>1, <1>2, FinishCount
  <1>3. CASE ~Finish(r)
    <2>1. /\ \A s \in Proc : s # r => req'[s] = req[s]
          /\ req'[r].op = req[r].op /\ req'[r].id = req[r].id /\ req'[r].amt = req[r].amt
      BY <1>1, <1>3
      DEF Claim, RepairSum, RetryFindPending, WalletRead, WalletSave, InsertCashout, EngineSave,
          Goto, Request
    <2>2. req[r].op = "repair" => ledger[req[r].id].refund = 0
      <3> SUFFICES ASSUME req[r].op = "repair" PROVE ledger[req[r].id].refund = 0
        OBVIOUS
      <3>1. CASE req[r].pc = "sum"
        <4>1. Net(req[r].id) = -1 /\ req[r].id \in Id
          BY <1>1, <1>3, <3>1
          DEF Claim, RepairSum, RetryFindPending, WalletRead, WalletSave, InsertCashout, EngineSave,
              At, IndInv, RequestOK, Kinds, RequestKinds
        <4>2. QED
          BY <4>1, SumFinds
      <3>2. CASE req[r].pc # "sum"
        BY <1>1, <3>2 DEF CountInv, Repairing, PointOK, EngineKinds, Debits
      <3>3. QED
        BY <3>1, <3>2
    <2>3. QED
      BY <1>1, <2>1, <2>2, QuietCount DEF Repairing, CountInv
  <1>4. QED
    BY <1>2, <1>3

(* The end of r's request writes one cashout n.                            *)
LEMMA CommitCount ==
  ASSUME IndInv, CountInv, NEW r \in Proc, Finish(r), NEW n \in Id,
         \A d \in Id : d # n => cashout'[d] = cashout[d] /\ ledger'[d] = ledger[d],
         cashout'[n].amt > 0, ledger'[n].debit = 1, ledger'[n].refund <= 1,
         n \in Legacy => cashout'[n].status # "PENDING",
         \A s \in Proc : s # r /\ Repairing(s) /\ req[s].id = n => ledger'[n].refund = 0
  PROVE  CountInv'
  <1>1. TypeOK /\ \A s \in Proc : s # r => req'[s] = req[s]
    BY DEF IndInv, TypeOK, Finish
  <1>2. req'[r].op = "none"
    BY <1>1 DEF Finish, Started, TypeOK
  <1>3. EachCounts'
    BY DEF CountInv, EachCounts
  <1>4. ASSUME NEW s \in Proc, Repairing(s)'
        PROVE  ledger'[req'[s].id].refund = 0
    <2>1. s # r /\ Repairing(s) /\ req'[s].id = req[s].id
      BY <1>1, <1>2, <1>4 DEF Repairing
    <2>2. req[s].id \in Id
      BY <2>1 DEF IndInv, RequestOK, Repairing, Kinds, RequestKinds
    <2>3. QED
      BY <2>1, <2>2 DEF CountInv
  <1>5. \A s \in Proc : req'[s].op \in Debits /\ req'[s].pc # "read" => req'[s].amt > 0
    BY <1>1, <1>2 DEF CountInv, Debits
  <1>6. QED
    BY <1>3, <1>4, <1>5 DEF CountInv

LEMMA CreateCount ==
  ASSUME IndInv, FundsInv, CountInv, NEW r \in Proc, CommitCreate(r)
  PROVE  CountInv'
  <1>0. PICK n : n = req[r].new
    OBVIOUS
  <1>1. /\ TypeOK /\ Finish(r) /\ AddRow(n, "debit") /\ req[r].amt > 0
        /\ n \in Id /\ cashout[n].status = "NONE"
    BY <1>0 DEF IndInv, CommitCreate, At, RequestOK, Inserted, CountInv
  <1>2. n \notin Legacy /\ ledger[n] = NoLedger
    BY <1>1, CashoutFacts DEF FundsInv, LegacyStay
  <1>3. cashout'[n].amt > 0 /\ \A d \in Id : d # n => cashout'[d] = cashout[d]
    BY <1>0, <1>1 DEF CommitCreate, TypeOK
  <1>4. /\ ledger'[n].debit = 1 /\ ledger'[n].refund = 0
        /\ \A d \in Id : d # n => ledger'[d] = ledger[d]
    BY <1>1, <1>2, AddRowStep DEF NoLedger
  <1>5. QED
    BY <1>1, <1>2, <1>3, <1>4, CommitCount

(* A refund: of a PENDING cashout, which no repair is at, ...              *)
LEMMA RefundCount ==
  ASSUME Tick = {}, ClaimInv, CountInv, NEW r \in Proc, CommitRefund(r)
  PROVE  CountInv'
  <1>0. PICK n : n = req[r].id
    OBVIOUS
  <1>1. /\ IndInv /\ TypeOK /\ Finish(r) /\ AddRow(n, "refund")
        /\ cashout' = [cashout EXCEPT ![n].status = "FAILED"]
    BY <1>0 DEF ClaimInv, IndInv, CommitRefund
  <1>2. HasClaim(r)
    BY <1>1, NoEngine DEF CommitRefund, HasClaim, At, EngineKinds
  <1>3. n \in Id /\ cashout[n].status = "PENDING"
    BY <1>0, <1>1, <1>2
    DEF IndInv, RequestOK, HasClaim, Kinds, RequestKinds, ClaimInv, ClaimsOK, Row
  <1>4. ledger[n] = DebitOnly /\ cashout[n].amt > 0
    BY <1>1, <1>3, CashoutFacts DEF CountInv, EachCounts
  <1>5. /\ cashout'[n].status = "FAILED" /\ cashout'[n].amt = cashout[n].amt
        /\ \A d \in Id : d # n => cashout'[d] = cashout[d]
    BY <1>1, <1>3, SetStatus, StatusOnly DEF Statuses
  <1>6. /\ ledger'[n].debit = 1 /\ ledger'[n].refund = 1
        /\ \A d \in Id : d # n => ledger'[d] = ledger[d]
    BY <1>1, <1>3, <1>4, AddRowStep DEF DebitOnly
  <1>7. \A s \in Proc : Repairing(s) => req[s].id # n
    BY <1>1, <1>3 DEF IndInv, RequestOK, Repairing, Row
  <1>8. QED
    BY <1>1, <1>3, <1>4, <1>5, <1>6, <1>7, CommitCount

(* ... or the only repair of an old one.                                   *)
LEMMA RepairCount ==
  ASSUME IndInv, CountInv, RepairsApart, NEW r \in Proc, CommitRepair(r)
  PROVE  CountInv'
  <1>0. PICK n : n = req[r].id
    OBVIOUS
  <1>1. /\ TypeOK /\ Finish(r) /\ AddRow(n, "refund") /\ cashout' = cashout
        /\ Repairing(r) /\ n \in Id /\ cashout[n].status # "NONE"
    BY <1>0 DEF IndInv, CommitRepair, At, Repairing, RequestOK, Kinds, RequestKinds, Row
  <1>2. ledger[n].refund = 0 /\ ledger[n].debit = 1 /\ cashout[n].amt > 0
    BY <1>0, <1>1 DEF CountInv, EachCounts
  <1>3. /\ ledger'[n].debit = 1 /\ ledger'[n].refund = 1
        /\ \A d \in Id : d # n => ledger'[d] = ledger[d]
    BY <1>1, <1>2, AddRowStep
  <1>4. \A s \in Proc : s # r /\ Repairing(s) => req[s].id # n
    BY <1>0, <1>1 DEF RepairsApart, Repairing
  <1>5. QED
    BY <1>1, <1>2, <1>3, <1>4, CommitCount DEF CountInv, EachCounts

LEMMA CompleteCount ==
  ASSUME IndInv, CountInv, NEW r \in Proc, CompleteSave(r)
  PROVE  CountInv'
  <1>0. PICK n : n = req[r].id
    OBVIOUS
  <1>1. /\ TypeOK /\ Finish(r) /\ ledger' = ledger
        /\ cashout' = [cashout EXCEPT ![n].status = "COMPLETED"]
        /\ n \in Id /\ cashout[n].status # "NONE"
    BY <1>0 DEF IndInv, CompleteSave, At, RequestOK, Kinds, RequestKinds, Row
  <1>2. /\ cashout'[n].status = "COMPLETED" /\ cashout'[n].amt = cashout[n].amt
        /\ \A d \in Id : d # n => cashout'[d] = cashout[d]
    BY <1>1, SetStatus, StatusOnly DEF Statuses
  <1>3. cashout[n].amt > 0 /\ ledger[n].debit = 1 /\ ledger[n].refund <= 1
    BY <1>1 DEF CountInv, EachCounts
  <1>4. \A s \in Proc : Repairing(s) => ledger[req[s].id].refund = 0
    BY DEF CountInv
  <1>5. QED
    BY <1>1, <1>2, <1>3, <1>4, CommitCount

LEMMA NextCount ==
  ASSUME Tick = {}
  PROVE  ClaimInv /\ FundsInv /\ CountInv /\ RepairsApart /\ [Next]_vars => CountInv'
  <1> SUFFICES ASSUME ClaimInv, FundsInv, CountInv, RepairsApart, [Next]_vars PROVE CountInv'
    OBVIOUS
  <1>1. IndInv
    BY DEF ClaimInv
  <1>2. ASSUME NEW r \in Proc, Statement(r)
        PROVE  CountInv'
    <2>1. ~EngineFailRead(r) /\ ~EngineCompleteRead(r) /\ ~CommitPaid(r)
      BY <1>1, NoEngine DEF EngineFailRead, EngineCompleteRead, ReadCashout, CommitPaid, At, EngineKinds
    <2>2. ASSUME \/ CompleteRead(r) \/ FailRead(r) \/ CancelRead(r) \/ RepairRead(r) \/ RetryRead(r)
          PROVE  CountInv'
      <3> USE DEF Kinds, RequestKinds
      <3>1. QED
        BY <1>1, <2>2, ReadCount DEF CompleteRead, FailRead, CancelRead, RepairRead, RetryRead
    <2>3. QED
      BY <1>1, <1>2, <2>1, <2>2, WithinCount, CreateCount, RefundCount, RepairCount, CompleteCount
      DEF Statement
  <1>3. ASSUME NEW r \in Req, NEW a \in Amounts, BeginCashout(r, a)
        PROVE  CountInv'
    BY <1>1, <1>3, NewCount, AmountsPositive DEF BeginCashout, Started, tables, Proc
  <1>4. ASSUME NEW r \in Req, NEW kind \in RequestKinds, NEW c \in Id, Begin(r, kind, c)
        PROVE  CountInv'
    BY <1>1, <1>4, NewCount DEF Begin, Started, tables, Proc
  <1>5. ASSUME NEW r \in Proc, Rollback(r)
        PROVE  CountInv'
    BY <1>1, <1>5, NewCount DEF Rollback, NoRequest, Started, tables
  <1>6. CASE UNCHANGED vars
    <2>1. UNCHANGED <<cashout, ledger, req>>
      BY <1>6 DEF vars, tables
    <2>2. QED
      BY <2>1 DEF CountInv, EachCounts, Repairing
  <1>7. QED
    BY <1>2, <1>3, <1>4, <1>5, <1>6 DEF Next

LEMMA InitCount == Init => CountInv
  <1> SUFFICES ASSUME Init PROVE CountInv
    OBVIOUS
  <1>1. EachCounts
    BY AmountsPositive DEF Init, EachCounts, NoRow, DebitOnly
  <1>2. \A r \in Proc : req[r].op = "none"
    BY DEF Init, NoRequest, Started
  <1>3. QED
    BY <1>1, <1>2 DEF CountInv, Repairing, Debits

(* What one cashout holds, and what it adds to the sums on either side.    *)
PaidIn(c) == IF cashout[c].status \in {"PENDING", "COMPLETED"} THEN cashout[c].amt ELSE 0

Unrepaired(c) == c \in Legacy /\ cashout[c].status = "FAILED" /\ ledger[c].refund = 0

PaidTwice(c) == cashout[c].status = "COMPLETED" /\ ledger[c].refund > 0

LEMMA EachReconciles ==
  ASSUME IndInv, FundsInv, RefundedOnce, CountInv, NEW c \in Id
  PROVE  HeldOf(c) = PaidIn(c) + (IF Unrepaired(c) THEN cashout[c].amt ELSE 0)
                               - (IF PaidTwice(c) THEN cashout[c].amt ELSE 0)
  <1>1. /\ cashout[c].amt \in Int /\ ledger[c].refund \in Nat /\ cashout[c].status \in Statuses
    BY HeldType, RowType DEF IndInv
  <1>2. CASE cashout[c].status = "NONE"
    BY <1>1, <1>2, CashoutFacts DEF HeldOf, NoLedger, PaidIn, Unrepaired, PaidTwice
  <1>3. CASE cashout[c].status # "NONE"
    <2>1. ledger[c].debit = 1 /\ ledger[c].refund \in {0, 1}
      BY <1>1, <1>3 DEF CountInv, EachCounts
    <2>2. HeldOf(c) = IF ledger[c].refund = 0 THEN cashout[c].amt ELSE 0
      BY <1>1, <2>1 DEF HeldOf
    <2>3. CASE cashout[c].status = "PENDING"
      BY <1>1, <2>2, <2>3, CashoutFacts DEF PaidIn, Unrepaired, PaidTwice, DebitOnly
    <2>4. CASE cashout[c].status = "COMPLETED"
      BY <1>1, <2>1, <2>2, <2>4 DEF PaidIn, Unrepaired, PaidTwice
    <2>5. CASE cashout[c].status = "FAILED"
      BY <1>1, <2>1, <2>2, <2>5, CashoutFacts DEF PaidIn, Unrepaired, PaidTwice
    <2>6. QED
      BY <1>1, <1>3, <2>3, <2>4, <2>5 DEF Statuses
  <1>4. QED
    BY <1>2, <1>3

(* The sum over part of the cashouts, as one over all of them.             *)
LEMMA TotalAsSum ==
  ASSUME TypeOK, NEW C \in SUBSET Id
  PROVE  /\ TotalOf(C) = SumFunctionOnSet([c \in Id |-> IF c \in C THEN cashout[c].amt ELSE 0], Id)
         /\ TotalOf(C) \in Int
  <1> DEFINE d == [c \in Id |-> cashout[c].amt]
             e == [c \in Id |-> IF c \in C THEN d[c] ELSE 0]
             f == [c \in Id |-> IF c \in C THEN cashout[c].amt ELSE 0]
  <1>1. \A c \in Id : d[c] \in Int /\ e[c] = f[c]
    BY HeldType
  <1>2. TotalOf(C) = SumFunctionOnSet(d, C)
    BY DEF TotalOf
  <1>3. e = f
    BY <1>1
  <1> HIDE DEF d
  <1>4. SumFunctionOnSet(d, C) = SumFunctionOnSet(e, Id)
    BY <1>1, IdFinite, SumRestrict
  <1>5. SumFunctionOnSet(d, C) \in Int
    BY <1>1, IdFinite, FS_Subset, SumInt
  <1>6. QED
    BY <1>2, <1>3, <1>4, <1>5

LEMMA Reconciles ==
  ASSUME IndInv, FundsInv, RefundedOnce, CountInv
  PROVE  MetricsReconcile
  <1> DEFINE unrepaired == {c \in Listed("FAILED") : ledger[c].refund = 0}
             old == {c \in Id : Unrepaired(c)}
             paidTwice == {c \in Listed("COMPLETED") : ledger[c].refund > 0}
             Amt(C) == [c \in Id |-> IF c \in C THEN cashout[c].amt ELSE 0]
             held == [c \in Id |-> HeldOf(c)]
             paid == [c \in Id |-> PaidIn(c)]
             p == Listed("PENDING")
             q == Listed("COMPLETED")
             k == Legacy \ unrepaired
  <1>1. TypeOK /\ p \in SUBSET Id /\ q \in SUBSET Id /\ k \in SUBSET Id /\ old \in SUBSET Id
        /\ paidTwice \in SUBSET Id
    BY IdFinite DEF IndInv, Listed
  <1>2. \A C \in SUBSET Id : TotalOf(C) = SumFunctionOnSet(Amt(C), Id) /\ TotalOf(C) \in Int
    BY <1>1, TotalAsSum
  <1>3. \A c \in Id : cashout[c].amt \in Int /\ HeldOf(c) \in Int
    BY <1>1, HeldType
  <1>4. Held + TotalOf(paidTwice) = TotalOf(p) + TotalOf(q) + TotalOf(old)
    <2>1. \A c \in Id : held[c] + Amt(paidTwice)[c] = paid[c] + Amt(old)[c]
      <3> TAKE c \in Id
      <3>1. c \in paidTwice <=> PaidTwice(c)
        BY DEF PaidTwice, Listed
      <3>2. HeldOf(c) = PaidIn(c) + (IF Unrepaired(c) THEN cashout[c].amt ELSE 0)
                                  - (IF PaidTwice(c) THEN cashout[c].amt ELSE 0)
        BY EachReconciles
      <3>3. PaidIn(c) \in Int /\ cashout[c].amt \in Int
        BY <1>3 DEF PaidIn
      <3>4. /\ held[c] = HeldOf(c) /\ paid[c] = PaidIn(c)
            /\ Amt(paidTwice)[c] = IF PaidTwice(c) THEN cashout[c].amt ELSE 0
            /\ Amt(old)[c] = IF Unrepaired(c) THEN cashout[c].amt ELSE 0
        BY <3>1
      <3> HIDE DEF held, paid, Amt
      <3>5. QED
        BY <3>2, <3>3, <3>4
    <2>2. \A c \in Id : /\ held[c] \in Int /\ Amt(paidTwice)[c] \in Int
                        /\ paid[c] \in Int /\ Amt(old)[c] \in Int
                        /\ Amt(p)[c] \in Int /\ Amt(q)[c] \in Int
                        /\ paid[c] = Amt(p)[c] + Amt(q)[c]
      BY <1>3 DEF PaidIn, Listed
    <2>3. Held = SumFunctionOnSet(held, Id)
      BY DEF Held
    <2> HIDE DEF held, paid, Amt, p, q, old, paidTwice
    <2>4. SumFunctionOnSet(held, Id) + SumFunctionOnSet(Amt(paidTwice), Id)
            = SumFunctionOnSet(paid, Id) + SumFunctionOnSet(Amt(old), Id)
      BY <2>1, <2>2, IdFinite, SumsAgree
    <2>5. SumFunctionOnSet(paid, Id) = SumFunctionOnSet(Amt(p), Id) + SumFunctionOnSet(Amt(q), Id)
      BY <2>2, IdFinite, SumPlus
    <2>6. QED
      BY <1>1, <1>2, <2>3, <2>4, <2>5
  <1>5. TotalOf(Legacy) = TotalOf(k) + TotalOf(old)
    <2>1. \A c \in Id : /\ Amt(k)[c] \in Int /\ Amt(old)[c] \in Int
                        /\ Amt(Legacy)[c] = Amt(k)[c] + Amt(old)[c]
      BY <1>3 DEF Unrepaired, Listed
    <2> HIDE DEF Amt
    <2>2. SumFunctionOnSet(Amt(Legacy), Id) = SumFunctionOnSet(Amt(k), Id) + SumFunctionOnSet(Amt(old), Id)
      BY <2>1, IdFinite, SumPlus
    <2> HIDE DEF k, old
    <2>3. QED
      BY <1>1, <1>2, <2>2, IdFinite
  <1>6. avail + Held = InitAvail + TotalOf(Legacy) /\ avail \in Int /\ InitAvail \in Int
    BY <1>1, Constants DEF FundsInv, FundsConserved, TypeOK
  <1>7. Held \in Int
    <2>1. \A c \in Id : held[c] \in Int
      BY <1>3
    <2>2. Held = SumFunctionOnSet(held, Id)
      BY DEF Held
    <2> HIDE DEF held
    <2>3. QED
      BY <2>1, <2>2, IdFinite, SumInt
  <1>8. avail + TotalOf(p) + TotalOf(q) = InitAvail + TotalOf(k) + TotalOf(paidTwice)
    <2> HIDE DEF p, q, k, old, paidTwice
    <2>1. /\ TotalOf(p) \in Int /\ TotalOf(q) \in Int /\ TotalOf(k) \in Int /\ TotalOf(old) \in Int
          /\ TotalOf(paidTwice) \in Int
      BY <1>1, <1>2
    <2>2. QED
      BY <1>4, <1>5, <1>6, <1>7, <2>1
  <1>9. NextPayout = {} <=> p = {}
    <2>1. p \in SUBSET Nat
      BY <1>1, Constants DEF Id
    <2>2. p # {} => \E c \in p : \A d \in p : c <= d
      BY <2>1, Least
    <2>3. QED
      BY <2>2 DEF NextPayout
  <1>10. TotalOf(p) = 0 <=> p = {}
    <2> DEFINE d == [c \in Id |-> cashout[c].amt]
    <2>1. IsFiniteSet(p) /\ TotalOf(p) = SumFunctionOnSet(d, p)
      BY <1>1, IdFinite, FS_Subset DEF TotalOf
    <2>2. \A c \in p : d[c] \in Nat /\ d[c] > 0
      <3> TAKE c \in p
      <3>1. c \in Id /\ cashout[c].status = "PENDING"
        BY DEF Listed
      <3>2. cashout[c].amt > 0 /\ cashout[c].amt \in Int
        BY <1>3, <3>1 DEF CountInv, EachCounts
      <3>3. QED
        BY <3>1, <3>2
    <2> HIDE DEF d, p
    <2>3. QED
      BY <2>1, <2>2, SumPositive
  <1>11. QED
    BY <1>8, <1>9, <1>10 DEF MetricsReconcile, TotalCents

-----------------------------------------------------------------------------
(* The watched system: a step of it is one of the system, and what         *)
(* overlaps after it has been seen.                                        *)
LEMMA WatchedStep ==
  ASSUME [WatchedNext]_watched
  PROVE  /\ [Next]_vars
         /\ overlaps \subseteq overlaps'
         /\ Overlapping' \subseteq overlaps' \/ UNCHANGED watched
BY DEF WatchedNext, watched

LEMMA WatchedIsSpec == WatchedSpec => Spec
  <1>1. WatchedInit => Init
    BY DEF WatchedInit
  <1>2. [WatchedNext]_watched => [Next]_vars
    BY WatchedStep
  <1>3. QED
    BY <1>1, <1>2, PTL DEF WatchedSpec, Spec

LEMMA NothingOverlaps == Init => WalletApart /\ RetriesApart /\ RepairsApart
  BY DEF Init, NoRequest, Started, WalletApart, InWallet, RetriesApart, Checked, RepairsApart, Repairing

(* What has not been seen does not overlap now.                            *)
LEMMA UnseenApart ==
  ASSUME [WatchedNext]_watched
  PROVE  /\ "wallet" \notin overlaps' => "wallet" \notin overlaps /\ (WalletApart' \/ UNCHANGED watched)
         /\ "retry" \notin overlaps' => "retry" \notin overlaps /\ (RetriesApart' \/ UNCHANGED watched)
         /\ "repair" \notin overlaps' => "repair" \notin overlaps /\ (RepairsApart' \/ UNCHANGED watched)
  <1>1. overlaps \subseteq overlaps' /\ (Overlapping' \subseteq overlaps' \/ UNCHANGED watched)
    BY WatchedStep
  <1>2. QED
    BY <1>1 DEF Overlapping

LEMMA SameApart ==
  ASSUME UNCHANGED watched
  PROVE  /\ WalletApart' <=> WalletApart
         /\ RetriesApart' <=> RetriesApart
         /\ RepairsApart' <=> RepairsApart
  BY DEF watched, vars, WalletApart, InWallet, RetriesApart, Checked, RepairsApart, Repairing

RetryWatched == "retry" \in overlaps \/ (RetriesApart /\ RetryInv)

(* retryCashout keeps retryOfCashoutId an idempotency link: whatever other *)
(* requests and ticks do, and wherever one is interrupted, one retry of a  *)
(* cashout at most is PENDING, unless two were past the check for one      *)
(* before either had committed.                                            *)
THEOREM RetriesLinked == WatchedSpec => []OneRetryApart
  <1>1. WatchedInit => RetryWatched
    BY InitRetry, NothingOverlaps DEF WatchedInit, RetryWatched
  <1>2. ASSUME IndInv, RetryWatched, [WatchedNext]_watched PROVE RetryWatched'
    <2> SUFFICES ASSUME "retry" \notin overlaps' PROVE RetriesApart' /\ RetryInv'
      BY DEF RetryWatched
    <2>1. RetriesApart /\ RetryInv /\ [Next]_vars
      BY <1>2, UnseenApart, WatchedStep DEF RetryWatched
    <2>2. RetriesApart'
      BY <1>2, <2>1, UnseenApart, SameApart
    <2>3. QED
      BY <1>2, <2>1, <2>2, NextRetry
  <1>3. RetryWatched => OneRetryApart
    BY DEF RetryWatched, RetryInv, OneRetryApart
  <1>4. QED
    BY <1>1, <1>2, <1>3, Inductive, WatchedIsSpec, PTL DEF WatchedSpec

FundsWatched == "wallet" \in overlaps \/ (WalletApart /\ FundsInv)

LEMMA InitFundsWatched == WatchedInit => FundsWatched
  BY InitFunds, NothingOverlaps DEF WatchedInit, FundsWatched

LEMMA NextFundsWatched ==
  ASSUME NumberColumns
  PROVE  IndInv /\ IndInv' /\ FundsWatched /\ [WatchedNext]_watched => FundsWatched'
  <1> SUFFICES ASSUME IndInv, IndInv', FundsWatched, [WatchedNext]_watched, "wallet" \notin overlaps'
               PROVE  WalletApart' /\ FundsInv'
    BY DEF FundsWatched
  <1>1. WalletApart /\ FundsInv /\ [Next]_vars
    BY UnseenApart, WatchedStep DEF FundsWatched
  <1>2. WalletApart'
    BY <1>1, UnseenApart, SameApart
  <1>3. QED
    BY <1>1, <1>2, NextFunds

(* "locked when cashout is created, refunded only if ...": whoever fails,  *)
(* repairs, completes or retries them, with the engine or without, and     *)
(* even where two refund one cashout, what is available and what the       *)
(* cashouts hold is what there was, unless a transaction read the wallet   *)
(* while another was about to save it.  Lost updates, and the appended     *)
(* digits of a bigint, are all that breaks it.                             *)
THEOREM FundsKept ==
  ASSUME NumberColumns
  PROVE  WatchedSpec => []FundsKeptApart
  <1>1. FundsWatched => FundsKeptApart
    BY DEF FundsWatched, FundsInv, FundsKeptApart
  <1>2. QED
    BY <1>1, InitFundsWatched, NextFundsWatched, Inductive, WatchedIsSpec, PTL DEF WatchedSpec

PagesWatched ==
  overlaps \cap {"wallet", "repair"} # {} \/ (RepairsApart /\ CountInv)

(* The pages an owner reads: with the engine off, what is available,       *)
(* pending and paid out is what there was, and there is a next payout      *)
(* exactly when something is pending, in all states, unless transactions   *)
(* overlapped on the wallet or two repairs were past the sum of the ledger *)
(* rows of one cashout at once.                                            *)
THEOREM PagesReconcile ==
  ASSUME NumberColumns, Tick = {}
  PROVE  WatchedSpec => []PagesReconcileApart
  <1>1. WatchedInit => PagesWatched
    BY InitCount, NothingOverlaps DEF WatchedInit, PagesWatched
  <1>2. ASSUME ClaimInv, FundsWatched, PagesWatched, [WatchedNext]_watched PROVE PagesWatched'
    <2> SUFFICES ASSUME "wallet" \notin overlaps', "repair" \notin overlaps'
                 PROVE  RepairsApart' /\ CountInv'
      BY DEF PagesWatched
    <2>1. FundsInv /\ RepairsApart /\ CountInv /\ [Next]_vars
      BY <1>2, UnseenApart, WatchedStep DEF PagesWatched, FundsWatched
    <2>2. RepairsApart'
      BY <1>2, <2>1, UnseenApart, SameApart
    <2>3. QED
      BY <1>2, <2>1, <2>2, NextCount
  <1>3. ASSUME ClaimInv, FundsWatched, PagesWatched PROVE PagesReconcileApart
    <2>1. CASE overlaps \cap {"wallet", "repair"} # {}
      BY <2>1 DEF PagesReconcileApart
    <2>2. CASE FundsInv /\ CountInv
      BY <1>3, <2>2, Reconciles DEF ClaimInv, PagesReconcileApart
    <2>3. QED
      BY <1>3, <2>1, <2>2 DEF PagesWatched, FundsWatched
  <1>4. QED
    BY <1>1, <1>2, <1>3, InitFundsWatched, NextFundsWatched, Inductive, ClaimHeld, WatchedIsSpec,
       PTL DEF WatchedSpec
=============================================================================
