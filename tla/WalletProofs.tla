---------------------------- MODULE WalletProofs ----------------------------
(* For any users, requests and amounts: no spendable or cashout balance    *)
(* goes negative, transactions wait in a circle only where money goes      *)
(* round, and only two requests at once give a user a second wallet.       *)
EXTENDS WalletTx, TLAPS

-----------------------------------------------------------------------------
(* Arithmetic.                                                             *)

(* The platform fee is never more than the price.                          *)
LEMMA PayoutNat == ASSUME NEW a \in Nat PROVE Payout(a) \in Nat
<1> DEFINE x == a * FeePercent
<1>1. FeePercent \in 0..100
  BY WalletAssumption
<1>2. x \in Nat /\ x <= 100 * a
  <2>1. 100 - FeePercent \in Nat
    BY <1>1
  <2>2. a * (100 - FeePercent) \in Nat
    BY <2>1
  <2>3. a * (100 - FeePercent) = a * 100 - x /\ x \in Nat
    BY <1>1
  <2> QED
    BY <2>2, <2>3
<1>3. Fee(a) = (2 * x + 100) \div 200
  BY <1>1 DEF Fee
<1> HIDE DEF x
<1> QED
  BY <1>2, <1>3 DEF Payout

LEMMA PlusEqNat ==
  ASSUME NEW s \in Nat, NEW n \in Nat PROVE PlusEq(s, n) \in Nat
<1>1. Shift(n) \in Nat
  BY DEF Shift
<1>2. s * Shift(n) \in Nat
  BY <1>1
<1> QED
  BY <1>2 DEF PlusEq

LEMMA PlusEqInt ==
  ASSUME NEW s \in Int, NEW n \in Int PROVE PlusEq(s, n) \in Int
<1>1. Shift(n) \in Int
  BY DEF Shift
<1>2. s * Shift(n) \in Int
  BY <1>1
<1> QED
  BY <1>2 DEF PlusEq

(* A checked change of a row leaves a row: what a debit takes was there.   *)
LEMMA ChangeRow ==
  ASSUME IndInv, NEW p \in Proc, NEW row \in Row, ~At(p, "idle"), req[p].op # "summary",
         Affords(req[p].op, req[p].leg, req[p].amt, row)
  PROVE  Change(p, row) \in Row
<1> DEFINE op == req[p].op
           leg == req[p].leg
           a == req[p].amt
           d == Delta(op, leg, a)
<1>1. /\ op \in Kinds \ {"summary"} /\ leg \in {1, 2} /\ a \in Nat
      /\ leg = 2 => op \in TwoLegs
  BY WalletAssumption DEF IndInv, TypeOK, Sane, SaneAt, Request
<1>2. Payout(a) \in Nat
  BY <1>1, PayoutNat
<1>3. /\ row.owner \in User \cup {Nobody} /\ row.bal \in Int /\ row.spend \in Nat /\ row.avail \in Nat
      /\ Affords(op, leg, a, row)
  BY DEF Row
<1> SUFFICES /\ Sum(p, row, "bal", d.bal) \in Int
             /\ Sum(p, row, "spend", d.spend) \in Nat
             /\ Sum(p, row, "avail", d.avail) \in Nat
  BY <1>3 DEF Change, Row
<1> HIDE DEF op, leg, a
<1>4. d.bal \in Int /\ d.spend \in Int /\ d.avail \in Int
  BY <1>1, <1>2 DEF Delta, Cols
<1>5. row.spend + d.spend \in Nat /\ row.avail + d.avail \in Nat
  BY <1>1, <1>2, <1>3 DEF Delta, Cols, Affords, Kinds, TwoLegs
<1>6. Appended(op, leg) => d.spend \in Nat /\ d.avail \in Nat
  BY <1>1, <1>2 DEF Delta, Cols, Appended, TwoLegs
<1> HIDE DEF d
<1>7. Sum(p, row, "bal", d.bal) \in Int
  <2>1. row["bal"] \in Int /\ row["bal"] + d.bal \in Int
    BY <1>3, <1>4
  <2>2. PlusEq(row["bal"], d.bal) \in Int
    BY <1>4, <2>1, PlusEqInt
  <2> QED
    BY <2>1, <2>2 DEF Sum
<1>8. Sum(p, row, "spend", d.spend) \in Nat
  BY <1>3, <1>5, <1>6, PlusEqNat DEF Sum, Row, op, leg
<1>9. Sum(p, row, "avail", d.avail) \in Nat
  BY <1>3, <1>5, <1>6, PlusEqNat DEF Sum, Row, op, leg
<1> QED
  BY <1>7, <1>8, <1>9

LEMMA NewRowType == ASSUME NEW u \in User PROVE NewRow(u) \in Row
BY DEF NewRow, NoRow, Row

LEMMA NoRowType == NoRow \in Row /\ NothingWritten \in [Id -> Row]
BY DEF NoRow, Row, NothingWritten

LEMMA OverwriteRow ==
  ASSUME NEW row \in Row, NEW val \in Row, NEW C \in SUBSET Cents
  PROVE  Overwrite(row, val, C) \in Row /\ Overwrite(row, val, C).owner = row.owner
BY DEF Overwrite, Row, Cents

LEMMA SeenRow ==
  ASSUME IndInv, NEW p \in Proc, NEW w \in Id PROVE Seen(p, w) \in Row
BY DEF IndInv, TypeOK, Seen

LEMMA LedgerRowInt ==
  ASSUME NEW op, NEW leg, NEW a \in Nat PROVE LedgerRow(op, leg, a) \in Int
<1>1. Payout(a) \in Nat
  BY PayoutNat
<1> QED
  BY <1>1 DEF LedgerRow

-----------------------------------------------------------------------------
(* Types.                                                                  *)

LEMMA InitInd == Init => IndInv
<1> SUFFICES ASSUME Init PROVE IndInv
  OBVIOUS
<1>1. NoRequest \in Request
  BY WalletAssumption, NoRowType DEF NoRequest, Started, Request
<1>2. TypeOK
  BY <1>1, NoRowType, WalletAssumption DEF Init, TypeOK, Id
<1>3. Sane
  BY DEF Init, Sane, SaneAt, NoRequest, Started, At
<1> QED
  BY <1>2, <1>3 DEF IndInv

(* A step that changes one request, to a sound one, keeps the requests     *)
(* sound.                                                                  *)
LEMMA OneRequest ==
  ASSUME IndInv, NEW p \in Proc, NEW r \in Request, req' = [req EXCEPT ![p] = r],
         SaneAt(p)'
  PROVE  req' \in [Proc -> Request] /\ Sane'
<1>1. req \in [Proc -> Request]
  BY DEF IndInv, TypeOK
<1>2. \A q \in Proc \ {p} : SaneAt(q)'
  BY <1>1 DEF IndInv, Sane, SaneAt, At
<1> QED
  BY <1>1, <1>2 DEF Sane

LEMMA FinishInd ==
  ASSUME IndInv, NEW p \in Proc, Finish(p)
  PROVE  /\ req' \in [Proc -> Request] /\ Sane'
         /\ mine' \in [Proc -> [Id -> Row]]
         /\ lock' \in [Id -> Proc \cup {Nobody}]
<1>1. NoRequest \in Request
  BY WalletAssumption, NoRowType DEF NoRequest, Started, Request
<1>2. SaneAt(p)'
  BY DEF IndInv, TypeOK, Finish, SaneAt, NoRequest, Started, At
<1>3. req' \in [Proc -> Request] /\ Sane'
  BY <1>1, <1>2, OneRequest DEF Finish
<1> QED
  BY <1>3, NoRowType DEF IndInv, TypeOK, Finish

LEMMA BeginInd ==
  ASSUME IndInv, NEW p \in Proc, NEW op \in Kinds, NEW u \in User, NEW v \in User,
         NEW a \in Amounts, Begin(p, op, u, v, a)
  PROVE  IndInv'
<1>1. a \in Nat
  <2>1. a \in AmountRange
    BY WalletAssumption
  <2> QED
    BY <2>1 DEF AmountRange, MaxAmount
<1>2. Started(op, "find", u, v, a) \in Request
  BY <1>1, WalletAssumption, NoRowType DEF Started, Request
<1>3. SaneAt(p)'
  BY DEF IndInv, TypeOK, Begin, SaneAt, Started, At
<1>4. req' \in [Proc -> Request] /\ Sane'
  BY <1>2, <1>3, OneRequest DEF Begin
<1> QED
  BY <1>4 DEF IndInv, TypeOK, Begin, tables

LEMMA FindInd ==
  ASSUME IndInv, NEW p \in Proc, Find(p)
  PROVE  IndInv'
<1>1. PICK w \in WalletsOf(p) :
         /\ Affords(req[p].op, req[p].leg, req[p].amt, Seen(p, w))
         /\ req' = [req EXCEPT ![p].pc = "select", ![p].w = w, ![p].val = Change(p, Seen(p, w))]
  BY DEF Find
<1> DEFINE r == [req[p] EXCEPT !.pc = "select", !.w = w, !.val = Change(p, Seen(p, w))]
<1>2. w \in Id
  BY DEF WalletsOf
<1>3. Change(p, Seen(p, w)) \in Row
  BY <1>1, <1>2, SeenRow, ChangeRow DEF Find, At
<1>4. r \in Request /\ req' = [req EXCEPT ![p] = r]
  <2>1. req[p] \in Request /\ w \in 0..MaxId
    BY <1>2, WalletAssumption DEF IndInv, TypeOK, Id
  <2>2. r \in Request
    BY <1>3, <2>1 DEF Request
  <2> QED
    BY <1>1, <2>2
<1>5. SaneAt(p)'
  BY <1>1, <1>2 DEF IndInv, TypeOK, Request, Find, Sane, SaneAt, At
<1>6. req' \in [Proc -> Request] /\ Sane'
  BY <1>4, <1>5, OneRequest
<1> QED
  BY <1>6 DEF IndInv, TypeOK, Find, tables

(* A user is marked as crossed, or nothing changes there.                  *)
LEMMA CrossType ==
  ASSUME crossed \in [User -> BOOLEAN], NEW p \in Proc, NEW u \in User, Cross(p, u)
  PROVE  /\ crossed' \in [User -> BOOLEAN]
         /\ \A x \in User \ {u} : crossed'[x] = crossed[x]
         /\ crossed'[u] <=> crossed[u] \/ \E q \in Proc \ {p} : Creates(q, u)
<1>1. crossed' = [crossed EXCEPT ![u] = crossed[u] \/ \E q \in Proc \ {p} : Creates(q, u)]
  BY DEF Cross
<1>2. (crossed[u] \/ \E q \in Proc \ {p} : Creates(q, u)) \in BOOLEAN
  OBVIOUS
<1> QED
  BY <1>1, <1>2, Zenon

LEMMA FindNoneInd ==
  ASSUME IndInv, NEW p \in Proc, FindNone(p)
  PROVE  IndInv'
<1> DEFINE r == [req[p] EXCEPT !.pc = "create"]
<1>1. req[p] \in Request /\ At(p, "find") /\ SaneAt(p)
  BY DEF IndInv, TypeOK, Sane, FindNone
<1>2. LegUser(p) \in User
  BY <1>1 DEF SaneAt, LegUser, At
<1>3. r \in Request /\ req' = [req EXCEPT ![p] = r]
  BY <1>1 DEF Request, FindNone
<1>4. SaneAt(p)'
  BY <1>1, <1>3 DEF IndInv, TypeOK, Request, FindNone, SaneAt, At
<1>5. req' \in [Proc -> Request] /\ Sane'
  BY <1>3, <1>4, OneRequest
<1>6. crossed' \in [User -> BOOLEAN]
  BY <1>2, CrossType DEF IndInv, TypeOK, FindNone
<1> QED
  BY <1>5, <1>6 DEF IndInv, TypeOK, FindNone, tables

LEMMA CreateInd ==
  ASSUME IndInv, NEW p \in Proc, Create(p)
  PROVE  IndInv'
<1> DEFINE r == [req[p] EXCEPT !.pc = "change", !.w = nextId, !.fresh = TRUE]
<1>1. req[p] \in Request /\ nextId \in Id /\ nextId' \in 1..MaxId + 1
  BY WalletAssumption DEF IndInv, TypeOK, Create, Id
<1>2. LegUser(p) \in User
  BY DEF IndInv, Sane, SaneAt, Create, LegUser, At
<1>3. r \in Request
  <2>1. nextId \in 0..MaxId
    BY <1>1, WalletAssumption DEF Id
  <2> QED
    BY <1>1, <2>1 DEF Request
<1>4. req' = [req EXCEPT ![p] = r]
  BY DEF Create
<1>5. SaneAt(p)'
  BY <1>1, <1>4 DEF IndInv, TypeOK, Request, Create, Sane, SaneAt, At
<1>6. req' \in [Proc -> Request] /\ Sane'
  BY <1>3, <1>4, <1>5, OneRequest
<1>7. wallet' \in [Id -> Row]
  BY <1>1, <1>2, NewRowType DEF IndInv, TypeOK, Create
<1> QED
  BY <1>1, <1>6, <1>7 DEF IndInv, TypeOK, Create

LEMMA ChangeCreatedInd ==
  ASSUME IndInv, NEW p \in Proc, ChangeCreated(p)
  PROVE  IndInv'
<1> DEFINE n == Change(p, NewRow(LegUser(p)))
           r == [req[p] EXCEPT !.pc = "select", !.val = n]
<1>1. req[p] \in Request /\ req[p].op \in Autocommit /\ ~At(p, "idle")
  BY DEF IndInv, TypeOK, Sane, SaneAt, ChangeCreated, Creating, At
<1>2. NewRow(LegUser(p)) \in Row
  BY <1>1, NewRowType DEF IndInv, Sane, SaneAt, LegUser
<1>3. n \in Row
  BY <1>1, <1>2, ChangeRow DEF Affords, Autocommit
<1> HIDE DEF n
<1>4. r \in Request
  BY <1>1, <1>3 DEF Request
<1>5. req' = [req EXCEPT ![p] = r]
  BY DEF ChangeCreated, n
<1>6. SaneAt(p)'
  BY <1>1, <1>5 DEF IndInv, TypeOK, Request, ChangeCreated, Sane, SaneAt, At
<1>7. req' \in [Proc -> Request] /\ Sane'
  BY <1>4, <1>5, <1>6, OneRequest
<1> QED
  BY <1>7 DEF IndInv, TypeOK, ChangeCreated, tables

LEMMA InsertReceiverInd ==
  ASSUME IndInv, NEW p \in Proc, InsertReceiver(p)
  PROVE  IndInv'
<1> DEFINE d == Delta(req[p].op, 2, req[p].amt)
           row == [owner |-> req[p].v, bal |-> d.bal, spend |-> d.spend, avail |-> d.avail]
           n == LedgerRow(req[p].op, 2, req[p].amt)
           r == [req[p] EXCEPT !.pc = "commit", !.w = nextId, !.rows[nextId] = @ + n]
<1>1. /\ req[p] \in Request /\ req[p].op \in TwoLegs /\ req[p].v \in User
      /\ nextId \in Id /\ nextId' \in 1..MaxId + 1
  BY WalletAssumption DEF IndInv, TypeOK, Sane, SaneAt, InsertReceiver, At, Id
<1>2. req[p].amt \in Nat /\ Payout(req[p].amt) \in Nat
  BY <1>1, PayoutNat DEF Request
<1>3. row \in Row
  BY <1>1, <1>2 DEF Delta, Cols, TwoLegs, Row
<1>4. n \in Int
  BY <1>2, LedgerRowInt
<1> HIDE DEF row, n
<1>5. r \in Request
  <2>1. nextId \in 0..MaxId
    BY <1>1, WalletAssumption DEF Id
  <2>2. req[p].rows \in [Id -> Int]
    BY <1>1 DEF Request
  <2>3. [req[p].rows EXCEPT ![nextId] = @ + n] \in [Id -> Int]
    BY <1>1, <1>4, <2>2
  <2> QED
    BY <1>1, <2>1, <2>3 DEF Request
<1>6. req' = [req EXCEPT ![p] = r]
  BY DEF InsertReceiver, n
<1>7. SaneAt(p)'
  <2>1. req'[p] = r
    BY <1>6 DEF IndInv, TypeOK
  <2>2. /\ r.pc = "commit" /\ r.w = nextId /\ r.op = req[p].op /\ r.leg = req[p].leg
        /\ r.u = req[p].u /\ r.v = req[p].v
    BY <1>1 DEF Request
  <2>3. SaneAt(p) /\ At(p, "create")
    BY DEF IndInv, Sane, InsertReceiver
  <2> QED
    BY <1>1, <2>1, <2>2, <2>3 DEF SaneAt, At, TwoLegs
<1>8. req' \in [Proc -> Request] /\ Sane'
  BY <1>5, <1>6, <1>7, OneRequest
<1>9. mine' \in [Proc -> [Id -> Row]]
  BY <1>1, <1>3 DEF IndInv, TypeOK, InsertReceiver, row
<1> QED
  BY <1>1, <1>8, <1>9 DEF IndInv, TypeOK, InsertReceiver

LEMMA SelectInd ==
  ASSUME IndInv, NEW p \in Proc, Select(p)
  PROVE  IndInv'
<1> DEFINE C == {c \in Cents : req[p].val[c] # Seen(p, req[p].w)[c]}
                  \cup (IF BigintStrings THEN Numbers(p) ELSE {})
           r == [req[p] EXCEPT !.pc = "update", !.cols = C]
<1>1. req[p] \in Request
  BY DEF IndInv, TypeOK
<1>2. C \in SUBSET Cents
  BY DEF Numbers, Assigned, Cents
<1> HIDE DEF C
<1>3. r \in Request
  BY <1>1, <1>2 DEF Request
<1>4. req' = [req EXCEPT ![p] = r]
  BY DEF Select, C
<1>5. SaneAt(p)'
  <2>1. /\ r.pc = "update" /\ r.w = req[p].w /\ r.op = req[p].op /\ r.leg = req[p].leg
        /\ r.u = req[p].u /\ r.v = req[p].v
    BY <1>1 DEF Request
  <2>2. req'[p] = r
    BY <1>4 DEF IndInv, TypeOK
  <2>3. SaneAt(p) /\ At(p, "select")
    BY DEF IndInv, Sane, Select
  <2> HIDE DEF r
  <2> QED
    BY <2>1, <2>2, <2>3 DEF SaneAt, At
<1>6. req' \in [Proc -> Request] /\ Sane'
  BY <1>3, <1>4, <1>5, OneRequest
<1> QED
  BY <1>6 DEF IndInv, TypeOK, Select, tables

LEMMA UpdateInd ==
  ASSUME IndInv, NEW p \in Proc, Update(p)
  PROVE  IndInv'
<1> DEFINE w == req[p].w
           row == Overwrite(Seen(p, w), req[p].val, req[p].cols)
           more == req[p].op \in TwoLegs /\ req[p].leg = 1
           n == LedgerRow(req[p].op, req[p].leg, req[p].amt)
           rows == [req[p].rows EXCEPT ![w] = @ + n]
           r == [req[p] EXCEPT !.pc = IF more THEN "find" ELSE "commit",
                               !.leg = IF more THEN 2 ELSE @, !.rows = rows]
<1>1. req[p] \in Request /\ w \in Id /\ At(p, "update")
  BY DEF IndInv, TypeOK, Sane, SaneAt, Update, At
<1>2. row \in Row
  BY <1>1, SeenRow, OverwriteRow DEF Request
<1>3. n \in Int
  BY <1>1, LedgerRowInt DEF Request
<1> HIDE DEF row, n
<1>4. r \in Request
  <2>1. req[p].rows \in [Id -> Int]
    BY <1>1 DEF Request
  <2>2. rows \in [Id -> Int]
    BY <1>1, <1>3, <2>1
  <2> QED
    BY <1>1, <2>2 DEF Request
<1>5. req' = [req EXCEPT ![p] = r]
  BY DEF Update, NextLeg, n
<1>6. SaneAt(p)'
  BY <1>1, <1>5 DEF IndInv, TypeOK, Request, Sane, SaneAt, At
<1>7. req' \in [Proc -> Request] /\ Sane'
  BY <1>4, <1>5, <1>6, OneRequest
<1>8. /\ wallet' \in [Id -> Row] /\ mine' \in [Proc -> [Id -> Row]]
      /\ lock' \in [Id -> Proc \cup {Nobody}]
  <2>1. \/ UNCHANGED <<wallet, mine, lock>>
        \/ lock' = [lock EXCEPT ![w] = p] /\ mine' = [mine EXCEPT ![p][w] = row] /\ wallet' = wallet
        \/ wallet' = [wallet EXCEPT ![w] = row] /\ lock' = lock /\ mine' = mine
    BY DEF Update, row
  <2>2. /\ wallet \in [Id -> Row] /\ mine \in [Proc -> [Id -> Row]]
        /\ lock \in [Id -> Proc \cup {Nobody}]
    BY DEF IndInv, TypeOK
  <2>3. /\ [wallet EXCEPT ![w] = row] \in [Id -> Row]
        /\ [lock EXCEPT ![w] = p] \in [Id -> Proc \cup {Nobody}]
        /\ [mine EXCEPT ![p][w] = row] \in [Proc -> [Id -> Row]]
    BY <1>1, <1>2, <2>2
  <2> QED
    BY <2>1, <2>2, <2>3
<1> QED
  BY <1>7, <1>8 DEF IndInv, TypeOK, Update

LEMMA CommitInd ==
  ASSUME IndInv, NEW p \in Proc, Commit(p)
  PROVE  IndInv'
<1>1. req[p] \in Request /\ req[p].w \in Id
  BY DEF IndInv, TypeOK, Sane, SaneAt, Commit, At
<1>2. wallet' \in [Id -> Row]
  BY SeenRow DEF Commit
<1>3. ledger' \in [Id -> Int] /\ cashed' \in [Id -> Nat]
  BY <1>1 DEF IndInv, TypeOK, Commit, Request
<1> QED
  BY <1>2, <1>3, FinishInd DEF IndInv, TypeOK, Commit

(* Refuse, Summarize and Rollback only end the request.                    *)
LEMMA EndInd ==
  ASSUME IndInv, NEW p \in Proc, Finish(p), UNCHANGED <<tables, calls, crossed>>
  PROVE  IndInv'
BY FinishInd DEF IndInv, TypeOK, tables

LEMMA NextInd == IndInv /\ [Next]_vars => IndInv'
<1> SUFFICES ASSUME IndInv, [Next]_vars PROVE IndInv'
  OBVIOUS
<1>1. CASE UNCHANGED vars
  BY <1>1 DEF IndInv, TypeOK, Sane, SaneAt, At, vars, tables
<1>2. ASSUME NEW p \in Proc, NEW op \in Kinds, NEW u \in User, NEW v \in User,
             NEW a \in Amounts, Begin(p, op, u, v, a)
      PROVE  IndInv'
  BY <1>2, BeginInd
<1>3. ASSUME NEW p \in Proc, Statement(p) \/ Rollback(p) PROVE IndInv'
  BY <1>3, FindInd, FindNoneInd, CreateInd, ChangeCreatedInd, InsertReceiverInd, SelectInd, UpdateInd,
     CommitInd, EndInd DEF Statement, Rollback, Refuse, Summarize
<1> QED
  BY <1>1, <1>2, <1>3 DEF Next

(* The wallets keep their types, and with them: however deposits,          *)
(* cashouts, purchases and transfers overwrite each other's saves, no      *)
(* spendable and no cashout balance is ever negative.                      *)
THEOREM TypeCorrect == Spec => []TypeOK
<1>1. IndInv => TypeOK
  BY DEF IndInv
<1> QED
  BY <1>1, InitInd, NextInd, PTL DEF Spec

-----------------------------------------------------------------------------
(* Locks.                                                                  *)

LEMMA InitLock == Init => LockInv
<1> SUFFICES ASSUME Init PROVE LockInv
  OBVIOUS
<1>1. RowsOK
  BY WalletAssumption DEF Init, RowsOK, Exists, NothingWritten
<1>2. \A p \in Proc : FoundAt(p) /\ OrderAt(p)
  BY WalletAssumption DEF Init, FoundAt, OrderAt, NoRequest, Started
<1> QED
  BY <1>1, <1>2, InitInd DEF LockInv

(* What the others know survives a step of p that keeps their writes and   *)
(* locks and the owners of the committed wallets.                          *)
LEMMA OthersKeep ==
  ASSUME LockInv, NEW p \in Proc, NEW q \in Proc \ {p}, req'[q] = req[q], mine'[q] = mine[q],
         \A w \in Id : lock'[w] = q => lock[w] = q,
         \A w \in Id : Exists(w) => Exists(w)' /\ wallet'[w].owner = wallet[w].owner
  PROVE  FoundAt(q)' /\ OrderAt(q)'
<1>1. FoundAt(q) /\ OrderAt(q) /\ SaneAt(q)
  BY DEF LockInv, IndInv, Sane
<1>2. FoundAt(q)'
  BY <1>1 DEF FoundAt, SaneAt, Seen, LegUser, Exists
<1>3. OrderAt(q)'
  BY <1>1 DEF OrderAt, At
<1> QED
  BY <1>2, <1>3

(* A step that changes only the request of p.                              *)
LEMMA Quiet ==
  ASSUME LockInv, NEW p \in Proc, UNCHANGED <<tables, lock, mine>>,
         \A q \in Proc \ {p} : req'[q] = req[q], IndInv', FoundAt(p)', OrderAt(p)'
  PROVE  LockInv'
<1>1. RowsOK'
  BY DEF LockInv, RowsOK, Exists, tables
<1>2. \A q \in Proc \ {p} : FoundAt(q)' /\ OrderAt(q)'
  BY OthersKeep DEF Exists, tables
<1> QED
  BY <1>1, <1>2 DEF LockInv

LEMMA BeginLock ==
  ASSUME LockInv, NEW p \in Proc, NEW op \in Kinds, NEW u \in User, NEW v \in User,
         NEW a \in Amounts, Begin(p, op, u, v, a)
  PROVE  LockInv'
<1>1. IndInv'
  BY BeginInd DEF LockInv
<1>2. req \in [Proc -> Request] /\ OrderAt(p)
  BY DEF LockInv, IndInv, TypeOK
<1>3. req' = [req EXCEPT ![p] = Started(op, "find", u, v, a)] /\ lock' = lock
  BY DEF Begin
<1>4. FoundAt(p)'
  BY <1>2, <1>3 DEF FoundAt, Started
<1>5. OrderAt(p)'
  BY <1>2, <1>3 DEF OrderAt, Started, At, Begin
<1> QED
  BY <1>1, <1>2, <1>3, <1>4, <1>5, Quiet DEF Begin

LEMMA FindLock ==
  ASSUME LockInv, NEW p \in Proc, Find(p)
  PROVE  LockInv'
<1>1. IndInv'
  BY FindInd DEF LockInv
<1>2. req \in [Proc -> Request] /\ OrderAt(p) /\ UNCHANGED <<tables, lock, mine>>
  BY DEF LockInv, IndInv, TypeOK, Find
<1>3. PICK w \in WalletsOf(p) :
         req' = [req EXCEPT ![p].pc = "select", ![p].w = w, ![p].val = Change(p, Seen(p, w))]
  BY DEF Find
<1>4. /\ req'[p].pc = "select" /\ req'[p].w = w /\ req'[p].op = req[p].op
      /\ req'[p].leg = req[p].leg /\ req'[p].u = req[p].u /\ req'[p].v = req[p].v
  BY <1>2, <1>3 DEF Request
<1>5. FoundAt(p)'
  BY <1>2, <1>4 DEF FoundAt, WalletsOf, Seen, LegUser, tables
<1>6. OrderAt(p)'
  BY <1>2, <1>4 DEF OrderAt, At, Find
<1> QED
  BY <1>1, <1>2, <1>3, <1>5, <1>6, Quiet

LEMMA FindNoneLock ==
  ASSUME LockInv, NEW p \in Proc, FindNone(p)
  PROVE  LockInv'
<1>1. IndInv'
  BY FindNoneInd DEF LockInv
<1>2. req \in [Proc -> Request] /\ OrderAt(p) /\ UNCHANGED <<tables, lock, mine>>
  BY DEF LockInv, IndInv, TypeOK, FindNone
<1>3. /\ req'[p].pc = "create" /\ req'[p].op = req[p].op
      /\ req'[p].leg = req[p].leg /\ req'[p].u = req[p].u /\ req'[p].v = req[p].v
      /\ \A q \in Proc \ {p} : req'[q] = req[q]
  BY <1>2 DEF FindNone, Request
<1>4. FoundAt(p)'
  BY <1>3 DEF FoundAt
<1>5. OrderAt(p)'
  BY <1>2, <1>3 DEF OrderAt, At, FindNone
<1> QED
  BY <1>1, <1>2, <1>3, <1>4, <1>5, Quiet

LEMMA SelectLock ==
  ASSUME LockInv, NEW p \in Proc, Select(p) \/ ChangeCreated(p)
  PROVE  LockInv'
<1>1. IndInv'
  BY SelectInd, ChangeCreatedInd DEF LockInv
<1>2. /\ req \in [Proc -> Request] /\ FoundAt(p) /\ OrderAt(p)
      /\ UNCHANGED <<tables, lock, mine>> /\ req[p].pc \in {"change", "select"}
  BY DEF LockInv, IndInv, TypeOK, Select, ChangeCreated, At
<1>3. /\ req'[p].pc \in {"select", "update"} /\ req'[p].w = req[p].w /\ req'[p].op = req[p].op
      /\ req'[p].leg = req[p].leg /\ req'[p].u = req[p].u /\ req'[p].v = req[p].v
      /\ \A q \in Proc \ {p} : req'[q] = req[q]
  BY <1>2 DEF Select, ChangeCreated, Request
<1>4. FoundAt(p)'
  BY <1>2, <1>3 DEF FoundAt, Seen, LegUser, tables
<1>5. OrderAt(p)'
  BY <1>2, <1>3 DEF OrderAt, At
<1> QED
  BY <1>1, <1>2, <1>3, <1>4, <1>5, Quiet

(* A rollback, or a commit of what p wrote.                                *)
LEMMA FinishLock ==
  ASSUME LockInv, NEW p \in Proc, Finish(p), IndInv', nextId' = nextId,
         wallet' = wallet \/ wallet' = [w \in Id |-> Seen(p, w)]
  PROVE  LockInv'
<1>1. /\ mine' = [mine EXCEPT ![p] = NothingWritten] /\ req' = [req EXCEPT ![p] = NoRequest]
      /\ lock' = [w \in Id |-> IF lock[w] = p THEN Nobody ELSE lock[w]]
      /\ RowsOK /\ TypeOK /\ Nobody \notin Proc
  BY WalletAssumption DEF Finish, LockInv, IndInv
<1>2. \A w \in Id : wallet'[w] = wallet[w] \/ (lock[w] = p /\ wallet'[w] = mine[p][w])
  BY <1>1 DEF RowsOK, Seen
<1>3. \A w \in Id : Exists(w) => Exists(w)' /\ wallet'[w].owner = wallet[w].owner
  BY <1>1, <1>2 DEF RowsOK, Exists
<1>4. \A w \in Id : Exists(w)' => wallet'[w].owner \in User
  BY <1>1, <1>2 DEF RowsOK, Exists
<1>5. \A q \in Proc, w \in Id :
        /\ lock'[w] = q <=> mine'[q][w] # NoRow
        /\ lock'[w] = q => q # p /\ lock[w] = q /\ mine'[q] = mine[q]
  BY <1>1 DEF RowsOK, TypeOK, NothingWritten
<1>6. \A q \in Proc, w \in Id : mine'[q][w] # NoRow =>
        mine'[q][w].owner \in User /\ (Exists(w)' => mine'[q][w].owner = wallet'[w].owner)
  BY <1>1, <1>2, <1>5 DEF RowsOK, Exists
<1>7. \A w \in Id : w >= nextId' => ~Exists(w)' /\ lock'[w] = Nobody
  BY <1>1, <1>2 DEF RowsOK, Exists
<1>8. RowsOK'
  BY <1>4, <1>5, <1>6, <1>7 DEF RowsOK
<1>9. FoundAt(p)' /\ OrderAt(p)'
  BY <1>1, <1>5 DEF FoundAt, OrderAt, NoRequest, Started, TypeOK
<1>10. \A q \in Proc \ {p} : FoundAt(q)' /\ OrderAt(q)'
  BY <1>1, <1>3, <1>5, OthersKeep DEF TypeOK
<1> QED
  BY <1>8, <1>9, <1>10 DEF LockInv

LEMMA CreateLock ==
  ASSUME LockInv, NEW p \in Proc, Create(p)
  PROVE  LockInv'
<1>1. IndInv'
  BY CreateInd DEF LockInv
<1>2. /\ nextId \in Id /\ nextId' = nextId + 1 /\ UNCHANGED <<lock, mine>>
      /\ wallet' = [wallet EXCEPT ![nextId] = NewRow(LegUser(p))]
      /\ TypeOK /\ RowsOK /\ SaneAt(p) /\ OrderAt(p) /\ At(p, "create")
  BY WalletAssumption DEF LockInv, IndInv, TypeOK, Sane, Create, Id
<1>3. LegUser(p) \in User /\ Nobody \notin User /\ Nobody \notin Proc
  BY <1>2, WalletAssumption DEF SaneAt, LegUser, At
<1>4. /\ ~Exists(nextId) /\ lock[nextId] = Nobody
      /\ \A q \in Proc : mine[q][nextId] = NoRow
  BY <1>2, <1>3 DEF RowsOK, TypeOK
<1>5. \A w \in Id : wallet'[w] = IF w = nextId THEN NewRow(LegUser(p)) ELSE wallet[w]
  BY <1>2 DEF TypeOK
<1>6. NewRow(LegUser(p)).owner = LegUser(p) /\ NewRow(LegUser(p)) # NoRow
  BY <1>3 DEF NewRow, NoRow
<1>7. RowsOK'
  BY <1>2, <1>3, <1>4, <1>5, <1>6 DEF RowsOK, Exists, Id
<1>8. /\ req'[p].pc = "change" /\ req'[p].w = nextId /\ req'[p].op = req[p].op
      /\ req'[p].leg = req[p].leg /\ req'[p].u = req[p].u /\ req'[p].v = req[p].v
      /\ \A q \in Proc \ {p} : req'[q] = req[q]
  BY <1>2 DEF Create, TypeOK, Request
<1>9. FoundAt(p)'
  BY <1>2, <1>4, <1>5, <1>6, <1>8 DEF FoundAt, Seen, LegUser
<1>10. OrderAt(p)'
  BY <1>2, <1>8 DEF OrderAt, At
<1>11. \A q \in Proc \ {p} : FoundAt(q)' /\ OrderAt(q)'
  BY <1>2, <1>4, <1>5, <1>8, OthersKeep DEF Exists
<1> QED
  BY <1>1, <1>7, <1>9, <1>10, <1>11 DEF LockInv

LEMMA InsertReceiverLock ==
  ASSUME LockInv, NEW p \in Proc, InsertReceiver(p)
  PROVE  LockInv'
<1> DEFINE d == Delta(req[p].op, 2, req[p].amt)
           row == [owner |-> req[p].v, bal |-> d.bal, spend |-> d.spend, avail |-> d.avail]
<1>1. IndInv'
  BY InsertReceiverInd DEF LockInv
<1>2. /\ nextId \in Id /\ nextId' = nextId + 1 /\ wallet' = wallet
      /\ lock' = [lock EXCEPT ![nextId] = p] /\ mine' = [mine EXCEPT ![p][nextId] = row]
      /\ TypeOK /\ RowsOK /\ SaneAt(p) /\ OrderAt(p) /\ At(p, "create") /\ req[p].leg = 2
  BY WalletAssumption DEF LockInv, IndInv, TypeOK, Sane, InsertReceiver, Id
<1>3. req[p].v \in User /\ Nobody \notin User /\ Nobody \notin Proc
  BY <1>2, WalletAssumption DEF SaneAt, At
<1>4. row.owner = req[p].v /\ row # NoRow
  BY <1>3 DEF NoRow
<1> HIDE DEF row
<1>5. ~Exists(nextId) /\ lock[nextId] = Nobody
  BY <1>2 DEF RowsOK, TypeOK
<1>6. \A q \in Proc, w \in Id :
        /\ mine'[q][w] = IF q = p /\ w = nextId THEN row ELSE mine[q][w]
        /\ lock'[w] = IF w = nextId THEN p ELSE lock[w]
  BY <1>2 DEF TypeOK
<1>7. RowsOK'
  BY <1>2, <1>3, <1>4, <1>5, <1>6 DEF RowsOK, Exists, Id
<1>8. /\ req'[p].pc = "commit" /\ req'[p].op = req[p].op
      /\ req'[p].leg = req[p].leg /\ req'[p].u = req[p].u /\ req'[p].v = req[p].v
      /\ \A q \in Proc \ {p} : req'[q] = req[q]
  BY <1>2 DEF InsertReceiver, TypeOK, Request
<1>9. FoundAt(p)'
  BY <1>8 DEF FoundAt
<1>10. OrderAt(p)'
  BY <1>2, <1>8 DEF OrderAt, SaneAt, At, TwoLegs, Autocommit
<1>11. \A q \in Proc \ {p} : FoundAt(q)' /\ OrderAt(q)'
  BY <1>2, <1>6, <1>8, OthersKeep DEF Exists, TypeOK
<1> QED
  BY <1>1, <1>7, <1>9, <1>10, <1>11 DEF LockInv

LEMMA UpdateLock ==
  ASSUME LockInv, NEW p \in Proc, Update(p)
  PROVE  LockInv'
<1> DEFINE x == req[p].w
           row == Overwrite(Seen(p, x), req[p].val, req[p].cols)
<1>1. IndInv'
  BY UpdateInd DEF LockInv
<1>2. /\ x \in Id /\ nextId' = nextId /\ Nobody \notin User /\ Nobody \notin Proc
      /\ TypeOK /\ RowsOK /\ SaneAt(p) /\ FoundAt(p) /\ OrderAt(p) /\ At(p, "update")
  BY WalletAssumption DEF LockInv, IndInv, TypeOK, Sane, SaneAt, Update, At
<1>3. /\ LegUser(p) \in User /\ Seen(p, x).owner = LegUser(p) /\ Seen(p, x) # NoRow
  BY <1>2 DEF SaneAt, FoundAt, LegUser, At
<1>4. row.owner = LegUser(p) /\ row # NoRow
  <2>1. Seen(p, x) \in Row /\ req[p].val \in Row /\ req[p].cols \in SUBSET Cents
    BY <1>2, SeenRow DEF LockInv, TypeOK, Request
  <2>2. row.owner = LegUser(p)
    BY <1>3, <2>1, OverwriteRow
  <2> QED
    BY <1>2, <1>3, <2>2 DEF NoRow
<1>5. \/ UNCHANGED <<wallet, mine, lock>>
      \/ /\ req[p].op \notin Autocommit /\ lock[x] \in {Nobody, p} /\ wallet' = wallet
         /\ lock' = [lock EXCEPT ![x] = p] /\ mine' = [mine EXCEPT ![p][x] = row]
      \/ /\ req[p].op \in Autocommit /\ lock[x] = Nobody /\ UNCHANGED <<lock, mine>>
         /\ wallet' = [wallet EXCEPT ![x] = row]
  BY DEF Update
<1> HIDE DEF row
<1>6. x < nextId /\ (Exists(x) => wallet[x].owner = LegUser(p))
  BY <1>2, <1>3 DEF RowsOK, Seen, Exists, TypeOK, Id
<1>7. /\ req'[p].pc \in {"find", "commit"} /\ req'[p].op = req[p].op
      /\ req'[p].pc = "find" => req[p].leg = 1 /\ req'[p].leg = 2 /\ req[p].op \in TwoLegs
      /\ req'[p].u = req[p].u /\ req'[p].v = req[p].v
      /\ \A q \in Proc \ {p} : req'[q] = req[q]
  BY <1>2 DEF Update, NextLeg, TypeOK, Request
<1>8. FoundAt(p)'
  BY <1>7 DEF FoundAt
<1>9. /\ RowsOK' /\ OrderAt(p)'
      /\ \A q \in Proc \ {p} : mine'[q] = mine[q] /\ \A w \in Id : lock'[w] = q => lock[w] = q
      /\ \A w \in Id : Exists(w) => Exists(w)' /\ wallet'[w].owner = wallet[w].owner
  <2>1. CASE UNCHANGED <<wallet, mine, lock>>
    <3>1. RowsOK'
      BY <1>2, <2>1 DEF RowsOK, Exists
    <3>2. OrderAt(p)'
      BY <1>2, <1>7, <2>1 DEF OrderAt, At
    <3> QED
      BY <2>1, <3>1, <3>2 DEF Exists
  <2>2. CASE /\ req[p].op \notin Autocommit /\ lock[x] \in {Nobody, p} /\ wallet' = wallet
             /\ lock' = [lock EXCEPT ![x] = p] /\ mine' = [mine EXCEPT ![p][x] = row]
    <3>1. \A q \in Proc, w \in Id :
            /\ mine'[q][w] = IF q = p /\ w = x THEN row ELSE mine[q][w]
            /\ lock'[w] = IF w = x THEN p ELSE lock[w]
      BY <1>2, <2>2 DEF TypeOK
    <3>2. RowsOK'
      <4>1. \A q \in Proc, w \in Id : lock'[w] = q <=> mine'[q][w] # NoRow
        BY <1>2, <1>4, <2>2, <3>1 DEF RowsOK
      <4>2. \A q \in Proc, w \in Id : mine'[q][w] # NoRow =>
              /\ mine'[q][w].owner \in User
              /\ Exists(w)' => mine'[q][w].owner = wallet'[w].owner
        BY <1>2, <1>3, <1>4, <1>6, <2>2, <3>1 DEF RowsOK, Exists
      <4>3. \A w \in Id : w >= nextId' => ~Exists(w)' /\ lock'[w] = Nobody
        BY <1>2, <1>6, <2>2, <3>1 DEF RowsOK, Exists, TypeOK, Id
      <4> QED
        BY <1>2, <2>2, <4>1, <4>2, <4>3 DEF RowsOK, Exists
    <3>3. OrderAt(p)'
      BY <1>2, <1>4, <1>7, <2>2, <3>1 DEF OrderAt, At, LegUser
    <3> QED
      BY <1>2, <2>2, <3>1, <3>2, <3>3 DEF Exists, TypeOK
  <2>3. CASE /\ req[p].op \in Autocommit /\ lock[x] = Nobody /\ UNCHANGED <<lock, mine>>
             /\ wallet' = [wallet EXCEPT ![x] = row]
    <3>1. \A w \in Id : wallet'[w] = IF w = x THEN row ELSE wallet[w]
      BY <1>2, <2>3 DEF TypeOK
    <3>2. /\ \A q \in Proc : mine[q][x] = NoRow
          /\ Exists(x)
      BY <1>2, <1>3, <2>3 DEF RowsOK, Seen, Exists
    <3>3. RowsOK'
      <4>1. \A w \in Id : Exists(w)' => Exists(w) /\ wallet'[w].owner = wallet[w].owner
        BY <1>4, <1>6, <3>1, <3>2 DEF Exists
      <4> QED
        BY <1>2, <2>3, <4>1 DEF RowsOK
    <3>4. OrderAt(p)'
      BY <1>2, <1>7, <2>3 DEF OrderAt, At, Autocommit, TwoLegs
    <3> QED
      BY <1>4, <1>6, <2>3, <3>1, <3>2, <3>3, <3>4 DEF Exists
  <2> QED
    BY <1>5, <2>1, <2>2, <2>3
<1>10. \A q \in Proc \ {p} : FoundAt(q)' /\ OrderAt(q)'
  BY <1>7, <1>9, OthersKeep
<1> QED
  BY <1>1, <1>8, <1>9, <1>10 DEF LockInv

LEMMA NextLock == LockInv /\ [Next]_vars => LockInv'
<1> SUFFICES ASSUME LockInv, [Next]_vars PROVE LockInv'
  OBVIOUS
<1>1. IndInv'
  BY NextInd DEF LockInv
<1>2. CASE UNCHANGED vars
  BY <1>1, <1>2 DEF LockInv, RowsOK, FoundAt, OrderAt, Exists, Seen, LegUser, At, vars, tables
<1>3. ASSUME NEW p \in Proc, NEW op \in Kinds, NEW u \in User, NEW v \in User,
             NEW a \in Amounts, Begin(p, op, u, v, a)
      PROVE  LockInv'
  BY <1>3, BeginLock
<1>4. ASSUME NEW p \in Proc, Finish(p), UNCHANGED tables PROVE LockInv'
  BY <1>1, <1>4, FinishLock DEF tables
<1>5. ASSUME NEW p \in Proc, Commit(p) PROVE LockInv'
  BY <1>1, <1>5, FinishLock DEF Commit
<1>6. ASSUME NEW p \in Proc, Statement(p) \/ Rollback(p) PROVE LockInv'
  BY <1>4, <1>5, <1>6, FindLock, FindNoneLock, CreateLock, SelectLock, InsertReceiverLock, UpdateLock
     DEF Statement, Rollback, Refuse, Summarize
<1> QED
  BY <1>2, <1>3, <1>6 DEF Next

(* One who waits in a circle is waited for: it holds the wallet of its     *)
(* payer, and waits for the one of its payee.                              *)
LEMMA CircleOfPayments == ASSUME LockInv PROVE CirclesArePayments
<1> SUFFICES ASSUME NEW S \in SUBSET Proc, Circle(S)
             PROVE  /\ \A p \in S : req[p].op \in TwoLegs
                    /\ {req[p].u : p \in S} = {req[p].v : p \in S}
  BY DEF CirclesArePayments
<1>1. Nobody \notin S /\ {WaitsFor(p) : p \in S} = S
  BY WalletAssumption DEF Circle
<1>2. ASSUME NEW p \in S
      PROVE  /\ At(p, "update") /\ req[p].w \in Id /\ WaitsFor(p) \in S
             /\ lock[req[p].w] = WaitsFor(p) /\ WaitsFor(p) # p
  BY <1>1 DEF WaitsFor, LockInv, IndInv, Sane, SaneAt, At
<1>3. ASSUME NEW p \in S, NEW w \in Id, lock[w] = p
      PROVE  req[p].leg = 2 /\ mine[p][w].owner = req[p].u /\ mine[p][w] # NoRow
  BY <1>2, <1>3 DEF LockInv, RowsOK, OrderAt, At
<1>4. ASSUME NEW p \in S PROVE req[p].leg = 2 /\ req[p].op \in TwoLegs
  <2>1. PICK q \in S : p = WaitsFor(q)
    BY <1>1
  <2>2. req[p].leg = 2
    BY <1>2, <1>3, <2>1
  <2> QED
    BY <2>2 DEF LockInv, IndInv, Sane, SaneAt
<1>5. ASSUME NEW p \in S PROVE req[p].v = req[WaitsFor(p)].u
  <2> DEFINE w == req[p].w
             q == WaitsFor(p)
  <2>1. w \in Id /\ q \in S /\ lock[w] = q /\ q # p /\ At(p, "update")
    BY <1>2
  <2>2. mine[p][w] = NoRow /\ mine[q][w] # NoRow /\ mine[q][w].owner = req[q].u
    BY <1>3, <2>1 DEF LockInv, RowsOK
  <2>3. Exists(w) /\ wallet[w].owner = req[p].v
    BY <1>4, <2>1, <2>2 DEF LockInv, FoundAt, Seen, LegUser, Exists, At
  <2> QED
    BY <2>1, <2>2, <2>3 DEF LockInv, RowsOK
<1>6. ASSUME NEW p \in S PROVE req[p].v \in {req[q].u : q \in S}
  BY <1>2, <1>5
<1>7. ASSUME NEW p \in S PROVE req[p].u \in {req[q].v : q \in S}
  <2>1. PICK q \in S : p = WaitsFor(q)
    BY <1>1
  <2> QED
    BY <1>5, <2>1
<1> QED
  BY <1>4, <1>6, <1>7

(* wallet.service.ts:365: deposits, dev credits, unlocks, cashouts,        *)
(* purchases and transfers, any number of them at once, wait for each      *)
(* other in a circle only where money goes round: a payment locks the      *)
(* wallet of the payer first and that of the payee last, and everything    *)
(* else locks one wallet.                                                  *)
THEOREM PaymentsCircle == Spec => []CirclesArePayments
<1>1. LockInv => CirclesArePayments
  BY CircleOfPayments
<1> QED
  BY <1>1, InitLock, NextLock, PTL DEF Spec

-----------------------------------------------------------------------------
(* Second wallets.                                                         *)

LEMMA InitCreate == Init => CreateInv
<1> SUFFICES ASSUME Init PROVE CreateInv
  OBVIOUS
<1>1. \A w \in Id : ~Exists(w) /\ \A p \in Proc : mine[p][w] = NoRow
  BY DEF Init, Exists, NothingWritten
<1>2. \A p \in Proc, u \in User : ~Creates(p, u)
  BY <1>1 DEF Creates, At, Init, NoRequest, Started
<1> QED
  BY <1>1, <1>2, InitLock DEF CreateInv, InsertedAt, OneCreator

(* What is left of one creator per user by a step after which there are no *)
(* new wallets and no new creators.                                        *)
LEMMA QuietCreate ==
  ASSUME CreateInv, LockInv', UNCHANGED crossed, \A p \in Proc : InsertedAt(p)',
         \A w \in Id : Exists(w)' => Exists(w) /\ wallet'[w].owner = wallet[w].owner,
         \A p \in Proc, u \in User : Creates(p, u)' => Creates(p, u)
  PROVE  CreateInv'
<1> SUFFICES ASSUME NEW u \in User, OneCreator(u) PROVE OneCreator(u)'
  BY DEF CreateInv
<1> QED
  BY DEF OneCreator

(* The others are where they were and wrote what they wrote.               *)
LEMMA OthersCreate ==
  ASSUME CreateInv, NEW p \in Proc, NEW q \in Proc \ {p}, req'[q] = req[q], mine'[q] = mine[q],
         \A w \in Id : Exists(w) => Exists(w)'
  PROVE  InsertedAt(q)' /\ \A u \in User : Creates(q, u)' => Creates(q, u)
<1>1. InsertedAt(q)'
  BY DEF CreateInv, InsertedAt, At
<1>2. ASSUME NEW u \in User, Creates(q, u)' PROVE Creates(q, u)
  BY <1>2 DEF Creates, At, LegUser
<1> QED
  BY <1>1, <1>2

(* Steps of p that only move it on, not to a creation.                     *)
LEMMA MoveCreate ==
  ASSUME CreateInv, LockInv', NEW p \in Proc, UNCHANGED <<crossed, wallet, mine>>,
         ~At(p, "commit"), ~At(p, "create")', \A q \in Proc \ {p} : req'[q] = req[q]
  PROVE  CreateInv'
<1>1. \A w \in Id : Exists(w)' <=> Exists(w)
  BY DEF Exists
<1>2. InsertedAt(p)'
  BY <1>1 DEF CreateInv, InsertedAt
<1>3. ASSUME NEW u \in User, Creates(p, u)' PROVE Creates(p, u)
  BY <1>1, <1>3 DEF Creates
<1> QED
  BY <1>1, <1>2, <1>3, OthersCreate, QuietCreate

(* Refused, rolled back or done, without a commit.                         *)
LEMMA FinishCreate ==
  ASSUME CreateInv, LockInv', NEW p \in Proc, Finish(p), UNCHANGED <<crossed, wallet>>
  PROVE  CreateInv'
<1>1. \A w \in Id : Exists(w)' <=> Exists(w)
  BY DEF Exists
<1>2. /\ req'[p] = NoRequest /\ \A w \in Id : mine'[p][w] = NoRow
      /\ \A q \in Proc \ {p} : req'[q] = req[q] /\ mine'[q] = mine[q]
  BY DEF Finish, NothingWritten, CreateInv, LockInv, IndInv, TypeOK
<1>3. InsertedAt(p)' /\ \A u \in User : ~Creates(p, u)'
  BY <1>2 DEF InsertedAt, Creates, At, NoRequest, Started
<1> QED
  BY <1>1, <1>2, <1>3, OthersCreate, QuietCreate

(* No wallet of the user is there; who else is creating one is crossed.    *)
LEMMA FindNoneCreate ==
  ASSUME CreateInv, LockInv', NEW p \in Proc, FindNone(p)
  PROVE  CreateInv'
<1>0. PICK v : v = LegUser(p)
  OBVIOUS
<1>1. /\ UNCHANGED <<wallet, mine>> /\ At(p, "find") /\ Cross(p, v) /\ WalletsOf(p) = {}
      /\ LockInv /\ IndInv /\ RowsOK /\ InsertedAt(p)
  BY <1>0 DEF FindNone, tables, CreateInv, LockInv
<1>2. /\ req'[p].pc = "create" /\ LegUser(p)' = v
      /\ \A q \in Proc \ {p} : req'[q] = req[q]
  BY <1>0, <1>1 DEF FindNone, IndInv, TypeOK, Request, LegUser
<1>3. v \in User
  BY <1>0, <1>1 DEF IndInv, Sane, SaneAt, LegUser, At
<1>4. \A w \in Id : (Exists(w)' <=> Exists(w)) /\ wallet'[w] = wallet[w]
  BY <1>1 DEF Exists
<1>5. \A w \in Id : ~Exists(w) => mine[p][w] = NoRow
  BY <1>1 DEF InsertedAt, At
<1>6. InsertedAt(p)'
  BY <1>1, <1>4, <1>5 DEF InsertedAt
<1>7. \A q \in Proc \ {p} : InsertedAt(q)' /\ \A u \in User : Creates(q, u)' => Creates(q, u)
  BY <1>1, <1>2, <1>4, OthersCreate
<1>8. ASSUME NEW u \in User, Creates(p, u)' PROVE u = v
  BY <1>1, <1>2, <1>4, <1>5, <1>8 DEF Creates, At
<1>9. \A w \in Id : Exists(w) => wallet[w].owner # v
  BY <1>0, <1>1 DEF WalletsOf, Seen, RowsOK, Exists
<1>10. ASSUME NEW u \in User PROVE crossed'[u] \/ OneCreator(u)'
  <2>1. CASE u = v
    <3>1. CASE crossed[v] \/ \E q \in Proc \ {p} : Creates(q, v)
      BY <1>1, <1>3, <2>1, <3>1, CrossType DEF IndInv, TypeOK
    <3>2. CASE ~crossed[v] /\ \A q \in Proc \ {p} : ~Creates(q, v)
      <4>1. OneCreator(v)
        BY <1>3, <3>2 DEF CreateInv
      <4>2. \A q \in Proc \ {p} : ~Creates(q, v)'
        BY <1>3, <1>7, <3>2
      <4> QED
        BY <1>4, <1>9, <2>1, <4>1, <4>2 DEF OneCreator
    <3> QED
      BY <3>1, <3>2
  <2>2. CASE u # v
    <3>1. crossed'[u] = crossed[u]
      BY <1>1, <1>3, <2>2, CrossType DEF IndInv, TypeOK
    <3>2. \A q \in Proc : Creates(q, u)' => Creates(q, u)
      BY <1>7, <1>8, <2>2
    <3>3. crossed[u] \/ OneCreator(u)
      BY DEF CreateInv
    <3> QED
      BY <1>4, <3>1, <3>2, <3>3 DEF OneCreator
  <2> QED
    BY <2>1, <2>2
<1> QED
  BY <1>6, <1>7, <1>10 DEF CreateInv

(* The one creator of a user becomes the one wallet of the user.           *)
LEMMA CreateCreate ==
  ASSUME CreateInv, LockInv', NEW p \in Proc, Create(p)
  PROVE  CreateInv'
<1>0. PICK v : v = LegUser(p)
  OBVIOUS
<1>1. /\ UNCHANGED <<mine, crossed>> /\ At(p, "create") /\ nextId \in Id
      /\ wallet' = [wallet EXCEPT ![nextId] = NewRow(v)]
      /\ LockInv /\ IndInv /\ RowsOK /\ InsertedAt(p) /\ TypeOK
  BY <1>0, WalletAssumption DEF Create, CreateInv, LockInv, IndInv, TypeOK, Id
<1>2. req'[p].pc = "change" /\ \A q \in Proc \ {p} : req'[q] = req[q]
  BY <1>1 DEF Create, TypeOK, Request
<1>3. v \in User /\ NewRow(v).owner = v
  BY <1>0, <1>1 DEF IndInv, Sane, SaneAt, LegUser, At, NewRow, NoRow
<1>4. ~Exists(nextId)
  BY <1>1 DEF RowsOK, TypeOK
<1>5. \A w \in Id : /\ Exists(w) => Exists(w)'
                    /\ Exists(w)' => Exists(w) \/ w = nextId
                    /\ w # nextId => wallet'[w] = wallet[w]
                    /\ w = nextId => wallet'[w].owner = v
  BY <1>1, <1>3, <1>4 DEF Exists, TypeOK
<1>6. \A w \in Id : ~Exists(w) => mine[p][w] = NoRow
  BY <1>1 DEF InsertedAt, At
<1>7. InsertedAt(p)' /\ \A u \in User : ~Creates(p, u)'
  BY <1>1, <1>2, <1>5, <1>6 DEF InsertedAt, Creates, At
<1>8. \A q \in Proc \ {p} : InsertedAt(q)' /\ \A u \in User : Creates(q, u)' => Creates(q, u)
  BY <1>1, <1>2, <1>5, OthersCreate
<1>9. Creates(p, v)
  BY <1>0, <1>1 DEF Creates
<1>10. ASSUME NEW u \in User, OneCreator(u) PROVE OneCreator(u)'
  <2>1. CASE u = v
    <3>1. \A w \in Id : Exists(w) => wallet[w].owner # v
      BY <1>9, <1>10, <2>1 DEF OneCreator
    <3>2. \A q \in Proc : ~Creates(q, v)'
      BY <1>3, <1>7, <1>8, <1>9, <1>10, <2>1 DEF OneCreator
    <3>3. \A w \in Id : Exists(w)' /\ wallet'[w].owner = v => w = nextId
      BY <1>5, <3>1
    <3> QED
      BY <2>1, <3>2, <3>3 DEF OneCreator
  <2>2. CASE u # v
    <3>1. \A q \in Proc : Creates(q, u)' => Creates(q, u)
      BY <1>7, <1>8
    <3>2. \A w \in Id : Exists(w)' /\ wallet'[w].owner = u => Exists(w) /\ wallet[w].owner = u
      BY <1>5, <2>2
    <3> QED
      BY <1>10, <3>1, <3>2 DEF OneCreator
  <2> QED
    BY <2>1, <2>2
<1> QED
  BY <1>1, <1>7, <1>8, <1>10 DEF CreateInv

(* The wallet of a receiver is inserted by the one who was creating it.    *)
LEMMA InsertReceiverCreate ==
  ASSUME CreateInv, LockInv', NEW p \in Proc, InsertReceiver(p)
  PROVE  CreateInv'
<1> DEFINE d == Delta(req[p].op, 2, req[p].amt)
           row == [owner |-> req[p].v, bal |-> d.bal, spend |-> d.spend, avail |-> d.avail]
<1>1. /\ UNCHANGED <<wallet, crossed>> /\ At(p, "create") /\ req[p].leg = 2 /\ nextId \in Id
      /\ mine' = [mine EXCEPT ![p][nextId] = row]
      /\ TypeOK /\ InsertedAt(p)
  BY WalletAssumption DEF InsertReceiver, CreateInv, LockInv, IndInv, TypeOK, Id
<1>2. row.owner = LegUser(p)
  BY <1>1 DEF LegUser
<1> HIDE DEF row
<1>3. /\ req'[p].pc = "commit" /\ req'[p].w = nextId
      /\ \A q \in Proc \ {p} : req'[q] = req[q] /\ mine'[q] = mine[q]
      /\ \A w \in Id : mine'[p][w] = IF w = nextId THEN row ELSE mine[p][w]
  BY <1>1 DEF InsertReceiver, TypeOK, Request
<1>4. \A w \in Id : Exists(w)' <=> Exists(w)
  BY <1>1 DEF Exists
<1>5. \A w \in Id : ~Exists(w) => mine[p][w] = NoRow
  BY <1>1 DEF InsertedAt, At
<1>6. InsertedAt(p)'
  BY <1>3, <1>4, <1>5 DEF InsertedAt, At
<1>7. ASSUME NEW u \in User, Creates(p, u)' PROVE Creates(p, u)
  <2>1. u = row.owner
    BY <1>3, <1>4, <1>5, <1>7 DEF Creates, At
  <2> QED
    BY <1>1, <1>2, <2>1 DEF Creates
<1> QED
  BY <1>1, <1>3, <1>4, <1>6, <1>7, OthersCreate, QuietCreate

(* An UPDATE writes a wallet that is there.                                *)
LEMMA UpdateCreate ==
  ASSUME CreateInv, LockInv', NEW p \in Proc, Update(p)
  PROVE  CreateInv'
<1> DEFINE x == req[p].w
           row == Overwrite(Seen(p, x), req[p].val, req[p].cols)
<1>1. /\ At(p, "update") /\ UNCHANGED crossed /\ x \in Id
      /\ LockInv /\ RowsOK /\ TypeOK /\ FoundAt(p) /\ InsertedAt(p)
  BY DEF Update, CreateInv, LockInv, IndInv, Sane, SaneAt, At
<1>2. \A w \in Id : ~Exists(w) => mine[p][w] = NoRow
  BY <1>1 DEF InsertedAt, At
<1>3. Exists(x)
  BY <1>1, <1>2 DEF FoundAt, Seen, Exists, At
<1>4. row.owner = Seen(p, x).owner /\ Seen(p, x).owner = wallet[x].owner
  <2>1. Seen(p, x) \in Row /\ req[p].val \in Row /\ req[p].cols \in SUBSET Cents
    BY <1>1, SeenRow DEF LockInv, TypeOK, Request
  <2> QED
    BY <1>1, <1>3, <2>1, OverwriteRow DEF RowsOK, Seen
<1>5. \/ UNCHANGED <<wallet, mine>>
      \/ wallet' = wallet /\ mine' = [mine EXCEPT ![p][x] = row]
      \/ mine' = mine /\ wallet' = [wallet EXCEPT ![x] = row]
  BY DEF Update
<1> HIDE DEF row
<1>6. \A q \in Proc \ {p} : req'[q] = req[q] /\ mine'[q] = mine[q]
  BY <1>1, <1>5 DEF Update, NextLeg, TypeOK
<1>7. req'[p].pc \in {"find", "commit"}
  BY <1>1 DEF Update, NextLeg, TypeOK, Request
<1>8. \A w \in Id : (Exists(w)' => Exists(w)) /\ wallet'[w].owner = wallet[w].owner
  BY <1>1, <1>3, <1>4, <1>5 DEF Exists, TypeOK
<1>9. \A w \in Id : Exists(w) => Exists(w)'
  <2>1. Exists(x) => wallet[x].owner \in User /\ NoRow.owner \notin User
    BY <1>1, WalletAssumption DEF RowsOK, NoRow
  <2> QED
    BY <1>1, <1>4, <1>5, <2>1 DEF Exists, TypeOK
<1>10. \A w \in Id : ~Exists(w)' => mine'[p][w] = NoRow
  BY <1>1, <1>2, <1>3, <1>5, <1>9 DEF TypeOK
<1>11. InsertedAt(p)' /\ \A u \in User : ~Creates(p, u)'
  BY <1>7, <1>10 DEF InsertedAt, Creates, At
<1> QED
  BY <1>1, <1>6, <1>8, <1>9, <1>11, OthersCreate, QuietCreate

(* A commit shows a receiver's new wallet: of a user who had none.         *)
LEMMA CommitCreate ==
  ASSUME CreateInv, LockInv', NEW p \in Proc, Commit(p)
  PROVE  CreateInv'
<1>1. /\ UNCHANGED crossed /\ Finish(p) /\ wallet' = [w \in Id |-> Seen(p, w)]
      /\ LockInv /\ RowsOK /\ TypeOK /\ InsertedAt(p)
  BY DEF Commit, CreateInv, LockInv, IndInv
<1>2. /\ req'[p] = NoRequest /\ \A w \in Id : mine'[p][w] = NoRow
      /\ \A q \in Proc \ {p} : req'[q] = req[q] /\ mine'[q] = mine[q]
  BY <1>1 DEF Finish, NothingWritten, TypeOK
<1>3. InsertedAt(p)' /\ \A u \in User : ~Creates(p, u)'
  BY <1>2 DEF InsertedAt, Creates, At, NoRequest, Started
<1>4. \A w \in Id : Exists(w) => Exists(w)' /\ wallet'[w].owner = wallet[w].owner
  BY <1>1 DEF RowsOK, Seen, Exists
<1>5. ASSUME NEW w \in Id, Exists(w)', ~Exists(w)
      PROVE  w = req[p].w /\ wallet'[w].owner \in User /\ Creates(p, wallet'[w].owner)
  <2>1. mine[p][w] # NoRow /\ wallet'[w] = mine[p][w]
    BY <1>1, <1>5 DEF Seen, Exists
  <2> QED
    BY <1>1, <1>5, <2>1 DEF InsertedAt, RowsOK, Creates
<1>6. \A q \in Proc \ {p} : InsertedAt(q)' /\ \A u \in User : Creates(q, u)' => Creates(q, u)
  BY <1>2, <1>4, OthersCreate
<1>7. ASSUME NEW u \in User, OneCreator(u) PROVE OneCreator(u)'
  <2>1. \A w, x \in Id : Exists(w)' /\ Exists(x)' /\ wallet'[w].owner = u /\ wallet'[x].owner = u => w = x
    BY <1>4, <1>5, <1>7 DEF OneCreator
  <2>2. \A q, r \in Proc : Creates(q, u)' /\ Creates(r, u)' => q = r
    BY <1>3, <1>6, <1>7 DEF OneCreator
  <2>3. \A q \in Proc, w \in Id : Creates(q, u)' /\ Exists(w)' => wallet'[w].owner # u
    BY <1>3, <1>4, <1>5, <1>6, <1>7 DEF OneCreator
  <2> QED
    BY <2>1, <2>2, <2>3 DEF OneCreator
<1> QED
  BY <1>1, <1>3, <1>6, <1>7 DEF CreateInv

LEMMA NextCreate == CreateInv /\ [Next]_vars => CreateInv'
<1> SUFFICES ASSUME CreateInv, [Next]_vars PROVE CreateInv'
  OBVIOUS
<1>1. LockInv' /\ LockInv /\ TypeOK
  BY NextLock DEF CreateInv, LockInv, IndInv
<1>2. CASE UNCHANGED vars
  BY <1>1, <1>2 DEF CreateInv, InsertedAt, OneCreator, Creates, Exists, LegUser, At, vars, tables
<1>3. ASSUME NEW p \in Proc, NEW op \in Kinds, NEW u \in User, NEW v \in User,
             NEW a \in Amounts, Begin(p, op, u, v, a)
      PROVE  CreateInv'
  <2>1. /\ UNCHANGED <<crossed, wallet, mine>> /\ req[p].pc = "idle" /\ req'[p].pc = "find"
        /\ \A q \in Proc \ {p} : req'[q] = req[q]
    BY <1>1, <1>3 DEF Begin, Started, At, tables, TypeOK
  <2> QED
    BY <1>1, <2>1, MoveCreate DEF At
<1>4. ASSUME NEW p \in Proc, Find(p) \/ ChangeCreated(p) \/ Select(p) PROVE CreateInv'
  <2>1. /\ UNCHANGED <<crossed, wallet, mine>> /\ req[p].pc \in {"find", "change", "select"}
        /\ req'[p].pc \in {"select", "update"}
        /\ \A q \in Proc \ {p} : req'[q] = req[q]
    <3>1. CASE Find(p)
      <4>1. PICK w \in WalletsOf(p) :
              req' = [req EXCEPT ![p].pc = "select", ![p].w = w, ![p].val = Change(p, Seen(p, w))]
        BY <3>1 DEF Find
      <4> QED
        BY <1>1, <3>1, <4>1 DEF Find, At, tables, TypeOK, Request
    <3>2. CASE ChangeCreated(p)
      BY <1>1, <3>2 DEF ChangeCreated, At, tables, TypeOK, Request
    <3>3. CASE Select(p)
      BY <1>1, <3>3 DEF Select, At, tables, TypeOK, Request
    <3> QED
      BY <1>4, <3>1, <3>2, <3>3
  <2> QED
    BY <1>1, <2>1, MoveCreate DEF At
<1>5. ASSUME NEW p \in Proc, Refuse(p) \/ Summarize(p) \/ Rollback(p) PROVE CreateInv'
  BY <1>1, <1>5, FinishCreate DEF Refuse, Summarize, Rollback, tables
<1>6. ASSUME NEW p \in Proc, Statement(p) \/ Rollback(p) PROVE CreateInv'
  BY <1>1, <1>4, <1>5, <1>6, FindNoneCreate, CreateCreate, InsertReceiverCreate, UpdateCreate,
     CommitCreate DEF Statement
<1> QED
  BY <1>2, <1>3, <1>6 DEF Next

(* wallet.service.ts:66: find, then insert, with no unique index, in       *)
(* autocommitted statements and in the middle of transactions that may be  *)
(* rolled back.  However many requests overlap: a user gets a second       *)
(* wallet only by two of them creating one at the same time.               *)
THEOREM WalletPerUser == Spec => []OneWallet
<1>1. CreateInv => OneWallet
  BY DEF CreateInv, LockInv, RowsOK, OneCreator, OneWallet
<1> QED
  BY <1>1, InitCreate, NextCreate, PTL DEF Spec

-----------------------------------------------------------------------------
(* One request at a time.                                                  *)

LEMMA NoRowOwner == NoRow.owner \notin User /\ \A w \in Id : NothingWritten[w] = NoRow
BY WalletAssumption DEF NoRow, NothingWritten

(* A table of one wallet per user stays one when a row is rewritten for    *)
(* its owner, and when a user without a wallet gets the next one.          *)
LEMMA RewriteOne ==
  ASSUME NEW t \in [Id -> Row], OnePerUser(t), NEW x \in Id, NEW row, t[x] # NoRow,
         row.owner = t[x].owner, nextId' = nextId
  PROVE  OnePerUser([t EXCEPT ![x] = row])'
BY NoRowOwner DEF OnePerUser

LEMMA AddOne ==
  ASSUME NEW t \in [Id -> Row], OnePerUser(t), NEW n \in Id, n = nextId, NEW row,
         row.owner \in User, \A w \in Id : t[w] # NoRow => t[w].owner # row.owner,
         nextId' = n + 1
  PROVE  OnePerUser([t EXCEPT ![n] = row])'
<1> DEFINE s == [t EXCEPT ![n] = row]
<1>1. \A w \in Id : s[w] = IF w = n THEN row ELSE t[w]
  OBVIOUS
<1>2. \A w \in Id : s[w] # NoRow => w < nextId' /\ s[w].owner \in User
  BY <1>1 DEF OnePerUser, Id
<1>3. \A w, x \in Id : s[w] # NoRow /\ s[x] # NoRow /\ s[w].owner = s[x].owner => w = x
  BY <1>1 DEF OnePerUser
<1> QED
  BY <1>2, <1>3 DEF OnePerUser

LEMMA ViewType == ASSUME IndInv, NEW p \in Proc PROVE View(p) \in [Id -> Row]
BY SeenRow DEF View

LEMMA ViewWallet ==
  ASSUME IndInv, NEW p \in Proc, mine[p] = NothingWritten PROVE View(p) = wallet
BY NoRowOwner DEF IndInv, TypeOK, View, Seen

LEMMA InitOwner == Init => OwnerInv
<1> SUFFICES ASSUME Init PROVE OwnerInv
  OBVIOUS
<1>1. IndInv
  BY InitInd
<1>2. OnePerUser(wallet)
  BY NoRowOwner DEF Init, OnePerUser
<1>3. \A p \in Proc : req[p] = NoRequest /\ At(p, "idle") /\ mine[p] = NothingWritten
  BY DEF Init, NoRequest, Started, At
<1>4. \A p \in Proc : OwnerAt(p)
  BY <1>1, <1>2, <1>3, ViewWallet DEF OwnerAt, FoundAt, At
<1> QED
  BY <1>1, <1>2, <1>4 DEF OwnerInv

(* What a step of p leaves of the others, who are idle when it commits.    *)
LEMMA OwnerStep ==
  ASSUME OwnerInv, NEW p \in Proc, IndInv', OnePerUser(wallet)', OwnerAt(p)',
         \A q \in Proc \ {p} :
           /\ req'[q] = req[q] /\ mine'[q] = mine[q]
           /\ At(q, "idle") \/ UNCHANGED <<wallet, nextId>>
  PROVE  OwnerInv'
<1> SUFFICES ASSUME NEW q \in Proc \ {p} PROVE OwnerAt(q)'
  BY DEF OwnerInv
<1>1. OwnerAt(q) /\ IndInv
  BY DEF OwnerInv
<1>2. CASE At(q, "idle")
  <2>1. mine'[q] = NothingWritten /\ req'[q] = NoRequest /\ req'[q].pc = "idle"
    BY <1>1, <1>2 DEF OwnerAt, At
  <2>2. View(q)' = wallet'
    BY <2>1, NoRowOwner DEF IndInv, TypeOK, View, Seen
  <2> QED
    BY <2>1, <2>2 DEF OwnerAt, FoundAt, At, OnePerUser
<1>3. CASE UNCHANGED <<wallet, nextId>>
  <2>1. View(q)' = View(q)
    BY <1>3 DEF View, Seen
  <2>2. OnePerUser(View(q))'
    BY <1>1, <1>3, <2>1 DEF OwnerAt, OnePerUser
  <2>3. FoundAt(q)' /\ WalletsOf(q)' = WalletsOf(q)
    BY <1>1, <1>3 DEF OwnerAt, FoundAt, WalletsOf, Seen, LegUser
  <2> QED
    BY <1>1, <2>2, <2>3 DEF OwnerAt, At
<1> QED
  BY <1>2, <1>3

LEMMA BeginOwner ==
  ASSUME OwnerInv, NEW p \in Proc, NEW op \in Kinds, NEW u \in User, NEW v \in User,
         NEW a \in Amounts, Begin(p, op, u, v, a)
  PROVE  OwnerInv'
<1>1. IndInv' /\ IndInv /\ OwnerAt(p) /\ OnePerUser(wallet)
  BY BeginInd DEF OwnerInv
<1>2. /\ req'[p] = Started(op, "find", u, v, a) /\ UNCHANGED <<wallet, nextId, mine>>
      /\ \A q \in Proc \ {p} : req'[q] = req[q]
  BY <1>1 DEF Begin, IndInv, TypeOK, tables
<1>3. View(p)' = View(p)
  BY <1>2 DEF View, Seen
<1>4. OwnerAt(p)'
  <2>1. mine'[p] = NothingWritten /\ req'[p].pc = "find"
    BY <1>1, <1>2 DEF OwnerAt, Begin, Started
  <2>2. OnePerUser(View(p))'
    BY <1>1, <1>2, <1>3 DEF OwnerAt, OnePerUser
  <2> QED
    BY <2>1, <2>2 DEF OwnerAt, FoundAt, At
<1>5. OnePerUser(wallet)'
  BY <1>1, <1>2 DEF OnePerUser
<1> QED
  BY <1>1, <1>2, <1>4, <1>5, OwnerStep

(* Steps that change only the request.                                     *)
LEMMA QuietOwner ==
  ASSUME OwnerInv, NEW p \in Proc, Find(p) \/ ChangeCreated(p) \/ Select(p)
  PROVE  OwnerInv'
<1>1. IndInv' /\ IndInv /\ OwnerAt(p) /\ OnePerUser(wallet)
  BY FindInd, ChangeCreatedInd, SelectInd DEF OwnerInv
<1>2. /\ UNCHANGED <<wallet, nextId, mine>>
      /\ req \in [Proc -> Request] /\ req'[p].pc \in {"select", "update"}
      /\ req[p].pc # "idle" /\ req'[p].op = req[p].op /\ req'[p].leg = req[p].leg
      /\ req'[p].u = req[p].u /\ req'[p].v = req[p].v
      /\ \A q \in Proc \ {p} : req'[q] = req[q]
  <2>1. req \in [Proc -> Request]
    BY <1>1 DEF IndInv, TypeOK
  <2>2. CASE Find(p)
    <3>1. PICK w \in WalletsOf(p) :
            req' = [req EXCEPT ![p].pc = "select", ![p].w = w, ![p].val = Change(p, Seen(p, w))]
      BY <2>2 DEF Find
    <3>2. UNCHANGED <<wallet, nextId, mine>> /\ req[p].pc = "find"
      BY <2>2 DEF Find, tables, At
    <3> QED
      BY <2>1, <3>1, <3>2 DEF Request
  <2>3. CASE ChangeCreated(p)
    BY <2>1, <2>3 DEF ChangeCreated, Request, tables, At
  <2>4. CASE Select(p)
    BY <2>1, <2>4 DEF Select, Request, tables, At
  <2> QED
    BY <2>1, <2>2, <2>3, <2>4
<1>3. View(p)' = View(p) /\ LegUser(p)' = LegUser(p)
  BY <1>2 DEF View, Seen, LegUser
<1>4. FoundAt(p)'
  <2>1. CASE Find(p)
    <3>1. PICK w \in WalletsOf(p) :
            req' = [req EXCEPT ![p].pc = "select", ![p].w = w, ![p].val = Change(p, Seen(p, w))]
      BY <2>1 DEF Find
    <3>2. req'[p].w = w
      BY <1>2, <3>1 DEF Request
    <3>3. Seen(p, w) # NoRow /\ Seen(p, w).owner = LegUser(p)
      BY DEF WalletsOf
    <3>4. Seen(p, req[p].w)' = Seen(p, w)
      BY <1>2, <3>2 DEF Seen
    <3> QED
      BY <1>3, <3>3, <3>4 DEF FoundAt
  <2>2. CASE ChangeCreated(p) \/ Select(p)
    <3>1. req'[p].w = req[p].w /\ req[p].pc \in {"change", "select"}
      BY <1>2, <2>2 DEF ChangeCreated, Select, At, Request
    <3> QED
      BY <1>1, <1>2, <1>3, <3>1 DEF OwnerAt, FoundAt, Seen
  <2> QED
    BY <2>1, <2>2
<1>5. OwnerAt(p)'
  <2>1. OnePerUser(View(p))'
    BY <1>1, <1>2, <1>3 DEF OwnerAt, OnePerUser
  <2> QED
    BY <1>1, <1>2, <1>4, <2>1 DEF OwnerAt, At
<1>6. OnePerUser(wallet)'
  BY <1>1, <1>2 DEF OnePerUser
<1> QED
  BY <1>1, <1>2, <1>5, <1>6, OwnerStep

(* A rollback leaves the table, a commit makes it what p saw.              *)
LEMMA FinishOwner ==
  ASSUME OwnerInv, Alone, NEW p \in Proc, Finish(p), IndInv', nextId' = nextId, ~At(p, "idle"),
         wallet' = wallet \/ wallet' = View(p)
  PROVE  OwnerInv'
<1>1. IndInv /\ OwnerAt(p) /\ OnePerUser(wallet)
  BY DEF OwnerInv
<1>2. /\ req'[p] = NoRequest /\ mine'[p] = NothingWritten
      /\ \A q \in Proc \ {p} : req'[q] = req[q] /\ mine'[q] = mine[q]
  BY <1>1 DEF Finish, IndInv, TypeOK
<1>3. \A q \in Proc \ {p} : At(q, "idle")
  BY DEF Alone
<1>4. OnePerUser(wallet)'
  <2>1. CASE wallet' = wallet
    BY <1>1, <2>1 DEF OnePerUser
  <2>2. CASE wallet' = View(p)
    BY <1>1, <2>2 DEF OwnerAt, OnePerUser
  <2> QED
    BY <2>1, <2>2
<1>5. OwnerAt(p)'
  <2>1. View(p)' = wallet'
    BY <1>2, NoRowOwner DEF IndInv, TypeOK, View, Seen
  <2>2. OnePerUser(View(p))'
    BY <1>4, <2>1 DEF OnePerUser
  <2>3. req'[p].pc = "idle"
    BY <1>2 DEF NoRequest, Started
  <2> QED
    BY <1>2, <2>2, <2>3 DEF OwnerAt, FoundAt, At
<1> QED
  BY <1>2, <1>3, <1>4, <1>5, OwnerStep

LEMMA FindNoneOwner ==
  ASSUME OwnerInv, NEW p \in Proc, FindNone(p)
  PROVE  OwnerInv'
<1>1. IndInv' /\ IndInv /\ OwnerAt(p) /\ OnePerUser(wallet)
  BY FindNoneInd DEF OwnerInv
<1>2. /\ UNCHANGED <<wallet, nextId, mine>> /\ req[p].pc = "find" /\ WalletsOf(p) = {}
      /\ req'[p].pc = "create" /\ req'[p].op = req[p].op /\ req'[p].leg = req[p].leg
      /\ req'[p].u = req[p].u /\ req'[p].v = req[p].v
      /\ \A q \in Proc \ {p} : req'[q] = req[q]
  BY <1>1 DEF FindNone, IndInv, TypeOK, Request, tables, At
<1>3. View(p)' = View(p) /\ WalletsOf(p)' = WalletsOf(p)
  BY <1>2 DEF View, WalletsOf, Seen, LegUser
<1>4. OnePerUser(View(p))' /\ OnePerUser(wallet)'
  BY <1>1, <1>2, <1>3 DEF OwnerAt, OnePerUser
<1>5. OwnerAt(p)'
  BY <1>1, <1>2, <1>3, <1>4 DEF OwnerAt, FoundAt, At
<1> QED
  BY <1>1, <1>2, <1>4, <1>5, OwnerStep

LEMMA CreateOwner ==
  ASSUME OwnerInv, Alone, NEW p \in Proc, Create(p)
  PROVE  OwnerInv'
<1>1. IndInv' /\ IndInv /\ OwnerAt(p) /\ OnePerUser(wallet)
  BY CreateInd DEF OwnerInv
<1>2. PICK n, row : n = nextId /\ row = NewRow(LegUser(p))
  OBVIOUS
<1>3. /\ n \in Id /\ nextId' = n + 1 /\ wallet' = [wallet EXCEPT ![n] = row] /\ mine' = mine
      /\ req' = [req EXCEPT ![p].pc = "change", ![p].w = n, ![p].fresh = TRUE]
      /\ req[p].pc = "create" /\ req[p].op \in Creating /\ WalletsOf(p) = {}
      /\ wallet \in [Id -> Row] /\ req \in [Proc -> Request]
  BY <1>1, <1>2, WalletAssumption
     DEF Create, IndInv, TypeOK, Sane, SaneAt, OwnerAt, Id, At
<1>4. LegUser(p) \in User
  BY <1>1, <1>3 DEF IndInv, Sane, SaneAt, LegUser, At
<1>5. row.owner = LegUser(p) /\ row # NoRow
  BY <1>2, <1>4, NoRowOwner DEF NewRow, NoRow
<1>6. mine[p] = NothingWritten /\ View(p) = wallet
  BY <1>1, <1>3, ViewWallet DEF OwnerAt
<1>7. \A w \in Id : wallet[w] # NoRow => wallet[w].owner # row.owner
  BY <1>3, <1>5, <1>6, NoRowOwner DEF WalletsOf, Seen
<1>8. OnePerUser(wallet)'
  <2>1. PICK t : t = wallet
    OBVIOUS
  <2>2. OnePerUser([t EXCEPT ![n] = row])'
    BY <1>1, <1>2, <1>3, <1>4, <1>5, <1>7, <2>1, AddOne
  <2> QED
    BY <1>3, <2>1, <2>2 DEF OnePerUser
<1>9. /\ req'[p].pc = "change" /\ req'[p].w = n /\ req'[p].op = req[p].op
      /\ req'[p].leg = req[p].leg /\ req'[p].u = req[p].u /\ req'[p].v = req[p].v
      /\ \A q \in Proc \ {p} : req'[q] = req[q]
  BY <1>3 DEF Request
<1>10. View(p)' = wallet'
  BY <1>3, <1>6, NoRowOwner DEF View, Seen
<1>11. OwnerAt(p)'
  <2>1. OnePerUser(View(p))'
    BY <1>8, <1>10 DEF OnePerUser
  <2>2. FoundAt(p)'
    BY <1>3, <1>5, <1>6, <1>9, NoRowOwner DEF FoundAt, Seen, LegUser
  <2> QED
    BY <1>3, <1>6, <1>9, <2>1, <2>2 DEF OwnerAt, At
<1>12. \A q \in Proc \ {p} : At(q, "idle")
  BY <1>3 DEF Alone, At
<1> QED
  BY <1>1, <1>3, <1>8, <1>9, <1>11, <1>12, OwnerStep

LEMMA InsertReceiverOwner ==
  ASSUME OwnerInv, Alone, NEW p \in Proc, InsertReceiver(p)
  PROVE  OwnerInv'
<1> DEFINE d == Delta(req[p].op, 2, req[p].amt)
<1>1. IndInv' /\ IndInv /\ OwnerAt(p) /\ OnePerUser(wallet) /\ View(p) \in [Id -> Row]
  BY InsertReceiverInd, ViewType DEF OwnerInv
<1>2. PICK n, row : /\ n = nextId
                    /\ row = [owner |-> req[p].v, bal |-> d.bal, spend |-> d.spend, avail |-> d.avail]
  OBVIOUS
<1>3. /\ n \in Id /\ nextId' = n + 1 /\ wallet' = wallet /\ mine' = [mine EXCEPT ![p][n] = row]
      /\ req[p].pc = "create" /\ req[p].leg = 2 /\ WalletsOf(p) = {}
      /\ mine \in [Proc -> [Id -> Row]] /\ req \in [Proc -> Request]
  BY <1>1, <1>2, WalletAssumption DEF InsertReceiver, IndInv, TypeOK, OwnerAt, Id, At
<1>4. row.owner = LegUser(p) /\ row.owner \in User /\ row # NoRow /\ req[p].op \in TwoLegs
  BY <1>1, <1>2, <1>3, NoRowOwner DEF IndInv, Sane, SaneAt, LegUser, At
<1>5. \A w \in Id : View(p)[w] # NoRow => View(p)[w].owner # row.owner
  BY <1>3, <1>4 DEF WalletsOf, View
<1>6. View(p)' = [View(p) EXCEPT ![n] = row]
  <2>1. \A w \in Id : mine'[p][w] = IF w = n THEN row ELSE mine[p][w]
    BY <1>3
  <2> QED
    BY <1>3, <1>4, <2>1 DEF View, Seen
<1>7. OnePerUser(View(p))'
  <2>1. PICK t : t = View(p)
    OBVIOUS
  <2>2. OnePerUser([t EXCEPT ![n] = row])'
    BY <1>1, <1>2, <1>3, <1>4, <1>5, <2>1, AddOne DEF OwnerAt
  <2> QED
    BY <1>6, <2>1, <2>2 DEF OnePerUser
<1>8. OnePerUser(wallet)'
  BY <1>1, <1>2, <1>3 DEF OnePerUser, Id
<1>9. /\ req'[p].pc = "commit" /\ req'[p].op = req[p].op
      /\ \A q \in Proc \ {p} : req'[q] = req[q] /\ mine'[q] = mine[q]
  BY <1>3 DEF InsertReceiver, Request
<1>10. OwnerAt(p)'
  BY <1>4, <1>7, <1>9 DEF OwnerAt, FoundAt, At, TwoLegs, Creating, Autocommit
<1>11. \A q \in Proc \ {p} : At(q, "idle")
  BY <1>3 DEF Alone, At
<1> QED
  BY <1>1, <1>8, <1>9, <1>10, <1>11, OwnerStep

LEMMA UpdateOwner ==
  ASSUME OwnerInv, Alone, NEW p \in Proc, Update(p)
  PROVE  OwnerInv'
<1>1. IndInv' /\ IndInv /\ OwnerAt(p) /\ OnePerUser(wallet) /\ View(p) \in [Id -> Row]
  BY UpdateInd, ViewType DEF OwnerInv
<1>2. PICK x, row : x = req[p].w /\ row = Overwrite(Seen(p, x), req[p].val, req[p].cols)
  OBVIOUS
<1>3. /\ x \in Id /\ nextId' = nextId /\ req[p].pc = "update" /\ req[p].op \notin {"summary"}
      /\ wallet \in [Id -> Row] /\ mine \in [Proc -> [Id -> Row]] /\ req \in [Proc -> Request]
  BY <1>1, <1>2 DEF Update, IndInv, TypeOK, Sane, SaneAt, At
<1>4. Seen(p, x) # NoRow /\ Seen(p, x).owner \in User /\ View(p)[x] = Seen(p, x)
  BY <1>1, <1>2, <1>3 DEF OwnerAt, FoundAt, OnePerUser, View
<1>5. row.owner = Seen(p, x).owner /\ row # NoRow
  <2>1. Seen(p, x) \in Row /\ req[p].val \in Row /\ req[p].cols \in SUBSET Cents
    BY <1>1, <1>3, SeenRow DEF Request
  <2> QED
    BY <1>2, <1>4, <2>1, OverwriteRow, NoRowOwner
<1>6. /\ req'[p].pc \in {"find", "commit"} /\ req'[p].op = req[p].op
      /\ \A q \in Proc \ {p} : req'[q] = req[q]
  BY <1>3 DEF Update, NextLeg, Request
<1>7. \/ UNCHANGED <<wallet, mine>>
      \/ /\ req[p].op \notin Autocommit /\ wallet' = wallet
         /\ mine' = [mine EXCEPT ![p][x] = row]
      \/ /\ req[p].op \in Autocommit /\ mine' = mine
         /\ wallet' = [wallet EXCEPT ![x] = row]
  BY <1>2 DEF Update
<1>8. OnePerUser(wallet)' /\ OnePerUser(View(p))'
  <2>1. CASE UNCHANGED <<wallet, mine>>
    <3>1. View(p)' = View(p)
      BY <2>1 DEF View, Seen
    <3>2. OnePerUser(wallet)'
      BY <1>1, <1>3, <2>1 DEF OnePerUser
    <3>3. OnePerUser(View(p))'
      BY <1>1, <1>3, <3>1 DEF OwnerAt, OnePerUser
    <3> QED
      BY <3>2, <3>3
  <2>2. CASE wallet' = wallet /\ mine' = [mine EXCEPT ![p][x] = row]
    <3>1. \A w \in Id : mine'[p][w] = IF w = x THEN row ELSE mine[p][w]
      BY <1>3, <2>2
    <3>2. View(p)' = [View(p) EXCEPT ![x] = row]
      BY <1>3, <1>5, <2>2, <3>1 DEF View, Seen
    <3>3. PICK t : t = View(p)
      OBVIOUS
    <3>4. OnePerUser([t EXCEPT ![x] = row])'
      BY <1>1, <1>3, <1>4, <1>5, <3>3, RewriteOne DEF OwnerAt
    <3> QED
      BY <1>1, <1>3, <2>2, <3>2, <3>3, <3>4 DEF OnePerUser
  <2>3. CASE /\ req[p].op \in Autocommit /\ mine' = mine
             /\ wallet' = [wallet EXCEPT ![x] = row]
    <3>1. mine[p] = NothingWritten /\ View(p) = wallet
      BY <1>1, <2>3, ViewWallet DEF OwnerAt, Creating
    <3>2. View(p)' = wallet'
      BY <1>3, <2>3, <3>1, NoRowOwner DEF View, Seen
    <3>3. PICK t : t = wallet
      OBVIOUS
    <3>4. OnePerUser([t EXCEPT ![x] = row])'
      BY <1>1, <1>3, <1>4, <1>5, <3>1, <3>3, RewriteOne
    <3> QED
      BY <2>3, <3>2, <3>3, <3>4 DEF OnePerUser
  <2> QED
    BY <1>7, <2>1, <2>2, <2>3
<1>9. \A q \in Proc \ {p} : At(q, "idle") /\ mine'[q] = mine[q]
  BY <1>3, <1>7 DEF Alone, At
<1>10. OwnerAt(p)'
  <2>1. req[p].op \in Creating => mine'[p] = NothingWritten
    BY <1>1, <1>3, <1>7 DEF OwnerAt, Creating
  <2> QED
    BY <1>6, <1>8, <2>1 DEF OwnerAt, FoundAt, At
<1> QED
  BY <1>1, <1>6, <1>8, <1>9, <1>10, OwnerStep

LEMMA NextOwner == OwnerInv /\ Alone /\ [Next]_vars => OwnerInv'
<1> SUFFICES ASSUME OwnerInv, Alone, [Next]_vars PROVE OwnerInv'
  OBVIOUS
<1>1. IndInv' /\ IndInv
  BY NextInd DEF OwnerInv
<1>2. CASE UNCHANGED vars
  BY <1>1, <1>2 DEF OwnerInv, OwnerAt, FoundAt, OnePerUser, View, WalletsOf, Seen, LegUser, At,
                    vars, tables
<1>3. ASSUME NEW p \in Proc, NEW op \in Kinds, NEW u \in User, NEW v \in User,
             NEW a \in Amounts, Begin(p, op, u, v, a)
      PROVE  OwnerInv'
  BY <1>3, BeginOwner
<1>4. ASSUME NEW p \in Proc, Finish(p), ~At(p, "idle"), UNCHANGED tables PROVE OwnerInv'
  BY <1>1, <1>4, FinishOwner DEF tables
<1>5. ASSUME NEW p \in Proc, Commit(p) PROVE OwnerInv'
  BY <1>1, <1>5, FinishOwner DEF Commit, View, At
<1>6. ASSUME NEW p \in Proc, Statement(p) \/ Rollback(p) PROVE OwnerInv'
  <2>1. CASE Refuse(p) \/ Summarize(p) \/ Rollback(p)
    BY <1>4, <2>1 DEF Refuse, Summarize, Rollback, At
  <2> QED
    BY <1>5, <1>6, <2>1, QuietOwner, FindNoneOwner, CreateOwner, InsertReceiverOwner,
       UpdateOwner DEF Statement
<1> QED
  BY <1>2, <1>3, <1>6 DEF Next

-----------------------------------------------------------------------------
(* ... and what it leaves in the wallets.                                  *)

(* On SQLite `+=` adds.                                                    *)
NumberColumns == ~BigintStrings

LEMMA ChangeAdds ==
  ASSUME NumberColumns, NEW p, NEW row
  PROVE  LET d == Delta(req[p].op, req[p].leg, req[p].amt)
         IN Change(p, row) = [owner |-> row.owner, bal |-> row.bal + d.bal,
                              spend |-> row.spend + d.spend, avail |-> row.avail + d.avail]
BY DEF NumberColumns, Change, Sum, PlusEq

(* A leg adds to the total what it writes in the ledger, and a cashout     *)
(* what it pays; it adds no more to the parts, but for an unlock, which    *)
(* was checked against the rest.                                           *)
LEMMA DeltaCovers ==
  ASSUME NEW op \in Kinds \ {"summary"}, NEW leg \in {1, 2}, NEW a \in Nat, leg = 2 => op \in TwoLegs
  PROVE  LET d == Delta(op, leg, a)
         IN /\ d.bal \in Int /\ d.spend \in Int /\ d.avail \in Int
            /\ d.bal = LedgerRow(op, leg, a) + IF op = "cashout" THEN a ELSE 0
            /\ op # "unlock" => d.spend + d.avail <= d.bal
            /\ op = "unlock" => d.spend = a /\ d.avail = 0 /\ d.bal = 0
            /\ op \in Autocommit \/ leg = 2 => d.bal >= 0
<1>1. Payout(a) \in Nat
  BY PayoutNat
<1> QED
  BY <1>1 DEF Delta, Cols, LedgerRow, Kinds, TwoLegs, Autocommit

LEMMA ChangeBacks ==
  ASSUME IndInv, NumberColumns, NEW p \in Proc, ~At(p, "idle"), req[p].op # "summary",
         NEW row \in Row, Affords(req[p].op, req[p].leg, req[p].amt, row),
         NEW due \in Int, Backs(row, due)
  PROVE  LET n == LedgerRow(req[p].op, req[p].leg, req[p].amt)
             paid == IF req[p].op = "cashout" THEN req[p].amt ELSE 0
         IN /\ Backs(Change(p, row), due + n + paid)
            /\ req[p].op \in Autocommit => Backs(Change(p, row), due)
<1> DEFINE op == req[p].op
           leg == req[p].leg
           a == req[p].amt
           d == Delta(op, leg, a)
           n == LedgerRow(op, leg, a)
           paid == IF op = "cashout" THEN a ELSE 0
<1>1. op \in Kinds \ {"summary"} /\ leg \in {1, 2} /\ a \in Nat /\ (leg = 2 => op \in TwoLegs)
  BY WalletAssumption DEF IndInv, TypeOK, Sane, SaneAt, Request, At
<1>2. row.bal \in Int /\ row.spend \in Nat /\ row.avail \in Nat
  BY DEF Row
<1>3. /\ Change(p, row).bal = row.bal + d.bal
      /\ Change(p, row).spend = row.spend + d.spend
      /\ Change(p, row).avail = row.avail + d.avail
  BY ChangeAdds
<1>4. op = "unlock" => row.bal - row.spend - row.avail >= a
  BY DEF Affords
<1> HIDE DEF op, leg, a
<1>5. n \in Int
  BY <1>1, LedgerRowInt
<1>6. /\ d.bal \in Int /\ d.spend \in Int /\ d.avail \in Int
      /\ d.bal = n + paid
      /\ op # "unlock" => d.spend + d.avail <= d.bal
      /\ op = "unlock" => d.spend = a /\ d.avail = 0 /\ d.bal = 0
      /\ op \in Autocommit => d.bal >= 0
  BY <1>1, DeltaCovers
<1> HIDE DEF d, n
<1>7. Backs(Change(p, row), due + n + paid) /\ (op \in Autocommit => Backs(Change(p, row), due))
  BY <1>1, <1>2, <1>3, <1>4, <1>5, <1>6 DEF Backs
<1> QED
  BY <1>7 DEF op, leg, a, n

LEMMA DueInt ==
  ASSUME IndInv, NEW p \in Proc, NEW w \in Id
  PROVE  Due(p, w) \in Int /\ ledger[w] + cashed[w] \in Int
<1>1. req[p].rows \in [Id -> Int] /\ req[p].amt \in Nat
  BY DEF IndInv, TypeOK, Request
<1> QED
  BY <1>1 DEF IndInv, TypeOK, Due

LEMMA InitMoney == Init => MoneyInv
<1> SUFFICES ASSUME Init PROVE MoneyInv
  OBVIOUS
<1>1. \A w \in Id : wallet[w] = NoRow /\ ledger[w] = 0 /\ cashed[w] = 0
  BY NoRowOwner DEF Init
<1>2. \A p \in Proc, w \in Id : Seen(p, w) = NoRow /\ req[p] = NoRequest /\ req[p].rows[w] = 0
                                /\ req[p].pc = "idle"
  BY NoRowOwner DEF Init, Seen, NoRequest, Started
<1>3. Backs(NoRow, 0)
  BY DEF Backs, NoRow
<1>4. \A p \in Proc, w \in Id : Due(p, w) = 0
  BY <1>1, <1>2 DEF Due, At
<1>5. \A p \in Proc : req[p].pc = "idle"
  BY DEF Init, NoRequest, Started
<1> QED
  BY <1>1, <1>2, <1>3, <1>4, <1>5, InitOwner DEF MoneyInv, MoneyAt, At

LEMMA MoneyStep ==
  ASSUME MoneyInv, NEW p \in Proc, OwnerInv', MoneyAt(p)',
         \A w \in Id : Backs(wallet[w], ledger[w] + cashed[w])',
         \A q \in Proc \ {p} :
           /\ req'[q] = req[q] /\ mine'[q] = mine[q]
           /\ At(q, "idle") \/ UNCHANGED <<wallet, ledger, cashed>>
  PROVE  MoneyInv'
<1> SUFFICES ASSUME NEW q \in Proc \ {p} PROVE MoneyAt(q)'
  BY DEF MoneyInv
<1>1. MoneyAt(q) /\ OwnerAt(q) /\ IndInv' /\ req'[q] = req[q] /\ mine'[q] = mine[q]
  BY DEF MoneyInv, OwnerInv
<1>2. CASE At(q, "idle")
  <2>1. mine'[q] = NothingWritten /\ req'[q] = NoRequest
    BY <1>1, <1>2 DEF OwnerAt
  <2>2. req'[q].pc = "idle" /\ \A w \in Id : req'[q].rows[w] = 0
    BY <2>1 DEF NoRequest, Started
  <2>3. ASSUME NEW w \in Id PROVE Seen(q, w)' = wallet'[w] /\ Due(q, w)' = (ledger[w] + cashed[w])'
    <3>1. (ledger[w] + cashed[w])' \in Int
      BY <1>1, DueInt DEF IndInv, TypeOK
    <3>2. Seen(q, w)' = wallet'[w]
      BY <2>1, NoRowOwner DEF Seen
    <3> QED
      BY <2>2, <3>1, <3>2 DEF Due, At
  <2>4. \A w \in Id : Backs(Seen(q, w), Due(q, w))'
    BY <2>3 DEF Backs
  <2> QED
    BY <2>2, <2>4 DEF MoneyAt, At
<1>3. CASE UNCHANGED <<wallet, ledger, cashed>>
  <2>1. \A w \in Id : Seen(q, w)' = Seen(q, w) /\ Due(q, w)' = Due(q, w)
    BY <1>1, <1>3 DEF Seen, Due, At
  <2>2. \A w \in Id : Backs(Seen(q, w), Due(q, w))'
    BY <1>1, <2>1 DEF MoneyAt, Backs
  <2>3. req[q].pc \in {"change", "select", "update"} =>
          /\ Seen(q, req[q].w)' = Seen(q, req[q].w)
          /\ LegUser(q)' = LegUser(q) /\ Change(q, Seen(q, req[q].w))' = Change(q, Seen(q, req[q].w))
    BY <1>1, <1>3 DEF Seen, LegUser, Change, Sum
  <2> QED
    BY <1>1, <2>2, <2>3 DEF MoneyAt, At
<1> QED
  BY <1>2, <1>3

LEMMA BeginMoney ==
  ASSUME MoneyInv, NEW p \in Proc, NEW op \in Kinds, NEW u \in User, NEW v \in User,
         NEW a \in Amounts, Begin(p, op, u, v, a)
  PROVE  MoneyInv'
<1>1. OwnerInv' /\ OwnerInv /\ IndInv /\ MoneyAt(p) /\ OwnerAt(p)
  BY BeginOwner DEF MoneyInv, OwnerInv
<1>2. /\ req'[p] = Started(op, "find", u, v, a) /\ UNCHANGED <<wallet, ledger, cashed, mine>>
      /\ req[p] = NoRequest
      /\ \A q \in Proc \ {p} : req'[q] = req[q]
  BY <1>1 DEF Begin, IndInv, TypeOK, tables, OwnerAt
<1>3. \A w \in Id : Seen(p, w)' = Seen(p, w) /\ Due(p, w)' = Due(p, w)
  BY <1>2 DEF Seen, Due, At, Started, NoRequest
<1>4. MoneyAt(p)'
  <2>1. \A w \in Id : Backs(Seen(p, w), Due(p, w))'
    BY <1>1, <1>3 DEF MoneyAt, Backs
  <2> QED
    BY <1>2, <2>1 DEF MoneyAt, At, Started
<1>5. \A w \in Id : Backs(wallet[w], ledger[w] + cashed[w])'
  BY <1>2 DEF MoneyInv, Backs
<1> QED
  BY <1>1, <1>2, <1>4, <1>5, MoneyStep

LEMMA FindMoney ==
  ASSUME MoneyInv, NEW p \in Proc, Find(p)
  PROVE  MoneyInv'
<1>1. OwnerInv' /\ OwnerInv /\ req \in [Proc -> Request] /\ MoneyAt(p)
  BY QuietOwner DEF MoneyInv, OwnerInv, IndInv, TypeOK
<1>2. PICK x \in WalletsOf(p) :
        /\ Affords(req[p].op, req[p].leg, req[p].amt, Seen(p, x))
        /\ req' = [req EXCEPT ![p].pc = "select", ![p].w = x, ![p].val = Change(p, Seen(p, x))]
  BY DEF Find
<1>3. UNCHANGED <<wallet, ledger, cashed, mine>> /\ At(p, "find") /\ x \in Id
  BY DEF Find, tables, WalletsOf
<1>4. /\ req'[p].pc = "select" /\ req'[p].w = x /\ req'[p].val = Change(p, Seen(p, x))
      /\ req'[p].op = req[p].op /\ req'[p].leg = req[p].leg /\ req'[p].amt = req[p].amt
      /\ req'[p].fresh = req[p].fresh /\ req'[p].rows = req[p].rows
      /\ \A q \in Proc \ {p} : req'[q] = req[q]
  BY <1>1, <1>2 DEF Request
<1>5. \A w \in Id : Seen(p, w)' = Seen(p, w) /\ Due(p, w)' = Due(p, w)
  BY <1>3, <1>4 DEF Seen, Due, At
<1>6. \A w \in Id : Backs(Seen(p, w), Due(p, w))'
  BY <1>1, <1>5 DEF MoneyAt, Backs
<1>7. Seen(p, req[p].w)' = Seen(p, x) /\ Change(p, Seen(p, req[p].w))' = Change(p, Seen(p, x))
  BY <1>3, <1>4 DEF Seen, Change, Sum
<1>8. MoneyAt(p)'
  BY <1>2, <1>4, <1>6, <1>7 DEF MoneyAt, At
<1>9. \A w \in Id : Backs(wallet[w], ledger[w] + cashed[w])'
  BY <1>3 DEF MoneyInv, Backs
<1> QED
  BY <1>1, <1>3, <1>4, <1>8, <1>9, MoneyStep

LEMMA FindNoneMoney ==
  ASSUME MoneyInv, NEW p \in Proc, FindNone(p)
  PROVE  MoneyInv'
<1>1. OwnerInv' /\ OwnerInv /\ req \in [Proc -> Request] /\ MoneyAt(p)
  BY FindNoneOwner DEF MoneyInv, OwnerInv, IndInv, TypeOK
<1>2. UNCHANGED <<wallet, ledger, cashed, mine>> /\ At(p, "find")
  BY DEF FindNone, tables
<1>3. /\ req'[p].pc = "create" /\ req'[p].op = req[p].op /\ req'[p].rows = req[p].rows
      /\ \A q \in Proc \ {p} : req'[q] = req[q]
  BY <1>1 DEF FindNone, Request
<1>4. \A w \in Id : Seen(p, w)' = Seen(p, w) /\ Due(p, w)' = Due(p, w)
  BY <1>2, <1>3 DEF Seen, Due, At
<1>5. \A w \in Id : Backs(Seen(p, w), Due(p, w))'
  BY <1>1, <1>4 DEF MoneyAt, Backs
<1>6. MoneyAt(p)'
  BY <1>3, <1>5 DEF MoneyAt, At
<1>7. \A w \in Id : Backs(wallet[w], ledger[w] + cashed[w])'
  BY <1>2 DEF MoneyInv, Backs
<1> QED
  BY <1>1, <1>2, <1>3, <1>6, <1>7, MoneyStep

LEMMA CreateMoney ==
  ASSUME MoneyInv, Alone, NEW p \in Proc, Create(p)
  PROVE  MoneyInv'
<1>1. OwnerInv' /\ OwnerInv /\ IndInv /\ MoneyAt(p) /\ OwnerAt(p) /\ OnePerUser(wallet)
  BY CreateOwner DEF MoneyInv, OwnerInv
<1>2. PICK n, row : n = nextId /\ row = NewRow(LegUser(p))
  OBVIOUS
<1>3. /\ n \in Id /\ wallet' = [wallet EXCEPT ![n] = row] /\ UNCHANGED <<mine, ledger, cashed>>
      /\ req' = [req EXCEPT ![p].pc = "change", ![p].w = n, ![p].fresh = TRUE]
      /\ req[p].pc = "create" /\ req[p].op \in Creating
      /\ wallet \in [Id -> Row] /\ req \in [Proc -> Request]
  BY <1>1, <1>2, WalletAssumption DEF Create, IndInv, TypeOK, Sane, SaneAt, Id, At
<1>4. wallet[n] = NoRow /\ mine[p] = NothingWritten
  BY <1>1, <1>2, <1>3 DEF OnePerUser, OwnerAt, Id
<1>5. row.bal = 0 /\ row.spend = 0 /\ row.avail = 0
  BY <1>2 DEF NewRow, NoRow
<1>6. \A w \in Id : wallet'[w] = IF w = n THEN row ELSE wallet[w]
  BY <1>3
<1>7. /\ req'[p].pc = "change" /\ req'[p].w = n /\ req'[p].op = req[p].op
      /\ req'[p].leg = req[p].leg /\ req'[p].u = req[p].u /\ req'[p].v = req[p].v
      /\ req'[p].rows = req[p].rows
      /\ \A q \in Proc \ {p} : req'[q] = req[q]
  BY <1>3 DEF Request
<1>8. \A w \in Id : Seen(p, w)' = wallet'[w] /\ Seen(p, w) = wallet[w] /\ Due(p, w)' = Due(p, w)
  BY <1>3, <1>4, <1>7, NoRowOwner DEF Seen, Due, At
<1>9. ASSUME NEW due, Backs(NoRow, due) PROVE Backs(row, due)
  BY <1>5, <1>9 DEF Backs, NoRow
<1>10. \A w \in Id : Backs(Seen(p, w)', Due(p, w)') /\ Backs(wallet'[w], ledger[w] + cashed[w])
  BY <1>1, <1>4, <1>6, <1>8, <1>9 DEF MoneyAt, MoneyInv
<1>11. Seen(p, req[p].w)' = NewRow(LegUser(p))'
  BY <1>2, <1>3, <1>4, <1>6, <1>7, NoRowOwner DEF Seen, NewRow, LegUser
<1>12. MoneyAt(p)'
  BY <1>7, <1>10, <1>11 DEF MoneyAt, At, Backs
<1>13. \A w \in Id : Backs(wallet[w], ledger[w] + cashed[w])'
  BY <1>3, <1>10 DEF Backs
<1>14. \A q \in Proc \ {p} : At(q, "idle")
  BY <1>3 DEF Alone, At
<1> QED
  BY <1>1, <1>3, <1>7, <1>12, <1>13, <1>14, MoneyStep

LEMMA SelectMoney ==
  ASSUME MoneyInv, NumberColumns, NEW p \in Proc, ChangeCreated(p) \/ Select(p)
  PROVE  MoneyInv'
<1>1. OwnerInv' /\ OwnerInv /\ IndInv /\ req \in [Proc -> Request] /\ MoneyAt(p)
  BY QuietOwner DEF MoneyInv, OwnerInv, IndInv, TypeOK
<1>2. PICK x, row : x = req[p].w /\ row = Seen(p, x)
  OBVIOUS
<1>3. /\ UNCHANGED <<wallet, ledger, cashed, mine>> /\ req[p].pc \in {"change", "select"}
      /\ req'[p].pc \in {"select", "update"}
      /\ req'[p].w = x /\ req'[p].op = req[p].op /\ req'[p].leg = req[p].leg
      /\ req'[p].amt = req[p].amt /\ req'[p].fresh = req[p].fresh /\ req'[p].rows = req[p].rows
      /\ \A q \in Proc \ {p} : req'[q] = req[q]
  BY <1>1, <1>2 DEF ChangeCreated, Select, Request, tables, At
<1>4. \A w \in Id : Seen(p, w)' = Seen(p, w) /\ Due(p, w)' = Due(p, w)
  BY <1>3 DEF Seen, Due, At
<1>5. \A w \in Id : Backs(Seen(p, w), Due(p, w))'
  BY <1>1, <1>4 DEF MoneyAt, Backs
<1>6. Seen(p, req[p].w)' = row /\ Change(p, Seen(p, req[p].w))' = Change(p, row)
  BY <1>2, <1>3 DEF Seen, Change, Sum
<1>7. ASSUME ChangeCreated(p) PROVE MoneyAt(p)'
  <2>1. req[p].pc = "change" /\ req'[p].pc = "select" /\ req'[p].val = Change(p, NewRow(LegUser(p)))
    BY <1>1, <1>7 DEF ChangeCreated, Request, At
  <2>2. row = NewRow(LegUser(p)) /\ req[p].op \in Autocommit
    BY <1>1, <1>2, <1>7, <2>1 DEF MoneyAt, ChangeCreated, IndInv, Sane, SaneAt, Creating, At
  <2>3. Affords(req'[p].op, req'[p].leg, req'[p].amt, row)
    BY <1>3, <2>2 DEF Affords, Autocommit
  <2> QED
    BY <1>5, <1>6, <2>1, <2>2, <2>3 DEF MoneyAt, At
<1>8. ASSUME Select(p) PROVE MoneyAt(p)'
  <2>1. /\ req[p].pc = "select" /\ req'[p].pc = "update" /\ req'[p].val = req[p].val
        /\ req'[p].cols = {c \in Cents : req[p].val[c] # row[c]}
    BY <1>1, <1>2, <1>8 DEF Select, Request, At, NumberColumns
  <2>2. /\ Affords(req[p].op, req[p].leg, req[p].amt, row)
        /\ req[p].val = Change(p, row)
    BY <1>1, <1>2, <2>1 DEF MoneyAt
  <2>3. \A c \in Cents \ req'[p].cols : req'[p].val[c] = row[c]
    BY <2>1
  <2> QED
    BY <1>3, <1>5, <1>6, <2>1, <2>2, <2>3 DEF MoneyAt, At
<1>9. \A w \in Id : Backs(wallet[w], ledger[w] + cashed[w])'
  BY <1>3 DEF MoneyInv, Backs
<1> QED
  BY <1>1, <1>3, <1>7, <1>8, <1>9, MoneyStep

LEMMA InsertReceiverMoney ==
  ASSUME MoneyInv, Alone, NEW p \in Proc, InsertReceiver(p)
  PROVE  MoneyInv'
<1> DEFINE d == Delta(req[p].op, 2, req[p].amt)
           m == LedgerRow(req[p].op, 2, req[p].amt)
<1>1. OwnerInv' /\ OwnerInv /\ IndInv /\ MoneyAt(p) /\ OwnerAt(p)
  BY InsertReceiverOwner DEF MoneyInv, OwnerInv
<1>2. PICK n, row : /\ n = nextId
                    /\ row = [owner |-> req[p].v, bal |-> d.bal, spend |-> d.spend, avail |-> d.avail]
  OBVIOUS
<1>3. /\ n \in Id /\ UNCHANGED <<wallet, ledger, cashed>> /\ mine' = [mine EXCEPT ![p][n] = row]
      /\ req[p].pc = "create" /\ req[p].op \in TwoLegs /\ req[p].amt \in Nat
      /\ mine \in [Proc -> [Id -> Row]] /\ req \in [Proc -> Request]
  <2>1. /\ UNCHANGED <<wallet, ledger, cashed>> /\ mine' = [mine EXCEPT ![p][n] = row]
        /\ req[p].pc = "create" /\ req[p].leg = 2 /\ nextId <= MaxId
    BY <1>2 DEF InsertReceiver, At
  <2>2. mine \in [Proc -> [Id -> Row]] /\ req \in [Proc -> Request] /\ nextId \in 1..MaxId + 1
    BY <1>1 DEF IndInv, TypeOK
  <2>3. req[p].op \in TwoLegs
    BY <1>1, <2>1 DEF IndInv, Sane, SaneAt
  <2>4. n \in Id
    BY <1>2, <2>1, <2>2, WalletAssumption DEF Id
  <2> QED
    BY <2>1, <2>2, <2>3, <2>4 DEF Request
<1>4. m \in Int /\ d.bal \in Int /\ d.bal = m /\ d.spend + d.avail <= d.bal
  BY <1>3, LedgerRowInt, DeltaCovers DEF TwoLegs, Kinds
<1>5. row # NoRow /\ row.bal = m /\ row.spend + row.avail <= row.bal
  <2>1. req[p].v \in User
    BY <1>1, <1>3 DEF IndInv, Sane, SaneAt, At
  <2>2. row.owner = req[p].v
    BY <1>2
  <2> QED
    BY <1>2, <1>4, <2>1, <2>2, NoRowOwner
<1>6. /\ req'[p].pc = "commit" /\ req'[p].op = req[p].op
      /\ \A w \in Id : req'[p].rows[w] = IF w = n THEN req[p].rows[w] + m ELSE req[p].rows[w]
      /\ \A q \in Proc \ {p} : req'[q] = req[q] /\ mine'[q] = mine[q]
  <2>1. req[p].rows \in [Id -> Int]
    BY <1>3 DEF Request
  <2>2. req' = [req EXCEPT ![p].pc = "commit", ![p].w = n, ![p].rows[n] = @ + m]
    BY <1>2 DEF InsertReceiver
  <2> QED
    BY <1>3, <2>1, <2>2 DEF Request
<1>7. Seen(p, n) = NoRow
  BY <1>1, <1>2, <1>3 DEF OwnerAt, OnePerUser, View, Id
<1>8. \A w \in Id : Seen(p, w)' = IF w = n THEN row ELSE Seen(p, w)
  BY <1>3, <1>5 DEF Seen
<1>9. ASSUME NEW w \in Id PROVE Backs(Seen(p, w), Due(p, w))'
  <2>1. /\ req[p].rows[w] \in Int /\ ledger[w] \in Int /\ cashed[w] \in Int
        /\ req'[p].rows[w] \in Int
    BY <1>1, <1>4, <1>6 DEF IndInv, TypeOK, Request
  <2>2. Due(p, w) = ledger[w] + cashed[w] + req[p].rows[w]
    BY <1>3, <2>1 DEF Due, At
  <2>3. Due(p, w)' = ledger[w] + cashed[w] + req'[p].rows[w]
    <3>1. req'[p].op # "cashout"
      BY <1>3, <1>6 DEF TwoLegs
    <3> QED
      BY <1>3, <2>1, <3>1 DEF Due
  <2>4. Backs(Seen(p, w), Due(p, w))
    BY <1>1 DEF MoneyAt
  <2>5. CASE w = n
    <3>1. Due(p, w) <= 0
      BY <1>7, <2>4, <2>5 DEF Backs, NoRow
    <3>2. Due(p, w)' = Due(p, w) + m
      BY <1>4, <1>6, <2>1, <2>2, <2>3, <2>5
    <3>3. Due(p, w) \in Int
      BY <2>1, <2>2
    <3>4. Due(p, w)' <= row.bal
      BY <1>4, <1>5, <3>1, <3>2, <3>3
    <3> QED
      BY <1>5, <1>8, <2>5, <3>4 DEF Backs
  <2>6. CASE w # n
    <3>1. Seen(p, w)' = Seen(p, w) /\ Due(p, w)' = Due(p, w)
      BY <1>6, <1>8, <2>2, <2>3, <2>6
    <3> QED
      BY <2>4, <3>1 DEF Backs
  <2> QED
    BY <2>5, <2>6
<1>10. MoneyAt(p)'
  <2>1. \A w \in Id : Backs(Seen(p, w), Due(p, w))'
    BY <1>9
  <2> QED
    BY <1>6, <2>1 DEF MoneyAt, At
<1>11. \A w \in Id : Backs(wallet[w], ledger[w] + cashed[w])'
  BY <1>3 DEF MoneyInv, Backs
<1>12. \A q \in Proc \ {p} : At(q, "idle")
  BY <1>3 DEF Alone, At
<1> QED
  BY <1>1, <1>6, <1>10, <1>11, <1>12, MoneyStep

(* The UPDATE leaves the entity in the row: the columns it leaves alone    *)
(* did not differ.                                                         *)
LEMMA OverwriteAll ==
  ASSUME NEW row \in Row, NEW val \in Row, NEW C \in SUBSET Cents, val.owner = row.owner,
         \A c \in Cents \ C : val[c] = row[c]
  PROVE  Overwrite(row, val, C) = val
BY DEF Overwrite, Row, Cents

LEMMA UpdateMoney ==
  ASSUME MoneyInv, Alone, NumberColumns, NEW p \in Proc, Update(p)
  PROVE  MoneyInv'
<1> DEFINE m == LedgerRow(req[p].op, req[p].leg, req[p].amt)
           paid == IF req[p].op = "cashout" THEN req[p].amt ELSE 0
<1>1. OwnerInv' /\ OwnerInv /\ IndInv /\ MoneyAt(p) /\ OwnerAt(p)
  BY UpdateOwner DEF MoneyInv, OwnerInv
<1>2. PICK x, old, row : x = req[p].w /\ old = Seen(p, x) /\ row = Change(p, old)
  OBVIOUS
<1>3. /\ x \in Id /\ UNCHANGED <<ledger, cashed>> /\ req[p].pc = "update"
      /\ wallet \in [Id -> Row] /\ mine \in [Proc -> [Id -> Row]] /\ req \in [Proc -> Request]
      /\ req[p].op \in Kinds \ {"summary"} /\ req[p].amt \in Nat
  BY <1>1, <1>2, WalletAssumption DEF Update, IndInv, TypeOK, Sane, SaneAt, At, Request
<1>4. /\ old \in Row /\ old # NoRow /\ old.owner \in User
      /\ Affords(req[p].op, req[p].leg, req[p].amt, old) /\ req[p].val = row
      /\ \A c \in Cents \ req[p].cols : row[c] = old[c]
      /\ Backs(old, Due(p, x))
  BY <1>1, <1>2, <1>3, SeenRow
     DEF MoneyAt, OwnerAt, FoundAt, OnePerUser, View, At
<1>5. row \in Row /\ row.owner = old.owner /\ row # NoRow
  <2>1. row \in Row
    BY <1>2, <1>3, <1>4, <1>1, ChangeRow DEF At
  <2>2. row.owner = old.owner
    BY <1>2 DEF Change
  <2> QED
    BY <1>4, <2>1, <2>2, NoRowOwner
<1>6. Overwrite(old, req[p].val, req[p].cols) = row
  <2>1. req[p].cols \in SUBSET Cents
    BY <1>3 DEF Request
  <2> QED
    BY <1>4, <1>5, <2>1, OverwriteAll
<1>7. m \in Int /\ paid \in Int
  BY <1>3, LedgerRowInt
<1>8. /\ req'[p].pc = "find" => req[p].op \in TwoLegs
      /\ req'[p].pc \in {"find", "commit"} /\ req'[p].op = req[p].op
      /\ req'[p].w = x /\ req'[p].amt = req[p].amt
      /\ \A w \in Id : req'[p].rows[w] = IF w = x THEN req[p].rows[w] + m ELSE req[p].rows[w]
      /\ \A q \in Proc \ {p} : req'[q] = req[q]
  <2>1. req[p].rows \in [Id -> Int]
    BY <1>3 DEF Request
  <2>2. req'[p] = [req[p] EXCEPT !.pc = IF req[p].op \in TwoLegs /\ req[p].leg = 1 THEN "find" ELSE "commit",
                                 !.leg = IF req[p].op \in TwoLegs /\ req[p].leg = 1 THEN 2 ELSE @,
                                 !.rows = [req[p].rows EXCEPT ![x] = @ + m]]
    BY <1>2, <1>3 DEF Update, NextLeg
  <2>3. \A q \in Proc \ {p} : req'[q] = req[q]
    BY <1>3 DEF Update, NextLeg
  <2> HIDE DEF m
  <2> QED
    BY <1>2, <1>3, <2>1, <2>2, <2>3 DEF Request
<1>9. Backs(row, Due(p, x) + m + paid) /\ (req[p].op \in Autocommit => Backs(row, Due(p, x)))
  <2>1. Due(p, x) \in Int
    BY <1>1, <1>3, DueInt
  <2> QED
    BY <1>1, <1>2, <1>3, <1>4, <2>1, ChangeBacks DEF At
<1> HIDE DEF m
<1>10. /\ \A w \in Id : Seen(p, w)' = IF w = x THEN row ELSE Seen(p, w)
       /\ \/ wallet' = wallet
          \/ req[p].op \in Autocommit /\ wallet' = [wallet EXCEPT ![x] = row]
       /\ \A q \in Proc \ {p} : mine'[q] = mine[q]
  <2>1. CASE req[p].cols = {} /\ UNCHANGED <<wallet, mine>>
    <3>1. old = row
      BY <1>4, <1>5, <2>1 DEF Row, Cents
    <3> QED
      BY <1>2, <2>1, <3>1 DEF Seen
  <2>2. CASE wallet' = wallet /\ mine' = [mine EXCEPT ![p][x] = row]
    <3>1. \A w \in Id : mine'[p][w] = IF w = x THEN row ELSE mine[p][w]
      BY <1>3, <2>2
    <3> QED
      BY <1>3, <1>5, <2>2, <3>1 DEF Seen
  <2>3. CASE /\ req[p].op \in Autocommit /\ mine' = mine
             /\ wallet' = [wallet EXCEPT ![x] = row]
    <3>1. \A w \in Id : mine[p][w] = NoRow
      BY <1>1, <2>3, NoRowOwner DEF OwnerAt, Creating
    <3> QED
      BY <1>3, <2>3, <3>1 DEF Seen
  <2> QED
    BY <1>2, <1>6, <2>1, <2>2, <2>3 DEF Update
<1>11. ASSUME NEW w \in Id PROVE Backs(Seen(p, w), Due(p, w))'
  <2>1. /\ req[p].rows[w] \in Int /\ ledger[w] \in Int /\ cashed[w] \in Int
        /\ req'[p].rows[w] \in Int
    BY <1>1, <1>3, <1>7, <1>8 DEF IndInv, TypeOK, Request
  <2>2. Due(p, w) = ledger[w] + cashed[w] + req[p].rows[w]
    BY <1>3, <2>1 DEF Due, At
  <2>3. CASE w = x
    <3>1. Due(p, w)' = Due(p, w) + m + paid
      <4>1. req[p].op = "cashout" => req'[p].pc = "commit"
        BY <1>8 DEF TwoLegs
      <4> QED
        BY <1>3, <1>7, <1>8, <2>1, <2>2, <2>3, <4>1 DEF Due, At
    <3> QED
      BY <1>9, <1>10, <2>3, <3>1 DEF Backs
  <2>4. CASE w # x
    <3>1. Seen(p, w)' = Seen(p, w) /\ Due(p, w)' = Due(p, w)
      BY <1>3, <1>8, <1>10, <2>1, <2>2, <2>4 DEF Due
    <3> QED
      BY <1>1, <3>1 DEF MoneyAt, Backs
  <2> QED
    BY <2>3, <2>4
<1>12. MoneyAt(p)'
  <2>1. \A w \in Id : Backs(Seen(p, w), Due(p, w))'
    BY <1>11
  <2> QED
    BY <1>8, <2>1 DEF MoneyAt, At
<1>13. ASSUME NEW w \in Id PROVE Backs(wallet[w], ledger[w] + cashed[w])'
  <2>1. CASE wallet' = wallet
    BY <1>3, <2>1 DEF MoneyInv, Backs
  <2>2. CASE req[p].op \in Autocommit /\ wallet' = [wallet EXCEPT ![x] = row]
    <3>1. mine[p] = NothingWritten /\ old = wallet[x]
      BY <1>1, <1>2, <1>3, <2>2, NoRowOwner DEF OwnerAt, Creating, Seen
    <3>2. Backs(old, ledger[x] + cashed[x])
      BY <1>3, <3>1 DEF MoneyInv
    <3>3. ledger[x] + cashed[x] \in Int
      BY <1>1, <1>3, DueInt
    <3>4. Backs(row, ledger[x] + cashed[x])
      BY <1>1, <1>2, <1>3, <1>4, <2>2, <3>2, <3>3, ChangeBacks DEF At
    <3>5. wallet'[w] = IF w = x THEN row ELSE wallet[w]
      BY <1>3, <2>2
    <3> QED
      BY <1>3, <3>4, <3>5 DEF MoneyInv, Backs
  <2> QED
    BY <1>10, <2>1, <2>2
<1>14. \A q \in Proc \ {p} : At(q, "idle")
  BY <1>3 DEF Alone, At
<1> QED
  BY <1>1, <1>8, <1>10, <1>12, <1>13, <1>14, MoneyStep

(* A rollback leaves the tables, a commit makes them what p wrote.         *)
LEMMA FinishMoney ==
  ASSUME MoneyInv, Alone, NEW p \in Proc, Finish(p), OwnerInv', ~At(p, "idle"),
         \A w \in Id : Backs(wallet[w], ledger[w] + cashed[w])'
  PROVE  MoneyInv'
<1>1. IndInv' /\ IndInv
  BY DEF MoneyInv, OwnerInv
<1>2. /\ req'[p] = NoRequest /\ mine'[p] = NothingWritten
      /\ \A q \in Proc \ {p} : req'[q] = req[q] /\ mine'[q] = mine[q]
  BY <1>1 DEF Finish, IndInv, TypeOK
<1>3. req'[p].pc = "idle" /\ \A w \in Id : req'[p].rows[w] = 0
  BY <1>2 DEF NoRequest, Started
<1>4. ASSUME NEW w \in Id PROVE Backs(Seen(p, w), Due(p, w))'
  <2>1. Seen(p, w)' = wallet'[w]
    BY <1>2, NoRowOwner DEF Seen
  <2>2. (ledger[w] + cashed[w])' \in Int
    BY <1>1, DueInt DEF IndInv, TypeOK
  <2>3. Due(p, w)' = (ledger[w] + cashed[w])'
    BY <1>3, <2>2 DEF Due, At
  <2> QED
    BY <2>1, <2>3 DEF Backs
<1>5. MoneyAt(p)'
  <2>1. \A w \in Id : Backs(Seen(p, w), Due(p, w))'
    BY <1>4
  <2> QED
    BY <1>3, <2>1 DEF MoneyAt, At
<1>6. \A q \in Proc \ {p} : At(q, "idle")
  BY DEF Alone
<1> QED
  BY <1>2, <1>5, <1>6, MoneyStep

LEMMA CommitMoney ==
  ASSUME MoneyInv, Alone, NEW p \in Proc, Commit(p), OwnerInv'
  PROVE  MoneyInv'
<1>1. IndInv /\ MoneyAt(p) /\ req[p].pc = "commit" /\ req[p].w \in Id
  BY DEF MoneyInv, OwnerInv, IndInv, Sane, SaneAt, Commit, At
<1>2. ASSUME NEW w \in Id PROVE Backs(wallet[w], ledger[w] + cashed[w])'
  <2>1. /\ ledger[w] \in Int /\ cashed \in [Id -> Nat] /\ req[p].rows[w] \in Int /\ req[p].amt \in Nat
    BY <1>1 DEF IndInv, TypeOK, Request
  <2>2. wallet'[w] = Seen(p, w) /\ ledger'[w] = ledger[w] + req[p].rows[w]
    BY DEF Commit
  <2>3. cashed'[w] = cashed[w] + IF req[p].op = "cashout" /\ req[p].w = w THEN req[p].amt ELSE 0
    BY <1>1, <2>1 DEF Commit
  <2>4. ledger'[w] + cashed'[w] = Due(p, w)
    BY <1>1, <2>1, <2>2, <2>3 DEF Due, At
  <2> QED
    BY <1>1, <2>2, <2>4 DEF MoneyAt, Backs
<1> QED
  BY <1>1, <1>2, FinishMoney DEF Commit, At

LEMMA NextMoney == NumberColumns /\ MoneyInv /\ Alone /\ [Next]_vars => MoneyInv'
<1> SUFFICES ASSUME NumberColumns, MoneyInv, Alone, [Next]_vars PROVE MoneyInv'
  OBVIOUS
<1>1. OwnerInv'
  BY NextOwner DEF MoneyInv
<1>2. CASE UNCHANGED vars
  <2>1. UNCHANGED <<wallet, ledger, cashed, req, mine>>
    BY <1>2 DEF vars, tables
  <2>2. ASSUME NEW p \in Proc PROVE MoneyAt(p)'
    <3>1. \A w \in Id : Seen(p, w)' = Seen(p, w) /\ Due(p, w)' = Due(p, w)
      BY <2>1 DEF Seen, Due, At
    <3>2. \A w \in Id : Backs(Seen(p, w), Due(p, w))'
      BY <3>1 DEF MoneyInv, MoneyAt, Backs
    <3>3. /\ Seen(p, req[p].w)' = Seen(p, req[p].w) /\ LegUser(p)' = LegUser(p)
          /\ Change(p, Seen(p, req[p].w))' = Change(p, Seen(p, req[p].w))
      BY <2>1 DEF Seen, LegUser, Change, Sum
    <3> QED
      BY <2>1, <3>2, <3>3 DEF MoneyInv, MoneyAt, At
  <2> QED
    BY <1>1, <1>2, <2>2 DEF MoneyInv, Backs, vars, tables
<1>3. ASSUME NEW p \in Proc, NEW op \in Kinds, NEW u \in User, NEW v \in User,
             NEW a \in Amounts, Begin(p, op, u, v, a)
      PROVE  MoneyInv'
  BY <1>3, BeginMoney
<1>4. ASSUME NEW p \in Proc, Finish(p), ~At(p, "idle"), UNCHANGED tables PROVE MoneyInv'
  <2>1. \A w \in Id : Backs(wallet[w], ledger[w] + cashed[w])'
    BY <1>4 DEF MoneyInv, Backs, tables
  <2> QED
    BY <1>1, <1>4, <2>1, FinishMoney
<1>5. ASSUME NEW p \in Proc, Statement(p) \/ Rollback(p) PROVE MoneyInv'
  <2>1. CASE Refuse(p) \/ Summarize(p) \/ Rollback(p)
    BY <1>4, <2>1 DEF Refuse, Summarize, Rollback, At
  <2>2. CASE Find(p) \/ FindNone(p) \/ ChangeCreated(p) \/ Select(p)
    BY <2>2, FindMoney, FindNoneMoney, SelectMoney
  <2>3. CASE Create(p) \/ InsertReceiver(p)
    BY <2>3, CreateMoney, InsertReceiverMoney
  <2>4. CASE Update(p) \/ Commit(p)
    BY <1>1, <2>4, UpdateMoney, CommitMoney
  <2> QED
    BY <1>5, <2>1, <2>2, <2>3, <2>4 DEF Statement
<1> QED
  BY <1>2, <1>3, <1>5 DEF Next

(* Requests that do not overlap, interrupted anywhere: the spendable and   *)
(* the cashout balance are together never more than the total, so the      *)
(* amount unlockSpendableBalance may still unlock is never negative.       *)
THEOREM PartsOfTotal == ASSUME NumberColumns PROVE Spec /\ []Alone => []LockedIsRest
<1>1. MoneyInv => LockedIsRest
  BY DEF MoneyInv, Backs, LockedIsRest
<1> QED
  BY <1>1, InitMoney, NextMoney, PTL DEF Spec

(* Requests that do not overlap, interrupted anywhere: the ledger rows of  *)
(* a wallet and what it paid out never claim more than it holds.           *)
THEOREM LedgerNeverAhead == ASSUME NumberColumns PROVE Spec /\ []Alone => []LedgerBacked
<1>1. MoneyInv => LedgerBacked
  BY DEF MoneyInv, Backs, LedgerBacked
<1> QED
  BY <1>1, InitMoney, NextMoney, PTL DEF Spec
=============================================================================
