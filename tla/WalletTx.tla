------------------------------- MODULE WalletTx -------------------------------
(***************************************************************************)
(* The wallets, and the operations of WalletService that move cents        *)
(* between their columns, statement by statement (READ COMMITTED, as in    *)
(* CashoutTx).                                                             *)
(*                                                                         *)
(* Every operation is one or two legs.  A leg finds a wallet of a user,    *)
(* changes the entity in memory, saves it and adds a ledger row.  `save`   *)
(* is a SELECT and, later, an UPDATE of the columns in which the entity    *)
(* differs from what the SELECT returned.  In deposit and                  *)
(* devAddCashoutBalance every statement is a transaction of its own; the   *)
(* others are one transaction that keeps the locks of what it updated.     *)
(***************************************************************************)
EXTENDS Bigint, FiniteSets

CONSTANTS
  Proc,        \* requests in flight
  User,
  Nobody,      \* holder of a free row lock, owner of a row that is not there
  Ops,         \* the kinds of request clients send
  MaxId,       \* bound: ids the sequence of wallets hands out
  MaxCalls,    \* bound: requests sent
  Amounts,     \* amounts in cents
  FeePercent   \* platformFeePercent of a purchase

Kinds == {"summary", "deposit", "devAdd", "unlock", "cashout", "payout", "transfer"}

ASSUME WalletAssumption ==
  /\ Nobody \notin Proc /\ Nobody \notin User
  /\ Ops \subseteq Kinds
  /\ MaxId \in Nat /\ MaxCalls \in Nat
  /\ Amounts \subseteq AmountRange
  /\ FeePercent \in 0..100

Id == 1..MaxId

VARIABLES
  wallet,   \* committed wallets: id -> row
  ledger,   \* id -> sum of the committed wallet_transactions.amountCents
  cashed,   \* id -> sum of the committed cashout_requests
  nextId,   \* the id sequence
  lock,     \* id -> the transaction that updated the row, or Nobody
  req,      \* proc -> where it is and what it has read
  mine,     \* proc -> id -> the row as its transaction wrote it, or NoRow
  calls,    \* requests sent so far
  crossed   \* history: user -> two requests were creating a wallet at once

tables == <<wallet, ledger, cashed, nextId>>
vars == <<tables, lock, req, mine, calls, crossed>>

Cents == {"bal", "spend", "avail"}

NoRow == [owner |-> Nobody, bal |-> 0, spend |-> 0, avail |-> 0]

NewRow(u) == [NoRow EXCEPT !.owner = u]

NothingWritten == [w \in Id |-> NoRow]

(* pc: the next statement; u, v: users of the two legs; w: the wallet of   *)
(* the leg; val: the entity; fresh: it was created, not read; cols: the    *)
(* columns to update; rows: the ledger rows to commit, by wallet.          *)
Started(op, point, u, v, a) ==
  [pc |-> point, op |-> op, u |-> u, v |-> v, amt |-> a, leg |-> 1, w |-> 0, val |-> NoRow,
   fresh |-> FALSE, cols |-> {}, rows |-> [w \in Id |-> 0]]

NoRequest == Started("none", "idle", Nobody, Nobody, 0)

Init ==
  /\ wallet = NothingWritten
  /\ ledger = [w \in Id |-> 0]
  /\ cashed = [w \in Id |-> 0]
  /\ nextId = 1
  /\ lock = [w \in Id |-> Nobody]
  /\ req = [p \in Proc |-> NoRequest]
  /\ mine = [p \in Proc |-> NothingWritten]
  /\ calls = 0
  /\ crossed = [u \in User |-> FALSE]

-----------------------------------------------------------------------------
(* What a leg of an operation does to the columns.                         *)
Cols(b, s, a) == [bal |-> b, spend |-> s, avail |-> a]

(* Math.round of the platform fee.                                         *)
Fee(a) == (2 * a * FeePercent + 100) \div 200

Payout(a) == a - Fee(a)

Delta(op, leg, a) ==
  CASE op = "deposit"                -> Cols(a, a, 0)
    [] op = "devAdd"                 -> Cols(a, 0, a)
    [] op = "unlock"                 -> Cols(0, a, 0)
    [] op = "cashout"                -> Cols(0, 0, -a)
    [] op = "payout" /\ leg = 2      -> Cols(Payout(a), 0, Payout(a))
    [] op = "transfer" /\ leg = 2    -> Cols(a, a, 0)
    [] OTHER                         -> Cols(-a, -a, 0)

(* amountCents of the ledger row.                                          *)
LedgerRow(op, leg, a) ==
  CASE op \in {"deposit", "devAdd"}  -> a
    [] op = "unlock"                 -> 0
    [] op = "payout" /\ leg = 2      -> Payout(a)
    [] op = "transfer" /\ leg = 2    -> a
    [] OTHER                         -> -a

(* The checks on the row that was read.                                    *)
Affords(op, leg, a, row) ==
  CASE op = "unlock"                               -> row.bal - row.spend - row.avail >= a
    [] op = "cashout"                              -> row.avail >= a
    [] op \in {"payout", "transfer"} /\ leg = 1    -> row.spend >= a
    [] OTHER                                       -> TRUE

Autocommit == {"deposit", "devAdd"}

(* The operations that begin with getOrCreateWallet.                       *)
Creating == Autocommit \cup {"summary"}

TwoLegs == {"payout", "transfer"}

(* The columns a leg assigns.                                              *)
Assigned(op, leg) ==
  CASE op = "devAdd" \/ (op = "payout" /\ leg = 2) -> {"bal", "avail"}
    [] op = "unlock"                               -> {"spend"}
    [] op = "cashout"                              -> {"avail"}
    [] OTHER                                       -> {"bal", "spend"}

(* The legs written with `+=` on what was read; the others convert first.  *)
Appended(op, leg) == op = "devAdd" \/ leg = 2

Sum(p, row, c, n) ==
  IF Appended(req[p].op, req[p].leg) /\ ~req[p].fresh /\ c \in Assigned(req[p].op, req[p].leg)
    THEN PlusEq(row[c], n)
    ELSE row[c] + n

Change(p, row) ==
  LET d == Delta(req[p].op, req[p].leg, req[p].amt)
  IN [owner |-> row.owner, bal |-> Sum(p, row, "bal", d.bal),
      spend |-> Sum(p, row, "spend", d.spend), avail |-> Sum(p, row, "avail", d.avail)]

(* Columns that hold a number: on Postgres they differ (by ===) from the   *)
(* string of the SELECT, whatever their value.                             *)
Numbers(p) ==
  IF req[p].fresh THEN Cents
  ELSE IF Appended(req[p].op, req[p].leg) THEN {}
  ELSE Assigned(req[p].op, req[p].leg)

-----------------------------------------------------------------------------
At(p, point) == req[p].pc = point

Exists(w) == wallet[w] # NoRow

(* What a statement of p sees of a row: its own write, or what is committed. *)
Seen(p, w) == IF mine[p][w] # NoRow THEN mine[p][w] ELSE wallet[w]

(* Mutant: a purchase saves the wallet of the owner first. *)
LegUserOwnerFirst(p) == IF (req[p].leg = 1) = (req[p].op # "payout") THEN req[p].u ELSE req[p].v

LegUser(p) == IF req[p].leg = 1 THEN req[p].u ELSE req[p].v

WalletsOf(p) == {w \in Id : Seen(p, w) # NoRow /\ Seen(p, w).owner = LegUser(p)}

(* The request is over: its locks go, and what it wrote and did not commit.*)
Finish(p) ==
  /\ req' = [req EXCEPT ![p] = NoRequest]
  /\ mine' = [mine EXCEPT ![p] = NothingWritten]
  /\ lock' = [w \in Id |-> IF lock[w] = p THEN Nobody ELSE lock[w]]

(* A request arrives.  The role of a token is that of the login route, not *)
(* of the account: any user may buy, sell, unlock, and pay anyone, itself  *)
(* included.                                                               *)
Begin(p, op, u, v, a) ==
  /\ At(p, "idle")
  /\ op \in Ops
  /\ calls < MaxCalls
  /\ op \notin TwoLegs => v = u
  /\ calls' = calls + 1
  /\ req' = [req EXCEPT ![p] = Started(op, "find", u, v, a)]
  /\ UNCHANGED <<tables, lock, mine, crossed>>

(* Mutant: no balance check. *)
FindUnchecked(p) ==
  /\ At(p, "find") /\ req[p].op # "summary"
  /\ \E w \in WalletsOf(p) :
       req' = [req EXCEPT ![p].pc = "select", ![p].w = w, ![p].val = Change(p, Seen(p, w))]
  /\ UNCHANGED <<tables, lock, mine, calls, crossed>>

(* findOne({userId}): any wallet of the user; then the check, and the      *)
(* entity as it is to be saved.                                            *)
Find(p) ==
  /\ At(p, "find") /\ req[p].op # "summary"
  /\ \E w \in WalletsOf(p) :
       /\ Affords(req[p].op, req[p].leg, req[p].amt, Seen(p, w))
       /\ req' = [req EXCEPT ![p].pc = "select", ![p].w = w, ![p].val = Change(p, Seen(p, w))]
  /\ UNCHANGED <<tables, lock, mine, calls, crossed>>

(* No such wallet where one is needed, or a failed check: an exception,    *)
(* and the transaction is rolled back.                                     *)
Refuse(p) ==
  /\ At(p, "find")
  /\ \/ WalletsOf(p) = {} /\ req[p].leg = 1 /\ req[p].op \notin Creating
     \/ \E w \in WalletsOf(p) : ~Affords(req[p].op, req[p].leg, req[p].amt, Seen(p, w))
  /\ Finish(p)
  /\ UNCHANGED <<tables, calls, crossed>>

(* A request that found no wallet of u and has not shown one yet.          *)
Creates(p, u) ==
  \/ At(p, "create") /\ LegUser(p) = u
  \/ \E w \in Id : mine[p][w] # NoRow /\ ~Exists(w) /\ mine[p][w].owner = u

Cross(p, u) ==
  crossed' = [crossed EXCEPT ![u] = @ \/ \E q \in Proc \ {p} : Creates(q, u)]

(* Mutant: a wallet is created without looking for one. *)
FindNoneAlways(p) ==
  /\ At(p, "find")
  /\ req[p].op \in Creating
  /\ req' = [req EXCEPT ![p].pc = "create"]
  /\ Cross(p, LegUser(p))
  /\ UNCHANGED <<tables, lock, mine, calls>>

(* No wallet where one is created then: getOrCreateWallet, and the second  *)
(* leg of a payment.                                                       *)
FindNone(p) ==
  /\ At(p, "find")
  /\ WalletsOf(p) = {}
  /\ req[p].op \in Creating \/ req[p].leg = 2
  /\ req' = [req EXCEPT ![p].pc = "create"]
  /\ Cross(p, LegUser(p))
  /\ UNCHANGED <<tables, lock, mine, calls>>

(* getOrCreateWallet: an INSERT of its own, and the entity that came back. *)
Create(p) ==
  /\ At(p, "create") /\ req[p].leg = 1
  /\ nextId <= MaxId
  /\ nextId' = nextId + 1
  /\ wallet' = [wallet EXCEPT ![nextId] = NewRow(LegUser(p))]
  /\ req' = [req EXCEPT ![p].pc = "change", ![p].w = nextId, ![p].fresh = TRUE]
  /\ UNCHANGED <<ledger, cashed, lock, mine, calls, crossed>>

ChangeCreated(p) ==
  /\ At(p, "change") /\ req[p].op # "summary"
  /\ req' = [req EXCEPT ![p].pc = "select", ![p].val = Change(p, NewRow(LegUser(p)))]
  /\ UNCHANGED <<tables, lock, mine, calls, crossed>>

(* A summary only reads, or creates, the wallet.                           *)
Summarize(p) ==
  /\ req[p].op = "summary"
  /\ At(p, "change") \/ (At(p, "find") /\ WalletsOf(p) # {})
  /\ Finish(p)
  /\ UNCHANGED <<tables, calls, crossed>>

(* The receiver or the owner had no wallet: the one created in memory is   *)
(* inserted by the save of the transaction.                                *)
InsertReceiver(p) ==
  /\ At(p, "create") /\ req[p].leg = 2
  /\ nextId <= MaxId
  /\ nextId' = nextId + 1
  /\ LET d == Delta(req[p].op, 2, req[p].amt)
         row == [owner |-> req[p].v, bal |-> d.bal, spend |-> d.spend, avail |-> d.avail]
     IN mine' = [mine EXCEPT ![p][nextId] = row]
  /\ lock' = [lock EXCEPT ![nextId] = p]
  /\ req' = [req EXCEPT ![p].pc = "commit", ![p].w = nextId,
                        ![p].rows[nextId] = @ + LedgerRow(req[p].op, 2, req[p].amt)]
  /\ UNCHANGED <<wallet, ledger, cashed, calls, crossed>>

(* Mutant: the ledger row of a deposit before the wallet is saved. *)
SelectRowFirst(p) ==
  /\ At(p, "select")
  /\ req' = [req EXCEPT ![p].pc = "update",
       ![p].cols = {c \in Cents : req[p].val[c] # Seen(p, req[p].w)[c]}]
  /\ ledger' = [ledger EXCEPT ![req[p].w] = @ + IF req[p].op = "deposit" THEN req[p].amt ELSE 0]
  /\ UNCHANGED <<wallet, cashed, nextId, lock, mine, calls, crossed>>

(* The SELECT of save.                                                     *)
Select(p) ==
  /\ At(p, "select")
  /\ req' = [req EXCEPT ![p].pc = "update",
       ![p].cols = {c \in Cents : req[p].val[c] # Seen(p, req[p].w)[c]}
                     \cup (IF BigintStrings THEN Numbers(p) ELSE {})]
  /\ UNCHANGED <<tables, lock, mine, calls, crossed>>

(* The row after an UPDATE of the columns C with the values of the entity. *)
Overwrite(row, val, C) ==
  [c \in DOMAIN row |-> IF c \in C THEN val[c] ELSE row[c]]

(* After an UPDATE: the ledger row, which nobody sees before the commit,   *)
(* and the second leg or the commit.                                       *)
NextLeg(p) ==
  LET more == req[p].op \in TwoLegs /\ req[p].leg = 1
      row  == LedgerRow(req[p].op, req[p].leg, req[p].amt)
      rows == [req[p].rows EXCEPT ![req[p].w] = @ + row]
  IN req' = [req EXCEPT ![p].pc = IF more THEN "find" ELSE "commit",
                        ![p].leg = IF more THEN 2 ELSE @,
                        ![p].rows = rows]

(* The UPDATE of save, which waits for the row lock; none if no column     *)
(* differs.                                                                *)
Update(p) ==
  LET w == req[p].w
      row == Overwrite(Seen(p, w), req[p].val, req[p].cols)
  IN
  /\ At(p, "update")
  /\ \/ req[p].cols = {} /\ UNCHANGED <<wallet, mine, lock>>
     \/ /\ req[p].cols # {} /\ req[p].op \notin Autocommit
        /\ lock[w] \in {Nobody, p}
        /\ lock' = [lock EXCEPT ![w] = p]
        /\ mine' = [mine EXCEPT ![p][w] = row]
        /\ UNCHANGED wallet
     \/ /\ req[p].cols # {} /\ req[p].op \in Autocommit
        /\ lock[w] = Nobody
        /\ wallet' = [wallet EXCEPT ![w] = row]
        /\ UNCHANGED <<lock, mine>>
  /\ NextLeg(p)
  /\ UNCHANGED <<ledger, cashed, nextId, calls, crossed>>

(* COMMIT; of a deposit, the INSERT of its ledger row.                     *)
Commit(p) ==
  /\ At(p, "commit")
  /\ wallet' = [w \in Id |-> Seen(p, w)]
  /\ ledger' = [w \in Id |-> ledger[w] + req[p].rows[w]]
  /\ cashed' = IF req[p].op = "cashout" THEN [cashed EXCEPT ![req[p].w] = @ + req[p].amt] ELSE cashed
  /\ Finish(p)
  /\ UNCHANGED <<nextId, calls, crossed>>

(* Any statement fails or the process stops.                               *)
Rollback(p) ==
  /\ ~At(p, "idle")
  /\ Finish(p)
  /\ UNCHANGED <<tables, calls, crossed>>

Statement(p) ==
  \/ Find(p) \/ FindNone(p) \/ Refuse(p) \/ Create(p) \/ ChangeCreated(p) \/ Summarize(p)
  \/ InsertReceiver(p) \/ Select(p) \/ Update(p) \/ Commit(p)

Next ==
  \/ \E p \in Proc, op \in Kinds, u, v \in User, a \in Amounts : Begin(p, op, u, v, a)
  \/ \E p \in Proc : Statement(p) \/ Rollback(p)

Spec == Init /\ [][Next]_vars

-----------------------------------------------------------------------------
Row == [owner : User \cup {Nobody}, bal : Int, spend : Nat, avail : Nat]

Request ==
  [pc : {"idle", "find", "create", "change", "select", "update", "commit"}, op : Kinds \cup {"none"},
   u : User \cup {Nobody}, v : User \cup {Nobody}, amt : Nat, leg : {1, 2}, w : 0..MaxId,
   val : Row, fresh : BOOLEAN, cols : SUBSET Cents, rows : [Id -> Int]]

(* Types; in them, what the balance checks are for: neither what a user    *)
(* can spend nor what can be cashed out is ever negative, even though the  *)
(* saves overwrite each other.                                             *)
TypeOK ==
  /\ wallet \in [Id -> Row]
  /\ ledger \in [Id -> Int]
  /\ cashed \in [Id -> Nat]
  /\ nextId \in 1..MaxId + 1
  /\ lock \in [Id -> Proc \cup {Nobody}]
  /\ req \in [Proc -> Request]
  /\ mine \in [Proc -> [Id -> Row]]
  /\ calls \in Nat
  /\ crossed \in [User -> BOOLEAN]

(* One request at a time: what is spendable or can be cashed out is part   *)
(* of the total balance, so the "locked" rest of unlockSpendableBalance is *)
(* never negative.                                                         *)
LockedIsRest == \A w \in Id : wallet[w].spend + wallet[w].avail <= wallet[w].bal

(* One request at a time, interrupted anywhere: the ledger never claims    *)
(* more than the wallet holds or paid out (an interrupted deposit leaves   *)
(* money without a row, never a row without money).                        *)
LedgerBacked == \A w \in Id : ledger[w] + cashed[w] <= wallet[w].bal

(* find, then insert, with no unique index, in the middle of transfers and *)
(* purchases that may be rolled back: a user has a second wallet only if   *)
(* two requests were creating one at the same time.                        *)
OneWallet ==
  \A w, x \in Id :
    Exists(w) /\ Exists(x) /\ wallet[w].owner = wallet[x].owner => w = x \/ crossed[wallet[w].owner]

(* The transaction p waits for, or Nobody.                                 *)
WaitsFor(p) ==
  IF At(p, "update") /\ req[p].cols # {} /\ lock[req[p].w] # p THEN lock[req[p].w] ELSE Nobody

(* Each of S waits for another one of S, and is waited for.                *)
Circle(S) == S # {} /\ {WaitsFor(p) : p \in S} = S

(* A payment locks the wallet of the payer, then that of the payee; every  *)
(* other request locks one wallet.  So the database ends up with a circle  *)
(* of waiting transactions only where money goes round: transfers and      *)
(* purchases whose payers are their payees.                                *)
CirclesArePayments ==
  \A S \in SUBSET Proc : Circle(S) =>
    /\ \A p \in S : req[p].op \in TwoLegs
    /\ {req[p].u : p \in S} = {req[p].v : p \in S}

-----------------------------------------------------------------------------
(* What TypeOK rests on: at which points an operation can be, and that     *)
(* past "find" a request has a wallet.                                     *)
SaneAt(p) ==
  /\ ~At(p, "idle") => req[p].op \in Ops /\ req[p].u \in User /\ req[p].v \in User
  /\ At(p, "change") => req[p].op \in Creating
  /\ At(p, "create") => req[p].op \in Creating \/ req[p].leg = 2
  /\ req[p].op = "summary" => req[p].pc \in {"find", "create", "change"}
  /\ req[p].leg = 2 => req[p].op \in TwoLegs
  /\ req[p].pc \in {"change", "select", "update", "commit"} => req[p].w \in Id

Sane == \A p \in Proc : SaneAt(p)

IndInv == TypeOK /\ Sane

-----------------------------------------------------------------------------
(* What CirclesArePayments rests on.  A row is locked by the transaction   *)
(* that wrote it, and writing never changes its owner.                     *)
RowsOK ==
  /\ \A p \in Proc, w \in Id : lock[w] = p <=> mine[p][w] # NoRow
  /\ \A w \in Id : Exists(w) => wallet[w].owner \in User
  /\ \A p \in Proc, w \in Id : mine[p][w] # NoRow =>
       mine[p][w].owner \in User /\ (Exists(w) => mine[p][w].owner = wallet[w].owner)
  /\ \A w \in Id : w >= nextId => ~Exists(w) /\ lock[w] = Nobody

(* A wallet that has been found stays, and stays its user's.               *)
FoundAt(p) ==
  req[p].pc \in {"change", "select", "update"} =>
    Seen(p, req[p].w) # NoRow /\ Seen(p, req[p].w).owner = LegUser(p)

(* Until its last save a transaction holds at most a wallet of the payer.  *)
OrderAt(p) ==
  \A w \in Id : lock[w] = p =>
    /\ ~At(p, "idle") /\ req[p].op \notin Autocommit
    /\ ~At(p, "commit") => req[p].leg = 2 /\ mine[p][w].owner = req[p].u

LockInv == IndInv /\ RowsOK /\ \A p \in Proc : FoundAt(p) /\ OrderAt(p)

(* ... and OneWallet besides: a row that is there for one transaction only *)
(* is the one it is about to commit; and as long as nobody crosses, one    *)
(* request at most is creating a wallet of a user, who has none then.      *)
InsertedAt(p) ==
  \A w \in Id : mine[p][w] # NoRow /\ ~Exists(w) => At(p, "commit") /\ req[p].w = w

OneCreator(u) ==
  /\ \A w, x \in Id : Exists(w) /\ Exists(x) /\ wallet[w].owner = u /\ wallet[x].owner = u => w = x
  /\ \A p, q \in Proc : Creates(p, u) /\ Creates(q, u) => p = q
  /\ \A p \in Proc, w \in Id : Creates(p, u) /\ Exists(w) => wallet[w].owner # u

CreateInv ==
  /\ LockInv
  /\ \A p \in Proc : InsertedAt(p)
  /\ \A u \in User : crossed[u] \/ OneCreator(u)

-----------------------------------------------------------------------------
(* What LockedIsRest and LedgerBacked rest on: only one request is ever    *)
(* open, and a user then has one wallet.                                   *)
Alone == \A p, q \in Proc : p = q \/ At(p, "idle") \/ At(q, "idle")

(* The wallets as p would commit them.                                     *)
View(p) == [w \in Id |-> Seen(p, w)]

OnePerUser(t) ==
  /\ \A w \in Id : t[w] # NoRow => w < nextId /\ t[w].owner \in User
  /\ \A w, x \in Id : t[w] # NoRow /\ t[x] # NoRow /\ t[w].owner = t[x].owner => w = x

(* A request that commits each statement keeps nothing to itself.          *)
OwnerAt(p) ==
  /\ At(p, "idle") => req[p] = NoRequest
  /\ At(p, "idle") \/ req[p].op \in Creating => mine[p] = NothingWritten
  /\ OnePerUser(View(p))
  /\ FoundAt(p)
  /\ At(p, "create") => WalletsOf(p) = {}

OwnerInv == IndInv /\ OnePerUser(wallet) /\ \A p \in Proc : OwnerAt(p)

(* A wallet holds its ledger rows, and those p has not committed yet.      *)
Backs(row, due) == row.spend + row.avail <= row.bal /\ due <= row.bal

Due(p, w) ==
  ledger[w] + cashed[w] + req[p].rows[w]
    + IF At(p, "commit") /\ req[p].op = "cashout" /\ req[p].w = w THEN req[p].amt ELSE 0

(* The entity is what was read and checked, changed, and nobody has saved  *)
(* the row in between.                                                     *)
MoneyAt(p) ==
  /\ \A w \in Id : Backs(Seen(p, w), Due(p, w))
  /\ req[p].pc = "change" => Seen(p, req[p].w) = NewRow(LegUser(p))
  /\ req[p].pc \in {"select", "update"} =>
       /\ Affords(req[p].op, req[p].leg, req[p].amt, Seen(p, req[p].w))
       /\ req[p].val = Change(p, Seen(p, req[p].w))
  /\ At(p, "update") => \A c \in Cents \ req[p].cols : req[p].val[c] = Seen(p, req[p].w)[c]

MoneyInv ==
  /\ OwnerInv
  /\ \A w \in Id : Backs(wallet[w], ledger[w] + cashed[w])
  /\ \A p \in Proc : MoneyAt(p)
=============================================================================
