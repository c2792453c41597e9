----------------------------- MODULE CashoutGate -----------------------------
(***************************************************************************)
(* What stands before a cashout: the identity check (IdentityService), the *)
(* bank information (BankInfoService) and the gate of                      *)
(* WalletController.cashout that asks for both and then calls the wallet   *)
(* (CashoutTx goes on from there).                                         *)
(*                                                                         *)
(* Identity is a Map in the process: it starts empty, and start() awaits   *)
(* Stripe between reading it and writing it.  Bank information is a row    *)
(* per user by custom, with no unique index: find, then save.              *)
(***************************************************************************)
EXTENDS Integers, FiniteSets

CONSTANTS
  Proc,         \* handlers in flight
  User,
  Nobody,       \* no user; a value that is not there
  Name,         \* bank names
  Account,      \* account numbers; their last four digits tell them apart
  MaxRows,      \* bound: bank_info rows
  MaxCalls,     \* bound: calls made
  MaxRestarts   \* bound: restarts of the process

ASSUME GateAssumption ==
  /\ Nobody \notin User \cup Name \cup Account
  /\ MaxRows \in Nat /\ MaxCalls \in Nat /\ MaxRestarts \in Nat

RowId == 1..MaxRows
Columns == {"name", "acct"}

VARIABLES
  dev,        \* DevEndpointGuard lets calls through: not production, a secret is set
  stripe,     \* STRIPE_SECRET_KEY is set
  store,      \* user -> verification record, in memory
  bank,       \* id -> bank_info row
  cashouts,   \* user -> destinations of the cashouts opened
  req,        \* handler -> where it is and what it holds
  calls, restarts,
  sent,       \* history: user -> bank information submitted
  latest,     \* history: user -> column by column, what finished submissions said last
  raced,      \* history: user -> two submissions were under way at once
  sure        \* history: user -> verified since boot, with no start() under way

tables == <<bank, cashouts>>
env == <<dev, stripe>>
history == <<sent, latest, raced, sure>>
vars == <<env, store, tables, req, calls, restarts, history>>

Statuses == {"required", "started", "pending", "verified", "failed"}

NoRecord == [status |-> "none", url |-> "none"]
NoRow == [user |-> Nobody, name |-> Nobody, acct |-> Nobody]

(* pc: the next statement; row: id of the bank row that was found, or 0;   *)
(* val: the entity to save; cols: the columns to update; dest: last4.      *)
Started(pc, u) ==
  [pc |-> pc, u |-> u, row |-> 0, val |-> NoRow, cols |-> {}, dest |-> Nobody]

NoRequest == Started("idle", Nobody)

Init ==
  /\ dev \in BOOLEAN /\ stripe \in BOOLEAN
  /\ store = [u \in User |-> NoRecord]
  /\ bank = [r \in RowId |-> NoRow]
  /\ cashouts = [u \in User |-> {}]
  /\ req = [p \in Proc |-> NoRequest]
  /\ calls = 0 /\ restarts = 0
  /\ sent = [u \in User |-> {}]
  /\ latest = [u \in User |-> NoRow]
  /\ raced = [u \in User |-> FALSE]
  /\ sure = [u \in User |-> FALSE]

At(p, pc) == req[p].pc = pc

Call == calls < MaxCalls /\ calls' = calls + 1

Finish(p) == req' = [req EXCEPT ![p] = NoRequest]

-----------------------------------------------------------------------------
(* Identity                                                                *)

(* A record with a session of Stripe is kept.                              *)
HasSession(u) == store[u].status \in {"started", "pending"} /\ store[u].url = "stripe"

(* Mutant: the session is stored under whatever was verified before. *)
StartAnyway(p, u) ==
  /\ Call /\ At(p, "idle")
  /\ store' = [store EXCEPT ![u] = [status |-> "started", url |-> "dev"]]
  /\ UNCHANGED <<env, tables, req, restarts, history>>

(* start, up to where it awaits Stripe; without Stripe, all of it.         *)
Start(p, u) ==
  /\ Call /\ At(p, "idle")
  /\ store[u].status # "verified" /\ ~HasSession(u)
  /\ \/ /\ ~stripe
        /\ store' = [store EXCEPT ![u] =
             [status |-> "started", url |-> IF store[u].url = "none" THEN "dev" ELSE store[u].url]]
        /\ UNCHANGED req
     \/ /\ stripe
        /\ req' = [req EXCEPT ![p] = Started("session", u)]
        /\ UNCHANGED store
  /\ UNCHANGED <<env, tables, restarts, history>>

(* Stripe answers with a session; the record is set whatever it is now.    *)
SessionCreated(p) ==
  /\ At(p, "session")
  /\ store' = [store EXCEPT ![req[p].u] = [status |-> "started", url |-> "stripe"]]
  /\ Finish(p)
  /\ UNCHANGED <<env, tables, calls, restarts, history>>

Url(u) == IF store[u].url = "none" THEN "dev" ELSE store[u].url

(* The guard of the development endpoints.                                 *)
CanActivate == dev

(* dev-set-status and dev-complete.                                        *)
SetStatus(u, s) ==
  /\ Call /\ CanActivate
  /\ store' = [store EXCEPT ![u] = [status |-> s, url |-> Url(u)]]
  /\ sure' = [sure EXCEPT ![u] = FALSE]
  /\ UNCHANGED <<env, tables, req, restarts, sent, latest, raced>>

Complete(u) ==
  /\ store' = [store EXCEPT ![u] = [status |-> "verified", url |-> Url(u)]]
  /\ sure' = [sure EXCEPT ![u] = \A p \in Proc : At(p, "session") => req[p].u # u]
  /\ UNCHANGED <<env, tables, req, restarts, sent, latest, raced>>

(* Mutant: without the guard. *)
CompleteUnguarded(u) == Call /\ Complete(u)

CompleteDev(u) == Call /\ CanActivate /\ Complete(u)

-----------------------------------------------------------------------------
(* Bank information                                                        *)
RowsOf(u) == {r \in RowId : bank[r].user = u}

(* GET wallet/bank-info.                                                   *)
GetMyBankInfo(u) == {bank[r] : r \in RowsOf(u)}

Submitting(u) == {p \in Proc : req[p].pc \in {"insert", "select", "update"} /\ req[p].u = u}

Submit(p, u, found, info) ==
  /\ Call /\ At(p, "idle")
  /\ \/ /\ found = {}
        /\ req' = [req EXCEPT ![p] = [Started("insert", u) EXCEPT !.val = info]]
     \/ \E r \in found :
          req' = [req EXCEPT ![p] = [Started("select", u) EXCEPT !.row = r, !.val = info]]
  /\ sent' = [sent EXCEPT ![u] = @ \cup {info}]
  /\ raced' = [raced EXCEPT ![u] = @ \/ Submitting(u) # {}]
  /\ UNCHANGED <<env, store, tables, restarts, latest, sure>>

Info(u, name, acct) == [user |-> u, name |-> name, acct |-> acct]

(* Mutant: a row for every submission. *)
SetNewRow(p, u, name, acct) == Submit(p, u, {}, Info(u, name, acct))

(* setForUser finds the row of the user and sets all of it in memory.  The *)
(* body is not validated: what it omits is undefined, here Nobody.         *)
SetForUser(p, u, name, acct) == Submit(p, u, RowsOf(u), Info(u, name, acct))

(* The columns a save writes: not those that are undefined in the entity.  *)
Given(info) == {c \in Columns : info[c] # Nobody}

Overwrite(row, info, C) ==
  [user |-> info.user, name |-> IF "name" \in C THEN info.name ELSE row.name,
   acct |-> IF "acct" \in C THEN info.acct ELSE row.acct]

Saved(p) ==
  latest' = [latest EXCEPT ![req[p].u] = Overwrite(@, req[p].val, Given(req[p].val))]

(* save of a new row; no column may be null.                               *)
InsertBank(p) ==
  /\ At(p, "insert")
  /\ Given(req[p].val) = Columns
  /\ \E r \in RowId :
       /\ bank[r] = NoRow
       /\ \A n \in RowId : n < r => bank[n] # NoRow
       /\ bank' = [bank EXCEPT ![r] = req[p].val]
  /\ Saved(p)
  /\ Finish(p)
  /\ UNCHANGED <<env, store, cashouts, calls, restarts, sent, raced, sure>>

(* save of a row that was found: the columns that differ are updated.      *)
SelectBank(p) ==
  /\ At(p, "select")
  /\ req' = [req EXCEPT ![p].pc = "update",
       ![p].cols = {c \in Given(req[p].val) : bank[req[p].row][c] # req[p].val[c]}]
  /\ UNCHANGED <<env, store, tables, calls, restarts, history>>

UpdateBank(p) ==
  /\ At(p, "update")
  /\ bank' = [bank EXCEPT ![req[p].row] = Overwrite(@, req[p].val, req[p].cols)]
  /\ Saved(p)
  /\ Finish(p)
  /\ UNCHANGED <<env, store, cashouts, calls, restarts, sent, raced, sure>>

-----------------------------------------------------------------------------
(* The gate.  A call that is turned away changes nothing and is left out.  *)
Cashout(p, u) ==
  /\ Call /\ At(p, "idle")
  /\ store[u].status = "verified"
  /\ req' = [req EXCEPT ![p] = Started("bank", u)]
  /\ UNCHANGED <<env, store, tables, restarts, history>>

(* Mutant: the row is not read again. *)
HasBankOnce(p) ==
  /\ At(p, "bank")
  /\ RowsOf(req[p].u) # {}
  /\ req' = [req EXCEPT ![p].pc = "open"]
  /\ UNCHANGED <<env, store, tables, calls, restarts, history>>

(* Bank information exists; then the amount and the balance, which CashoutTx *)
(* has.                                                                     *)
HasBank(p) ==
  /\ At(p, "bank")
  /\ RowsOf(req[p].u) # {}
  /\ req' = [req EXCEPT ![p].pc = "reread"]
  /\ UNCHANGED <<env, store, tables, calls, restarts, history>>

(* Mutant: findOne without the user. *)
ReadAnyDestination(p) ==
  /\ At(p, "reread")
  /\ \E r \in RowId :
       /\ bank[r] # NoRow
       /\ req' = [req EXCEPT ![p].pc = "open", ![p].dest = bank[r].acct]
  /\ UNCHANGED <<env, store, tables, calls, restarts, history>>

(* WalletService.cashout reads the bank row again, for its last4.          *)
ReadDestination(p) ==
  /\ At(p, "reread")
  /\ \E r \in RowsOf(req[p].u) : req' = [req EXCEPT ![p].pc = "open", ![p].dest = bank[r].acct]
  /\ UNCHANGED <<env, store, tables, calls, restarts, history>>

(* ... and commits the cashout.                                            *)
OpenCashout(p) ==
  /\ At(p, "open")
  /\ cashouts' = [cashouts EXCEPT ![req[p].u] = @ \cup {req[p].dest}]
  /\ Finish(p)
  /\ UNCHANGED <<env, store, bank, calls, restarts, history>>

(* A check or a statement fails.                                           *)
Stop(p) ==
  /\ ~At(p, "idle")
  /\ Finish(p)
  /\ UNCHANGED <<env, store, tables, calls, restarts, history>>

(* The process restarts, perhaps with another environment.                 *)
Restart ==
  /\ restarts < MaxRestarts
  /\ restarts' = restarts + 1
  /\ store' = [u \in User |-> NoRecord]
  /\ req' = [p \in Proc |-> NoRequest]
  /\ sure' = [u \in User |-> FALSE]
  /\ stripe' \in BOOLEAN
  /\ UNCHANGED <<dev, tables, calls, sent, latest, raced>>

Statement(p) ==
  \/ SessionCreated(p) \/ InsertBank(p) \/ SelectBank(p) \/ UpdateBank(p)
  \/ HasBank(p) \/ ReadDestination(p) \/ OpenCashout(p)

Next ==
  \/ \E p \in Proc, u \in User : Start(p, u) \/ Cashout(p, u)
  \/ \E p \in Proc, u \in User, name \in Name \cup {Nobody}, acct \in Account \cup {Nobody} :
       SetForUser(p, u, name, acct)
  \/ \E u \in User, s \in Statuses : SetStatus(u, s)
  \/ \E u \in User : CompleteDev(u)
  \/ \E p \in Proc : Statement(p) \/ Stop(p)
  \/ Restart

Spec == Init /\ [][Next]_vars

-----------------------------------------------------------------------------
Row == [user : User \cup {Nobody}, name : Name \cup {Nobody}, acct : Account \cup {Nobody}]

Request ==
  [pc : {"idle", "session", "insert", "select", "update", "bank", "reread", "open"},
   u : User \cup {Nobody}, row : {0} \cup RowId, val : Row, cols : SUBSET Columns,
   dest : Account \cup {Nobody}]

TypeOK ==
  /\ dev \in BOOLEAN /\ stripe \in BOOLEAN
  /\ store \in [User -> [status : Statuses \cup {"none"}, url : {"none", "dev", "stripe"}]]
  /\ bank \in [RowId -> Row]
  /\ cashouts \in [User -> SUBSET Account]
  /\ req \in [Proc -> Request]
  /\ calls \in Nat /\ restarts \in Nat
  /\ sent \in [User -> SUBSET Row]
  /\ latest \in [User -> Row]
  /\ raced \in [User -> BOOLEAN] /\ sure \in [User -> BOOLEAN]

(* Nothing but the development endpoints ever writes "verified": where     *)
(* they are off, with Stripe or without, no cashout passes the gate.       *)
ClosedWithoutDev == dev \/ \A u \in User : cashouts[u] = {} /\ store[u].status # "verified"

(* start reads the record before it awaits Stripe and writes it after.  A  *)
(* user who was verified while no start of theirs was under way stays so   *)
(* until a restart or dev-set-status: start never takes it back.           *)
VerifiedSticks == \A u \in User : sure[u] => store[u].status = "verified"

(* find, then insert, with no unique index; a save updates only columns    *)
(* that were given and differ.  A user whose submissions came one at a     *)
(* time, complete or not and interrupted anywhere, has one row at most,    *)
(* with what the finished ones said last of each column.                   *)
BankRowIsLatest ==
  \A u \in User :
    \/ raced[u]
    \/ Cardinality(RowsOf(u)) <= 1 /\ GetMyBankInfo(u) \subseteq {latest[u]}

(* The bank row is read twice on the way.  Whichever row and whichever     *)
(* version was read: a cashout goes to an account its user submitted, and  *)
(* never to none.                                                          *)
DestinationIsOwn ==
  \A u \in User : cashouts[u] \subseteq {info.acct : info \in sent[u]} \ {Nobody}
=============================================================================
