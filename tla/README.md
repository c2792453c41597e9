# TLA+ models of the TABZ backend

The backend (NestJS, TypeORM; Postgres in production, SQLite as a development
fallback) keeps the wallets of users, moves money between them, sells the items
of venues, pays cashouts out, and keeps the accounts, profiles and venues this
needs. This directory holds TLA+ models of its logic, TLC runs on small instances
and TLAPS proofs. Paths below are relative to the repository; `W` is
`src/wallet/wallet.service.ts`, `S` is `src/wallet/cashout-scheduler.service.ts`,
`F` is `src/modules/freeboard/freeboard.service.ts`, `I` is
`src/modules/store-items/store-items.service.ts`.

## 1. The system

Requests run concurrently in one Node process (or several); they share only
the database. There is no pessimistic lock and no raised isolation level in the
code, so on Postgres everything runs at READ COMMITTED, and the only
synchronisation is what an `UPDATE ... WHERE` gives.

| Component | State | Operations | Where it is hard | What makes it correct |
|---|---|---|---|---|
| Cashouts (`W` 412-985, `wallet.controller.ts`) | `cashout_requests`, `wallets.cashoutAvailableCents`, `wallet_transactions` | cashout, adminComplete, adminFail, repair, cancel, retry | statements of several transactions interleave; read-then-save; rollback anywhere; bigint columns read as strings | refunded once and with its ledger row; COMPLETED is final; the ledger of a settled cashout sums to zero; money locked never exceeds money there was; one live retry (kept only if retries do not overlap) |
| Mock engine (`S`) | the same tables | every 30 s: snapshot of PENDING, one transaction each, fail or complete | acts on a status it read earlier; ticks overlap; an exception ends the loop | FV-10 and FV-11 of its header; every PENDING row is settled in the end |
| Wallet balances (`W` 66-407, 575-599) | `wallets`, `wallet_transactions` | deposit, spend, unlock, spendWithPayout, transfer, dev credit | lost updates, opposite transfers deadlock, ledger rows outside the transaction, duplicate wallets | no balance goes negative; the ledger claims no money that is not there; one wallet per user; only payments going round deadlock |
| Freeboard (`F`, its scheduler) | `freeboard_drops` | create, claim, late expiry, cleanup | claim races expiry; stale save; reward deposited after the claim committed; 32-bit codes | one caller gets the reward; the row names that caller; expired drops leave ACTIVE |
| Store items and orders (`I`, its three controllers) | `store_items`, `store_item_orders` | create item, order (charges the wallet first), mark, cancel by buyer, owner, staff; lists, dashboard | charge and order commit separately; status read, checked and saved later; events sent after the commit; fee rounded two ways; joins lose rows | an order is paid by a charge of its own; completed is final; clients see the status there is; the books show what was charged |
| Owner orders (`owner-orders.service.ts`) | the same order rows, `wallets` | list, cancel with refund | the order is read twice without a lock; its status word is not the one of the others; the module is imported by nothing | refunded once per time the order was open |
| Identity, bank info (`src/identity`, `bank-info.*`) | a Map in the process; a row per user | start, development endpoints; upsert | record read before Stripe is awaited and written after; lost at restart; find-then-insert without unique index; bank row read twice by a cashout | no cashout without a verified identity; money goes to the account its owner gave |
| Accounts (`auth`, `users`, `account-deletion`) | users, staff, deletion requests, JWTs | create, login, request and confirm deletion | tokens outlive the account; bcrypt between read and use; the request is read outside the transaction | an account is deleted by its own request, and then cannot log in |
| Profiles, venues, pictures (`src/profile`, `venues`, `src/storage`, `src/dev-seed`) | `profiles`, `venues`, objects of a bucket | create, edit, upload, seeds, backfill | whole entities saved; long-held list of the backfill; slugs found then inserted | a listed venue has a page; a row shows what was put there last |
| Drinks, foods, staff redemption; payouts, owner info, engagement, health, password reset, stubs, migrations | – | – | – | see section 7 |

The cashout endpoints call the identity and bank services (gates), then the
wallet tables; the engine shares the tables with them and knows nothing of them;
store orders and freeboard call `WalletService` (charge, deposit) from outside
any transaction of their own; the websocket gateway is told after commits. The
seeds write users, staff, profiles, venues and items through the same services.

## 2. Modules

| Module | What it is |
|---|---|
| `Bigint` | What `+=` does to a bigint column: on Postgres the driver returns a string, so it appends digits; on SQLite it adds. `BigintStrings` chooses. |
| `CashoutTx` | The cashouts of one wallet, statement by statement. Actions, properties and inductive invariants. |
| `CashoutBook` | The promise: open once; PENDING to FAILED with one refund in the same step; to COMPLETED and no further. |
| `CashoutFunds` | The sums over cashouts, and the pages that show them (metrics, list, next payout), with what the sums rest on. |
| `CashoutApart` | `CashoutFunds` with a history variable, `overlaps`: which kinds of unlocked reads have overlapped so far. The system's actions are unchanged. |
| `MCCashout`, `MCCashoutApart` | Instances for TLC (symmetry of requests). |
| `CashoutProofs` | Proofs about `CashoutTx`, `CashoutFunds` and `CashoutApart`: with and without the engine, for the engine off, and up to the overlaps the history remembers. |
| `Sums` | Lemmas about sums over finite sets (`SumFunctionOnSet`), used by the proofs on funds and on the dashboard. |
| `WalletTx`, `MCWallet`, `WalletProofs` | The wallets of several users and the operations that move cents between their columns; instance; proofs. |
| `Freeboard`, `MCFreeboard`, `FreeboardProofs` | Drops, claims, cleanup; instance; proof. |
| `StoreOrders`, `MCStoreOrders`, `StoreOrdersProofs` | Items, orders, their charge, marks, cancels, events and the pages that list them; instance; proofs. |
| `CashoutGate`, `MCCashoutGate`, `CashoutGateProofs` | Identity, bank information and the gate before a cashout; instance; proofs. |
| `Accounts`, `MCAccounts`, `AccountsProofs` | Accounts, logins, tokens, deletion; instance; proofs. |
| `Directory`, `MCDirectory`, `DirectoryProofs` | Profiles, venues, pictures, seeds and the public pages; instance; proofs. |

### How `CashoutTx` corresponds to the code

`cashout`, `avail`, `ledger`, `nextId` are what is committed. `req[r]` is a
handler in flight: `op` its kind, `pc` its next statement, `val` the wallet value
it computed from the value it read. A statement of the code is one action:
`FailRead`, `CancelRead`, ... are the first `findOne` and the early returns;
`Claim` is `cashoutRepo.update({id, status: 'PENDING'}, ...)` (`W` 659, 847);
`WalletRead` is the `findOne` of the wallet with the check and the assignment;
`WalletSave` is `walletRepo.save`, which takes the row lock; `InsertCashout`
takes an id from the sequence; `EngineSave` is the engine's `cashoutRepo.save`
with no condition (`S` 141, 189); the `Commit...` actions make everything the
transaction wrote visible at once, as READ COMMITTED does. Row locks
(`cashoutLock`, `walletLock`) are held to the end of the transaction. A write
that other transactions cannot see before COMMIT (the INSERT of the ledger row)
is part of the commit. `Rollback` can happen at every point: an exception, a
lost connection, a stopped process, a deadlock victim.

TypeORM's `save` is a SELECT and an UPDATE of the columns that differ. Here the
two are one action, since nothing but the skipped UPDATE of an unchanged row
depends on the SELECT (`AlwaysDiffers` says when it cannot be skipped). In
`Freeboard`, where the SELECT decides which columns are overwritten, they are two.

The status `PROCESSING` of the entity's type is written nowhere and is left out.
`failureReason`, `destinationLast4` and the ledger's metadata decide nothing and
are left out; ledger rows are counted by kind per cashout. The ownership checks
of cancel and retry are left out: requests act for the owner of the one wallet.

### How `WalletTx` corresponds to the code

`req[p]` is a handler in flight. Every operation of `W` 66-407 and 575-599 has
the same shape, so the statements are shared and what differs is in operators:
`Delta` and `Assigned` are its assignments, `Affords` its checks, `LedgerRow` the
amount of its ledger row, `Appended` whether it converts a column before adding.
A purchase (`spendWithPayout`, called by `chargeStoreItemPurchase`) and a transfer
have two legs, the debit and the credit. `Find` is `findOne({where: {userId}})`,
which may return any wallet of the user (no unique index), with the check and the
assignments; `FindNone` is the same read when it finds nothing and a wallet is to
be created: `Create` is the INSERT of `getOrCreateWallet`, `InsertReceiver` the
wallet a credit creates inside its transaction. Between the two another request
can create one for the same user; the history variable `crossed` says so and no
action reads it. `Select` and `Update` are the halves
of `save`: the UPDATE writes only the columns in which the entity differs from
what the SELECT returned, and waits for the row lock. Deposits and dev credits
run in autocommit: their `Update` is visible at once and `Commit` is the INSERT
of the ledger row. The others show nothing before `Commit`. The cashout kind is
only the debit of a cashout with its row, whose details are in `CashoutTx`.
`Begin` checks no role. The role in a token is that of the login route, not of
the account (`auth.service.ts` 85-91, 176-184), `store-items.owner.controller.ts`
29 sells to owners, and a purchase of an item without a venue is credited to the
first wallet there is (`W` 279): any user may buy from, and transfer to, any user.
`spend` is left out: nothing calls it.

### How `Freeboard` corresponds to the code

`run[p]` is a claim (one HTTP request) or a cleanup. `Flip` is the conditional
UPDATE of `F` 114; it uses the clock the call read before (`F` 111). `ReadBack`
and `Deposit` are `F` 129-134; `FindDrop` is `F` 141-151; `SaveSelect` and
`SaveUpdate` are the two halves of `save` (`F` 153, 198). `stale` and `taken` are
the columns TypeORM will overwrite: status, and claimer with claim time.
`Fail` ends a run anywhere; a claim that fails after `Flip` loses its reward.
`deposit` itself is one step here; its own statements are in `WalletTx`.

### How `StoreOrders` corresponds to the code

A route with the service method behind it is one action up to its first write
(`CreateOrder`, `CancelMyOrder`, `OwnerMark`, ...); calls that are refused change
nothing and are left out. `Charge` is `chargeStoreItemPurchase` (committed, or
thrown: `WalletTx` has its statements), `SaveOrder` the INSERT that follows it in
a commit of its own. A mark or cancel reads and checks (`Hold`), then `Select`
and `Update` are the halves of `save`, then `Emit` tells the clients.
`RereadOwnerOrder` and `CommitOwnerCancel` are the transaction of
`cancelOwnerOrder`: a second read without a lock, the status and the refund in
one commit. `Stop` is a failure or the end of the process anywhere.

Where a venue does not exist, `createOrderForUser` passes `null` as the owner and
`findOne({where: {userId: null}})` drops the condition: the payout then goes to
whichever wallet comes first (`Payees`). Items may name venues that do not exist
(`CreateVenue` can come after them). `alone` and the variables under `history`
say whether two handlers had read an order at the same time; no action reads
them. The pages are operators (`Joined`, `FindOrdersForStaff`, `GetOwnerStats`,
...): reads of one moment. `AllRoutes` has the route of `OwnerOrdersController`
beside the others although `AppModule` does not import it: the order of its
statements is what would run once it is.

### How `CashoutGate` corresponds to the code

`store` is the Map of `IdentityService`; `Start` is `start` up to the `await` of
Stripe (all of it without `STRIPE_SECRET_KEY`), `SessionCreated` what it writes
afterwards, whatever the record is by then. `SetStatus` and `CompleteDev` are the
development endpoints behind `DevEndpointGuard` (`dev`). `SetForUser` finds the
row of the user; `InsertBank`, or `SelectBank` and `UpdateBank`, are `save`: two
columns (name, account) stand for the four of the body. The body is not validated
(its type is gone at run time, there is no `ValidationPipe`), so a submission may
omit any of them; what is omitted is undefined, and `save` leaves an undefined
column as it is (`Given`), while the INSERT fails on it.
`Cashout`, `HasBank`, `ReadDestination` are the checks of
`wallet.controller.ts:114-127` and the second read at the start of
`WalletService.cashout`; what comes after is `CashoutTx`. `Restart` empties the
Map and ends all handlers.

### How `Accounts` corresponds to the code

`LoginUser` and `LoginStaff` read the row; `CheckUserPassword` and `StaffSubject`
are what follows bcrypt: the deleted check on the row that was read, or the
lookup of the users row by the email of the staff row, with no such check. A
wrong password is `Stop`. `tokens` are those whose seven days are not over
(`JwtStrategy` looks at nothing else). `ConfirmDeletion` holds the checks before
bcrypt, `CommitDeletion` the transaction. Accounts come from the seeds
(`EnsureUser`, `CreateUser`, `SeedStaff`); there is no sign-up route.

### How `Directory` corresponds to the code

A profile is named by its user (`profiles.userId` is unique). `rows` holds the
columns that `save` compares: the link from venue to profile, a picture per kind,
a text. `Patch` reads the entity and changes one column, `Select` and `Update`
are `save`. `Upload` makes the key from user, kind and millisecond, `PutObject`
stores, the row follows. `BackfillVenueOwnerProfileIds` reads the list of venues
without a link once and saves each entity later (`Link`). `Create` computes the
slug (`MakeUniqueSlug`), `InsertVenue` inserts and may meet the unique index.
`OldVenues` are the rows of before the migrations; `needSlug` says whether the
column is NOT NULL, which depends on which migration made the table.

## 3. Runs

`cashout_refund_twice`, below the table, ends in a violation, the others find no
error. Bounds are constants in the `.cfg`.

| Run | Checks | Instance and why it is enough |
|---|---|---|
| `cashout_requests` | `TypeOK`, `RefundedOnce`, `NoDeadlock`, `CompletedIsFinal`, `ImplementsBook` | three requests, two cashouts, all endpoints, engine off: two requests race for a row while a third settles, retries or repairs; two rows make a retry possible |
| `cashout_apart` | `FundsKeptApart`, `OneRetryApart`, `PagesReconcileApart` | two requests that complete, fail, cancel, repair or retry, three ids (a legacy row, a retry of it, and a second retry of it or a retry of the retry), engine off, numeric columns: every race of two requests for a row, and every interruption, with each property excused only after the one overlap that breaks it |
| `cashout_engine` | `SettledBalances` | two requests that open and retry, the engine on |
| `cashout_live` | `PendingIsDebitOnly`, `FailedIsRefunded`, `PendingSettles` | the engine against one client that calls every endpoint, a legacy row, numeric columns; fairness of section 4: what remains true in spite of the races below, and that the engine settles everything |
| `wallet_serial` | `LockedIsRest`, `LedgerBacked` | four calls of any endpoint, one at a time, stopped anywhere, two users, two amounts (one whose fee rounds up), numeric columns: enough for deposit, purchase, cashout, unlock in any order and an interrupted first call |
| `wallet_race` | `TypeOK`, `CirclesArePayments`, `OneWallet` | two processes, two users who both buy, sell and transfer, three wallets, four calls: saves overwrite each other, payments of the two cross and wait for each other, and a wallet is created while another call looks for it or rolls back |
| `freeboard` | `TypeOK`, `OneReward`, `ExpiredLeaves` | two claims, two drops, a cleanup, clock 0..2: claims race each other, the expiry and the cleanup |
| `store_orders` | `TypeOK`, `EveryOrderPaid`, `ClientsAgree`, `RefundedPerOpening`, `DashboardCovered`, `SoldOrdersShown`, `CompletedIsFinal` | two handlers, two users who buy and own, one venue that may come late, two orders, four calls of any route: a purchase, two calls that overlap on its order and one that follows; 3 x 25 cents make the two roundings of the fee differ |
| `cashout_gate` | `TypeOK`, `ClosedWithoutDev`, `VerifiedSticks`, `BankRowIsLatest`, `DestinationIsOwn` | two handlers, two users, two names and two accounts, four calls, one restart, with and without Stripe and the development endpoints: a whole submission, a partial one and another overlap or follow each other, a verification and a cashout go between submissions, or a start overlaps a verification |
| `accounts` | `TypeOK`, `DeletedByRequest`, `MeIsMine`, `NoLateLogin`, `LockedOut` | two handlers, two addresses, two accounts, two deletion requests, eight calls: create, staff, login, ask, confirm, the address given to another account, and a login across any of it |
| `directory` | `TypeOK`, `ListedOpens`, `ShowsLastPost` | an owner and a buyer, two venues old or new, one name (too short for a page, and with the time appended long enough), two kinds of picture, two milliseconds, three calls by two handlers: two uploads or an upload and the backfill overlap on a row |

The violation is of `RefundedOnce`: the engine refunds after a plain read, and a
cancel that claims the row in between refunds too ("Refund ONCE", `W` 680).

Three more losses are excused by the properties of `cashout_apart`, or left out of it:

* Two requests read one balance and both save the difference, so a cashout is
  PENDING with cents that were never taken (`S` 19, "locked when cashout is
  created"), or a refund is lost. `"wallet" \in overlaps` from the moment both
  have read.
* Two retries of one cashout look for a PENDING one before either has committed
  its own, and both debit the wallet and open a cashout
  (`cashout-request.entity.ts` 38, "idempotency link"). `"retry" \in overlaps`.
* On string columns one cashout and then its cancel append digits: 500 and a
  refund of 500 make 500500 (`wallet.entity.ts` 32 declares a number), with
  nothing concurrent. Sums are therefore stated for numeric columns only;
  `cashout_requests`, `cashout_engine` and `cashout_refund_twice` run on strings.

`overlaps` never forgets: after an overlap its properties say nothing more of that
behaviour. What they do say is that no other race loses anything: a claim lost to
another request, a refund or retry rolled back at any statement, a repair between
a cancel and its commit, a completion after either.

Other places where the code does less than a comment says, seen while choosing
what a run can check; each bounds a property above:

* `adminCompleteCashout` writes no completion row (FV-11, `S` 27), and it looks
  only for COMPLETED: a FAILED cashout that was refunded can be completed.
  `MetricsReconcile` counts such cashouts apart (`paidTwice`).
* A cleanup can save EXPIRED, claimer null, over a drop claimed and paid
  meanwhile (`freeboard-drop.entity.ts:47`). `OneReward` is about the payment.
* `wallet.controller.ts:209`, `@Get('cashouts/:id')`, is declared before
  `cashouts/failed`, `cashouts/pending` and `cashouts/completed` and takes their
  requests. The list by status is `Listed` in `CashoutFunds`.
* Concurrent marks of an order can take it out of completed, two deletions
  confirmed at once both commit, two bank submissions at once leave two rows or
  columns of both. The properties say exactly when: `alone`, `shared` and `raced`.
* `cancelOwnerOrder` writes `cancelled`, the others `canceled`; a refunded order
  can be marked pending again and refunded again. `RefundedPerOpening` counts it.
* An old staff account that was deleted keeps its staff row, but its address no
  longer leads to it; so `NoLateLogin` holds without the check.

Amounts of cashouts are cents, at least the 500 of `wallet.controller.ts:138`;
`InitAvail` leaves room for one, two or three of them. `MaxId` bounds the ids of
the sequence: an INSERT beyond it waits, and only its rollback goes on. Deadlock
is checked except where clients can run out of ids or calls (the wallet,
freeboard, store, gate, account and directory runs, whose calls are bounded).
Two concurrent repairs that have both added up the ledger rows both refund, which
`PagesReconcileApart` excuses (`"repair" \in overlaps`). With the engine on
`CompletedIsFinal` fails as well: the engine reads PENDING, an admin completes,
the engine saves FAILED (`S` 141).

Concurrent wallet operations lose updates, so with two processes `LedgerBacked`
and `LockedIsRest` fail; these two are checked, and proved, with one request at a
time. What survives concurrency is in `TypeOK` of `WalletTx`: every value a save
writes was computed from a row that passed the check, so no spendable or cashout
balance goes negative. Users who pay each other at the same moment do deadlock
(`W` 261, 365; Postgres rolls one back, which is `Rollback`); `CirclesArePayments`
says that no other circle of waiting transactions exists: all of it are payments,
and its payers are its payees. Two requests that create the wallet of one user at
the same moment do leave two; `OneWallet` says that nothing else does, whatever is
rolled back.

`DashboardCovered` allows a cent per order: `Math.round` when a purchase is
charged, `Math.floor` when it is reported. It counts what was charged for the
venue before the owner had it, since the payout then went to another wallet.
`ListedOpens` excuses slugs of one or two characters, which the page refuses
although `create` accepts them.

## 4. Fairness

`cashout_live`: a request in flight ends (weak fairness of its statements or its
rollback) but a client need not send any. `@Interval` fires for ever, so ticks
have weak fairness on their own steps. A tick's statements wait for row locks
that requests take and give back again and again; Postgres queues lock waiters,
hence strong fairness. A tick's transaction may be rolled back any number of
times but not for ever (`<>[][~Rollback(t)]_vars`): if the database fails for
ever nothing is settled, and no code could help. `freeboard` assumes the
same of the cleanups, with weak fairness only, as they wait for no lock there.
`accounts` assumes that every token expires (weak fairness of `Expire`: seven days
pass), and nothing of any handler or client: `LockedOut` must hold although a
login may stop, or go on, at any time.

## 5. What is proved

For any set of requests, ids and amounts. Every invariant and every action
property of the runs is the conclusion of a theorem. Where the code keeps it only
if some steps do not overlap, the property is excused by a history variable that
names the overlap, as in the run (`overlaps`, `crossed`, `alone`, `shared`,
`raced`), or, in `SettledApart` and for the sums of a wallet, the theorem has a
hypothesis `[]H` beside `Spec`.

* `CashoutProofs`, engine on or off: `IndInv` is inductive (`Inductive`), so
  `TypeCorrect` (`TypeOK`; with it no available balance below zero),
  `RefundBeforeFailed` (FV-10, `FailedIsRefunded`) and `PendingUntouched`
  (`PendingIsDebitOnly`). `IndInv` adds to these what each handler knows at each
  point: a row it read exists, a row past `RepairSum` has no refund row and is a
  legacy row, an id taken from the sequence is unused and nobody else has it, a
  PENDING row has exactly its debit.
  - `RetriesLinked` (`OneRetryApart`): only two retries of one cashout past their
    check at once can leave two PENDING, whatever else runs. `RetryInv`, which
    holds until they are: past its check a retry finds none of its cashout
    PENDING, until it commits; only a retry opens one.
  - `SettledApart`: `SettledBalances` for clients that call anything but
    adminComplete, which writes no row (`NoAdminComplete`), if nothing else is at a
    row while the engine settles it (`EngineApart`). `SettleInv`: what a claim won,
    or the engine read to be PENDING, still is. `TimerBalances`: with one timer and
    clients that open and retry (`OneTimer`; the run `cashout_engine` is an
    instance), `EngineApart` follows and nothing is assumed of the order of steps.
  - `FundsKept` (`FundsKeptApart`), on numeric columns (`NumberColumns`): the sums
    agree until a transaction is between its read of the wallet and its commit
    while another is (what a lock taken by the read would rule out). Nothing is
    assumed of the rows: where two refund one cashout, the balance says so, and so
    does the ledger. `FundsInv`: the value about to be saved is what is there and
    the amount of the cashout.
  - `PagesReconcile` (`PagesReconcileApart`), with the engine off: the same until
    transactions overlap on the wallet or, as the sum of the ledger rows and the
    refund are two statements, two repairs on one cashout. `CountInv`: one debit
    and at most one refund per row. The equation is that of the funds, cashout by
    cashout (`EachReconciles`), summed.
  - Each of the three invariants is inductive for steps before the overlap:
    `NextRetry`, `NextFunds` and `NextCount` assume that there is none, and what
    `overlaps` does not name has not been (`UnseenApart`).
* `CashoutProofs`, under `Tick = {}` (`MOCK_CASHOUT_ENGINE` is not "true"):
  `RefundOnce`, `CompletedStays`, `DeadlockFree`, and `Implements` (the
  statements implement `CashoutBook`; also `LegacyRows = 0`). The invariant is
  `ClaimsOK`: the row lock is held exactly by the transaction whose conditional
  UPDATE won, and until it commits the row is PENDING for everyone. The engine
  breaks it, which is what `cashout_refund_twice` shows.
  Freedom from deadlock follows from the order: cashout rows first, the wallet
  row last (`WalletLockedLast`).
* `Sums`: what the fold of the community modules computes. `SumFunctionOnSet` is a
  CHOOSE over functions on subsets; the lemmas show that one exists and only one
  (`SolvedAll`, `Unique`), hence the equations used elsewhere: a term taken out
  (`SumRemove`), one term changed (`SumUpdate`), two sums added, sums compared,
  a sum over a partition (`SumParts`). The induction theorems of the library
  cannot be instantiated here (their parameter is an operator); a least
  counterexample, from the well-foundedness of `<` on `Nat`, does instead.
* `WalletProofs`, for any users and on either backend: `TypeCorrect` (`TypeOK`; no
  spendable and no cashout balance is ever negative, `ChangeRow` being the step
  that needs each check), `PaymentsCircle` (`CirclesArePayments`) and
  `WalletPerUser` (`OneWallet`), none with a hypothesis on the order of requests.
  `LockInv` says that a row is locked by the transaction that wrote it, that
  writing never changes its owner, and that a transaction still to save something
  holds at most a wallet of its payer. So one that waits, and is waited for, waits
  in its second leg for a wallet of its payee, which is one of the payer of the
  transaction that holds it (`CircleOfPayments`). `CreateInv` adds that as long as
  nobody crosses, one request at most is creating a wallet of a user, who has none
  then; a wallet that only one transaction sees is the one it is about to commit.
  For requests of which only one is ever open (`Alone`), each interrupted
  anywhere, on numeric columns: `PartsOfTotal` (`LockedIsRest`) and
  `LedgerNeverAhead` (`LedgerBacked`), from `OwnerInv` (the tables as the open one
  would commit them have one wallet per user) and `MoneyInv`: the entity about to
  be saved is what is there, checked and changed, and the ledger rows that are not
  committed yet are backed by money that is saved already.
* `FreeboardProofs`: `TypeCorrect` and `RewardOnce` (`OneReward`) when codes do
  not collide (`UniqueCodes`). `WinInv` says that a code names one drop, that what
  a run holds exists, and that a drop somebody won is not ACTIVE again, because
  the stale saves write EXPIRED only.
* `StoreOrdersProofs`: `TypeCorrect`, `OrdersPaid`, `FeedAgrees`,
  `RefundsBounded`, `SalesShown`, `CompletedStays`, `PayoutsCovered`, for any
  users, venues, prices and handlers. The invariant is `Paid /\ Held`. `Paid`: a handler between charge
  and order has a charge no order and no other handler has (`BuyingOK`), which is
  why each order has one of its own. `Held`: what a handler read of an order it
  has to itself is still so (`Undisturbed`), because whoever joins it clears
  `alone` for both (`HoldInv`); a completed order then has only handlers that
  write completed, and `cancelOwnerOrder` refunds a pending one. `PayoutsCovered`
  (`DashboardCovered`) rests on `Paid` and on the items' venues (`BooksOK`): the
  orders an owner's page counts go one to one into charges counted for the owner
  (`SumImage`), and where each charge rounded its fee by half a cent at most, a
  total that is rounded down differs by a cent per order at most (`RoundedSum`).
* `CashoutGateProofs`: `TypeCorrect`, `GateShut`, `VerificationKept`,
  `OwnDestination`, `RowIsLatest`. `Inv` says of each handler that what it
  read of a bank row is of its own user and made of things that user submitted;
  for `RowIsLatest` (`BankRowIsLatest`) a second invariant, `AllSingle`, says that
  a user whose submissions do not overlap has one row at most, which is the latest,
  and that the columns a handler is about to write make it the latest again.
* `AccountsProofs`: `TypeCorrect`, `DeletionByRequest`, `PagesAgree`,
  `DeletedStaysOut`. `Inv` ties the tables together: a scrubbed account has the
  anonymous address, a CONFIRMED request a deleted account, a login in flight an
  account that was not deleted when it came, a token the address of its account
  as long as that is not deleted.
* `DirectoryProofs`: `TypeCorrect` (`TypeOK`, with it one venue per slug),
  `ListedVenuesOpen` (`ListedOpens`) and `RowsShowLastPost` (`ShowsLastPost`).
  `TypeInv` says what a request in flight is about; `LinkInv`, that every link
  stored, or about to be, leads from a venue to the owner's profile of its owner;
  `ShowInv`, for rows that one handler held at a time, that what the handler read
  is still there but for the one column it changes, that an owner's pictures have
  keys of the owner's, and that a key whose picture is not in the bucket yet is
  named by nobody else. Assumed of the constants: None is no user, venue, name or
  key, users are not venues.

Only model-checked: liveness (`PendingSettles`, `ExpiredLeaves`, `LockedOut`),
which is out of the prover's reach. Not proved because it is not so: with the
engine on, `RefundedOnce`, `CompletedIsFinal` and `ImplementsBook`; on string
columns, what `NumberColumns` assumes. Codes that collide are in no run and in no
theorem: the proofs on drops assume distinct codes.

## 6. Plan

1. An abstract `Bank` that only moves cents, which `WalletTx` implements for
   requests that do not overlap (`MoneyInv` has what the refinement needs), and
   which `StoreOrders` and `Freeboard` use for their charge and deposit.
2. `CashoutGate` and `CashoutTx` composed: the cashout that passed the gate is
   the one that is opened.
3. Drinks, foods and staff redemption, once a module imports them; the pure
   functions kept in `blueprint-impl` and `cert-engine`.

## 7. Not modelled

Code that no request reaches: drinks, foods and staff redemption (their modules
are not imported by `app.module.ts`), payouts (deprecated, every call throws),
owner info (single-row CRUD, not imported), `spend` of `WalletService`,
`upsertUser`, `deactivateForUser`, the tables of venue wallets and cashout locks
(touched by no code), the empty modules. Code that decides nothing: engagement
events (append-only, read by nothing), connections and rooms of the websocket
gateway, health, password reset (answers ok). Migrations are DDL; they were read
for column types and unique indexes, and a definition is mapped to one where it
models a table. Files outside `src/src` that nothing imports: frontend extracts,
`_quarantine`, `blueprint-impl`, `pillar-work`, `cert-engine`, one-off scripts.
Of what is modelled: bank numbers and names as text, logging, rate limits, file
checks of uploads (they only turn calls away), the wording of answers, and
SQLite's own locking (the numeric runs take only its column type).
