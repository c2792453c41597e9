----------------------------- MODULE StoreOrders -----------------------------
(***************************************************************************)
(* Store items and their orders: StoreItemsService behind its three        *)
(* controllers, and the cancellation of OwnerOrdersService on the same     *)
(* rows (its module is imported by nothing: with it out of Routes the      *)
(* program as wired is left).                                              *)
(*                                                                         *)
(* Each call is a handler that awaits the database between its statements. *)
(* Nothing locks an order while it is read: `save` is a SELECT and, if the *)
(* status differs from what it returned, an UPDATE of the status.  The     *)
(* charge is one transaction of WalletService (WalletTx has its            *)
(* statements); here it succeeds with its two ledger rows or throws.       *)
(***************************************************************************)
EXTENDS Integers, FiniteSets, FiniteSetsExt

CONSTANTS
  Proc,       \* handlers in flight
  User,       \* buyers and owners: one account may log in as either
  Venue,      \* ids of venues, of which some may not exist (yet)
  Nobody,
  Routes,     \* the calls clients make
  Price,      \* prices in cents
  Quantity,
  MaxItems,   \* bound: items created
  MaxOrders,  \* bound: orders charged
  MaxCalls    \* bound: calls made

AllRoutes ==
  {"order", "cancelMyOrder", "ownerMark", "ownerCancel", "staffMark", "staffCancel",
   "cancelOwnerOrder"}

ASSUME StoreAssumption ==
  /\ Nobody \notin User /\ Nobody \notin Venue
  /\ Routes \subseteq AllRoutes
  /\ Price \subseteq Nat \ {0} /\ Quantity \subseteq Nat \ {0}
  /\ MaxItems \in Nat /\ MaxOrders \in Nat /\ MaxCalls \in Nat

ItemId  == 1..MaxItems
OrderId == 1..MaxOrders

VARIABLES
  ownerOf,    \* venue -> its owner, or Nobody when there is no such row
  items,      \* id -> store_items row
  orders,     \* id -> store_item_orders row
  charges,    \* id -> spend_with_payout and payout_credit rows of a purchase
  refunds,    \* order -> refunds committed
  feed,       \* order -> status of the last event clients received
  req,        \* handler -> where it is and what it holds
  calls,      \* calls made so far
  opened,     \* history: order -> how often it became pending
  contested,  \* history: order -> two handlers held it at once
  settled     \* history: order -> its last handler held it alone and ended

rows == <<ownerOf, items, orders, charges, refunds>>
history == <<opened, contested, settled>>
vars == <<rows, feed, req, calls, history>>

NoItem   == [venue |-> Nobody, price |-> 0]
NoOrder  == [buyer |-> Nobody, item |-> 0, venue |-> Nobody, amt |-> 0, charge |-> 0, status |-> "none"]
NoCharge == [buyer |-> Nobody, payee |-> Nobody, venue |-> Nobody, amt |-> 0, lost |-> FALSE]

(* pc: the next statement; to: the status to save; seller: venueOwnerId;   *)
(* inTx: save is part of a transaction; write: save has found a            *)
(* difference; alone: nobody else held the order since it was read.        *)
Started(pc, o, to) ==
  [pc |-> pc, o |-> o, to |-> to, buyer |-> Nobody, item |-> 0, qty |-> 0, seller |-> Nobody,
   charge |-> 0, inTx |-> FALSE, write |-> FALSE, alone |-> TRUE]

NoRequest == Started("idle", 0, "none")

Init ==
  /\ ownerOf = [v \in Venue |-> Nobody]
  /\ items = [i \in ItemId |-> NoItem]
  /\ orders = [o \in OrderId |-> NoOrder]
  /\ charges = [c \in OrderId |-> NoCharge]
  /\ refunds = [o \in OrderId |-> 0]
  /\ feed = [o \in OrderId |-> "none"]
  /\ req = [p \in Proc |-> NoRequest]
  /\ calls = 0
  /\ opened = [o \in OrderId |-> 0]
  /\ contested = [o \in OrderId |-> FALSE]
  /\ settled = [o \in OrderId |-> FALSE]

At(p, pc) == req[p].pc = pc

Placed(o) == orders[o] # NoOrder
Charged(c) == charges[c] # NoCharge

(* Handlers that have read the row of o and are not done with it.          *)
Holders(o) ==
  {p \in Proc : req[p].pc \in {"select", "update", "reread", "commit", "emit"} /\ req[p].o = o}

-----------------------------------------------------------------------------
(* The platform's percentage, and the two ways of rounding it: Math.round  *)
(* when a purchase is charged, Math.floor in every report.                 *)
platformFeePercent == 10
ChargedFee(a) == (2 * a * platformFeePercent + 100) \div 200

(* Mutant: one digit too many. *)
ReportedFeeTenth(a) == (a * platformFeePercent) \div 1000

ReportedFee(a) == (a * platformFeePercent) \div 100

-----------------------------------------------------------------------------
(* The items.  VenuesService.create is not part of this component; it may  *)
(* well come after an item that names the venue's id.                      *)
CreateVenue(v, u) ==
  /\ ownerOf[v] = Nobody
  /\ ownerOf' = [ownerOf EXCEPT ![v] = u]
  /\ UNCHANGED <<items, orders, charges, refunds, feed, req, calls, history>>

(* Nothing checks that the venue exists.                                   *)
CreateStoreItem(v, price) ==
  \E i \in ItemId :
    /\ items[i] = NoItem
    /\ \A j \in ItemId : j < i => items[j] # NoItem
    /\ items' = [items EXCEPT ![i] = [venue |-> v, price |-> price]]
    /\ UNCHANGED <<ownerOf, orders, charges, refunds, feed, req, calls, history>>

GetAllItems == {i \in ItemId : items[i] # NoItem}

GetItemsForVenue(v) == {i \in GetAllItems : items[i].venue = v}

FindItemsByOwner(u) == {i \in GetAllItems : ownerOf[items[i].venue] = u}

(* The owner's seed: an item for a venue of theirs that has none.          *)
SeedOwnerVenueAndItem(u, v, price) ==
  /\ ownerOf[v] = u
  /\ GetItemsForVenue(v) = {}
  /\ CreateStoreItem(v, price)

-----------------------------------------------------------------------------
(* A call arrives at an idle handler.  Arriving changes nothing, so each   *)
(* route below goes on to its first statement; a call that is refused      *)
(* there changes nothing either and is left out.                           *)
Call(p, route) ==
  /\ At(p, "idle") /\ calls < MaxCalls
  /\ route \in Routes
  /\ calls' = calls + 1

Amount(p) == items[req[p].item].price * req[p].qty

(* createOrderForUser reads the item, then the owner of its venue.         *)
CreateOrderForUser(p, u, i, n) ==
  /\ req' = [req EXCEPT ![p] = [Started("charge", 0, "pending") EXCEPT
               !.buyer = u, !.item = i, !.qty = n, !.seller = ownerOf[items[i].venue]]]
  /\ UNCHANGED <<rows, feed, history>>

(* A buyer orders an item of the menu of a venue.                          *)
CreateOrder(p, u, v, n) ==
  /\ Call(p, "order")
  /\ \E i \in GetItemsForVenue(v) : CreateOrderForUser(p, u, i, n)

(* The wallet findOne({userId: null}) finds: the condition is dropped, so  *)
(* it is anybody's.                                                        *)
Payees(seller) == IF seller = Nobody THEN User ELSE {seller}

(* Mutant: the order is inserted first and charged afterwards. *)
ChargeAfterSave(p) ==
  /\ At(p, "charge")
  /\ req' = [req EXCEPT ![p].pc = "save", ![p].charge = 1]
  /\ UNCHANGED <<rows, feed, calls, history>>

(* chargeStoreItemPurchase, committed.                                     *)
Charge(p) ==
  /\ At(p, "charge")
  /\ \E c \in OrderId, payee \in Payees(req[p].seller) :
       /\ ~Charged(c)
       /\ \A d \in OrderId : d < c => Charged(d)
       /\ charges' = [charges EXCEPT ![c] =
            [buyer |-> req[p].buyer, payee |-> payee, venue |-> items[req[p].item].venue,
             amt |-> Amount(p), lost |-> FALSE]]
       /\ req' = [req EXCEPT ![p].pc = "save", ![p].charge = c]
  /\ UNCHANGED <<ownerOf, items, orders, refunds, feed, calls, history>>

Insert(p, amt) ==
  \E o \in OrderId :
    /\ ~Placed(o)
    /\ \A n \in OrderId : n < o => Placed(n)
    /\ orders' = [orders EXCEPT ![o] =
         [buyer |-> req[p].buyer, item |-> req[p].item, venue |-> items[req[p].item].venue,
          amt |-> amt, charge |-> req[p].charge, status |-> "pending"]]
    /\ opened' = [opened EXCEPT ![o] = 1]
    /\ req' = [req EXCEPT ![p] = Started("emit", o, "pending")]
    /\ UNCHANGED <<ownerOf, items, charges, refunds, feed, calls, contested, settled>>

(* Mutant: the price, not the amount, in the order. *)
SaveUnitPrice(p) == At(p, "save") /\ Insert(p, items[req[p].item].price)

(* The INSERT of the order, a statement of its own.                        *)
SaveOrder(p) == At(p, "save") /\ Insert(p, Amount(p))

-----------------------------------------------------------------------------
(* Marks and cancels: findOne, the checks, save, the event.                *)
Statuses == {"pending", "completed", "canceled"}

Row(p) == orders[req[p].o]

(* p has read the order of its call and goes on with it.                   *)
Hold(p, call) ==
  LET others == Holders(call.o)
  IN /\ req' = [q \in Proc |-> IF q = p THEN [call EXCEPT !.alone = (others = {})]
                               ELSE IF q \in others THEN [req[q] EXCEPT !.alone = FALSE]
                               ELSE req[q]]
     /\ contested' = [contested EXCEPT ![call.o] = @ \/ others # {}]
     /\ settled' = [settled EXCEPT ![call.o] = FALSE]
     /\ UNCHANGED <<rows, feed, opened>>

(* A completed order may be completed again and nothing else.              *)
Movable(o, s) == orders[o].status = "completed" => s = "completed"

CancelOrderForBuyer(p, u, o) ==
  /\ Placed(o) /\ orders[o].buyer = u
  /\ orders[o].status = "pending"
  /\ Hold(p, Started("select", o, "canceled"))

(* Mutant: a mark that may take an order out of completed. *)
OwnerMarkOrderAny(p, u, o, s) ==
  /\ Placed(o) /\ ownerOf[orders[o].venue] = u
  /\ Hold(p, Started("select", o, s))

(* The inner join with venues, then the order.                             *)
OwnerMarkOrder(p, u, o, s) ==
  /\ Placed(o) /\ ownerOf[orders[o].venue] = u
  /\ Movable(o, s)
  /\ Hold(p, Started("select", o, s))

OwnerCancelOrder(p, u, o) ==
  /\ Placed(o) /\ ownerOf[orders[o].venue] = u
  /\ Movable(o, "canceled")
  /\ Hold(p, Started("select", o, "canceled"))

StaffMarkOrder(p, v, o, s) ==
  /\ Placed(o) /\ orders[o].venue = v
  /\ Movable(o, s)
  /\ Hold(p, Started("select", o, s))

StaffCancelOrder(p, v, o) ==
  /\ Placed(o) /\ orders[o].venue = v
  /\ Movable(o, "canceled")
  /\ Hold(p, Started("select", o, "canceled"))

(* cancelOwnerOrder looks at the order first outside the transaction ...   *)
CheckOwnerOrder(p, u, o) ==
  /\ Placed(o) /\ ownerOf[orders[o].venue] = u
  /\ orders[o].status = "pending"
  /\ Hold(p, [Started("reread", o, "cancelled") EXCEPT !.inTx = TRUE])

(* The routes.  Those of the owner controller ask for a token, not a role. *)
CancelMyOrder(p, u, o) == Call(p, "cancelMyOrder") /\ CancelOrderForBuyer(p, u, o)

(* Mutant: any word is a status. *)
OwnerMarkAnyWord(p, u, o, s) == Call(p, "ownerMark") /\ OwnerMarkOrder(p, u, o, "done")

OwnerMark(p, u, o, s) == Call(p, "ownerMark") /\ OwnerMarkOrder(p, u, o, s)
OwnerCancel(p, u, o) == Call(p, "ownerCancel") /\ OwnerCancelOrder(p, u, o)
StaffMark(p, v, o, s) == Call(p, "staffMark") /\ StaffMarkOrder(p, v, o, s)
StaffCancel(p, v, o) == Call(p, "staffCancel") /\ StaffCancelOrder(p, v, o)
CancelOwnerOrder(p, u, o) == Call(p, "cancelOwnerOrder") /\ CheckOwnerOrder(p, u, o)

(* ... and again in it, still without a lock.                              *)
RereadOwnerOrder(p) ==
  /\ At(p, "reread")
  /\ Row(p).status = "pending"
  /\ req' = [req EXCEPT ![p].pc = "select"]
  /\ UNCHANGED <<rows, feed, calls, history>>

(* The SELECT of save.                                                     *)
Select(p) ==
  /\ At(p, "select")
  /\ req' = [req EXCEPT ![p].pc = IF req[p].inTx THEN "commit" ELSE "update",
                        ![p].write = (Row(p).status # req[p].to)]
  /\ UNCHANGED <<rows, feed, calls, history>>

SaveStatus(p) ==
  LET o == req[p].o
  IN /\ orders' = IF req[p].write THEN [orders EXCEPT ![o].status = req[p].to] ELSE orders
     /\ opened' = IF req[p].write /\ req[p].to = "pending" /\ Row(p).status # "pending"
                  THEN [opened EXCEPT ![o] = @ + 1] ELSE opened
     /\ req' = [req EXCEPT ![p].pc = "emit"]
     /\ UNCHANGED <<ownerOf, items, charges, feed, calls, contested, settled>>

(* Its UPDATE of the status.                                               *)
Update(p) == At(p, "update") /\ SaveStatus(p) /\ UNCHANGED refunds

(* Mutant: the refund without the status. *)
CommitRefundOnly(p) ==
  /\ At(p, "commit")
  /\ refunds' = [refunds EXCEPT ![req[p].o] = @ + 1]
  /\ req' = [req EXCEPT ![p].pc = "emit", ![p].to = Row(p).status]
  /\ UNCHANGED <<ownerOf, items, orders, charges, feed, calls, history>>

(* The transaction of cancelOwnerOrder: the amount goes back to what the   *)
(* buyer can spend, whatever became of the order since it was read.        *)
CommitOwnerCancel(p) ==
  /\ At(p, "commit")
  /\ SaveStatus(p)
  /\ refunds' = [refunds EXCEPT ![req[p].o] = @ + 1]

Finish(p) == req' = [req EXCEPT ![p] = NoRequest]

(* Mutant: no event. *)
EmitNothing(p) ==
  /\ At(p, "emit")
  /\ settled' = [settled EXCEPT ![req[p].o] = req[p].alone]
  /\ Finish(p)
  /\ UNCHANGED <<rows, feed, calls, opened, contested>>

(* emitOrderCreated or emitOrderUpdated with the saved entity, and the     *)
(* answer.                                                                 *)
Emit(p) ==
  /\ At(p, "emit")
  /\ feed' = [feed EXCEPT ![req[p].o] = req[p].to]
  /\ settled' = [settled EXCEPT ![req[p].o] = req[p].alone]
  /\ Finish(p)
  /\ UNCHANGED <<rows, calls, opened, contested>>

(* A check or a statement fails, or the process stops.  Only a purchase    *)
(* that was charged and has no order yet leaves something behind.          *)
Stop(p) ==
  /\ ~At(p, "idle")
  /\ charges' = IF At(p, "save") THEN [charges EXCEPT ![req[p].charge].lost = TRUE] ELSE charges
  /\ Finish(p)
  /\ UNCHANGED <<ownerOf, items, orders, refunds, feed, calls, history>>

Arrive(p) ==
  \/ \E u \in User, v \in Venue, n \in Quantity : CreateOrder(p, u, v, n)
  \/ \E u \in User, o \in OrderId :
       CancelMyOrder(p, u, o) \/ OwnerCancel(p, u, o) \/ CancelOwnerOrder(p, u, o)
  \/ \E u \in User, o \in OrderId, s \in Statuses : OwnerMark(p, u, o, s)
  \/ \E v \in Venue, o \in OrderId : StaffCancel(p, v, o)
  \/ \E v \in Venue, o \in OrderId, s \in Statuses : StaffMark(p, v, o, s)

Statement(p) ==
  \/ Charge(p) \/ SaveOrder(p) \/ RereadOwnerOrder(p) \/ Select(p) \/ Update(p) \/ CommitOwnerCancel(p) \/ Emit(p)

Next ==
  \/ \E v \in Venue, u \in User : CreateVenue(v, u)
  \/ \E v \in Venue, n \in Price : CreateStoreItem(v, n)
  \/ \E u \in User, v \in Venue, n \in Price : SeedOwnerVenueAndItem(u, v, n)
  \/ \E p \in Proc : Arrive(p) \/ Statement(p) \/ Stop(p)

Spec == Init /\ [][Next]_vars

-----------------------------------------------------------------------------
(* The books: what the listing calls return.  All but getOwnerOrders join  *)
(* an order with its venue and its item, and lose it when one is missing.  *)
Joined ==
  {o \in OrderId : /\ Placed(o)
                   /\ ownerOf[orders[o].venue] # Nobody
                   /\ orders[o].item \in GetAllItems}

SoldBy(u) == {o \in Joined : ownerOf[orders[o].venue] = u}

FindOrdersByOwnerLive(u) == SoldBy(u)

FindOwnerOrderByIdLive(u, o) == o \in SoldBy(u)

FindOrdersByOwner(u) == {o \in SoldBy(u) : orders[o].status = "completed"}

FindOrdersForBuyer(u) == {o \in Joined : orders[o].buyer = u}

FindOrderForBuyerById(u, o) == o \in FindOrdersForBuyer(u)

(* Mutant: only the orders staff still has to serve. *)
FindOpenOrdersForStaff(v) ==
  {o \in Joined : orders[o].venue = v /\ orders[o].status = "pending"}

FindOrdersForStaff(v) == {o \in Joined : orders[o].venue = v}

FindStaffOrderById(v, o) == o \in FindOrdersForStaff(v)

(* The routes to these lists, by the buyer, the owner or the venue of the  *)
(* token.                                                                  *)
GetMyOrders(u) == FindOrdersForBuyer(u)
GetOwnerOrdersLive(u) == FindOrdersByOwnerLive(u)
StaffOrders(v) == FindOrdersForStaff(v)

GetOwnerOrders(u) == {o \in OrderId : Placed(o) /\ ownerOf[orders[o].venue] = u}

(* getOwnerStats: per venue the completed orders, and the fee of their sum.*)
AmountOf(S) == SumFunctionOnSet([o \in OrderId |-> orders[o].amt], S)

GetOwnerStats(u) ==
  LET completed(v) == {o \in FindOrdersByOwner(u) : orders[o].venue = v}
      payout == [v \in Venue |-> AmountOf(completed(v)) - ReportedFee(AmountOf(completed(v)))]
  IN [count  |-> Cardinality(FindOrdersByOwner(u)),
      payout |-> SumFunctionOnSet(payout, {v \in Venue : ownerOf[v] = u})]

(* recentOrders of the dashboard, summed up by the client.                 *)
RecentPayout(u) ==
  SumFunctionOnSet([o \in OrderId |-> orders[o].amt - ReportedFee(orders[o].amt)], FindOrdersByOwner(u))

-----------------------------------------------------------------------------
Request ==
  [pc : {"idle", "charge", "save", "reread", "select", "update", "commit", "emit"},
   buyer : User \cup {Nobody}, o : {0} \cup OrderId,
   to : Statuses \cup {"none", "cancelled"}, item : {0} \cup ItemId, qty : Nat,
   seller : User \cup {Nobody}, charge : {0} \cup OrderId, inTx : BOOLEAN, write : BOOLEAN, alone : BOOLEAN]

Item == [venue : Venue \cup {Nobody}, price : Nat]

Order ==
  [buyer : User \cup {Nobody}, item : {0} \cup ItemId, venue : Venue \cup {Nobody}, amt : Nat,
   charge : {0} \cup OrderId, status : Statuses \cup {"none", "cancelled"}]

TypeOK ==
  /\ ownerOf \in [Venue -> User \cup {Nobody}]
  /\ items \in [ItemId -> Item]
  /\ orders \in [OrderId -> Order]
  /\ charges \in [OrderId -> [buyer : User \cup {Nobody}, payee : User \cup {Nobody},
                              venue : Venue \cup {Nobody}, amt : Nat, lost : BOOLEAN]]
  /\ refunds \in [OrderId -> Nat]
  /\ feed \in [OrderId -> Statuses \cup {"none", "cancelled"}]
  /\ req \in [Proc -> Request]
  /\ calls \in Nat
  /\ opened \in [OrderId -> Nat]
  /\ contested \in [OrderId -> BOOLEAN] /\ settled \in [OrderId -> BOOLEAN]

(* createOrderForUser charges and inserts in two commits.  Every order is  *)
(* paid by a charge of its own, of its buyer, venue and amount; and a      *)
(* charge with no order is that of a request still between the two, or of  *)
(* one that was interrupted there.                                         *)
Pays(c, o) ==
  /\ Charged(c) /\ ~charges[c].lost
  /\ charges[c].buyer = orders[o].buyer
  /\ charges[c].venue = orders[o].venue
  /\ charges[c].amt = orders[o].amt

EveryOrderPaid ==
  /\ \A o \in OrderId : Placed(o) => orders[o].charge \in OrderId /\ Pays(orders[o].charge, o)
  /\ \A o, n \in OrderId : Placed(o) /\ Placed(n) /\ orders[o].charge = orders[n].charge => o = n
  /\ \A c \in OrderId : Charged(c) =>
       \/ charges[c].lost
       \/ \E o \in OrderId : Placed(o) /\ orders[o].charge = c
       \/ \E p \in Proc : At(p, "save") /\ req[p].charge = c

(* The reads before a mark or cancel hold nothing.  A completed order      *)
(* stays completed unless the handler that moves it shared the order with  *)
(* another one while it held it.                                           *)
CompletedIsFinal ==
  [][\A o \in OrderId :
       orders[o].status = "completed" /\ orders'[o].status # "completed" =>
         \E p \in Proc : /\ req[p].pc \in {"update", "commit"} /\ req[p].o = o
                         /\ ~req[p].alone]_vars

(* Events are sent after the commit, in any order.  When the last handler  *)
(* of an order had it to itself and ended, clients know its status.        *)
ClientsAgree == \A o \in OrderId : settled[o] => feed[o] = orders[o].status

(* With the calls on one order one at a time, it is refunded at most once  *)
(* for each time it was pending: staff and owners may reopen a refunded    *)
(* order, for which nobody pays again.                                     *)
RefundedPerOpening == \A o \in OrderId : contested[o] \/ refunds[o] <= opened[o]

(* Payouts are credited when an order is charged, rounded one way, and     *)
(* reported when it is completed, rounded the other.  The dashboard of an  *)
(* owner claims no more than the wallet got, but for a cent per order and  *)
(* for what was sold before the venue had an owner and went to another.    *)
CreditedFor(u) ==
  {c \in OrderId : Charged(c) /\ (charges[c].payee = u \/ ownerOf[charges[c].venue] = u)}

CreditOf(S) ==
  SumFunctionOnSet([c \in OrderId |-> charges[c].amt - ChargedFee(charges[c].amt)], S)

DashboardCovered ==
  \A u \in User :
    LET stats == GetOwnerStats(u)
    IN /\ stats.payout <= CreditOf(CreditedFor(u)) + stats.count
       /\ RecentPayout(u) <= CreditOf(CreditedFor(u)) + stats.count

(* What was charged to the credit of the owner of a venue is in the books  *)
(* of its buyer, its owner and its staff, whatever happened to it since.   *)
SoldOrdersShown ==
  \A o \in OrderId :
    Placed(o) /\ charges[orders[o].charge].payee = ownerOf[charges[orders[o].charge].venue] =>
      LET v == charges[orders[o].charge].venue
          buyer == charges[orders[o].charge].buyer
      IN /\ FindOrderForBuyerById(buyer, o) /\ o \in GetMyOrders(buyer)
         /\ FindOwnerOrderByIdLive(ownerOf[v], o)
         /\ o \in GetOwnerOrdersLive(ownerOf[v]) \cap GetOwnerOrders(ownerOf[v])
         /\ FindStaffOrderById(v, o) /\ o \in StaffOrders(v)
         /\ orders[o].item \in FindItemsByOwner(ownerOf[v])
=============================================================================
