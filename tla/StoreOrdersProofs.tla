-------------------------- MODULE StoreOrdersProofs --------------------------
(* Orders of store items, for any buyers, owners, venues, prices, handlers *)
(* and numbers of calls: every order is paid, and what a handler that had  *)
(* the order to itself did is what it meant and what clients were told.    *)
EXTENDS StoreOrders, Sums, TLAPS

Holding == {"select", "update", "reread", "commit", "emit"}
Holds(p, o) == req[p].pc \in Holding /\ req[p].o = o

-----------------------------------------------------------------------------
(* Charges and orders                                                      *)

There(i) == i \in ItemId /\ items[i] # NoItem

OrderOK(o) ==
  /\ Placed(o) =>
       /\ There(orders[o].item) /\ orders[o].venue = items[orders[o].item].venue
       /\ orders[o].charge \in OrderId /\ Pays(orders[o].charge, o)
  /\ ~Placed(o) => refunds[o] = 0 /\ opened[o] = 0 /\ ~settled[o]

OwnCharge ==
  \A o, n \in OrderId : Placed(o) /\ Placed(n) /\ orders[o].charge = orders[n].charge => o = n

ChargeOK(c) ==
  Charged(c) =>
    /\ charges[c].payee \in User
    /\ \/ charges[c].lost
       \/ \E o \in OrderId : Placed(o) /\ orders[o].charge = c
       \/ \E p \in Proc : At(p, "save") /\ req[p].charge = c

(* A handler between the charge and the order has a charge of its own, and *)
(* a handler of an order has one that is placed.                           *)
BuyingOK(p) ==
  /\ req[p].pc \in {"charge", "save"} => req[p].buyer \in User /\ There(req[p].item)
  /\ At(p, "save") =>
       /\ req[p].charge \in OrderId /\ ~charges[req[p].charge].lost
       /\ charges[req[p].charge].buyer = req[p].buyer
       /\ charges[req[p].charge].venue = items[req[p].item].venue
       /\ charges[req[p].charge].amt = Amount(p)
       /\ \A o \in OrderId : Placed(o) => orders[o].charge # req[p].charge
       /\ \A q \in Proc : At(q, "save") /\ req[q].charge = req[p].charge => q = p
  /\ req[p].pc \in Holding => req[p].o \in OrderId /\ Placed(req[p].o)

(* A handler that nobody joined: what it read is still so.                 *)
Undisturbed(p) ==
  LET s == orders[req[p].o].status IN
  /\ \A q \in Proc \ {p} : ~Holds(q, req[p].o)
  /\ req[p].pc # "emit" => (s = "completed" => req[p].to = "completed")
  /\ req[p].pc \in {"update", "commit"} => (req[p].write <=> s # req[p].to)
  /\ req[p].pc = "emit" => s = req[p].to
  /\ req[p].inTx /\ req[p].pc \in {"select", "commit"} => s = "pending"

HoldingOK(p) ==
  req[p].pc \in Holding =>
    /\ req[p].alone => Undisturbed(p)
    /\ ~req[p].alone => contested[req[p].o]
    /\ req[p].pc \in {"reread", "commit"} => req[p].inTx
    /\ req[p].inTx /\ req[p].pc # "emit" => req[p].to = "cancelled"

SettledOK(o) ==
  settled[o] => feed[o] = orders[o].status /\ \A p \in Proc : ~Holds(p, o)

RefundOK(o) ==
  \/ contested[o]
  \/ /\ refunds[o] <= opened[o]
     /\ orders[o].status = "pending" => refunds[o] < opened[o]

Paid ==
  /\ TypeOK /\ OwnCharge
  /\ \A o \in OrderId : OrderOK(o) /\ ChargeOK(o)
  /\ \A p \in Proc : BuyingOK(p)

Held ==
  /\ \A p \in Proc : HoldingOK(p)
  /\ \A o \in OrderId : SettledOK(o) /\ RefundOK(o)

Inv == Paid /\ Held

LEMMA NoRequestType == NoRequest \in Request /\ NoRequest.pc = "idle"
BY DEF NoRequest, Started, Request

LEMMA InitInv == Init => Inv
<1> SUFFICES ASSUME Init PROVE Inv
  OBVIOUS
<1>1. TypeOK
  BY NoRequestType DEF Init, TypeOK, NoItem, Item, NoOrder, Order, NoCharge
<1>2. OwnCharge /\ \A o \in OrderId : OrderOK(o) /\ ChargeOK(o)
  BY DEF Init, OwnCharge, OrderOK, ChargeOK, Placed, Charged
<1>3. \A p \in Proc : BuyingOK(p) /\ HoldingOK(p)
  BY NoRequestType DEF Init, BuyingOK, HoldingOK, At, Holding
<1>4. \A o \in OrderId : SettledOK(o) /\ RefundOK(o)
  BY DEF Init, SettledOK, RefundOK, NoOrder
<1> QED
  BY <1>1, <1>2, <1>3, <1>4 DEF Inv, Paid, Held

(* An item that is there stays what it is.                                 *)
ItemsKept == \A i \in ItemId : items[i] # NoItem => items'[i] = items[i]

(* A step that leaves orders alone, of a handler that then holds none.     *)
LEMMA AsideHeld ==
  ASSUME Inv, NEW p \in Proc, \A q \in Proc \ {p} : req'[q] = req[q],
         req'[p].pc \notin Holding, UNCHANGED <<orders, refunds, feed, opened, contested, settled>>
  PROVE  Held'
<1>1. \A q \in Proc, o \in OrderId : Holds(q, o)' => Holds(q, o)
  BY DEF Holds
<1>2. (\A q \in Proc : HoldingOK(q))'
  <2> SUFFICES ASSUME NEW q \in Proc, req'[q].pc \in Holding PROVE HoldingOK(q)'
    BY DEF HoldingOK
  <2>1. req'[q] = req[q] /\ HoldingOK(q) /\ req[q].o \in OrderId
    BY DEF Inv, Held, Paid, BuyingOK
  <2>2. Undisturbed(q) => Undisturbed(q)'
    BY <1>1, <2>1 DEF Undisturbed
  <2> QED
    BY <2>1, <2>2 DEF HoldingOK
<1>3. (\A o \in OrderId : SettledOK(o) /\ RefundOK(o))'
  BY <1>1 DEF Inv, Held, SettledOK, RefundOK
<1> QED
  BY <1>2, <1>3 DEF Held

-----------------------------------------------------------------------------
(* Venues, items and purchases                                             *)

LEMMA CreateVenueInv ==
  ASSUME Inv, NEW v \in Venue, NEW u \in User, CreateVenue(v, u)
  PROVE  Inv'
<1>1. UNCHANGED <<items, orders, charges, refunds, feed, req, calls, opened, contested, settled>>
      /\ ownerOf' \in [Venue -> User \cup {Nobody}]
  BY DEF CreateVenue, history, Inv, Paid, TypeOK
<1>2. TypeOK'
  BY <1>1 DEF Inv, Paid, TypeOK
<1>3. Paid'
  BY <1>1, <1>2 DEF Inv, Paid, OwnCharge, OrderOK, ChargeOK, BuyingOK, Placed, Charged, Pays, At, There, Amount
<1>4. Held'
  BY <1>1 DEF Inv, Held, HoldingOK, SettledOK, RefundOK, Undisturbed, Holds
<1> QED
  BY <1>3, <1>4 DEF Inv

LEMMA CreateStoreItemInv ==
  ASSUME Inv, NEW v \in Venue, NEW price \in Price, CreateStoreItem(v, price)
  PROVE  Inv'
<1>1. UNCHANGED <<ownerOf, orders, charges, refunds, feed, req, calls, opened, contested, settled>>
  BY DEF CreateStoreItem, history
<1>2. PICK i \in ItemId : items[i] = NoItem /\ items' = [items EXCEPT ![i] = [venue |-> v, price |-> price]]
  BY DEF CreateStoreItem
<1>3. ItemsKept /\ items' \in [ItemId -> Item]
  BY <1>2, StoreAssumption DEF ItemsKept, Item, Inv, Paid, TypeOK
<1>4. \A j : There(j) => There(j)' /\ items'[j] = items[j]
  BY <1>3 DEF There, ItemsKept
<1>5. TypeOK'
  BY <1>1, <1>3 DEF Inv, Paid, TypeOK
<1>6. OwnCharge' /\ \A o \in OrderId : OrderOK(o)' /\ ChargeOK(o)'
  BY <1>1, <1>4 DEF Inv, Paid, OwnCharge, OrderOK, ChargeOK, Placed, Charged, Pays, At
<1>7. \A p \in Proc : BuyingOK(p)'
  <2> SUFFICES ASSUME NEW p \in Proc PROVE BuyingOK(p)'
    OBVIOUS
  <2>1. req[p].pc \in {"charge", "save"} => Amount(p)' = Amount(p)
    BY <1>1, <1>4 DEF Inv, Paid, BuyingOK, Amount
  <2> QED
    BY <1>1, <1>4, <2>1 DEF Inv, Paid, BuyingOK, Placed, At
<1>8. Held'
  BY <1>1 DEF Inv, Held, HoldingOK, SettledOK, RefundOK, Undisturbed, Holds
<1> QED
  BY <1>5, <1>6, <1>7, <1>8 DEF Inv, Paid

(* A handler goes on without touching a table.                             *)
LEMMA MovePaid ==
  ASSUME Inv, NEW p \in Proc, req' \in [Proc -> Request], \A q \in Proc \ {p} : req'[q] = req[q],
         UNCHANGED <<ownerOf, items, orders, charges, refunds, opened, contested>>,
         settled' \in [OrderId -> BOOLEAN], feed' \in [OrderId -> Statuses \cup {"none", "cancelled"}],
         calls' \in Nat, ~At(p, "save"), req'[p].pc # "save", BuyingOK(p)',
         \A o \in OrderId : ~Placed(o) => ~settled'[o]
  PROVE  Paid'
<1>1. TypeOK'
  BY DEF Inv, Paid, TypeOK
<1>2. OwnCharge' /\ \A o \in OrderId : OrderOK(o)'
  BY DEF Inv, Paid, OwnCharge, OrderOK, Placed, Charged, Pays, There
<1>3. \A c \in OrderId : ChargeOK(c)'
  <2> SUFFICES ASSUME NEW c \in OrderId, Charged(c) PROVE ChargeOK(c)'
    BY DEF ChargeOK, Charged
  <2>1. \A q \in Proc : At(q, "save") => At(q, "save")' /\ req'[q] = req[q]
    BY DEF At
  <2> QED
    BY <2>1 DEF Inv, Paid, ChargeOK, Placed, Charged
<1>4. \A q \in Proc : BuyingOK(q)'
  <2> SUFFICES ASSUME NEW q \in Proc, q # p PROVE BuyingOK(q)'
    OBVIOUS
  <2>1. req'[q] = req[q] /\ BuyingOK(q) /\ Amount(q)' = Amount(q)
    BY DEF Inv, Paid, Amount
  <2> QED
    BY <2>1 DEF BuyingOK, Placed, At, There
<1> QED
  BY <1>1, <1>2, <1>3, <1>4 DEF Paid

LEMMA CreateOrderInv ==
  ASSUME Inv, NEW p \in Proc, NEW u \in User, NEW v \in Venue, NEW n \in Quantity,
         CreateOrder(p, u, v, n)
  PROVE  Inv'
<1>1. PICK i \in GetItemsForVenue(v) : CreateOrderForUser(p, u, i, n)
  BY DEF CreateOrder
<1> DEFINE r == [Started("charge", 0, "pending") EXCEPT
                   !.buyer = u, !.item = i, !.qty = n, !.seller = ownerOf[items[i].venue]]
<1>2. There(i) /\ items[i].venue = v
  BY DEF GetItemsForVenue, GetAllItems, There
<1>3. r \in Request /\ r.pc = "charge" /\ r.buyer = u /\ r.item = i
  <2>1. i \in ItemId /\ n \in Nat /\ ownerOf[items[i].venue] \in User \cup {Nobody}
    BY <1>2, StoreAssumption DEF There, Inv, Paid, TypeOK
  <2> DEFINE s == ownerOf[items[i].venue]
  <2> HIDE DEF s
  <2>2. r = [Started("charge", 0, "pending") EXCEPT !.buyer = u, !.item = i, !.qty = n, !.seller = s]
    BY DEF s
  <2>3. s \in User \cup {Nobody}
    BY <2>1 DEF s
  <2> HIDE DEF r
  <2> QED
    BY <2>1, <2>2, <2>3 DEF Started, Request, Statuses
<1>4. req' = [req EXCEPT ![p] = r] /\ UNCHANGED <<ownerOf, items, orders, charges, refunds, feed>>
      /\ UNCHANGED <<opened, contested, settled>> /\ calls' \in Nat /\ At(p, "idle")
  <2>1. req' = [req EXCEPT ![p] = r]
    BY <1>1 DEF CreateOrderForUser
  <2>2. UNCHANGED <<ownerOf, items, orders, charges, refunds, feed, opened, contested, settled>>
    BY <1>1 DEF CreateOrderForUser, rows, history
  <2>3. calls' \in Nat /\ At(p, "idle")
    BY DEF CreateOrder, Call, Inv, Paid, TypeOK
  <2> QED
    BY <2>1, <2>2, <2>3
<1>5. req' \in [Proc -> Request] /\ req'[p] = r /\ \A q \in Proc \ {p} : req'[q] = req[q]
  BY <1>3, <1>4 DEF Inv, Paid, TypeOK
<1> HIDE DEF r
<1>6. BuyingOK(p)'
  BY <1>2, <1>3, <1>4, <1>5 DEF BuyingOK, At, There, Holding
<1>7. Held'
  BY <1>3, <1>4, <1>5, AsideHeld DEF Holding
<1>8. settled' \in [OrderId -> BOOLEAN] /\ feed' \in [OrderId -> Statuses \cup {"none", "cancelled"}]
      /\ \A o \in OrderId : ~Placed(o) => ~settled'[o]
  BY <1>4 DEF Inv, Paid, TypeOK, OrderOK
<1>9. Paid'
  BY <1>3, <1>4, <1>5, <1>6, <1>8, MovePaid DEF At
<1> QED
  BY <1>7, <1>9 DEF Inv

(* The charge is new: neither an order nor another purchase has it.        *)
LEMMA ChargeInv ==
  ASSUME Inv, NEW p \in Proc, Charge(p)
  PROVE  Inv'
<1>1. PICK c \in OrderId, payee \in Payees(req[p].seller) :
        /\ ~Charged(c)
        /\ charges' = [charges EXCEPT ![c] =
             [buyer |-> req[p].buyer, payee |-> payee, venue |-> items[req[p].item].venue,
              amt |-> Amount(p), lost |-> FALSE]]
        /\ req' = [req EXCEPT ![p].pc = "save", ![p].charge = c]
  BY DEF Charge
<1> DEFINE new == [buyer |-> req[p].buyer, payee |-> payee, venue |-> items[req[p].item].venue,
                   amt |-> Amount(p), lost |-> FALSE]
           r == [req[p] EXCEPT !.pc = "save", !.charge = c]
<1>2. UNCHANGED <<ownerOf, items, orders, refunds, feed, calls, opened, contested, settled>>
      /\ At(p, "charge")
  BY DEF Charge, history
<1>3. req[p] \in Request /\ req[p].buyer \in User /\ There(req[p].item)
      /\ items[req[p].item].venue \in Venue \cup {Nobody}
      /\ items[req[p].item].price \in Nat /\ req[p].qty \in Nat
  BY <1>2 DEF At, Inv, Paid, BuyingOK, TypeOK, Request, There, Item
<1>4. payee \in User
  BY <1>3 DEF Payees, Request
<1>5. Amount(p) \in Nat
  BY <1>3 DEF Amount
<1>6. new \in [buyer : User \cup {Nobody}, payee : User \cup {Nobody},
               venue : Venue \cup {Nobody}, amt : Nat, lost : BOOLEAN] /\ new # NoCharge
  BY <1>3, <1>4, <1>5, StoreAssumption DEF NoCharge
<1>7. charges'[c] = new /\ \A d \in OrderId \ {c} : charges'[d] = charges[d]
  BY <1>1 DEF Inv, Paid, TypeOK
<1>8. r \in Request /\ r.pc = "save" /\ r.charge = c /\ r.buyer = req[p].buyer
      /\ r.item = req[p].item /\ r.qty = req[p].qty
  BY <1>3 DEF Request
<1>9. req'[p] = r /\ req' \in [Proc -> Request] /\ \A q \in Proc \ {p} : req'[q] = req[q]
  BY <1>1, <1>8 DEF Inv, Paid, TypeOK
<1>10. \A q \in Proc : Amount(q)' = Amount(q)
  BY <1>2, <1>8, <1>9 DEF Amount
<1>11. /\ \A o \in OrderId : Placed(o) => orders[o].charge # c
       /\ \A q \in Proc : At(q, "save") => req[q].charge # c
  <2>1. \A o \in OrderId : Placed(o) => Charged(orders[o].charge)
    BY DEF Inv, Paid, OrderOK, Pays
  <2>2. \A q \in Proc : At(q, "save") => charges[req[q].charge].buyer \in User
    BY DEF Inv, Paid, BuyingOK, At
  <2>3. charges[c].buyer \notin User
    BY <1>1, StoreAssumption DEF Charged, NoCharge
  <2>4. ~Charged(c)
    BY <1>1
  <2>5. \A o \in OrderId : Placed(o) => orders[o].charge # c
    BY <2>1, <2>4
  <2>6. \A q \in Proc : At(q, "save") => req[q].charge # c
    BY <2>2, <2>3
  <2> QED
    BY <2>5, <2>6
<1>12. TypeOK'
  BY <1>1, <1>2, <1>6, <1>9 DEF Inv, Paid, TypeOK
<1>17. new.buyer = req[p].buyer /\ new.venue = items[req[p].item].venue /\ new.amt = Amount(p)
       /\ ~new.lost /\ new.payee \in User
  BY <1>4
<1> HIDE DEF new, r
<1>13. OwnCharge' /\ \A o \in OrderId : OrderOK(o)'
  BY <1>2, <1>7, <1>11 DEF Inv, Paid, OwnCharge, OrderOK, Placed, Charged, Pays, There
<1>14. \A d \in OrderId : ChargeOK(d)'
  <2> SUFFICES ASSUME NEW d \in OrderId PROVE ChargeOK(d)'
    OBVIOUS
  <2>1. CASE d = c
    <3>1. At(p, "save")' /\ req'[p].charge = d /\ charges'[d].payee \in User
      BY <1>7, <1>8, <1>9, <1>17, <2>1 DEF At
    <3> QED
      BY <3>1 DEF ChargeOK
  <2>2. CASE d # c
    <3>1. \A q \in Proc : At(q, "save") => At(q, "save")' /\ req'[q] = req[q]
      BY <1>2, <1>9 DEF At
    <3> QED
      BY <1>2, <1>7, <2>2, <3>1 DEF Inv, Paid, ChargeOK, Placed, Charged
  <2> QED
    BY <2>1, <2>2
<1>15. \A q \in Proc : BuyingOK(q)'
  <2> SUFFICES ASSUME NEW q \in Proc PROVE BuyingOK(q)'
    OBVIOUS
  <2>1. CASE q = p
    <3>1. req'[p].pc = "save" /\ req'[p].charge = c /\ req'[p].buyer = req[p].buyer
          /\ req'[p].item = req[p].item /\ Amount(p)' = Amount(p)
      BY <1>8, <1>9, <1>10
    <3>2. \A s \in Proc : At(s, "save")' /\ req'[s].charge = c => s = p
      BY <1>9, <1>11 DEF At
    <3> QED
      BY <1>2, <1>3, <1>7, <1>11, <1>17, <2>1, <3>1, <3>2 DEF BuyingOK, At, There, Placed, Holding
  <2>2. CASE q # p
    <3>1. req'[q] = req[q] /\ BuyingOK(q)
      BY <1>9, <2>2 DEF Inv, Paid
    <3>2. At(q, "save") => charges'[req[q].charge] = charges[req[q].charge]
      <4>1. At(q, "save") => req[q].charge \in OrderId \ {c}
        BY <1>11, <3>1 DEF BuyingOK
      <4> QED
        BY <1>7, <4>1
    <3>3. At(q, "save") => \A s \in Proc : At(s, "save")' /\ req'[s].charge = req[q].charge => s = q
      BY <1>8, <1>9, <1>11, <3>1 DEF BuyingOK, At
    <3> QED
      BY <1>2, <1>10, <3>1, <3>2, <3>3 DEF BuyingOK, At, There, Placed
  <2> QED
    BY <2>1, <2>2
<1>16. Held'
  BY <1>2, <1>8, <1>9, AsideHeld DEF Holding
<1> QED
  BY <1>12, <1>13, <1>14, <1>15, <1>16 DEF Inv, Paid

(* An order appears: nobody held it before, and its charge is taken.       *)
LEMMA SaveOrderInv ==
  ASSUME Inv, NEW p \in Proc, SaveOrder(p)
  PROVE  Inv'
<1> DEFINE c == req[p].charge
           i == req[p].item
<1>1. PICK o \in OrderId :
        /\ ~Placed(o)
        /\ orders' = [orders EXCEPT ![o] =
             [buyer |-> req[p].buyer, item |-> i, venue |-> items[i].venue,
              amt |-> Amount(p), charge |-> c, status |-> "pending"]]
        /\ opened' = [opened EXCEPT ![o] = 1]
        /\ req' = [req EXCEPT ![p] = Started("emit", o, "pending")]
        /\ UNCHANGED <<ownerOf, items, charges, refunds, feed, calls, contested, settled>>
  BY DEF SaveOrder, Insert
<1> DEFINE new == [buyer |-> req[p].buyer, item |-> i, venue |-> items[i].venue,
                   amt |-> Amount(p), charge |-> c, status |-> "pending"]
           r == Started("emit", o, "pending")
<1>2. /\ At(p, "save") /\ req[p].buyer \in User /\ There(i) /\ c \in OrderId /\ ~charges[c].lost
      /\ charges[c].buyer = req[p].buyer /\ charges[c].venue = items[i].venue
      /\ charges[c].amt = Amount(p)
      /\ \A n \in OrderId : Placed(n) => orders[n].charge # c
      /\ \A q \in Proc : At(q, "save") /\ req[q].charge = c => q = p
  BY DEF SaveOrder, At, Inv, Paid, BuyingOK
<1>3. Charged(c) /\ Amount(p) \in Nat /\ items[i].venue \in Venue \cup {Nobody} /\ i \in ItemId
  BY <1>2, StoreAssumption DEF Charged, NoCharge, Inv, Paid, TypeOK, There, Item
<1>4. new \in Order /\ new # NoOrder /\ new.charge = c /\ new.item = i /\ new.status = "pending"
  BY <1>2, <1>3, StoreAssumption DEF Order, NoOrder, Statuses
<1>5. orders'[o] = new /\ (\A n \in OrderId \ {o} : orders'[n] = orders[n]) /\ opened'[o] = 1
      /\ (\A n \in OrderId \ {o} : opened'[n] = opened[n])
  BY <1>1 DEF Inv, Paid, TypeOK
<1>6. r \in Request /\ r.pc = "emit" /\ r.o = o /\ r.to = "pending" /\ r.alone /\ ~r.inTx
  BY DEF Started, Request, Statuses
<1>7. req'[p] = r /\ req' \in [Proc -> Request] /\ \A q \in Proc \ {p} : req'[q] = req[q]
  BY <1>1, <1>6 DEF Inv, Paid, TypeOK
<1>8. \A q \in Proc : Amount(q)' = Amount(q) \/ q = p
  BY <1>1, <1>7 DEF Amount
<1> HIDE DEF new, r
<1>9. TypeOK'
  BY <1>1, <1>4, <1>7, <1>5 DEF new, Inv, Paid, TypeOK
<1>10. Placed(o)' /\ \A n \in OrderId : Placed(n) => Placed(n)' /\ n # o
  BY <1>1, <1>4, <1>5 DEF Placed
<1>11. OwnCharge'
  BY <1>2, <1>4, <1>5, <1>10 DEF Inv, Paid, OwnCharge, Placed
<1>12. \A n \in OrderId : OrderOK(n)'
  <2> SUFFICES ASSUME NEW n \in OrderId PROVE OrderOK(n)'
    OBVIOUS
  <2>1. CASE n = o
    BY <1>1, <1>2, <1>3, <1>4, <1>5, <1>10, <2>1 DEF new, OrderOK, Pays, Charged, There
  <2>2. CASE n # o
    BY <1>1, <1>5, <2>2 DEF Inv, Paid, OrderOK, Pays, Charged, There, Placed
  <2> QED
    BY <2>1, <2>2
<1>13. \A d \in OrderId : ChargeOK(d)'
  <2> SUFFICES ASSUME NEW d \in OrderId PROVE ChargeOK(d)'
    OBVIOUS
  <2>1. CASE d = c
    BY <1>1, <1>3, <1>4, <1>5, <1>10, <2>1 DEF Inv, Paid, ChargeOK, Charged
  <2>2. CASE d # c
    <3>1. \A q \in Proc : At(q, "save") /\ req[q].charge = d => At(q, "save")' /\ req'[q].charge = d
      BY <1>7, <2>2 DEF At
    <3>2. \A n \in OrderId : Placed(n) /\ orders[n].charge = d => Placed(n)' /\ orders'[n].charge = d
      BY <1>5, <1>10
    <3> QED
      BY <1>1, <3>1, <3>2 DEF Inv, Paid, ChargeOK, Charged
  <2> QED
    BY <2>1, <2>2
<1>14. \A q \in Proc : BuyingOK(q)'
  <2> SUFFICES ASSUME NEW q \in Proc PROVE BuyingOK(q)'
    OBVIOUS
  <2>1. CASE q = p
    BY <1>6, <1>7, <1>10, <2>1 DEF BuyingOK, At
  <2>2. CASE q # p
    <3>1. req'[q] = req[q] /\ BuyingOK(q) /\ Amount(q)' = Amount(q)
      BY <1>7, <1>8, <2>2 DEF Inv, Paid
    <3>2. At(q, "save") => \A n \in OrderId : Placed(n)' => orders'[n].charge # req[q].charge
      BY <1>2, <1>4, <1>5, <2>2, <3>1 DEF BuyingOK, Placed
    <3>3. At(q, "save") => \A s \in Proc : At(s, "save")' /\ req'[s].charge = req[q].charge => s = q
      BY <1>6, <1>7, <3>1 DEF BuyingOK, At
    <3> QED
      BY <1>1, <1>10, <3>1, <3>2, <3>3 DEF BuyingOK, At, There
  <2> QED
    BY <2>1, <2>2
<1>15. \A q \in Proc : ~Holds(q, o) /\ (Holds(q, o)' => q = p)
  BY <1>1, <1>7 DEF Inv, Paid, BuyingOK, Holds
<1>16. \A q \in Proc : HoldingOK(q)'
  <2> SUFFICES ASSUME NEW q \in Proc, req'[q].pc \in Holding PROVE HoldingOK(q)'
    BY DEF HoldingOK
  <2>1. CASE q = p
    BY <1>4, <1>5, <1>6, <1>7, <1>15, <2>1 DEF HoldingOK, Undisturbed
  <2>2. CASE q # p
    <3>1. req'[q] = req[q] /\ HoldingOK(q) /\ req[q].o \in OrderId /\ req[q].o # o
      BY <1>7, <1>15, <2>2 DEF Inv, Held, Paid, BuyingOK, Holds
    <3>2. Undisturbed(q) => Undisturbed(q)'
      BY <1>5, <1>6, <1>7, <3>1 DEF Undisturbed, Holds
    <3> QED
      BY <1>1, <3>1, <3>2 DEF HoldingOK
  <2> QED
    BY <2>1, <2>2
<1>17. \A n \in OrderId : SettledOK(n)' /\ RefundOK(n)'
  <2> SUFFICES ASSUME NEW n \in OrderId PROVE SettledOK(n)' /\ RefundOK(n)'
    OBVIOUS
  <2>1. CASE n = o
    BY <1>1, <1>5, <2>1 DEF Inv, Paid, OrderOK, SettledOK, RefundOK
  <2>2. CASE n # o
    BY <1>1, <1>5, <1>6, <1>7, <2>2 DEF Inv, Held, SettledOK, RefundOK, Holds
  <2> QED
    BY <2>1, <2>2
<1> QED
  BY <1>9, <1>11, <1>12, <1>13, <1>14, <1>16, <1>17 DEF Inv, Paid, Held

-----------------------------------------------------------------------------
(* Marks and cancels                                                       *)

(* Reading an order: from here on its handler and every other one that has *)
(* it know whether they share it.                                          *)
LEMMA HoldInv ==
  ASSUME Inv, NEW p \in Proc, NEW call \in Request, At(p, "idle"), Hold(p, call), calls' \in Nat,
         call.o \in OrderId, Placed(call.o), call.pc \in {"select", "reread"},
         orders[call.o].status = "completed" => call.to = "completed",
         call.pc = "reread" => call.inTx,
         call.inTx => call.to = "cancelled" /\ orders[call.o].status = "pending"
  PROVE  Inv'
<1> DEFINE o == call.o
           others == Holders(o)
           alone == (others = {})
           r == [call EXCEPT !.alone = alone]
<1>1. UNCHANGED <<ownerOf, items, orders, charges, refunds, feed, opened>>
  BY DEF Hold, rows
<1>2. req' = [q \in Proc |-> IF q = p THEN r
                             ELSE IF q \in others THEN [req[q] EXCEPT !.alone = FALSE]
                             ELSE req[q]]
      /\ contested' = [contested EXCEPT ![o] = @ \/ ~alone]
      /\ settled' = [settled EXCEPT ![o] = FALSE]
  BY DEF Hold
<1>3. /\ r \in Request /\ r.pc = call.pc /\ r.o = o /\ r.to = call.to /\ r.inTx = call.inTx
      /\ r.alone = alone
  BY DEF Request
<1> HIDE DEF r, alone
<1>4. req'[p] = r
  BY <1>2
<1>5. \A q \in Proc \ {p} :
        /\ req[q] \in Request
        /\ req'[q] = IF Holds(q, o) THEN [req[q] EXCEPT !.alone = FALSE] ELSE req[q]
  BY <1>2 DEF Holders, Holds, Holding, Inv, Paid, TypeOK
<1>6. \A q \in Proc \ {p} :
        /\ req'[q] \in Request /\ req'[q].pc = req[q].pc /\ req'[q].o = req[q].o
        /\ req'[q].to = req[q].to /\ req'[q].inTx = req[q].inTx /\ req'[q].write = req[q].write
        /\ req'[q].buyer = req[q].buyer /\ req'[q].item = req[q].item /\ req'[q].qty = req[q].qty
        /\ req'[q].charge = req[q].charge
        /\ req'[q].alone = (req[q].alone /\ ~Holds(q, o))
  <2> SUFFICES ASSUME NEW q \in Proc \ {p}
               PROVE  /\ req'[q] \in Request /\ req'[q].pc = req[q].pc /\ req'[q].o = req[q].o
                      /\ req'[q].to = req[q].to /\ req'[q].inTx = req[q].inTx /\ req'[q].write = req[q].write
                      /\ req'[q].buyer = req[q].buyer /\ req'[q].item = req[q].item /\ req'[q].qty = req[q].qty
                      /\ req'[q].charge = req[q].charge
                      /\ req'[q].alone = (req[q].alone /\ ~Holds(q, o))
    OBVIOUS
  <2>1. CASE Holds(q, o)
    <3>1. req[q] \in Request /\ req'[q] = [req[q] EXCEPT !.alone = FALSE]
      BY <1>5, <2>1
    <3>2. req'[q] \in Request /\ req'[q].alone = FALSE
      BY <3>1 DEF Request
    <3>3. /\ req'[q].pc = req[q].pc /\ req'[q].o = req[q].o /\ req'[q].to = req[q].to
          /\ req'[q].inTx = req[q].inTx /\ req'[q].write = req[q].write /\ req'[q].buyer = req[q].buyer
          /\ req'[q].item = req[q].item /\ req'[q].qty = req[q].qty /\ req'[q].charge = req[q].charge
      BY <3>1 DEF Request
    <3> QED
      BY <2>1, <3>2, <3>3
  <2>2. CASE ~Holds(q, o)
    <3>1. req[q] \in Request /\ req'[q] = req[q] /\ req[q].alone \in BOOLEAN
      BY <1>5, <2>2 DEF Request
    <3> QED
      BY <2>2, <3>1
  <2> QED
    BY <2>1, <2>2
<1>7. req' = [q \in Proc |-> req'[q]] /\ (\A q \in Proc : req'[q] \in Request)
  BY <1>2, <1>3, <1>4, <1>6
<1>8. /\ contested' \in [OrderId -> BOOLEAN] /\ settled' \in [OrderId -> BOOLEAN]
      /\ contested'[o] = (contested[o] \/ ~alone) /\ ~settled'[o]
      /\ \A n \in OrderId \ {o} : contested'[n] = contested[n] /\ settled'[n] = settled[n]
  BY <1>2 DEF alone, Inv, Paid, TypeOK
<1>9. TypeOK'
  <2>1. req' \in [Proc -> Request]
    BY <1>7
  <2> QED
    BY <1>1, <1>8, <2>1 DEF Inv, Paid, TypeOK
<1>10. OwnCharge' /\ \A n \in OrderId : OrderOK(n)'
  BY <1>1, <1>8 DEF Inv, Paid, OwnCharge, OrderOK, Placed, Charged, Pays, There
<1>11. \A c \in OrderId : ChargeOK(c)'
  <2>1. \A q \in Proc : At(q, "save") => At(q, "save")' /\ req'[q].charge = req[q].charge
    BY <1>6 DEF At
  <2> QED
    BY <1>1, <2>1 DEF Inv, Paid, ChargeOK, Placed, Charged
<1>12. \A q \in Proc : BuyingOK(q)'
  <2> SUFFICES ASSUME NEW q \in Proc PROVE BuyingOK(q)'
    OBVIOUS
  <2>1. CASE q = p
    BY <1>1, <1>3, <1>4, <2>1 DEF BuyingOK, At, Placed
  <2>2. CASE q # p
    <3>1. BuyingOK(q) /\ Amount(q)' = Amount(q)
      BY <1>1, <1>6, <2>2 DEF Inv, Paid, Amount
    <3>2. At(q, "save") => \A s \in Proc : At(s, "save")' /\ req'[s].charge = req[q].charge => s = q
      BY <1>3, <1>4, <1>6, <3>1 DEF BuyingOK, At
    <3> QED
      BY <1>1, <1>6, <2>2, <3>1, <3>2 DEF BuyingOK, At, Placed, There
  <2> QED
    BY <2>1, <2>2
<1>13. \A q \in Proc : Holds(q, o) => ~alone /\ q # p
  BY DEF alone, Holds, Holders, Holding, At
<1>14. \A q \in Proc, n \in OrderId : Holds(q, n)' => Holds(q, n) \/ (q = p /\ n = o)
  BY <1>3, <1>4, <1>6 DEF Holds
<1>15. \A q \in Proc : HoldingOK(q)'
  <2> SUFFICES ASSUME NEW q \in Proc, req'[q].pc \in Holding PROVE HoldingOK(q)'
    BY DEF HoldingOK
  <2>1. CASE q = p
    <3>1. alone => Undisturbed(p)'
      <4> SUFFICES ASSUME alone PROVE Undisturbed(p)'
        OBVIOUS
      <4>1. \A s \in Proc \ {p} : ~Holds(s, o)'
        BY <1>14, <1>13
      <4> QED
        BY <1>1, <1>3, <1>4, <4>1 DEF Undisturbed, Holds
    <3>2. ~alone => contested'[o]
      BY <1>8
    <3> QED
      BY <1>3, <1>4, <2>1, <3>1, <3>2 DEF HoldingOK
  <2>2. CASE q # p
    <3>1. HoldingOK(q) /\ req[q].o \in OrderId /\ req[q].pc \in Holding
      BY <1>6, <2>2 DEF Inv, Held, Paid, BuyingOK
    <3>2. req'[q].alone => Undisturbed(q)'
      <4> SUFFICES ASSUME req'[q].alone PROVE Undisturbed(q)'
        OBVIOUS
      <4>1. Undisturbed(q) /\ req[q].o # o
        BY <1>6, <2>2, <3>1 DEF HoldingOK, Holds
      <4>2. \A s \in Proc \ {q} : ~Holds(s, req[q].o)'
        BY <1>6, <1>14, <2>2, <3>1, <4>1 DEF Undisturbed
      <4> QED
        BY <1>1, <1>6, <2>2, <3>1, <4>1, <4>2 DEF Undisturbed
    <3>3. ~req'[q].alone => contested'[req[q].o]
      BY <1>6, <1>8, <1>13, <2>2, <3>1 DEF HoldingOK, Holds
    <3> QED
      BY <1>6, <2>2, <3>1, <3>2, <3>3 DEF HoldingOK
  <2> QED
    BY <2>1, <2>2
<1>16. \A n \in OrderId : SettledOK(n)' /\ RefundOK(n)'
  <2> SUFFICES ASSUME NEW n \in OrderId PROVE SettledOK(n)' /\ RefundOK(n)'
    OBVIOUS
  <2>1. SettledOK(n)'
    BY <1>1, <1>8, <1>14 DEF Inv, Held, SettledOK
  <2>2. RefundOK(n)'
    BY <1>1, <1>8 DEF Inv, Held, RefundOK
  <2> QED
    BY <2>1, <2>2
<1> QED
  BY <1>9, <1>10, <1>11, <1>12, <1>15, <1>16 DEF Inv, Paid, Held

(* A handler of an order goes on with it.                                  *)
LEMMA MoveInv ==
  ASSUME Inv, NEW p \in Proc, req[p].pc \in Holding, req'[p].pc \in Holding, req'[p].o = req[p].o,
         req' \in [Proc -> Request], \A q \in Proc \ {p} : req'[q] = req[q], HoldingOK(p)',
         UNCHANGED <<ownerOf, items, orders, charges, refunds, feed, calls, opened, contested, settled>>
  PROVE  Inv'
<1>1. \A q \in Proc, o \in OrderId : Holds(q, o)' <=> Holds(q, o)
  BY DEF Holds
<1>2. Paid'
  <2>1. BuyingOK(p)' /\ ~At(p, "save") /\ req'[p].pc # "save"
    BY DEF Inv, Paid, BuyingOK, At, Holding, Placed
  <2>2. settled' \in [OrderId -> BOOLEAN] /\ feed' \in [OrderId -> Statuses \cup {"none", "cancelled"}]
        /\ calls' \in Nat /\ \A o \in OrderId : ~Placed(o) => ~settled'[o]
    BY DEF Inv, Paid, TypeOK, OrderOK
  <2> QED
    BY <2>1, <2>2, MovePaid
<1>3. \A q \in Proc : HoldingOK(q)'
  <2> SUFFICES ASSUME NEW q \in Proc \ {p}, req[q].pc \in Holding PROVE HoldingOK(q)'
    BY DEF HoldingOK
  <2>1. req'[q] = req[q] /\ HoldingOK(q) /\ req[q].o \in OrderId
    BY DEF Inv, Held, Paid, BuyingOK
  <2>2. Undisturbed(q) => Undisturbed(q)'
    BY <1>1, <2>1 DEF Undisturbed
  <2> QED
    BY <2>1, <2>2 DEF HoldingOK
<1>4. \A o \in OrderId : SettledOK(o)' /\ RefundOK(o)'
  BY <1>1 DEF Inv, Held, SettledOK, RefundOK
<1> QED
  BY <1>2, <1>3, <1>4 DEF Inv, Held

LEMMA RereadInv ==
  ASSUME Inv, NEW p \in Proc, RereadOwnerOrder(p)
  PROVE  Inv'
<1> DEFINE r == [req[p] EXCEPT !.pc = "select"]
<1>1. /\ req' = [req EXCEPT ![p] = r] /\ At(p, "reread") /\ Row(p).status = "pending"
      /\ UNCHANGED <<ownerOf, items, orders, charges, refunds, feed, calls, opened, contested, settled>>
  BY DEF RereadOwnerOrder, rows, history
<1>2. req[p] \in Request /\ HoldingOK(p) /\ req[p].o \in OrderId
  BY <1>1 DEF Inv, Paid, Held, TypeOK, BuyingOK, At, Holding
<1>3. /\ r \in Request /\ r.pc = "select" /\ r.o = req[p].o /\ r.to = req[p].to
      /\ r.inTx = req[p].inTx /\ r.alone = req[p].alone
  BY <1>2 DEF Request
<1>4. req'[p] = r /\ req' \in [Proc -> Request] /\ \A q \in Proc \ {p} : req'[q] = req[q]
  BY <1>1, <1>3 DEF Inv, Paid, TypeOK
<1> HIDE DEF r
<1>5. Undisturbed(p) => Undisturbed(p)'
  BY <1>1, <1>3, <1>4 DEF Undisturbed, Holds, At, Row
<1>6. HoldingOK(p)'
  BY <1>1, <1>2, <1>3, <1>4, <1>5 DEF HoldingOK, At, Holding
<1> QED
  BY <1>1, <1>3, <1>4, <1>6, MoveInv DEF At, Holding

LEMMA SelectedType ==
  ASSUME NEW q \in Request, NEW pc \in {"commit", "update"}, NEW write \in BOOLEAN
  PROVE  [q EXCEPT !.pc = pc, !.write = write] \in Request
<1> DEFINE s == [q EXCEPT !.pc = pc]
<1>1. s \in Request
  BY DEF Request
<1> HIDE DEF s
<1>2. [s EXCEPT !.write = write] \in Request
  BY <1>1 DEF Request
<1>3. [s EXCEPT !.write = write] = [q EXCEPT !.pc = pc, !.write = write]
  BY DEF s
<1> QED
  BY <1>2, <1>3

LEMMA SelectInv ==
  ASSUME Inv, NEW p \in Proc, Select(p)
  PROVE  Inv'
<1> DEFINE r == [req[p] EXCEPT !.pc = IF req[p].inTx THEN "commit" ELSE "update",
                               !.write = (Row(p).status # req[p].to)]
<1>1. /\ req' = [req EXCEPT ![p] = r] /\ At(p, "select")
      /\ UNCHANGED <<ownerOf, items, orders, charges, refunds, feed, calls, opened, contested, settled>>
  BY DEF Select, rows, history
<1>2. req[p] \in Request /\ HoldingOK(p) /\ req[p].o \in OrderId
  BY <1>1 DEF Inv, Paid, Held, TypeOK, BuyingOK, At, Holding
<1>3. /\ r \in Request /\ r.pc = (IF req[p].inTx THEN "commit" ELSE "update") /\ r.o = req[p].o
      /\ r.to = req[p].to /\ r.inTx = req[p].inTx /\ r.alone = req[p].alone
      /\ r.write = (orders[req[p].o].status # req[p].to)
  <2> DEFINE pc == IF req[p].inTx THEN "commit" ELSE "update"
             write == Row(p).status # req[p].to
  <2>1. pc \in {"commit", "update"} /\ write \in BOOLEAN
    OBVIOUS
  <2>2. r \in Request
    <3> HIDE DEF pc, write
    <3>1. [req[p] EXCEPT !.pc = pc, !.write = write] \in Request
      BY <1>2, <2>1, SelectedType
    <3>2. r = [req[p] EXCEPT !.pc = pc, !.write = write]
      BY DEF pc, write
    <3> QED
      BY <3>1, <3>2
  <2>3. /\ r.pc = (IF req[p].inTx THEN "commit" ELSE "update") /\ r.o = req[p].o
        /\ r.to = req[p].to /\ r.inTx = req[p].inTx /\ r.alone = req[p].alone
    BY <1>2 DEF Request
  <2>4. r.write = (orders[req[p].o].status # req[p].to)
    BY <1>2 DEF Request, Row
  <2> QED
    BY <2>2, <2>3, <2>4
<1> HIDE DEF r
<1>4. req'[p] = r /\ req' \in [Proc -> Request] /\ \A q \in Proc \ {p} : req'[q] = req[q]
  BY <1>1, <1>3 DEF Inv, Paid, TypeOK
<1>5. Undisturbed(p) => Undisturbed(p)'
  <2> DEFINE s == orders[req[p].o].status
  <2>1. /\ req'[p].pc \in {"update", "commit"} /\ req'[p].o = req[p].o /\ req'[p].to = req[p].to
        /\ req'[p].inTx = req[p].inTx /\ req'[p].write = (s # req[p].to)
        /\ orders' = orders /\ req[p].pc = "select"
    BY <1>1, <1>3, <1>4 DEF At
  <2>2. \A q \in Proc \ {p} : Holds(q, req[p].o)' <=> Holds(q, req'[p].o)
    BY <1>4, <2>1 DEF Holds
  <2> QED
    BY <2>1, <2>2 DEF Undisturbed
<1>6. HoldingOK(p)'
  BY <1>1, <1>2, <1>3, <1>4, <1>5 DEF HoldingOK, At, Holding
<1> QED
  BY <1>1, <1>3, <1>4, <1>6, MoveInv DEF At, Holding

(* What save writes, and the refund with it, if any.                       *)
LEMMA SaveStatusInv ==
  ASSUME Inv, NEW p \in Proc, SaveStatus(p),
         \/ At(p, "update") /\ UNCHANGED refunds
         \/ At(p, "commit") /\ refunds' = [refunds EXCEPT ![req[p].o] = @ + 1]
  PROVE  Inv'
<1>21. PICK o \in OrderId : req[p].o = o
  BY DEF Inv, Paid, BuyingOK, At, Holding
<1> DEFINE status == IF req[p].write THEN req[p].to ELSE orders[o].status
       r == [req[p] EXCEPT !.pc = "emit"]
<1>1. /\ orders' = IF req[p].write THEN [orders EXCEPT ![o].status = req[p].to] ELSE orders
      /\ opened' = IF req[p].write /\ req[p].to = "pending" /\ orders[o].status # "pending"
                   THEN [opened EXCEPT ![o] = @ + 1] ELSE opened
      /\ req' = [req EXCEPT ![p] = r]
      /\ UNCHANGED <<ownerOf, items, charges, feed, calls, contested, settled>>
  BY <1>21 DEF SaveStatus, Row
<1>2. /\ req[p] \in Request /\ HoldingOK(p) /\ o \in OrderId /\ Placed(o)
      /\ req[p].to \in Statuses \cup {"none", "cancelled"} /\ orders[o] \in Order
      /\ refunds[o] \in Nat /\ opened[o] \in Nat
  BY <1>21 DEF Inv, Paid, Held, TypeOK, BuyingOK, At, Holding, Request
<1>3. /\ r \in Request /\ r.pc = "emit" /\ r.o = o /\ r.to = req[p].to
      /\ r.inTx = req[p].inTx /\ r.alone = req[p].alone
  BY <1>2, <1>21 DEF Request
<1>4. req'[p] = r /\ req' \in [Proc -> Request] /\ \A q \in Proc \ {p} : req'[q] = req[q]
  BY <1>1, <1>3 DEF Inv, Paid, TypeOK
<1>5. /\ orders' \in [OrderId -> Order] /\ \A n \in OrderId \ {o} : orders'[n] = orders[n]
      /\ orders'[o] = [orders[o] EXCEPT !.status = status]
  <2>1. CASE req[p].write
    <3>1. orders' = [orders EXCEPT ![o] = [orders[o] EXCEPT !.status = req[p].to]]
      BY <1>1, <2>1
    <3>2. [orders[o] EXCEPT !.status = req[p].to] \in Order
      BY <1>2 DEF Order
    <3> QED
      BY <1>2, <2>1, <3>1, <3>2 DEF Inv, Paid, TypeOK
  <2>2. CASE ~req[p].write
    <3>1. orders[o] = [orders[o] EXCEPT !.status = orders[o].status]
      BY <1>2 DEF Order
    <3> QED
      BY <1>1, <2>2, <3>1 DEF Inv, Paid, TypeOK
  <2> QED
    BY <2>1, <2>2
<1>6. /\ orders'[o].buyer = orders[o].buyer /\ orders'[o].item = orders[o].item
      /\ orders'[o].venue = orders[o].venue /\ orders'[o].amt = orders[o].amt
      /\ orders'[o].charge = orders[o].charge /\ orders'[o].status = status
  BY <1>2, <1>5 DEF Order
<1>7. /\ opened' \in [OrderId -> Nat] /\ \A n \in OrderId \ {o} : opened'[n] = opened[n]
      /\ opened'[o] = opened[o] + (IF req[p].write /\ req[p].to = "pending" /\ orders[o].status # "pending"
                                   THEN 1 ELSE 0)
  BY <1>1, <1>2 DEF Inv, Paid, TypeOK
<1>8. /\ refunds' \in [OrderId -> Nat] /\ \A n \in OrderId \ {o} : refunds'[n] = refunds[n]
      /\ refunds'[o] = refunds[o] + (IF At(p, "commit") THEN 1 ELSE 0)
  BY <1>2, <1>21 DEF Inv, Paid, TypeOK, At
<1> HIDE DEF r, status
<1>9. TypeOK'
  BY <1>1, <1>4, <1>5, <1>7, <1>8 DEF Inv, Paid, TypeOK
<1>10. \A n \in OrderId : Placed(n)' <=> Placed(n)
  <2>1. orders[o].item # 0
    BY <1>2 DEF Inv, Paid, OrderOK, There, ItemId
  <2>2. Placed(o)'
    BY <1>6, <2>1 DEF Placed, NoOrder
  <2> QED
    BY <1>2, <1>5, <2>2 DEF Placed
<1>11. \A n \in OrderId : /\ orders'[n].buyer = orders[n].buyer /\ orders'[n].item = orders[n].item
                          /\ orders'[n].venue = orders[n].venue /\ orders'[n].amt = orders[n].amt
                          /\ orders'[n].charge = orders[n].charge
  BY <1>5, <1>6
<1>12. OwnCharge' /\ \A n \in OrderId : OrderOK(n)'
  <2>1. OwnCharge'
    BY <1>10, <1>11 DEF Inv, Paid, OwnCharge
  <2>2. \A n \in OrderId : OrderOK(n)'
    <3> SUFFICES ASSUME NEW n \in OrderId PROVE OrderOK(n)'
      OBVIOUS
    <3>1. Placed(n)' => /\ There(orders[n].item)' /\ orders'[n].venue = items'[orders'[n].item].venue
                        /\ orders'[n].charge \in OrderId
      BY <1>1, <1>10, <1>11 DEF Inv, Paid, OrderOK, There
    <3>2. Placed(n)' => Pays(orders[n].charge, n)'
      <4>1. Placed(n)' => Pays(orders[n].charge, n)
        BY <1>10 DEF Inv, Paid, OrderOK
      <4> QED
        BY <1>1, <1>11, <4>1 DEF Pays, Charged
    <3>3. ~Placed(n)' => refunds'[n] = 0 /\ opened'[n] = 0 /\ ~settled'[n]
      <4>1. ~Placed(n)' => n # o /\ refunds[n] = 0 /\ opened[n] = 0 /\ ~settled[n]
        BY <1>2, <1>10 DEF Inv, Paid, OrderOK
      <4> QED
        BY <1>1, <1>7, <1>8, <4>1
    <3> QED
      BY <1>11, <3>1, <3>2, <3>3 DEF OrderOK
  <2> QED
    BY <2>1, <2>2
<1>13. \A q \in Proc : At(q, "save") <=> At(q, "save")'
  BY <1>3, <1>4 DEF At
<1>14. \A q \in Proc : At(q, "save") => req'[q] = req[q]
  BY <1>4 DEF At
<1>15. \A c \in OrderId : ChargeOK(c)'
  BY <1>1, <1>10, <1>11, <1>13, <1>14 DEF Inv, Paid, ChargeOK, Charged
<1>16. \A q \in Proc : BuyingOK(q)'
  <2> SUFFICES ASSUME NEW q \in Proc PROVE BuyingOK(q)'
    OBVIOUS
  <2>1. CASE q = p
    BY <1>2, <1>3, <1>4, <1>10, <2>1 DEF BuyingOK, At
  <2>2. CASE q # p
    <3>1. req'[q] = req[q] /\ BuyingOK(q) /\ Amount(q)' = Amount(q)
      BY <1>1, <1>4, <2>2 DEF Inv, Paid, Amount
    <3>2. At(q, "save") => \A s \in Proc : At(s, "save")' /\ req'[s].charge = req[q].charge => s = q
      BY <1>13, <1>14, <3>1 DEF BuyingOK
    <3> QED
      BY <1>1, <1>10, <1>11, <3>1, <3>2 DEF BuyingOK, At, There
  <2> QED
    BY <2>1, <2>2
<1>17. \A q \in Proc, n \in OrderId : Holds(q, n)' <=> Holds(q, n)
  <2>1. \A n \in OrderId : Holds(p, n)' <=> Holds(p, n)
    BY <1>3, <1>4, <1>21 DEF Holds, Holding, At
  <2> QED
    BY <1>4, <2>1 DEF Holds
<1>18. Holds(p, o) /\ req[p].pc \in {"update", "commit"}
  BY <1>21 DEF Holds, Holding, At
<1>19. \A q \in Proc : HoldingOK(q)'
  <2> SUFFICES ASSUME NEW q \in Proc, req'[q].pc \in Holding PROVE HoldingOK(q)'
    BY DEF HoldingOK
  <2>1. CASE q = p
    <3>1. req[p].alone => Undisturbed(p)'
      <4> SUFFICES ASSUME req[p].alone PROVE Undisturbed(p)'
        OBVIOUS
      <4>1. status = req[p].to /\ \A s \in Proc \ {p} : ~Holds(s, o)
        BY <1>2, <1>18, <1>21 DEF HoldingOK, Undisturbed, status, Holds
      <4> QED
        BY <1>2, <1>3, <1>4, <1>6, <1>17, <4>1 DEF Undisturbed
    <3> QED
      BY <1>1, <1>2, <1>3, <1>4, <1>18, <1>21, <2>1, <3>1 DEF HoldingOK, Holds
  <2>2. CASE q # p
    <3>1. req'[q] = req[q] /\ HoldingOK(q) /\ req[q].o \in OrderId
      BY <1>4, <2>2 DEF Inv, Held, Paid, BuyingOK
    <3>2. Undisturbed(q) => Undisturbed(q)'
      <4> SUFFICES ASSUME Undisturbed(q) PROVE Undisturbed(q)'
        OBVIOUS
      <4>1. req[q].o # o
        BY <1>18, <2>2 DEF Undisturbed
      <4> QED
        BY <1>5, <1>17, <3>1, <4>1 DEF Undisturbed
    <3> QED
      BY <1>1, <3>1, <3>2 DEF HoldingOK
  <2> QED
    BY <2>1, <2>2
<1>20. \A n \in OrderId : SettledOK(n)' /\ RefundOK(n)'
  <2> SUFFICES ASSUME NEW n \in OrderId PROVE SettledOK(n)' /\ RefundOK(n)'
    OBVIOUS
  <2>1. CASE n = o
    <3>1. ~settled[o]
      BY <1>2, <1>18 DEF Inv, Held, SettledOK
    <3>2. ~contested[o] => RefundOK(o)'
      <4> SUFFICES ASSUME ~contested[o] PROVE RefundOK(o)'
        OBVIOUS
      <4>1. /\ req[p].write = (orders[o].status # req[p].to)
            /\ At(p, "commit") => orders[o].status = "pending" /\ req[p].to = "cancelled"
        BY <1>2, <1>18, <1>21 DEF HoldingOK, Undisturbed, Holds, At, Request
      <4>2. refunds[o] <= opened[o] /\ (orders[o].status = "pending" => refunds[o] < opened[o])
        BY <1>2 DEF Inv, Held, RefundOK
      <4>3. status = req[p].to
        BY <4>1 DEF status
      <4>4. CASE At(p, "commit")
        <5>1. status # "pending" /\ orders[o].status = "pending" /\ req[p].to # "pending"
          BY <4>1, <4>3, <4>4
        <5>2. refunds'[o] = refunds[o] + 1 /\ opened'[o] = opened[o]
          BY <1>2, <1>7, <1>8, <4>4, <5>1
        <5> QED
          BY <1>2, <1>6, <4>2, <5>1, <5>2 DEF RefundOK
      <4>5. CASE ~At(p, "commit")
        <5>1. refunds'[o] = refunds[o]
          BY <1>2, <1>8, <4>5
        <5>2. status = "pending" /\ orders[o].status # "pending" => opened'[o] = opened[o] + 1
          BY <1>7, <4>1, <4>3
        <5>3. opened'[o] >= opened[o]
          BY <1>2, <1>7
        <5> QED
          BY <1>2, <1>6, <1>7, <4>2, <5>1, <5>2, <5>3 DEF RefundOK
      <4> QED
        BY <4>4, <4>5
    <3> QED
      BY <1>1, <2>1, <3>1, <3>2 DEF SettledOK, RefundOK
  <2>2. CASE n # o
    BY <1>1, <1>5, <1>7, <1>8, <1>17, <2>2 DEF Inv, Held, SettledOK, RefundOK
  <2> QED
    BY <2>1, <2>2
<1> QED
  BY <1>9, <1>12, <1>15, <1>16, <1>19, <1>20 DEF Inv, Paid, Held

LEMMA UpdateInv ==
  ASSUME Inv, NEW p \in Proc, Update(p)
  PROVE  Inv'
BY SaveStatusInv DEF Update

LEMMA CommitOwnerCancelInv ==
  ASSUME Inv, NEW p \in Proc, CommitOwnerCancel(p)
  PROVE  Inv'
BY SaveStatusInv DEF CommitOwnerCancel

LEMMA EmitInv ==
  ASSUME Inv, NEW p \in Proc, Emit(p)
  PROVE  Inv'
<1>1. PICK o \in OrderId : req[p].o = o /\ Placed(o)
  BY DEF Emit, Inv, Paid, BuyingOK, At, Holding
<1>2. /\ At(p, "emit") /\ req' = [req EXCEPT ![p] = NoRequest]
      /\ feed' = [feed EXCEPT ![o] = req[p].to]
      /\ settled' = [settled EXCEPT ![o] = req[p].alone]
      /\ UNCHANGED <<ownerOf, items, orders, charges, refunds, calls, opened, contested>>
  BY <1>1 DEF Emit, Finish, rows
<1>3. req' \in [Proc -> Request] /\ req'[p] = NoRequest /\ \A q \in Proc \ {p} : req'[q] = req[q]
  BY <1>2, NoRequestType DEF Inv, Paid, TypeOK
<1>4. req[p] \in Request /\ HoldingOK(p) /\ Holds(p, o)
  BY <1>1, <1>2 DEF Inv, Paid, Held, TypeOK, Holds, Holding, At
<1>5. /\ settled' \in [OrderId -> BOOLEAN] /\ settled'[o] = req[p].alone
      /\ feed' \in [OrderId -> Statuses \cup {"none", "cancelled"}] /\ feed'[o] = req[p].to
      /\ \A n \in OrderId \ {o} : settled'[n] = settled[n] /\ feed'[n] = feed[n]
  BY <1>2, <1>4 DEF Inv, Paid, TypeOK, Request
<1>6. Paid'
  <2>1. BuyingOK(p)' /\ ~At(p, "save") /\ req'[p].pc # "save"
    BY <1>2, <1>3, NoRequestType DEF BuyingOK, At, Holding
  <2>2. calls' \in Nat /\ \A n \in OrderId : ~Placed(n) => ~settled'[n]
    BY <1>1, <1>2, <1>5 DEF Inv, Paid, TypeOK, OrderOK
  <2> QED
    BY <1>2, <1>3, <1>5, <2>1, <2>2, MovePaid
<1>7. \A q \in Proc, n \in OrderId : Holds(q, n)' => Holds(q, n) /\ q # p
  BY <1>3, NoRequestType DEF Holds, Holding
<1>8. \A q \in Proc : HoldingOK(q)'
  <2> SUFFICES ASSUME NEW q \in Proc, req'[q].pc \in Holding PROVE HoldingOK(q)'
    BY DEF HoldingOK
  <2>1. q # p
    BY <1>3, NoRequestType DEF Holding
  <2>2. req'[q] = req[q] /\ HoldingOK(q) /\ req[q].o \in OrderId
    BY <1>3, <2>1 DEF Inv, Held, Paid, BuyingOK
  <2>3. Undisturbed(q) => Undisturbed(q)'
    BY <1>2, <1>7, <2>2 DEF Undisturbed
  <2> QED
    BY <1>2, <2>2, <2>3 DEF HoldingOK
<1>9. \A n \in OrderId : SettledOK(n)' /\ RefundOK(n)'
  <2> SUFFICES ASSUME NEW n \in OrderId PROVE SettledOK(n)' /\ RefundOK(n)'
    OBVIOUS
  <2>1. CASE n = o
    <3>1. req[p].alone => orders[o].status = req[p].to /\ \A q \in Proc \ {p} : ~Holds(q, o)
      BY <1>1, <1>2, <1>4 DEF HoldingOK, Undisturbed, At, Holding
    <3>2. SettledOK(o)'
      BY <1>2, <1>5, <1>7, <3>1 DEF SettledOK
    <3> QED
      BY <1>2, <2>1, <3>2 DEF Inv, Held, RefundOK
  <2>2. CASE n # o
    BY <1>2, <1>5, <1>7, <2>2 DEF Inv, Held, SettledOK, RefundOK
  <2> QED
    BY <2>1, <2>2
<1> QED
  BY <1>6, <1>8, <1>9 DEF Inv, Held

LEMMA StopInv ==
  ASSUME Inv, NEW p \in Proc, Stop(p)
  PROVE  Inv'
<1>1. req' = [req EXCEPT ![p] = NoRequest]
      /\ UNCHANGED <<ownerOf, items, orders, refunds, feed, calls, opened, contested, settled>>
  BY DEF Stop, Finish, history
<1>2. /\ req' \in [Proc -> Request] /\ req'[p] = NoRequest /\ req'[p].pc = "idle"
      /\ \A q \in Proc \ {p} : req'[q] = req[q]
  BY <1>1, NoRequestType DEF Inv, Paid, TypeOK
<1>3. Held'
  BY <1>1, <1>2, AsideHeld DEF Holding
<1>4. CASE ~At(p, "save")
  <2>1. BuyingOK(p)' /\ req'[p].pc # "save"
    BY <1>2 DEF BuyingOK, At, Holding
  <2>2. settled' \in [OrderId -> BOOLEAN] /\ feed' \in [OrderId -> Statuses \cup {"none", "cancelled"}]
        /\ calls' \in Nat /\ \A o \in OrderId : ~Placed(o) => ~settled'[o]
    BY <1>1 DEF Inv, Paid, TypeOK, OrderOK
  <2>3. UNCHANGED charges
    BY <1>4 DEF Stop
  <2>4. Paid'
    BY <1>1, <1>2, <1>4, <2>1, <2>2, <2>3, MovePaid
  <2> QED
    BY <1>3, <2>4 DEF Inv
<1>5. CASE At(p, "save")
  <2>1. PICK c \in OrderId : /\ req[p].charge = c
                             /\ \A o \in OrderId : Placed(o) => orders[o].charge # c
                             /\ \A q \in Proc : At(q, "save") /\ req[q].charge = c => q = p
    BY <1>5 DEF Inv, Paid, BuyingOK
  <2>2. charges' = [charges EXCEPT ![c].lost = TRUE]
    BY <1>5, <2>1 DEF Stop
  <2>3. charges'[c].lost /\ charges'[c].payee = charges[c].payee
        /\ \A d \in OrderId \ {c} : charges'[d] = charges[d]
    BY <2>2 DEF Inv, Paid, TypeOK
  <2>4. TypeOK'
    <3>1. /\ [charges[c] EXCEPT !.lost = TRUE] \in
               [buyer : User \cup {Nobody}, payee : User \cup {Nobody},
                venue : Venue \cup {Nobody}, amt : Nat, lost : BOOLEAN]
          /\ charges' = [charges EXCEPT ![c] = [charges[c] EXCEPT !.lost = TRUE]]
      <4>1. charges[c] \in [buyer : User \cup {Nobody}, payee : User \cup {Nobody},
                            venue : Venue \cup {Nobody}, amt : Nat, lost : BOOLEAN]
        BY DEF Inv, Paid, TypeOK
      <4>2. charges' = [charges EXCEPT ![c] = [charges[c] EXCEPT !.lost = TRUE]]
        BY <2>2
      <4> QED
        BY <4>1, <4>2
    <3>2. charges' \in [OrderId -> [buyer : User \cup {Nobody}, payee : User \cup {Nobody},
                                    venue : Venue \cup {Nobody}, amt : Nat, lost : BOOLEAN]]
      BY <3>1 DEF Inv, Paid, TypeOK
    <3> QED
      BY <1>1, <1>2, <3>2 DEF Inv, Paid, TypeOK
  <2>5. OwnCharge' /\ \A o \in OrderId : OrderOK(o)'
    BY <1>1, <2>1, <2>3 DEF Inv, Paid, OwnCharge, OrderOK, Placed, Charged, Pays, There
  <2>6. \A d \in OrderId : ChargeOK(d)'
    <3> SUFFICES ASSUME NEW d \in OrderId PROVE ChargeOK(d)'
      OBVIOUS
    <3>1. CASE d = c
      <4>1. charges[c].payee \in User
        <5>1. charges[c].buyer = req[p].buyer /\ req[p].buyer \in User
          BY <1>5, <2>1 DEF Inv, Paid, BuyingOK, At
        <5>2. Charged(c)
          BY <5>1, StoreAssumption DEF Charged, NoCharge
        <5> QED
          BY <5>2 DEF Inv, Paid, ChargeOK
      <4> QED
        BY <2>3, <3>1, <4>1 DEF ChargeOK
    <3>2. CASE d # c
      <4>1. \A q \in Proc : At(q, "save") /\ req[q].charge = d => At(q, "save")' /\ req'[q] = req[q]
        BY <1>2, <2>1, <3>2 DEF At
      <4>2. charges'[d] = charges[d]
        BY <2>3, <3>2
      <4> QED
        BY <1>1, <4>1, <4>2 DEF Inv, Paid, ChargeOK, Placed, Charged
    <3> QED
      BY <3>1, <3>2
  <2>7. \A q \in Proc : BuyingOK(q)'
    <3> SUFFICES ASSUME NEW q \in Proc PROVE BuyingOK(q)'
      OBVIOUS
    <3>1. CASE q = p
      BY <1>2, <3>1 DEF BuyingOK, At, Holding
    <3>2. CASE q # p
      <4>1. req'[q] = req[q] /\ BuyingOK(q) /\ Amount(q)' = Amount(q)
        BY <1>1, <1>2, <3>2 DEF Inv, Paid, Amount
      <4>2. At(q, "save") => charges'[req[q].charge] = charges[req[q].charge]
        <5>1. At(q, "save") => req[q].charge \in OrderId \ {c}
          BY <2>1, <3>2, <4>1 DEF BuyingOK
        <5> QED
          BY <2>3, <5>1
      <4>3. \A s \in Proc : At(s, "save")' => At(s, "save") /\ req'[s] = req[s]
        BY <1>2 DEF At
      <4> QED
        BY <1>1, <4>1, <4>2, <4>3 DEF BuyingOK, At, There, Placed
    <3> QED
      BY <3>1, <3>2
  <2> QED
    BY <1>3, <2>4, <2>5, <2>6, <2>7 DEF Inv, Paid
<1> QED
  BY <1>4, <1>5

-----------------------------------------------------------------------------
(* Every step                                                              *)

LEMMA ReadInv ==
  ASSUME Inv, NEW p \in Proc, NEW o \in OrderId, Placed(o), NEW s \in Statuses,
         orders[o].status = "completed" => s = "completed",
         At(p, "idle"), calls' \in Nat, Hold(p, Started("select", o, s))
  PROVE  Inv'
<1> DEFINE r == Started("select", o, s)
<1>1. r \in Request /\ r.pc = "select" /\ r.o = o /\ r.to = s /\ ~r.inTx
  BY DEF Started, Request
<1>2. Hold(p, r)
  OBVIOUS
<1> HIDE DEF r
<1> QED
  BY <1>1, <1>2, HoldInv

LEMMA CheckOwnerOrderInv ==
  ASSUME Inv, NEW p \in Proc, NEW u \in User, NEW o \in OrderId, CancelOwnerOrder(p, u, o)
  PROVE  Inv'
<1> DEFINE r == [Started("reread", o, "cancelled") EXCEPT !.inTx = TRUE]
<1>1. r \in Request /\ r.pc = "reread" /\ r.o = o /\ r.to = "cancelled" /\ r.inTx
  BY DEF Started, Request
<1>2. At(p, "idle") /\ calls' \in Nat /\ Placed(o) /\ orders[o].status = "pending" /\ Hold(p, r)
  BY DEF CancelOwnerOrder, CheckOwnerOrder, Call, Inv, Paid, TypeOK
<1> HIDE DEF r
<1> QED
  BY <1>1, <1>2, HoldInv

LEMMA ArriveInv ==
  ASSUME Inv, NEW p \in Proc, Arrive(p)
  PROVE  Inv'
<1>1. At(p, "idle") /\ calls' \in Nat
  <2>1. \E route : Call(p, route)
    BY DEF Arrive, CreateOrder, CancelMyOrder, OwnerCancel, CancelOwnerOrder, OwnerMark, StaffCancel,
           StaffMark
  <2> QED
    BY <2>1 DEF Call, Inv, Paid, TypeOK
<1>2. ASSUME NEW u \in User, NEW v \in Venue, NEW n \in Quantity, CreateOrder(p, u, v, n) PROVE Inv'
  BY <1>2, CreateOrderInv
<1>3. ASSUME NEW u \in User, NEW o \in OrderId, CancelMyOrder(p, u, o) PROVE Inv'
  BY <1>1, <1>3, ReadInv DEF CancelMyOrder, CancelOrderForBuyer, Statuses
<1>4. ASSUME NEW u \in User, NEW o \in OrderId, OwnerCancel(p, u, o) PROVE Inv'
  BY <1>1, <1>4, ReadInv DEF OwnerCancel, OwnerCancelOrder, Movable, Statuses
<1>5. ASSUME NEW u \in User, NEW o \in OrderId, CancelOwnerOrder(p, u, o) PROVE Inv'
  BY <1>5, CheckOwnerOrderInv
<1>6. ASSUME NEW u \in User, NEW o \in OrderId, NEW s \in Statuses, OwnerMark(p, u, o, s) PROVE Inv'
  BY <1>1, <1>6, ReadInv DEF OwnerMark, OwnerMarkOrder, Movable
<1>7. ASSUME NEW v \in Venue, NEW o \in OrderId, StaffCancel(p, v, o) PROVE Inv'
  BY <1>1, <1>7, ReadInv DEF StaffCancel, StaffCancelOrder, Movable, Statuses
<1>8. ASSUME NEW v \in Venue, NEW o \in OrderId, NEW s \in Statuses, StaffMark(p, v, o, s) PROVE Inv'
  BY <1>1, <1>8, ReadInv DEF StaffMark, StaffMarkOrder, Movable
<1> QED
  BY <1>2, <1>3, <1>4, <1>5, <1>6, <1>7, <1>8 DEF Arrive

LEMMA NextInv == Inv /\ [Next]_vars => Inv'
<1> SUFFICES ASSUME Inv, [Next]_vars PROVE Inv'
  OBVIOUS
<1>1. ASSUME NEW v \in Venue, NEW u \in User, CreateVenue(v, u) PROVE Inv'
  BY <1>1, CreateVenueInv
<1>2. ASSUME NEW v \in Venue, NEW n \in Price, CreateStoreItem(v, n) PROVE Inv'
  BY <1>2, CreateStoreItemInv
<1>3. ASSUME NEW u \in User, NEW v \in Venue, NEW n \in Price, SeedOwnerVenueAndItem(u, v, n) PROVE Inv'
  BY <1>3, CreateStoreItemInv DEF SeedOwnerVenueAndItem
<1>4. ASSUME NEW p \in Proc, Arrive(p) PROVE Inv'
  BY <1>4, ArriveInv
<1>5. ASSUME NEW p \in Proc, Statement(p) PROVE Inv'
  BY <1>5, ChargeInv, SaveOrderInv, RereadInv, SelectInv, UpdateInv, CommitOwnerCancelInv, EmitInv
     DEF Statement
<1>6. ASSUME NEW p \in Proc, Stop(p) PROVE Inv'
  BY <1>6, StopInv
<1>7. CASE UNCHANGED vars
  <2>1. UNCHANGED <<ownerOf, items, orders, charges, refunds, feed, req, calls, opened, contested, settled>>
    BY <1>7 DEF vars, rows, history
  <2>2. Paid'
    BY <2>1 DEF Inv, Paid, TypeOK, OwnCharge, OrderOK, ChargeOK, BuyingOK, Placed, Charged, Pays, At, There, Amount
  <2>3. Held'
    BY <2>1 DEF Inv, Held, HoldingOK, SettledOK, RefundOK, Undisturbed, Holds
  <2> QED
    BY <2>2, <2>3 DEF Inv
<1> QED
  BY <1>1, <1>2, <1>3, <1>4, <1>5, <1>6, <1>7 DEF Next

-----------------------------------------------------------------------------
(* store-items.service.ts: the tables keep the types of their columns.     *)
THEOREM TypeCorrect == Spec => []TypeOK
<1>1. Inv => TypeOK
  BY DEF Inv, Paid
<1> QED
  BY <1>1, InitInv, NextInv, PTL DEF Spec

(* store-items.service.ts:641-721: the charge and the INSERT of the order  *)
(* are two commits, and yet every order has one charge of its own, and a   *)
(* charge without an order is one a request was interrupted after.         *)
THEOREM OrdersPaid == Spec => []EveryOrderPaid
<1>1. Inv => EveryOrderPaid
  BY DEF Inv, Paid, OwnCharge, OrderOK, ChargeOK, EveryOrderPaid
<1> QED
  BY <1>1, InitInv, NextInv, PTL DEF Spec

(* store-items.service.ts:716-907: events are sent after the commit, and   *)
(* the one of a handler that shared the order with nobody is the truth.    *)
THEOREM FeedAgrees == Spec => []ClientsAgree
<1>1. Inv => ClientsAgree
  BY DEF Inv, Held, SettledOK, ClientsAgree
<1> QED
  BY <1>1, InitInv, NextInv, PTL DEF Spec

(* owner-orders.service.ts: a cancellation that shares the order with no   *)
(* other call refunds it once for each time it was pending.                *)
THEOREM RefundsBounded == Spec => []RefundedPerOpening
<1>1. Inv => RefundedPerOpening
  BY DEF Inv, Held, RefundOK, RefundedPerOpening
<1> QED
  BY <1>1, InitInv, NextInv, PTL DEF Spec

(* store-items.service.ts: the joins of the listing calls lose no order    *)
(* that was charged to the credit of the owner the venue has.              *)
THEOREM SalesShown == Spec => []SoldOrdersShown
<1>1. Inv => SoldOrdersShown
  <2> SUFFICES ASSUME Inv, NEW o \in OrderId, NEW c \in OrderId, NEW v, Placed(o),
                      c = orders[o].charge, v = charges[c].venue, charges[c].payee = ownerOf[v]
               PROVE  /\ FindOrderForBuyerById(charges[c].buyer, o) /\ o \in GetMyOrders(charges[c].buyer)
                      /\ FindOwnerOrderByIdLive(ownerOf[v], o)
                      /\ o \in GetOwnerOrdersLive(ownerOf[v]) \cap GetOwnerOrders(ownerOf[v])
                      /\ FindStaffOrderById(v, o) /\ o \in StaffOrders(v)
                      /\ orders[o].item \in FindItemsByOwner(ownerOf[v])
    BY DEF SoldOrdersShown, Inv, Paid, OrderOK
  <2>1. /\ There(orders[o].item) /\ orders[o].venue = v /\ items[orders[o].item].venue = v
        /\ orders[o].buyer = charges[c].buyer /\ charges[c].payee \in User
    BY DEF Inv, Paid, OrderOK, ChargeOK, Pays
  <2>2. o \in Joined /\ orders[o].item \in GetAllItems
    BY <2>1, StoreAssumption DEF Joined, GetAllItems, There
  <2> QED
    BY <2>1, <2>2
       DEF FindOrderForBuyerById, GetMyOrders, FindOrdersForBuyer, FindOwnerOrderByIdLive, SoldBy,
           GetOwnerOrdersLive, FindOrdersByOwnerLive, GetOwnerOrders, FindStaffOrderById, StaffOrders,
           FindOrdersForStaff, FindItemsByOwner
<1> QED
  BY <1>1, InitInv, NextInv, PTL DEF Spec

(* store-items.service.ts:770-907: only a handler that shared the order    *)
(* takes it out of completed, though what it checked is read before save.  *)
THEOREM CompletedStays == Spec => CompletedIsFinal
<1> DEFINE Final == \A o \in OrderId :
                      orders[o].status = "completed" /\ orders'[o].status # "completed" =>
                        \E p \in Proc : /\ req[p].pc \in {"update", "commit"} /\ req[p].o = o
                                        /\ ~req[p].alone
<1>1. ASSUME Inv, [Next]_vars PROVE [Final]_vars
  <2>1. ASSUME NEW p \in Proc, SaveOrder(p) PROVE Final
    <3>1. PICK o \in OrderId : ~Placed(o) /\ \A n \in OrderId \ {o} : orders'[n] = orders[n]
      BY <1>1, <2>1 DEF SaveOrder, Insert, Inv, Paid, TypeOK
    <3> QED
      BY <3>1 DEF Placed, NoOrder
  <2>2. ASSUME NEW p \in Proc, SaveStatus(p), req[p].pc \in {"update", "commit"} PROVE Final
    <3>1. req[p].o \in OrderId /\ HoldingOK(p) /\ req[p] \in Request
      BY <1>1, <2>2 DEF Inv, Paid, Held, TypeOK, BuyingOK, Holding
    <3>2. \A n \in OrderId \ {req[p].o} : orders'[n] = orders[n]
      BY <1>1, <2>2, <3>1 DEF SaveStatus, Inv, Paid, TypeOK
    <3>3. req[p].alone /\ orders[req[p].o].status = "completed" => ~req[p].write
      BY <2>2, <3>1 DEF HoldingOK, Undisturbed, Holding
    <3>4. ~req[p].write => orders' = orders
      BY <2>2 DEF SaveStatus
    <3> QED
      BY <2>2, <3>1, <3>2, <3>3, <3>4
  <2>3. CASE UNCHANGED orders
    BY <2>3
  <2>4. ASSUME NEW p \in Proc, Arrive(p) PROVE UNCHANGED orders
    <3>1. \/ \E u \in User, i \in ItemId, n \in Quantity : CreateOrderForUser(p, u, i, n)
          \/ \E call : Hold(p, call)
      BY <2>4
         DEF Arrive, CreateOrder, GetItemsForVenue, GetAllItems, CancelMyOrder, CancelOrderForBuyer,
             OwnerCancel, OwnerCancelOrder, CancelOwnerOrder, CheckOwnerOrder, OwnerMark, OwnerMarkOrder,
             StaffCancel, StaffCancelOrder, StaffMark, StaffMarkOrder
    <3> QED
      BY <3>1 DEF CreateOrderForUser, Hold, rows
  <2>5. ASSUME NEW p \in Proc, Statement(p)
        PROVE  \/ UNCHANGED orders \/ SaveOrder(p)
               \/ SaveStatus(p) /\ req[p].pc \in {"update", "commit"}
    BY <2>5 DEF Statement, Charge, RereadOwnerOrder, Select, Update, CommitOwnerCancel, Emit, At, rows
  <2>6. ASSUME NEW p \in Proc, Stop(p) PROVE UNCHANGED orders
    BY <2>6 DEF Stop
  <2>7. CASE UNCHANGED vars
    BY <2>7 DEF vars, rows
  <2>8. ASSUME NEW v \in Venue, NEW n \in Price, CreateStoreItem(v, n) PROVE UNCHANGED orders
    BY <2>8 DEF CreateStoreItem
  <2> QED
    BY <1>1, <2>1, <2>2, <2>3, <2>4, <2>5, <2>6, <2>7, <2>8
       DEF Next, CreateVenue, SeedOwnerVenueAndItem
<1> QED
  BY <1>1, InitInv, NextInv, PTL DEF Spec, CompletedIsFinal

-----------------------------------------------------------------------------
(* The dashboard of an owner against the credits                           *)

(* An item names a venue; the venues that exist are finitely many.         *)
Owned == {v \in Venue : ownerOf[v] # Nobody}

BooksOK ==
  /\ \A i \in ItemId : items[i] # NoItem => items[i].venue \in Venue
  /\ IsFiniteSet(Owned)

LEMMA InitBooks == Init => BooksOK
<1> SUFFICES ASSUME Init PROVE BooksOK
  OBVIOUS
<1>1. Owned = {}
  BY DEF Init, Owned
<1>2. QED
  BY <1>1, FS_EmptySet DEF Init, BooksOK

LEMMA CreateStoreItemBooks ==
  ASSUME Inv, BooksOK, NEW v \in Venue, NEW n \in Price, CreateStoreItem(v, n)
  PROVE  BooksOK'
<1>1. ownerOf' = ownerOf /\ items \in [ItemId -> Item]
  BY DEF CreateStoreItem, Inv, Paid, TypeOK
<1>2. PICK i \in ItemId : items' = [items EXCEPT ![i] = [venue |-> v, price |-> n]]
  BY DEF CreateStoreItem
<1>3. \A j \in ItemId : items'[j] = IF j = i THEN [venue |-> v, price |-> n] ELSE items[j]
  BY <1>1, <1>2
<1>4. QED
  BY <1>1, <1>3 DEF BooksOK, Owned

LEMMA NextBooks == Inv /\ BooksOK /\ [Next]_vars => BooksOK'
<1> SUFFICES ASSUME Inv, BooksOK, [Next]_vars PROVE BooksOK'
  OBVIOUS
<1>1. ASSUME NEW v \in Venue, NEW u \in User, CreateVenue(v, u) PROVE BooksOK'
  <2>1. items' = items /\ ownerOf' = [ownerOf EXCEPT ![v] = u] /\ ownerOf \in [Venue -> User \cup {Nobody}]
    BY <1>1 DEF CreateVenue, Inv, Paid, TypeOK
  <2>2. Owned' = Owned \cup {v}
    BY <2>1, StoreAssumption DEF Owned
  <2>3. QED
    BY <2>1, <2>2, FS_AddElement DEF BooksOK
<1>2. ASSUME NEW v \in Venue, NEW n \in Price, CreateStoreItem(v, n) PROVE BooksOK'
  BY <1>2, CreateStoreItemBooks
<1>3. ASSUME NEW u \in User, NEW v \in Venue, NEW n \in Price, SeedOwnerVenueAndItem(u, v, n)
      PROVE  BooksOK'
  BY <1>3, CreateStoreItemBooks DEF SeedOwnerVenueAndItem
<1>4. ASSUME NEW p \in Proc, Arrive(p) \/ Statement(p) \/ Stop(p) PROVE UNCHANGED <<ownerOf, items>>
  BY <1>4
  DEF Arrive, CreateOrder, CreateOrderForUser, CancelMyOrder, CancelOrderForBuyer, OwnerCancel,
      OwnerCancelOrder, CancelOwnerOrder, CheckOwnerOrder, OwnerMark, OwnerMarkOrder, StaffCancel,
      StaffCancelOrder, StaffMark, StaffMarkOrder, Hold, Statement, Charge, SaveOrder, Insert,
      RereadOwnerOrder, Select, Update, CommitOwnerCancel, SaveStatus, Emit, Stop, rows
<1>5. CASE UNCHANGED <<ownerOf, items>>
  BY <1>5 DEF BooksOK, Owned
<1>6. CASE UNCHANGED vars
  BY <1>5, <1>6 DEF vars, rows
<1>7. QED
  BY <1>1, <1>2, <1>3, <1>4, <1>5, <1>6 DEF Next

LEMMA Rounding ==
  ASSUME NEW a \in Nat
  PROVE  /\ ChargedFee(a) \in Nat /\ ReportedFee(a) \in Nat /\ a - ChargedFee(a) \in Nat
         /\ 10 * ChargedFee(a) <= a + 5
         /\ a - 9 <= 10 * ReportedFee(a)
BY DEF ChargedFee, ReportedFee, platformFeePercent

(* What is reported of a total, against what was credited of its parts:    *)
(* each part may be rounded up, the total is rounded down.                 *)
LEMMA RoundedSum ==
  ASSUME NEW S, IsFiniteSet(S), NEW a, \A x \in S : a[x] \in Nat, NEW b,
         \A x \in S : b[x] = a[x] - ChargedFee(a[x]) + 1
  PROVE  SumFunctionOnSet(a, S) - ReportedFee(SumFunctionOnSet(a, S)) <= SumFunctionOnSet(b, S)
<1> DEFINE A(s) == SumFunctionOnSet(a, s)
           B(s) == SumFunctionOnSet(b, s)
           G == {s \in SUBSET S : s # {} => 10 * B(s) >= 9 * A(s) + 5}
<1>1. \A x \in S : a[x] \in Nat /\ b[x] \in Nat /\ 10 * b[x] >= 9 * a[x] + 5
  <2> TAKE x \in S
  <2>1. /\ ChargedFee(a[x]) \in Nat /\ a[x] - ChargedFee(a[x]) \in Nat
        /\ 10 * ChargedFee(a[x]) <= a[x] + 5
    BY Rounding
  <2>2. QED
    BY <2>1
<1>2. \A s \in SUBSET S : IsFiniteSet(s) /\ A(s) \in Nat /\ B(s) \in Nat
  BY <1>1, FS_Subset, SumNat
<1>3. ASSUME NEW s \in SUBSET S,
             \A t \in SUBSET S : Cardinality(t) < Cardinality(s) => t \in G
      PROVE  s \in G
  <2> SUFFICES ASSUME s # {} PROVE 10 * B(s) >= 9 * A(s) + 5
    OBVIOUS
  <2>1. Rest(s) \in SUBSET S /\ Cardinality(Rest(s)) < Cardinality(s) /\ Any(s) \in S
    BY RestSmall, AnyIn
  <2>2. A(s) = a[Any(s)] + A(Rest(s)) /\ B(s) = b[Any(s)] + B(Rest(s))
    BY <1>2, SumRest
  <2>3. A(Rest(s)) \in Nat /\ B(Rest(s)) \in Nat
    BY <1>2, <2>1
  <2>4. 10 * B(Rest(s)) >= 9 * A(Rest(s))
    <3>1. CASE Rest(s) = {}
      BY <3>1, SumEmpty
    <3>2. CASE Rest(s) # {}
      BY <1>3, <2>1, <2>3, <3>2
    <3>3. QED
      BY <3>1, <3>2
  <2>5. a[Any(s)] \in Nat /\ b[Any(s)] \in Nat /\ 10 * b[Any(s)] >= 9 * a[Any(s)] + 5
    BY <1>1, <2>1
  <2> HIDE DEF A, B
  <2>6. QED
    BY <2>2, <2>3, <2>4, <2>5
<1>4. G \in SUBSET (SUBSET S)
  OBVIOUS
<1> HIDE DEF G
<1>5. G = SUBSET S
  BY <1>3, <1>4, SetInduction
<1>6. S # {} => 10 * B(S) >= 9 * A(S) + 5
  BY <1>5 DEF G
<1>7. S = {} => A(S) = 0 /\ B(S) = 0
  BY SumEmpty
<1>8. A(S) \in Nat /\ B(S) \in Nat
  BY <1>2
<1> HIDE DEF A, B
<1>9. A(S) - 9 <= 10 * ReportedFee(A(S)) /\ ReportedFee(A(S)) \in Nat
  BY <1>8, Rounding
<1>10. A(S) - ReportedFee(A(S)) <= B(S)
  BY <1>6, <1>7, <1>8, <1>9
<1>11. QED
  BY <1>10 DEF A, B

(* The credits of an owner are at least those of the completed orders, one *)
(* charge each.                                                            *)
LEMMA CreditsCover ==
  ASSUME Inv, NEW u \in User, NEW O \in SUBSET FindOrdersByOwner(u)
  PROVE  /\ IsFiniteSet(O) /\ O \in SUBSET OrderId
         /\ \A o \in O : orders[o].amt \in Nat
         /\ SumFunctionOnSet([o \in OrderId |-> orders[o].amt - ChargedFee(orders[o].amt) + 1], O)
              <= CreditOf(CreditedFor(u)) + Cardinality(O)
<1> DEFINE C == CreditedFor(u)
           D == {orders[o].charge : o \in O}
           h == [o \in OrderId |-> orders[o].charge]
           g == [c \in OrderId |-> charges[c].amt - ChargedFee(charges[c].amt)]
           f == [o \in OrderId |-> orders[o].amt - ChargedFee(orders[o].amt)]
           one == [o \in OrderId |-> 1]
           b == [o \in OrderId |-> orders[o].amt - ChargedFee(orders[o].amt) + 1]
<1>1. IsFiniteSet(OrderId)
  BY StoreAssumption, FS_Interval DEF OrderId
<1>2. /\ O \in SUBSET OrderId /\ IsFiniteSet(O)
      /\ C \in SUBSET OrderId /\ IsFiniteSet(C)
  BY <1>1, FS_Subset DEF FindOrdersByOwner, SoldBy, Joined, CreditedFor
<1>3. \A c \in OrderId : charges[c].amt \in Nat
  BY DEF Inv, Paid, TypeOK
<1>4. \A o \in O : /\ Placed(o) /\ ownerOf[orders[o].venue] = u
                  /\ orders[o].charge \in OrderId /\ Pays(orders[o].charge, o)
                  /\ orders[o].amt \in Nat
  BY <1>2 DEF FindOrdersByOwner, SoldBy, Joined, Inv, Paid, OrderOK, TypeOK, Order
<1>5. \A c \in OrderId : g[c] \in Nat
  BY <1>3, Rounding
<1>6. \A o \in O : f[o] \in Int /\ f[o] = g[h[o]] /\ one[o] \in Int /\ b[o] = f[o] + one[o]
  <2> TAKE o \in O
  <2>1. orders[o].amt \in Nat /\ charges[orders[o].charge].amt = orders[o].amt
    BY <1>4 DEF Pays
  <2>2. ChargedFee(orders[o].amt) \in Nat
    BY <2>1, Rounding
  <2>3. QED
    BY <1>2, <1>4, <2>1, <2>2
<1>7. \A o, n \in O : h[o] = h[n] => o = n
  BY <1>2, <1>4 DEF Inv, Paid, OwnCharge
<1>8. {h[o] : o \in O} \in SUBSET C
  <2>1. ASSUME NEW o \in O PROVE h[o] \in C
    <3>1. h[o] = orders[o].charge /\ h[o] \in OrderId
      BY <1>2, <1>4
    <3>2. Charged(h[o]) /\ ownerOf[charges[h[o]].venue] = u
      BY <1>4, <3>1 DEF Pays
    <3>3. QED
      BY <3>1, <3>2 DEF CreditedFor
  <2> HIDE DEF C, h
  <2>2. QED
    BY <2>1
<1>9. CreditOf(C) = SumFunctionOnSet(g, C)
  BY DEF CreditOf
<1>10. \A o \in O : one[o] = 1
  BY <1>2
<1> HIDE DEF C, g, h, f, one, b
<1>11. SumFunctionOnSet(g, {h[o] : o \in O}) = SumFunctionOnSet(f, O)
  BY <1>2, <1>6, <1>7, SumImage
<1>12. SumFunctionOnSet(g, {h[o] : o \in O}) <= SumFunctionOnSet(g, C)
  BY <1>2, <1>5, <1>8, SumPart
<1>13. SumFunctionOnSet(b, O) = SumFunctionOnSet(f, O) + Cardinality(O)
  <2>1. SumFunctionOnSet(b, O) = SumFunctionOnSet(f, O) + SumFunctionOnSet(one, O)
    BY <1>2, <1>6, SumPlus
  <2>2. SumFunctionOnSet(one, O) = Cardinality(O)
    BY <1>2, <1>10, SumOnes
  <2>3. QED
    BY <2>1, <2>2
<1>14. SumFunctionOnSet(f, O) \in Int /\ SumFunctionOnSet(g, C) \in Int /\ Cardinality(O) \in Int
  <2>1. \A c \in C : g[c] \in Int
    BY <1>2, <1>5
  <2>2. QED
    BY <1>2, <1>6, <2>1, SumInt, FS_CardinalityType
<1>15. SumFunctionOnSet(b, O) <= CreditOf(C) + Cardinality(O)
  BY <1>9, <1>11, <1>12, <1>13, <1>14
<1>16. QED
  BY <1>2, <1>4, <1>15 DEF C, b

LEMMA Dashboard ==
  ASSUME Inv, BooksOK
  PROVE  DashboardCovered
<1> SUFFICES ASSUME NEW u \in User
             PROVE  /\ GetOwnerStats(u).payout <= CreditOf(CreditedFor(u)) + GetOwnerStats(u).count
                    /\ RecentPayout(u) <= CreditOf(CreditedFor(u)) + GetOwnerStats(u).count
  BY DEF DashboardCovered
<1> DEFINE O == FindOrdersByOwner(u)
           V == {v \in Venue : ownerOf[v] = u}
           Of(v) == {o \in O : orders[o].venue = v}
           a == [o \in OrderId |-> orders[o].amt]
           b == [o \in OrderId |-> orders[o].amt - ChargedFee(orders[o].amt) + 1]
           r == [o \in OrderId |-> orders[o].amt - ReportedFee(orders[o].amt)]
           h == [o \in OrderId |-> orders[o].venue]
           P == [v \in Venue |-> Of(v)]
           payout == [v \in Venue |-> AmountOf(Of(v)) - ReportedFee(AmountOf(Of(v)))]
           part == [v \in Venue |-> SumFunctionOnSet(b, Of(v))]
<1>1. /\ IsFiniteSet(O) /\ O \in SUBSET OrderId
      /\ \A o \in O : orders[o].amt \in Nat
      /\ SumFunctionOnSet(b, O) <= CreditOf(CreditedFor(u)) + Cardinality(O)
  BY CreditsCover
<1>2. /\ GetOwnerStats(u).count = Cardinality(O)
      /\ GetOwnerStats(u).payout = SumFunctionOnSet(payout, V)
      /\ RecentPayout(u) = SumFunctionOnSet(r, O)
  BY DEF GetOwnerStats, RecentPayout
<1>3. \A o \in O : /\ a[o] \in Nat /\ b[o] \in Nat /\ r[o] \in Int /\ r[o] <= b[o] /\ h[o] \in V
                   /\ b[o] = a[o] - ChargedFee(a[o]) + 1
  <2> TAKE o \in O
  <2>1. o \in OrderId /\ orders[o].amt \in Nat
    BY <1>1
  <2>2. LET n == orders[o].amt
        IN  /\ ChargedFee(n) \in Nat /\ ReportedFee(n) \in Nat /\ n - ChargedFee(n) \in Nat
            /\ 10 * ChargedFee(n) <= n + 5 /\ n - 9 <= 10 * ReportedFee(n)
    BY <2>1, Rounding
  <2>3. Placed(o) /\ ownerOf[orders[o].venue] = u
    BY DEF FindOrdersByOwner, SoldBy, Joined
  <2>4. orders[o].venue \in Venue
    BY <2>1, <2>3 DEF Inv, Paid, OrderOK, There, BooksOK
  <2>5. QED
    BY <2>1, <2>2, <2>3, <2>4
<1>4. V \in SUBSET Venue /\ IsFiniteSet(V)
  <2>1. V \in SUBSET Owned
    BY StoreAssumption DEF Owned
  <2>2. QED
    BY <2>1, FS_Subset DEF BooksOK
<1>5. SumFunctionOnSet(r, O) <= SumFunctionOnSet(b, O)
  <2> HIDE DEF O, V, a, b, r, h
  <2>1. QED
    BY <1>1, <1>3, SumMono
<1>6. \A v \in V : /\ payout[v] \in Int /\ part[v] \in Int /\ payout[v] <= part[v]
                   /\ part[v] = SumFunctionOnSet(b, P[v]) /\ P[v] = {o \in O : h[o] = v}
  <2> TAKE v \in V
  <2>1. Of(v) \in SUBSET O /\ IsFiniteSet(Of(v)) /\ Of(v) = {o \in O : h[o] = v} /\ P[v] = Of(v)
    BY <1>1, FS_Subset
  <2>2. payout[v] = SumFunctionOnSet(a, Of(v)) - ReportedFee(SumFunctionOnSet(a, Of(v)))
    BY DEF AmountOf
  <2>3. part[v] = SumFunctionOnSet(b, Of(v))
    OBVIOUS
  <2> HIDE DEF O, V, Of, P, a, b, r, h, payout, part
  <2>4. SumFunctionOnSet(a, Of(v)) \in Nat /\ SumFunctionOnSet(b, Of(v)) \in Nat
    BY <1>3, <2>1, SumNat
  <2>5. SumFunctionOnSet(a, Of(v)) - ReportedFee(SumFunctionOnSet(a, Of(v)))
          <= SumFunctionOnSet(b, Of(v))
    BY <1>3, <2>1, RoundedSum
  <2>6. ReportedFee(SumFunctionOnSet(a, Of(v))) \in Nat
    BY <2>4, Rounding
  <2>7. QED
    BY <2>1, <2>2, <2>3, <2>4, <2>5, <2>6
<1> HIDE DEF O, V, Of, P, a, b, r, h, payout, part
<1>7. SumFunctionOnSet(payout, V) <= SumFunctionOnSet(part, V)
  BY <1>4, <1>6, SumMono
<1>8. SumFunctionOnSet(part, V) = SumFunctionOnSet(b, O)
  <2>1. \A o \in O : h[o] \in V /\ b[o] \in Int
    BY <1>3
  <2>2. Divides(h, O, V, P) /\ \A v \in V : part[v] = SumFunctionOnSet(b, P[v])
    BY <1>6 DEF Divides
  <2>3. QED
    BY <1>1, <1>4, <2>1, <2>2, SumParts
<1>9. /\ SumFunctionOnSet(b, O) \in Int /\ SumFunctionOnSet(r, O) \in Int
      /\ SumFunctionOnSet(payout, V) \in Int
  <2>1. \A o \in O : b[o] \in Int /\ r[o] \in Int
    BY <1>3
  <2>2. \A v \in V : payout[v] \in Int
    BY <1>6
  <2>3. QED
    BY <1>1, <1>4, <2>1, <2>2, SumInt
<1>10. CreditOf(CreditedFor(u)) \in Int /\ Cardinality(O) \in Int
  <2> DEFINE g == [c \in OrderId |-> charges[c].amt - ChargedFee(charges[c].amt)]
             C == CreditedFor(u)
  <2>1. \A c \in C : g[c] \in Int
    <3>1. \A c \in OrderId : charges[c].amt \in Nat
      BY DEF Inv, Paid, TypeOK
    <3>2. \A c \in OrderId : g[c] \in Int
      BY <3>1, Rounding
    <3>3. C \in SUBSET OrderId
      BY DEF CreditedFor
    <3>4. QED
      BY <3>2, <3>3
  <2>2. IsFiniteSet(C)
    <3>1. IsFiniteSet(OrderId) /\ C \in SUBSET OrderId
      BY StoreAssumption, FS_Interval DEF OrderId, CreditedFor
    <3> HIDE DEF C
    <3>2. QED
      BY <3>1, FS_Subset
  <2>3. CreditOf(C) = SumFunctionOnSet(g, C)
    BY DEF CreditOf
  <2> HIDE DEF g, C
  <2>4. CreditOf(C) \in Int
    BY <2>1, <2>2, <2>3, SumInt
  <2>5. QED
    BY <1>1, <2>4, FS_CardinalityType DEF C
<1>11. QED
  BY <1>1, <1>2, <1>5, <1>7, <1>8, <1>9, <1>10

(* store-items.service.ts: an owner's dashboard reports at most what the   *)
(* wallets were credited, and a cent per completed order, though it rounds *)
(* totals down where each charge rounded its own fee up or down: every     *)
(* completed order has a charge of its own, in full.                       *)
THEOREM PayoutsCovered == Spec => []DashboardCovered
<1>1. Inv /\ BooksOK => DashboardCovered
  BY Dashboard
<1> QED
  BY <1>1, InitInv, NextInv, InitBooks, NextBooks, PTL DEF Spec
=============================================================================
