-------------------------- MODULE CashoutGateProofs --------------------------
(* The gate of a cashout, for any users, handlers, accounts and restarts:  *)
(* a verification is kept, none comes from anywhere but the development    *)
(* endpoints, and a cashout goes to an account its user submitted.         *)
EXTENDS CashoutGate, FiniteSetTheorems, TLAPS

Accounts(u) == {info.acct : info \in sent[u]} \ {Nobody}

(* A submission is of its user, and so is every row that is found and      *)
(* every destination that is read.                                         *)
SentOK == \A u \in User : \A info \in sent[u] : info.user = u

RowsOK == \A r \in RowId : bank[r].user \in User => bank[r].acct \in Accounts(bank[r].user)

HandlerOK(p) ==
  /\ req[p].pc # "idle" => req[p].u \in User
  /\ req[p].pc \in {"insert", "select", "update"} => req[p].val \in sent[req[p].u]
  /\ req[p].pc \in {"select", "update"} => req[p].row \in RowsOf(req[p].u)
  /\ req[p].pc = "update" => req[p].cols \subseteq Given(req[p].val)
  /\ req[p].pc = "open" => req[p].dest \in Accounts(req[p].u)

(* A verification is kept: no handler is about to write over it.           *)
Kept ==
  \A u \in User : sure[u] =>
    /\ store[u].status = "verified"
    /\ \A p \in Proc : ~(At(p, "session") /\ req[p].u = u)

(* Without the development endpoints nobody is past the identity check.    *)
Closed ==
  \/ dev
  \/ /\ \A u \in User : store[u].status # "verified" /\ cashouts[u] = {}
     /\ \A p \in Proc : req[p].pc \notin {"bank", "reread", "open"}

Inv ==
  /\ TypeOK
  /\ SentOK /\ RowsOK /\ (\A p \in Proc : HandlerOK(p)) /\ DestinationIsOwn
  /\ Kept /\ Closed

(* The values that requests and rows start with have their types.          *)
LEMMA StartedType ==
  ASSUME NEW u \in User \cup {Nobody}, NEW pc \in {"idle", "session", "insert", "select", "bank"}
  PROVE  /\ Started(pc, u) \in Request /\ NoRow \in Row
         /\ Started(pc, u).pc = pc /\ Started(pc, u).u = u
BY DEF Started, Request, NoRow, Row

LEMMA InitInv == Init => Inv
<1> SUFFICES ASSUME Init PROVE Inv
  OBVIOUS
<1>1. NoRequest \in Request /\ NoRequest.pc = "idle" /\ NoRow \in Row
  BY StartedType DEF NoRequest
<1>2. TypeOK
  BY <1>1 DEF Init, TypeOK, NoRecord
<1>3. SentOK /\ RowsOK /\ (\A p \in Proc : HandlerOK(p)) /\ DestinationIsOwn
  BY <1>1, GateAssumption DEF Init, SentOK, RowsOK, HandlerOK, DestinationIsOwn, NoRow
<1>4. Kept /\ Closed
  BY <1>1 DEF Init, Kept, Closed, NoRecord
<1> QED
  BY <1>2, <1>3, <1>4 DEF Inv

-----------------------------------------------------------------------------
(* Identity                                                                *)
LEMMA StartInv ==
  ASSUME Inv, NEW p \in Proc, NEW u \in User, Start(p, u)
  PROVE  Inv'
<1>1. UNCHANGED <<dev, stripe, bank, cashouts, restarts, sent, latest, raced, sure>>
      /\ calls' \in Nat /\ ~sure[u] /\ store[u].status # "verified"
  BY DEF Start, Call, env, tables, history, Inv, TypeOK, Kept
<1>2. CASE ~stripe /\ UNCHANGED req
  <2>1. store' \in [User -> [status : Statuses \cup {"none"}, url : {"none", "dev", "stripe"}]]
        /\ store'[u].status = "started" /\ \A w \in User \ {u} : store'[w] = store[w]
    BY <1>2, <1>1 DEF Start, Inv, TypeOK, Statuses
  <2>2. TypeOK'
    BY <1>1, <1>2, <2>1 DEF Inv, TypeOK
  <2>3. SentOK' /\ RowsOK' /\ (\A q \in Proc : HandlerOK(q))' /\ DestinationIsOwn'
    BY <1>1, <1>2 DEF Inv, SentOK, RowsOK, HandlerOK, DestinationIsOwn, Accounts, RowsOf
  <2>4. Kept' /\ Closed'
    BY <1>1, <1>2, <2>1 DEF Inv, Kept, Closed, At
  <2> QED
    BY <2>2, <2>3, <2>4 DEF Inv
<1>3. CASE stripe /\ UNCHANGED store
  <2>1. req' = [req EXCEPT ![p] = Started("session", u)]
    BY <1>3 DEF Start
  <2>2. TypeOK'
    BY <1>1, <1>3, <2>1, StartedType DEF Inv, TypeOK
  <2>3. SentOK' /\ RowsOK' /\ DestinationIsOwn'
    BY <1>1 DEF Inv, SentOK, RowsOK, DestinationIsOwn, Accounts
  <2>4. (\A q \in Proc : HandlerOK(q))'
    BY <1>1, <2>1, StartedType DEF Inv, TypeOK, HandlerOK, Accounts, RowsOf
  <2>5. Kept' /\ Closed'
    BY <1>1, <1>3, <2>1, StartedType DEF Inv, TypeOK, Kept, Closed, At
  <2> QED
    BY <2>2, <2>3, <2>4, <2>5 DEF Inv
<1> QED
  BY <1>2, <1>3 DEF Start

(* A handler that is done keeps everything that it does not write.         *)
LEMMA FinishInv ==
  ASSUME Inv, NEW p \in Proc, Finish(p)
  PROVE  /\ req' \in [Proc -> Request]
         /\ \A q \in Proc : req'[q] = req[q] \/ req'[q].pc = "idle"
<1>1. NoRequest \in Request /\ NoRequest.pc = "idle"
  BY StartedType DEF NoRequest
<1> QED
  BY <1>1 DEF Finish, Inv, TypeOK

LEMMA SessionCreatedInv ==
  ASSUME Inv, NEW p \in Proc, SessionCreated(p)
  PROVE  Inv'
<1> DEFINE u == req[p].u
<1>1. UNCHANGED <<dev, stripe, bank, cashouts, calls, restarts, sent, latest, raced, sure>> /\ Finish(p)
  BY DEF SessionCreated, env, tables, history
<1>2. u \in User /\ ~sure[u]
  BY DEF SessionCreated, At, Inv, HandlerOK, Kept
<1>3. store' \in [User -> [status : Statuses \cup {"none"}, url : {"none", "dev", "stripe"}]]
      /\ store'[u].status = "started" /\ \A w \in User \ {u} : store'[w] = store[w]
  BY <1>2 DEF SessionCreated, Inv, TypeOK, Statuses
<1>4. TypeOK'
  BY <1>1, <1>3, FinishInv DEF Inv, TypeOK
<1>5. SentOK' /\ RowsOK' /\ (\A q \in Proc : HandlerOK(q))' /\ DestinationIsOwn'
  BY <1>1, FinishInv DEF Inv, SentOK, RowsOK, HandlerOK, DestinationIsOwn, Accounts, RowsOf
<1>6. Kept' /\ Closed'
  BY <1>1, <1>2, <1>3, FinishInv DEF Inv, Kept, Closed, At
<1> QED
  BY <1>4, <1>5, <1>6 DEF Inv

LEMMA DevInv ==
  ASSUME Inv, NEW u \in User,
         CompleteDev(u) \/ \E s \in Statuses : SetStatus(u, s)
  PROVE  Inv'
<1>1. UNCHANGED <<dev, stripe, bank, cashouts, req, restarts, sent, latest, raced>> /\ calls' \in Nat /\ dev
  BY DEF CompleteDev, Complete, SetStatus, CanActivate, Call, env, tables, Inv, TypeOK
<1>2. Url(u) \in {"none", "dev", "stripe"}
  BY DEF Url, Inv, TypeOK
<1>3. TypeOK'
  <2>1. PICK s \in Statuses : store' = [store EXCEPT ![u] = [status |-> s, url |-> Url(u)]]
    BY DEF CompleteDev, Complete, SetStatus, Statuses
  <2>2. store' \in [User -> [status : Statuses \cup {"none"}, url : {"none", "dev", "stripe"}]]
    BY <1>2, <2>1 DEF Inv, TypeOK
  <2>3. sure' \in [User -> BOOLEAN]
    BY DEF CompleteDev, Complete, SetStatus, Inv, TypeOK
  <2> QED
    BY <1>1, <2>2, <2>3 DEF Inv, TypeOK
<1>4. SentOK' /\ RowsOK' /\ (\A q \in Proc : HandlerOK(q))' /\ DestinationIsOwn' /\ Closed'
  BY <1>1 DEF Inv, SentOK, RowsOK, HandlerOK, DestinationIsOwn, Accounts, RowsOf, Closed
<1>5. Kept'
  BY <1>1 DEF CompleteDev, Complete, SetStatus, Inv, TypeOK, Kept, At
<1> QED
  BY <1>3, <1>4, <1>5 DEF Inv

LEMMA RestartInv == ASSUME Inv, Restart PROVE Inv'
<1>1. NoRequest \in Request /\ NoRequest.pc = "idle"
  BY StartedType DEF NoRequest
<1>2. TypeOK'
  BY <1>1 DEF Restart, tables, Inv, TypeOK, NoRecord
<1>3. SentOK' /\ RowsOK' /\ (\A p \in Proc : HandlerOK(p))' /\ DestinationIsOwn'
  BY <1>1 DEF Restart, tables, Inv, SentOK, RowsOK, HandlerOK, DestinationIsOwn, Accounts, RowsOf
<1>4. Kept' /\ Closed'
  BY <1>1 DEF Restart, tables, Inv, Kept, Closed, NoRecord
<1> QED
  BY <1>2, <1>3, <1>4 DEF Inv

-----------------------------------------------------------------------------
(* Bank information                                                        *)

(* The handler of a submission will insert it, or save it in a row that    *)
(* was found.                                                              *)
LEMMA SubmittedRequest ==
  ASSUME NEW p \in Proc, NEW u \in User,
         NEW name \in Name \cup {Nobody}, NEW acct \in Account \cup {Nobody},
         SetForUser(p, u, name, acct)
  PROVE  \E r \in Request :
           /\ req' = [req EXCEPT ![p] = r] /\ r.u = u /\ r.val = Info(u, name, acct)
           /\ (r.pc = "insert" /\ RowsOf(u) = {}) \/ (r.pc = "select" /\ r.row \in RowsOf(u))
<1> DEFINE info == Info(u, name, acct)
<1>1. info \in Row
  BY DEF Info, Row
<1>2. CASE RowsOf(u) = {} /\ req' = [req EXCEPT ![p] = [Started("insert", u) EXCEPT !.val = info]]
  <2> DEFINE r == [Started("insert", u) EXCEPT !.val = info]
  <2>1. r \in Request /\ r.u = u /\ r.val = info /\ r.pc = "insert"
    BY <1>1 DEF Started, Request
  <2> QED
    BY <1>2, <2>1
<1>3. ASSUME NEW x \in RowsOf(u),
             req' = [req EXCEPT ![p] = [Started("select", u) EXCEPT !.row = x, !.val = info]]
      PROVE  \E r \in Request :
               /\ req' = [req EXCEPT ![p] = r] /\ r.u = u /\ r.val = info
               /\ (r.pc = "insert" /\ RowsOf(u) = {}) \/ (r.pc = "select" /\ r.row \in RowsOf(u))
  <2> DEFINE r == [Started("select", u) EXCEPT !.row = x, !.val = info]
  <2>1. x \in RowId
    BY DEF RowsOf
  <2>2. r \in Request /\ r.u = u /\ r.val = info /\ r.pc = "select" /\ r.row = x
    BY <1>1, <2>1 DEF Started, Request
  <2> QED
    BY <1>3, <2>2
<1> QED
  BY <1>2, <1>3 DEF SetForUser, Submit

(* The columns of a row that is saved come from the row and from what was  *)
(* submitted, both of the same user.                                       *)
LEMMA SetForUserInv ==
  ASSUME Inv, NEW p \in Proc, NEW u \in User,
         NEW name \in Name \cup {Nobody}, NEW acct \in Account \cup {Nobody},
         SetForUser(p, u, name, acct)
  PROVE  Inv'
<1> DEFINE info == Info(u, name, acct)
<1>1. UNCHANGED <<dev, stripe, store, bank, cashouts, restarts, latest, sure>> /\ calls' \in Nat
      /\ sent' = [sent EXCEPT ![u] = @ \cup {info}]
  <2>1. Call /\ UNCHANGED <<env, store, tables, restarts, latest, sure>>
    BY DEF SetForUser, Submit
  <2>2. calls' \in Nat
    BY <2>1 DEF Call, Inv, TypeOK
  <2>3. sent' = [sent EXCEPT ![u] = @ \cup {info}]
    BY DEF SetForUser, Submit
  <2> QED
    BY <2>1, <2>2, <2>3 DEF env, tables
<1>2. info \in Row /\ info.user = u /\ info.acct = acct
  BY DEF Info, Row
<1>3. PICK r \in Request :
        /\ req' = [req EXCEPT ![p] = r] /\ r.u = u /\ r.val = info
        /\ r.pc = "insert" \/ (r.pc = "select" /\ r.row \in RowsOf(u))
  BY SubmittedRequest
<1>4. TypeOK'
  <2>1. sent' \in [User -> SUBSET Row]
    BY <1>1, <1>2 DEF Inv, TypeOK
  <2>2. raced' \in [User -> BOOLEAN]
    <3>1. raced' = [raced EXCEPT ![u] = raced[u] \/ Submitting(u) # {}]
      BY DEF SetForUser, Submit
    <3>2. (raced[u] \/ Submitting(u) # {}) \in BOOLEAN
      OBVIOUS
    <3> QED
      BY <3>1, <3>2, Zenon DEF Inv, TypeOK
  <2>3. req' \in [Proc -> Request]
    BY <1>3 DEF Inv, TypeOK
  <2> QED
    BY <1>1, <2>1, <2>2, <2>3 DEF Inv, TypeOK
<1>5. \A w \in User : sent[w] \subseteq sent'[w] /\ Accounts(w) \subseteq Accounts(w)'
  BY <1>1 DEF Inv, TypeOK, Accounts
<1>6. SentOK' /\ RowsOK' /\ DestinationIsOwn'
  <2>1. SentOK'
    BY <1>1, <1>2 DEF Inv, TypeOK, SentOK
  <2>2. RowsOK' /\ DestinationIsOwn'
    BY <1>1, <1>5 DEF Inv, RowsOK, DestinationIsOwn, Accounts
  <2> QED
    BY <2>1, <2>2
<1>7. (\A q \in Proc : HandlerOK(q))'
  <2> SUFFICES ASSUME NEW q \in Proc PROVE HandlerOK(q)'
    OBVIOUS
  <2>1. CASE q = p
    <3>1. info \in sent'[u] /\ req'[q].u = u /\ req'[q].val = info
          /\ (req'[q].pc = "insert" \/ (req'[q].pc = "select" /\ req'[q].row \in RowsOf(u)))
      BY <1>1, <1>3, <2>1 DEF Inv, TypeOK
    <3> QED
      BY <1>1, <3>1 DEF HandlerOK, RowsOf
  <2>2. CASE q # p
    <3>1. req'[q] = req[q] /\ HandlerOK(q)
      BY <1>3, <2>2 DEF Inv, TypeOK
    <3> QED
      BY <1>1, <1>5, <3>1 DEF HandlerOK, RowsOf
  <2> QED
    BY <2>1, <2>2
<1>8. Kept' /\ Closed'
  BY <1>1, <1>3 DEF Inv, TypeOK, Kept, Closed, At
<1> QED
  BY <1>4, <1>6, <1>7, <1>8 DEF Inv

(* A save of p changes what its user said last, and keeps its type.        *)
LEMMA SavedType ==
  ASSUME Inv, NEW p \in Proc, req[p].u \in User, req[p].val.user = req[p].u, Saved(p)
  PROVE  latest' \in [User -> Row]
<1> DEFINE u == req[p].u
           row == Overwrite(latest[u], req[p].val, Given(req[p].val))
<1>1. latest' = [latest EXCEPT ![u] = row]
  BY DEF Saved, Inv, TypeOK
<1>2. row \in Row
  BY DEF Overwrite, Inv, TypeOK, Request, Row
<1> QED
  BY <1>1, <1>2 DEF Inv, TypeOK

LEMMA InsertBankInv ==
  ASSUME Inv, NEW p \in Proc, InsertBank(p)
  PROVE  Inv'
<1> DEFINE u == req[p].u
           val == req[p].val
<1>1. UNCHANGED <<dev, stripe, store, cashouts, calls, restarts, sent, raced, sure>> /\ Finish(p)
      /\ Saved(p)
  BY DEF InsertBank, env, history
<1>2. u \in User /\ val \in sent[u] /\ val \in Row /\ val.user = u
      /\ val.acct # Nobody
  BY DEF InsertBank, At, Inv, HandlerOK, TypeOK, SentOK, Request, Given, Columns
<1>3. PICK r \in RowId : bank[r] = NoRow /\ bank' = [bank EXCEPT ![r] = val]
  BY DEF InsertBank
<1>4. \A w \in User : RowsOf(w) \subseteq RowsOf(w)'
  BY <1>2, <1>3, GateAssumption DEF RowsOf, NoRow, Inv, TypeOK
<1>5. TypeOK'
  BY <1>1, <1>2, <1>3, FinishInv, SavedType DEF Inv, TypeOK
<1>6. SentOK' /\ DestinationIsOwn'
  BY <1>1 DEF Inv, SentOK, DestinationIsOwn
<1>7. RowsOK'
  <2>1. val.acct \in Accounts(u)
    BY <1>2 DEF Accounts
  <2> QED
    BY <1>1, <1>2, <1>3, <2>1 DEF Inv, TypeOK, RowsOK, Accounts
<1>8. (\A q \in Proc : HandlerOK(q))'
  BY <1>1, <1>4, FinishInv DEF Inv, HandlerOK, Accounts
<1>9. Kept' /\ Closed'
  BY <1>1, FinishInv DEF Inv, Kept, Closed, At
<1> QED
  BY <1>5, <1>6, <1>7, <1>8, <1>9 DEF Inv

(* A step of one handler that changes only where it is.                    *)
LEMMA MoveInv ==
  ASSUME Inv, NEW p \in Proc, NEW r \in Request, req' = [req EXCEPT ![p] = r],
         UNCHANGED <<dev, stripe, store, bank, cashouts, restarts, sent, latest, raced, sure>>,
         calls' \in Nat, HandlerOK(p)', r.pc # "session",
         r.pc \in {"bank", "reread", "open"} =>
           req[p].pc \in {"bank", "reread", "open"} \/ dev
  PROVE  Inv'
<1>1. TypeOK'
  BY DEF Inv, TypeOK
<1>2. SentOK' /\ RowsOK' /\ DestinationIsOwn'
  BY DEF Inv, SentOK, RowsOK, DestinationIsOwn, Accounts
<1>3. (\A q \in Proc : HandlerOK(q))'
  <2> SUFFICES ASSUME NEW q \in Proc, q # p PROVE HandlerOK(q)'
    OBVIOUS
  <2>1. req'[q] = req[q] /\ HandlerOK(q)
    BY DEF Inv, TypeOK
  <2> QED
    BY <2>1 DEF HandlerOK, Accounts, RowsOf
<1>4. Kept' /\ Closed'
  BY DEF Inv, TypeOK, Kept, Closed, At
<1> QED
  BY <1>1, <1>2, <1>3, <1>4 DEF Inv

LEMMA SelectBankInv ==
  ASSUME Inv, NEW p \in Proc, SelectBank(p)
  PROVE  Inv'
<1> DEFINE cols == {c \in Given(req[p].val) : bank[req[p].row][c] # req[p].val[c]}
           r == [req[p] EXCEPT !.pc = "update", !.cols = cols]
<1>1. req' = [req EXCEPT ![p] = r] /\ r \in Request /\ r.pc = "update"
      /\ r.u = req[p].u /\ r.val = req[p].val /\ r.row = req[p].row
      /\ r.cols \subseteq Given(r.val)
  <2>1. req' = [req EXCEPT ![p] = r] /\ req[p] \in Request /\ cols \in SUBSET Columns
    BY DEF SelectBank, Given, Inv, TypeOK
  <2>2. r = [req[p] EXCEPT !.pc = "update", !.cols = cols]
    OBVIOUS
  <2> HIDE DEF r, cols
  <2>3. r \in Request /\ r.pc = "update" /\ r.u = req[p].u /\ r.val = req[p].val
        /\ r.row = req[p].row /\ r.cols = cols
    BY <2>1, <2>2 DEF Request
  <2>4. cols \subseteq Given(req[p].val)
    BY DEF cols
  <2> QED
    BY <2>1, <2>3, <2>4
<1>2. UNCHANGED <<dev, stripe, store, bank, cashouts, calls, restarts, sent, latest, raced, sure>>
  BY DEF SelectBank, env, tables, history
<1>3. HandlerOK(p)'
  <2>1. req'[p] = r /\ HandlerOK(p) /\ req[p].pc = "select"
    BY <1>1 DEF SelectBank, At, Inv, TypeOK
  <2> QED
    BY <1>1, <1>2, <2>1 DEF HandlerOK, RowsOf
<1> QED
  BY <1>1, <1>2, <1>3, MoveInv DEF Inv, TypeOK

LEMMA UpdateBankInv ==
  ASSUME Inv, NEW p \in Proc, UpdateBank(p)
  PROVE  Inv'
<1> DEFINE u == req[p].u
           x == req[p].row
           val == req[p].val
           row == Overwrite(bank[x], val, req[p].cols)
<1>1. UNCHANGED <<dev, stripe, store, cashouts, calls, restarts, sent, raced, sure>> /\ Finish(p)
      /\ Saved(p)
  BY DEF UpdateBank, env, history
<1>2. u \in User /\ x \in RowId /\ bank[x].user = u /\ val \in sent[u] /\ val \in Row
      /\ val.user = u /\ req[p].cols \subseteq Given(val)
  BY DEF UpdateBank, At, Inv, HandlerOK, SentOK, TypeOK, Request, RowsOf
<1>3. bank' = [bank EXCEPT ![x] = row]
  BY DEF UpdateBank
<1>4. row \in Row /\ row.user = u /\ row.acct \in Accounts(u)
  <2>1. ("acct" \in req[p].cols => val.acct \in Accounts(u)) /\ bank[x].acct \in Accounts(u)
    BY <1>2 DEF Accounts, Given, Inv, RowsOK
  <2>2. bank[x] \in Row
    BY <1>2 DEF Inv, TypeOK
  <2> QED
    BY <1>2, <2>1, <2>2 DEF Row, Overwrite
<1>5. \A w \in User : RowsOf(w) \subseteq RowsOf(w)'
  BY <1>2, <1>3, <1>4 DEF RowsOf, Inv, TypeOK
<1>6. TypeOK'
  BY <1>1, <1>2, <1>3, <1>4, FinishInv, SavedType DEF Inv, TypeOK
<1>7. SentOK' /\ DestinationIsOwn'
  BY <1>1 DEF Inv, SentOK, DestinationIsOwn
<1>8. RowsOK'
  BY <1>1, <1>2, <1>3, <1>4 DEF Inv, TypeOK, RowsOK, Accounts
<1>9. (\A q \in Proc : HandlerOK(q))'
  BY <1>1, <1>5, FinishInv DEF Inv, HandlerOK, Accounts
<1>10. Kept' /\ Closed'
  BY <1>1, FinishInv DEF Inv, Kept, Closed, At
<1> QED
  BY <1>6, <1>7, <1>8, <1>9, <1>10 DEF Inv

-----------------------------------------------------------------------------
(* The gate                                                                *)
LEMMA CashoutInv ==
  ASSUME Inv, NEW p \in Proc, NEW u \in User, Cashout(p, u)
  PROVE  Inv'
<1>1. req' = [req EXCEPT ![p] = Started("bank", u)] /\ Started("bank", u) \in Request
      /\ Started("bank", u).pc = "bank" /\ Started("bank", u).u = u
  BY StartedType DEF Cashout
<1>2. UNCHANGED <<dev, stripe, store, bank, cashouts, restarts, sent, latest, raced, sure>>
      /\ calls' \in Nat /\ dev
  BY DEF Cashout, Call, env, tables, history, Inv, TypeOK, Closed
<1>3. HandlerOK(p)'
  BY <1>1 DEF HandlerOK, Inv, TypeOK
<1> QED
  BY <1>1, <1>2, <1>3, MoveInv

LEMMA HasBankInv ==
  ASSUME Inv, NEW p \in Proc, HasBank(p)
  PROVE  Inv'
<1> DEFINE r == [req[p] EXCEPT !.pc = "reread"]
<1>1. req' = [req EXCEPT ![p] = r] /\ r \in Request /\ r.pc = "reread" /\ r.u = req[p].u
      /\ req[p].pc = "bank"
  BY DEF HasBank, At, Inv, TypeOK, Request
<1>2. UNCHANGED <<dev, stripe, store, bank, cashouts, calls, restarts, sent, latest, raced, sure>>
  BY DEF HasBank, env, tables, history
<1>3. HandlerOK(p)'
  BY <1>1 DEF HandlerOK, Inv, TypeOK
<1> QED
  BY <1>1, <1>2, <1>3, MoveInv DEF Inv, TypeOK

LEMMA ReadDestinationInv ==
  ASSUME Inv, NEW p \in Proc, ReadDestination(p)
  PROVE  Inv'
<1> DEFINE r(x) == [req[p] EXCEPT !.pc = "open", !.dest = bank[x].acct]
<1>1. PICK x \in RowsOf(req[p].u) : req' = [req EXCEPT ![p] = r(x)]
  BY DEF ReadDestination, Inv, TypeOK
<1>2. req[p].u \in User /\ req[p].pc = "reread" /\ bank[x].acct \in Accounts(req[p].u) /\ x \in RowId
  BY DEF ReadDestination, At, Inv, HandlerOK, RowsOK, RowsOf
<1>3. r(x) \in Request /\ r(x).pc = "open" /\ r(x).u = req[p].u /\ r(x).dest = bank[x].acct
  <2>1. req[p] \in Request /\ bank[x] \in Row
    BY <1>2 DEF Inv, TypeOK
  <2> QED
    BY <2>1 DEF Request, Row
<1>4. UNCHANGED <<dev, stripe, store, bank, cashouts, calls, restarts, sent, latest, raced, sure>>
  BY DEF ReadDestination, env, tables, history
<1>5. HandlerOK(p)'
  <2>1. req'[p] = r(x)
    BY <1>1 DEF Inv, TypeOK
  <2> QED
    BY <1>2, <1>3, <1>4, <2>1 DEF HandlerOK, Accounts
<1> QED
  BY <1>1, <1>2, <1>3, <1>4, <1>5, MoveInv DEF Inv, TypeOK

LEMMA OpenCashoutInv ==
  ASSUME Inv, NEW p \in Proc, OpenCashout(p)
  PROVE  Inv'
<1> DEFINE u == req[p].u
<1>1. UNCHANGED <<dev, stripe, store, bank, calls, restarts, sent, latest, raced, sure>> /\ Finish(p)
  BY DEF OpenCashout, env, history
<1>2. u \in User /\ req[p].dest \in Accounts(u) /\ req[p].dest \in Account /\ dev
  BY DEF OpenCashout, At, Inv, HandlerOK, TypeOK, Row, Accounts, Closed
<1>3. cashouts' = [cashouts EXCEPT ![u] = @ \cup {req[p].dest}]
  BY DEF OpenCashout
<1>4. TypeOK'
  BY <1>1, <1>2, <1>3, FinishInv DEF Inv, TypeOK
<1>5. SentOK' /\ RowsOK' /\ (\A q \in Proc : HandlerOK(q))'
  BY <1>1, FinishInv DEF Inv, SentOK, RowsOK, HandlerOK, Accounts, RowsOf
<1>6. DestinationIsOwn'
  BY <1>1, <1>2, <1>3 DEF Inv, TypeOK, DestinationIsOwn, Accounts
<1>7. Kept' /\ Closed'
  BY <1>1, <1>2, FinishInv DEF Inv, Kept, Closed, At
<1> QED
  BY <1>4, <1>5, <1>6, <1>7 DEF Inv

LEMMA StopInv ==
  ASSUME Inv, NEW p \in Proc, Stop(p)
  PROVE  Inv'
<1>1. UNCHANGED <<dev, stripe, store, bank, cashouts, calls, restarts, sent, latest, raced, sure>> /\ Finish(p)
  BY DEF Stop, env, tables, history
<1>2. TypeOK'
  BY <1>1, FinishInv DEF Inv, TypeOK
<1>3. SentOK' /\ RowsOK' /\ (\A q \in Proc : HandlerOK(q))' /\ DestinationIsOwn'
  BY <1>1, FinishInv DEF Inv, SentOK, RowsOK, HandlerOK, DestinationIsOwn, Accounts, RowsOf
<1>4. Kept' /\ Closed'
  BY <1>1, FinishInv DEF Inv, Kept, Closed, At
<1> QED
  BY <1>2, <1>3, <1>4 DEF Inv

-----------------------------------------------------------------------------
LEMMA NextInv == ASSUME Inv, [Next]_vars PROVE Inv'
<1>1. ASSUME NEW p \in Proc, NEW u \in User, Start(p, u) \/ Cashout(p, u)
      PROVE  Inv'
  BY <1>1, StartInv, CashoutInv
<1>2. ASSUME NEW p \in Proc, NEW u \in User,
             NEW name \in Name \cup {Nobody}, NEW acct \in Account \cup {Nobody},
             SetForUser(p, u, name, acct)
      PROVE  Inv'
  BY <1>2, SetForUserInv
<1>3. ASSUME NEW u \in User, CompleteDev(u) \/ \E s \in Statuses : SetStatus(u, s)
      PROVE  Inv'
  BY <1>3, DevInv
<1>4. ASSUME NEW p \in Proc, Statement(p) \/ Stop(p) PROVE Inv'
  BY <1>4, SessionCreatedInv, InsertBankInv, SelectBankInv, UpdateBankInv, HasBankInv,
     ReadDestinationInv, OpenCashoutInv, StopInv DEF Statement
<1>5. CASE Restart
  BY <1>5, RestartInv
<1>6. CASE UNCHANGED vars
  BY <1>6 DEF vars, env, tables, history, Inv, TypeOK, SentOK, RowsOK, HandlerOK,
              DestinationIsOwn, Kept, Closed, Accounts, RowsOf, At
<1> QED
  BY <1>1, <1>2, <1>3, <1>4, <1>5, <1>6 DEF Next

(* The types, of whatever the handlers hold and the tables contain.        *)
THEOREM TypeCorrect == Spec => []TypeOK
<1>1. Inv => TypeOK
  BY DEF Inv
<1> QED
  BY <1>1, InitInv, NextInv, PTL DEF Spec

(* identity.service.ts:36, wallet.controller.ts:107: where the development *)
(* endpoints are off nobody is verified, and no cashout is opened, with or *)
(* without Stripe and however often the process restarts.                  *)
THEOREM GateShut == Spec => []ClosedWithoutDev
<1>1. Inv => ClosedWithoutDev
  BY DEF Inv, Closed, ClosedWithoutDev
<1> QED
  BY <1>1, InitInv, NextInv, PTL DEF Spec

(* identity.service.ts:36-102: start, which awaits Stripe between reading  *)
(* and writing the record, takes back no verification that was given while *)
(* no start of that user was under way.                                    *)
THEOREM VerificationKept == Spec => []VerifiedSticks
<1>1. Inv => VerifiedSticks
  BY DEF Inv, Kept, VerifiedSticks
<1> QED
  BY <1>1, InitInv, NextInv, PTL DEF Spec

(* wallet.service.ts:412: whatever submissions overlap, whichever of the   *)
(* bank rows is read and whatever is mixed in it, the destination of a     *)
(* cashout is an account that its user submitted.                          *)
THEOREM OwnDestination == Spec => []DestinationIsOwn
<1>1. Inv => DestinationIsOwn
  BY DEF Inv
<1> QED
  BY <1>1, InitInv, NextInv, PTL DEF Spec

-----------------------------------------------------------------------------
(* One submission at a time                                                *)

Submits(p, u) == req[p].pc \in {"insert", "select", "update"} /\ req[p].u = u

(* Of a user whose submissions never overlapped: one handler at most is    *)
(* at it and one row at most is there, as the finished ones said last; who *)
(* inserts found none, and who updates knows the given columns it leaves   *)
(* alone.                                                                  *)
Single(u) ==
  /\ \A p, q \in Proc : Submits(p, u) /\ Submits(q, u) => p = q
  /\ \A r, x \in RowsOf(u) : r = x
  /\ \A r \in RowsOf(u) : bank[r] = latest[u]
  /\ \A p \in Proc : At(p, "insert") /\ req[p].u = u => RowsOf(u) = {}
  /\ \A p \in Proc : At(p, "update") /\ req[p].u = u =>
       \A c \in Given(req[p].val) : c \in req[p].cols \/ bank[req[p].row][c] = req[p].val[c]

AllSingle == \A u \in User : raced[u] \/ Single(u)

LEMMA InitSingle == Init => AllSingle
BY GateAssumption DEF Init, AllSingle, Single, Submits, RowsOf, At, NoRequest, Started, NoRow

(* Steps that leave the bank rows alone and put no handler to submitting.  *)
LEMMA QuietSingle ==
  ASSUME Inv, AllSingle, UNCHANGED <<bank, latest, raced>>,
         \A p \in Proc : req'[p] = req[p] \/ req'[p].pc \notin {"insert", "select", "update"}
  PROVE  AllSingle'
<1> SUFFICES ASSUME NEW u \in User, ~raced[u] PROVE Single(u)'
  BY DEF AllSingle
<1>1. Single(u) /\ RowsOf(u)' = RowsOf(u)
  BY DEF AllSingle, RowsOf
<1>2. \A p \in Proc : Submits(p, u)' => Submits(p, u)
  BY DEF Submits
<1>3. \A p \in Proc : At(p, "insert")' \/ At(p, "update")' => req'[p] = req[p]
  BY DEF At
<1> QED
  BY <1>1, <1>2, <1>3 DEF Single, At

LEMMA SetForUserSingle ==
  ASSUME Inv, AllSingle, NEW p \in Proc, NEW w \in User,
         NEW name \in Name \cup {Nobody}, NEW acct \in Account \cup {Nobody},
         SetForUser(p, w, name, acct)
  PROVE  AllSingle'
<1> SUFFICES ASSUME NEW u \in User, ~raced'[u] PROVE Single(u)'
  BY DEF AllSingle
<1>1. UNCHANGED bank /\ RowsOf(u)' = RowsOf(u)
  BY DEF SetForUser, Submit, tables, RowsOf
<1>2. UNCHANGED latest
  BY DEF SetForUser, Submit
<1>3. ~raced[u] /\ (u = w => Submitting(u) = {})
  <2>1. raced' = [raced EXCEPT ![w] = raced[w] \/ Submitting(w) # {}]
    BY DEF SetForUser, Submit
  <2> QED
    BY <2>1, Zenon DEF Inv, TypeOK
<1>4. Single(u) /\ (\A q \in Proc : u = w => ~Submits(q, u))
  BY <1>3 DEF AllSingle, Submitting, Submits
<1>5. \A q \in Proc \ {p} : req'[q] = req[q]
  BY DEF SetForUser, Submit, Inv, TypeOK
<1>6. /\ req'[p].u = w
      /\ \/ req'[p].pc = "insert" /\ RowsOf(w) = {}
         \/ req'[p].pc = "select"
  <2>1. PICK r \in Request :
          /\ req' = [req EXCEPT ![p] = r] /\ r.u = w /\ r.val = Info(w, name, acct)
          /\ (r.pc = "insert" /\ RowsOf(w) = {}) \/ (r.pc = "select" /\ r.row \in RowsOf(w))
    BY SubmittedRequest
  <2>2. req'[p] = r
    BY <2>1 DEF Inv, TypeOK
  <2> QED
    BY <2>1, <2>2
<1>7. \A q \in Proc : Submits(q, u)' => Submits(q, u) \/ (q = p /\ u = w)
  BY <1>5, <1>6 DEF Submits
<1>8. \A q, r \in Proc : Submits(q, u)' /\ Submits(r, u)' => q = r
  BY <1>4, <1>7 DEF Single
<1>9. \A q \in Proc : At(q, "insert")' /\ req'[q].u = u => RowsOf(u)' = {}
  BY <1>1, <1>4, <1>5, <1>6 DEF Single, At
<1>10. \A q \in Proc : At(q, "update")' /\ req'[q].u = u =>
         \A c \in Given(req'[q].val) : c \in req'[q].cols \/ bank'[req'[q].row][c] = req'[q].val[c]
  BY <1>1, <1>4, <1>5, <1>6 DEF Single, At
<1> QED
  BY <1>1, <1>2, <1>4, <1>8, <1>9, <1>10 DEF Single

LEMMA SelectBankSingle ==
  ASSUME Inv, AllSingle, NEW p \in Proc, SelectBank(p)
  PROVE  AllSingle'
<1> SUFFICES ASSUME NEW u \in User, ~raced[u] PROVE Single(u)'
  BY DEF SelectBank, history, AllSingle
<1>1. UNCHANGED <<bank, latest>> /\ RowsOf(u)' = RowsOf(u) /\ Single(u)
  BY DEF SelectBank, tables, history, AllSingle, RowsOf
<1>2. /\ \A q \in Proc \ {p} : req'[q] = req[q]
      /\ req'[p] = [req[p] EXCEPT !.pc = "update",
                      !.cols = {c \in Given(req[p].val) : bank[req[p].row][c] # req[p].val[c]}]
      /\ req[p] \in Request
  BY DEF SelectBank, Inv, TypeOK
<1>3. /\ req'[p].pc = "update" /\ req'[p].u = req[p].u /\ req[p].pc = "select"
      /\ req'[p].row = req[p].row /\ req'[p].val = req[p].val
      /\ req'[p].cols = {c \in Given(req[p].val) : bank[req[p].row][c] # req[p].val[c]}
  <2> DEFINE cols == {c \in Given(req[p].val) : bank[req[p].row][c] # req[p].val[c]}
             r == [req[p] EXCEPT !.pc = "update", !.cols = cols]
  <2>1. r.pc = "update" /\ r.u = req[p].u /\ r.row = req[p].row /\ r.val = req[p].val /\ r.cols = cols
    BY <1>2 DEF Request
  <2>2. req[p].pc = "select"
    BY DEF SelectBank, At
  <2> QED
    BY <1>2, <2>1, <2>2
<1>4. \A q \in Proc : Submits(q, u)' => Submits(q, u)
  BY <1>2, <1>3 DEF Submits
<1>5. \A q \in Proc : At(q, "update")' /\ req'[q].u = u =>
        \A c \in Given(req'[q].val) : c \in req'[q].cols \/ bank'[req'[q].row][c] = req'[q].val[c]
  <2> SUFFICES ASSUME NEW q \in Proc, At(q, "update")', req'[q].u = u
               PROVE  \A c \in Given(req'[q].val) : c \in req'[q].cols \/ bank'[req'[q].row][c] = req'[q].val[c]
    OBVIOUS
  <2>1. CASE q = p
    BY <1>1, <1>3, <2>1
  <2>2. CASE q # p
    BY <1>1, <1>2, <2>2 DEF Single, At
  <2> QED
    BY <2>1, <2>2
<1>6. \A q \in Proc : At(q, "insert")' /\ req'[q].u = u => RowsOf(u)' = {}
  <2>1. \A q \in Proc : At(q, "insert")' => q # p /\ req'[q] = req[q]
    BY <1>2, <1>3 DEF At
  <2> QED
    BY <1>1, <2>1 DEF Single, At
<1> QED
  BY <1>1, <1>4, <1>5, <1>6 DEF Single

(* What a save leaves in the row is what its user said last: in a new row, *)
(* all of it; in one that was found, the given columns, those it does not  *)
(* write being what they were at the SELECT.                               *)
LEMMA SavedRow ==
  ASSUME Inv, AllSingle, NEW p \in Proc, InsertBank(p) \/ UpdateBank(p), ~raced[req[p].u]
  PROVE  \E r \in RowId :
           /\ bank' = [bank EXCEPT ![r] = latest'[req[p].u]]
           /\ latest'[req[p].u].user = req[p].u
           /\ \/ bank[r] = NoRow /\ RowsOf(req[p].u) = {}
              \/ r \in RowsOf(req[p].u)
<1> DEFINE u == req[p].u
           x == req[p].row
           val == req[p].val
<1>1. Single(u) /\ u \in User /\ val \in Row /\ val.user = u
  BY DEF AllSingle, Inv, HandlerOK, SentOK, TypeOK, Request, InsertBank, UpdateBank, At
<1>2. latest'[u] = Overwrite(latest[u], val, Given(val))
  BY <1>1 DEF InsertBank, UpdateBank, Saved, Inv, TypeOK
<1>3. latest'[u].user = u
  BY <1>1, <1>2 DEF Overwrite
<1>4. val = [user |-> val.user, name |-> val.name, acct |-> val.acct]
  BY <1>1 DEF Row
<1>5. CASE InsertBank(p)
  <2>1. latest'[u] = val
    BY <1>2, <1>4, <1>5 DEF InsertBank, Overwrite, Columns
  <2> QED
    BY <1>1, <1>3, <1>5, <2>1 DEF InsertBank, Single
<1>6. CASE UpdateBank(p)
  <2>1. At(p, "update") /\ x \in RowsOf(u) /\ x \in RowId /\ req[p].cols \subseteq Given(val)
    BY <1>6 DEF UpdateBank, Inv, HandlerOK, At, RowsOf
  <2>2. bank[x] = latest[u]
    BY <1>1, <2>1 DEF Single
  <2>3. /\ "name" \in Given(val) => "name" \in req[p].cols \/ bank[x].name = val.name
        /\ "acct" \in Given(val) => "acct" \in req[p].cols \/ bank[x].acct = val.acct
    BY <1>1, <2>1 DEF Single
  <2>4. Overwrite(bank[x], val, req[p].cols) = Overwrite(latest[u], val, Given(val))
    BY <2>1, <2>2, <2>3 DEF Overwrite
  <2>5. bank' = [bank EXCEPT ![x] = latest'[u]]
    BY <1>2, <1>6, <2>4 DEF UpdateBank
  <2> QED
    BY <1>3, <2>1, <2>5
<1> QED
  BY <1>5, <1>6

LEMMA SaveSingle ==
  ASSUME Inv, AllSingle, NEW p \in Proc, InsertBank(p) \/ UpdateBank(p)
  PROVE  AllSingle'
<1> SUFFICES ASSUME NEW u \in User, ~raced[u] PROVE Single(u)'
  BY DEF InsertBank, UpdateBank, AllSingle
<1>1. Finish(p) /\ Saved(p) /\ Single(u)
  BY DEF InsertBank, UpdateBank, AllSingle
<1>2. \A q \in Proc \ {p} : req'[q] = req[q]
  BY <1>1 DEF Finish, Inv, TypeOK
<1>3. req'[p].pc = "idle"
  BY <1>1 DEF Finish, NoRequest, Started, Inv, TypeOK
<1>4. Submits(p, req[p].u) /\ req[p].u \in User /\ req[p].val.user = req[p].u
  BY DEF InsertBank, UpdateBank, At, Submits, Inv, HandlerOK, SentOK
<1>5. CASE req[p].u = u
  <2>1. PICK r \in RowId :
          /\ bank' = [bank EXCEPT ![r] = latest'[u]]
          /\ latest'[u].user = u
          /\ \/ bank[r] = NoRow /\ RowsOf(u) = {}
             \/ r \in RowsOf(u)
    BY <1>5, SavedRow
  <2>2. RowsOf(u)' = {r} /\ bank'[r] = latest'[u]
    BY <1>1, <2>1 DEF RowsOf, Single, Inv, TypeOK
  <2>3. \A q \in Proc : ~Submits(q, u)'
    BY <1>1, <1>2, <1>3, <1>4, <1>5 DEF Single, Submits
  <2> QED
    BY <2>2, <2>3 DEF Single, Submits, At
<1>6. CASE req[p].u # u
  <2>1. PICK r \in RowId :
          /\ \A x \in RowId \ {r} : bank'[x] = bank[x]
          /\ bank[r] = NoRow \/ bank[r].user = req[p].u
          /\ bank'[r].user = req[p].u
    <3>1. CASE InsertBank(p)
      BY <1>4, <3>1 DEF InsertBank, Inv, TypeOK
    <3>2. CASE UpdateBank(p)
      <4>1. req[p].row \in RowsOf(req[p].u)
        BY <3>2 DEF UpdateBank, At, Inv, HandlerOK
      <4> QED
        BY <1>4, <3>2, <4>1 DEF UpdateBank, Overwrite, RowsOf, Inv, TypeOK
    <3> QED
      BY <3>1, <3>2
  <2>2. RowsOf(u)' = RowsOf(u) /\ \A x \in RowsOf(u) : bank'[x] = bank[x]
    BY <1>6, <2>1, GateAssumption DEF RowsOf, NoRow
  <2>3. latest'[u] = latest[u]
    BY <1>1, <1>6 DEF Saved, Inv, TypeOK
  <2>4. \A q \in Proc : Submits(q, u)' => Submits(q, u) /\ req'[q] = req[q]
    BY <1>2, <1>3 DEF Submits
  <2>5. \A q \in Proc : At(q, "update")' /\ req'[q].u = u => req[q].row \in RowsOf(u) /\ req'[q] = req[q]
    BY <1>2, <1>3 DEF At, Inv, HandlerOK
  <2> QED
    BY <1>1, <2>2, <2>3, <2>4, <2>5 DEF Single, Submits, At
<1> QED
  BY <1>5, <1>6

LEMMA NextSingle == ASSUME Inv, AllSingle, [Next]_vars PROVE AllSingle'
<1>1. ASSUME NEW p \in Proc, NEW u \in User, Start(p, u) \/ Cashout(p, u)
      PROVE  AllSingle'
  <2>1. UNCHANGED <<bank, latest, raced>>
    BY <1>1 DEF Start, Cashout, tables, history
  <2>2. UNCHANGED req \/ \E pc \in {"session", "bank"} : req' = [req EXCEPT ![p] = Started(pc, u)]
    BY <1>1 DEF Start, Cashout
  <2>3. \A q \in Proc : req'[q] = req[q] \/ req'[q].pc \notin {"insert", "select", "update"}
    BY <2>2, StartedType DEF Inv, TypeOK
  <2> QED
    BY <2>1, <2>3, QuietSingle
<1>2. ASSUME NEW p \in Proc, NEW u \in User,
             NEW name \in Name \cup {Nobody}, NEW acct \in Account \cup {Nobody},
             SetForUser(p, u, name, acct)
      PROVE  AllSingle'
  BY <1>2, SetForUserSingle
<1>3. ASSUME NEW u \in User, CompleteDev(u) \/ \E s \in Statuses : SetStatus(u, s)
      PROVE  AllSingle'
  <2>1. UNCHANGED <<bank, latest, raced, req>>
    BY <1>3 DEF CompleteDev, Complete, SetStatus, tables
  <2> QED
    BY <2>1, QuietSingle
<1>4. ASSUME NEW p \in Proc, InsertBank(p) \/ UpdateBank(p) PROVE AllSingle'
  BY <1>4, SaveSingle
<1>5. ASSUME NEW p \in Proc, SelectBank(p) PROVE AllSingle'
  BY <1>5, SelectBankSingle
<1>6. ASSUME NEW p \in Proc, SessionCreated(p) \/ OpenCashout(p) \/ Stop(p) PROVE AllSingle'
  <2>1. UNCHANGED <<bank, latest, raced>> /\ Finish(p)
    BY <1>6 DEF SessionCreated, OpenCashout, Stop, tables, history
  <2> QED
    BY <2>1, FinishInv, QuietSingle
<1>7. ASSUME NEW p \in Proc, HasBank(p) \/ ReadDestination(p) PROVE AllSingle'
  <2>1. UNCHANGED <<bank, latest, raced>>
    BY <1>7 DEF HasBank, ReadDestination, tables, history
  <2>2. req[p] \in Request /\ \A q \in Proc \ {p} : req'[q] = req[q]
    BY <1>7 DEF HasBank, ReadDestination, Inv, TypeOK
  <2>3. req'[p].pc \in {"reread", "open"}
    <3>1. CASE HasBank(p)
      BY <2>2, <3>1 DEF HasBank, Request, Inv, TypeOK
    <3>2. CASE ReadDestination(p)
      <4>1. PICK r \in RowsOf(req[p].u) :
              req' = [req EXCEPT ![p] = [req[p] EXCEPT !.pc = "open", !.dest = bank[r].acct]]
        BY <3>2 DEF ReadDestination, Inv, TypeOK
      <4> QED
        BY <2>2, <4>1 DEF Request, Inv, TypeOK
    <3> QED
      BY <1>7, <3>1, <3>2
  <2> QED
    BY <2>1, <2>2, <2>3, QuietSingle
<1>8. CASE Restart
  <2>1. UNCHANGED <<bank, latest, raced>> /\ \A q \in Proc : req'[q].pc = "idle"
    BY <1>8 DEF Restart, tables, NoRequest, Started
  <2> QED
    BY <2>1, QuietSingle
<1>9. CASE UNCHANGED vars
  BY <1>9, QuietSingle DEF vars, tables, history
<1> QED
  BY <1>1, <1>2, <1>3, <1>4, <1>5, <1>6, <1>7, <1>8, <1>9 DEF Next, Statement

(* bank-info.service.ts:28: without a unique index, with a save that       *)
(* writes only the columns that were given and differ, and with saves that *)
(* are lost on the way, a user whose submissions never overlap has at most *)
(* one row: column by column, what the finished submissions said last.     *)
THEOREM RowIsLatest == Spec => []BankRowIsLatest
<1>1. Inv /\ AllSingle => BankRowIsLatest
  <2> SUFFICES ASSUME AllSingle, NEW u \in User, ~raced[u]
               PROVE  Cardinality(RowsOf(u)) <= 1 /\ GetMyBankInfo(u) \subseteq {latest[u]}
    BY DEF BankRowIsLatest
  <2>1. Single(u)
    BY DEF AllSingle
  <2>2. RowsOf(u) = {} \/ \E r \in RowId : RowsOf(u) = {r}
    BY <2>1 DEF Single, RowsOf
  <2>3. Cardinality(RowsOf(u)) <= 1
    BY <2>2, FS_EmptySet, FS_Singleton
  <2> QED
    BY <2>1, <2>3 DEF Single, GetMyBankInfo
<1> QED
  BY <1>1, InitInv, InitSingle, NextInv, NextSingle, PTL DEF Spec
=============================================================================
