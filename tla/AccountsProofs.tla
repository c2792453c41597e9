---------------------------- MODULE AccountsProofs ----------------------------
(* Accounts, for any handlers, addresses and numbers of accounts, calls    *)
(* and deletions: what a deletion leaves behind, and which account a login *)
(* and a token are about.                                                  *)
EXTENDS Accounts, TLAPS

UniqueEmails == \A e \in Email : \A u, w \in FindByEmail(e) : u = w

(* A deleted account has a confirmed request, and no address.              *)
UserOK(u) ==
  users[u].deleted =>
    /\ users[u].row /\ users[u].email = Anon
    /\ \E d \in Did : asked[d] = [user |-> u, status |-> "CONFIRMED"]

AskOK(d) ==
  /\ asked[d].status # "none" => asked[d].user \in Uid
  /\ asked[d].status = "CONFIRMED" => users[asked[d].user].deleted

Confirms(p, d) == At(p, "commit") /\ req[p].d = d

(* What was not shared is used as often as its status says, and who is at  *)
(* it is alone and before it.                                              *)
UsedOK(d) ==
  \/ shared[d]
  \/ /\ used[d] = IF asked[d].status = "CONFIRMED" THEN 1 ELSE 0
     /\ \A p \in Proc : Confirms(p, d) => asked[d].status = "REQUESTED"
     /\ \A p, q \in Proc : Confirms(p, d) /\ Confirms(q, d) => p = q

(* The account of a token, and of a login: until it is deleted its address *)
(* is the one that was read.                                               *)
Is(u, e) == e \in Email /\ users[u].row /\ (users[u].deleted \/ users[u].email = e)

TokenOK(t) == Is(t.sub, t.email)

HandlerOK(p) ==
  /\ req[p].before \subseteq Deleted
  /\ At(p, "subject") => req[p].email \in Email
  /\ At(p, "compare") =>
       /\ req[p].id \in Uid /\ Is(req[p].id, req[p].row.email)
       /\ req[p].row.deleted \/ req[p].id \notin req[p].before
  /\ At(p, "commit") =>
       /\ req[p].id \in Uid /\ req[p].d \in Did
       /\ asked[req[p].d].user = req[p].id /\ asked[req[p].d].status # "none"

Inv ==
  /\ TypeOK
  /\ \A u \in Uid : UserOK(u)
  /\ \A d \in Did : AskOK(d) /\ UsedOK(d)
  /\ \A t \in tokens : TokenOK(t)
  /\ \A p \in Proc : HandlerOK(p)

LEMMA Values == NoUser \in User /\ NoRequest \in Request /\ NoRequest.pc = "idle" /\ NoRequest.before = {}
BY DEF NoUser, User, NoRequest, Started, Request, Role

LEMMA InitInv == Init => Inv
<1> SUFFICES ASSUME Init PROVE Inv
  OBVIOUS
<1>1. TypeOK
  BY Values DEF Init, TypeOK, NoAsk, FindByEmail, NoUser
<1>2. \A u \in Uid : UserOK(u)
  BY DEF Init, UserOK, NoUser
<1>3. \A d \in Did : AskOK(d) /\ UsedOK(d)
  BY Values DEF Init, AskOK, UsedOK, NoAsk, Confirms, At
<1>4. (\A t \in tokens : TokenOK(t)) /\ \A p \in Proc : HandlerOK(p)
  BY Values DEF Init, HandlerOK, At
<1> QED
  BY <1>1, <1>2, <1>3, <1>4 DEF Inv

-----------------------------------------------------------------------------
(* Steps that leave accounts and deletions alone                           *)

(* A handler goes on, a token appears or goes.                             *)
LEMMA MoveInv ==
  ASSUME Inv, NEW p \in Proc, NEW r \in Request, req' = [req EXCEPT ![p] = r],
         UNCHANGED <<users, asked, used, shared>>, r.pc # "commit",
         staff' \subseteq Email, tokens' \subseteq Token, calls' \in Nat,
         \A t \in tokens' : TokenOK(t), HandlerOK(p)'
  PROVE  Inv'
<1>1. TypeOK'
  BY DEF Inv, TypeOK, FindByEmail
<1>2. \A q \in Proc \ {p} : req'[q] = req[q]
  BY DEF Inv, TypeOK
<1>3. req'[p].pc # "commit"
  BY DEF Inv, TypeOK
<1>4. (\A u \in Uid : UserOK(u))' /\ (\A d \in Did : AskOK(d))'
  BY DEF Inv, UserOK, AskOK
<1>5. (\A d \in Did : UsedOK(d))'
  BY <1>2, <1>3 DEF Inv, UsedOK, Confirms, At
<1>6. (\A t \in tokens : TokenOK(t))'
  BY DEF TokenOK, Is
<1>7. (\A q \in Proc : HandlerOK(q))'
  BY <1>2 DEF Inv, HandlerOK, At, Deleted, Is
<1> QED
  BY <1>1, <1>4, <1>5, <1>6, <1>7 DEF Inv

LEMMA EnsureUserInv ==
  ASSUME Inv, NEW p \in Proc, NEW e \in Email, EnsureUser(p, e)
  PROVE  Inv'
<1> DEFINE r == Started("insert", e, "buyer", {})
<1>1. r \in Request /\ r.pc = "insert" /\ r.before = {}
  BY Values DEF Started, Request, Role
<1>2. req' = [req EXCEPT ![p] = r] /\ UNCHANGED <<users, staff, asked, tokens, used, shared>>
      /\ calls' \in Nat
  BY DEF EnsureUser, Call, Inv, TypeOK
<1>3. HandlerOK(p)'
  BY <1>1, <1>2 DEF HandlerOK, At, Inv, TypeOK
<1> QED
  BY <1>1, <1>2, <1>3, MoveInv DEF Inv, TypeOK

LEMMA LoginStaffInv ==
  ASSUME Inv, NEW p \in Proc, NEW e \in Email, LoginStaff(p, e)
  PROVE  Inv'
<1> DEFINE r == Started("subject", e, "staff", Deleted)
<1>1. r \in Request /\ r.pc = "subject" /\ r.before = Deleted /\ r.email = e
  BY Values DEF Started, Request, Role, Deleted
<1>2. req' = [req EXCEPT ![p] = r] /\ UNCHANGED <<users, staff, asked, tokens, used, shared>>
      /\ calls' \in Nat
  BY DEF LoginStaff, Call, Inv, TypeOK
<1>3. HandlerOK(p)'
  BY <1>1, <1>2 DEF HandlerOK, At, Deleted, Inv, TypeOK
<1> QED
  BY <1>1, <1>2, <1>3, MoveInv DEF Inv, TypeOK

LEMMA LoginUserInv ==
  ASSUME Inv, NEW p \in Proc, NEW e \in Email, NEW role \in Role, LoginUser(p, e, role)
  PROVE  Inv'
<1> DEFINE r(u) == [Started("compare", e, role, Deleted) EXCEPT !.id = u, !.row = users[u]]
<1>1. PICK u \in FindByEmail(e) : req' = [req EXCEPT ![p] = r(u)]
  BY DEF LoginUser
<1>2. u \in Uid /\ users[u] \in User /\ users[u].row /\ users[u].email = e
  BY DEF FindByEmail, Inv, TypeOK
<1>3. /\ r(u) \in Request /\ r(u).pc = "compare" /\ r(u).before = Deleted
      /\ r(u).id = u /\ r(u).row = users[u]
  BY <1>2 DEF Started, Request, Deleted
<1>4. UNCHANGED <<users, staff, asked, tokens, used, shared>> /\ calls' \in Nat
  BY DEF LoginUser, Call, Inv, TypeOK
<1>5. HandlerOK(p)'
  <2>1. req'[p] = r(u)
    BY <1>1 DEF Inv, TypeOK
  <2> QED
    BY <1>2, <1>3, <1>4, <2>1 DEF HandlerOK, At, Deleted, Is
<1>6. staff' \subseteq Email /\ tokens' \subseteq Token /\ \A t \in tokens' : TokenOK(t)
  BY <1>4 DEF Inv, TypeOK
<1> HIDE DEF r
<1> QED
  BY <1>1, <1>3, <1>4, <1>5, <1>6, MoveInv

(* What ends a login, or any call.                                         *)
LEMMA EndInv ==
  ASSUME Inv, NEW p \in Proc, CheckUserPassword(p) \/ StaffSubject(p) \/ Stop(p)
  PROVE  Inv'
<1>1. req' = [req EXCEPT ![p] = NoRequest] /\ UNCHANGED <<users, staff, asked, calls, used, shared>>
  BY DEF CheckUserPassword, StaffSubject, Stop, Finish
<1>2. HandlerOK(p)'
  BY <1>1, Values DEF HandlerOK, At, Inv, TypeOK
<1>3. tokens' \subseteq Token /\ \A t \in tokens' : TokenOK(t)
  <2>1. CASE CheckUserPassword(p)
    <3> DEFINE t == [sub |-> req[p].id, email |-> req[p].row.email, role |-> req[p].role]
    <3>1. tokens' = tokens \cup {t} /\ Is(req[p].id, req[p].row.email) /\ req[p].id \in Uid
          /\ req[p].role \in Role
      BY <2>1 DEF CheckUserPassword, SignToken, Inv, HandlerOK, TypeOK, Request
    <3>2. t \in Token /\ TokenOK(t)
      BY <3>1 DEF Token, TokenOK, Is
    <3> QED
      BY <3>1, <3>2 DEF Inv, TypeOK
  <2>2. CASE StaffSubject(p)
    <3> DEFINE t(u) == [sub |-> u, email |-> req[p].email, role |-> "staff"]
    <3>1. PICK u \in FindByEmail(req[p].email) : tokens' = tokens \cup {t(u)}
      BY <2>2 DEF StaffSubject, SignToken
    <3>2. t(u) \in Token /\ TokenOK(t(u))
      BY <2>2 DEF StaffSubject, FindByEmail, Token, Role, TokenOK, Is, Inv, HandlerOK
    <3> QED
      BY <3>1, <3>2 DEF Inv, TypeOK
  <2>3. CASE Stop(p)
    BY <2>3 DEF Stop, Inv, TypeOK
  <2> QED
    BY <2>1, <2>2, <2>3
<1> QED
  BY <1>1, <1>2, <1>3, Values, MoveInv DEF Inv, TypeOK

(* A token expires, or a staff row appears.                                *)
LEMMA ApartInv ==
  ASSUME Inv, (\E t \in Token : Expire(t)) \/ (\E e \in Email : SeedStaff(e)) \/ UNCHANGED vars
  PROVE  Inv'
<1>1. UNCHANGED <<users, asked, req, used, shared>> /\ tokens' \subseteq tokens
      /\ staff' \subseteq Email /\ calls' \in Nat
  BY DEF Expire, SeedStaff, vars, Inv, TypeOK
<1>2. TypeOK'
  BY <1>1 DEF Inv, TypeOK, FindByEmail
<1> QED
  BY <1>1, <1>2 DEF Inv, UserOK, AskOK, UsedOK, Confirms, At, TokenOK, Is, HandlerOK, Deleted

-----------------------------------------------------------------------------
(* Accounts                                                                *)

(* An account that is there keeps its address until it is deleted, and     *)
(* stays deleted.                                                          *)
AccountsKept ==
  \A u \in Uid : users[u].row =>
    /\ users'[u].row
    /\ users[u].deleted => users'[u].deleted
    /\ users'[u].deleted \/ users'[u].email = users[u].email

LEMMA IsKept ==
  ASSUME AccountsKept, NEW u \in Uid, NEW e, Is(u, e)
  PROVE  Is(u, e)'
BY DEF AccountsKept, Is

LEMMA CreateUserInv ==
  ASSUME Inv, NEW p \in Proc, CreateUser(p)
  PROVE  Inv'
<1> DEFINE new == [email |-> req[p].email, known |-> TRUE, deleted |-> FALSE, row |-> TRUE]
<1>1. UNCHANGED <<staff, asked, tokens, calls, used, shared>> /\ req' = [req EXCEPT ![p] = NoRequest]
      /\ FindByEmail(req[p].email) = {}
  BY DEF CreateUser, Finish
<1>2. PICK u \in Uid : ~users[u].row /\ users' = [users EXCEPT ![u] = new]
  BY DEF CreateUser
<1>3. new \in User /\ req' \in [Proc -> Request] /\ (\A q \in Proc : req'[q] = req[q] \/ req'[q] = NoRequest)
  BY <1>1, Values DEF User, Inv, TypeOK, Request
<1>4. AccountsKept /\ ~users[u].deleted /\ ~users'[u].deleted
      /\ (\A w \in Uid \ {u} : users'[w] = users[w])
  BY <1>2 DEF AccountsKept, Inv, TypeOK, UserOK
<1>5. UniqueEmails'
  <2> SUFFICES ASSUME NEW e \in Email, NEW v \in FindByEmail(e)', NEW w \in FindByEmail(e)'
               PROVE  v = w
    BY DEF UniqueEmails
  <2>1. v \in FindByEmail(e) \/ (v = u /\ e = req[p].email)
    BY <1>2, <1>4 DEF FindByEmail, Inv, TypeOK
  <2>2. w \in FindByEmail(e) \/ (w = u /\ e = req[p].email)
    BY <1>2, <1>4 DEF FindByEmail, Inv, TypeOK
  <2> QED
    BY <1>1, <2>1, <2>2 DEF Inv, TypeOK
<1>6. TypeOK'
  BY <1>1, <1>2, <1>3, <1>5 DEF Inv, TypeOK, UniqueEmails
<1>7. (\A w \in Uid : UserOK(w))' /\ (\A d \in Did : AskOK(d))'
  BY <1>1, <1>4 DEF Inv, UserOK, AskOK
<1>8. (\A d \in Did : UsedOK(d))'
  BY <1>1, <1>3, Values DEF Inv, UsedOK, Confirms, At
<1>9. (\A t \in tokens : TokenOK(t))'
  BY <1>1, <1>4, IsKept DEF Inv, TokenOK, TypeOK, Token
<1>10. (\A q \in Proc : HandlerOK(q))'
  <2>1. Deleted \subseteq Deleted'
    BY <1>4 DEF Deleted
  <2> SUFFICES ASSUME NEW q \in Proc PROVE HandlerOK(q)'
    OBVIOUS
  <2>2. CASE req'[q] = NoRequest
    BY <2>2, Values DEF HandlerOK, At
  <2>3. CASE req'[q] = req[q]
    BY <1>1, <1>4, <2>1, <2>3, IsKept DEF Inv, HandlerOK, At
  <2> QED
    BY <1>3, <2>2, <2>3
<1> QED
  BY <1>6, <1>7, <1>8, <1>9, <1>10 DEF Inv

-----------------------------------------------------------------------------
(* Deletions                                                               *)

LEMMA RequestDeletionInv ==
  ASSUME Inv, NEW t \in Token, RequestDeletion(t)
  PROVE  Inv'
<1>1. UNCHANGED <<users, staff, tokens, req, used, shared>> /\ calls' \in Nat /\ t.sub \in Uid
  BY DEF RequestDeletion, Inv, TypeOK, Token
<1>2. PICK d \in Did : /\ asked[d] = NoAsk
                       /\ asked' = [asked EXCEPT ![d] = [user |-> t.sub, status |-> "REQUESTED"]]
  BY DEF RequestDeletion, Holder
<1>3. asked[d].status = "none" /\ \A n \in Did \ {d} : asked'[n] = asked[n]
  BY <1>2 DEF NoAsk, Inv, TypeOK
<1>4. asked'[d].user = t.sub /\ asked'[d].status = "REQUESTED"
  BY <1>2 DEF Inv, TypeOK
<1>5. TypeOK'
  BY <1>1, <1>2 DEF Inv, TypeOK, FindByEmail
<1>6. (\A u \in Uid : UserOK(u))' /\ (\A n \in Did : AskOK(n))'
  BY <1>1, <1>3, <1>4 DEF Inv, UserOK, AskOK
<1>7. (\A n \in Did : UsedOK(n))'
  BY <1>1, <1>3, <1>4 DEF Inv, UsedOK, Confirms, At
<1>8. (\A s \in tokens : TokenOK(s))' /\ (\A q \in Proc : HandlerOK(q))'
  BY <1>1, <1>3 DEF Inv, TokenOK, HandlerOK, Is, At, Deleted
<1> QED
  BY <1>5, <1>6, <1>7, <1>8 DEF Inv

(* A second handler at the same request makes it shared.                   *)
LEMMA ConfirmDeletionInv ==
  ASSUME Inv, NEW p \in Proc, NEW t \in Token, NEW d \in Did, ConfirmDeletion(p, t, d)
  PROVE  Inv'
<1> DEFINE r == [Started("commit", t.email, t.role, Deleted) EXCEPT !.id = t.sub, !.d = d]
<1>1. UNCHANGED <<users, staff, asked, tokens, used>> /\ calls' \in Nat
      /\ asked[d].user = t.sub /\ asked[d].status = "REQUESTED"
  BY DEF ConfirmDeletion, Call, Holder, Inv, TypeOK
<1>2. req' = [req EXCEPT ![p] = r]
  BY DEF ConfirmDeletion, Holder
<1>3. /\ r \in Request /\ r.pc = "commit" /\ r.before = Deleted /\ r.id = t.sub /\ r.d = d
      /\ t.sub \in Uid
  BY Values DEF Started, Request, Token, Deleted
<1>4. req'[p] = r /\ req' \in [Proc -> Request] /\ \A q \in Proc \ {p} : req'[q] = req[q]
  BY <1>2, <1>3 DEF Inv, TypeOK
<1> HIDE DEF r
<1>5. shared' = [shared EXCEPT ![d] = shared[d] \/ \E q \in Proc : At(q, "commit") /\ req[q].d = d]
  BY DEF ConfirmDeletion
<1>6. shared' \in [Did -> BOOLEAN] /\ (\A n \in Did \ {d} : shared'[n] = shared[n])
      /\ (~shared'[d] => ~shared[d] /\ \A q \in Proc : ~Confirms(q, d))
  <2>1. (shared[d] \/ \E q \in Proc : At(q, "commit") /\ req[q].d = d) \in BOOLEAN
    OBVIOUS
  <2> QED
    BY <1>5, <2>1, Zenon DEF Inv, TypeOK, Confirms
<1>7. TypeOK'
  BY <1>1, <1>4, <1>6 DEF Inv, TypeOK, FindByEmail
<1>8. (\A u \in Uid : UserOK(u))' /\ (\A n \in Did : AskOK(n))'
  BY <1>1 DEF Inv, UserOK, AskOK
<1>9. (\A n \in Did : UsedOK(n))'
  <2> SUFFICES ASSUME NEW n \in Did, ~shared'[n] PROVE UsedOK(n)'
    BY DEF UsedOK
  <2>1. CASE n = d
    BY <1>1, <1>3, <1>4, <1>6, <2>1 DEF Inv, UsedOK, Confirms, At
  <2>2. CASE n # d
    BY <1>1, <1>3, <1>4, <1>6, <2>2 DEF Inv, UsedOK, Confirms, At
  <2> QED
    BY <2>1, <2>2
<1>10. (\A s \in tokens : TokenOK(s))'
  BY <1>1 DEF Inv, TokenOK, Is
<1>11. (\A q \in Proc : HandlerOK(q))'
  BY <1>1, <1>3, <1>4 DEF Inv, HandlerOK, Is, At, Deleted
<1> QED
  BY <1>7, <1>8, <1>9, <1>10, <1>11 DEF Inv

LEMMA CommitDeletionInv ==
  ASSUME Inv, NEW p \in Proc, CommitDeletion(p)
  PROVE  Inv'
<1> DEFINE u == req[p].id
           d == req[p].d
<1>1. UNCHANGED <<staff, tokens, calls, shared>> /\ req' = [req EXCEPT ![p] = NoRequest]
      /\ users' = [users EXCEPT ![u] = Scrubbed] /\ used' = [used EXCEPT ![d] = @ + 1]
      /\ asked' = [asked EXCEPT ![d].status = "CONFIRMED"]
  BY DEF CommitDeletion, Scrub, Finish
<1>2. u \in Uid /\ d \in Did /\ asked[d].user = u /\ asked[d].status # "none" /\ Confirms(p, d)
  BY DEF CommitDeletion, At, Confirms, Inv, HandlerOK
<1>3. Scrubbed \in User /\ Scrubbed.deleted /\ Scrubbed.row /\ Scrubbed.email = Anon
  BY DEF Scrubbed, User
<1>4. /\ asked'[d] = [user |-> u, status |-> "CONFIRMED"]
      /\ \A n \in Did \ {d} : asked'[n] = asked[n]
      /\ asked' \in [Did -> [user : {0} \cup Uid, status : {"none", "REQUESTED", "CONFIRMED"}]]
  BY <1>1, <1>2 DEF Inv, TypeOK
<1>5. /\ users'[u] = Scrubbed /\ \A w \in Uid \ {u} : users'[w] = users[w]
      /\ users' \in [Uid -> User]
  BY <1>1, <1>2, <1>3 DEF Inv, TypeOK
<1>6. /\ req' \in [Proc -> Request] /\ req'[p] = NoRequest
      /\ \A q \in Proc \ {p} : req'[q] = req[q]
  BY <1>1, Values DEF Inv, TypeOK
<1>7. AccountsKept
  BY <1>3, <1>5 DEF AccountsKept
<1>8. TypeOK'
  <2>1. used' \in [Did -> Nat]
    BY <1>1, <1>2 DEF Inv, TypeOK
  <2>2. UniqueEmails'
    <3>1. \A e \in Email : FindByEmail(e)' \subseteq FindByEmail(e)
      BY <1>3, <1>5, AccountsAssumption DEF FindByEmail
    <3> QED
      BY <3>1 DEF UniqueEmails, Inv, TypeOK
  <2> QED
    BY <1>1, <1>4, <1>5, <1>6, <2>1, <2>2 DEF Inv, TypeOK, UniqueEmails
<1>9. (\A w \in Uid : UserOK(w))'
  <2> SUFFICES ASSUME NEW w \in Uid, users'[w].deleted PROVE UserOK(w)'
    BY DEF UserOK
  <2>1. CASE w = u
    BY <1>2, <1>3, <1>4, <1>5, <2>1 DEF UserOK
  <2>2. CASE w # u
    <3>1. PICK n \in Did : asked[n] = [user |-> w, status |-> "CONFIRMED"]
      BY <1>5, <2>2 DEF Inv, UserOK
    <3>2. n # d
      BY <1>2, <2>2, <3>1
    <3> QED
      BY <1>4, <1>5, <2>2, <3>1, <3>2 DEF Inv, UserOK
  <2> QED
    BY <2>1, <2>2
<1>10. (\A n \in Did : AskOK(n))'
  BY <1>2, <1>3, <1>4, <1>5 DEF Inv, AskOK
<1>11. (\A n \in Did : UsedOK(n))'
  <2> SUFFICES ASSUME NEW n \in Did, ~shared[n] PROVE UsedOK(n)'
    BY <1>1 DEF UsedOK
  <2>1. \A q \in Proc : Confirms(q, n)' => q # p /\ Confirms(q, n)
    BY <1>6, Values DEF Confirms, At
  <2>2. CASE n = d
    BY <1>1, <1>2, <1>4, <2>1, <2>2 DEF Inv, TypeOK, UsedOK
  <2>3. CASE n # d
    BY <1>1, <1>4, <2>1, <2>3 DEF Inv, TypeOK, UsedOK
  <2> QED
    BY <2>2, <2>3
<1>12. (\A t \in tokens : TokenOK(t))'
  BY <1>1, <1>7, IsKept DEF Inv, TokenOK, TypeOK, Token
<1>13. (\A q \in Proc : HandlerOK(q))'
  <2>1. Deleted \subseteq Deleted'
    BY <1>3, <1>5 DEF Deleted
  <2> SUFFICES ASSUME NEW q \in Proc PROVE HandlerOK(q)'
    OBVIOUS
  <2>2. CASE q = p
    BY <1>6, <2>2, Values DEF HandlerOK, At
  <2>3. CASE q # p
    <3>1. req'[q] = req[q] /\ HandlerOK(q)
      BY <1>6, <2>3 DEF Inv
    <3>2. At(q, "commit") => asked'[req[q].d].user = req[q].id /\ asked'[req[q].d].status # "none"
      BY <1>2, <1>4, <3>1 DEF HandlerOK
    <3>3. At(q, "compare") => Is(req[q].id, req[q].row.email)'
      BY <1>7, <3>1, IsKept DEF HandlerOK
    <3> QED
      BY <2>1, <3>1, <3>2, <3>3 DEF HandlerOK, At
  <2> QED
    BY <2>2, <2>3
<1> QED
  BY <1>8, <1>9, <1>10, <1>11, <1>12, <1>13 DEF Inv

-----------------------------------------------------------------------------
LEMMA NextInv == ASSUME Inv, [Next]_vars PROVE Inv'
<1>1. ASSUME NEW p \in Proc, NEW e \in Email, EnsureUser(p, e) \/ LoginStaff(p, e)
      PROVE  Inv'
  BY <1>1, EnsureUserInv, LoginStaffInv
<1>2. ASSUME NEW p \in Proc, NEW e \in Email, NEW role \in Role, LoginUser(p, e, role)
      PROVE  Inv'
  BY <1>2, LoginUserInv
<1>3. ASSUME NEW t \in Token, RequestDeletion(t) PROVE Inv'
  BY <1>3, RequestDeletionInv
<1>4. ASSUME NEW p \in Proc, NEW t \in Token, NEW d \in Did, ConfirmDeletion(p, t, d)
      PROVE  Inv'
  BY <1>4, ConfirmDeletionInv
<1>5. ASSUME NEW p \in Proc,
             CreateUser(p) \/ CheckUserPassword(p) \/ StaffSubject(p) \/ CommitDeletion(p) \/ Stop(p)
      PROVE  Inv'
  BY <1>5, CreateUserInv, EndInv, CommitDeletionInv
<1>6. CASE (\E t \in Token : Expire(t)) \/ (\E e \in Email : SeedStaff(e)) \/ UNCHANGED vars
  BY <1>6, ApartInv
<1> QED
  BY <1>1, <1>2, <1>3, <1>4, <1>5, <1>6 DEF Next

(* The types, and that an address is of one account at a time.             *)
THEOREM TypeCorrect == Spec => []TypeOK
<1>1. Inv => TypeOK
  BY DEF Inv
<1> QED
  BY <1>1, InitInv, NextInv, PTL DEF Spec

(* account-deletion.service.ts:36: although the status of a request is     *)
(* read before the transaction, accounts are deleted by their own request  *)
(* and by nothing else, their address is free then, and a request is used  *)
(* up once unless two confirmations held it at the same time.              *)
THEOREM DeletionByRequest == Spec => []DeletedByRequest
<1>1. Inv => DeletedByRequest
  <2> SUFFICES ASSUME Inv PROVE DeletedByRequest
    OBVIOUS
  <2>1. ASSUME NEW u \in Uid, users[u].deleted
        PROVE  /\ \E d \in Did : asked[d] = [user |-> u, status |-> "CONFIRMED"]
               /\ \A e \in Email : u \notin FindByEmail(e)
    BY <2>1, AccountsAssumption DEF Inv, UserOK, FindByEmail
  <2>2. ASSUME NEW d \in Did
        PROVE  /\ asked[d].status = "CONFIRMED" => users[asked[d].user].deleted
               /\ used[d] <= 1 \/ shared[d]
    BY DEF Inv, AskOK, UsedOK
  <2> QED
    BY <2>1, <2>2 DEF DeletedByRequest
<1> QED
  BY <1>1, InitInv, NextInv, PTL DEF Spec

(* users.controller.ts:21, auth.controller.ts:52: the account found by the *)
(* email of a token is the one of its id, as long as that is not deleted.  *)
THEOREM PagesAgree == Spec => []MeIsMine
<1>1. Inv => MeIsMine
  <2> SUFFICES ASSUME Inv, NEW t \in tokens, ~users[t.sub].deleted
               PROVE  GetMe(t) \subseteq {t.sub}
    BY DEF MeIsMine, Me
  <2>1. t \in Token /\ t.sub \in Uid /\ t.sub \in FindByEmail(t.email) /\ t.email \in Email
    BY DEF Inv, TypeOK, Token, TokenOK, Is, FindByEmail
  <2> QED
    BY <2>1 DEF Inv, TypeOK, GetMe
<1> QED
  BY <1>1, InitInv, NextInv, PTL DEF Spec

(* auth.service.ts:36-122: a login that begins after the deletion of an    *)
(* account yields no token for it, although the check is made on what was  *)
(* read before bcrypt, and that of staff is not made at all.               *)
THEOREM DeletedStaysOut == Spec => NoLateLogin
<1> DEFINE Early == \A t \in tokens' \ tokens : \E p \in Proc :
                      req[p].pc \in {"compare", "subject"} /\ t.sub \notin req[p].before
<1>1. ASSUME Inv, [Next]_vars PROVE [Early]_vars
  <2>1. ASSUME NEW p \in Proc, CheckUserPassword(p) PROVE Early
    <3>1. \A t \in tokens' \ tokens : t.sub = req[p].id
      BY <2>1 DEF CheckUserPassword, SignToken
    <3>2. req[p].pc = "compare" /\ req[p].id \notin req[p].before
      BY <1>1, <2>1 DEF CheckUserPassword, At, Inv, HandlerOK
    <3> QED
      BY <3>1, <3>2
  <2>2. ASSUME NEW p \in Proc, StaffSubject(p) PROVE Early
    <3>1. \A t \in tokens' \ tokens : t.sub \in FindByEmail(req[p].email)
      BY <2>2 DEF StaffSubject, SignToken
    <3>2. req[p].pc = "subject" /\ req[p].email \in Email /\ req[p].before \subseteq Deleted
      BY <1>1, <2>2 DEF StaffSubject, At, Inv, HandlerOK
    <3>3. \A u \in FindByEmail(req[p].email) : u \notin Deleted
      BY <1>1, <3>2, AccountsAssumption DEF FindByEmail, Deleted, Inv, UserOK
    <3> QED
      BY <3>1, <3>2, <3>3
  <2>3. CASE UNCHANGED tokens \/ \E t \in Token : Expire(t)
    BY <2>3 DEF Expire
  <2>4. CASE UNCHANGED vars
    BY <2>4
  <2> QED
    BY <1>1, <2>1, <2>2, <2>3, <2>4
       DEF Next, SeedStaff, EnsureUser, LoginStaff, LoginUser, RequestDeletion, ConfirmDeletion,
           CreateUser, CommitDeletion, Scrub, Stop
<1> QED
  BY <1>1, InitInv, NextInv, PTL DEF Spec, NoLateLogin
=============================================================================
