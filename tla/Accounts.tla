------------------------------- MODULE Accounts -------------------------------
(***************************************************************************)
(* Accounts: logging in (AuthService), creating accounts (UsersService,    *)
(* which only the development seeds call) and deleting them                *)
(* (AccountDeletionService).                                               *)
(*                                                                         *)
(* A login awaits bcrypt between reading a row and using it.  A token is   *)
(* believed for seven days without a look at the database (JwtStrategy);   *)
(* what it carries is the id, the email and the role of the login route.   *)
(* Staff are two rows: one of staff with the password and the venue, one   *)
(* of users, found by the same email, with the id the token carries.       *)
(***************************************************************************)
EXTENDS Integers

CONSTANTS
  Proc,       \* handlers in flight
  Email,      \* addresses people log in with
  Anon,       \* deleted+<id>+<random>@tabz.app, with which nobody logs in
  MaxUsers,   \* bound: accounts created
  MaxAsked,   \* bound: deletions requested
  MaxCalls    \* bound: calls made

ASSUME AccountsAssumption ==
  /\ Anon \notin Email
  /\ MaxUsers \in Nat /\ MaxAsked \in Nat /\ MaxCalls \in Nat

Uid == 1..MaxUsers
Did == 1..MaxAsked
Role == {"buyer", "owner", "staff"}

VARIABLES
  users,   \* id -> users row
  staff,   \* the emails of the staff table
  asked,   \* id -> account_deletion_requests row
  tokens,  \* the tokens that have not expired
  req,     \* handler -> where it is and what it holds
  calls,   \* calls made so far
  used,    \* history: deletion request -> times it was confirmed
  shared   \* history: deletion request -> two confirmations held it at once

vars == <<users, staff, asked, tokens, req, calls, used, shared>>

(* known: somebody knows the password; a deletion replaces it.             *)
NoUser == [email |-> Anon, known |-> FALSE, deleted |-> FALSE, row |-> FALSE]
NoAsk == [user |-> 0, status |-> "none"]

Token == [sub : Uid, email : Email, role : Role]

(* pc: the next statement; row, id: the users row that was read; d: the    *)
(* deletion request; before: the accounts deleted when the call came.      *)
Started(pc, email, role, before) ==
  [pc |-> pc, email |-> email, role |-> role, id |-> 0, row |-> NoUser, d |-> 0, before |-> before]

NoRequest == Started("idle", Anon, "buyer", {})

Init ==
  /\ users = [u \in Uid |-> NoUser]
  /\ staff = {}
  /\ asked = [d \in Did |-> NoAsk]
  /\ tokens = {}
  /\ req = [p \in Proc |-> NoRequest]
  /\ calls = 0
  /\ used = [d \in Did |-> 0]
  /\ shared = [d \in Did |-> FALSE]

At(p, pc) == req[p].pc = pc

Deleted == {u \in Uid : users[u].deleted}

(* findByEmail; users.email is unique.                                     *)
FindByEmail(e) == {u \in Uid : users[u].row /\ users[u].email = e}

(* staff.email is unique as well: the row of an address is the address.    *)
IsStaff(e) == e \in staff

(* What the guard of a route lets through.                                 *)
Authenticated(t) == t \in tokens

Call(p) ==
  /\ At(p, "idle") /\ calls < MaxCalls
  /\ calls' = calls + 1

Finish(p) == req' = [req EXCEPT ![p] = NoRequest]

-----------------------------------------------------------------------------
(* Creating accounts                                                       *)

(* ensureUser: an account that is found is the answer.                     *)
EnsureUser(p, e) ==
  /\ Call(p)
  /\ FindByEmail(e) = {}
  /\ req' = [req EXCEPT ![p] = Started("insert", e, "buyer", {})]
  /\ UNCHANGED <<users, staff, asked, tokens, used, shared>>

(* Mutant: no unique index. *)
CreateUserAgain(p) ==
  /\ At(p, "insert")
  /\ \E u \in Uid :
       /\ ~users[u].row
       /\ users' = [users EXCEPT ![u] =
            [email |-> req[p].email, known |-> TRUE, deleted |-> FALSE, row |-> TRUE]]
  /\ Finish(p)
  /\ UNCHANGED <<staff, asked, tokens, calls, used, shared>>

(* createUser: bcrypt, then an INSERT that the unique index may refuse;    *)
(* the second try of ensureUser passes an object and fails as well (Stop). *)
CreateUser(p) ==
  /\ At(p, "insert")
  /\ FindByEmail(req[p].email) = {}
  /\ \E u \in Uid :
       /\ ~users[u].row
       /\ \A w \in Uid : w < u => users[w].row
       /\ users' = [users EXCEPT ![u] =
            [email |-> req[p].email, known |-> TRUE, deleted |-> FALSE, row |-> TRUE]]
  /\ Finish(p)
  /\ UNCHANGED <<staff, asked, tokens, calls, used, shared>>

(* seedStaff, past ensureUser: the staff row of the address is inserted,   *)
(* or its password set anew.                                               *)
SeedStaff(e) ==
  /\ calls < MaxCalls
  /\ FindByEmail(e) # {} /\ ~IsStaff(e)
  /\ staff' = staff \cup {e}
  /\ calls' = calls + 1
  /\ UNCHANGED <<users, asked, tokens, req, used, shared>>

-----------------------------------------------------------------------------
(* Logging in                                                              *)

(* validateUser reads the account; the role is that of the route (login    *)
(* tries it as a buyer).                                                   *)
LoginUser(p, e, role) ==
  /\ role # "staff"
  /\ Call(p)
  /\ \E u \in FindByEmail(e) :
       req' = [req EXCEPT ![p] = [Started("compare", e, role, Deleted) EXCEPT
                 !.id = u, !.row = users[u]]]
  /\ UNCHANGED <<users, staff, asked, tokens, used, shared>>

(* validateStaff reads the staff row.                                      *)
LoginStaff(p, e) ==
  /\ Call(p)
  /\ IsStaff(e)
  /\ req' = [req EXCEPT ![p] = Started("subject", e, "staff", Deleted)]
  /\ UNCHANGED <<users, staff, asked, tokens, used, shared>>

SignToken(u, e, role) == tokens' = tokens \cup {[sub |-> u, email |-> e, role |-> role]}

(* After bcrypt: the password of the row that was read, and its deletedAt. *)
CheckUserPassword(p) ==
  /\ At(p, "compare")
  /\ req[p].row.known /\ ~req[p].row.deleted
  /\ SignToken(req[p].id, req[p].row.email, req[p].role)
  /\ Finish(p)
  /\ UNCHANGED <<users, staff, asked, calls, used, shared>>

(* Mutant: the id of the staff row in the token. *)
StaffSubjectById(p) ==
  /\ At(p, "subject")
  /\ FindByEmail(req[p].email) # {}
  /\ SignToken(1, req[p].email, "staff")
  /\ Finish(p)
  /\ UNCHANGED <<users, staff, asked, calls, used, shared>>

(* After bcrypt: the account with the email of the staff row.  Nothing     *)
(* looks at its deletedAt.                                                 *)
StaffSubject(p) ==
  /\ At(p, "subject")
  /\ \E u \in FindByEmail(req[p].email) : SignToken(u, req[p].email, "staff")
  /\ Finish(p)
  /\ UNCHANGED <<users, staff, asked, calls, used, shared>>

(* Mutant: the tokens of staff never expire. *)
ExpireOthers(t) ==
  /\ t \in tokens /\ t.role # "staff"
  /\ tokens' = tokens \ {t}
  /\ UNCHANGED <<users, staff, asked, req, calls, used, shared>>

(* Seven days later.                                                       *)
Expire(t) ==
  /\ t \in tokens
  /\ tokens' = tokens \ {t}
  /\ UNCHANGED <<users, staff, asked, req, calls, used, shared>>

-----------------------------------------------------------------------------
(* Deleting accounts                                                       *)

(* The account a deletion is about: the one of the token.                  *)
Holder(t) == t.sub

(* A token holder asks; the answer has the confirmation token.             *)
RequestDeletion(t) ==
  /\ calls < MaxCalls /\ Authenticated(t)
  /\ \E d \in Did :
       /\ asked[d] = NoAsk
       /\ \A n \in Did : n < d => asked[n] # NoAsk
       /\ asked' = [asked EXCEPT ![d] = [user |-> Holder(t), status |-> "REQUESTED"]]
  /\ calls' = calls + 1
  /\ UNCHANGED <<users, staff, tokens, req, used, shared>>

(* The checks of confirmDeletion, before bcrypt and outside the            *)
(* transaction: the holder's own request, not used yet.                    *)
ConfirmDeletion(p, t, d) ==
  /\ Call(p) /\ Authenticated(t)
  /\ asked[d].user = Holder(t) /\ asked[d].status = "REQUESTED"
  /\ req' = [req EXCEPT ![p] = [Started("commit", t.email, t.role, Deleted) EXCEPT
               !.id = Holder(t), !.d = d]]
  /\ shared' = [shared EXCEPT ![d] = @ \/ \E q \in Proc : At(q, "commit") /\ req[q].d = d]
  /\ UNCHANGED <<users, staff, asked, tokens, used>>

Scrub(p, row) ==
  /\ users' = [users EXCEPT ![req[p].id] = row]
  /\ used' = [used EXCEPT ![req[p].d] = @ + 1]
  /\ Finish(p)
  /\ UNCHANGED <<staff, tokens, calls, shared>>

Scrubbed == [email |-> Anon, known |-> FALSE, deleted |-> TRUE, row |-> TRUE]

(* Mutant: the email is kept. *)
CommitKeepingEmail(p) ==
  /\ At(p, "commit")
  /\ Scrub(p, [Scrubbed EXCEPT !.email = req[p].email])
  /\ asked' = [asked EXCEPT ![req[p].d].status = "CONFIRMED"]

(* Mutant: the request stays as it is. *)
CommitUnused(p) == At(p, "commit") /\ Scrub(p, Scrubbed) /\ UNCHANGED asked

(* One transaction: the account is marked, its email and password go, and  *)
(* the request is used up.                                                 *)
CommitDeletion(p) ==
  /\ At(p, "commit")
  /\ Scrub(p, Scrubbed)
  /\ asked' = [asked EXCEPT ![req[p].d].status = "CONFIRMED"]

(* A wrong password, another exception, or the process stops.              *)
Stop(p) ==
  /\ ~At(p, "idle")
  /\ Finish(p)
  /\ UNCHANGED <<users, staff, asked, tokens, calls, used, shared>>

Next ==
  \/ \E e \in Email : SeedStaff(e)
  \/ \E p \in Proc, e \in Email : EnsureUser(p, e) \/ LoginStaff(p, e)
  \/ \E p \in Proc, e \in Email, role \in Role : LoginUser(p, e, role)
  \/ \E t \in Token : RequestDeletion(t) \/ Expire(t)
  \/ \E p \in Proc, t \in Token, d \in Did : ConfirmDeletion(p, t, d)
  \/ \E p \in Proc : CreateUser(p) \/ CheckUserPassword(p) \/ StaffSubject(p)
                       \/ CommitDeletion(p) \/ Stop(p)

Spec == Init /\ [][Next]_vars

(* Time passes: every token expires.  Nothing else is assumed to happen.   *)
FairSpec == Spec /\ \A t \in Token : WF_vars(Expire(t))

-----------------------------------------------------------------------------
(* The two pages of who is logged in: GET /users/me, the accounts that it  *)
(* may show, and GET /auth/me, the account whose profiles it shows.        *)
GetMe(t) == FindByEmail(t.email)

Me(t) == t.sub

-----------------------------------------------------------------------------
User == [email : Email \cup {Anon}, known : BOOLEAN, deleted : BOOLEAN, row : BOOLEAN]

Request ==
  [pc : {"idle", "insert", "compare", "subject", "commit"}, email : Email \cup {Anon}, role : Role,
   id : {0} \cup Uid, row : User, d : {0} \cup Did, before : SUBSET Uid]

(* Types, with what the unique index of users.email is for.                *)
TypeOK ==
  /\ users \in [Uid -> User]
  /\ staff \subseteq Email
  /\ asked \in [Did -> [user : {0} \cup Uid, status : {"none", "REQUESTED", "CONFIRMED"}]]
  /\ tokens \subseteq Token
  /\ req \in [Proc -> Request]
  /\ calls \in Nat
  /\ used \in [Did -> Nat] /\ shared \in [Did -> BOOLEAN]
  /\ \A e \in Email : \A u, w \in FindByEmail(e) : u = w

(* The status of a request is read before the transaction that uses it up. *)
(* An account is deleted exactly when a request of its own was confirmed,  *)
(* wherever a handler stopped, and then no address finds it; and a request *)
(* is confirmed once, unless two confirmations held it at the same time.   *)
DeletedByRequest ==
  /\ \A u \in Uid : users[u].deleted =>
       /\ \E d \in Did : asked[d] = [user |-> u, status |-> "CONFIRMED"]
       /\ \A e \in Email : u \notin FindByEmail(e)
  /\ \A d \in Did :
       /\ asked[d].status = "CONFIRMED" => users[asked[d].user].deleted
       /\ used[d] <= 1 \/ shared[d]

(* The checks of a login are made on what was read before bcrypt, and the  *)
(* staff login makes none.  A login that begins after an account was       *)
(* deleted never yields a token for it.                                    *)
NoLateLogin ==
  [][\A t \in tokens' \ tokens : \E p \in Proc :
       req[p].pc \in {"compare", "subject"} /\ t.sub \notin req[p].before]_vars

(* GET /users/me looks for the email of the token, GET /auth/me for its    *)
(* id: they show different accounts only after the one was deleted and its *)
(* address given to another.                                               *)
MeIsMine ==
  \A t \in tokens : GetMe(t) \subseteq {Me(t)} \/ users[Me(t)].deleted

(* Nothing revokes a token.  Still, some time after the deletion no token  *)
(* of the account is left, and none comes back.                            *)
LockedOut ==
  \A u \in Uid : users[u].deleted ~> [](\A t \in tokens : t.sub # u)
=============================================================================
