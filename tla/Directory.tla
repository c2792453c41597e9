------------------------------ MODULE Directory ------------------------------
(***************************************************************************)
(* The public directory: profiles (ProfileService), venues (VenuesService),*)
(* their pictures (SpacesUploadService) and the development seeds that     *)
(* make profiles and repair old venues (DevSeedController).                *)
(*                                                                         *)
(* The migrations make profiles.userId, profiles.slug and venues.slug      *)
(* unique: a user has one profile, which is named by the user here, and    *)
(* pickPrimaryProfile has nothing to choose from.  Nothing calls           *)
(* deactivateForUser: profiles stay active.                                *)
(***************************************************************************)
EXTENDS Integers

CONSTANTS
  Proc,      \* handlers in flight
  User,
  Owners,    \* the users seeded as owners, the others are buyers or staff
  Vid,       \* ids of venues
  None,      \* null
  Name,      \* slugified names of venues
  Short,     \* those of fewer than three characters
  Kind,      \* kinds of pictures: avatar, cover
  MaxTime,   \* bound: milliseconds
  MaxCalls   \* bound: calls made

Row == User \cup Vid                   \* a profile is its user
Columns == Kind \cup {"link", "text"}
Key == User \X Kind \X (0..MaxTime)    \* profiles/<user>/<kind>_<ms>

ASSUME DirectoryAssumption ==
  /\ Owners \subseteq User /\ Short \subseteq Name
  /\ User \cap Vid = {} /\ None \notin User \cup Vid \cup Name \cup Key
  /\ Kind \cap {"link", "text"} = {}
  /\ MaxTime \in Nat \ {0} /\ MaxCalls \in Nat

Types == {"none", "owner", "other"}

VARIABLES
  needSlug,  \* venues.slug is NOT NULL, as the first migration creates it
  type,      \* user -> type of the profile, "none" without one
  venues,    \* id -> owner and slug
  rows,      \* row -> its other columns
  objects,   \* key -> picture in the bucket, 0 without one
  now,       \* the clock, as it was last read
  req,       \* handler -> where it is and what it holds
  calls,     \* calls made so far; numbers the pictures and texts
  posted,    \* history: keys by user, kind and time
  clash,     \* history: users who posted two pictures of a kind in one ms
  last,      \* history: row -> what the calls that finished put there
  raced      \* history: row -> two handlers held it at once

history == <<posted, clash, last, raced>>
vars == <<needSlug, type, venues, rows, objects, now, req, calls, history>>

NoSlug == [name |-> None, try |-> 0, ms |-> 0]
NoVenue == [owner |-> None, slug |-> NoSlug]
Empty == [c \in Columns |-> IF c = "text" THEN 0 ELSE None]
Nothing == [c \in Columns |-> IF c = "link" THEN None ELSE 0]

(* pc: the next statement; x: the row to save; col, url, put: the column   *)
(* to set, to what, and what a reader will see there; val: the entity;     *)
(* cols: the columns to update; found: the old venues as they were read.   *)
Started(pc, u) ==
  [pc |-> pc, u |-> u, op |-> "call", x |-> None, col |-> "text", url |-> None, put |-> None,
   val |-> Empty, cols |-> {}, slug |-> NoSlug, todo |-> {}, found |-> [v \in Vid |-> Empty]]

NoRequest == Started("idle", None)

(* Venues of before the migrations have no profile, perhaps no slug.       *)
OldVenues ==
  {f \in [Vid -> [owner : User \cup {None}, slug : {NoSlug} \cup {[NoSlug EXCEPT !.name = n] : n \in Name}]] :
     \A v \in Vid : /\ f[v].owner = None => f[v] = NoVenue
                    /\ \A w \in Vid \ {v} : f[v].slug = NoSlug \/ f[v].slug # f[w].slug}

Init ==
  /\ needSlug \in BOOLEAN
  /\ type = [u \in User |-> "none"]
  /\ venues \in OldVenues
  /\ needSlug => \A v \in Vid : venues[v] = NoVenue \/ venues[v].slug # NoSlug
  /\ rows = [x \in Row |-> Empty]
  /\ objects = [k \in Key |-> 0]
  /\ now = 1
  /\ req = [p \in Proc |-> NoRequest]
  /\ calls = 0
  /\ posted = {} /\ clash = {}
  /\ last = [x \in Row |-> Nothing]
  /\ raced = [x \in Row |-> FALSE]

At(p, pc) == req[p].pc = pc

Call(p) ==
  /\ At(p, "idle") /\ calls < MaxCalls
  /\ calls' = calls + 1

Finish(p) == req' = [req EXCEPT ![p] = NoRequest]

(* Date.now(): nothing else depends on the clock.                          *)
ReadClock == now' \in now..MaxTime

(* The entities a handler has read and will save.                          *)
Holds(p) == req[p].todo \cup (IF req[p].pc \in {"select", "update"} THEN {req[p].x} ELSE {})

Hold(p, S) ==
  raced' = [x \in Row |-> raced[x] \/ (x \in S /\ \E q \in Proc \ {p} : x \in Holds(q))]

VenuesOf(u) == {v \in Vid : venues[v].owner = u}
Taken(slug) == \E v \in Vid : venues[v].slug = slug

-----------------------------------------------------------------------------
(* Profiles and the seeds                                                  *)
SeedType(u) == IF u \in Owners THEN "owner" ELSE "other"

(* After ensureProfile, an owner's seed looks for a venue.                 *)
AfterSeed(u) == IF SeedType(u) = "owner" THEN Started("venue", u) ELSE NoRequest

(* ensureProfile: listForUser, and the search for the type.                *)
HasProfile(u, t) == type[u] = t

(* The seeds of a buyer and of owners, past ensureUser.                    *)
Seed(p, u) ==
  /\ Call(p)
  /\ req' = [req EXCEPT ![p] = IF HasProfile(u, SeedType(u)) THEN AfterSeed(u) ELSE Started("profile", u)]
  /\ UNCHANGED <<needSlug, type, venues, rows, objects, now, history>>

(* createForUser: a second profile of a user, of whatever type, is refused *)
(* by profiles_userid_unique (Stop).                                       *)
CreateForUser(p) ==
  /\ At(p, "profile")
  /\ LET r == req[p] IN
       /\ type[r.u] = "none"
       /\ IF r.op = "backfill"
          THEN /\ type' = [type EXCEPT ![r.u] = "owner"]
               /\ req' = [req EXCEPT ![p].pc = "loop", ![p].u = None]
          ELSE /\ type' = [type EXCEPT ![r.u] = SeedType(r.u)]
               /\ req' = [req EXCEPT ![p] = AfterSeed(r.u)]
  /\ UNCHANGED <<needSlug, venues, rows, objects, now, calls, history>>

(* Mutant: without the slug, and so without the index. *)
InsertAnySlug(p) ==
  /\ At(p, "insert")
  /\ \E v \in Vid :
       /\ venues[v] = NoVenue
       /\ venues' = [venues EXCEPT ![v] = [owner |-> req[p].u, slug |-> req[p].slug]]
       /\ rows' = [rows EXCEPT ![v]["link"] = req[p].u]
       /\ last' = [last EXCEPT ![v]["link"] = req[p].u]
  /\ Finish(p)
  /\ UNCHANGED <<needSlug, type, objects, now, calls, posted, clash, raced>>

(* save of a new venue, of POST /venues or of a seed (which has no slug).  *)
InsertVenue(p) ==
  /\ At(p, "insert")
  /\ IF req[p].slug = NoSlug THEN ~needSlug ELSE ~Taken(req[p].slug)
  /\ \E v \in Vid :
       /\ venues[v] = NoVenue
       /\ venues' = [venues EXCEPT ![v] = [owner |-> req[p].u, slug |-> req[p].slug]]
       /\ rows' = [rows EXCEPT ![v]["link"] = req[p].u]
       /\ last' = [last EXCEPT ![v]["link"] = req[p].u]
  /\ Finish(p)
  /\ UNCHANGED <<needSlug, type, objects, now, calls, posted, clash, raced>>

(* The entity x, as it was read, with its column changed, will be saved.   *)
Save(p, x, val, col, put) ==
  [req[p] EXCEPT !.pc = "select", !.x = x, !.val = val, !.col = col, !.put = put]

(* ensureOwnerVenueLink: any venue of the owner will do.                   *)
EnsureOwnerVenueLink(p) ==
  /\ At(p, "venue")
  /\ LET u == req[p].u IN
     \/ /\ VenuesOf(u) = {}
        /\ req' = [req EXCEPT ![p].pc = "insert"]
        /\ UNCHANGED raced
     \/ \E v \in VenuesOf(u) :
          IF rows[v]["link"] # None THEN Finish(p) /\ UNCHANGED raced
          ELSE /\ req' = [req EXCEPT ![p] = Save(p, v, [rows[v] EXCEPT !["link"] = u], "link", u)]
               /\ Hold(p, {v})
  /\ UNCHANGED <<needSlug, type, venues, rows, objects, now, calls, posted, clash, last>>

-----------------------------------------------------------------------------
(* venues/backfill-owner-profile-id                                        *)

(* The list of old venues is read once.                                    *)
BackfillVenueOwnerProfileIds(p) ==
  /\ Call(p)
  /\ LET old == {v \in Vid : venues[v] # NoVenue /\ rows[v]["link"] = None} IN
       /\ old # {}
       /\ req' = [req EXCEPT ![p] = [Started("loop", None) EXCEPT
            !.op = "backfill", !.todo = old, !.found = [v \in Vid |-> IF v \in old THEN rows[v] ELSE Empty]]]
       /\ Hold(p, old)
  /\ UNCHANGED <<needSlug, type, venues, rows, objects, now, posted, clash, last>>

(* The venue, as it was in the list, gets the profile of its owner.        *)
Link(p, v) ==
  LET u == venues[v].owner IN
  req' = [req EXCEPT ![p] = Save(p, v, [req[p].found[v] EXCEPT !["link"] = u], "link", u)]

(* The loop, over the owners and then their venues: ensureProfile, then    *)
(* the link.  It ends after the last venue.                                *)
BackfillNext(p) ==
  /\ At(p, "loop")
  /\ \/ req[p].todo = {} /\ Finish(p)
     \/ \E v \in req[p].todo :
          IF HasProfile(venues[v].owner, "owner") THEN Link(p, v)
          ELSE req' = [req EXCEPT ![p].pc = "profile", ![p].u = venues[v].owner]
  /\ UNCHANGED <<needSlug, type, venues, rows, objects, now, calls, history>>

-----------------------------------------------------------------------------
(* Venues                                                                  *)

(* makeUniqueSlug: the name, or with the time, or with the time once more  *)
(* and digits (left out: a collision is refused by the index).             *)
MakeUniqueSlug(name, ms) ==
  LET slug(try) == [name |-> name, try |-> try, ms |-> IF try = 0 THEN 0 ELSE ms] IN
  IF ~Taken(slug(0)) THEN slug(0) ELSE IF ~Taken(slug(1)) THEN slug(1) ELSE slug(2)

(* create, past the profile of the owner: the counts of slugs, the save.   *)
InsertAs(p, u, name) ==
  /\ IF Taken([NoSlug EXCEPT !.name = name]) THEN ReadClock ELSE UNCHANGED now
  /\ req' = [req EXCEPT ![p] = [Started("insert", u) EXCEPT !.slug = MakeUniqueSlug(name, now')]]
  /\ UNCHANGED <<needSlug, type, venues, rows, objects, history>>

(* Mutant: any profile will do. *)
CreateForAnybody(p, u, name) == Call(p) /\ type[u] # "none" /\ InsertAs(p, u, name)

(* create.                                                                 *)
Create(p, u, name) == Call(p) /\ HasProfile(u, "owner") /\ InsertAs(p, u, name)

-----------------------------------------------------------------------------
(* Pictures and texts                                                      *)

(* Mutant: the time is not in the key. *)
KeyWithoutTime(u, kind, ms) == <<u, kind, 0>>

KeyOf(u, kind, ms) == <<u, kind, ms>>

(* uploadProfileImage for a row of u, up to the key and its time.          *)
Upload(p, u, x, kind) ==
  /\ Call(p)
  /\ ReadClock
  /\ req' = [req EXCEPT ![p] = [Started("put", u) EXCEPT
       !.x = x, !.col = kind, !.url = KeyOf(u, kind, now'), !.put = calls']]
  /\ posted' = posted \cup {<<u, kind, now'>>}
  /\ clash' = IF <<u, kind, now'>> \in posted THEN clash \cup {u} ELSE clash
  /\ UNCHANGED <<needSlug, type, venues, rows, objects, last, raced>>

(* pickPrimaryProfile finds the one there is, whatever the role.           *)
HasPrimary(u) == type[u] # "none"

(* POST /profiles/me/avatar and cover.                                     *)
UploadProfileImage(p, u, kind) == HasPrimary(u) /\ Upload(p, u, u, kind)

(* POST /venues/:id/avatar and cover, for a venue of the caller.           *)
UploadVenueImage(p, u, v, kind) == v \in VenuesOf(u) /\ Upload(p, u, v, kind)

(* PutObject.  From here on a failure leaves an object no row names.       *)
PutObject(p) ==
  /\ At(p, "put")
  /\ objects' = [objects EXCEPT ![req[p].url] = req[p].put]
  /\ req' = [req EXCEPT ![p].pc = "read"]
  /\ UNCHANGED <<needSlug, type, venues, rows, now, calls, history>>

(* PATCH /profiles/me, of the name or the bio.                             *)
PatchMe(p, u) ==
  /\ Call(p)
  /\ HasPrimary(u)
  /\ req' = [req EXCEPT ![p] = [Started("read", u) EXCEPT
       !.x = u, !.col = "text", !.url = calls', !.put = calls']]
  /\ UNCHANGED <<needSlug, type, venues, rows, objects, now, history>>

(* Read the entity of the row, change the column of the patch, save.       *)
Patch(p, x, val) ==
  /\ At(p, "read") /\ req[p].x = x
  /\ req' = [req EXCEPT ![p] = Save(p, x, val, req[p].col, req[p].put)]
  /\ Hold(p, {x})
  /\ UNCHANGED <<needSlug, type, venues, rows, objects, now, calls, posted, clash, last>>

(* Mutant: a picture that is not in the patch is cleared. *)
UpdateBoth(p, v) ==
  Patch(p, v, [c \in Columns |-> IF c = req[p].col THEN req[p].url
                                 ELSE IF c \in Kind THEN None ELSE rows[v][c]])

(* ... of a venue                                                          *)
UpdateMedia(p, v) == Patch(p, v, [rows[v] EXCEPT ![req[p].col] = req[p].url])

(* ... of a profile                                                        *)
UpdateForUser(p, u) == Patch(p, u, [rows[u] EXCEPT ![req[p].col] = req[p].url])

-----------------------------------------------------------------------------
(* save of an entity that was read: the columns that differ from the row   *)
(* as it is now are updated.                                               *)
Select(p) ==
  /\ At(p, "select")
  /\ req' = [req EXCEPT ![p].pc = "update",
       ![p].cols = {c \in Columns : req[p].val[c] # rows[req[p].x][c]}]
  /\ UNCHANGED <<needSlug, type, venues, rows, objects, now, calls, history>>

Update(p) ==
  /\ At(p, "update")
  /\ LET r == req[p] IN
       /\ rows' = [rows EXCEPT ![r.x] = [c \in Columns |-> IF c \in r.cols THEN r.val[c] ELSE rows[r.x][c]]]
       /\ last' = [last EXCEPT ![r.x][r.col] = r.put]
       /\ IF r.op = "backfill"
          THEN req' = [req EXCEPT ![p] = [Started("loop", None) EXCEPT
                 !.op = r.op, !.todo = r.todo \ {r.x}, !.found = [r.found EXCEPT ![r.x] = Empty]]]
          ELSE Finish(p)
  /\ UNCHANGED <<needSlug, type, venues, objects, now, calls, posted, clash, raced>>

(* An exception, a constraint, or the process stops.                       *)
Stop(p) ==
  /\ ~At(p, "idle")
  /\ Finish(p)
  /\ UNCHANGED <<needSlug, type, venues, rows, objects, now, calls, history>>

Statement(p) ==
  \/ CreateForUser(p) \/ EnsureOwnerVenueLink(p) \/ InsertVenue(p)
  \/ BackfillNext(p) \/ PutObject(p) \/ Select(p) \/ Update(p)

Next ==
  \/ \E p \in Proc : Statement(p) \/ Stop(p) \/ BackfillVenueOwnerProfileIds(p)
  \/ \E p \in Proc, u \in User : Seed(p, u) \/ PatchMe(p, u) \/ UpdateForUser(p, u)
  \/ \E p \in Proc, v \in Vid : UpdateMedia(p, v)
  \/ \E p \in Proc, u \in User, name \in Name : Create(p, u, name)
  \/ \E p \in Proc, u \in User, kind \in Kind : UploadProfileImage(p, u, kind)
  \/ \E p \in Proc, u \in User, v \in Vid, kind \in Kind : UploadVenueImage(p, u, v, kind)

Spec == Init /\ [][Next]_vars

-----------------------------------------------------------------------------
(* What the public reads                                                   *)
PublicVenues == {v \in Vid : venues[v].slug # NoSlug /\ rows[v]["link"] # None}

(* The list of profiles, and the page of one.                              *)
PublicProfiles == {u \in User : type[u] = "owner"}

(* publicOwnerPageBySlug.                                                  *)
OwnerPage(u) == {v \in Vid : type[u] = "owner" /\ rows[v]["link"] = u /\ venues[v].slug # NoSlug}

(* GET /venues/mine.                                                       *)
Mine(u) == VenuesOf(u)

(* publicBySlug refuses slugs of fewer than three characters.              *)
TooShort(slug) == slug.name \in Short /\ slug.try = 0

(* publicBySlug of a venue, with its parity check.                         *)
HasPage(v) ==
  /\ ~TooShort(venues[v].slug)
  /\ rows[v]["link"] # None
  /\ v \in OwnerPage(rows[v]["link"])

Picture(key) == IF key = None THEN 0 ELSE objects[key]

(* A row with the pictures its URLs show.                                  *)
Shown(x) == [c \in Columns |-> IF c \in Kind THEN Picture(rows[x][c]) ELSE rows[x][c]]

-----------------------------------------------------------------------------
Slug == [name : Name \cup {None}, try : 0..2, ms : 0..MaxTime]
(* Types, with what the unique index of venues.slug is for.                *)
TypeOK ==
  /\ needSlug \in BOOLEAN
  /\ type \in [User -> Types]
  /\ venues \in [Vid -> [owner : User \cup {None}, slug : Slug]]
  /\ \A x \in Row :
       /\ rows[x]["link"] \in User \cup {None} /\ rows[x]["text"] \in Nat
       /\ \A kind \in Kind : rows[x][kind] \in Key \cup {None}
  /\ objects \in [Key -> Nat]
  /\ now \in 1..MaxTime /\ calls \in Nat
  /\ \A v, w \in Vid : v # w => venues[v].slug = NoSlug \/ venues[v].slug # venues[w].slug

(* publicList and publicBySlug have different conditions, over three       *)
(* tables that different calls write.  Whatever created or repaired it, a  *)
(* venue that is listed has a page, under the profile of its owner, which  *)
(* is listed as well, unless its slug is too short for one.                *)
ListedOpens ==
  \A v \in PublicVenues :
    \/ TooShort(venues[v].slug)
    \/ /\ HasPage(v)
       /\ v \in Mine(rows[v]["link"])
       /\ rows[v]["link"] \in PublicProfiles

(* Whose pictures a row shows.                                             *)
OwnerOf(x) == IF x \in User THEN x ELSE venues[x].owner

(* Whole entities are read, changed in one column and saved, the backfill  *)
(* holds its list for long, and pictures are named by the millisecond.  A  *)
(* row shows, column by column, what the calls that finished put there,    *)
(* unless two held it at once or its owner posted twice in a millisecond.  *)
ShowsLastPost ==
  \A x \in Row :
    \/ raced[x]
    \/ OwnerOf(x) \in clash
    \/ Shown(x) = last[x]

-----------------------------------------------------------------------------
(* What the three rest on.  Types of the rows and of the requests.         *)
Cell(c) ==
  CASE c = "link" -> User \cup {None}
    [] c = "text" -> Nat
    [] OTHER      -> Key \cup {None}

IsEntity(e) == e = [c \in Columns |-> e[c]] /\ \A c \in Columns : e[c] \in Cell(c)

IsRequest(r) ==
  /\ r \in [pc : {"idle", "profile", "venue", "insert", "loop", "put", "read", "select", "update"},
            u : User \cup {None}, op : {"call", "backfill"}, x : Row \cup {None}, col : Columns,
            url : {r.url}, put : {r.put}, val : {r.val}, cols : SUBSET Columns, slug : Slug,
            todo : SUBSET Vid, found : {r.found}]
  /\ IsEntity(r.val)
  /\ r.found = [v \in Vid |-> r.found[v]] /\ \A v \in Vid : IsEntity(r.found[v])

Shape ==
  /\ TypeOK
  /\ rows = [x \in Row |-> rows[x]] /\ \A x \in Row : IsEntity(rows[x])
  /\ last = [x \in Row |-> last[x]] /\ \A x \in Row : last[x] = [c \in Columns |-> last[x][c]]
  /\ raced \in [Row -> BOOLEAN]
  /\ posted \subseteq Key /\ clash \subseteq User
  /\ req = [p \in Proc |-> req[p]] /\ \A p \in Proc : IsRequest(req[p])
  /\ \A v \in Vid : venues[v].owner = None => venues[v] = NoVenue

(* What a request is about: a venue that is there, or a profile; and the   *)
(* seeds and the creation of a venue have an owner's profile.              *)
SaneAt(p) ==
  /\ At(p, "idle") => req[p] = NoRequest
  /\ req[p].pc \in {"profile", "venue", "insert"} => req[p].u \in User
  /\ req[p].pc \in {"venue", "insert"} => type[req[p].u] = "owner"
  /\ At(p, "put") => req[p].col \in Kind /\ req[p].put \in Nat
  /\ req[p].pc \in {"put", "read"} =>
       /\ req[p].x \in Row /\ OwnerOf(req[p].x) = req[p].u /\ req[p].u \in User
       /\ req[p].col # "link"
       /\ IF req[p].col \in Kind THEN req[p].url \in Key ELSE req[p].url \in Nat
  /\ req[p].pc \in {"select", "update"} => req[p].x \in Row /\ OwnerOf(req[p].x) \in User
  /\ \A v \in req[p].todo : venues[v].owner \in User
  /\ At(p, "loop") => req[p].op = "backfill"

TypeInv == Shape /\ \A p \in Proc : SaneAt(p)

(* The links that are stored, and those that are going to be.              *)
OwnerLink(v, u) == u # None => venues[v].owner = u /\ type[u] = "owner"

LinkInv ==
  /\ TypeInv
  /\ \A v \in Vid : OwnerLink(v, rows[v]["link"])
  /\ \A p \in Proc : req[p].pc \in {"select", "update"} /\ req[p].x \in Vid =>
       OwnerLink(req[p].x, req[p].val["link"])

(* An owner's pictures have keys that were posted with the owner's name.   *)
KeysOf(e, u) == \A k \in Kind : e[k] # None => e[k] \in posted /\ e[k][1] = u

KeysAt(p) ==
  /\ req[p].pc \in {"put", "read"} /\ req[p].col \in Kind =>
       req[p].url \in posted /\ req[p].url[1] = req[p].u
  /\ req[p].pc \in {"select", "update"} => KeysOf(req[p].val, OwnerOf(req[p].x))
  /\ \A v \in req[p].todo : KeysOf(req[p].found[v], venues[v].owner)

KeysOK ==
  /\ TypeInv
  /\ \A x \in Row : KeysOf(rows[x], OwnerOf(x))
  /\ \A p \in Proc : KeysAt(p)

(* What names a key, apart from rows.                                      *)
Names(q, key) ==
  \/ req[q].pc \in {"put", "read"} /\ req[q].col \in Kind /\ req[q].url = key
  \/ req[q].pc \in {"select", "update"} /\ \E k \in Kind : req[q].val[k] = key
  \/ \E v \in req[q].todo, k \in Kind : req[q].found[v][k] = key

(* A picture that is not in the bucket yet has a key nothing else names.   *)
FreshAt(p) ==
  At(p, "put") /\ req[p].u \notin clash =>
    /\ \A x \in Row, k \in Kind : rows[x][k] # req[p].url
    /\ \A q \in Proc \ {p} : ~Names(q, req[p].url)

(* A row that one request held at a time, of someone who posted one        *)
(* picture at a time.                                                      *)
Settled(x) == ~raced[x] /\ OwnerOf(x) \notin clash

Means(c, e) == IF c \in Kind THEN Picture(e) ELSE e

(* What was read of a row that only p holds is still there.                *)
HeldAt(p) ==
  LET r == req[p] IN
  /\ At(p, "read") /\ r.u \notin clash => Means(r.col, r.url) = r.put
  /\ r.pc \in {"select", "update"} /\ Settled(r.x) =>
       /\ \A c \in Columns \ {r.col} : r.val[c] = rows[r.x][c]
       /\ Means(r.col, r.val[r.col]) = r.put
       /\ At(p, "update") => \A c \in Columns \ r.cols : r.val[c] = rows[r.x][c]
  /\ \A v \in r.todo : Settled(v) => r.found[v] = rows[v]

OneHolder == \A p, q \in Proc, x \in Row : x \in Holds(p) /\ x \in Holds(q) => p = q \/ raced[x]

ShowInv ==
  /\ KeysOK
  /\ OneHolder
  /\ \A p \in Proc : FreshAt(p) /\ HeldAt(p)
  /\ \A x \in Row, c \in Columns : Settled(x) => Means(c, rows[x][c]) = last[x][c]
=============================================================================
