--------------------------- MODULE DirectoryProofs ---------------------------
(* For any users, venues, names and clocks: the slugs of venues stay       *)
(* unique, whatever is listed has a page, and a row shows what was put     *)
(* there last.                                                             *)
EXTENDS Directory, TLAPS

-----------------------------------------------------------------------------
(* Values.                                                                 *)

LEMMA Apart ==
  /\ None \notin User /\ None \notin Vid /\ None \notin Name /\ None \notin Row
  /\ None \notin Key
  /\ \A x \in User : x \notin Vid
  /\ \A k \in Kind : k # "link" /\ k # "text"
  /\ "link" \in Columns /\ "text" \in Columns /\ "link" # "text" /\ Kind \subseteq Columns
  /\ MaxTime \in Nat /\ MaxTime >= 1
BY DirectoryAssumption DEF Row, Columns

LEMMA Cells ==
  /\ Cell("link") = User \cup {None} /\ Cell("text") = Nat
  /\ \A k \in Kind : Cell(k) = Key \cup {None}
BY Apart DEF Cell

LEMMA EmptyEntity == IsEntity(Empty) /\ \A c \in Columns \ {"text"} : Empty[c] = None
<1>1. Empty = [c \in Columns |-> Empty[c]]
  BY DEF Empty
<1>2. \A c \in Columns : Empty[c] \in Cell(c)
  BY Cells DEF Empty, Columns
<1>3. \A c \in Columns \ {"text"} : Empty[c] = None
  BY DEF Empty
<1> QED
  BY <1>1, <1>2, <1>3 DEF IsEntity

LEMMA WithColumn ==
  ASSUME NEW e, IsEntity(e), NEW c \in Columns, NEW n \in Cell(c)
  PROVE  /\ IsEntity([e EXCEPT ![c] = n])
         /\ \A d \in Columns : [e EXCEPT ![c] = n][d] = IF d = c THEN n ELSE e[d]
<1>1. DOMAIN e = Columns
  BY DEF IsEntity
<1> DEFINE f == [e EXCEPT ![c] = n]
<1>2. f = [d \in Columns |-> f[d]] /\ \A d \in Columns : f[d] = IF d = c THEN n ELSE e[d]
  BY <1>1
<1> HIDE DEF f
<1>3. IsEntity(f)
  BY <1>2 DEF IsEntity
<1> QED
  BY <1>2, <1>3 DEF f

LEMMA SlugType ==
  /\ NoSlug \in Slug /\ \A n \in Name : [NoSlug EXCEPT !.name = n] \in Slug
  /\ \A n \in Name, ms \in 0..MaxTime, try \in 0..2 : [name |-> n, try |-> try, ms |-> ms] \in Slug
BY Apart DEF NoSlug, Slug

Points == {"idle", "profile", "venue", "insert", "loop", "put", "read", "select", "update"}

LEMMA StartedRequest ==
  ASSUME NEW pc \in Points, NEW u \in User \cup {None}
  PROVE  IsRequest(Started(pc, u))
<1> DEFINE r == Started(pc, u)
<1>1. /\ r.val = Empty /\ r.found = [v \in Vid |-> Empty] /\ r.pc = pc /\ r.u = u /\ r.slug = NoSlug
      /\ r = [pc |-> pc, u |-> u, op |-> "call", x |-> None, col |-> "text", url |-> None, put |-> None,
              val |-> r.val, cols |-> {}, slug |-> r.slug, todo |-> {}, found |-> r.found]
  BY DEF Started
<1>2. IsEntity(r.val) /\ \A v \in Vid : IsEntity(r.found[v])
  BY <1>1, EmptyEntity
<1>3. r.url = None /\ r.put = None /\ r.slug \in Slug /\ "text" \in Columns
  BY <1>1, SlugType, Apart
<1> HIDE DEF r
<1>4. r.found = [v \in Vid |-> r.found[v]]
  BY <1>1
<1>5. IsRequest(r)
  BY <1>1, <1>2, <1>3, <1>4 DEF IsRequest, Points
<1> QED
  BY <1>5 DEF r

LEMMA NothingRequested ==
  /\ IsRequest(NoRequest) /\ NoRequest.pc = "idle" /\ NoRequest.todo = {}
  /\ NoRequest.x = None /\ NoRequest.op = "call"
BY StartedRequest DEF NoRequest, Started, Points

-----------------------------------------------------------------------------
(* Types.                                                                  *)

LEMMA InitType == Init => TypeInv
<1> SUFFICES ASSUME Init PROVE TypeInv
  OBVIOUS
<1>1. \A v \in Vid : venues[v].owner \in User \cup {None} /\ venues[v].slug \in Slug
  <2> TAKE v \in Vid
  <2>1. /\ venues[v] \in [owner : User \cup {None},
                          slug : {NoSlug} \cup {[NoSlug EXCEPT !.name = n] : n \in Name}]
    BY DEF Init, OldVenues
  <2> QED
    BY <2>1, SlugType
<1>2. venues \in [Vid -> [owner : User \cup {None}, slug : Slug]]
  <2>1. {NoSlug} \cup {[NoSlug EXCEPT !.name = n] : n \in Name} \subseteq Slug
    BY SlugType
  <2> QED
    BY <2>1 DEF Init, OldVenues
<1>3. /\ \A v \in Vid : venues[v].owner = None => venues[v] = NoVenue
      /\ \A v, w \in Vid : v # w => venues[v].slug = NoSlug \/ venues[v].slug # venues[w].slug
  BY DEF Init, OldVenues
<1>4. \A x \in Row : rows[x] = Empty /\ last[x] = Nothing /\ raced[x] = FALSE
  BY DEF Init
<1>5. TypeOK
  <2>1. \A x \in Row : /\ rows[x]["link"] \in User \cup {None} /\ rows[x]["text"] \in Nat
                       /\ \A kind \in Kind : rows[x][kind] \in Key \cup {None}
    BY <1>4, EmptyEntity, Cells, Apart DEF IsEntity
  <2>2. objects \in [Key -> Nat] /\ now \in 1..MaxTime /\ calls \in Nat /\ type \in [User -> Types]
        /\ needSlug \in BOOLEAN
    BY Apart DEF Init, Types
  <2> QED
    BY <1>2, <1>3, <2>1, <2>2 DEF TypeOK
<1>6. Shape
  <2>1. rows = [x \in Row |-> rows[x]] /\ \A x \in Row : IsEntity(rows[x])
    BY <1>4, EmptyEntity DEF Init
  <2>2. last = [x \in Row |-> last[x]] /\ \A x \in Row : last[x] = [c \in Columns |-> last[x][c]]
    BY <1>4 DEF Init, Nothing
  <2>3. raced \in [Row -> BOOLEAN] /\ posted \subseteq Key /\ clash \subseteq User
    BY DEF Init
  <2>4. req = [p \in Proc |-> req[p]] /\ \A p \in Proc : IsRequest(req[p])
    BY NothingRequested DEF Init
  <2> QED
    BY <1>3, <1>5, <2>1, <2>2, <2>3, <2>4 DEF Shape
<1>7. \A p \in Proc : SaneAt(p)
  BY NothingRequested DEF Init, SaneAt, At
<1> QED
  BY <1>6, <1>7 DEF TypeInv

(* One request changes, to a sound one.                                    *)
LEMMA OneRequest ==
  ASSUME Shape, NEW p \in Proc, NEW r, IsRequest(r), req' = [req EXCEPT ![p] = r]
  PROVE  /\ req' = [q \in Proc |-> req'[q]] /\ \A q \in Proc : IsRequest(req'[q])
         /\ req'[p] = r /\ \A q \in Proc \ {p} : req'[q] = req[q]
<1>1. DOMAIN req = Proc /\ \A q \in Proc : IsRequest(req[q])
  BY DEF Shape
<1>2. req' = [q \in Proc |-> req'[q]] /\ req'[p] = r /\ \A q \in Proc \ {p} : req'[q] = req[q]
  BY <1>1
<1> QED
  BY <1>1, <1>2

(* A venue keeps its owner and its slug, an owner the profile.             *)
Kept ==
  /\ \A v \in Vid : venues[v].owner \in User => venues'[v] = venues[v]
  /\ \A u \in User : type[u] = "owner" => type'[u] = "owner"

LEMMA OwnerKept ==
  ASSUME Kept, NEW x \in Row, OwnerOf(x) \in User PROVE OwnerOf(x)' = OwnerOf(x)
BY Apart DEF Kept, OwnerOf, Row

LEMMA OtherSane ==
  ASSUME TypeInv, Kept, NEW q \in Proc, req'[q] = req[q] PROVE SaneAt(q)'
<1>1. SaneAt(q) /\ req[q].todo \subseteq Vid
  BY DEF TypeInv, Shape, IsRequest
<1>2. /\ req[q].pc \in {"put", "read"} => OwnerOf(req[q].x)' = OwnerOf(req[q].x)
      /\ req[q].pc \in {"select", "update"} => OwnerOf(req[q].x)' = OwnerOf(req[q].x)
  BY <1>1, OwnerKept DEF SaneAt
<1>3. \A v \in req[q].todo : venues'[v] = venues[v]
  BY <1>1 DEF SaneAt, Kept
<1>4. req[q].pc \in {"venue", "insert"} => type'[req[q].u] = "owner"
  BY <1>1 DEF SaneAt, Kept
<1> QED
  BY <1>1, <1>2, <1>3, <1>4 DEF SaneAt, At

LEMMA RequestStep ==
  ASSUME TypeInv, NEW p \in Proc, NEW r, IsRequest(r), req' = [req EXCEPT ![p] = r],
         UNCHANGED <<needSlug, type, venues, rows, last>>, objects' \in [Key -> Nat],
         now' \in 1..MaxTime, calls' \in Nat, raced' \in [Row -> BOOLEAN],
         posted' \subseteq Key, clash' \subseteq User, SaneAt(p)'
  PROVE  TypeInv'
<1>1. req' = [q \in Proc |-> req'[q]] /\ \A q \in Proc : IsRequest(req'[q])
  BY OneRequest DEF TypeInv
<1>2. \A q \in Proc \ {p} : req'[q] = req[q]
  BY OneRequest DEF TypeInv
<1>3. Kept
  BY DEF Kept
<1>4. \A q \in Proc : SaneAt(q)'
  BY <1>2, <1>3, OtherSane
<1>5. TypeOK'
  BY DEF TypeInv, Shape, TypeOK
<1>6. Shape'
  BY <1>1, <1>5 DEF TypeInv, Shape
<1> QED
  BY <1>4, <1>6 DEF TypeInv

LEMMA Typed ==
  ASSUME TypeInv
  PROVE  /\ now \in 1..MaxTime /\ calls \in Nat /\ raced \in [Row -> BOOLEAN]
         /\ posted \subseteq Key /\ clash \subseteq User /\ type \in [User -> Types]
         /\ venues \in [Vid -> [owner : User \cup {None}, slug : Slug]]
         /\ objects \in [Key -> Nat]
BY DEF TypeInv, Shape, TypeOK

LEMMA HoldRaced ==
  ASSUME TypeInv, NEW p \in Proc, NEW S, Hold(p, S)
  PROVE  /\ raced' \in [Row -> BOOLEAN] /\ \A x \in Row : raced[x] => raced'[x]
         /\ \A x \in Row, q \in Proc \ {p} : x \in S /\ x \in Holds(q) => raced'[x]
BY Typed DEF Hold

LEMMA SeedTypes ==
  ASSUME NEW u \in User
  PROVE  /\ SeedType(u) \in {"owner", "other"} /\ IsRequest(AfterSeed(u))
         /\ AfterSeed(u).todo = {} /\ AfterSeed(u).pc \in {"idle", "venue"}
         /\ AfterSeed(u).pc = "idle" => AfterSeed(u) = NoRequest
         /\ AfterSeed(u).pc = "venue" => SeedType(u) = "owner" /\ AfterSeed(u).u = u
         /\ AfterSeed(u).op = "call"
<1>1. SeedType(u) \in {"owner", "other"}
  BY DEF SeedType
<1>2. CASE SeedType(u) = "owner"
  <2>1. AfterSeed(u) = Started("venue", u)
    BY <1>2 DEF AfterSeed
  <2>2. IsRequest(Started("venue", u))
    BY StartedRequest DEF Points
  <2> QED
    BY <1>1, <1>2, <2>1, <2>2 DEF Started
<1>3. CASE SeedType(u) = "other"
  BY <1>1, <1>3, NothingRequested DEF AfterSeed
<1> QED
  BY <1>1, <1>2, <1>3

LEMMA SeedStep ==
  ASSUME TypeInv, NEW p \in Proc, NEW u \in User, Seed(p, u)
  PROVE  TypeInv'
<1> DEFINE r == IF HasProfile(u, SeedType(u)) THEN AfterSeed(u) ELSE Started("profile", u)
<1>1. /\ IsRequest(Started("profile", u)) /\ Started("profile", u).pc = "profile"
      /\ Started("profile", u).u = u /\ Started("profile", u).todo = {}
  BY StartedRequest DEF Points, Started
<1>2. IsRequest(r)
  BY <1>1, SeedTypes
<1>3. req' = [req EXCEPT ![p] = r] /\ UNCHANGED <<needSlug, type, venues, rows, objects, now, history>>
  BY DEF Seed
<1>4. req'[p] = r
  BY <1>3 DEF TypeInv, Shape
<1>5. SaneAt(p)'
  <2>1. CASE HasProfile(u, SeedType(u))
    <3>1. r = AfterSeed(u) /\ type[u] = SeedType(u)
      BY <2>1 DEF HasProfile
    <3> QED
      BY <1>3, <1>4, <3>1, SeedTypes DEF SaneAt, At
  <2>2. CASE ~HasProfile(u, SeedType(u))
    <3>1. r = Started("profile", u)
      BY <2>2
    <3> QED
      BY <1>1, <1>4, <3>1 DEF SaneAt, At
  <2> QED
    BY <2>1, <2>2
<1> HIDE DEF r
<1>6. calls' \in Nat
  BY Typed DEF Seed, Call
<1> QED
  BY <1>2, <1>3, <1>5, <1>6, Typed, RequestStep DEF history

LEMMA CreateForUserStep ==
  ASSUME TypeInv, NEW p \in Proc, CreateForUser(p)
  PROVE  TypeInv' /\ Kept
<1>1. PICK u : u = req[p].u
  OBVIOUS
<1>2. u \in User /\ type[u] = "none" /\ req[p].pc = "profile"
  BY <1>1 DEF TypeInv, SaneAt, CreateForUser, At
<1>3. UNCHANGED <<needSlug, venues, rows, objects, now, calls, history>>
  BY DEF CreateForUser
<1> DEFINE again == [req[p] EXCEPT !.pc = "loop", !.u = None]
           t == IF req[p].op = "backfill" THEN "owner" ELSE SeedType(u)
           r == IF req[p].op = "backfill" THEN again ELSE AfterSeed(u)
<1>4. /\ t \in {"owner", "other"}
      /\ type' = [type EXCEPT ![u] = t] /\ req' = [req EXCEPT ![p] = r]
      /\ \/ req[p].op = "backfill" /\ r = again
         \/ t = SeedType(u) /\ r = AfterSeed(u)
  <2>1. SeedType(u) \in {"owner", "other"}
    BY <1>2, SeedTypes
  <2> QED
    BY <1>1, <2>1 DEF CreateForUser
<1> HIDE DEF t, r
<1>5. type' \in [User -> Types] /\ type'[u] = t /\ \A w \in User \ {u} : type'[w] = type[w]
  BY <1>2, <1>4, Typed DEF Types
<1>6. Kept
  BY <1>2, <1>3, <1>5 DEF Kept
<1>7. IsRequest(r) /\ (req'[p] = r => SaneAt(p)')
  <2>1. CASE req[p].op = "backfill" /\ r = again
    <3>1. IsRequest(req[p]) /\ SaneAt(p)
      BY DEF TypeInv, Shape
    <3>2. /\ r.pc = "loop" /\ r.u = None /\ r.op = "backfill" /\ r.todo = req[p].todo
          /\ r.val = req[p].val /\ r.found = req[p].found /\ r.url = req[p].url /\ r.put = req[p].put
          /\ r.x = req[p].x /\ r.col = req[p].col /\ r.cols = req[p].cols /\ r.slug = req[p].slug
          /\ r = [pc |-> r.pc, u |-> r.u, op |-> r.op, x |-> r.x, col |-> r.col, url |-> r.url,
                  put |-> r.put, val |-> r.val, cols |-> r.cols, slug |-> r.slug, todo |-> r.todo,
                  found |-> r.found]
      BY <2>1, <3>1 DEF IsRequest
    <3> HIDE <2>1
    <3>3. IsRequest(r)
      BY <3>1, <3>2 DEF IsRequest
    <3>4. ASSUME req'[p] = r PROVE SaneAt(p)'
      BY <1>3, <3>1, <3>2, <3>4 DEF SaneAt, At
    <3> QED
      BY <3>3, <3>4
  <2>2. CASE t = SeedType(u) /\ r = AfterSeed(u)
    <3>1. ASSUME req'[p] = r PROVE SaneAt(p)'
      BY <1>2, <1>5, <2>2, <3>1, SeedTypes DEF SaneAt, At
    <3> QED
      BY <1>2, <2>2, <3>1, SeedTypes
  <2> QED
    BY <1>4, <2>1, <2>2
<1>8. /\ req' = [q \in Proc |-> req'[q]] /\ \A q \in Proc : IsRequest(req'[q])
      /\ req'[p] = r /\ \A q \in Proc \ {p} : req'[q] = req[q]
  BY <1>4, <1>7, OneRequest DEF TypeInv
<1>9. \A q \in Proc : SaneAt(q)'
  BY <1>6, <1>7, <1>8, OtherSane
<1>10. Shape'
  BY <1>3, <1>5, <1>8 DEF TypeInv, Shape, TypeOK, history
<1> QED
  BY <1>6, <1>9, <1>10 DEF TypeInv

LEMMA InsertVenueStep ==
  ASSUME TypeInv, NEW p \in Proc, InsertVenue(p)
  PROVE  TypeInv' /\ Kept
<1>1. PICK u, slug : u = req[p].u /\ slug = req[p].slug
  OBVIOUS
<1>2. /\ u \in User /\ slug \in Slug /\ type[u] = "owner" /\ req[p].pc = "insert"
      /\ slug # NoSlug => \A v \in Vid : venues[v].slug # slug
      /\ UNCHANGED <<needSlug, type, objects, now, calls, posted, clash, raced>>
      /\ req' = [req EXCEPT ![p] = NoRequest]
  BY <1>1 DEF TypeInv, Shape, IsRequest, SaneAt, InsertVenue, At, Taken, Finish
<1>3. PICK v \in Vid :
        /\ venues[v] = NoVenue
        /\ venues' = [venues EXCEPT ![v] = [owner |-> u, slug |-> slug]]
        /\ rows' = [rows EXCEPT ![v]["link"] = u]
        /\ last' = [last EXCEPT ![v]["link"] = u]
  BY <1>1 DEF InsertVenue
<1>4. /\ venues' \in [Vid -> [owner : User \cup {None}, slug : Slug]]
      /\ \A w \in Vid : venues'[w] = IF w = v THEN [owner |-> u, slug |-> slug] ELSE venues[w]
  BY <1>2, <1>3, Typed
<1>5. Kept
  BY <1>2, <1>3, <1>4, Apart DEF Kept, NoVenue
<1>6. \A w, z \in Vid : w # z => venues'[w].slug = NoSlug \/ venues'[w].slug # venues'[z].slug
  BY <1>2, <1>4 DEF TypeInv, Shape, TypeOK
<1>7. \A w \in Vid : venues'[w].owner = None => venues'[w] = NoVenue
  BY <1>2, <1>4, Apart DEF TypeInv, Shape
<1>8. rows' = [x \in Row |-> rows'[x]] /\ \A x \in Row : IsEntity(rows'[x])
  <2>1. rows = [x \in Row |-> rows[x]] /\ \A x \in Row : IsEntity(rows[x])
    BY DEF TypeInv, Shape
  <2>2. IsEntity([rows[v] EXCEPT !["link"] = u])
    BY <1>2, <2>1, WithColumn, Cells, Apart DEF Row
  <2>3. rows' = [rows EXCEPT ![v] = [rows[v] EXCEPT !["link"] = u]]
    BY <1>3
  <2> QED
    BY <2>1, <2>2, <2>3
<1>9. last' = [x \in Row |-> last'[x]] /\ \A x \in Row : last'[x] = [c \in Columns |-> last'[x][c]]
  <2>1. last = [x \in Row |-> last[x]] /\ \A x \in Row : last[x] = [c \in Columns |-> last[x][c]]
    BY DEF TypeInv, Shape
  <2>2. PICK e : e = [last[v] EXCEPT !["link"] = u]
    OBVIOUS
  <2>3. e = [c \in Columns |-> e[c]]
    BY <2>1, <2>2 DEF Row
  <2>4. last' = [last EXCEPT ![v] = e]
    BY <1>3, <2>2
  <2> QED
    BY <2>1, <2>3, <2>4
<1>10. /\ req' = [q \in Proc |-> req'[q]] /\ \A q \in Proc : IsRequest(req'[q])
       /\ req'[p] = NoRequest /\ \A q \in Proc \ {p} : req'[q] = req[q]
  BY <1>2, NothingRequested, OneRequest DEF TypeInv
<1>11. \A q \in Proc : SaneAt(q)'
  <2>1. SaneAt(p)'
    BY <1>10, NothingRequested DEF SaneAt, At
  <2> QED
    BY <1>5, <1>10, <2>1, OtherSane
<1>12. TypeOK'
  <2>1. \A x \in Row : /\ rows'[x]["link"] \in User \cup {None} /\ rows'[x]["text"] \in Nat
                       /\ \A kind \in Kind : rows'[x][kind] \in Key \cup {None}
    BY <1>8, Cells, Apart DEF IsEntity
  <2> QED
    BY <1>2, <1>4, <1>6, <2>1 DEF TypeInv, Shape, TypeOK
<1>13. Shape'
  BY <1>2, <1>7, <1>8, <1>9, <1>10, <1>12 DEF TypeInv, Shape
<1> QED
  BY <1>5, <1>11, <1>13 DEF TypeInv

IsRecord(r) ==
  r = [pc |-> r.pc, u |-> r.u, op |-> r.op, x |-> r.x, col |-> r.col, url |-> r.url, put |-> r.put,
       val |-> r.val, cols |-> r.cols, slug |-> r.slug, todo |-> r.todo, found |-> r.found]

LEMMA RequestRecord == ASSUME NEW q, IsRequest(q) PROVE IsRecord(q)
BY DEF IsRequest, IsRecord

(* One field at a time.                                                    *)
LEMMA WithField ==
  ASSUME NEW q, IsRecord(q), NEW n
  PROVE  /\ IsRecord([q EXCEPT !.pc = n]) /\ IsRecord([q EXCEPT !.x = n]) /\ IsRecord([q EXCEPT !.val = n])
         /\ IsRecord([q EXCEPT !.col = n]) /\ IsRecord([q EXCEPT !.put = n])
         /\ IsRecord([q EXCEPT !.cols = n]) /\ IsRecord([q EXCEPT !.slug = n])
         /\ IsRecord([q EXCEPT !.url = n]) /\ IsRecord([q EXCEPT !.op = n])
         /\ IsRecord([q EXCEPT !.todo = n]) /\ IsRecord([q EXCEPT !.found = n])
         /\ IsRecord([q EXCEPT !.u = n])
<1>1. IsRecord([q EXCEPT !.pc = n])
  BY DEF IsRecord
<1>2. IsRecord([q EXCEPT !.x = n])
  BY DEF IsRecord
<1>3. IsRecord([q EXCEPT !.val = n])
  BY DEF IsRecord
<1>4. IsRecord([q EXCEPT !.col = n])
  BY DEF IsRecord
<1>5. IsRecord([q EXCEPT !.put = n])
  BY DEF IsRecord
<1>6. IsRecord([q EXCEPT !.cols = n])
  BY DEF IsRecord
<1>7. IsRecord([q EXCEPT !.slug = n])
  BY DEF IsRecord
<1>8. IsRecord([q EXCEPT !.url = n])
  BY DEF IsRecord
<1>9. IsRecord([q EXCEPT !.op = n])
  BY DEF IsRecord
<1>10. IsRecord([q EXCEPT !.todo = n])
  BY DEF IsRecord
<1>11. IsRecord([q EXCEPT !.found = n])
  BY DEF IsRecord
<1>12. IsRecord([q EXCEPT !.u = n])
  BY DEF IsRecord
<1> QED
  BY <1>1, <1>2, <1>3, <1>4, <1>5, <1>6, <1>7, <1>8, <1>9, <1>10, <1>11, <1>12

LEMMA SaveRequest ==
  ASSUME NEW p, IsRequest(req[p]), NEW x \in Row, NEW val, IsEntity(val), NEW col \in Columns, NEW put
  PROVE  LET r == Save(p, x, val, col, put)
         IN /\ IsRequest(r) /\ r.pc = "select" /\ r.x = x /\ r.val = val /\ r.col = col /\ r.put = put
            /\ r.u = req[p].u /\ r.op = req[p].op /\ r.todo = req[p].todo /\ r.found = req[p].found
<1> DEFINE q == req[p]
           r == Save(p, x, val, col, put)
<1>1. /\ r.pc = "select" /\ r.x = x /\ r.val = val /\ r.col = col /\ r.put = put
      /\ r.u = q.u /\ r.op = q.op /\ r.todo = q.todo /\ r.found = q.found
      /\ r.url = q.url /\ r.cols = q.cols /\ r.slug = q.slug
  BY RequestRecord DEF IsRecord, Save
<1>2. IsRecord(r)
  <2> DEFINE r1 == [q EXCEPT !.pc = "select"]
             r2 == [r1 EXCEPT !.x = x]
             r3 == [r2 EXCEPT !.val = val]
             r4 == [r3 EXCEPT !.col = col]
             r5 == [r4 EXCEPT !.put = put]
  <2>1. r = r5
    BY Zenon DEF Save
  <2>2. IsRecord(r1)
    BY RequestRecord, WithField
  <2> HIDE DEF r1
  <2>3. IsRecord(r2)
    BY <2>2, WithField
  <2> HIDE DEF r2
  <2>4. IsRecord(r3)
    BY <2>3, WithField
  <2> HIDE DEF r3
  <2>5. IsRecord(r4)
    BY <2>4, WithField
  <2> HIDE DEF r4
  <2>6. IsRecord(r5)
    BY <2>5, WithField
  <2> HIDE DEF r5, r
  <2> QED
    BY <2>1, <2>6
<1> HIDE DEF r
<1>3. /\ q.u \in User \cup {None} /\ q.op \in {"call", "backfill"}
      /\ q.cols \in SUBSET Columns /\ q.slug \in Slug /\ q.todo \in SUBSET Vid
      /\ q.found = [v \in Vid |-> q.found[v]] /\ \A v \in Vid : IsEntity(q.found[v])
  BY DEF IsRequest
<1>4. r.x \in Row \cup {None} /\ r.col \in Columns /\ IsEntity(r.val) /\ r.pc \in Points
  BY <1>1 DEF Points
<1>5. IsRequest(r)
  BY <1>1, <1>2, <1>3, <1>4 DEF IsRequest, Points, IsRecord
<1> QED
  BY <1>1, <1>5 DEF r

LEMMA EnsureOwnerVenueLinkStep ==
  ASSUME TypeInv, NEW p \in Proc, EnsureOwnerVenueLink(p)
  PROVE  TypeInv'
<1>1. PICK u : u = req[p].u
  OBVIOUS
<1>2. /\ IsRequest(req[p]) /\ SaneAt(p) /\ u \in User /\ type[u] = "owner" /\ req[p].pc = "venue"
      /\ UNCHANGED <<needSlug, type, venues, rows, objects, now, calls, posted, clash, last>>
  BY <1>1 DEF TypeInv, Shape, SaneAt, EnsureOwnerVenueLink, At
<1>3. \/ req' = [req EXCEPT ![p].pc = "insert"] /\ raced' = raced
      \/ Finish(p) /\ raced' = raced
      \/ \E v \in VenuesOf(u) : /\ Hold(p, {v})
           /\ req' = [req EXCEPT ![p] = Save(p, v, [rows[v] EXCEPT !["link"] = u], "link", u)]
  BY <1>1 DEF EnsureOwnerVenueLink
<1>4. CASE req' = [req EXCEPT ![p].pc = "insert"] /\ raced' = raced
  <2> DEFINE r == [req[p] EXCEPT !.pc = "insert"]
  <2>1. IsRequest(r) /\ r.pc = "insert" /\ r.u = u /\ r.todo = req[p].todo /\ r.op = req[p].op
    BY <1>1, <1>2 DEF IsRequest
  <2>2. req' = [req EXCEPT ![p] = r] /\ req'[p] = r
    BY <1>4 DEF TypeInv, Shape
  <2> HIDE DEF r
  <2>3. SaneAt(p)'
    BY <1>2, <2>1, <2>2 DEF SaneAt, At
  <2> QED
    BY <1>2, <1>4, <2>1, <2>2, <2>3, Typed, RequestStep
<1>5. CASE Finish(p) /\ raced' = raced
  <2>1. req' = [req EXCEPT ![p] = NoRequest] /\ req'[p] = NoRequest
    BY <1>5 DEF Finish, TypeInv, Shape
  <2>2. SaneAt(p)'
    BY <2>1, NothingRequested DEF SaneAt, At
  <2> QED
    BY <1>2, <1>5, <2>1, <2>2, NothingRequested, Typed, RequestStep
<1>6. ASSUME NEW v \in VenuesOf(u), Hold(p, {v}),
             req' = [req EXCEPT ![p] = Save(p, v, [rows[v] EXCEPT !["link"] = u], "link", u)]
      PROVE  TypeInv'
  <2> DEFINE val == [rows[v] EXCEPT !["link"] = u]
             r == Save(p, v, val, "link", u)
  <2>1. v \in Vid /\ v \in Row /\ venues[v].owner = u
    BY DEF VenuesOf, Row
  <2>2. IsEntity(val)
    BY <1>2, <2>1, WithColumn, Cells, Apart DEF TypeInv, Shape
  <2>3. IsRequest(r) /\ r.pc = "select" /\ r.x = v /\ r.op = req[p].op /\ r.todo = req[p].todo
    BY <1>2, <2>1, <2>2, SaveRequest, Apart
  <2>4. req' = [req EXCEPT ![p] = r] /\ req'[p] = r
    BY <1>6 DEF TypeInv, Shape
  <2> HIDE DEF r
  <2>5. SaneAt(p)'
    BY <1>2, <2>1, <2>3, <2>4, Apart DEF SaneAt, At, OwnerOf
  <2>6. raced' \in [Row -> BOOLEAN]
    BY <1>6, HoldRaced
  <2> QED
    BY <1>2, <2>3, <2>4, <2>5, <2>6, Typed, RequestStep
<1> QED
  BY <1>3, <1>4, <1>5, <1>6

(* The list of old venues.                                                 *)
IsList(f) == f = [v \in Vid |-> f[v]] /\ \A v \in Vid : IsEntity(f[v])

(* The requests that calls begin.                                          *)
LEMMA LoopRequest ==
  ASSUME NEW todo \in SUBSET Vid, NEW found, IsList(found), NEW s,
         s = [Started("loop", None) EXCEPT !.op = "backfill", !.todo = todo, !.found = found]
  PROVE  /\ IsRequest(s) /\ s.pc = "loop" /\ s.op = "backfill" /\ s.todo = todo /\ s.found = found
         /\ s.x = None
<1> DEFINE q == Started("loop", None)
           r == [q EXCEPT !.op = "backfill", !.todo = todo, !.found = found]
<1>1. IsRequest(q)
  BY StartedRequest DEF Points
<1>2. /\ r.op = "backfill" /\ r.todo = todo /\ r.found = found /\ r.pc = "loop" /\ r.u = None
      /\ r.x = None /\ r.col = "text" /\ r.val = Empty /\ r.cols = {} /\ r.slug = NoSlug
  BY DEF Started
<1>3. IsRecord(r)
  <2> DEFINE r1 == [q EXCEPT !.op = "backfill"]
             r2 == [r1 EXCEPT !.todo = todo]
             r3 == [r2 EXCEPT !.found = found]
  <2>1. r = r3
    BY Zenon
  <2>2. IsRecord(r1)
    BY <1>1, RequestRecord, WithField
  <2> HIDE DEF r1
  <2>3. IsRecord(r2)
    BY <2>2, WithField
  <2> HIDE DEF r2
  <2>4. IsRecord(r3)
    BY <2>3, WithField
  <2> HIDE DEF r3, r
  <2> QED
    BY <2>1, <2>4
<1> HIDE DEF r
<1>4. IsRequest(r)
  BY <1>2, <1>3, EmptyEntity, SlugType, Apart DEF IsRequest, IsRecord, IsList
<1> QED
  BY <1>2, <1>4 DEF r

LEMMA InsertRequest ==
  ASSUME NEW u \in User, NEW slug \in Slug
  PROVE  LET s == [Started("insert", u) EXCEPT !.slug = slug]
         IN /\ IsRequest(s) /\ s.pc = "insert" /\ s.u = u /\ s.todo = {} /\ s.slug = slug
<1> DEFINE q == Started("insert", u)
           r == [q EXCEPT !.slug = slug]
<1>1. IsRequest(q)
  BY StartedRequest DEF Points
<1>2. /\ r.op = "call" /\ r.todo = {} /\ r.found = q.found /\ r.pc = "insert" /\ r.u = u
      /\ r.x = None /\ r.col = "text" /\ r.val = Empty /\ r.cols = {} /\ r.slug = slug
  BY DEF Started
<1>3. IsRecord(r)
  BY <1>1, RequestRecord, WithField
<1> HIDE DEF r
<1>4. IsRequest(r)
  BY <1>1, <1>2, <1>3, EmptyEntity, SlugType, Apart DEF IsRequest, IsRecord
<1> QED
  BY <1>2, <1>4 DEF r

(* ... that of a picture or a text of the row x.                           *)
LEMMA PostRequest ==
  ASSUME NEW pc \in Points, NEW u \in User, NEW x \in Row, NEW col \in Columns, NEW url, NEW put
  PROVE  IsRequest([Started(pc, u) EXCEPT !.x = x, !.col = col, !.url = url, !.put = put])
<1> DEFINE q == Started(pc, u)
           r == [q EXCEPT !.x = x, !.col = col, !.url = url, !.put = put]
<1>1. IsRequest(q)
  BY StartedRequest
<1>2. /\ r.op = "call" /\ r.todo = {} /\ r.found = q.found /\ r.pc = pc /\ r.u = u
      /\ r.x = x /\ r.col = col /\ r.val = Empty /\ r.cols = {} /\ r.slug = NoSlug
      /\ r.url = url /\ r.put = put
  BY DEF Started
<1>3. IsRecord(r)
  <2> DEFINE r1 == [q EXCEPT !.x = x]
             r2 == [r1 EXCEPT !.col = col]
             r3 == [r2 EXCEPT !.url = url]
             r4 == [r3 EXCEPT !.put = put]
  <2>1. r = r4
    BY Zenon
  <2>2. IsRecord(r1)
    BY <1>1, RequestRecord, WithField
  <2> HIDE DEF r1
  <2>3. IsRecord(r2)
    BY <2>2, WithField
  <2> HIDE DEF r2
  <2>4. IsRecord(r3)
    BY <2>3, WithField
  <2> HIDE DEF r3
  <2>5. IsRecord(r4)
    BY <2>4, WithField
  <2> HIDE DEF r4, r
  <2> QED
    BY <2>1, <2>5
<1> HIDE DEF r
<1>4. IsRequest(r)
  BY <1>1, <1>2, <1>3, EmptyEntity, SlugType, Apart DEF IsRequest, IsRecord, Points
<1> QED
  BY <1>2, <1>4 DEF r

LEMMA BackfillStep ==
  ASSUME TypeInv, NEW p \in Proc, BackfillVenueOwnerProfileIds(p)
  PROVE  TypeInv'
<1>0. PICK old, found, r :
        /\ old = {v \in Vid : venues[v] # NoVenue /\ rows[v]["link"] = None}
        /\ found = [v \in Vid |-> IF v \in old THEN rows[v] ELSE Empty]
        /\ r = [Started("loop", None) EXCEPT !.op = "backfill", !.todo = old, !.found = found]
  OBVIOUS
<1>1. /\ UNCHANGED <<needSlug, type, venues, rows, objects, now, posted, clash, last>>
      /\ req' = [req EXCEPT ![p] = r] /\ Hold(p, old) /\ calls' \in Nat
  BY <1>0, Typed DEF BackfillVenueOwnerProfileIds, Call
<1>2. IsList(found)
  BY <1>0, EmptyEntity DEF TypeInv, Shape, Row, IsList
<1>3. \A v \in old : venues[v].owner \in User
  BY <1>0 DEF TypeInv, Shape, TypeOK
<1>4. old \in SUBSET Vid
  BY <1>0
<1>5. IsRequest(r) /\ r.pc = "loop" /\ r.op = "backfill" /\ r.todo = old
  <2>1. r = [Started("loop", None) EXCEPT !.op = "backfill", !.todo = old, !.found = found]
    BY <1>0
  <2> HIDE <1>0
  <2>2. IsRequest(r)
    BY <1>2, <1>4, <2>1, LoopRequest
  <2>3. r.pc = "loop" /\ r.op = "backfill" /\ r.todo = old
    BY <2>1 DEF Started
  <2> QED
    BY <2>2, <2>3
<1>6. req'[p] = r
  BY <1>1 DEF TypeInv, Shape
<1>7. SaneAt(p)'
  BY <1>1, <1>3, <1>5, <1>6 DEF SaneAt, At
<1>8. raced' \in [Row -> BOOLEAN]
  BY <1>1, HoldRaced
<1> QED
  BY <1>1, <1>5, <1>7, <1>8, Typed, RequestStep

LEMMA BackfillNextStep ==
  ASSUME TypeInv, NEW p \in Proc, BackfillNext(p)
  PROVE  TypeInv'
<1>1. /\ UNCHANGED <<needSlug, type, venues, rows, objects, now, calls, history>>
      /\ IsRequest(req[p]) /\ SaneAt(p) /\ req[p].pc = "loop" /\ req[p].todo \subseteq Vid
      /\ req[p].op = "backfill"
  BY DEF BackfillNext, At, TypeInv, Shape, SaneAt, IsRequest
<1>2. \/ Finish(p)
      \/ \E v \in req[p].todo : Link(p, v)
      \/ \E v \in req[p].todo : req' = [req EXCEPT ![p].pc = "profile", ![p].u = venues[v].owner]
  BY DEF BackfillNext
<1>3. ASSUME NEW r, IsRequest(r), req' = [req EXCEPT ![p] = r], req'[p] = r => SaneAt(p)'
      PROVE  TypeInv'
  <2>1. SaneAt(p)'
    BY <1>3 DEF TypeInv, Shape
  <2> QED
    BY <1>1, <1>3, <2>1, Typed, RequestStep DEF history
<1>4. CASE Finish(p)
  BY <1>3, <1>4, NothingRequested DEF Finish, SaneAt, At
<1>5. ASSUME NEW v \in req[p].todo, Link(p, v) PROVE TypeInv'
  <2> DEFINE u == venues[v].owner
             val == [req[p].found[v] EXCEPT !["link"] = u]
             r == Save(p, v, val, "link", u)
  <2>1. v \in Vid /\ v \in Row /\ u \in User /\ IsEntity(req[p].found[v])
    BY <1>1 DEF Row, SaneAt, IsRequest
  <2>2. IsEntity(val)
    BY <2>1, WithColumn, Cells, Apart
  <2>3. req' = [req EXCEPT ![p] = r]
    BY <1>5 DEF Link
  <2>4. IsRequest(r) /\ r.pc = "select" /\ r.x = v /\ r.todo = req[p].todo
    BY <1>1, <2>1, <2>2, SaveRequest, Apart
  <2> HIDE DEF r
  <2>5. ASSUME req'[p] = r PROVE SaneAt(p)'
    BY <1>1, <2>1, <2>4, <2>5, Apart DEF SaneAt, At, OwnerOf
  <2> QED
    BY <1>3, <2>3, <2>4, <2>5
<1>6. ASSUME NEW v \in req[p].todo, req' = [req EXCEPT ![p].pc = "profile", ![p].u = venues[v].owner]
      PROVE  TypeInv'
  <2> DEFINE q == req[p]
             a == [q EXCEPT !.pc = "profile"]
             r == [a EXCEPT !.u = venues[v].owner]
  <2>1. v \in Vid /\ venues[v].owner \in User
    BY <1>1 DEF SaneAt
  <2>2. IsRecord(a)
    BY <1>1, RequestRecord, WithField
  <2>3. /\ r.pc = "profile" /\ r.u = venues[v].owner /\ r.op = q.op /\ r.x = q.x /\ r.col = q.col
        /\ r.url = q.url /\ r.put = q.put /\ r.val = q.val /\ r.cols = q.cols /\ r.slug = q.slug
        /\ r.todo = q.todo /\ r.found = q.found
    BY <1>1, RequestRecord DEF IsRecord
  <2>4. req' = [req EXCEPT ![p] = r]
    BY <1>6
  <2>5. IsRecord(r)
    <3> HIDE DEF a
    <3> QED
      BY <2>2, WithField
  <2> HIDE DEF r
  <2>6. IsRequest(r)
    BY <1>1, <2>1, <2>3, <2>5 DEF IsRequest, IsRecord
  <2>7. ASSUME req'[p] = r PROVE SaneAt(p)'
    BY <1>1, <2>1, <2>3, <2>7 DEF SaneAt, At
  <2> QED
    BY <1>3, <2>4, <2>6, <2>7
<1> QED
  BY <1>2, <1>4, <1>5, <1>6

(* What the calls that change one request make of it.                      *)
Created(p, r, u) ==
  /\ IsRequest(r) /\ r.pc = "insert" /\ r.u = u /\ r.todo = {} /\ type[u] = "owner"
  /\ req' = [req EXCEPT ![p] = r] /\ req'[p] = r
  /\ now' \in 1..MaxTime /\ calls' \in Nat
  /\ UNCHANGED <<needSlug, type, venues, rows, objects, history>>

LEMMA CreateRequest ==
  ASSUME TypeInv, NEW p \in Proc, NEW u \in User, NEW name \in Name, Create(p, u, name)
  PROVE  \E r : Created(p, r, u)
<1>1. PICK slug : slug = MakeUniqueSlug(name, now')
  OBVIOUS
<1>2. PICK r : r = [Started("insert", u) EXCEPT !.slug = slug]
  OBVIOUS
<1>3. /\ UNCHANGED <<needSlug, type, venues, rows, objects, history>> /\ calls' \in Nat
      /\ type[u] = "owner" /\ now' \in 1..MaxTime
  BY Typed, Apart DEF Create, Call, HasProfile, InsertAs, ReadClock
<1>4. req' = [req EXCEPT ![p] = r]
  BY <1>1, <1>2 DEF Create, InsertAs
<1>5. slug \in Slug
  <2>1. now' \in 0..MaxTime
    BY <1>3, Apart
  <2>2. /\ [name |-> name, try |-> 0, ms |-> 0] \in Slug
        /\ [name |-> name, try |-> 1, ms |-> now'] \in Slug
        /\ [name |-> name, try |-> 2, ms |-> now'] \in Slug
    BY <2>1, Apart DEF Slug
  <2> QED
    BY <1>1, <2>2, Zenon DEF MakeUniqueSlug
<1>6. IsRequest(r) /\ r.pc = "insert" /\ r.u = u /\ r.todo = {}
  BY <1>2, <1>5, InsertRequest
<1>7. req'[p] = r
  BY <1>4 DEF TypeInv, Shape
<1>8. Created(p, r, u)
  BY <1>3, <1>4, <1>6, <1>7 DEF Created
<1> QED
  BY <1>8

LEMMA CreateStep ==
  ASSUME TypeInv, NEW p \in Proc, NEW u \in User, NEW name \in Name, Create(p, u, name)
  PROVE  TypeInv'
<1>1. PICK r : Created(p, r, u)
  BY CreateRequest
<1>2. SaneAt(p)'
  BY <1>1 DEF SaneAt, At, Created
<1> QED
  BY <1>1, <1>2, Typed, RequestStep DEF history, Created

Uploaded(p, r, u, x, kind, key) ==
  /\ IsRequest(r) /\ r.pc = "put" /\ r.u = u /\ r.todo = {} /\ r.x = x /\ r.col = kind
  /\ key = <<u, kind, now'>> /\ key \in Key /\ key[1] = u /\ r.url = key
  /\ r.op = "call" /\ r.put \in Nat
  /\ req' = [req EXCEPT ![p] = r] /\ req'[p] = r
  /\ now' \in 1..MaxTime /\ calls' \in Nat
  /\ posted' = posted \cup {key}
  /\ clash' = IF key \in posted THEN clash \cup {u} ELSE clash
  /\ UNCHANGED <<needSlug, type, venues, rows, objects, last, raced>>

LEMMA UploadRequest ==
  ASSUME TypeInv, NEW p \in Proc, NEW u \in User, NEW x \in Row, NEW kind \in Kind, Upload(p, u, x, kind)
  PROVE  \E r, key : Uploaded(p, r, u, x, kind, key)
<1>1. PICK r, key, put :
        /\ r = [Started("put", u) EXCEPT !.x = x, !.col = kind, !.url = key, !.put = put]
        /\ key = <<u, kind, now'>> /\ put = calls'
  OBVIOUS
<1>2. /\ UNCHANGED <<needSlug, type, venues, rows, objects, last, raced>>
      /\ posted' = posted \cup {key}
      /\ clash' = IF key \in posted THEN clash \cup {u} ELSE clash
      /\ req' = [req EXCEPT ![p] = r]
  BY <1>1 DEF Upload, KeyOf
<1>3. calls' \in Nat /\ now' \in 1..MaxTime
  BY Typed, Apart DEF Upload, Call, ReadClock
<1>4. now' \in 0..MaxTime
  BY <1>3, Apart
<1>5. key \in Key /\ key[1] = u
  BY <1>1, <1>4 DEF Key
<1>6. /\ IsRequest(r) /\ r.pc = "put" /\ r.u = u /\ r.todo = {} /\ r.x = x /\ r.col = kind /\ r.url = key
      /\ r.op = "call" /\ r.put \in Nat
  <2>0. "put" \in Points /\ kind \in Columns
    BY Apart DEF Points
  <2>1. IsRequest(r)
    BY <1>1, <2>0, PostRequest, Zenon
  <2>2. /\ r.pc = "put" /\ r.u = u /\ r.todo = {} /\ r.x = x /\ r.col = kind /\ r.url = key
        /\ r.op = "call" /\ r.put \in Nat
    BY <1>1, <1>3 DEF Started
  <2> QED
    BY <2>1, <2>2
<1>7. req'[p] = r
  BY <1>2 DEF TypeInv, Shape
<1>8. Uploaded(p, r, u, x, kind, key)
  BY <1>1, <1>2, <1>3, <1>5, <1>6, <1>7 DEF Uploaded
<1> QED
  BY <1>8

LEMMA UploadStep ==
  ASSUME TypeInv, NEW p \in Proc, NEW u \in User, NEW x \in Row, NEW kind \in Kind, Upload(p, u, x, kind),
         OwnerOf(x) = u
  PROVE  TypeInv'
<1>1. PICK r, key : Uploaded(p, r, u, x, kind, key)
  BY UploadRequest
<1>2. OwnerOf(x)' = u
  BY <1>1 DEF OwnerOf, Uploaded
<1>3. SaneAt(p)'
  BY <1>1, <1>2, Apart DEF SaneAt, At, Uploaded
<1>4. posted' \subseteq Key /\ clash' \subseteq User
  BY <1>1, Typed DEF Uploaded
<1> QED
  BY <1>1, <1>3, <1>4, Typed, RequestStep DEF Uploaded

LEMMA OwnRows ==
  /\ \A u \in User : u \in Row /\ OwnerOf(u) = u
  /\ \A u \in User : \A v \in VenuesOf(u) : v \in Row /\ v \in Vid /\ OwnerOf(v) = u
BY Apart DEF Row, OwnerOf, VenuesOf

Texted(p, r, u) ==
  /\ IsRequest(r) /\ r.pc = "read" /\ r.u = u /\ r.todo = {} /\ r.x = u /\ r.col = "text"
  /\ r.url \in Nat /\ r.put = r.url /\ r.op = "call"
  /\ req' = [req EXCEPT ![p] = r] /\ req'[p] = r /\ calls' \in Nat
  /\ UNCHANGED <<needSlug, type, venues, rows, objects, now, history>>

LEMMA PatchMeRequest ==
  ASSUME TypeInv, NEW p \in Proc, NEW u \in User, PatchMe(p, u)
  PROVE  \E r : Texted(p, r, u)
<1>1. PICK r, put :
        /\ r = [Started("read", u) EXCEPT !.x = u, !.col = "text", !.url = put, !.put = put]
        /\ put = calls'
  OBVIOUS
<1>2. /\ UNCHANGED <<needSlug, type, venues, rows, objects, now, history>>
      /\ req' = [req EXCEPT ![p] = r]
  BY <1>1 DEF PatchMe
<1>3. calls' \in Nat
  BY Typed DEF PatchMe, Call
<1>4. IsRequest(r)
  <2>1. "read" \in Points /\ "text" \in Columns /\ u \in Row
    BY Apart, OwnRows DEF Points
  <2> QED
    BY <1>1, <2>1, PostRequest
<1>5. /\ r.pc = "read" /\ r.u = u /\ r.todo = {} /\ r.x = u /\ r.col = "text"
      /\ r.url = put /\ r.put = put /\ r.op = "call"
  BY <1>1 DEF Started
<1>6. req'[p] = r
  BY <1>2 DEF TypeInv, Shape
<1>7. Texted(p, r, u)
  BY <1>1, <1>2, <1>3, <1>4, <1>5, <1>6 DEF Texted
<1> QED
  BY <1>7

LEMMA PatchMeStep ==
  ASSUME TypeInv, NEW p \in Proc, NEW u \in User, PatchMe(p, u)
  PROVE  TypeInv'
<1>1. PICK r : Texted(p, r, u)
  BY PatchMeRequest
<1>2. OwnerOf(u)' = u /\ u \in Row
  BY OwnRows, Apart DEF OwnerOf
<1>3. SaneAt(p)'
  BY <1>1, <1>2, Apart DEF SaneAt, At, Texted
<1> QED
  BY <1>1, <1>3, Typed, RequestStep DEF history, Texted

(* Only the next statement of a request changes.                           *)
LEMMA MovedRequest ==
  ASSUME NEW q, IsRequest(q), NEW pc \in Points
  PROVE  LET r == [q EXCEPT !.pc = pc]
         IN /\ IsRequest(r) /\ r.pc = pc /\ r.u = q.u /\ r.op = q.op /\ r.x = q.x /\ r.col = q.col
            /\ r.url = q.url /\ r.put = q.put /\ r.val = q.val /\ r.todo = q.todo /\ r.found = q.found
            /\ r.cols = q.cols
<1> DEFINE r == [q EXCEPT !.pc = pc]
<1>1. IsRecord(r)
  BY RequestRecord, WithField
<1>2. /\ r.pc = pc /\ r.u = q.u /\ r.op = q.op /\ r.x = q.x /\ r.col = q.col /\ r.cols = q.cols
      /\ r.url = q.url /\ r.put = q.put /\ r.val = q.val /\ r.todo = q.todo /\ r.found = q.found
      /\ r.slug = q.slug
  BY RequestRecord DEF IsRecord
<1> HIDE DEF r
<1>3. IsRequest(r)
  BY <1>1, <1>2 DEF IsRequest, IsRecord, Points
<1> QED
  BY <1>2, <1>3 DEF r

Stored(p, r) ==
  /\ IsRequest(r) /\ r.pc = "read" /\ r.u = req[p].u /\ r.todo = req[p].todo
  /\ r.x = req[p].x /\ r.col = req[p].col /\ r.url = req[p].url /\ r.put = req[p].put
  /\ r.found = req[p].found /\ r.op = req[p].op
  /\ req' = [req EXCEPT ![p] = r] /\ req'[p] = r

LEMMA PutObjectRequest ==
  ASSUME TypeInv, NEW p \in Proc, PutObject(p)
  PROVE  \E r : Stored(p, r)
<1>1. PICK r : r = [req[p] EXCEPT !.pc = "read"]
  OBVIOUS
<1>2. req' = [req EXCEPT ![p] = r]
  BY <1>1 DEF PutObject
<1>3. req'[p] = r /\ IsRequest(req[p])
  BY <1>2 DEF TypeInv, Shape
<1>4. /\ IsRequest(r) /\ r.pc = "read" /\ r.u = req[p].u /\ r.todo = req[p].todo
      /\ r.x = req[p].x /\ r.col = req[p].col /\ r.url = req[p].url /\ r.put = req[p].put
      /\ r.found = req[p].found /\ r.op = req[p].op
  <2>1. "read" \in Points
    BY DEF Points
  <2>2. IsRequest(r)
    BY <1>1, <1>3, <2>1, MovedRequest
  <2> QED
    BY <1>1, <1>3, <2>2, RequestRecord DEF IsRecord
<1>5. Stored(p, r)
  BY <1>2, <1>3, <1>4 DEF Stored
<1> QED
  BY <1>5

LEMMA PutObjectStep ==
  ASSUME TypeInv, NEW p \in Proc, PutObject(p)
  PROVE  TypeInv'
<1>1. PICK r : Stored(p, r)
  BY PutObjectRequest
<1>2. /\ UNCHANGED <<needSlug, type, venues, rows, now, calls, history>>
      /\ objects' = [objects EXCEPT ![req[p].url] = req[p].put] /\ req[p].pc = "put"
  BY DEF PutObject, At
<1>3. SaneAt(p)
  BY DEF TypeInv
<1>4. req[p].put \in Nat
  BY <1>2, <1>3 DEF SaneAt, At
<1>5. objects' \in [Key -> Nat]
  BY <1>2, <1>4, Typed
<1>6. PICK x : x = req[p].x /\ OwnerOf(x)' = OwnerOf(x)
  BY <1>2 DEF OwnerOf
<1>7. SaneAt(p)'
  BY <1>1, <1>2, <1>3, <1>6 DEF SaneAt, At, Stored
<1> QED
  BY <1>1, <1>2, <1>5, <1>7, Typed, RequestStep DEF history, Stored

(* The entity that a patch saves: the row, with its picture or its text.   *)
Patched(p, r, x) ==
  /\ IsRequest(r) /\ r.pc = "select" /\ r.x = x /\ r.col = req[p].col /\ r.put = req[p].put
  /\ r.u = req[p].u /\ r.op = req[p].op /\ r.todo = req[p].todo /\ r.found = req[p].found
  /\ \A c \in Columns : r.val[c] = IF c = r.col THEN req[p].url ELSE rows[x][c]
  /\ req' = [req EXCEPT ![p] = r] /\ req'[p] = r
  /\ req[p].pc = "read" /\ req[p].x = x /\ OwnerOf(x) = req[p].u /\ req[p].u \in User
  /\ r.col # "link" /\ r.col \in Columns /\ Hold(p, {x})
  /\ UNCHANGED <<needSlug, type, venues, rows, objects, now, calls, posted, clash, last>>

LEMMA PatchRequest ==
  ASSUME TypeInv, NEW p \in Proc, NEW x \in Row,
         Patch(p, x, [rows[x] EXCEPT ![req[p].col] = req[p].url])
  PROVE  \E r : Patched(p, r, x)
<1> DEFINE val == [rows[x] EXCEPT ![req[p].col] = req[p].url]
           r == Save(p, x, val, req[p].col, req[p].put)
<1>1. /\ req' = [req EXCEPT ![p] = r] /\ req[p].pc = "read" /\ req[p].x = x /\ Hold(p, {x})
      /\ UNCHANGED <<needSlug, type, venues, rows, objects, now, calls, posted, clash, last>>
  BY DEF Patch, At
<1>2. IsRequest(req[p]) /\ SaneAt(p) /\ IsEntity(rows[x])
  BY DEF TypeInv, Shape
<1>3. req[p].col \in Columns /\ req[p].col # "link" /\ OwnerOf(x) = req[p].u /\ req[p].u \in User
  BY <1>1, <1>2 DEF SaneAt, IsRequest
<1>4. req[p].url \in Cell(req[p].col)
  BY <1>1, <1>2, <1>3, Cells DEF SaneAt, Columns
<1>5. IsEntity(val) /\ \A c \in Columns : val[c] = IF c = req[p].col THEN req[p].url ELSE rows[x][c]
  BY <1>2, <1>3, <1>4, WithColumn
<1> HIDE DEF val
<1>6. /\ IsRequest(r) /\ r.pc = "select" /\ r.x = x /\ r.val = val /\ r.col = req[p].col
      /\ r.put = req[p].put /\ r.u = req[p].u /\ r.op = req[p].op /\ r.todo = req[p].todo
      /\ r.found = req[p].found
  BY <1>2, <1>3, <1>5, SaveRequest
<1> HIDE DEF r
<1>7. req'[p] = r
  BY <1>1 DEF TypeInv, Shape
<1>8. Patched(p, r, x)
  BY <1>1, <1>3, <1>5, <1>6, <1>7 DEF Patched
<1> QED
  BY <1>8

LEMMA PatchStep ==
  ASSUME TypeInv, NEW p \in Proc, NEW x \in Row,
         Patch(p, x, [rows[x] EXCEPT ![req[p].col] = req[p].url])
  PROVE  TypeInv'
<1>1. PICK r : Patched(p, r, x)
  BY PatchRequest
<1>2. OwnerOf(x)' = OwnerOf(x)
  BY <1>1 DEF OwnerOf, Patched
<1>3. \A v \in req[p].todo : venues[v].owner \in User
  BY DEF TypeInv, SaneAt
<1>4. SaneAt(p)'
  BY <1>1, <1>2, <1>3 DEF SaneAt, At, Patched
<1>5. raced' \in [Row -> BOOLEAN]
  BY <1>1, HoldRaced DEF Patched
<1> QED
  BY <1>1, <1>4, <1>5, Typed, RequestStep DEF Patched

Compared(p, r) ==
  /\ IsRequest(r) /\ r.pc = "update" /\ r.x = req[p].x /\ r.col = req[p].col
  /\ r.put = req[p].put /\ r.u = req[p].u /\ r.op = req[p].op /\ r.todo = req[p].todo
  /\ r.found = req[p].found /\ r.val = req[p].val
  /\ r.cols = {c \in Columns : r.val[c] # rows[r.x][c]}
  /\ req' = [req EXCEPT ![p] = r] /\ req'[p] = r /\ req[p].pc = "select"
  /\ UNCHANGED <<needSlug, type, venues, rows, objects, now, calls, history>>

LEMMA SelectRequest ==
  ASSUME TypeInv, NEW p \in Proc, Select(p)
  PROVE  \E r : Compared(p, r)
<1> DEFINE q == req[p]
           a == [q EXCEPT !.pc = "update"]
           cols == {c \in Columns : req[p].val[c] # rows[req[p].x][c]}
           r == [a EXCEPT !.cols = cols]
<1>1. /\ req' = [req EXCEPT ![p] = r] /\ q.pc = "select"
      /\ UNCHANGED <<needSlug, type, venues, rows, objects, now, calls, history>>
  BY DEF Select, At
<1>2. IsRequest(q)
  BY DEF TypeInv, Shape
<1> HIDE DEF cols
<1>3. IsRecord(a)
  BY <1>2, RequestRecord, WithField
<1>4. IsRecord(r)
  <2> HIDE DEF a
  <2> QED
    BY <1>3, WithField
<1>5. /\ r.pc = "update" /\ r.x = q.x /\ r.col = q.col /\ r.put = q.put /\ r.u = q.u /\ r.op = q.op
      /\ r.todo = q.todo /\ r.found = q.found /\ r.val = q.val /\ r.cols = cols /\ r.url = q.url
      /\ r.slug = q.slug
  BY <1>2, RequestRecord DEF IsRecord
<1>6. cols \in SUBSET Columns
  BY DEF cols
<1> HIDE DEF r
<1>7. IsRequest(r)
  BY <1>2, <1>4, <1>5, <1>6 DEF IsRequest, IsRecord
<1>8. r.cols = {c \in Columns : r.val[c] # rows[r.x][c]}
  BY <1>5 DEF cols
<1>9. req'[p] = r
  BY <1>1 DEF TypeInv, Shape
<1>10. Compared(p, r)
  BY <1>1, <1>5, <1>7, <1>8, <1>9 DEF Compared
<1> QED
  BY <1>10

LEMMA SelectStep ==
  ASSUME TypeInv, NEW p \in Proc, Select(p)
  PROVE  TypeInv'
<1>1. PICK r : Compared(p, r)
  BY SelectRequest
<1>2. SaneAt(p)
  BY DEF TypeInv
<1>3. PICK x : x = req[p].x /\ OwnerOf(x)' = OwnerOf(x)
  BY <1>1 DEF OwnerOf, Compared
<1>4. SaneAt(p)'
  BY <1>1, <1>2, <1>3 DEF SaneAt, At, Compared
<1> QED
  BY <1>1, <1>4, Typed, RequestStep DEF history, Compared

(* What an update does: the columns that differed are those of the entity. *)
Updated(p, r, x, row) ==
  /\ x = req[p].x /\ x \in Row /\ OwnerOf(x) \in User /\ req[p].pc = "update"
  /\ IsEntity(row) /\ rows' = [rows EXCEPT ![x] = row]
  /\ \A c \in Columns : row[c] = IF c \in req[p].cols THEN req[p].val[c] ELSE rows[x][c]
  /\ last' = [last EXCEPT ![x][req[p].col] = req[p].put]
  /\ IsRequest(r) /\ req' = [req EXCEPT ![p] = r] /\ req'[p] = r
  /\ \/ r = NoRequest
     \/ /\ r.pc = "loop" /\ r.op = "backfill" /\ r.todo = req[p].todo \ {x}
        /\ \A v \in r.todo : r.found[v] = req[p].found[v]
  /\ UNCHANGED <<needSlug, type, venues, objects, now, calls, posted, clash, raced>>

LEMMA UpdateRequest ==
  ASSUME TypeInv, NEW p \in Proc, Update(p)
  PROVE  \E r, x, row : Updated(p, r, x, row)
<1>1. PICK q, x, row :
        /\ q = req[p] /\ x = q.x
        /\ row = [c \in Columns |-> IF c \in q.cols THEN q.val[c] ELSE rows[x][c]]
  OBVIOUS
<1>2. IsRequest(q) /\ SaneAt(p)
  BY <1>1 DEF TypeInv, Shape
<1>3. /\ req[p].pc = "update"
      /\ rows' = [rows EXCEPT ![x] = row]
      /\ last' = [last EXCEPT ![x][q.col] = q.put]
      /\ UNCHANGED <<needSlug, type, venues, objects, now, calls, posted, clash, raced>>
  BY <1>1 DEF Update, At
<1>4. x \in Row /\ OwnerOf(x) \in User
  BY <1>1, <1>2, <1>3 DEF SaneAt
<1>5. IsEntity(rows[x]) /\ IsEntity(q.val) /\ q.cols \subseteq Columns
  BY <1>2, <1>4 DEF TypeInv, Shape, IsRequest
<1>6. IsEntity(row)
  <2>1. row = [c \in Columns |-> row[c]] /\ \A c \in Columns : row[c] \in {q.val[c], rows[x][c]}
    BY <1>1
  <2> QED
    BY <1>5, <2>1 DEF IsEntity
<1>7. \A c \in Columns : row[c] = IF c \in q.cols THEN q.val[c] ELSE rows[x][c]
  BY <1>1
<1>8. PICK r, todo, found :
        /\ todo = q.todo \ {x} /\ found = [q.found EXCEPT ![x] = Empty]
        /\ r = IF q.op = "backfill"
               THEN [Started("loop", None) EXCEPT !.op = "backfill", !.todo = todo, !.found = found]
               ELSE NoRequest
  OBVIOUS
<1>9. req' = [req EXCEPT ![p] = r]
  <2>1. CASE q.op = "backfill"
    BY <1>1, <1>8, <2>1 DEF Update
  <2>2. CASE q.op # "backfill"
    BY <1>1, <1>8, <2>2 DEF Update, Finish
  <2> QED
    BY <2>1, <2>2
<1>10. req'[p] = r
  BY <1>9 DEF TypeInv, Shape
<1>11. /\ IsRequest(r)
       /\ \/ r = NoRequest
          \/ /\ r.pc = "loop" /\ r.op = "backfill" /\ r.todo = todo
             /\ \A v \in r.todo : r.found[v] = q.found[v]
  <2>1. CASE q.op = "backfill"
    <3>1. todo \in SUBSET Vid /\ IsList(q.found)
      BY <1>2, <1>8 DEF IsRequest, IsList
    <3>2. IsList(found) /\ \A v \in todo : found[v] = q.found[v]
      BY <1>8, <3>1, EmptyEntity DEF IsList
    <3>3. r = [Started("loop", None) EXCEPT !.op = "backfill", !.todo = todo, !.found = found]
      BY <1>8, <2>1
    <3>4. IsRequest(r)
      <4> HIDE <1>8, <1>9
      <4> QED
        BY <3>1, <3>2, <3>3, LoopRequest
    <3>5. r.pc = "loop" /\ r.op = "backfill" /\ r.todo = todo /\ r.found = found
      BY <3>3 DEF Started
    <3> QED
      BY <3>2, <3>4, <3>5
  <2>2. CASE q.op # "backfill"
    BY <1>8, <2>2, NothingRequested
  <2> QED
    BY <2>1, <2>2
<1>12. /\ x = req[p].x
       /\ \A c \in Columns : row[c] = IF c \in req[p].cols THEN req[p].val[c] ELSE rows[x][c]
       /\ last' = [last EXCEPT ![x][req[p].col] = req[p].put]
  BY <1>1, <1>3, <1>7
<1>13. \/ r = NoRequest
       \/ /\ r.pc = "loop" /\ r.op = "backfill" /\ r.todo = req[p].todo \ {x}
          /\ \A v \in r.todo : r.found[v] = req[p].found[v]
  BY <1>1, <1>8, <1>11
<1> HIDE <1>1, <1>7, <1>8
<1>14. Updated(p, r, x, row)
  BY <1>3, <1>4, <1>6, <1>9, <1>10, <1>11, <1>12, <1>13 DEF Updated
<1> QED
  BY <1>14

LEMMA UpdateStep ==
  ASSUME TypeInv, NEW p \in Proc, Update(p)
  PROVE  TypeInv'
<1>1. PICK r, x, row : Updated(p, r, x, row)
  BY UpdateRequest
<1>2. /\ UNCHANGED <<needSlug, type, venues, objects, now, calls, posted, clash, raced>>
      /\ x \in Row /\ IsEntity(row) /\ rows' = [rows EXCEPT ![x] = row]
      /\ IsRequest(r) /\ req' = [req EXCEPT ![p] = r] /\ req'[p] = r
  BY <1>1 DEF Updated
<1>3. Kept
  BY <1>2 DEF Kept
<1>4. rows' = [y \in Row |-> rows'[y]] /\ \A y \in Row : IsEntity(rows'[y])
  BY <1>2 DEF TypeInv, Shape
<1>5. last' = [y \in Row |-> last'[y]] /\ \A y \in Row : last'[y] = [c \in Columns |-> last'[y][c]]
  <2>1. last = [y \in Row |-> last[y]] /\ \A y \in Row : last[y] = [c \in Columns |-> last[y][c]]
    BY DEF TypeInv, Shape
  <2>2. PICK e : e = [last[x] EXCEPT ![req[p].col] = req[p].put]
    OBVIOUS
  <2>3. e = [c \in Columns |-> e[c]]
    BY <1>2, <2>1, <2>2
  <2>4. last' = [last EXCEPT ![x] = e]
    BY <1>1, <2>2 DEF Updated
  <2> QED
    BY <2>1, <2>3, <2>4
<1>6. /\ req' = [q \in Proc |-> req'[q]] /\ \A q \in Proc : IsRequest(req'[q])
      /\ \A q \in Proc \ {p} : req'[q] = req[q]
  BY <1>2, OneRequest DEF TypeInv
<1>7. SaneAt(p)'
  <2>1. \A v \in req[p].todo : venues[v].owner \in User
    BY DEF TypeInv, SaneAt
  <2>2. CASE r = NoRequest
    BY <1>2, <2>2, NothingRequested DEF SaneAt, At
  <2>3. CASE /\ r.pc = "loop" /\ r.op = "backfill" /\ r.todo = req[p].todo \ {x}
    BY <1>2, <2>1, <2>3 DEF SaneAt, At
  <2> QED
    BY <1>1, <2>2, <2>3 DEF Updated
<1>8. \A q \in Proc : SaneAt(q)'
  BY <1>3, <1>6, <1>7, OtherSane
<1>9. TypeOK'
  <2>1. \A y \in Row : /\ rows'[y]["link"] \in User \cup {None} /\ rows'[y]["text"] \in Nat
                       /\ \A kind \in Kind : rows'[y][kind] \in Key \cup {None}
    BY <1>4, Cells, Apart DEF IsEntity
  <2> QED
    BY <1>2, <2>1 DEF TypeInv, Shape, TypeOK
<1>10. Shape'
  BY <1>2, <1>4, <1>5, <1>6, <1>9 DEF TypeInv, Shape
<1> QED
  BY <1>8, <1>10 DEF TypeInv

LEMMA StopStep ==
  ASSUME TypeInv, NEW p \in Proc, Stop(p)
  PROVE  TypeInv'
<1>1. /\ UNCHANGED <<needSlug, type, venues, rows, objects, now, calls, history>>
      /\ req' = [req EXCEPT ![p] = NoRequest]
  BY DEF Stop, Finish
<1>2. req'[p] = NoRequest
  BY <1>1 DEF TypeInv, Shape
<1>3. SaneAt(p)'
  BY <1>2, NothingRequested DEF SaneAt, At
<1> QED
  BY <1>1, <1>3, NothingRequested, Typed, RequestStep DEF history

(* A step of a handler, those of pictures and those of patches as one.     *)
Step(p) ==
  \/ CreateForUser(p) \/ EnsureOwnerVenueLink(p) \/ InsertVenue(p)
  \/ BackfillNext(p) \/ PutObject(p) \/ Select(p) \/ Update(p) \/ Stop(p)
  \/ BackfillVenueOwnerProfileIds(p)
  \/ \E u \in User : Seed(p, u) \/ PatchMe(p, u)
  \/ \E u \in User, name \in Name : Create(p, u, name)
  \/ \E u \in User, x \in Row, kind \in Kind : OwnerOf(x) = u /\ Upload(p, u, x, kind)
  \/ \E x \in Row : Patch(p, x, [rows[x] EXCEPT ![req[p].col] = req[p].url])

LEMMA Steps == ASSUME Next PROVE \E p \in Proc : Step(p)
<1> USE DEF Step
<1>1. CASE \E p \in Proc : Statement(p) \/ Stop(p) \/ BackfillVenueOwnerProfileIds(p)
  BY <1>1 DEF Statement
<1>2. CASE \E p \in Proc, u \in User : Seed(p, u) \/ PatchMe(p, u)
  BY <1>2
<1>3. CASE \E p \in Proc, u \in User : UpdateForUser(p, u)
  BY <1>3, OwnRows DEF UpdateForUser
<1>4. CASE \E p \in Proc, v \in Vid : UpdateMedia(p, v)
  BY <1>4 DEF UpdateMedia, Row
<1>5. CASE \E p \in Proc, u \in User, name \in Name : Create(p, u, name)
  BY <1>5
<1>6. CASE \E p \in Proc, u \in User, kind \in Kind : UploadProfileImage(p, u, kind)
  BY <1>6, OwnRows DEF UploadProfileImage
<1>7. CASE \E p \in Proc, u \in User, v \in Vid, kind \in Kind : UploadVenueImage(p, u, v, kind)
  BY <1>7, OwnRows DEF UploadVenueImage
<1> QED
  BY <1>1, <1>2, <1>3, <1>4, <1>5, <1>6, <1>7 DEF Next

LEMMA StepType ==
  ASSUME TypeInv, NEW p \in Proc, Step(p) PROVE TypeInv'
BY CreateForUserStep, EnsureOwnerVenueLinkStep, InsertVenueStep, BackfillNextStep, PutObjectStep, SelectStep,
   UpdateStep, StopStep, BackfillStep, SeedStep, PatchMeStep, CreateStep, UploadStep, PatchStep DEF Step

LEMMA NextType == TypeInv /\ [Next]_vars => TypeInv'
<1> SUFFICES ASSUME TypeInv, [Next]_vars PROVE TypeInv'
  OBVIOUS
<1>1. CASE UNCHANGED vars
  BY <1>1 DEF vars, history, TypeInv, Shape, TypeOK, SaneAt, At, OwnerOf, IsRequest
<1>2. CASE Next
  BY <1>2, Steps, StepType
<1> QED
  BY <1>1, <1>2

(* Types, and no two venues with one slug: whatever the calls, in whatever *)
(* order their statements run.                                             *)
THEOREM TypeCorrect == Spec => []TypeOK
<1>1. TypeInv => TypeOK
  BY DEF TypeInv, Shape
<1> QED
  BY <1>1, InitType, NextType, PTL DEF Spec

-----------------------------------------------------------------------------
(* What every step keeps.                                                  *)

(* The other handlers do not move, and the histories grow.                 *)
Frame(p) ==
  /\ Kept
  /\ \A q \in Proc \ {p} : req'[q] = req[q]
  /\ posted \subseteq posted' /\ clash \subseteq clash'
  /\ \A x \in Row : raced[x] => raced'[x]

LEMMA OthersStay ==
  ASSUME TypeInv, NEW p \in Proc, NEW r, req' = [req EXCEPT ![p] = r]
  PROVE  \A q \in Proc \ {p} : req'[q] = req[q]
BY DEF TypeInv, Shape

LEMMA Frames ==
  ASSUME TypeInv, NEW p \in Proc, Step(p)
  PROVE  Frame(p)
<1> USE DEF history
<1>1. CASE CreateForUser(p)
  <2>1. UNCHANGED <<posted, clash, raced>>
    BY <1>1 DEF CreateForUser
  <2>2. \E r : req' = [req EXCEPT ![p] = r]
    <3>1. \/ req' = [req EXCEPT ![p].pc = "loop", ![p].u = None]
          \/ req' = [req EXCEPT ![p] = AfterSeed(req[p].u)]
      BY <1>1 DEF CreateForUser
    <3> QED
      BY <3>1
  <2> QED
    BY <1>1, <2>1, <2>2, CreateForUserStep, OthersStay DEF Frame
<1>2. CASE InsertVenue(p)
  BY <1>2, InsertVenueStep, OthersStay DEF Frame, InsertVenue, Finish
<1>3. CASE EnsureOwnerVenueLink(p)
  <2>1. UNCHANGED <<type, venues, posted, clash>>
    BY <1>3 DEF EnsureOwnerVenueLink
  <2>2. \A q \in Proc \ {p} : req'[q] = req[q]
    BY <1>3 DEF EnsureOwnerVenueLink, Finish, TypeInv, Shape
  <2>3. \A x \in Row : raced[x] => raced'[x]
    BY <1>3, HoldRaced DEF EnsureOwnerVenueLink
  <2> QED
    BY <2>1, <2>2, <2>3 DEF Frame, Kept
<1>4. CASE BackfillNext(p)
  BY <1>4 DEF BackfillNext, Link, Finish, TypeInv, Shape, Frame, Kept
<1>5. CASE PutObject(p)
  BY <1>5 DEF PutObject, TypeInv, Shape, Frame, Kept
<1>6. CASE Select(p)
  BY <1>6 DEF Select, TypeInv, Shape, Frame, Kept
<1>7. CASE Update(p)
  <2>1. UNCHANGED <<type, venues, posted, clash, raced>>
    BY <1>7 DEF Update
  <2>2. \A q \in Proc \ {p} : req'[q] = req[q]
    BY <1>7 DEF Update, Finish, TypeInv, Shape
  <2> QED
    BY <2>1, <2>2 DEF Frame, Kept
<1>8. CASE Stop(p)
  BY <1>8 DEF Stop, Finish, TypeInv, Shape, Frame, Kept
<1>9. CASE BackfillVenueOwnerProfileIds(p)
  BY <1>9, HoldRaced, OthersStay DEF BackfillVenueOwnerProfileIds, Frame, Kept
<1>10. CASE \E u \in User : Seed(p, u) \/ PatchMe(p, u)
  BY <1>10, OthersStay DEF Seed, PatchMe, Frame, Kept
<1>11. CASE \E u \in User, name \in Name : Create(p, u, name)
  BY <1>11, OthersStay DEF Create, InsertAs, Frame, Kept
<1>12. CASE \E u \in User, x \in Row, kind \in Kind : OwnerOf(x) = u /\ Upload(p, u, x, kind)
  BY <1>12, OthersStay DEF Upload, Frame, Kept
<1>13. CASE \E x \in Row : Patch(p, x, [rows[x] EXCEPT ![req[p].col] = req[p].url])
  BY <1>13, OthersStay, HoldRaced DEF Patch, Frame, Kept
<1> QED
  BY <1>1, <1>2, <1>3, <1>4, <1>5, <1>6, <1>7, <1>8, <1>9, <1>10, <1>11, <1>12, <1>13 DEF Step

-----------------------------------------------------------------------------
(* What is listed has a page.                                              *)

LinkAt(p) ==
  req[p].pc \in {"select", "update"} /\ req[p].x \in Vid => OwnerLink(req[p].x, req[p].val["link"])

LEMMA LinkKept ==
  ASSUME TypeInv, Kept, NEW v \in Vid, NEW u, OwnerLink(v, u) PROVE u # None => venues'[v].owner = u /\ type'[u] = "owner"
<1> SUFFICES ASSUME u # None PROVE venues'[v].owner = u /\ type'[u] = "owner"
  OBVIOUS
<1>1. venues[v].owner = u /\ type[u] = "owner"
  BY DEF OwnerLink
<1>2. venues[v].owner \in User \cup {None}
  BY Typed
<1> QED
  BY <1>1, <1>2 DEF Kept

LEMMA LinkStep ==
  ASSUME LinkInv, NEW p \in Proc, Frame(p), TypeInv', LinkAt(p)',
         \A v \in Vid : rows'[v] = rows[v] \/ OwnerLink(v, rows[v]["link"])'
  PROVE  LinkInv'
<1>1. \A v \in Vid : OwnerLink(v, rows[v]["link"])'
  <2> SUFFICES ASSUME NEW v \in Vid, rows'[v] = rows[v] PROVE OwnerLink(v, rows[v]["link"])'
    OBVIOUS
  <2>1. OwnerLink(v, rows[v]["link"])
    BY DEF LinkInv
  <2> QED
    BY <2>1, LinkKept DEF OwnerLink, LinkInv, Frame
<1>2. \A q \in Proc : LinkAt(q)'
  <2> SUFFICES ASSUME NEW q \in Proc, q # p PROVE LinkAt(q)'
    OBVIOUS
  <2>1. LinkAt(q) /\ req'[q] = req[q]
    BY DEF LinkInv, LinkAt, Frame
  <2> SUFFICES ASSUME req[q].pc \in {"select", "update"}, req[q].x \in Vid
               PROVE  OwnerLink(req[q].x, req[q].val["link"])'
    BY <2>1 DEF LinkAt
  <2>2. OwnerLink(req[q].x, req[q].val["link"])
    BY <2>1 DEF LinkAt
  <2> QED
    BY <2>1, <2>2, LinkKept DEF OwnerLink, LinkInv, Frame
<1> QED
  BY <1>1, <1>2 DEF LinkInv, LinkAt

(* A request that saves nothing yet.                                       *)
LEMMA NothingSaved ==
  ASSUME TypeInv, NEW p \in Proc
  PROVE  /\ Finish(p) => req'[p] = NoRequest
         /\ CreateForUser(p) => req'[p].pc \in {"loop", "venue", "idle"} /\ rows' = rows
         /\ PutObject(p) => req'[p].pc = "read" /\ rows' = rows
         /\ BackfillVenueOwnerProfileIds(p) => req'[p].pc = "loop" /\ rows' = rows
         /\ \A u \in User : Seed(p, u) => req'[p].pc \in {"profile", "venue", "idle"} /\ rows' = rows
         /\ \A u \in User : PatchMe(p, u) => req'[p].pc = "read" /\ rows' = rows
<1>1. Finish(p) => req'[p] = NoRequest
  BY DEF Finish, TypeInv, Shape
<1>2. ASSUME CreateForUser(p) PROVE req'[p].pc \in {"loop", "venue", "idle"} /\ rows' = rows
  <2>1. req[p].u \in User /\ IsRequest(req[p])
    BY <1>2 DEF CreateForUser, At, TypeInv, SaneAt, Shape
  <2>2. \/ req' = [req EXCEPT ![p].pc = "loop", ![p].u = None]
        \/ req' = [req EXCEPT ![p] = AfterSeed(req[p].u)]
    BY <1>2 DEF CreateForUser
  <2>3. CASE req' = [req EXCEPT ![p].pc = "loop", ![p].u = None]
    BY <1>2, <2>1, <2>3, RequestRecord DEF IsRecord, TypeInv, Shape, CreateForUser
  <2>4. CASE req' = [req EXCEPT ![p] = AfterSeed(req[p].u)]
    BY <1>2, <2>1, <2>4, SeedTypes DEF TypeInv, Shape, CreateForUser
  <2> QED
    BY <2>2, <2>3, <2>4
<1>3. ASSUME PutObject(p) PROVE req'[p].pc = "read" /\ rows' = rows
  BY <1>3, PutObjectRequest DEF PutObject, Stored
<1>4. ASSUME BackfillVenueOwnerProfileIds(p) PROVE req'[p].pc = "loop" /\ rows' = rows
  BY <1>4 DEF BackfillVenueOwnerProfileIds, Started, TypeInv, Shape
<1>5. ASSUME NEW u \in User, Seed(p, u) PROVE req'[p].pc \in {"profile", "venue", "idle"} /\ rows' = rows
  <2>1. \/ req' = [req EXCEPT ![p] = AfterSeed(u)]
        \/ req' = [req EXCEPT ![p] = Started("profile", u)]
    BY <1>5 DEF Seed
  <2>2. Started("profile", u).pc = "profile"
    BY DEF Started
  <2> QED
    BY <1>5, <2>1, <2>2, SeedTypes DEF Seed, TypeInv, Shape
<1>6. ASSUME NEW u \in User, PatchMe(p, u) PROVE req'[p].pc = "read" /\ rows' = rows
  BY <1>6, PatchMeRequest DEF Texted
<1> QED
  BY <1>1, <1>2, <1>3, <1>4, <1>5, <1>6

LEMMA LinkNext ==
  ASSUME LinkInv, NEW p \in Proc, Step(p) PROVE LinkInv'
<1>1. TypeInv /\ TypeInv' /\ Frame(p)
  BY StepType, Frames DEF LinkInv
<1>2. ASSUME rows' = rows, LinkAt(p)' PROVE LinkInv'
  BY <1>1, <1>2, LinkStep
<1>3. ASSUME rows' = rows, req'[p].pc \notin {"select", "update"} PROVE LinkInv'
  BY <1>2, <1>3 DEF LinkAt
<1>4. CASE \/ CreateForUser(p) \/ PutObject(p) \/ Stop(p) \/ BackfillVenueOwnerProfileIds(p)
           \/ \E u \in User : Seed(p, u) \/ PatchMe(p, u)
  BY <1>1, <1>3, <1>4, NothingSaved, NothingRequested DEF Stop
<1>5. CASE EnsureOwnerVenueLink(p)
  <2>1. PICK u : u = req[p].u
    OBVIOUS
  <2>2. /\ IsRequest(req[p]) /\ u \in User /\ type[u] = "owner" /\ req[p].pc = "venue"
        /\ UNCHANGED <<type, venues, rows>>
    BY <1>1, <1>5, <2>1 DEF TypeInv, Shape, SaneAt, EnsureOwnerVenueLink, At
  <2>3. \/ req' = [req EXCEPT ![p].pc = "insert"]
        \/ Finish(p)
        \/ \E v \in VenuesOf(u) :
             req' = [req EXCEPT ![p] = Save(p, v, [rows[v] EXCEPT !["link"] = u], "link", u)]
    BY <1>5, <2>1 DEF EnsureOwnerVenueLink
  <2>4. CASE req' = [req EXCEPT ![p].pc = "insert"]
    <3>1. req'[p].pc = "insert"
      BY <1>1, <2>2, <2>4, RequestRecord DEF IsRecord, TypeInv, Shape
    <3> QED
      BY <1>3, <2>2, <3>1
  <2>5. CASE Finish(p)
    BY <1>1, <1>3, <2>2, <2>5, NothingSaved, NothingRequested
  <2>6. ASSUME NEW v \in VenuesOf(u),
               req' = [req EXCEPT ![p] = Save(p, v, [rows[v] EXCEPT !["link"] = u], "link", u)]
        PROVE  LinkInv'
    <3> DEFINE val == [rows[v] EXCEPT !["link"] = u]
               r == Save(p, v, val, "link", u)
    <3>1. v \in Vid /\ v \in Row /\ venues[v].owner = u
      BY DEF VenuesOf, Row
    <3>2. IsEntity(val) /\ val["link"] = u
      BY <1>1, <2>2, <3>1, WithColumn, Cells, Apart DEF TypeInv, Shape
    <3> HIDE DEF val
    <3>3. r.x = v /\ r.val = val
      BY <2>2, <3>1, <3>2, SaveRequest, Apart
    <3>4. req'[p] = r
      BY <1>1, <2>6 DEF TypeInv, Shape, val
    <3> HIDE DEF r
    <3>5. LinkAt(p)'
      BY <2>2, <3>1, <3>2, <3>3, <3>4 DEF LinkAt, OwnerLink
    <3> QED
      BY <1>2, <2>2, <3>5
  <2> QED
    BY <2>3, <2>4, <2>5, <2>6
<1>6. CASE InsertVenue(p)
  <2>1. req[p].u \in User /\ type[req[p].u] = "owner"
    BY <1>1, <1>6 DEF InsertVenue, At, TypeInv, SaneAt
  <2>2. PICK v, u :
          /\ v \in Vid /\ u = req[p].u /\ type' = type
          /\ venues' = [venues EXCEPT ![v] = [owner |-> u, slug |-> req[p].slug]]
          /\ rows' = [rows EXCEPT ![v]["link"] = u]
    BY <1>6 DEF InsertVenue
  <2>3. rows'[v]["link"] = u /\ \A w \in Vid \ {v} : rows'[w] = rows[w]
    <3>1. rows = [x \in Row |-> rows[x]] /\ rows[v] = [c \in Columns |-> rows[v][c]] /\ v \in Row
      BY <1>1, <2>2 DEF TypeInv, Shape, IsEntity, Row
    <3> QED
      BY <2>2, <3>1, Apart
  <2>4. venues'[v].owner = u
    BY <1>1, <2>2, Typed
  <2>5. OwnerLink(v, rows[v]["link"])'
    BY <2>1, <2>2, <2>3, <2>4 DEF OwnerLink
  <2>6. LinkAt(p)'
    BY <1>1, <1>6, NothingSaved, NothingRequested DEF LinkAt, InsertVenue
  <2> QED
    BY <1>1, <2>2, <2>3, <2>5, <2>6, LinkStep
<1>7. CASE \E u \in User, name \in Name : Create(p, u, name)
  BY <1>1, <1>3, <1>7, CreateRequest DEF Created
<1>8. CASE \E u \in User, x \in Row, kind \in Kind : OwnerOf(x) = u /\ Upload(p, u, x, kind)
  BY <1>1, <1>3, <1>8, UploadRequest DEF Uploaded
<1>9. CASE Select(p)
  <2>1. LinkAt(p)
    BY DEF LinkInv, LinkAt
  <2>2. UNCHANGED <<type, venues>>
    BY <1>9 DEF Select
  <2> QED
    BY <1>1, <1>2, <1>9, <2>1, <2>2, SelectRequest DEF LinkAt, OwnerLink, Compared
<1>10. CASE BackfillNext(p)
  <2>1. /\ IsRequest(req[p]) /\ SaneAt(p) /\ req[p].pc = "loop" /\ UNCHANGED <<type, venues, rows>>
    BY <1>1, <1>10 DEF BackfillNext, At, TypeInv, Shape
  <2>2. \/ Finish(p)
        \/ \E v \in req[p].todo : HasProfile(venues[v].owner, "owner") /\ Link(p, v)
        \/ \E v \in req[p].todo : req' = [req EXCEPT ![p].pc = "profile", ![p].u = venues[v].owner]
    BY <1>10 DEF BackfillNext
  <2>3. CASE Finish(p)
    BY <1>1, <1>3, <2>1, <2>3, NothingSaved, NothingRequested
  <2>4. CASE \E v \in req[p].todo : req' = [req EXCEPT ![p].pc = "profile", ![p].u = venues[v].owner]
    <3>1. req'[p].pc = "profile"
      BY <1>1, <2>1, <2>4, RequestRecord DEF IsRecord, TypeInv, Shape
    <3> QED
      BY <1>3, <2>1, <3>1
  <2>5. ASSUME NEW v \in req[p].todo, HasProfile(venues[v].owner, "owner"), Link(p, v) PROVE LinkInv'
    <3> DEFINE u == venues[v].owner
               val == [req[p].found[v] EXCEPT !["link"] = u]
               r == Save(p, v, val, "link", u)
    <3>1. v \in Vid /\ v \in Row /\ u \in User /\ IsEntity(req[p].found[v]) /\ type[u] = "owner"
      BY <2>1, <2>5 DEF Row, SaneAt, IsRequest, HasProfile
    <3>2. IsEntity(val) /\ val["link"] = u
      BY <3>1, WithColumn, Cells, Apart
    <3>3. req' = [req EXCEPT ![p] = r]
      BY <2>5 DEF Link
    <3> HIDE DEF val
    <3>4. r.x = v /\ r.val = val
      BY <2>1, <3>1, <3>2, SaveRequest, Apart
    <3> HIDE DEF r
    <3>5. req'[p] = r
      BY <1>1, <3>3 DEF TypeInv, Shape
    <3>6. LinkAt(p)'
      BY <2>1, <3>1, <3>2, <3>4, <3>5 DEF LinkAt, OwnerLink
    <3> QED
      BY <1>2, <2>1, <3>6
  <2> QED
    BY <2>2, <2>3, <2>4, <2>5
<1>11. CASE Update(p)
  <2>1. PICK r, x, row : Updated(p, r, x, row)
    BY <1>1, <1>11, UpdateRequest
  <2>2. /\ x = req[p].x /\ x \in Row /\ req[p].pc = "update" /\ rows' = [rows EXCEPT ![x] = row]
        /\ row["link"] \in {req[p].val["link"], rows[x]["link"]}
        /\ UNCHANGED <<type, venues>> /\ r.pc \in {"idle", "loop"} /\ req'[p] = r
    BY <2>1, NothingRequested, Apart DEF Updated
  <2>3. LinkAt(p)'
    BY <2>2 DEF LinkAt
  <2>4. ASSUME NEW v \in Vid, rows'[v] # rows[v] PROVE OwnerLink(v, rows[v]["link"])'
    <3>1. v = x /\ rows'[v] = row
      BY <1>1, <2>2, <2>4 DEF TypeInv, Shape, Row
    <3>2. OwnerLink(v, req[p].val["link"]) /\ OwnerLink(v, rows[v]["link"])
      BY <2>2, <3>1 DEF LinkInv
    <3> QED
      BY <2>2, <3>1, <3>2 DEF OwnerLink
  <2> QED
    BY <1>1, <2>3, <2>4, LinkStep
<1>12. CASE \E x \in Row : Patch(p, x, [rows[x] EXCEPT ![req[p].col] = req[p].url])
  <2>1. PICK r, x : Patched(p, r, x)
    BY <1>1, <1>12, PatchRequest
  <2>2. r.x = x /\ r.val["link"] = rows[x]["link"] /\ req'[p] = r /\ UNCHANGED <<type, venues, rows>>
    BY <2>1, Apart DEF Patched
  <2>3. LinkAt(p)'
    BY <2>2 DEF LinkAt, LinkInv, OwnerLink
  <2> QED
    BY <1>2, <2>2, <2>3
<1> QED
  BY <1>4, <1>5, <1>6, <1>7, <1>8, <1>9, <1>10, <1>11, <1>12 DEF Step

LEMMA LinkInductive ==
  /\ Init => LinkInv
  /\ LinkInv /\ [Next]_vars => LinkInv'
<1>1. Init => LinkInv
  <2>1. ASSUME Init PROVE /\ \A v \in Vid : rows[v]["link"] = None
                          /\ \A p \in Proc : req[p].pc = "idle"
    BY <2>1, EmptyEntity, NothingRequested, Apart DEF Init, Row
  <2> QED
    BY <2>1, InitType DEF LinkInv, OwnerLink
<1>2. ASSUME LinkInv, UNCHANGED vars PROVE LinkInv'
  <2>1. TypeInv'
    BY <1>2, NextType DEF LinkInv
  <2> QED
    BY <1>2, <2>1 DEF LinkInv, OwnerLink, vars
<1>3. ASSUME LinkInv, Next PROVE LinkInv'
  BY <1>3, Steps, LinkNext
<1> QED
  BY <1>1, <1>2, <1>3

(* The list of venues, the page of a venue and the page of a profile have  *)
(* conditions of their own, over what venues, profiles and the backfill    *)
(* write; the condition of the list still implies the others.              *)
THEOREM ListedVenuesOpen == Spec => []ListedOpens
<1>1. LinkInv => ListedOpens
  <2> SUFFICES ASSUME LinkInv, NEW v \in PublicVenues, ~TooShort(venues[v].slug)
               PROVE  /\ HasPage(v) /\ v \in Mine(rows[v]["link"]) /\ rows[v]["link"] \in PublicProfiles
    BY DEF ListedOpens
  <2>1. v \in Vid /\ venues[v].slug # NoSlug /\ rows[v]["link"] # None
    BY DEF PublicVenues
  <2>2. venues[v].owner = rows[v]["link"] /\ type[rows[v]["link"]] = "owner"
    BY <2>1 DEF LinkInv, OwnerLink
  <2>3. rows[v]["link"] \in User
    BY <2>1, <2>2, Typed DEF LinkInv
  <2> QED
    BY <2>1, <2>2, <2>3 DEF HasPage, OwnerPage, Mine, VenuesOf, PublicProfiles
<1> QED
  BY <1>1, LinkInductive, PTL DEF Spec

-----------------------------------------------------------------------------
(* Pictures.  Keys first.                                                  *)

(* A key of a row, of an entity or of an upload, in its column.            *)
LEMMA PictureCell ==
  ASSUME NEW e, IsEntity(e), NEW k \in Kind
  PROVE  e[k] \in Key \/ e[k] = None
BY Cells, Apart DEF IsEntity

LEMMA KeysKept ==
  ASSUME NEW e, NEW u, KeysOf(e, u), posted \subseteq posted' PROVE KeysOf(e, u)'
BY DEF KeysOf

(* A venue that is not there has no pictures.                              *)
LEMMA NoOwnerNoKeys ==
  ASSUME NEW e, IsEntity(e), KeysOf(e, None), posted \subseteq Key PROVE \A k \in Kind : e[k] = None
<1> SUFFICES ASSUME NEW k \in Kind, e[k] # None PROVE FALSE
  OBVIOUS
<1>1. e[k] \in Key /\ e[k][1] = None
  BY DEF KeysOf
<1>2. e[k][1] \in User
  BY <1>1 DEF Key
<1> QED
  BY <1>1, <1>2, Apart

LEMMA OtherKeys ==
  ASSUME TypeInv, NEW p \in Proc, Frame(p), NEW q \in Proc \ {p}, KeysAt(q) PROVE KeysAt(q)'
<1>1. SaneAt(q) /\ req'[q] = req[q] /\ req[q].todo \subseteq Vid
  BY DEF TypeInv, Shape, IsRequest, Frame
<1>2. req[q].pc \in {"put", "read"} /\ req[q].col \in Kind =>
        req[q].url \in posted' /\ req[q].url[1] = req[q].u
  BY DEF KeysAt, Frame
<1>3. ASSUME req[q].pc \in {"select", "update"}
      PROVE  KeysOf(req[q].val, OwnerOf(req[q].x))'
  <2>1. PICK x : x = req[q].x /\ x \in Row /\ OwnerOf(x) \in User
    BY <1>1, <1>3 DEF SaneAt
  <2>2. OwnerOf(x)' = OwnerOf(x)
    BY <2>1, OwnerKept DEF Frame
  <2>3. KeysOf(req[q].val, OwnerOf(x))
    BY <1>3, <2>1 DEF KeysAt
  <2> QED
    BY <1>1, <2>1, <2>2, <2>3 DEF KeysOf, Frame
<1>4. ASSUME NEW v \in req[q].todo
      PROVE  KeysOf(req[q].found[v], venues[v].owner)'
  <2>1. venues[v].owner \in User /\ KeysOf(req[q].found[v], venues[v].owner)
    BY <1>1 DEF SaneAt, KeysAt
  <2>2. venues'[v] = venues[v]
    BY <1>1, <2>1 DEF Frame, Kept
  <2> QED
    BY <1>1, <2>1, <2>2 DEF KeysOf, Frame
<1> QED
  BY <1>1, <1>2, <1>3, <1>4 DEF KeysAt

LEMMA KeysStep ==
  ASSUME KeysOK, NEW p \in Proc, Frame(p), TypeInv', KeysAt(p)',
         \A x \in Row : KeysOf(rows[x], OwnerOf(x))'
  PROVE  KeysOK'
<1>1. \A q \in Proc \ {p} : KeysAt(q)'
  BY OtherKeys DEF KeysOK
<1> QED
  BY <1>1 DEF KeysOK

LEMMA RowKeysKept ==
  ASSUME KeysOK, NEW p \in Proc, Frame(p), NEW x \in Row, rows'[x] = rows[x], venues' = venues
  PROVE  KeysOf(rows[x], OwnerOf(x))'
BY DEF KeysOK, KeysOf, OwnerOf, Frame

-----------------------------------------------------------------------------
(* The steps, by what they do to the entities that a request holds.        *)

Keeps == UNCHANGED <<venues, rows, objects, last, posted, clash>>

(* Nothing to save next, and no more entities than before.                 *)
Idles(p) ==
  /\ req'[p].pc \in {"idle", "profile", "venue", "insert", "loop"}
  /\ req'[p].todo \subseteq req[p].todo
  /\ \A v \in req'[p].todo : req'[p].found[v] = req[p].found[v]

(* The entity e of the row x will be saved, with n in its column.          *)
Saves(p, x, e, col, n, put) ==
  /\ req'[p].pc = "select" /\ req'[p].x = x /\ req'[p].col = col /\ req'[p].put = put
  /\ req'[p].todo = req[p].todo /\ req'[p].found = req[p].found
  /\ \A c \in Columns : req'[p].val[c] = IF c = col THEN n ELSE e[c]
  /\ Keeps

SavesLink(p, v) == Hold(p, {v}) /\ \E u \in User : Saves(p, v, rows[v], "link", u, u)
SavesFound(p, v) == raced' = raced /\ \E u \in User : Saves(p, v, req[p].found[v], "link", u, u)
SavesPost(p, x) ==
  /\ req[p].pc = "read" /\ req[p].x = x /\ Hold(p, {x})
  /\ Saves(p, x, rows[x], req[p].col, req[p].url, req[p].put)

Quiet(p) == Idles(p) /\ Keeps /\ raced' = raced

LEMMA Finished ==
  ASSUME TypeInv, NEW p \in Proc, Finish(p) PROVE Idles(p)
BY NothingSaved, NothingRequested DEF Idles

LEMMA EnsureKind ==
  ASSUME TypeInv, NEW p \in Proc, EnsureOwnerVenueLink(p)
  PROVE  Quiet(p) \/ \E v \in Vid : SavesLink(p, v)
<1>1. PICK u : u = req[p].u
  OBVIOUS
<1>2. /\ IsRequest(req[p]) /\ SaneAt(p) /\ u \in User /\ req[p].pc = "venue" /\ Keeps
  BY <1>1 DEF TypeInv, Shape, SaneAt, EnsureOwnerVenueLink, At, Keeps
<1>3. \/ req' = [req EXCEPT ![p].pc = "insert"] /\ raced' = raced
      \/ Finish(p) /\ raced' = raced
      \/ \E v \in VenuesOf(u) : /\ Hold(p, {v})
           /\ req' = [req EXCEPT ![p] = Save(p, v, [rows[v] EXCEPT !["link"] = u], "link", u)]
  BY <1>1 DEF EnsureOwnerVenueLink
<1>4. CASE req' = [req EXCEPT ![p].pc = "insert"] /\ raced' = raced
  <2>1. Idles(p)
    BY <1>2, <1>4, RequestRecord DEF Idles, IsRecord, TypeInv, Shape
  <2> QED
    BY <1>2, <1>4, <2>1 DEF Quiet
<1>5. CASE Finish(p) /\ raced' = raced
  BY <1>2, <1>5, Finished DEF Quiet
<1>6. ASSUME NEW v \in VenuesOf(u), Hold(p, {v}),
             req' = [req EXCEPT ![p] = Save(p, v, [rows[v] EXCEPT !["link"] = u], "link", u)]
      PROVE  v \in Vid /\ SavesLink(p, v)
  <2> DEFINE val == [rows[v] EXCEPT !["link"] = u]
             r == Save(p, v, val, "link", u)
  <2>1. v \in Vid /\ v \in Row
    BY DEF VenuesOf, Row
  <2>2. IsEntity(val) /\ \A c \in Columns : val[c] = IF c = "link" THEN u ELSE rows[v][c]
    BY <1>2, <2>1, WithColumn, Cells, Apart DEF TypeInv, Shape
  <2>3. req'[p] = r
    BY <1>6 DEF TypeInv, Shape
  <2> HIDE DEF val
  <2>4. /\ r.pc = "select" /\ r.x = v /\ r.col = "link" /\ r.put = u /\ r.val = val
        /\ r.todo = req[p].todo /\ r.found = req[p].found
    BY <1>2, <2>1, <2>2, SaveRequest, Apart
  <2> HIDE DEF r
  <2>5. Saves(p, v, rows[v], "link", u, u)
    BY <1>2, <2>2, <2>3, <2>4 DEF Saves
  <2> QED
    BY <1>2, <1>6, <2>1, <2>5 DEF SavesLink
<1> QED
  BY <1>3, <1>4, <1>5, <1>6

LEMMA BackfillNextKind ==
  ASSUME TypeInv, NEW p \in Proc, BackfillNext(p)
  PROVE  Quiet(p) \/ \E v \in req[p].todo : SavesFound(p, v)
<1>1. /\ IsRequest(req[p]) /\ SaneAt(p) /\ req[p].pc = "loop" /\ Keeps /\ raced' = raced
  BY DEF BackfillNext, At, TypeInv, Shape, Keeps, history
<1>2. \/ Finish(p)
      \/ \E v \in req[p].todo : Link(p, v)
      \/ \E v \in req[p].todo : req' = [req EXCEPT ![p].pc = "profile", ![p].u = venues[v].owner]
  BY DEF BackfillNext
<1>3. CASE Finish(p)
  BY <1>1, <1>3, Finished DEF Quiet
<1>4. ASSUME NEW v \in req[p].todo, req' = [req EXCEPT ![p].pc = "profile", ![p].u = venues[v].owner]
      PROVE  Quiet(p)
  <2>1. req'[p] = [req[p] EXCEPT !.pc = "profile", !.u = venues[v].owner]
    BY <1>4 DEF TypeInv, Shape
  <2>2. req'[p].pc = "profile" /\ req'[p].todo = req[p].todo /\ req'[p].found = req[p].found
    BY <1>1, <2>1, RequestRecord DEF IsRecord
  <2>3. Idles(p)
    BY <2>2 DEF Idles
  <2> QED
    BY <1>1, <2>3 DEF Quiet
<1>5. ASSUME NEW v \in req[p].todo, Link(p, v) PROVE SavesFound(p, v)
  <2> DEFINE u == venues[v].owner
             val == [req[p].found[v] EXCEPT !["link"] = u]
             r == Save(p, v, val, "link", u)
  <2>1. v \in Vid /\ v \in Row /\ u \in User /\ IsEntity(req[p].found[v])
    BY <1>1 DEF Row, SaneAt, IsRequest
  <2>2. IsEntity(val) /\ \A c \in Columns : val[c] = IF c = "link" THEN u ELSE req[p].found[v][c]
    BY <2>1, WithColumn, Cells, Apart
  <2>3. req'[p] = r
    BY <1>5 DEF Link, TypeInv, Shape
  <2> HIDE DEF val
  <2>4. /\ r.pc = "select" /\ r.x = v /\ r.col = "link" /\ r.put = u /\ r.val = val
        /\ r.todo = req[p].todo /\ r.found = req[p].found
    BY <1>1, <2>1, <2>2, SaveRequest, Apart
  <2> HIDE DEF r
  <2>5. Saves(p, v, req[p].found[v], "link", u, u)
    BY <1>1, <2>2, <2>3, <2>4 DEF Saves
  <2> QED
    BY <1>1, <2>1, <2>5 DEF SavesFound
<1> QED
  BY <1>2, <1>3, <1>4, <1>5

LEMMA Kinds ==
  ASSUME TypeInv, NEW p \in Proc, Step(p)
  PROVE  \/ Quiet(p)
         \/ Idles(p) /\ InsertVenue(p)
         \/ Idles(p) /\ Update(p)
         \/ PutObject(p) \/ Select(p) \/ BackfillVenueOwnerProfileIds(p)
         \/ \E u \in User : PatchMe(p, u)
         \/ \E u \in User, x \in Row, kind \in Kind : OwnerOf(x) = u /\ Upload(p, u, x, kind)
         \/ \E v \in Vid : SavesLink(p, v)
         \/ \E v \in req[p].todo : SavesFound(p, v)
         \/ \E x \in Row : SavesPost(p, x)
<1>1. CASE CreateForUser(p)
  <2>1. req[p].u \in User /\ IsRequest(req[p]) /\ Keeps /\ raced' = raced
    BY <1>1 DEF CreateForUser, At, TypeInv, SaneAt, Shape, Keeps, history
  <2>2. \/ req' = [req EXCEPT ![p].pc = "loop", ![p].u = None]
        \/ req' = [req EXCEPT ![p] = AfterSeed(req[p].u)]
    BY <1>1 DEF CreateForUser
  <2>3. CASE req' = [req EXCEPT ![p].pc = "loop", ![p].u = None]
    <3>1. Idles(p)
      BY <2>1, <2>3, RequestRecord DEF Idles, IsRecord, TypeInv, Shape
    <3> QED
      BY <2>1, <3>1 DEF Quiet
  <2>4. CASE req' = [req EXCEPT ![p] = AfterSeed(req[p].u)]
    <3>1. req'[p] = AfterSeed(req[p].u)
      BY <2>4 DEF TypeInv, Shape
    <3>2. Idles(p)
      BY <2>1, <3>1, SeedTypes DEF Idles
    <3> QED
      BY <2>1, <3>2 DEF Quiet
  <2> QED
    BY <2>2, <2>3, <2>4
<1>2. CASE EnsureOwnerVenueLink(p)
  BY <1>2, EnsureKind
<1>3. CASE InsertVenue(p)
  BY <1>3, Finished DEF InsertVenue
<1>4. CASE BackfillNext(p)
  BY <1>4, BackfillNextKind
<1>5. CASE Update(p)
  <2>1. PICK r, x, row : Updated(p, r, x, row)
    BY <1>5, UpdateRequest
  <2>2. Idles(p)
    BY <2>1, NothingRequested DEF Updated, Idles
  <2> QED
    BY <1>5, <2>2
<1>6. CASE Stop(p)
  BY <1>6, Finished DEF Stop, Quiet, Keeps, history
<1>7. ASSUME NEW u \in User, Seed(p, u) PROVE Quiet(p)
  <2>1. \/ req' = [req EXCEPT ![p] = AfterSeed(u)]
        \/ req' = [req EXCEPT ![p] = Started("profile", u)]
    BY <1>7 DEF Seed
  <2>2. Started("profile", u).pc = "profile" /\ Started("profile", u).todo = {}
    BY DEF Started
  <2>3. req'[p].pc \in {"idle", "profile", "venue"} /\ req'[p].todo = {}
    BY <2>1, <2>2, SeedTypes DEF TypeInv, Shape
  <2> QED
    BY <1>7, <2>3 DEF Seed, Quiet, Idles, Keeps, history
<1>8. ASSUME NEW u \in User, NEW name \in Name, Create(p, u, name) PROVE Quiet(p)
  BY <1>8, CreateRequest DEF Created, Quiet, Idles, Keeps, history
<1>9. ASSUME NEW x \in Row, Patch(p, x, [rows[x] EXCEPT ![req[p].col] = req[p].url])
      PROVE  SavesPost(p, x)
  <2>1. PICK r : Patched(p, r, x)
    BY <1>9, PatchRequest
  <2> QED
    BY <2>1 DEF Patched, SavesPost, Saves, Keeps
<1>10. CASE PutObject(p) \/ Select(p) \/ BackfillVenueOwnerProfileIds(p)
  BY <1>10
<1>11. CASE \E u \in User : PatchMe(p, u)
  BY <1>11
<1>12. CASE \E u \in User, x \in Row, kind \in Kind : OwnerOf(x) = u /\ Upload(p, u, x, kind)
  BY <1>12
<1> QED
  BY <1>1, <1>2, <1>3, <1>4, <1>5, <1>6, <1>7, <1>8, <1>9, <1>10, <1>11, <1>12 DEF Step

-----------------------------------------------------------------------------
(* Keys.                                                                   *)

LEMMA SavesKeys ==
  ASSUME KeysOK, NEW p \in Proc, NEW x \in Row, NEW e, NEW col \in Columns, NEW n, NEW put,
         Saves(p, x, e, col, n, put), KeysOf(e, OwnerOf(x)),
         col \in Kind => n \in posted /\ n[1] = OwnerOf(x)
  PROVE  KeysAt(p)'
<1>1. KeysOf(req'[p].val, OwnerOf(x))
  BY Apart DEF Saves, KeysOf
<1>2. OwnerOf(x)' = OwnerOf(x)
  BY DEF Saves, Keeps, OwnerOf
<1>3. KeysOf(req[p].val, OwnerOf(req[p].x))'
  BY <1>1, <1>2 DEF Saves, Keeps, KeysOf
<1>4. \A v \in req[p].todo : KeysOf(req[p].found[v], venues[v].owner)
  BY DEF KeysOK, KeysAt
<1>5. \A v \in req'[p].todo : KeysOf(req[p].found[v], venues[v].owner)'
  BY <1>4 DEF Saves, Keeps, KeysOf
<1> QED
  BY <1>3, <1>5 DEF KeysAt, Saves

LEMMA IdlesKeys ==
  ASSUME KeysOK, NEW p \in Proc, Frame(p), Idles(p) PROVE KeysAt(p)'
<1> SUFFICES ASSUME NEW v \in req'[p].todo PROVE KeysOf(req[p].found[v], venues[v].owner)'
  BY DEF KeysAt, Idles
<1>1. /\ v \in req[p].todo /\ req'[p].found[v] = req[p].found[v]
      /\ KeysOf(req[p].found[v], venues[v].owner)
  BY DEF KeysOK, KeysAt, Idles
<1>2. venues'[v] = venues[v]
  BY <1>1 DEF KeysOK, TypeInv, SaneAt, Shape, IsRequest, Frame, Kept
<1> QED
  BY <1>1, <1>2 DEF KeysOf, Frame

LEMMA KeysNext ==
  ASSUME KeysOK, NEW p \in Proc, Step(p) PROVE KeysOK'
<1>1. TypeInv /\ TypeInv' /\ Frame(p) /\ KeysAt(p) /\ SaneAt(p) /\ IsRequest(req[p])
  BY StepType, Frames DEF KeysOK, TypeInv, Shape
<1>2. ASSUME KeysAt(p)', UNCHANGED <<rows, venues>> PROVE KeysOK'
  BY <1>1, <1>2, KeysStep, RowKeysKept
<1>3. CASE Quiet(p)
  BY <1>1, <1>2, <1>3, IdlesKeys DEF Quiet, Keeps
<1>4. CASE Idles(p) /\ InsertVenue(p)
  <2>1. PICK v, u : /\ v \in Vid /\ venues[v] = NoVenue /\ u \in User
          /\ venues' = [venues EXCEPT ![v] = [owner |-> u, slug |-> req[p].slug]]
          /\ rows' = [rows EXCEPT ![v]["link"] = u] /\ posted' = posted
    BY <1>1, <1>4 DEF InsertVenue, SaneAt, At
  <2>2. \A x \in Row, k \in Kind : rows'[x][k] = rows[x][k]
    <3>1. rows = [x \in Row |-> rows[x]] /\ \A x \in Row : rows[x] = [c \in Columns |-> rows[x][c]]
      BY <1>1 DEF TypeInv, Shape, IsEntity
    <3> QED
      BY <2>1, <3>1, Apart
  <2>3. v \in Row /\ OwnerOf(v) = None
    BY <2>1, Apart DEF Row, OwnerOf, NoVenue
  <2>4. ASSUME NEW x \in Row PROVE KeysOf(rows[x], OwnerOf(x))'
    <3>1. CASE x = v
      <4>1. KeysOf(rows[v], None) /\ IsEntity(rows[v]) /\ posted \subseteq Key
        BY <1>1, <2>3 DEF KeysOK, TypeInv, Shape
      <4>2. \A k \in Kind : rows[v][k] = None
        BY <4>1, NoOwnerNoKeys
      <4> QED
        BY <2>2, <3>1, <4>2 DEF KeysOf
    <3>2. CASE x # v
      <4>1. OwnerOf(x)' = OwnerOf(x)
        BY <1>1, <2>1, <3>2, Typed DEF OwnerOf, Row
      <4> QED
        BY <2>1, <2>2, <4>1 DEF KeysOf, KeysOK
    <3> QED
      BY <3>1, <3>2
  <2> QED
    BY <1>1, <1>4, <2>4, IdlesKeys, KeysStep
<1>5. CASE Idles(p) /\ Update(p)
  <2>1. PICK r, x, row : Updated(p, r, x, row)
    BY <1>1, <1>5, UpdateRequest
  <2>2. /\ x = req[p].x /\ x \in Row /\ req[p].pc = "update" /\ rows' = [rows EXCEPT ![x] = row]
        /\ \A c \in Columns : row[c] \in {req[p].val[c], rows[x][c]}
        /\ venues' = venues /\ posted' = posted
    BY <2>1 DEF Updated
  <2>3. KeysOf(row, OwnerOf(x))
    BY <1>1, <2>2, Apart DEF KeysOK, KeysAt, KeysOf
  <2>4. ASSUME NEW y \in Row PROVE KeysOf(rows[y], OwnerOf(y))'
    <3>1. OwnerOf(y)' = OwnerOf(y)
      BY <2>2 DEF OwnerOf
    <3>2. rows'[y] = IF y = x THEN row ELSE rows[y]
      BY <1>1, <2>2 DEF TypeInv, Shape
    <3> QED
      BY <2>2, <2>3, <3>1, <3>2 DEF KeysOf, KeysOK
  <2> QED
    BY <1>1, <1>5, <2>4, IdlesKeys, KeysStep
<1>6. CASE PutObject(p)
  <2>1. req[p].pc = "put" /\ UNCHANGED <<rows, venues, posted>>
    BY <1>6 DEF PutObject, At, history
  <2>2. PICK r : Stored(p, r)
    BY <1>1, <1>6, PutObjectRequest
  <2>3. KeysAt(p)'
    BY <1>1, <2>1, <2>2 DEF KeysAt, Stored, KeysOf
  <2> QED
    BY <1>2, <2>1, <2>3
<1>7. CASE Select(p)
  <2>1. PICK r : Compared(p, r)
    BY <1>1, <1>7, SelectRequest
  <2>2. PICK x : x = req[p].x /\ OwnerOf(x)' = OwnerOf(x)
    BY <2>1 DEF Compared, OwnerOf
  <2>3. KeysAt(p)'
    BY <1>1, <2>1, <2>2 DEF KeysAt, Compared, KeysOf, history
  <2> QED
    BY <1>2, <2>1, <2>3 DEF Compared
<1>8. CASE BackfillVenueOwnerProfileIds(p)
  <2>1. /\ req'[p].pc = "loop" /\ UNCHANGED <<venues, rows, posted>>
        /\ \A v \in req'[p].todo : v \in Vid /\ req'[p].found[v] = rows[v]
    BY <1>1, <1>8 DEF BackfillVenueOwnerProfileIds, Started, TypeInv, Shape
  <2>2. \A v \in Vid : KeysOf(rows[v], venues[v].owner)
    BY Apart DEF KeysOK, OwnerOf, Row
  <2>3. KeysAt(p)'
    BY <2>1, <2>2 DEF KeysAt, KeysOf
  <2> QED
    BY <1>2, <2>1, <2>3
<1>9. ASSUME NEW u \in User, PatchMe(p, u) PROVE KeysOK'
  <2>1. PICK r : Texted(p, r, u)
    BY <1>1, <1>9, PatchMeRequest
  <2>2. KeysAt(p)'
    BY <2>1, Apart DEF Texted, KeysAt
  <2> QED
    BY <1>2, <2>1, <2>2 DEF Texted
<1>10. ASSUME NEW u \in User, NEW x \in Row, NEW kind \in Kind, Upload(p, u, x, kind) PROVE KeysOK'
  <2>1. PICK r, key : Uploaded(p, r, u, x, kind, key)
    BY <1>1, <1>10, UploadRequest
  <2>2. KeysAt(p)'
    BY <2>1 DEF Uploaded, KeysAt
  <2> QED
    BY <1>2, <2>1, <2>2 DEF Uploaded
<1>11. ASSUME NEW v \in Vid, SavesLink(p, v) PROVE KeysOK'
  <2>1. PICK u \in User : Saves(p, v, rows[v], "link", u, u)
    BY <1>11 DEF SavesLink
  <2>2. v \in Row /\ KeysOf(rows[v], OwnerOf(v))
    BY DEF KeysOK, Row
  <2>3. KeysAt(p)'
    BY <2>1, <2>2, SavesKeys, Apart
  <2> QED
    BY <1>2, <2>1, <2>3 DEF Saves, Keeps
<1>12. ASSUME NEW v \in req[p].todo, SavesFound(p, v) PROVE KeysOK'
  <2>1. PICK u \in User : Saves(p, v, req[p].found[v], "link", u, u)
    BY <1>12 DEF SavesFound
  <2>2. v \in Row /\ OwnerOf(v) = venues[v].owner
    BY <1>1, Apart DEF IsRequest, OwnerOf, Row
  <2>3. KeysOf(req[p].found[v], OwnerOf(v))
    BY <1>1, <2>2 DEF KeysAt
  <2>4. KeysAt(p)'
    BY <2>1, <2>2, <2>3, SavesKeys, Apart
  <2> QED
    BY <1>2, <2>1, <2>4 DEF Saves, Keeps
<1>13. ASSUME NEW x \in Row, SavesPost(p, x) PROVE KeysOK'
  <2>1. /\ Saves(p, x, rows[x], req[p].col, req[p].url, req[p].put)
        /\ req[p].pc = "read" /\ req[p].x = x
    BY <1>13 DEF SavesPost
  <2>2. /\ OwnerOf(x) = req[p].u /\ req[p].col \in Columns
        /\ req[p].col \in Kind => req[p].url \in posted /\ req[p].url[1] = req[p].u
    BY <1>1, <2>1 DEF SaneAt, KeysAt, IsRequest
  <2>3. KeysOf(rows[x], OwnerOf(x))
    BY DEF KeysOK
  <2>4. KeysAt(p)'
    BY <2>1, <2>2, <2>3, SavesKeys
  <2> QED
    BY <1>2, <2>1, <2>4 DEF Saves, Keeps
<1> QED
  BY <1>1, <1>3, <1>4, <1>5, <1>6, <1>7, <1>8, <1>9, <1>10, <1>11, <1>12, <1>13, Kinds

-----------------------------------------------------------------------------
(* Who holds a row.                                                        *)

LEMMA HoldersStep ==
  ASSUME OneHolder, NEW p \in Proc, Frame(p),
         \A x \in Row, q \in Proc \ {p} : x \in Holds(p)' /\ x \in Holds(q) => raced'[x]
  PROVE  OneHolder'
<1>1. \A q \in Proc \ {p} : Holds(q)' = Holds(q)
  BY DEF Frame, Holds
<1> SUFFICES ASSUME NEW q \in Proc, NEW r \in Proc, NEW x \in Row, x \in Holds(q)', x \in Holds(r)', q # r
             PROVE  raced'[x]
  BY DEF OneHolder
<1>2. CASE q # p /\ r # p
  BY <1>1, <1>2 DEF OneHolder, Frame
<1>3. CASE q = p \/ r = p
  BY <1>1, <1>3
<1> QED
  BY <1>2, <1>3

LEMMA HoldersNext ==
  ASSUME TypeInv, OneHolder, NEW p \in Proc, Step(p) PROVE OneHolder'
<1>1. Frame(p)
  BY Frames
<1>2. ASSUME Holds(p)' \subseteq Holds(p) PROVE OneHolder'
  <2>1. ASSUME NEW x \in Row, NEW q \in Proc \ {p}, x \in Holds(p)', x \in Holds(q) PROVE raced'[x]
    BY <1>1, <1>2, <2>1 DEF OneHolder, Frame
  <2> QED
    BY <1>1, <2>1, HoldersStep
<1>3. ASSUME NEW S, Hold(p, S), Holds(p)' \subseteq Holds(p) \cup S PROVE OneHolder'
  <2>1. ASSUME NEW x \in Row, NEW q \in Proc \ {p}, x \in Holds(p)', x \in Holds(q) PROVE raced'[x]
    <3>1. CASE x \in S
      BY <1>3, <2>1, <3>1, HoldRaced
    <3>2. CASE x \in Holds(p)
      BY <1>1, <2>1, <3>2 DEF OneHolder, Frame
    <3> QED
      BY <1>3, <2>1, <3>1, <3>2
  <2> QED
    BY <1>1, <2>1, HoldersStep
<1>4. CASE Idles(p)
  BY <1>2, <1>4 DEF Idles, Holds
<1>5. CASE PutObject(p)
  BY <1>2, <1>5, PutObjectRequest DEF Stored, Holds
<1>6. CASE Select(p)
  BY <1>2, <1>6, SelectRequest DEF Compared, Holds
<1>7. CASE BackfillVenueOwnerProfileIds(p)
  <2>1. PICK S : Hold(p, S) /\ req'[p].pc = "loop" /\ req'[p].todo = S
    BY <1>7 DEF BackfillVenueOwnerProfileIds, Started, TypeInv, Shape
  <2> QED
    BY <1>3, <2>1 DEF Holds
<1>8. ASSUME NEW u \in User, PatchMe(p, u) PROVE OneHolder'
  BY <1>2, <1>8, PatchMeRequest DEF Texted, Holds
<1>9. ASSUME NEW u \in User, NEW x \in Row, NEW kind \in Kind, Upload(p, u, x, kind) PROVE OneHolder'
  BY <1>2, <1>9, UploadRequest DEF Uploaded, Holds
<1>10. ASSUME NEW v \in Vid, SavesLink(p, v) PROVE OneHolder'
  <2>1. Hold(p, {v}) /\ req'[p].todo = req[p].todo /\ req'[p].x = v
    BY <1>10 DEF SavesLink, Saves
  <2> QED
    BY <1>3, <2>1 DEF Holds
<1>11. ASSUME NEW v \in req[p].todo, SavesFound(p, v) PROVE OneHolder'
  <2>1. req'[p].todo = req[p].todo /\ req'[p].x = v
    BY <1>11 DEF SavesFound, Saves
  <2> QED
    BY <1>2, <2>1 DEF Holds
<1>12. ASSUME NEW x \in Row, SavesPost(p, x) PROVE OneHolder'
  <2>1. Hold(p, {x}) /\ req'[p].todo = req[p].todo /\ req'[p].x = x
    BY <1>12 DEF SavesPost, Saves
  <2> QED
    BY <1>3, <2>1 DEF Holds
<1> QED
  BY <1>4, <1>5, <1>6, <1>7, <1>8, <1>9, <1>10, <1>11, <1>12, Kinds DEF Quiet

-----------------------------------------------------------------------------
(* Keys of pictures that are not in the bucket yet.                        *)

(* What a step makes a request name was named by it or by a row before,    *)
(* or is new, or of a user who posted twice in a millisecond.              *)
OldNames(p) ==
  \A key \in Key : Names(p, key)' =>
    \/ Names(p, key)
    \/ \E x \in Row, k \in Kind : rows[x][k] = key
    \/ key \notin posted
    \/ key[1] \in clash'

RowNames(p) ==
  \A x \in Row, k \in Kind : rows'[x][k] \in Key =>
    Names(p, rows'[x][k]) \/ \E y \in Row, j \in Kind : rows[y][j] = rows'[x][k]

LEMMA FreshStep ==
  ASSUME KeysOK, \A q \in Proc : FreshAt(q), NEW p \in Proc, Frame(p), OldNames(p), RowNames(p), FreshAt(p)'
  PROVE  \A q \in Proc : FreshAt(q)'
<1> SUFFICES ASSUME NEW q \in Proc \ {p}, req[q].pc = "put", req[q].u \notin clash',
                    NEW url, url = req[q].url
             PROVE  /\ \A x \in Row, k \in Kind : rows'[x][k] # url
                    /\ \A o \in Proc \ {q} : ~Names(o, url)'
  BY DEF FreshAt, At, Frame
<1>1. PICK key : /\ key = req[q].url /\ key \in Key /\ key \in posted /\ key[1] \notin clash'
  BY DEF KeysOK, TypeInv, SaneAt, At, KeysAt
<1>2. /\ \A x \in Row, k \in Kind : rows[x][k] # key
      /\ \A o \in Proc \ {q} : ~Names(o, key)
  BY <1>1 DEF FreshAt, At, Frame
<1>3. \A x \in Row, k \in Kind : rows'[x][k] # key
  BY <1>1, <1>2 DEF RowNames
<1>4. ~Names(p, key)'
  BY <1>1, <1>2 DEF OldNames
<1>5. ASSUME NEW o \in Proc \ {q}, o # p PROVE ~Names(o, key)'
  BY <1>2, <1>5 DEF Names, Frame
<1> QED
  BY <1>1, <1>3, <1>4, <1>5

(* Rows name keys that were posted, and so do requests.                    *)
LEMMA NamesPosted ==
  ASSUME KeysOK, NEW q \in Proc, NEW key \in Key, Names(q, key) PROVE key \in posted
<1>1. KeysAt(q) /\ key # None
  BY Apart DEF KeysOK
<1> QED
  BY <1>1 DEF Names, KeysAt, KeysOf

LEMMA SavesNames ==
  ASSUME NEW p \in Proc, NEW x, NEW e, NEW col \in Columns, NEW n, NEW put, Saves(p, x, e, col, n, put),
         NEW key \in Key, Names(p, key)'
  PROVE  Names(p, key) \/ (col \in Kind /\ n = key) \/ \E k \in Kind : e[k] = key
<1>1. CASE \E k \in Kind : req'[p].val[k] = key
  BY <1>1, Apart DEF Saves
<1>2. CASE \E v \in req'[p].todo, k \in Kind : req'[p].found[v][k] = key
  BY <1>2 DEF Saves, Names
<1> QED
  BY <1>1, <1>2 DEF Names, Saves

LEMMA FreshNext ==
  ASSUME KeysOK, \A q \in Proc : FreshAt(q), NEW p \in Proc, Step(p)
  PROVE  \A q \in Proc : FreshAt(q)'
<1>1. TypeInv /\ Frame(p) /\ SaneAt(p) /\ IsRequest(req[p])
  BY Frames DEF KeysOK, TypeInv, Shape
<1>2. ASSUME OldNames(p), RowNames(p), req'[p].pc # "put" PROVE \A q \in Proc : FreshAt(q)'
  <2>1. FreshAt(p)'
    BY <1>2 DEF FreshAt, At
  <2> QED
    BY <1>1, <1>2, <2>1, FreshStep
<1>3. ASSUME rows' = rows PROVE RowNames(p)
  BY <1>3 DEF RowNames
<1>4. ASSUME Idles(p) PROVE OldNames(p) /\ req'[p].pc # "put"
  BY <1>4 DEF Idles, OldNames, Names
<1>5. CASE Quiet(p)
  BY <1>2, <1>3, <1>4, <1>5 DEF Quiet, Keeps
<1>6. CASE Idles(p) /\ InsertVenue(p)
  <2>1. PICK v, u : v \in Vid /\ rows' = [rows EXCEPT ![v]["link"] = u]
    BY <1>6 DEF InsertVenue
  <2>2. \A x \in Row, k \in Kind : rows'[x][k] = rows[x][k]
    <3>1. rows = [x \in Row |-> rows[x]] /\ \A x \in Row : rows[x] = [c \in Columns |-> rows[x][c]]
      BY <1>1 DEF TypeInv, Shape, IsEntity
    <3> QED
      BY <2>1, <3>1, Apart
  <2> QED
    BY <1>2, <1>4, <1>6, <2>2 DEF RowNames
<1>7. CASE Idles(p) /\ Update(p)
  <2>1. PICK r, x, row : Updated(p, r, x, row)
    BY <1>1, <1>7, UpdateRequest
  <2>2. /\ req[p].pc = "update" /\ x \in Row
        /\ \A y \in Row : rows'[y] = IF y = x THEN row ELSE rows[y]
        /\ \A k \in Kind : row[k] = req[p].val[k] \/ row[k] = rows[x][k]
    BY <1>1, <2>1, Apart DEF Updated, TypeInv, Shape
  <2>3. RowNames(p)
    BY <2>2 DEF RowNames, Names
  <2> QED
    BY <1>2, <1>4, <1>7, <2>3
<1>8. CASE PutObject(p)
  <2>1. req[p].pc = "put" /\ rows' = rows
    BY <1>8 DEF PutObject, At
  <2>2. PICK r : Stored(p, r)
    BY <1>1, <1>8, PutObjectRequest
  <2>3. OldNames(p) /\ req'[p].pc # "put"
    BY <2>1, <2>2 DEF OldNames, Names, Stored
  <2> QED
    BY <1>2, <1>3, <2>1, <2>3
<1>9. CASE Select(p)
  <2>1. PICK r : Compared(p, r)
    BY <1>1, <1>9, SelectRequest
  <2>2. OldNames(p) /\ req'[p].pc # "put" /\ rows' = rows
    BY <2>1 DEF OldNames, Names, Compared
  <2> QED
    BY <1>2, <1>3, <2>2
<1>10. CASE BackfillVenueOwnerProfileIds(p)
  <2>1. /\ req'[p].pc = "loop" /\ rows' = rows
        /\ \A v \in req'[p].todo : v \in Vid /\ req'[p].found[v] = rows[v]
    BY <1>1, <1>10 DEF BackfillVenueOwnerProfileIds, Started, TypeInv, Shape
  <2>2. OldNames(p)
    BY <2>1 DEF OldNames, Names, Row
  <2> QED
    BY <1>2, <1>3, <2>1, <2>2
<1>11. ASSUME NEW u \in User, PatchMe(p, u) PROVE \A q \in Proc : FreshAt(q)'
  <2>1. PICK r : Texted(p, r, u)
    BY <1>1, <1>11, PatchMeRequest
  <2>2. OldNames(p) /\ req'[p].pc # "put" /\ rows' = rows
    BY <2>1, Apart DEF OldNames, Names, Texted
  <2> QED
    BY <1>2, <1>3, <2>2
<1>12. ASSUME NEW u \in User, NEW x \in Row, NEW kind \in Kind, Upload(p, u, x, kind)
       PROVE  \A q \in Proc : FreshAt(q)'
  <2>1. PICK r, key : Uploaded(p, r, u, x, kind, key)
    BY <1>1, <1>12, UploadRequest
  <2>2. /\ req'[p].pc = "put" /\ req'[p].todo = {} /\ req'[p].url = key /\ key \in Key /\ key[1] = u
        /\ key \in posted => u \in clash' /\ req'[p].u = u /\ rows' = rows
    BY <2>1, Typed DEF Uploaded
  <2>3. OldNames(p)
    BY <2>2 DEF OldNames, Names
  <2>4. ASSUME u \notin clash' PROVE /\ \A y \in Row, k \in Kind : rows'[y][k] # key
                                     /\ \A o \in Proc \ {p} : ~Names(o, key)'
    <3>1. key \notin posted /\ key # None
      BY <2>2, <2>4, Apart
    <3>2. \A y \in Row, k \in Kind : rows'[y][k] # key
      BY <2>1, <3>1 DEF KeysOK, KeysOf, Uploaded
    <3>3. ASSUME NEW o \in Proc \ {p} PROVE ~Names(o, key)'
      <4>1. ~Names(o, key)
        BY <2>2, <3>1, NamesPosted
      <4> QED
        BY <1>1, <4>1 DEF Names, Frame
    <3> QED
      BY <3>2, <3>3
  <2>5. FreshAt(p)'
    <3>1. req'[p].u = u /\ rows' = rows
      BY <2>1 DEF Uploaded
    <3> QED
      BY <2>2, <2>4, <3>1 DEF FreshAt
  <2>6. RowNames(p)
    BY <1>3, <2>1 DEF Uploaded
  <2> QED
    BY <1>1, <2>3, <2>5, <2>6, FreshStep
<1>13. ASSUME NEW v \in Vid, SavesLink(p, v) PROVE \A q \in Proc : FreshAt(q)'
  <2>1. PICK u \in User : Saves(p, v, rows[v], "link", u, u)
    BY <1>13 DEF SavesLink
  <2>2. OldNames(p)
    <3> SUFFICES ASSUME NEW key \in Key, Names(p, key)'
                 PROVE  Names(p, key) \/ \E x \in Row, k \in Kind : rows[x][k] = key
      BY DEF OldNames
    <3>1. Names(p, key) \/ \E k \in Kind : rows[v][k] = key
      BY <2>1, SavesNames, Apart
    <3> QED
      BY <3>1 DEF Row
  <2> QED
    BY <1>2, <1>3, <2>1, <2>2 DEF Saves, Keeps
<1>14. ASSUME NEW v \in req[p].todo, SavesFound(p, v) PROVE \A q \in Proc : FreshAt(q)'
  <2>1. PICK u \in User : Saves(p, v, req[p].found[v], "link", u, u)
    BY <1>14 DEF SavesFound
  <2>2. OldNames(p)
    <3> SUFFICES ASSUME NEW key \in Key, Names(p, key)'
                 PROVE  Names(p, key)
      BY DEF OldNames
    <3>1. Names(p, key) \/ \E k \in Kind : req[p].found[v][k] = key
      BY <2>1, SavesNames, Apart
    <3> QED
      BY <3>1 DEF Names
  <2> QED
    BY <1>2, <1>3, <2>1, <2>2 DEF Saves, Keeps
<1>15. ASSUME NEW x \in Row, SavesPost(p, x) PROVE \A q \in Proc : FreshAt(q)'
  <2>1. /\ Saves(p, x, rows[x], req[p].col, req[p].url, req[p].put)
        /\ req[p].pc = "read" /\ req[p].x = x /\ req[p].col \in Columns
    BY <1>1, <1>15 DEF SavesPost, IsRequest
  <2>2. OldNames(p)
    <3> SUFFICES ASSUME NEW key \in Key, Names(p, key)'
                 PROVE  Names(p, key) \/ \E y \in Row, k \in Kind : rows[y][k] = key
      BY DEF OldNames
    <3>1. \/ Names(p, key) \/ \E k \in Kind : rows[x][k] = key
          \/ req[p].col \in Kind /\ req[p].url = key
      BY <2>1, SavesNames
    <3> QED
      BY <2>1, <3>1 DEF Names
  <2> QED
    BY <1>2, <1>3, <2>1, <2>2 DEF Saves, Keeps
<1> QED
  BY <1>1, <1>5, <1>6, <1>7, <1>8, <1>9, <1>10, <1>11, <1>12, <1>13, <1>14, <1>15, Kinds

-----------------------------------------------------------------------------
(* What is held, and what is shown.                                        *)

LEMMA SettledBefore ==
  ASSUME TypeInv, NEW p \in Proc, Frame(p), NEW x \in Row, Settled(x)' PROVE Settled(x)
<1>1. ~raced[x]
  BY DEF Settled, Frame
<1>2. CASE OwnerOf(x) \in User
  BY <1>1, <1>2, OwnerKept DEF Settled, Frame
<1>3. CASE OwnerOf(x) \notin User
  BY <1>1, <1>3, Typed DEF Settled
<1> QED
  BY <1>2, <1>3

LEMMA MeansKept ==
  ASSUME NEW c, NEW e, c \in Kind => e = None \/ objects'[e] = objects[e]
  PROVE  Means(c, e)' = Means(c, e)
BY DEF Means, Picture

LEMMA OtherHeld ==
  ASSUME KeysOK, NEW p \in Proc, Frame(p), NEW q \in Proc \ {p}, HeldAt(q),
         \A x \in Row : x \in Holds(q) /\ Settled(x)' => rows'[x] = rows[x],
         \A key \in Key : Names(q, key) /\ key[1] \notin clash' => objects'[key] = objects[key]
  PROVE  HeldAt(q)'
<1>1. /\ SaneAt(q) /\ req'[q] = req[q] /\ TypeInv /\ KeysAt(q) /\ req[q].todo \subseteq Vid
      /\ IsRequest(req[q])
  BY DEF KeysOK, TypeInv, Shape, IsRequest, Frame
<1>2. PICK r : r = req[q]
  OBVIOUS
<1>3. ASSUME r.pc = "read", r.u \notin clash' PROVE Means(r.col, r.url)' = r.put
  <2>1. Means(r.col, r.url) = r.put
    BY <1>2, <1>3 DEF HeldAt, At, Frame
  <2>2. r.col \in Kind => objects'[r.url] = objects[r.url]
    BY <1>1, <1>2, <1>3 DEF SaneAt, KeysAt, Names
  <2> QED
    BY <2>1, <2>2, MeansKept
<1>4. ASSUME r.pc \in {"select", "update"}, Settled(r.x)'
      PROVE  /\ \A c \in Columns \ {r.col} : r.val[c] = rows'[r.x][c]
             /\ Means(r.col, r.val[r.col])' = r.put
             /\ r.pc = "update" => \A c \in Columns \ r.cols : r.val[c] = rows'[r.x][c]
  <2>1. r.x \in Row /\ OwnerOf(r.x) \in User
    BY <1>1, <1>2, <1>4 DEF SaneAt
  <2>2. Settled(r.x) /\ rows'[r.x] = rows[r.x]
    BY <1>1, <1>2, <1>4, <2>1, SettledBefore DEF Holds
  <2>3. OwnerOf(r.x) \notin clash'
    BY <1>4, <2>1, OwnerKept DEF Settled, Frame
  <2>4. r.col \in Kind => r.val[r.col] = None \/ objects'[r.val[r.col]] = objects[r.val[r.col]]
    <3>1. ASSUME r.col \in Kind, r.val[r.col] # None PROVE objects'[r.val[r.col]] = objects[r.val[r.col]]
      <4>1. r.val[r.col] \in Key
        BY <1>1, <1>2, <3>1, PictureCell DEF IsRequest
      <4>2. r.val[r.col][1] = OwnerOf(r.x)
        BY <1>1, <1>2, <1>4, <3>1 DEF KeysAt, KeysOf
      <4>3. Names(q, r.val[r.col])
        BY <1>2, <1>4, <3>1 DEF Names
      <4> QED
        BY <2>3, <4>1, <4>2, <4>3
    <3> QED
      BY <3>1
  <2>5. Means(r.col, r.val[r.col])' = Means(r.col, r.val[r.col])
    BY <2>4, MeansKept
  <2> QED
    BY <1>2, <1>4, <2>2, <2>5 DEF HeldAt, At
<1>5. ASSUME NEW v \in r.todo, Settled(v)' PROVE r.found[v] = rows'[v]
  <2>1. v \in Row /\ v \in Holds(q)
    BY <1>1, <1>2 DEF Row, Holds
  <2>2. Settled(v) /\ rows'[v] = rows[v]
    BY <1>1, <1>5, <2>1, SettledBefore
  <2> QED
    BY <1>2, <2>2 DEF HeldAt
<1> QED
  BY <1>1, <1>2, <1>3, <1>4, <1>5 DEF HeldAt, At

LEMMA SavesHeld ==
  ASSUME TypeInv, NEW p \in Proc, Frame(p), HeldAt(p), NEW x \in Row, NEW e, NEW col \in Columns, NEW n, NEW put,
         Saves(p, x, e, col, n, put),
         Settled(x)' => (\A c \in Columns \ {col} : e[c] = rows[x][c]) /\ Means(col, n) = put
  PROVE  HeldAt(p)'
<1>1. PICK r : r = req'[p]
  OBVIOUS
<1>2. /\ r.pc = "select" /\ r.x = x /\ r.col = col /\ r.put = put /\ rows' = rows /\ objects' = objects
      /\ \A c \in Columns : r.val[c] = IF c = col THEN n ELSE e[c]
      /\ r.todo = req[p].todo /\ r.found = req[p].found
  BY <1>1 DEF Saves, Keeps
<1>3. ASSUME Settled(x)'
      PROVE  (\A c \in Columns \ {col} : r.val[c] = rows'[x][c]) /\ Means(col, r.val[col])' = put
  <2>1. Means(col, n)' = Means(col, n)
    BY <1>2, MeansKept
  <2> QED
    BY <1>2, <1>3, <2>1
<1>4. ASSUME NEW v \in r.todo, Settled(v)' PROVE r.found[v] = rows'[v]
  <2>1. v \in Row
    BY <1>2 DEF TypeInv, Shape, IsRequest, Row
  <2> QED
    BY <1>2, <1>4, <2>1, SettledBefore DEF HeldAt
<1> QED
  BY <1>1, <1>2, <1>3, <1>4 DEF HeldAt, At

(* The step of p leaves the rows that p still holds.                       *)
LEMMA IdlesHeld ==
  ASSUME TypeInv, NEW p \in Proc, Frame(p), HeldAt(p), Idles(p),
         \A v \in req'[p].todo : rows'[v] = rows[v]
  PROVE  HeldAt(p)'
<1>1. ASSUME NEW v \in req'[p].todo, Settled(v)' PROVE req'[p].found[v] = rows'[v]
  <2>1. v \in req[p].todo /\ req'[p].found[v] = req[p].found[v]
    BY DEF Idles
  <2>2. v \in Row
    BY <2>1 DEF TypeInv, Shape, IsRequest, Row
  <2> QED
    BY <1>1, <2>1, <2>2, SettledBefore DEF HeldAt
<1> QED
  BY <1>1 DEF HeldAt, At, Idles

LEMMA ShowStep ==
  ASSUME ShowInv, NEW p \in Proc, Step(p), HeldAt(p)', \A q \in Proc \ {p} : HeldAt(q)',
         \A x \in Row, c \in Columns : Settled(x)' => Means(c, rows[x][c])' = last'[x][c]
  PROVE  ShowInv'
<1>1. KeysOK' /\ OneHolder' /\ \A q \in Proc : FreshAt(q)'
  BY KeysNext, HoldersNext, FreshNext DEF ShowInv, KeysOK
<1> QED
  BY <1>1 DEF ShowInv

(* Rows and pictures stay.                                                 *)
LEMMA ShowKeeps ==
  ASSUME ShowInv, NEW p \in Proc, Step(p), HeldAt(p)', UNCHANGED <<rows, objects, last>>
  PROVE  ShowInv'
<1>1. Frame(p) /\ TypeInv /\ KeysOK
  BY Frames DEF ShowInv, KeysOK
<1>2. \A q \in Proc \ {p} : HeldAt(q)'
  BY <1>1, OtherHeld DEF ShowInv
<1>3. ASSUME NEW x \in Row, NEW c \in Columns, Settled(x)' PROVE Means(c, rows[x][c])' = last'[x][c]
  BY <1>1, <1>3, SettledBefore DEF ShowInv, Means, Picture
<1> QED
  BY <1>2, <1>3, ShowStep

LEMMA ShowSaves ==
  ASSUME ShowInv, NEW p \in Proc, Step(p)
  PROVE  /\ \A v \in Vid : SavesLink(p, v) => ShowInv'
         /\ \A v \in req[p].todo : SavesFound(p, v) => ShowInv'
         /\ \A x \in Row : SavesPost(p, x) => ShowInv'
<1>1. /\ Frame(p) /\ TypeInv /\ HeldAt(p) /\ SaneAt(p) /\ IsRequest(req[p])
  BY Frames DEF ShowInv, KeysOK, TypeInv, Shape
<1>2. ASSUME NEW v \in Vid, SavesLink(p, v) PROVE ShowInv'
  <2>1. PICK u \in User : Saves(p, v, rows[v], "link", u, u)
    BY <1>2 DEF SavesLink
  <2>2. v \in Row /\ Means("link", u) = u
    BY Apart DEF Row, Means
  <2>3. HeldAt(p)'
    BY <1>1, <2>1, <2>2, SavesHeld, Apart
  <2> QED
    BY <2>1, <2>3, ShowKeeps DEF Saves, Keeps
<1>3. ASSUME NEW v \in req[p].todo, SavesFound(p, v) PROVE ShowInv'
  <2>1. PICK u \in User : Saves(p, v, req[p].found[v], "link", u, u)
    BY <1>3 DEF SavesFound
  <2>2. v \in Row /\ Means("link", u) = u
    BY <1>1, Apart DEF Row, Means, IsRequest
  <2>3. Settled(v)' => req[p].found[v] = rows[v]
    BY <1>1, <2>2, SettledBefore DEF HeldAt
  <2>4. HeldAt(p)'
    BY <1>1, <2>1, <2>2, <2>3, SavesHeld, Apart
  <2> QED
    BY <2>1, <2>4, ShowKeeps DEF Saves, Keeps
<1>4. ASSUME NEW x \in Row, SavesPost(p, x) PROVE ShowInv'
  <2>1. /\ Saves(p, x, rows[x], req[p].col, req[p].url, req[p].put)
        /\ req[p].pc = "read" /\ req[p].x = x /\ req[p].col \in Columns
    BY <1>1, <1>4 DEF SavesPost, IsRequest
  <2>2. OwnerOf(x) = req[p].u
    BY <1>1, <2>1 DEF SaneAt
  <2>3. Settled(x)' => Means(req[p].col, req[p].url) = req[p].put
    BY <1>1, <2>1, <2>2, SettledBefore DEF HeldAt, At, Settled
  <2>4. HeldAt(p)'
    BY <1>1, <2>1, <2>3, SavesHeld
  <2> QED
    BY <2>1, <2>4, ShowKeeps DEF Saves, Keeps
<1> QED
  BY <1>2, <1>3, <1>4

(* The venue is new: nobody holds it, and it shows what was put there.     *)
LEMMA ShowInsert ==
  ASSUME ShowInv, NEW p \in Proc, Step(p), InsertVenue(p), Idles(p) PROVE ShowInv'
<1>1. Frame(p) /\ TypeInv /\ KeysOK /\ HeldAt(p)
  BY Frames DEF ShowInv, KeysOK
<1>2. PICK v, u : /\ v \in Vid /\ venues[v] = NoVenue /\ objects' = objects
                  /\ rows' = [rows EXCEPT ![v]["link"] = u] /\ last' = [last EXCEPT ![v]["link"] = u]
  BY DEF InsertVenue
<1>3. v \in Row /\ OwnerOf(v) \notin User /\ venues[v].owner \notin User
  BY <1>2, Apart DEF Row, OwnerOf, NoVenue
<1>4. \A x \in Row \ {v} : rows'[x] = rows[x] /\ last'[x] = last[x]
  BY <1>1, <1>2 DEF TypeInv, Shape
<1>5. /\ rows'[v]["link"] = u /\ last'[v]["link"] = u
      /\ \A c \in Columns \ {"link"} : rows'[v][c] = rows[v][c] /\ last'[v][c] = last[v][c]
  <2>1. /\ rows = [x \in Row |-> rows[x]] /\ last = [x \in Row |-> last[x]]
        /\ rows[v] = [c \in Columns |-> rows[v][c]] /\ last[v] = [c \in Columns |-> last[v][c]]
    BY <1>1, <1>3 DEF TypeInv, Shape, IsEntity
  <2> QED
    BY <1>2, <1>3, <2>1, Apart
<1>6. HeldAt(p)'
  <2>1. req'[p].todo = {}
    BY <1>1, NothingSaved, NothingRequested DEF InsertVenue
  <2> QED
    BY <1>1, <2>1, IdlesHeld
<1>7. ASSUME NEW q \in Proc \ {p} PROVE HeldAt(q)'
  <2>1. v \notin Holds(q)
    BY <1>1, <1>3 DEF Holds, TypeInv, SaneAt
  <2>2. \A x \in Row : x \in Holds(q) => rows'[x] = rows[x]
    BY <1>4, <2>1
  <2> QED
    BY <1>1, <1>2, <2>2, OtherHeld DEF ShowInv
<1>8. ASSUME NEW x \in Row, NEW c \in Columns, Settled(x)' PROVE Means(c, rows[x][c])' = last'[x][c]
  <2>1. Means(c, rows[x][c]) = last[x][c]
    BY <1>1, <1>8, SettledBefore DEF ShowInv
  <2>2. CASE x = v /\ c = "link"
    BY <1>5, <2>2, Apart DEF Means
  <2>3. CASE ~(x = v /\ c = "link")
    <3>1. rows'[x][c] = rows[x][c] /\ last'[x][c] = last[x][c]
      BY <1>4, <1>5, <2>3
    <3> QED
      BY <1>2, <2>1, <3>1 DEF Means, Picture
  <2> QED
    BY <2>2, <2>3
<1> QED
  BY <1>6, <1>7, <1>8, ShowStep

(* The row becomes the entity that was held, unless somebody else held it. *)
LEMMA ShowUpdate ==
  ASSUME ShowInv, NEW p \in Proc, Step(p), Update(p), Idles(p) PROVE ShowInv'
<1>1. /\ Frame(p) /\ TypeInv /\ KeysOK /\ HeldAt(p) /\ OneHolder /\ req[p].todo \subseteq Vid
      /\ req[p].col \in Columns
  BY Frames DEF ShowInv, KeysOK, TypeInv, Shape, IsRequest
<1>2. PICK r, x, row : Updated(p, r, x, row)
  BY <1>1, UpdateRequest
<1>3. /\ x = req[p].x /\ x \in Row /\ req[p].pc = "update" /\ objects' = objects
      /\ rows' = [rows EXCEPT ![x] = row] /\ raced' = raced
      /\ \A c \in Columns : row[c] = IF c \in req[p].cols THEN req[p].val[c] ELSE rows[x][c]
      /\ x \notin req'[p].todo
  BY <1>2, NothingRequested DEF Updated
<1>4. /\ \A y \in Row : rows'[y] = IF y = x THEN row ELSE rows[y]
      /\ \A y \in Row \ {x} : last'[y] = last[y]
      /\ last'[x][req[p].col] = req[p].put
      /\ \A c \in Columns \ {req[p].col} : last'[x][c] = last[x][c]
  <2>1. rows = [y \in Row |-> rows[y]] /\ last = [y \in Row |-> last[y]]
    BY <1>1 DEF TypeInv, Shape
  <2>2. last[x] = [c \in Columns |-> last[x][c]]
    BY <1>1, <1>3 DEF TypeInv, Shape
  <2>3. last' = [last EXCEPT ![x][req[p].col] = req[p].put]
    BY <1>2 DEF Updated
  <2> QED
    BY <1>1, <1>3, <2>1, <2>2, <2>3
<1>5. HeldAt(p)'
  <2>1. \A v \in req'[p].todo : rows'[v] = rows[v]
    BY <1>1, <1>3, <1>4 DEF Idles, Row
  <2> QED
    BY <1>1, <2>1, IdlesHeld
<1>6. ASSUME NEW q \in Proc \ {p} PROVE HeldAt(q)'
  <2>1. \A y \in Row : y \in Holds(q) /\ Settled(y)' => rows'[y] = rows[y]
    <3>1. x \in Holds(p)
      BY <1>3 DEF Holds
    <3>2. x \in Holds(q) => raced'[x]
      BY <1>1, <1>3, <3>1 DEF OneHolder
    <3> QED
      BY <1>4, <3>2 DEF Settled
  <2> QED
    BY <1>1, <1>3, <2>1, OtherHeld DEF ShowInv
<1>7. ASSUME NEW y \in Row, NEW c \in Columns, Settled(y)' PROVE Means(c, rows[y][c])' = last'[y][c]
  <2>1. Settled(y) /\ Means(c, rows[y][c]) = last[y][c]
    BY <1>1, <1>7, SettledBefore DEF ShowInv
  <2>2. CASE y # x
    BY <1>3, <1>4, <2>1, <2>2 DEF Means, Picture
  <2>3. CASE y = x
    <3>1. /\ \A d \in Columns \ {req[p].col} : req[p].val[d] = rows[x][d]
          /\ Means(req[p].col, req[p].val[req[p].col]) = req[p].put
          /\ \A d \in Columns \ req[p].cols : req[p].val[d] = rows[x][d]
      BY <1>1, <1>3, <2>1, <2>3 DEF HeldAt, At
    <3>2. rows'[x][c] = req[p].val[c]
      BY <1>3, <1>4, <3>1
    <3>3. Means(c, req[p].val[c]) = last'[x][c]
      BY <1>4, <2>1, <2>3, <3>1
    <3> QED
      BY <1>3, <2>3, <3>2, <3>3 DEF Means, Picture
  <2> QED
    BY <2>2, <2>3
<1> QED
  BY <1>5, <1>6, <1>7, ShowStep

(* Nothing that is shown has the key of the new picture.                   *)
LEMMA ShowPut ==
  ASSUME ShowInv, NEW p \in Proc, Step(p), PutObject(p) PROVE ShowInv'
<1>1. /\ Frame(p) /\ TypeInv /\ KeysOK /\ HeldAt(p) /\ SaneAt(p) /\ FreshAt(p) /\ KeysAt(p)
      /\ req[p].todo \subseteq Vid
  BY Frames DEF ShowInv, KeysOK, TypeInv, Shape, IsRequest
<1>2. PICK url : /\ url = req[p].url /\ url \in Key /\ url[1] = req[p].u /\ req[p].col \in Kind
                 /\ req[p].pc = "put" /\ objects' = [objects EXCEPT ![url] = req[p].put]
                 /\ UNCHANGED <<rows, last, clash, raced, venues>>
  BY <1>1 DEF PutObject, SaneAt, KeysAt, At, history
<1>3. /\ objects'[url] = req[p].put /\ \A key \in Key \ {url} : objects'[key] = objects[key]
      /\ url # None
  BY <1>1, <1>2, Typed, Apart
<1>4. HeldAt(p)'
  <2>1. PICK r : Stored(p, r)
    BY <1>1, PutObjectRequest
  <2>2. PICK s : s = req'[p]
    OBVIOUS
  <2>3. /\ s.pc = "read" /\ s.col = req[p].col /\ s.url = url /\ s.put = req[p].put
        /\ s.todo = req[p].todo /\ s.found = req[p].found
    BY <1>2, <2>1, <2>2 DEF Stored
  <2>4. Means(s.col, s.url)' = s.put
    BY <1>2, <1>3, <2>3 DEF Means, Picture
  <2>5. ASSUME NEW v \in s.todo, Settled(v)' PROVE s.found[v] = rows'[v]
    <3>1. v \in Row /\ v \in req[p].todo
      BY <1>1, <2>3 DEF Row
    <3> QED
      BY <1>1, <1>2, <2>3, <2>5, <3>1, SettledBefore DEF HeldAt
  <2> QED
    BY <2>2, <2>3, <2>4, <2>5 DEF HeldAt, At
<1>5. ASSUME NEW q \in Proc \ {p} PROVE HeldAt(q)'
  <2>1. ASSUME NEW key \in Key, Names(q, key), key[1] \notin clash' PROVE objects'[key] = objects[key]
    <3>1. key # url
      BY <1>1, <1>2, <2>1 DEF FreshAt, At
    <3> QED
      BY <1>3, <3>1
  <2> QED
    BY <1>1, <1>2, <2>1, OtherHeld DEF ShowInv
<1>6. ASSUME NEW x \in Row, NEW c \in Columns, Settled(x)' PROVE Means(c, rows[x][c])' = last'[x][c]
  <2>1. Settled(x) /\ Means(c, rows[x][c]) = last[x][c]
    BY <1>1, <1>6, SettledBefore DEF ShowInv
  <2>2. PICK e : e = rows[x][c]
    OBVIOUS
  <2>3. c \in Kind => e = None \/ objects'[e] = objects[e]
    <3> SUFFICES ASSUME c \in Kind, e # None PROVE objects'[e] = objects[e]
      OBVIOUS
    <3>1. e \in Key
      BY <1>1, <2>2, PictureCell DEF TypeInv, Shape
    <3>2. e[1] = OwnerOf(x)
      BY <1>1, <2>2 DEF KeysOK, KeysOf
    <3>3. e # url
      BY <1>1, <1>2, <2>1, <2>2, <3>2 DEF FreshAt, At, Settled
    <3> QED
      BY <1>3, <3>1, <3>3
  <2>4. Means(c, e)' = Means(c, e)
    BY <2>3, MeansKept
  <2> QED
    BY <1>2, <2>1, <2>2, <2>4
<1> QED
  BY <1>4, <1>5, <1>6, ShowStep

LEMMA ShowNext ==
  ASSUME ShowInv, NEW p \in Proc, Step(p) PROVE ShowInv'
<1>1. /\ Frame(p) /\ TypeInv /\ HeldAt(p) /\ IsRequest(req[p])
  BY Frames DEF ShowInv, KeysOK, TypeInv, Shape
<1>2. CASE Quiet(p)
  <2>1. \A v \in req'[p].todo : rows'[v] = rows[v]
    BY <1>2 DEF Quiet, Keeps
  <2>2. HeldAt(p)'
    BY <1>1, <1>2, <2>1, IdlesHeld DEF Quiet
  <2> QED
    BY <1>2, <2>2, ShowKeeps DEF Quiet, Keeps
<1>3. CASE Select(p)
  <2>1. PICK r : Compared(p, r)
    BY <1>1, <1>3, SelectRequest
  <2>2. /\ req'[p] = r /\ r.pc = "update" /\ r.x = req[p].x /\ r.col = req[p].col /\ r.put = req[p].put
        /\ r.todo = req[p].todo /\ r.found = req[p].found /\ r.val = req[p].val
        /\ \A c \in Columns \ r.cols : r.val[c] = rows[r.x][c]
        /\ req[p].pc = "select" /\ UNCHANGED <<venues, rows, objects, clash, raced, last>>
    BY <2>1 DEF Compared, history
  <2>3. \A x \in Row : Settled(x)' = Settled(x)
    BY <2>2 DEF Settled, OwnerOf
  <2>4. Settled(r.x)' = Settled(r.x)
    BY <2>2 DEF Settled, OwnerOf
  <2>5. Means(r.col, r.val[r.col])' = Means(r.col, r.val[r.col])
    BY <2>2, MeansKept
  <2>6. ASSUME NEW v \in r.todo, Settled(v)' PROVE r.found[v] = rows'[v]
    <3>1. v \in Row
      BY <1>1, <2>2 DEF IsRequest, Row
    <3> QED
      BY <1>1, <2>2, <2>3, <2>6, <3>1 DEF HeldAt
  <2>7. HeldAt(p)'
    BY <1>1, <2>2, <2>4, <2>5, <2>6 DEF HeldAt, At
  <2> QED
    BY <2>2, <2>7, ShowKeeps
<1>4. CASE BackfillVenueOwnerProfileIds(p)
  <2>1. /\ req'[p].pc = "loop" /\ UNCHANGED <<rows, objects, last>>
        /\ \A v \in req'[p].todo : v \in Vid /\ req'[p].found[v] = rows[v]
    BY <1>1, <1>4 DEF BackfillVenueOwnerProfileIds, Started, TypeInv, Shape
  <2>2. HeldAt(p)'
    BY <2>1 DEF HeldAt, At
  <2> QED
    BY <2>1, <2>2, ShowKeeps
<1>5. ASSUME NEW u \in User, PatchMe(p, u) PROVE ShowInv'
  <2>1. PICK r : Texted(p, r, u)
    BY <1>1, <1>5, PatchMeRequest
  <2>2. HeldAt(p)'
    BY <2>1, Apart DEF Texted, HeldAt, At, Means
  <2> QED
    BY <2>1, <2>2, ShowKeeps DEF Texted, history
<1>6. ASSUME NEW u \in User, NEW x \in Row, NEW kind \in Kind, Upload(p, u, x, kind) PROVE ShowInv'
  <2>1. PICK r, key : Uploaded(p, r, u, x, kind, key)
    BY <1>1, <1>6, UploadRequest
  <2>2. HeldAt(p)'
    BY <2>1 DEF Uploaded, HeldAt, At
  <2> QED
    BY <2>1, <2>2, ShowKeeps DEF Uploaded
<1> QED
  BY <1>1, <1>2, <1>3, <1>4, <1>5, <1>6, ShowInsert, ShowUpdate, ShowPut, ShowSaves, Kinds

LEMMA InitShow == Init => ShowInv
<1> SUFFICES ASSUME Init PROVE ShowInv
  OBVIOUS
<1>1. /\ TypeInv /\ \A p \in Proc : req[p].pc = "idle" /\ req[p].todo = {}
  BY InitType, NothingRequested DEF Init
<1>2. \A x \in Row : rows[x] = Empty /\ last[x] = Nothing
  BY DEF Init
<1>3. \A c \in Columns : Means(c, Empty[c]) = Nothing[c]
  BY Apart DEF Empty, Nothing, Means, Picture, Columns
<1>4. \A x \in Row : KeysOf(rows[x], OwnerOf(x))
  BY <1>2, EmptyEntity, Apart DEF KeysOf
<1>5. \A p \in Proc : KeysAt(p) /\ FreshAt(p) /\ HeldAt(p) /\ Holds(p) = {}
  BY <1>1 DEF KeysAt, FreshAt, HeldAt, Holds, At
<1> QED
  BY <1>1, <1>2, <1>3, <1>4, <1>5 DEF ShowInv, KeysOK, OneHolder

LEMMA ShowInductive == ShowInv /\ [Next]_vars => ShowInv'
<1>1. ASSUME ShowInv, UNCHANGED vars PROVE ShowInv'
  <2>1. TypeInv'
    BY <1>1, NextType DEF ShowInv, KeysOK
  <2>2. UNCHANGED <<venues, rows, objects, req, posted, clash, last, raced>>
    BY <1>1 DEF vars, history
  <2>3. KeysOK'
    BY <1>1, <2>1, <2>2 DEF ShowInv, KeysOK, KeysAt, KeysOf, OwnerOf
  <2>4. OneHolder'
    BY <1>1, <2>2 DEF ShowInv, OneHolder, Holds
  <2>5. \A p \in Proc : FreshAt(p)'
    BY <1>1, <2>2 DEF ShowInv, FreshAt, Names, At
  <2>6. \A p \in Proc : HeldAt(p)'
    BY <1>1, <2>2 DEF ShowInv, HeldAt, At, Settled, OwnerOf, Means, Picture
  <2>7. \A x \in Row, c \in Columns : Settled(x)' => Means(c, rows[x][c])' = last'[x][c]
    BY <1>1, <2>2 DEF ShowInv, Settled, OwnerOf, Means, Picture
  <2> QED
    BY <2>3, <2>4, <2>5, <2>6, <2>7 DEF ShowInv
<1>2. ASSUME ShowInv, Next PROVE ShowInv'
  BY <1>2, Steps, ShowNext
<1> QED
  BY <1>1, <1>2

(* Handlers, among them a backfill that holds its list for long, read      *)
(* whole entities and save them; the columns that differ are updated.      *)
(* However their statements interleave, a row that one of them held at a   *)
(* time shows in every column what the last call that finished put there.  *)
THEOREM RowsShowLastPost == Spec => []ShowsLastPost
<1>1. ShowInv => ShowsLastPost
  <2> SUFFICES ASSUME ShowInv, NEW x \in Row, ~raced[x], OwnerOf(x) \notin clash
               PROVE  Shown(x) = last[x]
    BY DEF ShowsLastPost
  <2>1. \A c \in Columns : Means(c, rows[x][c]) = last[x][c]
    BY DEF ShowInv, Settled
  <2>2. Shown(x) = [c \in Columns |-> Means(c, rows[x][c])]
    BY DEF Shown, Means
  <2>3. last[x] = [c \in Columns |-> last[x][c]]
    BY DEF ShowInv, KeysOK, TypeInv, Shape
  <2> QED
    BY <2>1, <2>2, <2>3
<1> QED
  BY <1>1, InitShow, ShowInductive, PTL DEF Spec
=============================================================================
