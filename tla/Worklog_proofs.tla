--------------------------- MODULE Worklog_proofs ---------------------------
(***************************************************************************)
(* What Worklog promises, for any clients, projects, entries and requests, *)
(* and for listings of any length with pages of any size.                  *)
(***************************************************************************)
EXTENDS Worklog, FiniteSetTheorems, WellFoundedInduction, TLAPS

-----------------------------------------------------------------------------
(***************************************************************************)
(* The order of a listing, and its pages.                                  *)
(***************************************************************************)

Place == [date : Nat, id : Nat]

\* Before is a strict order, and total.
LEMMA BeforeOrders ==
  /\ \A k \in Place : ~Before(k, k)
  /\ \A k, l, m \in Place : Before(k, l) /\ Before(l, m) => Before(k, m)
  /\ \A k, l \in Place : k = l \/ Before(k, l) \/ Before(l, k)
<1>1. \A k, l \in Place : k = l <=> k.date = l.date /\ k.id = l.id
  BY DEF Place
<1>. QED
  BY <1>1 DEF Before, Place

LEMMA KeysArePlaces ==
  ASSUME entry \in [Entries -> EntryRow]
  PROVE  /\ \A t \in Entries : Key(t) \in Place /\ Key(t) \in Cursor
         /\ \A t, u \in Entries : Key(t) = Key(u) => t = u
         /\ \A c \in Cursor : c \in Place
  BY WorklogAssumption DEF Key, Place, Cursor, EntryRow, EntryColumns

\* Among finitely many sets there is a smallest.
LEMMA SmallestSet ==
  ASSUME NEW S, IsFiniteSet(S), S # {}, NEW f \in [S -> SUBSET S]
  PROVE  \E t \in S : \A u \in S : f[u] \subseteq f[t] => f[u] = f[t]
<1> DEFINE F == {f[u] : u \in S}
<1>1. F \subseteq FiniteSubsetsOf(S) /\ F # {}
  BY FS_Subset DEF FiniteSubsetsOf
<1>2. PICK m \in F : \A n \in F : ~(<<n, m>> \in StrictSubsetOrdering(S))
  BY <1>1, FS_StrictSubsetOrderingWellFounded, WFMin
<1>3. PICK t \in S : f[t] = m
  BY <1>2
<1>4. ASSUME NEW u \in S, f[u] \subseteq f[t] PROVE f[u] = f[t]
  <2>1. ~(<<f[u], f[t]>> \in StrictSubsetOrdering(S))
    BY <1>2, <1>3
  <2>. QED
    BY <2>1, <1>4 DEF StrictSubsetOrdering
<1>. QED
  BY <1>4

Behind(rows, t) == {u \in rows : Before(Key(u), Key(t))}
Ahead(rows, t) == {u \in rows : Before(Key(t), Key(u))}

\* The last of some rows is behind none of them.
LEMMA LastOfRows ==
  ASSUME entry \in [Entries -> EntryRow], NEW rows \in SUBSET Entries, rows # {}
  PROVE  /\ LastOf(rows) \in rows
         /\ \A u \in rows : u = LastOf(rows) \/ Before(Key(u), Key(LastOf(rows)))
<1>1. IsFiniteSet(rows)
  BY FS_Subset, WorklogAssumption
<1>2. PICK t \in rows : \A u \in rows : Ahead(rows, u) \subseteq Ahead(rows, t) =>
                                        Ahead(rows, u) = Ahead(rows, t)
  <2> DEFINE f == [u \in rows |-> Ahead(rows, u)]
  <2>1. f \in [rows -> SUBSET rows]
    BY DEF Ahead
  <2>2. ASSUME NEW g \in [rows -> SUBSET rows]
        PROVE  \E v \in rows : \A u \in rows : g[u] \subseteq g[v] => g[u] = g[v]
    <3>1. IsFiniteSet(rows) /\ rows # {}
      BY <1>1
    <3>. QED
      BY <3>1, SmallestSet
  <2>. QED
    BY <2>1, <2>2
<1>3. ASSUME NEW u \in rows, Before(Key(t), Key(u)) PROVE FALSE
  <2>1. Ahead(rows, u) \subseteq Ahead(rows, t)
    BY <1>3, BeforeOrders, KeysArePlaces DEF Ahead
  <2>2. u \in Ahead(rows, t) /\ u \notin Ahead(rows, u)
    BY <1>3, BeforeOrders, KeysArePlaces DEF Ahead
  <2>. QED
    BY <1>2, <2>1, <2>2
<1>4. \A u \in rows : u = t \/ Before(Key(u), Key(t))
  BY <1>3, BeforeOrders, KeysArePlaces
<1>. QED
  BY <1>4 DEF LastOf

\* A page of a list is a piece of its beginning, and ends with its last row.
LEMMA PageOfRows ==
  ASSUME entry \in [Entries -> EntryRow], NEW rows \in SUBSET Entries, rows # {},
         NEW n \in Nat \ {0}
  PROVE  LET page == Page(rows, n) IN
         /\ page \subseteq rows /\ page # {}
         /\ LastOf(page) \in page
         /\ \A u \in rows : u \in page <=> ~Before(Key(LastOf(page)), Key(u))
         /\ Cardinality(rows) <= n => page = rows
<1> DEFINE page == Page(rows, n)
<1>1. IsFiniteSet(rows) /\ \A u \in rows : Behind(rows, u) \in SUBSET rows
  BY FS_Subset, WorklogAssumption DEF Behind
<1>2. \A u \in rows : /\ IsFiniteSet(Behind(rows, u))
                      /\ Cardinality(Behind(rows, u)) \in Nat
  BY <1>1, FS_Subset, FS_CardinalityType
<1>3. \A u \in rows : u \in page <=> Cardinality(Behind(rows, u)) < n
  BY DEF Page, Behind
<1>4. PICK t \in rows : \A u \in rows : Behind(rows, u) \subseteq Behind(rows, t) =>
                                        Behind(rows, u) = Behind(rows, t)
  <2> DEFINE f == [u \in rows |-> Behind(rows, u)]
  <2>1. f \in [rows -> SUBSET rows]
    BY <1>1
  <2>2. ASSUME NEW g \in [rows -> SUBSET rows]
        PROVE  \E v \in rows : \A u \in rows : g[u] \subseteq g[v] => g[u] = g[v]
    <3>1. IsFiniteSet(rows) /\ rows # {}
      BY <1>1
    <3>. QED
      BY <3>1, SmallestSet
  <2>. QED
    BY <2>1, <2>2
<1>5. \A u, v \in rows : Before(Key(u), Key(v)) =>
        /\ Behind(rows, u) \subseteq Behind(rows, v)
        /\ u \in Behind(rows, v) /\ u \notin Behind(rows, u)
  BY BeforeOrders, KeysArePlaces DEF Behind
<1>6. t \in page
  <2>1. Behind(rows, t) = {}
    BY <1>4, <1>5 DEF Behind
  <2>. QED
    BY <1>3, <2>1, FS_EmptySet
<1>7. page \subseteq rows /\ page \in SUBSET Entries
  BY DEF Page
<1>8. /\ LastOf(page) \in page
      /\ \A u \in page : u = LastOf(page) \/ Before(Key(u), Key(LastOf(page)))
  BY <1>6, <1>7, LastOfRows
<1>. HIDE DEF page
<1>9. ASSUME NEW u \in rows PROVE u \in page <=> ~Before(Key(LastOf(page)), Key(u))
  <2>1. CASE u \in page
    BY <1>7, <1>8, <2>1, BeforeOrders, KeysArePlaces
  <2>2. CASE u \notin page
    <3>1. SUFFICES ASSUME ~Before(Key(LastOf(page)), Key(u)) PROVE FALSE
      BY <2>2
    <3>2. Before(Key(u), Key(LastOf(page)))
      BY <1>7, <1>8, <2>2, <3>1, BeforeOrders, KeysArePlaces
    <3>3. Behind(rows, u) \in SUBSET Behind(rows, LastOf(page))
      BY <1>5, <1>7, <1>8, <3>2
    <3>4. Cardinality(Behind(rows, u)) <= Cardinality(Behind(rows, LastOf(page)))
      BY <1>2, <1>7, <1>8, <3>3, FS_Subset
    <3>5. LastOf(page) \in rows /\ Cardinality(Behind(rows, LastOf(page))) < n
      BY <1>3, <1>7, <1>8
    <3>6. \A k, l \in Nat : k <= l /\ l < n => k < n
      OBVIOUS
    <3>7. Cardinality(Behind(rows, u)) < n
      BY <1>2, <3>4, <3>5, <3>6
    <3>. QED
      BY <1>3, <2>2, <3>7
  <2>. QED
    BY <2>1, <2>2
<1>10. ASSUME Cardinality(rows) <= n PROVE page = rows
  <2>1. ASSUME NEW u \in rows PROVE u \in page
    <3>1. u \notin Behind(rows, u)
      BY BeforeOrders, KeysArePlaces DEF Behind
    <3>2. Cardinality(Behind(rows, u)) <= Cardinality(rows) /\ Behind(rows, u) # rows
      BY <1>1, <3>1, FS_Subset
    <3>3. Cardinality(Behind(rows, u)) # Cardinality(rows)
      BY <1>1, <3>2, FS_Subset
    <3>4. Cardinality(rows) \in Nat
      BY <1>1, FS_CardinalityType
    <3>. QED
      BY <1>2, <1>3, <1>10, <3>2, <3>3, <3>4
  <2>. QED
    BY <1>7, <2>1
<1>. QED
  BY <1>6, <1>7, <1>8, <1>9, <1>10 DEF page
USE WorklogAssumption
-----------------------------------------------------------------------------
(***************************************************************************)
(* Types and references.                                                   *)
(***************************************************************************)

Creation == [op : {"create project"}, client : Clients, name : Names]
ClientPatch ==
  [op : {"patch client"}, client : Clients, change : ClientChange, copy : ClientColumns]
ProjectPatch ==
  [op : {"patch project"}, project : Projects, change : ProjectChange, copy : ProjectColumns]
NewEntry == [op : {"create entry"}, columns : EntryColumns]
EntryPatch ==
  [op : {"patch entry"}, ready : BOOLEAN, entry : Entries, change : EntryChange,
   copy : EntryColumns]
Listing ==
  [op : {"list"}, done : BOOLEAN, filter : Projects \union {None},
   cursor : Cursor \union {None}, seen : [Entries -> Nat],
   there : SUBSET Entries, moved : SUBSET Entries]

\* The operation of a request says what its columns are.
LEMMA RequestShapes ==
  /\ \A r \in Request :
       /\ r = Idle \/ r \in Creation \/ r \in ClientPatch \/ r \in ProjectPatch
            \/ r \in NewEntry \/ r \in EntryPatch \/ r \in Listing
       /\ r.op = "none" => r = Idle
       /\ r.op = "create project" => r \in Creation
       /\ r.op = "patch client" => r \in ClientPatch
       /\ r.op = "patch project" => r \in ProjectPatch
       /\ r.op = "create entry" => r \in NewEntry
       /\ r.op = "patch entry" => r \in EntryPatch
       /\ r.op = "list" => r \in Listing
  /\ Idle \in Request /\ Idle.op = "none"
  /\ Creation \subseteq Request /\ ClientPatch \subseteq Request
  /\ ProjectPatch \subseteq Request /\ NewEntry \subseteq Request
  /\ EntryPatch \subseteq Request /\ Listing \subseteq Request
<1>1. Request = {Idle} \union Creation \union ClientPatch \union ProjectPatch
                  \union NewEntry \union EntryPatch \union Listing
  BY DEF Request, Creation, ClientPatch, ProjectPatch, NewEntry, EntryPatch, Listing
<1>2. /\ Idle.op = "none"
      /\ \A r \in Creation : r.op = "create project"
      /\ \A r \in ClientPatch : r.op = "patch client"
      /\ \A r \in ProjectPatch : r.op = "patch project"
      /\ \A r \in NewEntry : r.op = "create entry"
      /\ \A r \in EntryPatch : r.op = "patch entry"
      /\ \A r \in Listing : r.op = "list"
  BY DEF Idle, Creation, ClientPatch, ProjectPatch, NewEntry, EntryPatch, Listing
<1>. QED
  BY <1>1, <1>2

\* What a PATCH writes are columns again.
LEMMA MergedTypes ==
  /\ \A change \in ClientChange, copy \in ClientColumns : Merged(change, copy) \in ClientColumns
  /\ \A change \in ProjectChange, copy \in ProjectColumns :
       Merged(change, copy) \in ProjectColumns
  /\ \A change \in EntryChange, copy \in EntryColumns : Merged(change, copy) \in EntryColumns
<1>1. ASSUME NEW change \in ClientChange, NEW copy \in ClientColumns
      PROVE  Merged(change, copy) \in ClientColumns
  BY DEF Merged, ClientChange, ClientColumns
<1>2. ASSUME NEW change \in ProjectChange, NEW copy \in ProjectColumns
      PROVE  Merged(change, copy) \in ProjectColumns
  BY DEF Merged, ProjectChange, ProjectColumns
<1>3. ASSUME NEW change \in EntryChange, NEW copy \in EntryColumns
      PROVE  /\ Merged(change, copy) \in EntryColumns
  BY DEF Merged, EntryChange, EntryColumns
<1>. QED
  BY <1>1, <1>2, <1>3

\* The rows that a request has found are there.
Found(r) ==
  /\ r.op = "create project" => Present(client[r.client])
  /\ r.op = "patch client" => Present(client[r.client])
  /\ r.op = "patch project" => Exists(project[r.project])
  /\ r.op = "create entry" => Exists(project[r.columns.project])
  /\ r.op = "patch entry" =>
       /\ Present(entry[r.entry])
       /\ Exists(project[r.copy.project])
       /\ r.ready /\ r.change.project # None => Exists(project[r.change.project])

AskedTypes ==
  /\ \A c \in Clients : asked[c] \in ClientColumns
  /\ \A p \in Projects : asked[p] \in ProjectColumns
  /\ \A t \in Entries : asked[t] \in EntryColumns

TypeInv ==
  /\ TypeOK
  /\ AskedTypes
  /\ \A q \in Requests : Found(request[q])

LEMMA InitTypeInv == Init => TypeInv
<1> SUFFICES ASSUME Init PROVE TypeInv
  OBVIOUS
<1>1. AskedTypes
  <2>1. \A c \in Clients : asked[c] = client[c].columns /\ client[c].columns \in ClientColumns
    BY DEF Init, ClientRow
  <2>2. \A p \in Projects : asked[p] = project[p].columns /\ project[p].columns \in ProjectColumns
    BY DEF Init, ProjectRow
  <2>3. \A t \in Entries : asked[t] = entry[t].columns /\ entry[t].columns \in EntryColumns
    BY DEF Init, EntryRow
  <2>. QED
    BY <2>1, <2>2, <2>3 DEF AskedTypes
<1>2. TypeOK
  <2>1. asked \in [Entries \union Projects \union Clients ->
                     EntryColumns \union ProjectColumns \union ClientColumns]
    BY <1>1 DEF Init, AskedTypes
  <2>. QED
    <3>1. request \in [Requests -> Request]
      BY RequestShapes DEF Init
    <3>2. begun \in 0..MaxRequests /\ overlapped = {}
      BY DEF Init
    <3>. QED
      BY <2>1, <3>1, <3>2 DEF Init, TypeOK
<1>. QED
  BY <1>1, <1>2 DEF Init, TypeInv, Found, Idle

\* What a statement does to the requests.
LEMMA BeginAndEnd ==
  ASSUME TypeOK, NEW q \in Requests
  PROVE  /\ \A r \in Request : Begin(q, r) =>
              /\ request' \in [Requests -> Request]
              /\ begun' \in 0..MaxRequests
              /\ \A p \in Requests : request'[p] = IF p = q THEN r ELSE request[p]
         /\ End(q) =>
              /\ request' \in [Requests -> Request]
              /\ \A p \in Requests : request'[p] = IF p = q THEN Idle ELSE request[p]
<1>1. request \in [Requests -> Request] /\ begun \in 0..MaxRequests /\ Idle \in Request
  BY RequestShapes DEF TypeOK
<1>2. ASSUME NEW r \in Request, Begin(q, r)
      PROVE  /\ request' \in [Requests -> Request]
             /\ begun' \in 0..MaxRequests
             /\ \A p \in Requests : request'[p] = IF p = q THEN r ELSE request[p]
  BY <1>1, <1>2 DEF Begin
<1>3. ASSUME End(q)
      PROVE  /\ request' \in [Requests -> Request]
             /\ \A p \in Requests : request'[p] = IF p = q THEN Idle ELSE request[p]
  BY <1>1, <1>3 DEF End
<1>. QED
  BY <1>2, <1>3

\* Rows that are there stay, with the references that they have, and what a
\* request has found stays found.
LEMMA FoundStays ==
  ASSUME TypeInv,
         \A c \in Clients : Present(client[c]) => Present(client'[c]),
         \A p \in Projects : Exists(project[p]) => Exists(project'[p]),
         \A t \in Entries : Present(entry[t]) => Present(entry'[t]),
         NEW q \in Requests
  PROVE  request'[q] = request[q] => Found(request[q])'
<1> SUFFICES ASSUME request'[q] = request[q] PROVE Found(request[q])'
  OBVIOUS
<1>1. Found(request[q]) /\ request[q] \in Request
  BY DEF TypeInv, TypeOK
<1>2. CASE request[q].op \in {"create project", "patch client"}
  <2>1. request[q].client \in Clients
    BY <1>1, <1>2, RequestShapes DEF Creation, ClientPatch
  <2>. QED
    BY <1>1, <1>2, <2>1 DEF Found
<1>3. CASE request[q].op = "patch project"
  <2>1. request[q].project \in Projects
    BY <1>1, <1>3, RequestShapes DEF ProjectPatch
  <2>. QED
    BY <1>1, <1>3, <2>1 DEF Found
<1>4. CASE request[q].op = "create entry"
  <2>1. request[q].columns.project \in Projects
    BY <1>1, <1>4, RequestShapes DEF NewEntry, EntryColumns
  <2>. QED
    BY <1>1, <1>4, <2>1 DEF Found
<1>5. CASE request[q].op = "patch entry"
  <2>1. /\ request[q].entry \in Entries /\ request[q].copy.project \in Projects
        /\ request[q].change.project \in Projects \union {None}
    BY <1>1, <1>5, RequestShapes DEF EntryPatch, EntryColumns, EntryChange
  <2>. QED
    BY <1>1, <1>5, <2>1 DEF Found
<1>. QED
  BY <1>1, <1>2, <1>3, <1>4, <1>5 DEF Found

\* A statement that only reads rows.
LEMMA OnlyRequests ==
  ASSUME TypeInv,
         UNCHANGED <<client, project, entry, asked>>,
         request' \in [Requests -> Request],
         begun' \in 0..MaxRequests,
         overlapped' \in SUBSET (Entries \union Projects \union Clients),
         \A q \in Requests : request'[q] = request[q] \/ Found(request[q])'
  PROVE  TypeInv'
<1>1. \A q \in Requests : Found(request[q])'
  BY FoundStays
<1>2. TypeOK'
  BY DEF TypeInv, TypeOK, Exists, Present
<1>. QED
  BY <1>1, <1>2 DEF TypeInv, AskedTypes

\* The same of a statement with which a request begins, or ends.
LEMMA OnlyBegins ==
  ASSUME TypeInv, NEW q \in Requests, NEW r \in Request, Begin(q, r), Found(r),
         UNCHANGED <<client, project, entry, asked>>,
         overlapped' \in SUBSET (Entries \union Projects \union Clients)
  PROVE  TypeInv'
<1>1. TypeOK
  BY DEF TypeInv
<1>2. /\ request' \in [Requests -> Request] /\ begun' \in 0..MaxRequests
      /\ \A p \in Requests : request'[p] = IF p = q THEN r ELSE request[p]
  BY <1>1, BeginAndEnd
<1>3. \A p \in Requests : request'[p] = request[p] \/ Found(request[p])'
  BY <1>2 DEF Found, Exists, Present
<1>. QED
  BY <1>2, <1>3, OnlyRequests

LEMMA OnlyEnds ==
  ASSUME TypeInv, NEW q \in Requests, End(q),
         UNCHANGED <<client, project, entry, begun, asked, overlapped>>
  PROVE  TypeInv'
<1>1. TypeOK
  BY DEF TypeInv
<1>2. /\ request' \in [Requests -> Request]
      /\ \A p \in Requests : request'[p] = IF p = q THEN Idle ELSE request[p]
  BY <1>1, BeginAndEnd
<1>3. \A p \in Requests : request'[p] = request[p] \/ Found(request[p])'
  BY <1>2, RequestShapes DEF Found
<1>. QED
  BY <1>1, <1>2, <1>3, OnlyRequests DEF TypeOK

\* An entry that moves is noted by the listings on their way.
LEMMA MovingEntries ==
  ASSUME TypeInv, NEW r \in Requests, NEW t \in Entries, NEW columns \in EntryColumns,
         Moves(t, columns, request[r])
  PROVE  /\ request[r] \in Listing
         /\ [request[r] EXCEPT !.moved = @ \union {t}] \in Listing
<1>1. request[r] \in Listing
  BY RequestShapes DEF Moves, TypeInv, TypeOK
<1>. QED
  BY <1>1 DEF Listing

\* What a page of a listing leaves behind.
LEMMA PageTurns ==
  ASSUME TypeInv, NEW q \in Requests, ListTimeEntriesPage(q)
  PROVE  LET r == request[q]
             rows == {t \in Listed(r.filter) : AfterCursor(r.cursor, t)}
             page == Page(rows, PageSize)
             more == Cardinality(rows) > PageSize
         IN
         /\ r \in Listing /\ ~r.done
         /\ rows \in SUBSET Entries /\ IsFiniteSet(rows)
         /\ more => rows # {}
         /\ request' \in [Requests -> Request]
         /\ \A p \in Requests : p # q => request'[p] = request[p]
         /\ request'[q] \in Listing
         /\ request'[q].filter = r.filter
         /\ request'[q].there = r.there /\ request'[q].moved = r.moved
         /\ request'[q].done = ~more
         /\ request'[q].cursor = IF more THEN Key(LastOf(page)) ELSE r.cursor
         /\ \A t \in Entries : request'[q].seen[t] = r.seen[t] + IF t \in page THEN 1 ELSE 0
<1> DEFINE r == request[q]
           rows == {t \in Listed(r.filter) : AfterCursor(r.cursor, t)}
           page == Page(rows, PageSize)
           more == Cardinality(rows) > PageSize
           counts == [t \in Entries |-> r.seen[t] + IF t \in page THEN 1 ELSE 0]
           next == [r EXCEPT !.seen = counts, !.done = ~more,
                             !.cursor = IF more THEN Key(LastOf(page)) ELSE @]
<1>1. r \in Listing /\ ~r.done
  BY RequestShapes DEF TypeInv, TypeOK, ListTimeEntriesPage
<1>2. rows \in SUBSET Entries /\ IsFiniteSet(rows)
  <2>1. rows \in SUBSET Entries
    BY DEF Listed
  <2>. QED
    BY <2>1, FS_Subset
<1>3. more => rows # {}
  BY FS_EmptySet
<1>4. more => Key(LastOf(page)) \in Cursor
  <2>1. entry \in [Entries -> EntryRow]
    BY DEF TypeInv, TypeOK
  <2>2. ASSUME more PROVE LastOf(page) \in Entries
    <3>. HIDE DEF rows
    <3>1. LastOf(page) \in page /\ page \subseteq rows
      BY <1>2, <1>3, <2>1, <2>2, PageOfRows
    <3>. QED
      BY <1>2, <3>1
  <2>. QED
    BY <2>1, <2>2, KeysArePlaces
<1>5. request' = [request EXCEPT ![q] = next]
  <2>1. request' = [request EXCEPT ![q] =
          [request[q] EXCEPT !.seen = counts, !.done = ~more,
                             !.cursor = IF more THEN Key(LastOf(page)) ELSE @]]
    BY DEF ListTimeEntriesPage
  <2>. HIDE DEF page, more, counts
  <2>. QED
    BY <2>1
<1>r. counts \in [Entries -> Nat]
      /\ \A t \in Entries : counts[t] = r.seen[t] + IF t \in page THEN 1 ELSE 0
  <2>. HIDE DEF page
  <2>1. \A t \in Entries : r.seen[t] \in Nat
    BY <1>1 DEF Listing
  <2>. QED
    BY <2>1
<1>. HIDE DEF rows, page, more, counts
<1>6. /\ next \in Listing
      /\ next.filter = r.filter /\ next.there = r.there /\ next.moved = r.moved
      /\ next.done = ~more
      /\ next.cursor = IF more THEN Key(LastOf(page)) ELSE r.cursor
      /\ \A t \in Entries : next.seen[t] = r.seen[t] + IF t \in page THEN 1 ELSE 0
  BY <1>1, <1>4, <1>r DEF Listing
<1>7. request \in [Requests -> Request]
  BY DEF TypeInv, TypeOK
<1>. HIDE DEF next
<1>8. /\ request' \in [Requests -> Request] /\ request'[q] = next
      /\ \A p \in Requests : p # q => request'[p] = request[p]
  BY <1>5, <1>6, <1>7, RequestShapes
<1>. QED
  BY <1>1, <1>2, <1>3, <1>6, <1>8 DEF rows, page, more

\* A new row comes with the columns that were asked for; a PATCHed row keeps
\* its identity.
LEMMA TypeInvStep == TypeInv /\ [Next]_vars => TypeInv'
<1> SUFFICES ASSUME TypeInv, [Next]_vars PROVE TypeInv'
  OBVIOUS
<1>0. TypeOK /\ AskedTypes /\ \A q \in Requests : Found(request[q])
  BY DEF TypeInv
<1>t. /\ client \in [Clients -> ClientRow] /\ project \in [Projects -> ProjectRow]
      /\ entry \in [Entries -> EntryRow] /\ request \in [Requests -> Request]
      /\ \A c \in Clients : client[c] \in ClientRow
      /\ \A p \in Projects : project[p] \in ProjectRow
      /\ \A t \in Entries : entry[t] \in EntryRow
      /\ \A q \in Requests : request[q] \in Request
  BY <1>0 DEF TypeOK
<1>1. ASSUME NEW c \in Clients, NEW columns \in ClientColumns, CreateClient(c, columns)
      PROVE  TypeInv'
  <2> DEFINE row == [status |-> "active", columns |-> columns]
  <2>1. row \in ClientRow /\ Present(row)
    BY DEF ClientRow, Present
  <2>2. client' = [client EXCEPT ![c] = row] /\ asked' = [asked EXCEPT ![c] = columns]
    BY <1>1 DEF CreateClient
  <2>. HIDE DEF row
  <2>3. /\ client' \in [Clients -> ClientRow]
        /\ \A d \in Clients : Present(client[d]) => Present(client'[d])
    BY <1>t, <2>1, <2>2
  <2>4. UNCHANGED <<project, entry, request, begun, overlapped>>
    BY <1>1 DEF CreateClient
  <2>5. \A q \in Requests : Found(request[q])'
    BY <2>3, <2>4, FoundStays
  <2>6. AskedTypes'
    BY <1>0, <2>2 DEF TypeOK, AskedTypes
  <2>7. asked' \in [Entries \union Projects \union Clients ->
                      EntryColumns \union ProjectColumns \union ClientColumns]
    BY <1>0, <2>2 DEF TypeOK
  <2>8. TypeOK'
    BY <1>0, <1>t, <2>3, <2>4, <2>7 DEF TypeOK, ProjectRow, Exists
  <2>. QED
    BY <2>5, <2>6, <2>8 DEF TypeInv
<1>2. ASSUME NEW c \in Clients, SoftDeleteClient(c) PROVE TypeInv'
  <2>1. /\ client' \in [Clients -> ClientRow]
        /\ \A d \in Clients : Present(client[d]) => Present(client'[d])
    BY <1>t, <1>2 DEF SoftDeleteClient, ClientRow, Present
  <2>2. UNCHANGED <<project, entry, request, begun, asked, overlapped>>
    BY <1>2 DEF SoftDeleteClient
  <2>3. \A q \in Requests : Found(request[q])'
    BY <2>1, <2>2, FoundStays
  <2>4. TypeOK'
    BY <1>0, <1>t, <2>1, <2>2 DEF TypeOK, ProjectRow, Exists
  <2>. QED
    BY <1>0, <2>2, <2>3, <2>4 DEF TypeInv, AskedTypes
<1>3. ASSUME NEW c \in Clients, NEW q \in Requests, NEW change \in ClientChange,
             LoadClient(q, c, change)
      PROVE  TypeInv'
  <2> DEFINE r == [op |-> "patch client", client |-> c, change |-> change,
                   copy |-> client[c].columns]
  <2>1. r \in ClientPatch /\ Present(client[c])
    BY <1>t, <1>3 DEF LoadClient, ClientPatch, ClientRow, Present
  <2>2. r \in Request /\ Found(r)
    BY <2>1, RequestShapes DEF Found
  <2>3. Begin(q, r) /\ UNCHANGED <<client, project, entry, asked>>
    BY <1>3 DEF LoadClient
  <2>4. overlapped' \in SUBSET (Entries \union Projects \union Clients)
    BY <1>0, <1>3 DEF LoadClient, TypeOK
  <2>. QED
    BY <2>2, <2>3, <2>4, OnlyBegins
<1>4. ASSUME NEW c \in Clients, NEW q \in Requests, NEW name \in Names, FindClient(q, c, name)
      PROVE  TypeInv'
  <2> DEFINE r == [op |-> "create project", client |-> c, name |-> name]
  <2>1. r \in Creation /\ Present(client[c])
    BY <1>4 DEF FindClient, Creation, Present
  <2>2. r \in Request /\ Found(r)
    BY <2>1, RequestShapes DEF Found
  <2>3. Begin(q, r) /\ UNCHANGED <<client, project, entry, asked, overlapped>>
    BY <1>4 DEF FindClient
  <2>. QED
    BY <1>0, <2>2, <2>3, OnlyBegins DEF TypeOK
<1>5. ASSUME NEW q \in Requests, UpdateClient(q) PROVE TypeInv'
  <2> DEFINE c == request[q].client
             change == request[q].change
  <2>1. /\ c \in Clients /\ change \in ClientChange /\ request[q].copy \in ClientColumns
    BY <1>t, <1>5, RequestShapes DEF UpdateClient, ClientPatch
  <2>2. Merged(change, request[q].copy) \in ClientColumns /\ Merged(change, asked[c]) \in ClientColumns
    BY <1>0, <2>1, MergedTypes DEF AskedTypes
  <2>3. UNCHANGED <<project, entry, begun, overlapped>> /\ End(q)
    BY <1>5 DEF UpdateClient
  <2>4. CASE client[c].status = "active"
    <3>1. /\ client' = [client EXCEPT ![c].columns = Merged(change, request[q].copy)]
          /\ asked' = [asked EXCEPT ![c] = Merged(change, @)]
      BY <1>5, <2>4 DEF UpdateClient
    <3>. HIDE DEF c, change
    <3>2. /\ client' \in [Clients -> ClientRow]
          /\ \A d \in Clients : Present(client[d]) => Present(client'[d])
      BY <1>t, <2>1, <2>2, <3>1 DEF ClientRow, Present
    <3>3. AskedTypes'
      BY <1>0, <2>1, <2>2, <3>1 DEF TypeOK, AskedTypes
    <3>4. asked' \in [Entries \union Projects \union Clients ->
                        EntryColumns \union ProjectColumns \union ClientColumns]
      BY <1>0, <2>1, <2>2, <3>1 DEF TypeOK
    <3>5. /\ request' \in [Requests -> Request]
          /\ \A p \in Requests : request'[p] = IF p = q THEN Idle ELSE request[p]
      BY <1>0, <2>3, BeginAndEnd
    <3>6. \A p \in Requests : Found(request[p])'
      <4>1. \A p \in Requests : p # q => Found(request[p])'
        BY <2>3, <3>2, <3>5, FoundStays
      <4>2. Found(request[q])'
        BY <3>5, RequestShapes DEF Found
      <4>. QED
        BY <4>1, <4>2
    <3>7. TypeOK'
      BY <1>0, <1>t, <2>3, <3>2, <3>4, <3>5 DEF TypeOK, ProjectRow, Exists
    <3>. QED
      BY <3>3, <3>6, <3>7 DEF TypeInv
  <2>5. CASE client[c].status # "active"
    BY <1>5, <2>3, <2>5, OnlyEnds DEF UpdateClient
  <2>. QED
    BY <2>4, <2>5
<1>6. ASSUME NEW q \in Requests, NEW p \in Projects, InsertProject(q, p) PROVE TypeInv'
  <2> DEFINE columns == [name |-> request[q].name, archived |-> FALSE]
             row == [client |-> request[q].client, columns |-> columns]
  <2>1. request[q].client \in Clients /\ request[q].name \in Names
    BY <1>t, <1>6, RequestShapes DEF InsertProject, Creation
  <2>2. columns \in ProjectColumns /\ row \in ProjectRow /\ row.client = request[q].client
    BY <2>1 DEF ProjectColumns, ProjectRow
  <2>3. Exists(row) /\ Present(client[request[q].client])
    BY <1>0, <1>6, <2>1 DEF InsertProject, Found, Exists
  <2>4. /\ project' = [project EXCEPT ![p] = row] /\ asked' = [asked EXCEPT ![p] = columns]
        /\ UNCHANGED <<client, entry, begun, overlapped>> /\ End(q)
    BY <1>6 DEF InsertProject
  <2>. HIDE DEF columns, row
  <2>5. /\ project' \in [Projects -> ProjectRow]
        /\ \A r \in Projects : project'[r] = IF r = p THEN row ELSE project[r]
    BY <1>t, <2>2, <2>4
  <2>6. \A r \in Projects : Exists(project[r]) => Exists(project'[r])
    BY <2>3, <2>5
  <2>7. AskedTypes'
    BY <1>0, <2>2, <2>4 DEF TypeOK, AskedTypes
  <2>8. asked' \in [Entries \union Projects \union Clients ->
                      EntryColumns \union ProjectColumns \union ClientColumns]
    BY <1>0, <2>2, <2>4 DEF TypeOK
  <2>9. /\ request' \in [Requests -> Request]
        /\ \A r \in Requests : request'[r] = IF r = q THEN Idle ELSE request[r]
    BY <1>0, <2>4, BeginAndEnd
  <2>10. \A r \in Requests : Found(request[r])'
    <3>1. \A r \in Requests : r # q => Found(request[r])'
      BY <2>4, <2>6, <2>9, FoundStays
    <3>2. Found(request[q])'
      BY <2>9, RequestShapes DEF Found
    <3>. QED
      BY <3>1, <3>2
  <2>11. \A r \in Projects : Exists(project'[r]) => Present(client'[project'[r].client])
    BY <1>0, <2>2, <2>3, <2>4, <2>5 DEF TypeOK
  <2>12. \A t \in Entries : Present(entry'[t]) => Exists(project'[entry'[t].columns.project])
    BY <1>0, <1>t, <2>4, <2>6 DEF TypeOK, EntryRow, EntryColumns
  <2>13. TypeOK'
    BY <1>0, <2>4, <2>5, <2>8, <2>9, <2>11, <2>12 DEF TypeOK
  <2>. QED
    BY <2>7, <2>10, <2>13 DEF TypeInv
<1>7. ASSUME NEW q \in Requests, NEW p \in Projects, NEW change \in ProjectChange,
             LoadProject(q, p, change)
      PROVE  TypeInv'
  <2> DEFINE r == [op |-> "patch project", project |-> p, change |-> change,
                   copy |-> project[p].columns]
  <2>1. r \in ProjectPatch /\ Exists(project[p])
    BY <1>t, <1>7 DEF LoadProject, ProjectPatch, ProjectRow
  <2>2. r \in Request /\ Found(r)
    BY <2>1, RequestShapes DEF Found
  <2>3. Begin(q, r) /\ UNCHANGED <<client, project, entry, asked>>
    BY <1>7 DEF LoadProject
  <2>4. overlapped' \in SUBSET (Entries \union Projects \union Clients)
    BY <1>0, <1>7 DEF LoadProject, TypeOK
  <2>. QED
    BY <2>2, <2>3, <2>4, OnlyBegins
<1>8. ASSUME NEW q \in Requests, UpdateProject(q) PROVE TypeInv'
  <2> DEFINE p == request[q].project
             change == request[q].change
  <2>1. /\ p \in Projects /\ change \in ProjectChange /\ request[q].copy \in ProjectColumns
    BY <1>t, <1>8, RequestShapes DEF UpdateProject, ProjectPatch
  <2>2. /\ Merged(change, request[q].copy) \in ProjectColumns
        /\ Merged(change, asked[p]) \in ProjectColumns
    BY <1>0, <2>1, MergedTypes DEF AskedTypes
  <2>3. /\ project' = [project EXCEPT ![p].columns = Merged(change, request[q].copy)]
        /\ asked' = [asked EXCEPT ![p] = Merged(change, @)]
        /\ UNCHANGED <<client, entry, begun, overlapped>> /\ End(q)
    BY <1>8 DEF UpdateProject
  <2>. HIDE DEF p, change
  <2>4. /\ project' \in [Projects -> ProjectRow]
        /\ \A r \in Projects : project'[r].client = project[r].client
    BY <1>t, <2>1, <2>2, <2>3 DEF ProjectRow
  <2>5. AskedTypes'
    BY <1>0, <2>1, <2>2, <2>3 DEF TypeOK, AskedTypes
  <2>6. asked' \in [Entries \union Projects \union Clients ->
                      EntryColumns \union ProjectColumns \union ClientColumns]
    BY <1>0, <2>1, <2>2, <2>3 DEF TypeOK
  <2>7. /\ request' \in [Requests -> Request]
        /\ \A r \in Requests : request'[r] = IF r = q THEN Idle ELSE request[r]
    BY <1>0, <2>3, BeginAndEnd
  <2>8. \A r \in Requests : Found(request[r])'
    <3>1. \A r \in Requests : r # q => Found(request[r])'
      BY <2>3, <2>4, <2>7, FoundStays DEF Exists
    <3>2. Found(request[q])'
      BY <2>7, RequestShapes DEF Found
    <3>. QED
      BY <3>1, <3>2
  <2>9. TypeOK'
    BY <1>0, <1>t, <2>3, <2>4, <2>6, <2>7 DEF TypeOK, Exists, EntryRow, EntryColumns
  <2>. QED
    BY <2>5, <2>8, <2>9 DEF TypeInv
<1>9. ASSUME NEW q \in Requests, NEW columns \in EntryColumns, ValidateNewEntry(q, columns)
      PROVE  TypeInv'
  <2> DEFINE r == [op |-> "create entry", columns |-> columns]
  <2>1. r \in NewEntry /\ Exists(project[columns.project])
    BY <1>9 DEF ValidateNewEntry, ValidProject, NewEntry
  <2>2. r \in Request /\ Found(r)
    BY <2>1, RequestShapes DEF Found
  <2>3. Begin(q, r) /\ UNCHANGED <<client, project, entry, asked, overlapped>>
    BY <1>9 DEF ValidateNewEntry
  <2>. QED
    BY <1>0, <2>2, <2>3, OnlyBegins DEF TypeOK
<1>10. ASSUME NEW q \in Requests, NEW t \in Entries, InsertTimeEntry(q, t) PROVE TypeInv'
  <2> DEFINE columns == request[q].columns
             row == [status |-> "open", columns |-> columns]
  <2>1. columns \in EntryColumns
    BY <1>t, <1>10, RequestShapes DEF InsertTimeEntry, NewEntry
  <2>2. row \in EntryRow /\ row.columns = columns /\ Present(row)
    BY <2>1 DEF EntryRow, Present
  <2>3. Exists(project[columns.project])
    BY <1>0, <1>10 DEF InsertTimeEntry, Found
  <2>4. /\ entry' = [entry EXCEPT ![t] = row] /\ asked' = [asked EXCEPT ![t] = columns]
        /\ UNCHANGED <<client, project, begun, overlapped>> /\ End(q)
    BY <1>10 DEF InsertTimeEntry
  <2>. HIDE DEF columns, row
  <2>5. /\ entry' \in [Entries -> EntryRow]
        /\ \A u \in Entries : entry'[u] = IF u = t THEN row ELSE entry[u]
    BY <1>t, <2>2, <2>4
  <2>6. AskedTypes'
    BY <1>0, <2>1, <2>4 DEF TypeOK, AskedTypes
  <2>7. asked' \in [Entries \union Projects \union Clients ->
                      EntryColumns \union ProjectColumns \union ClientColumns]
    BY <1>0, <2>1, <2>4 DEF TypeOK
  <2>8. /\ request' \in [Requests -> Request]
        /\ \A r \in Requests : request'[r] = IF r = q THEN Idle ELSE request[r]
    BY <1>0, <2>4, BeginAndEnd
  <2>9. \A r \in Requests : Found(request[r])'
    <3>1. \A r \in Requests : r # q => Found(request[r])'
      BY <2>2, <2>4, <2>5, <2>8, FoundStays
    <3>2. Found(request[q])'
      BY <2>8, RequestShapes DEF Found
    <3>. QED
      BY <3>1, <3>2
  <2>10. \A u \in Entries : Present(entry'[u]) => Exists(project'[entry'[u].columns.project])
    BY <1>0, <2>2, <2>3, <2>4, <2>5 DEF TypeOK
  <2>11. TypeOK'
    BY <1>0, <2>4, <2>5, <2>7, <2>8, <2>10 DEF TypeOK
  <2>. QED
    BY <2>6, <2>9, <2>11 DEF TypeInv
<1>11. ASSUME NEW q \in Requests, NEW t \in Entries, NEW change \in EntryChange,
              LoadEntry(q, t, change)
       PROVE  TypeInv'
  <2> DEFINE r == [op |-> "patch entry", ready |-> change.project = None, entry |-> t,
                   change |-> change, copy |-> entry[t].columns]
  <2>1. r \in EntryPatch /\ Present(entry[t])
    BY <1>t, <1>11 DEF LoadEntry, EntryPatch, EntryRow, Present
  <2>2. r \in Request /\ Found(r)
    BY <1>0, <2>1, RequestShapes DEF Found, TypeOK
  <2>3. Begin(q, r) /\ UNCHANGED <<client, project, entry, asked>>
    BY <1>11 DEF LoadEntry
  <2>4. overlapped' \in SUBSET (Entries \union Projects \union Clients)
    BY <1>0, <1>11 DEF LoadEntry, TypeOK
  <2>. QED
    BY <2>2, <2>3, <2>4, OnlyBegins
<1>12. ASSUME NEW q \in Requests, ValidateNewProject(q) PROVE TypeInv'
  <2>1. UNCHANGED <<client, project, entry, begun, asked, overlapped>>
    BY <1>12 DEF ValidateNewProject
  <2>2. CASE ValidProject(request[q].change.project)
    <3> DEFINE r == [request[q] EXCEPT !.ready = TRUE]
    <3>1. request[q] \in EntryPatch
      BY <1>t, <1>12, RequestShapes DEF ValidateNewProject
    <3>2. /\ r \in EntryPatch /\ r.op = "patch entry"
          /\ r.entry = request[q].entry /\ r.copy = request[q].copy
          /\ r.change = request[q].change
      BY <3>1 DEF EntryPatch
    <3>3. request' = [request EXCEPT ![q] = r]
      BY <1>12, <2>2 DEF ValidateNewProject
    <3>. HIDE DEF r
    <3>4. /\ request' \in [Requests -> Request]
          /\ \A p \in Requests : request'[p] = IF p = q THEN r ELSE request[p]
      BY <1>t, <3>2, <3>3, RequestShapes
    <3>5. Found(request[q])'
      BY <1>0, <1>12, <2>1, <2>2, <3>2, <3>4 DEF ValidateNewProject, Found, ValidProject
    <3>. QED
      BY <1>0, <2>1, <3>4, <3>5, OnlyRequests DEF TypeOK
  <2>3. CASE ~ValidProject(request[q].change.project)
    <3>1. End(q)
      BY <1>12, <2>3 DEF ValidateNewProject, End
    <3>. QED
      BY <2>1, <3>1, OnlyEnds
  <2>. QED
    BY <2>2, <2>3
<1>13. ASSUME NEW q \in Requests, UpdateTimeEntry(q) PROVE TypeInv'
  <2> DEFINE t == request[q].entry
             columns == Merged(request[q].change, request[q].copy)
  <2>1. request[q] \in EntryPatch
    BY <1>t, <1>13, RequestShapes DEF UpdateTimeEntry
  <2>2. /\ t \in Entries /\ request[q].change \in EntryChange
        /\ request[q].copy \in EntryColumns
    BY <2>1 DEF EntryPatch
  <2>3. columns \in EntryColumns /\ Merged(request[q].change, asked[t]) \in EntryColumns
    BY <1>0, <2>2, MergedTypes DEF AskedTypes
  <2>4. UNCHANGED <<client, project, begun, overlapped>>
    BY <1>13 DEF UpdateTimeEntry
  <2>5. CASE entry[t].status # "open"
    <3>1. End(q) /\ UNCHANGED <<entry, asked>>
      BY <1>13, <2>5 DEF UpdateTimeEntry
    <3>. QED
      BY <2>4, <3>1, OnlyEnds
  <2>6. CASE entry[t].status = "open"
    <3>1. /\ entry' = [entry EXCEPT ![t].columns = columns]
          /\ asked' = [asked EXCEPT ![t] = Merged(request[q].change, @)]
          /\ request' = [r \in Requests |-> request'[r]]
          /\ \A r \in Requests :
               request'[r] = IF r = q THEN Idle
                             ELSE IF Moves(t, columns, request[r])
                             THEN [request[r] EXCEPT !.moved = @ \union {t}]
                             ELSE request[r]
      BY <1>13, <2>6 DEF UpdateTimeEntry
    <3>2. Exists(project[columns.project])
      <4>1. /\ columns.project = IF request[q].change.project = None
                                 THEN request[q].copy.project ELSE request[q].change.project
        BY <2>2 DEF Merged, EntryColumns
      <4>. QED
        BY <1>0, <1>13, <4>1 DEF UpdateTimeEntry, Found
    <3>. HIDE DEF t, columns
    <3>3. /\ entry' \in [Entries -> EntryRow]
          /\ \A u \in Entries : entry'[u].status = entry[u].status
          /\ \A u \in Entries : u # t => entry'[u] = entry[u]
          /\ entry'[t].columns = columns
      BY <1>t, <2>2, <2>3, <3>1 DEF EntryRow
    <3>4. AskedTypes'
      BY <1>0, <2>2, <2>3, <3>1 DEF TypeOK, AskedTypes
    <3>5. asked' \in [Entries \union Projects \union Clients ->
                        EntryColumns \union ProjectColumns \union ClientColumns]
      BY <1>0, <2>2, <2>3, <3>1 DEF TypeOK
    <3>6. /\ request' \in [Requests -> Request]
          /\ request'[q] = Idle
          /\ \A r \in Requests : r # q =>
               request'[r] = request[r] \/ request'[r] \in Listing
      <4>1. /\ \A r \in Requests : request'[r] \in Request
            /\ request'[q] = Idle
            /\ \A r \in Requests : r # q =>
                 request'[r] = request[r] \/ request'[r] \in Listing
        BY <1>t, <2>2, <2>3, <3>1, MovingEntries, RequestShapes
      <4>. QED
        BY <3>1, <4>1
    <3>7. \A r \in Requests : Found(request[r])'
      <4>1. \A r \in Requests : request'[r] = request[r] => Found(request[r])'
        BY <2>4, <3>3, FoundStays DEF Present
      <4>2. \A r \in Requests : request'[r] \in Listing => Found(request[r])'
        BY DEF Listing, Found
      <4>3. Found(request[q])'
        BY <3>6, RequestShapes DEF Found
      <4>. QED
        BY <3>6, <4>1, <4>2, <4>3
    <3>8. \A u \in Entries : Present(entry'[u]) => Exists(project'[entry'[u].columns.project])
      BY <1>0, <2>4, <3>2, <3>3 DEF TypeOK, Present
    <3>9. TypeOK'
      BY <1>0, <2>4, <3>3, <3>5, <3>6, <3>8 DEF TypeOK
    <3>. QED
      BY <3>4, <3>7, <3>9 DEF TypeInv
  <2>. QED
    BY <2>5, <2>6
<1>14. ASSUME NEW q \in Requests, NEW filter \in Projects \union {None}, BeginListing(q, filter)
       PROVE  TypeInv'
  <2> DEFINE r == [op |-> "list", done |-> FALSE, filter |-> filter, cursor |-> None,
                   seen |-> [t \in Entries |-> 0], there |-> Listed(filter), moved |-> {}]
  <2>1. r \in Listing
    BY DEF Listing, Listed
  <2>2. r \in Request /\ Found(r)
    BY <2>1, RequestShapes DEF Found
  <2>3. Begin(q, r) /\ UNCHANGED <<client, project, entry, asked, overlapped>>
    BY <1>14 DEF BeginListing
  <2>. QED
    BY <1>0, <2>2, <2>3, OnlyBegins DEF TypeOK
<1>15. ASSUME NEW q \in Requests, ListTimeEntriesPage(q) PROVE TypeInv'
  <2>1. /\ request' \in [Requests -> Request]
        /\ \A r \in Requests : r # q => request'[r] = request[r]
        /\ request'[q] \in Listing
    BY <1>15, PageTurns
  <2>2. \A r \in Requests : request'[r] = request[r] \/ Found(request[r])'
    BY <2>1 DEF Listing, Found
  <2>. QED
    BY <1>0, <1>15, <2>1, <2>2, OnlyRequests DEF ListTimeEntriesPage, TypeOK
<1>16. ASSUME NEW q \in Requests, Abandon(q) PROVE TypeInv'
  BY <1>16, OnlyEnds DEF Abandon
<1>17. ASSUME NEW t \in Entries, LockEntry(t) PROVE TypeInv'
  <2>1. /\ entry' \in [Entries -> EntryRow]
        /\ \A u \in Entries : Present(entry'[u]) <=> Present(entry[u])
        /\ \A u \in Entries : entry'[u].columns = entry[u].columns
    BY <1>t, <1>17 DEF LockEntry, EntryRow, Present
  <2>2. UNCHANGED <<client, project, request, begun, asked, overlapped>>
    BY <1>17 DEF LockEntry
  <2>3. \A q \in Requests : Found(request[q])'
    BY <2>1, <2>2, FoundStays
  <2>4. TypeOK'
    BY <1>0, <2>1, <2>2 DEF TypeOK
  <2>. QED
    BY <1>0, <2>2, <2>3, <2>4 DEF TypeInv, AskedTypes
<1>18. CASE UNCHANGED vars
  <2>1. UNCHANGED <<client, project, entry, request, begun, asked, overlapped>>
    BY <1>18 DEF vars
  <2>. QED
    BY <1>0, <2>1, OnlyRequests DEF TypeOK
<1>. QED
  BY <1>1, <1>2, <1>3, <1>4, <1>5, <1>6, <1>7, <1>8, <1>9, <1>10, <1>11, <1>12, <1>13,
     <1>14, <1>15, <1>16, <1>17, <1>18 DEF Next

\* Every row keeps to its columns and refers to rows that are there, although
\* nothing holds a client or a project between the statement that looks at it
\* and the one that refers to it: rows are never taken away.
THEOREM TypeCorrect == Spec => []TypeOK
<1>1. TypeInv => TypeOK
  BY DEF TypeInv
<1>. QED
  BY <1>1, InitTypeInv, TypeInvStep, PTL DEF Spec
-----------------------------------------------------------------------------
(***************************************************************************)
(* Rows that rest.                                                         *)
(***************************************************************************)

\* The steps of one request do not touch what another has found, but for the
\* notes that a listing takes.
LEMMA RequestSteps ==
  ASSUME TypeInv, [Next]_vars, NEW q \in Requests, request'[q] # request[q]
  PROVE  \/ request'[q] = Idle
         \/ request'[q] \in Listing
         \/ \E c \in Clients, change \in ClientChange : LoadClient(q, c, change)
         \/ \E c \in Clients, name \in Names : FindClient(q, c, name)
         \/ \E p \in Projects, change \in ProjectChange : LoadProject(q, p, change)
         \/ \E columns \in EntryColumns : ValidateNewEntry(q, columns)
         \/ \E t \in Entries, change \in EntryChange : LoadEntry(q, t, change)
         \/ ValidateNewProject(q)
<1>0. TypeOK /\ TypeOK' /\ request \in [Requests -> Request] /\ Idle \in Request
  BY TypeInvStep, RequestShapes DEF TypeInv, TypeOK
<1> DEFINE Goal ==
         \/ request'[q] = Idle
         \/ request'[q] \in Listing
         \/ \E c \in Clients, change \in ClientChange : LoadClient(q, c, change)
         \/ \E c \in Clients, name \in Names : FindClient(q, c, name)
         \/ \E p \in Projects, change \in ProjectChange : LoadProject(q, p, change)
         \/ \E columns \in EntryColumns : ValidateNewEntry(q, columns)
         \/ \E t \in Entries, change \in EntryChange : LoadEntry(q, t, change)
         \/ ValidateNewProject(q)
<1>b. ASSUME NEW p \in Requests, NEW r, Begin(p, r) PROVE p = q
  BY <1>0, <1>b DEF Begin
<1>e. ASSUME NEW p \in Requests, End(p) PROVE request'[q] = Idle
  BY <1>0, <1>e DEF End
<1>1. ASSUME NEW p \in Requests, NEW c \in Clients, NEW change \in ClientChange,
             LoadClient(p, c, change)
      PROVE  Goal
  BY <1>1, <1>b DEF LoadClient
<1>2. ASSUME NEW p \in Requests, NEW c \in Clients, NEW name \in Names, FindClient(p, c, name)
      PROVE  Goal
  BY <1>2, <1>b DEF FindClient
<1>3. ASSUME NEW p \in Requests, NEW x \in Projects, NEW change \in ProjectChange,
             LoadProject(p, x, change)
      PROVE  Goal
  BY <1>3, <1>b DEF LoadProject
<1>4. ASSUME NEW p \in Requests, NEW columns \in EntryColumns, ValidateNewEntry(p, columns)
      PROVE  Goal
  BY <1>4, <1>b DEF ValidateNewEntry
<1>5. ASSUME NEW p \in Requests, NEW t \in Entries, NEW change \in EntryChange,
             LoadEntry(p, t, change)
      PROVE  Goal
  BY <1>5, <1>b DEF LoadEntry
<1>6. ASSUME NEW p \in Requests, ValidateNewProject(p) PROVE Goal
  BY <1>0, <1>6 DEF ValidateNewProject
<1>7. ASSUME NEW p \in Requests, UpdateTimeEntry(p) PROVE Goal
  <2>1. CASE End(p)
    BY <1>e, <2>1
  <2>2. CASE ~End(p)
    <3> DEFINE t == request[p].entry
               columns == Merged(request[p].change, request[p].copy)
    <3>1. request[p] \in EntryPatch
      BY <1>0, <1>7, RequestShapes DEF UpdateTimeEntry
    <3>2. t \in Entries /\ columns \in EntryColumns
      BY <3>1, MergedTypes DEF EntryPatch
    <3>3. request'[q] = IF q = p THEN Idle
                        ELSE IF Moves(t, columns, request[q])
                        THEN [request[q] EXCEPT !.moved = @ \union {t}]
                        ELSE request[q]
      BY <1>7, <2>2 DEF UpdateTimeEntry
    <3>. HIDE DEF t, columns
    <3>. QED
      BY <3>2, <3>3, MovingEntries
  <2>. QED
    BY <2>1, <2>2
<1>8. ASSUME NEW p \in Requests, NEW filter \in Projects \union {None}, BeginListing(p, filter)
      PROVE  Goal
  <2>1. request'[q].op = "list"
    BY <1>0, <1>8, <1>b DEF BeginListing, Begin
  <2>2. request'[q] \in Request
    BY <1>0 DEF TypeOK
  <2>. QED
    BY <2>1, <2>2, RequestShapes
<1>9. ASSUME NEW p \in Requests, ListTimeEntriesPage(p) PROVE Goal
  BY <1>9, PageTurns
<1>10. ASSUME NEW p \in Requests,
              \/ UpdateClient(p) \/ \E x \in Projects : InsertProject(p, x)
              \/ UpdateProject(p) \/ Abandon(p) \/ \E t \in Entries : InsertTimeEntry(p, t)
       PROVE  Goal
  BY <1>10, <1>e DEF UpdateClient, InsertProject, UpdateProject, InsertTimeEntry, Abandon
<1>. HIDE DEF Goal
<1>11. Goal
  BY <1>1, <1>2, <1>3, <1>4, <1>5, <1>6, <1>7, <1>8, <1>9, <1>10
  DEF Next, vars, CreateClient, SoftDeleteClient, LockEntry
<1>. QED
  BY <1>11 DEF Goal

\* A deleted client is not changed by any step, and is found by none.
LEMMA DeletedStep ==
  ASSUME TypeInv, [Next]_vars, NEW c \in Clients, client[c].status = "deleted"
  PROVE  /\ client'[c] = client[c]
         /\ ~Founding(c) => ProjectsOf(c)' = ProjectsOf(c) /\ ~Founding(c)'
<1>0. /\ TypeOK /\ client \in [Clients -> ClientRow] /\ project \in [Projects -> ProjectRow]
      /\ \A q \in Requests : request[q] \in Request
  BY DEF TypeInv, TypeOK
<1>1. client'[c] = client[c]
  <2>1. ASSUME NEW d \in Clients, NEW columns \in ClientColumns, CreateClient(d, columns)
        PROVE  client'[c] = client[c]
    BY <1>0, <2>1 DEF CreateClient
  <2>2. ASSUME NEW d \in Clients, SoftDeleteClient(d) PROVE client'[c] = client[c]
    BY <1>0, <2>2 DEF SoftDeleteClient
  <2>3. ASSUME NEW q \in Requests, UpdateClient(q) PROVE client'[c] = client[c]
    BY <1>0, <2>3 DEF UpdateClient
  <2>. QED
    BY <2>1, <2>2, <2>3
    DEF Next, vars, LoadClient, FindClient, InsertProject, LoadProject, UpdateProject,
        ValidateNewEntry, InsertTimeEntry, LoadEntry, ValidateNewProject, UpdateTimeEntry,
        BeginListing, ListTimeEntriesPage, Abandon, LockEntry
<1>2. ASSUME ~Founding(c) PROVE ProjectsOf(c)' = ProjectsOf(c)
  <2>1. ASSUME NEW q \in Requests, NEW p \in Projects, InsertProject(q, p)
        PROVE  ProjectsOf(c)' = ProjectsOf(c)
    <3>1. request[q].client # c /\ request[q].client \in Clients
      BY <1>0, <1>2, <2>1, RequestShapes DEF InsertProject, Founding, Creation
    <3>2. project[p].client = None /\ None # c
      BY <2>1 DEF InsertProject, Exists
    <3>3. /\ project'[p].client # c
          /\ \A r \in Projects : r # p => project'[r] = project[r]
      BY <1>0, <2>1, <3>1 DEF InsertProject
    <3>. QED
      BY <3>2, <3>3 DEF ProjectsOf
  <2>2. ASSUME NEW q \in Requests, UpdateProject(q) PROVE ProjectsOf(c)' = ProjectsOf(c)
    <3>1. \A r \in Projects : project'[r].client = project[r].client
      BY <1>0, <2>2 DEF UpdateProject, ProjectRow
    <3>. QED
      BY <3>1 DEF ProjectsOf
  <2>3. UNCHANGED project => ProjectsOf(c)' = ProjectsOf(c)
    BY DEF ProjectsOf
  <2>. QED
    BY <2>1, <2>2, <2>3
    DEF Next, vars, CreateClient, SoftDeleteClient, LoadClient, FindClient, UpdateClient,
        LoadProject, ValidateNewEntry, InsertTimeEntry, LoadEntry, ValidateNewProject,
        UpdateTimeEntry, BeginListing, ListTimeEntriesPage, Abandon, LockEntry
<1>3. ASSUME ~Founding(c) PROVE ~Founding(c)'
  <2> SUFFICES ASSUME NEW q \in Requests,
                      request'[q].op = "create project", request'[q].client = c
               PROVE  request[q].op = "create project" /\ request[q].client = c
    BY <1>3 DEF Founding
  <2>1. CASE request'[q] = request[q]
    BY <2>1
  <2>2. CASE request'[q] # request[q]
    <3>1. request'[q] # Idle /\ request'[q] \notin Listing
      BY RequestShapes DEF Listing
    <3>2. request \in [Requests -> Request]
      BY <1>0 DEF TypeOK
    <3>3. ASSUME NEW d \in Clients, NEW change \in ClientChange, LoadClient(q, d, change)
          PROVE  FALSE
      BY <3>2, <3>3 DEF LoadClient, Begin
    <3>4. ASSUME NEW p \in Projects, NEW change \in ProjectChange, LoadProject(q, p, change)
          PROVE  FALSE
      BY <3>2, <3>4 DEF LoadProject, Begin
    <3>5. ASSUME NEW columns \in EntryColumns, ValidateNewEntry(q, columns)
          PROVE  FALSE
      BY <3>2, <3>5 DEF ValidateNewEntry, Begin
    <3>6. ASSUME NEW t \in Entries, NEW change \in EntryChange, LoadEntry(q, t, change)
          PROVE  FALSE
      BY <3>2, <3>6 DEF LoadEntry, Begin
    <3>7. ASSUME NEW d \in Clients, NEW name \in Names, FindClient(q, d, name)
          PROVE  FALSE
      BY <3>2, <3>7 DEF FindClient, Begin
    <3>8. ~ ValidateNewProject(q)
      <4> SUFFICES ASSUME ValidateNewProject(q) PROVE FALSE
        OBVIOUS
      <4>1. request[q] \in EntryPatch
        BY <1>0, RequestShapes DEF ValidateNewProject
      <4>2. [request[q] EXCEPT !.ready = TRUE].op = "patch entry"
        BY <4>1 DEF EntryPatch
      <4>3. request'[q] = [request[q] EXCEPT !.ready = TRUE]
        BY <1>0, <3>1 DEF ValidateNewProject, TypeOK
      <4>. QED
        BY <4>2, <4>3
    <3>. QED
      BY <2>2, <3>1, <3>3, <3>4, <3>5, <3>6, <3>7, <3>8, RequestSteps
  <2>. QED
    BY <2>1, <2>2
<1>. QED
  BY <1>1, <1>2, <1>3

\* A deleted client rests: no PATCH changes it any more, and no project comes
\* to it but by the creations that had found it.
THEOREM DeletedRest == Spec => DeletedClientsRest
<1>1. TypeInv /\ [Next]_vars =>
        [\A c \in Clients : client[c].status = "deleted" =>
           /\ client'[c] = client[c]
           /\ ~Founding(c) => ProjectsOf(c)' = ProjectsOf(c) /\ ~Founding(c)']_vars
  BY DeletedStep
<1>. QED
  BY <1>1, InitTypeInv, TypeInvStep, PTL DEF Spec, DeletedClientsRest
-----------------------------------------------------------------------------
(***************************************************************************)
(* PATCHes add up.  What a PATCH has read is what is there, unless another *)
(* PATCH of the row has overlapped it.                                     *)
(***************************************************************************)

PatchOfClient(q, c) == request[q].op = "patch client" /\ request[q].client = c
PatchOfProject(q, p) == request[q].op = "patch project" /\ request[q].project = p
PatchOfEntry(q, t) == request[q].op = "patch entry" /\ request[q].entry = t

ClientCopies ==
  \A c \in Clients \ overlapped :
    /\ client[c].columns = asked[c]
    /\ \A q \in Requests : PatchOfClient(q, c) => request[q].copy = client[c].columns
    /\ \A q, r \in Requests : PatchOfClient(q, c) /\ PatchOfClient(r, c) => q = r

ProjectCopies ==
  \A p \in Projects \ overlapped :
    /\ project[p].columns = asked[p]
    /\ \A q \in Requests : PatchOfProject(q, p) => request[q].copy = project[p].columns
    /\ \A q, r \in Requests : PatchOfProject(q, p) /\ PatchOfProject(r, p) => q = r

EntryCopies ==
  \A t \in Entries \ overlapped :
    /\ entry[t].columns = asked[t]
    /\ \A q \in Requests : PatchOfEntry(q, t) => request[q].copy = entry[t].columns
    /\ \A q, r \in Requests : PatchOfEntry(q, t) /\ PatchOfEntry(r, t) => q = r

\* Which statements begin a PATCH or an entry, or go on with it.
LEMMA PatchSteps ==
  ASSUME TypeInv, [Next]_vars, NEW q \in Requests, request'[q] # request[q]
  PROVE  /\ request'[q].op = "patch client" =>
              \E c \in Clients, change \in ClientChange : LoadClient(q, c, change)
         /\ request'[q].op = "patch project" =>
              \E p \in Projects, change \in ProjectChange : LoadProject(q, p, change)
         /\ request'[q].op = "create entry" =>
              \E columns \in EntryColumns : ValidateNewEntry(q, columns)
         /\ request'[q].op = "patch entry" =>
              \/ \E t \in Entries, change \in EntryChange : LoadEntry(q, t, change)
              \/ /\ ValidateNewProject(q)
                 /\ request[q] \in EntryPatch
                 /\ request'[q] = [request[q] EXCEPT !.ready = TRUE]
<1>0. TypeOK /\ request \in [Requests -> Request] /\ Idle \in Request
  BY RequestShapes DEF TypeInv, TypeOK
<1>1. ASSUME NEW c \in Clients, NEW change \in ClientChange, LoadClient(q, c, change)
      PROVE  request'[q].op = "patch client"
  BY <1>0, <1>1 DEF LoadClient, Begin
<1>2. ASSUME NEW c \in Clients, NEW name \in Names, FindClient(q, c, name)
      PROVE  request'[q].op = "create project"
  BY <1>0, <1>2 DEF FindClient, Begin
<1>3. ASSUME NEW p \in Projects, NEW change \in ProjectChange, LoadProject(q, p, change)
      PROVE  request'[q].op = "patch project"
  BY <1>0, <1>3 DEF LoadProject, Begin
<1>4. ASSUME NEW columns \in EntryColumns, ValidateNewEntry(q, columns)
      PROVE  request'[q].op = "create entry"
  BY <1>0, <1>4 DEF ValidateNewEntry, Begin
<1>5. ASSUME NEW t \in Entries, NEW change \in EntryChange, LoadEntry(q, t, change)
      PROVE  request'[q].op = "patch entry"
  BY <1>0, <1>5 DEF LoadEntry, Begin
<1>6. ASSUME ValidateNewProject(q)
      PROVE  \/ request'[q] = Idle
             \/ /\ request[q] \in EntryPatch
                /\ request'[q] = [request[q] EXCEPT !.ready = TRUE]
                /\ request'[q].op = "patch entry"
  <2>1. request[q] \in EntryPatch
    BY <1>0, <1>6, RequestShapes DEF ValidateNewProject
  <2>2. [request[q] EXCEPT !.ready = TRUE].op = "patch entry"
    BY <2>1 DEF EntryPatch
  <2>. QED
    BY <1>0, <1>6, <2>1, <2>2 DEF ValidateNewProject
<1>7. /\ Idle.op = "none" /\ \A r \in Listing : r.op = "list"
  BY RequestShapes DEF Listing
<1>. QED
  BY <1>1, <1>2, <1>3, <1>4, <1>5, <1>6, <1>7, RequestSteps

ClientColumnsStay == \A c \in Clients : client'[c].columns = client[c].columns /\ asked'[c] = asked[c]
ProjectColumnsStay ==
  \A p \in Projects : project'[p].columns = project[p].columns /\ asked'[p] = asked[p]
EntryColumnsStay == \A t \in Entries : entry'[t].columns = entry[t].columns /\ asked'[t] = asked[t]

\* Which statements write columns.
LEMMA ColumnSteps ==
  ASSUME TypeInv, [Next]_vars
  PROVE  /\ \/ ClientColumnsStay
            \/ \E c \in Clients, columns \in ClientColumns : CreateClient(c, columns)
            \/ \E q \in Requests : UpdateClient(q)
         /\ \/ ProjectColumnsStay
            \/ \E q \in Requests, p \in Projects : InsertProject(q, p)
            \/ \E q \in Requests : UpdateProject(q)
         /\ \/ EntryColumnsStay
            \/ \E q \in Requests, t \in Entries : InsertTimeEntry(q, t)
            \/ \E q \in Requests : UpdateTimeEntry(q)
         /\ overlapped \subseteq overlapped'
<1>0. /\ client \in [Clients -> ClientRow] /\ entry \in [Entries -> EntryRow]
      /\ \A q \in Requests : request[q] \in Request
      /\ asked \in [Entries \union Projects \union Clients ->
                      EntryColumns \union ProjectColumns \union ClientColumns]
  BY DEF TypeInv, TypeOK
<1> DEFINE Write ==
             \/ \E c \in Clients, columns \in ClientColumns : CreateClient(c, columns)
             \/ \E q \in Requests : UpdateClient(q)
             \/ \E q \in Requests, p \in Projects : InsertProject(q, p)
             \/ \E q \in Requests : UpdateProject(q)
             \/ \E q \in Requests, t \in Entries : InsertTimeEntry(q, t)
             \/ \E q \in Requests : UpdateTimeEntry(q)
           Read ==
             \/ \E q \in Requests, c \in Clients, change \in ClientChange : LoadClient(q, c, change)
             \/ \E q \in Requests, c \in Clients, name \in Names : FindClient(q, c, name)
             \/ \E q \in Requests, p \in Projects, change \in ProjectChange :
                  LoadProject(q, p, change)
             \/ \E q \in Requests, columns \in EntryColumns : ValidateNewEntry(q, columns)
             \/ \E q \in Requests, t \in Entries, change \in EntryChange : LoadEntry(q, t, change)
             \/ \E q \in Requests : ValidateNewProject(q)
             \/ \E q \in Requests, filter \in Projects \union {None} : BeginListing(q, filter)
             \/ \E q \in Requests : ListTimeEntriesPage(q)
             \/ \E q \in Requests : Abandon(q)
             \/ UNCHANGED vars
<1>1. Write \/ Read \/ (\E c \in Clients : SoftDeleteClient(c)) \/ (\E t \in Entries : LockEntry(t))
  BY DEF Next
<1>2. ASSUME Read
      PROVE  UNCHANGED <<client, project, entry, asked>> /\ overlapped \subseteq overlapped'
  BY <1>2 DEF LoadClient, FindClient, LoadProject, ValidateNewEntry, LoadEntry,
     ValidateNewProject, BeginListing, ListTimeEntriesPage, Abandon, vars
<1>3. ASSUME NEW c \in Clients, SoftDeleteClient(c)
      PROVE  /\ ClientColumnsStay /\ ProjectColumnsStay /\ EntryColumnsStay
             /\ overlapped \subseteq overlapped'
  BY <1>0, <1>3
  DEF SoftDeleteClient, ClientRow, ClientColumnsStay, ProjectColumnsStay, EntryColumnsStay
<1>4. ASSUME NEW t \in Entries, LockEntry(t)
      PROVE  /\ ClientColumnsStay /\ ProjectColumnsStay /\ EntryColumnsStay
             /\ overlapped \subseteq overlapped'
  BY <1>0, <1>4 DEF LockEntry, EntryRow, ClientColumnsStay, ProjectColumnsStay, EntryColumnsStay
<1>5. ASSUME Write PROVE UNCHANGED overlapped
  BY <1>5 DEF CreateClient, UpdateClient, InsertProject, UpdateProject, InsertTimeEntry,
     UpdateTimeEntry
<1>6. ASSUME \/ \E c \in Clients, columns \in ClientColumns : CreateClient(c, columns)
             \/ \E q \in Requests : UpdateClient(q)
      PROVE  ProjectColumnsStay /\ EntryColumnsStay
  <2>1. ASSUME NEW q \in Requests, UpdateClient(q) PROVE request[q].client \in Clients
    BY <1>0, <2>1, RequestShapes DEF UpdateClient, ClientPatch
  <2>2. ASSUME NEW q \in Requests, UpdateClient(q), NEW r \in Entries \union Projects
        PROVE  asked'[r] = asked[r]
    BY <1>0, <2>1, <2>2 DEF UpdateClient
  <2>3. ASSUME NEW c \in Clients, NEW columns \in ClientColumns, CreateClient(c, columns),
               NEW r \in Entries \union Projects
        PROVE  asked'[r] = asked[r]
    BY <1>0, <2>3 DEF CreateClient
  <2>4. UNCHANGED <<project, entry>>
    BY <1>6 DEF CreateClient, UpdateClient
  <2>. QED
    BY <1>6, <2>2, <2>3, <2>4 DEF ProjectColumnsStay, EntryColumnsStay
<1>7. ASSUME \/ \E q \in Requests, p \in Projects : InsertProject(q, p)
             \/ \E q \in Requests : UpdateProject(q)
      PROVE  ClientColumnsStay /\ EntryColumnsStay
  <2>1. ASSUME NEW q \in Requests, UpdateProject(q) PROVE request[q].project \in Projects
    BY <1>0, <2>1, RequestShapes DEF UpdateProject, ProjectPatch
  <2>2. ASSUME NEW q \in Requests, UpdateProject(q), NEW r \in Entries \union Clients
        PROVE  asked'[r] = asked[r]
    BY <1>0, <2>1, <2>2 DEF UpdateProject
  <2>3. ASSUME NEW q \in Requests, NEW p \in Projects, InsertProject(q, p),
               NEW r \in Entries \union Clients
        PROVE  asked'[r] = asked[r]
    BY <1>0, <2>3 DEF InsertProject
  <2>4. UNCHANGED <<client, entry>>
    BY <1>7 DEF InsertProject, UpdateProject
  <2>. QED
    BY <1>7, <2>2, <2>3, <2>4 DEF ClientColumnsStay, EntryColumnsStay
<1>8. ASSUME \/ \E q \in Requests, t \in Entries : InsertTimeEntry(q, t)
             \/ \E q \in Requests : UpdateTimeEntry(q)
      PROVE  ClientColumnsStay /\ ProjectColumnsStay
  <2>1. ASSUME NEW q \in Requests, UpdateTimeEntry(q) PROVE request[q].entry \in Entries
    BY <1>0, <2>1, RequestShapes DEF UpdateTimeEntry, EntryPatch
  <2>2. ASSUME NEW q \in Requests, UpdateTimeEntry(q), NEW r \in Clients \union Projects
        PROVE  asked'[r] = asked[r]
    BY <1>0, <2>1, <2>2 DEF UpdateTimeEntry
  <2>3. ASSUME NEW q \in Requests, NEW t \in Entries, InsertTimeEntry(q, t),
               NEW r \in Clients \union Projects
        PROVE  asked'[r] = asked[r]
    BY <1>0, <2>3 DEF InsertTimeEntry
  <2>4. UNCHANGED <<client, project>>
    BY <1>8 DEF InsertTimeEntry, UpdateTimeEntry
  <2>. QED
    BY <1>8, <2>2, <2>3, <2>4 DEF ClientColumnsStay, ProjectColumnsStay
<1>9. UNCHANGED <<client, project, entry, asked>> =>
        ClientColumnsStay /\ ProjectColumnsStay /\ EntryColumnsStay
  BY DEF ClientColumnsStay, ProjectColumnsStay, EntryColumnsStay
<1>. HIDE DEF Read
<1>. QED
  BY <1>1, <1>2, <1>3, <1>4, <1>5, <1>6, <1>7, <1>8, <1>9

LEMMA ClientCopiesStep ==
  ASSUME TypeInv, [Next]_vars, ClientCopies
  PROVE  ClientCopies'
<1>0. /\ TypeOK /\ AskedTypes /\ \A q \in Requests : Found(request[q]) /\ request[q] \in Request
      /\ client \in [Clients -> ClientRow] /\ request \in [Requests -> Request]
  BY DEF TypeInv, TypeOK
<1>o. overlapped \subseteq overlapped'
  BY ColumnSteps
<1>1. ASSUME NEW q \in Requests, NEW c \in Clients, NEW change \in ClientChange,
             LoadClient(q, c, change)
      PROVE  ClientCopies'
  <2> DEFINE req == [op |-> "patch client", client |-> c, change |-> change,
                     copy |-> client[c].columns]
  <2>1. /\ request'[q] = req
        /\ \A r \in Requests : r # q => request'[r] = request[r]
        /\ UNCHANGED <<client, asked>>
    BY <1>0, <1>1 DEF LoadClient, Begin
  <2>2. req.op = "patch client" /\ req.client = c /\ req.copy = client[c].columns
    OBVIOUS
  <2>3. c \notin overlapped' => \A r \in Requests : ~PatchOfClient(r, c)
    BY <1>1 DEF LoadClient, Overlaps, PatchOfClient
  <2>. HIDE DEF req
  <2>4. ASSUME NEW d \in Clients \ overlapped', NEW r \in Requests, PatchOfClient(r, d)'
        PROVE  \/ r = q /\ d = c
               \/ r # q /\ PatchOfClient(r, d) /\ request'[r] = request[r]
    BY <2>1, <2>2, <2>4 DEF PatchOfClient
  <2>5. ASSUME NEW d \in Clients \ overlapped'
        PROVE  /\ client'[d].columns = asked'[d]
               /\ \A r \in Requests : PatchOfClient(r, d)' => request'[r].copy = client'[d].columns
    <3>1. client'[d].columns = asked'[d]
      BY <1>o, <2>1 DEF ClientCopies
    <3>2. ASSUME NEW r \in Requests, PatchOfClient(r, d)' PROVE request'[r].copy = client'[d].columns
      <4>1. CASE r = q /\ d = c
        BY <2>1, <2>2, <4>1
      <4>2. CASE PatchOfClient(r, d) /\ request'[r] = request[r]
        BY <1>o, <2>1, <4>2 DEF ClientCopies
      <4>. QED
        BY <2>4, <3>2, <4>1, <4>2
    <3>. QED
      BY <3>1, <3>2
  <2>6. ASSUME NEW d \in Clients \ overlapped', NEW r \in Requests, NEW p \in Requests,
               PatchOfClient(r, d)', PatchOfClient(p, d)'
        PROVE  r = p
    BY <1>o, <2>3, <2>4, <2>6 DEF ClientCopies
  <2>. QED
    BY <2>5, <2>6 DEF ClientCopies
<1>2. ASSUME ~ \E q \in Requests, c \in Clients, change \in ClientChange : LoadClient(q, c, change)
      PROVE  ClientCopies'
  <2>1. \A q \in Requests : request'[q].op = "patch client" => request'[q] = request[q]
    BY <1>2, PatchSteps
  <2>2. \A q \in Requests, c \in Clients : PatchOfClient(q, c)' =>
          PatchOfClient(q, c) /\ request'[q].copy = request[q].copy
    BY <2>1 DEF PatchOfClient
  <2>3. CASE ClientColumnsStay
    BY <1>o, <2>2, <2>3 DEF ClientCopies, ClientColumnsStay
  <2>4. ASSUME NEW d \in Clients, NEW columns \in ClientColumns, CreateClient(d, columns)
        PROVE  ClientCopies'
    <3>1. \A q \in Requests : ~PatchOfClient(q, d)
      BY <1>0, <2>4 DEF CreateClient, PatchOfClient, Found, Present
    <3>2. /\ client'[d].columns = columns /\ asked'[d] = columns
          /\ \A c \in Clients : c # d => client'[c] = client[c] /\ asked'[c] = asked[c]
      BY <1>0, <2>4 DEF CreateClient, TypeOK
    <3>. QED
      BY <1>o, <2>2, <3>1, <3>2 DEF ClientCopies
  <2>5. ASSUME NEW q \in Requests, NEW d \in Clients, PatchOfClient(q, d), UpdateClient(q)
        PROVE  ClientCopies'
    <3>1. request'[q] = Idle /\ ~PatchOfClient(q, d)'
      BY <1>0, <2>5, RequestShapes DEF UpdateClient, PatchOfClient, End
    <3>2. CASE client[d].status # "active"
      <4>1. UNCHANGED <<client, asked>>
        BY <2>5, <3>2 DEF UpdateClient, PatchOfClient
      <4>. QED
        BY <1>o, <2>2, <4>1 DEF ClientCopies
    <3>3. CASE client[d].status = "active"
      <4> DEFINE columns == Merged(request[q].change, request[q].copy)
      <4>1. /\ client' = [client EXCEPT ![d].columns = columns]
            /\ asked' = [asked EXCEPT ![d] = Merged(request[q].change, asked[d])]
        BY <2>5, <3>3 DEF UpdateClient, PatchOfClient
      <4>. HIDE DEF columns
      <4>2. /\ client'[d].columns = columns
            /\ asked'[d] = Merged(request[q].change, asked[d])
            /\ \A c \in Clients : c # d => client'[c] = client[c] /\ asked'[c] = asked[c]
        BY <1>0, <4>1 DEF TypeOK, ClientRow
      <4>3. d \notin overlapped => \A r \in Requests : ~PatchOfClient(r, d)'
        BY <2>2, <2>5, <3>1 DEF ClientCopies
      <4>4. d \notin overlapped => client'[d].columns = asked'[d]
        BY <2>5, <4>2 DEF ClientCopies, columns
      <4>. QED
        BY <1>o, <2>2, <4>2, <4>3, <4>4 DEF ClientCopies
    <3>. QED
      BY <3>2, <3>3
  <2>6. ASSUME NEW q \in Requests, UpdateClient(q)
        PROVE  \E d \in Clients : PatchOfClient(q, d)
    BY <1>0, <2>6, RequestShapes DEF UpdateClient, ClientPatch, PatchOfClient
  <2>. QED
    BY <2>3, <2>4, <2>5, <2>6, ColumnSteps
<1>. QED
  BY <1>1, <1>2

LEMMA ProjectCopiesStep ==
  ASSUME TypeInv, [Next]_vars, ProjectCopies
  PROVE  ProjectCopies'
<1>0. /\ TypeOK /\ AskedTypes /\ \A q \in Requests : Found(request[q]) /\ request[q] \in Request
      /\ project \in [Projects -> ProjectRow] /\ request \in [Requests -> Request]
  BY DEF TypeInv, TypeOK
<1>o. overlapped \subseteq overlapped'
  BY ColumnSteps
<1>1. ASSUME NEW q \in Requests, NEW c \in Projects, NEW change \in ProjectChange,
             LoadProject(q, c, change)
      PROVE  ProjectCopies'
  <2> DEFINE req == [op |-> "patch project", project |-> c, change |-> change,
                     copy |-> project[c].columns]
  <2>1. /\ request'[q] = req
        /\ \A r \in Requests : r # q => request'[r] = request[r]
        /\ UNCHANGED <<project, asked>>
    BY <1>0, <1>1 DEF LoadProject, Begin
  <2>2. req.op = "patch project" /\ req.project = c /\ req.copy = project[c].columns
    OBVIOUS
  <2>3. c \notin overlapped' => \A r \in Requests : ~PatchOfProject(r, c)
    BY <1>1 DEF LoadProject, Overlaps, PatchOfProject
  <2>. HIDE DEF req
  <2>4. ASSUME NEW d \in Projects \ overlapped', NEW r \in Requests, PatchOfProject(r, d)'
        PROVE  \/ r = q /\ d = c
               \/ r # q /\ PatchOfProject(r, d) /\ request'[r] = request[r]
    BY <2>1, <2>2, <2>4 DEF PatchOfProject
  <2>5. ASSUME NEW d \in Projects \ overlapped'
        PROVE  /\ project'[d].columns = asked'[d]
               /\ \A r \in Requests : PatchOfProject(r, d)' => request'[r].copy = project'[d].columns
    <3>1. project'[d].columns = asked'[d]
      BY <1>o, <2>1 DEF ProjectCopies
    <3>2. ASSUME NEW r \in Requests, PatchOfProject(r, d)' PROVE request'[r].copy = project'[d].columns
      <4>1. CASE r = q /\ d = c
        BY <2>1, <2>2, <4>1
      <4>2. CASE PatchOfProject(r, d) /\ request'[r] = request[r]
        BY <1>o, <2>1, <4>2 DEF ProjectCopies
      <4>. QED
        BY <2>4, <3>2, <4>1, <4>2
    <3>. QED
      BY <3>1, <3>2
  <2>6. ASSUME NEW d \in Projects \ overlapped', NEW r \in Requests, NEW p \in Requests,
               PatchOfProject(r, d)', PatchOfProject(p, d)'
        PROVE  r = p
    BY <1>o, <2>3, <2>4, <2>6 DEF ProjectCopies
  <2>. QED
    BY <2>5, <2>6 DEF ProjectCopies
<1>2. ASSUME ~ \E q \in Requests, c \in Projects, change \in ProjectChange : LoadProject(q, c, change)
      PROVE  ProjectCopies'
  <2>1. \A q \in Requests : request'[q].op = "patch project" => request'[q] = request[q]
    BY <1>2, PatchSteps
  <2>2. \A q \in Requests, c \in Projects : PatchOfProject(q, c)' =>
          PatchOfProject(q, c) /\ request'[q].copy = request[q].copy
    BY <2>1 DEF PatchOfProject
  <2>3. CASE ProjectColumnsStay
    BY <1>o, <2>2, <2>3 DEF ProjectCopies, ProjectColumnsStay
  <2>4. ASSUME NEW q \in Requests, NEW d \in Projects, InsertProject(q, d)
        PROVE  ProjectCopies'
    <3>1. \A r \in Requests : ~PatchOfProject(r, d)
      BY <1>0, <2>4 DEF InsertProject, PatchOfProject, Found, Exists
    <3>2. /\ project'[d].columns = asked'[d]
          /\ \A c \in Projects : c # d => project'[c] = project[c] /\ asked'[c] = asked[c]
      BY <1>0, <2>4 DEF InsertProject, TypeOK
    <3>. QED
      BY <1>o, <2>2, <3>1, <3>2 DEF ProjectCopies
  <2>5. ASSUME NEW q \in Requests, NEW d \in Projects, PatchOfProject(q, d), UpdateProject(q)
        PROVE  ProjectCopies'
    <3>1. request'[q] = Idle /\ ~PatchOfProject(q, d)'
      BY <1>0, <2>5, RequestShapes DEF UpdateProject, PatchOfProject, End
    <3> DEFINE columns == Merged(request[q].change, request[q].copy)
    <3>2. /\ project' = [project EXCEPT ![d].columns = columns]
          /\ asked' = [asked EXCEPT ![d] = Merged(request[q].change, asked[d])]
      BY <2>5 DEF UpdateProject, PatchOfProject
    <3>. HIDE DEF columns
    <3>3. /\ project'[d].columns = columns
          /\ asked'[d] = Merged(request[q].change, asked[d])
          /\ \A c \in Projects : c # d => project'[c] = project[c] /\ asked'[c] = asked[c]
      BY <1>0, <3>2 DEF TypeOK, ProjectRow
    <3>4. d \notin overlapped => \A r \in Requests : ~PatchOfProject(r, d)'
      BY <2>2, <2>5, <3>1 DEF ProjectCopies
    <3>5. d \notin overlapped => project'[d].columns = asked'[d]
      BY <2>5, <3>3 DEF ProjectCopies, columns
    <3>. QED
      BY <1>o, <2>2, <3>3, <3>4, <3>5 DEF ProjectCopies
  <2>6. ASSUME NEW q \in Requests, UpdateProject(q)
        PROVE  \E d \in Projects : PatchOfProject(q, d)
    BY <1>0, <2>6, RequestShapes DEF UpdateProject, ProjectPatch, PatchOfProject
  <2>. QED
    BY <2>3, <2>4, <2>5, <2>6, ColumnSteps
<1>. QED
  BY <1>1, <1>2

LEMMA EntryCopiesStep ==
  ASSUME TypeInv, [Next]_vars, EntryCopies
  PROVE  EntryCopies'
<1>0. /\ TypeOK /\ AskedTypes /\ \A q \in Requests : Found(request[q]) /\ request[q] \in Request
      /\ entry \in [Entries -> EntryRow] /\ request \in [Requests -> Request]
  BY DEF TypeInv, TypeOK
<1>o. overlapped \subseteq overlapped'
  BY ColumnSteps
<1>1. ASSUME NEW q \in Requests, NEW c \in Entries, NEW change \in EntryChange,
             LoadEntry(q, c, change)
      PROVE  EntryCopies'
  <2> DEFINE req == [op |-> "patch entry", ready |-> change.project = None, entry |-> c, change |-> change,
                     copy |-> entry[c].columns]
  <2>1. /\ request'[q] = req
        /\ \A r \in Requests : r # q => request'[r] = request[r]
        /\ UNCHANGED <<entry, asked>>
    BY <1>0, <1>1 DEF LoadEntry, Begin
  <2>2. req.op = "patch entry" /\ req.entry = c /\ req.copy = entry[c].columns
    OBVIOUS
  <2>3. c \notin overlapped' => \A r \in Requests : ~PatchOfEntry(r, c)
    BY <1>1 DEF LoadEntry, Overlaps, PatchOfEntry
  <2>. HIDE DEF req
  <2>4. ASSUME NEW d \in Entries \ overlapped', NEW r \in Requests, PatchOfEntry(r, d)'
        PROVE  \/ r = q /\ d = c
               \/ r # q /\ PatchOfEntry(r, d) /\ request'[r] = request[r]
    BY <2>1, <2>2, <2>4 DEF PatchOfEntry
  <2>5. ASSUME NEW d \in Entries \ overlapped'
        PROVE  /\ entry'[d].columns = asked'[d]
               /\ \A r \in Requests : PatchOfEntry(r, d)' => request'[r].copy = entry'[d].columns
    <3>1. entry'[d].columns = asked'[d]
      BY <1>o, <2>1 DEF EntryCopies
    <3>2. ASSUME NEW r \in Requests, PatchOfEntry(r, d)' PROVE request'[r].copy = entry'[d].columns
      <4>1. CASE r = q /\ d = c
        BY <2>1, <2>2, <4>1
      <4>2. CASE PatchOfEntry(r, d) /\ request'[r] = request[r]
        BY <1>o, <2>1, <4>2 DEF EntryCopies
      <4>. QED
        BY <2>4, <3>2, <4>1, <4>2
    <3>. QED
      BY <3>1, <3>2
  <2>6. ASSUME NEW d \in Entries \ overlapped', NEW r \in Requests, NEW p \in Requests,
               PatchOfEntry(r, d)', PatchOfEntry(p, d)'
        PROVE  r = p
    BY <1>o, <2>3, <2>4, <2>6 DEF EntryCopies
  <2>. QED
    BY <2>5, <2>6 DEF EntryCopies
<1>2. ASSUME ~ \E q \in Requests, c \in Entries, change \in EntryChange : LoadEntry(q, c, change)
      PROVE  EntryCopies'
  <2>1. ASSUME NEW q \in Requests, request'[q].op = "patch entry"
        PROVE  /\ request[q].op = "patch entry" /\ request'[q].entry = request[q].entry
               /\ request'[q].copy = request[q].copy
    <3>1. CASE request'[q] = request[q]
      BY <2>1, <3>1
    <3>2. CASE request'[q] # request[q]
      <4>1. request[q] \in EntryPatch /\ request'[q] = [request[q] EXCEPT !.ready = TRUE]
        BY <1>2, <2>1, <3>2, PatchSteps
      <4>. QED
        BY <4>1 DEF EntryPatch
    <3>. QED
      BY <3>1, <3>2
  <2>2. \A q \in Requests, t \in Entries : PatchOfEntry(q, t)' =>
          PatchOfEntry(q, t) /\ request'[q].copy = request[q].copy
    BY <2>1 DEF PatchOfEntry
  <2>3. CASE EntryColumnsStay
    BY <1>o, <2>2, <2>3 DEF EntryCopies, EntryColumnsStay
  <2>4. ASSUME NEW q \in Requests, NEW d \in Entries, InsertTimeEntry(q, d)
        PROVE  EntryCopies'
    <3>1. \A r \in Requests : ~PatchOfEntry(r, d)
      BY <1>0, <2>4 DEF InsertTimeEntry, PatchOfEntry, Found, Present
    <3>2. /\ entry'[d].columns = asked'[d]
          /\ \A c \in Entries : c # d => entry'[c] = entry[c] /\ asked'[c] = asked[c]
      BY <1>0, <2>4 DEF InsertTimeEntry, TypeOK
    <3>. QED
      BY <1>o, <2>2, <3>1, <3>2 DEF EntryCopies
  <2>5. ASSUME NEW q \in Requests, NEW d \in Entries, PatchOfEntry(q, d), UpdateTimeEntry(q)
        PROVE  EntryCopies'
    <3>1. request'[q] = Idle /\ ~PatchOfEntry(q, d)'
      BY <1>0, <2>5, RequestShapes DEF UpdateTimeEntry, PatchOfEntry, End
    <3>2. CASE entry[d].status # "open"
      <4>1. UNCHANGED <<entry, asked>>
        BY <2>5, <3>2 DEF UpdateTimeEntry, PatchOfEntry
      <4>. QED
        BY <1>o, <2>2, <4>1 DEF EntryCopies
    <3>3. CASE entry[d].status = "open"
      <4> DEFINE columns == Merged(request[q].change, request[q].copy)
      <4>1. /\ entry' = [entry EXCEPT ![d].columns = columns]
            /\ asked' = [asked EXCEPT ![d] = Merged(request[q].change, asked[d])]
        BY <2>5, <3>3 DEF UpdateTimeEntry, PatchOfEntry
      <4>. HIDE DEF columns
      <4>2. /\ entry'[d].columns = columns
            /\ asked'[d] = Merged(request[q].change, asked[d])
            /\ \A c \in Entries : c # d => entry'[c] = entry[c] /\ asked'[c] = asked[c]
        BY <1>0, <4>1 DEF TypeOK, EntryRow
      <4>3. d \notin overlapped => \A r \in Requests : ~PatchOfEntry(r, d)'
        BY <2>2, <2>5, <3>1 DEF EntryCopies
      <4>4. d \notin overlapped => entry'[d].columns = asked'[d]
        BY <2>5, <4>2 DEF EntryCopies, columns
      <4>. QED
        BY <1>o, <2>2, <4>2, <4>3, <4>4 DEF EntryCopies
    <3>. QED
      BY <3>2, <3>3
  <2>6. ASSUME NEW q \in Requests, UpdateTimeEntry(q)
        PROVE  \E d \in Entries : PatchOfEntry(q, d)
    BY <1>0, <2>6, RequestShapes DEF UpdateTimeEntry, EntryPatch, PatchOfEntry
  <2>. QED
    BY <2>3, <2>4, <2>5, <2>6, ColumnSteps
<1>. QED
  BY <1>1, <1>2

Copies == ClientCopies /\ ProjectCopies /\ EntryCopies

LEMMA InitCopies == Init => Copies
<1> SUFFICES ASSUME Init PROVE Copies
  OBVIOUS
<1>1. \A q \in Requests : request[q].op = "none"
  BY DEF Init, Idle
<1>2. \A c \in Clients : asked[c] = client[c].columns
  BY DEF Init
<1>3. \A p \in Projects : asked[p] = project[p].columns
  BY DEF Init
<1>4. \A t \in Entries : asked[t] = entry[t].columns
  BY DEF Init
<1>. QED
  BY <1>1, <1>2, <1>3, <1>4
  DEF Copies, ClientCopies, ProjectCopies, EntryCopies, PatchOfClient, PatchOfProject, PatchOfEntry

\* A PATCH changes what it was asked to and nothing else, unless two PATCHes
\* of the row overlapped, whatever is created, deleted, listed or locked
\* between its statements.
THEOREM AddUp == Spec => []PatchesAddUp
<1>1. TypeInv /\ Copies /\ [Next]_vars => Copies'
  BY ClientCopiesStep, ProjectCopiesStep, EntryCopiesStep DEF Copies
<1>2. Copies => PatchesAddUp
  BY DEF Copies, ClientCopies, ProjectCopies, EntryCopies, PatchesAddUp
<1>. QED
  BY <1>1, <1>2, InitTypeInv, TypeInvStep, InitCopies, PTL DEF Spec

\* An archived project that no request expects to use gets no entries, but
\* from a PATCH that another one overlapped.
LEMMA ArchivedStep ==
  ASSUME TypeInv, EntryCopies, [Next]_vars, NEW p \in Projects,
         Exists(project[p]), project[p].columns.archived, ~Expecting(p)
  PROVE  /\ ~Expecting(p)'
         /\ EntriesOf(p)' \subseteq EntriesOf(p) \union overlapped
<1>0. /\ TypeOK /\ entry \in [Entries -> EntryRow] /\ request \in [Requests -> Request]
      /\ \A q \in Requests : request[q] \in Request
      /\ ~ValidProject(p) /\ p # None
  BY DEF TypeInv, TypeOK, ValidProject
<1>1. ASSUME NEW q \in Requests
      PROVE  /\ ~(request'[q].op = "create entry" /\ request'[q].columns.project = p)
             /\ ~(request'[q].op = "patch entry" /\ request'[q].ready
                    /\ request'[q].change.project = p)
  <2>1. CASE request'[q] = request[q]
    BY <2>1 DEF Expecting
  <2>2. CASE request'[q] # request[q] /\ request'[q].op = "create entry"
    <3>1. PICK columns \in EntryColumns : ValidateNewEntry(q, columns)
      BY <2>2, PatchSteps
    <3>2. request'[q].columns = columns
      BY <1>0, <3>1 DEF ValidateNewEntry, Begin
    <3>. QED
      BY <1>0, <2>2, <3>1, <3>2 DEF ValidateNewEntry
  <2>3. CASE request'[q] # request[q] /\ request'[q].op = "patch entry"
    <3>1. ASSUME NEW t \in Entries, NEW change \in EntryChange, LoadEntry(q, t, change)
          PROVE  request'[q].change.project = None \/ ~request'[q].ready
      BY <1>0, <3>1 DEF LoadEntry, Begin
    <3>2. ASSUME ValidateNewProject(q), request[q] \in EntryPatch,
                 request'[q] = [request[q] EXCEPT !.ready = TRUE]
          PROVE  request'[q].change.project # p
      <4>1. request'[q].change = request[q].change
        BY <3>2 DEF EntryPatch
      <4>2. ValidProject(request[q].change.project)
        BY <1>0, <2>3, <3>2, RequestShapes DEF ValidateNewProject
      <4>. QED
        BY <1>0, <4>1, <4>2
    <3>. QED
      BY <1>0, <2>3, <3>1, <3>2, PatchSteps
  <2>. QED
    BY <2>1, <2>2, <2>3
<1>2. ASSUME NEW t \in Entries, Present(entry'[t]), entry'[t].columns.project = p,
             t \notin overlapped
      PROVE  Present(entry[t]) /\ entry[t].columns.project = p
  <2>1. ASSUME NEW q \in Requests, NEW u \in Entries, InsertTimeEntry(q, u)
        PROVE  entry'[t] = entry[t]
    <3>1. u = t => entry'[t].columns = request[q].columns
      BY <1>0, <2>1 DEF InsertTimeEntry
    <3>2. u # t
      BY <1>2, <2>1, <3>1 DEF InsertTimeEntry, Expecting
    <3>. QED
      BY <1>0, <2>1, <3>2 DEF InsertTimeEntry
  <2>2. ASSUME NEW q \in Requests, UpdateTimeEntry(q)
        PROVE  entry'[t].status = entry[t].status /\ entry[t].columns.project = p
    <3>1. request[q] \in EntryPatch
      BY <1>0, <2>2, RequestShapes DEF UpdateTimeEntry
    <3>2. CASE entry'[t] = entry[t]
      BY <1>2, <3>2
    <3>3. CASE entry'[t] # entry[t]
      <4> DEFINE columns == Merged(request[q].change, request[q].copy)
      <4>1. PatchOfEntry(q, t) /\ entry' = [entry EXCEPT ![t].columns = columns]
        BY <1>0, <2>2, <3>3 DEF UpdateTimeEntry, PatchOfEntry
      <4>2. request[q].copy = entry[t].columns
        BY <1>2, <4>1 DEF EntryCopies
      <4>3. columns.project = IF request[q].change.project = None
                              THEN request[q].copy.project ELSE request[q].change.project
        BY <3>1 DEF Merged, EntryPatch, EntryColumns
      <4>4. request[q].change.project # p
        BY <2>2 DEF UpdateTimeEntry, Expecting
      <4>. HIDE DEF columns
      <4>5. entry'[t].columns = columns /\ entry'[t].status = entry[t].status
        BY <1>0, <4>1 DEF EntryRow
      <4>. QED
        BY <1>0, <1>2, <4>2, <4>3, <4>4, <4>5
    <3>. QED
      BY <3>2, <3>3
  <2>3. ASSUME NEW u \in Entries, LockEntry(u)
        PROVE  entry'[t].columns = entry[t].columns /\ (Present(entry'[t]) => Present(entry[t]))
    BY <1>0, <2>3 DEF LockEntry, EntryRow, Present
  <2>4. \/ UNCHANGED entry
        \/ \E q \in Requests, u \in Entries : InsertTimeEntry(q, u)
        \/ \E q \in Requests : UpdateTimeEntry(q)
        \/ \E u \in Entries : LockEntry(u)
    BY DEF Next, vars, CreateClient, SoftDeleteClient, LoadClient, FindClient, UpdateClient,
       InsertProject, LoadProject, UpdateProject, ValidateNewEntry, LoadEntry,
       ValidateNewProject, BeginListing, ListTimeEntriesPage, Abandon
  <2>. QED
    BY <1>2, <2>1, <2>2, <2>3, <2>4 DEF Present
<1>3. ~Expecting(p)'
  BY <1>1 DEF Expecting
<1>4. EntriesOf(p)' \subseteq EntriesOf(p) \union overlapped
  BY <1>2 DEF EntriesOf
<1>. QED
  BY <1>3, <1>4

\* Once the requests that had found it open are over, an archived project
\* receives no entries.
THEOREM ArchivedRest == Spec => ArchivedProjectsRest
<1>1. TypeInv /\ Copies /\ [Next]_vars => Copies'
  BY ClientCopiesStep, ProjectCopiesStep, EntryCopiesStep DEF Copies
<1>2. TypeInv /\ Copies /\ [Next]_vars =>
        [\A p \in Projects :
           Exists(project[p]) /\ project[p].columns.archived /\ ~Expecting(p) =>
             /\ ~Expecting(p)'
             /\ EntriesOf(p)' \subseteq EntriesOf(p) \union overlapped]_vars
  BY ArchivedStep DEF Copies
<1>. QED
  BY <1>1, <1>2, InitTypeInv, TypeInvStep, InitCopies, PTL DEF Spec, ArchivedProjectsRest
-----------------------------------------------------------------------------
(***************************************************************************)
(* Listings are complete.  An entry that stays where it was is behind the  *)
(* cursor once it was seen, and ahead of it until then.                    *)
(***************************************************************************)

Knows(r, t) ==
  /\ r.seen[t] <= 1
  /\ r.seen[t] = 1 /\ ~r.done =>
       r.cursor # None /\ t \in Listed(r.filter) /\ ~AfterCursor(r.cursor, t)
  /\ t \in r.there => t \in Listed(r.filter)
  /\ t \in r.there /\ r.seen[t] = 0 => ~r.done /\ AfterCursor(r.cursor, t)

ListInv ==
  \A q \in Requests : request[q].op = "list" =>
    \A t \in Entries \ request[q].moved : Knows(request[q], t)

\* What is known of an entry stays known while the entry stays.
LEMMA KnowsStays ==
  ASSUME NEW r \in Listing, NEW t \in Entries, Knows(r, t),
         entry'[t].columns.date = entry[t].columns.date,
         Present(entry'[t]) <=> Present(entry[t]),
         Matches(entry'[t].columns, r.filter) <=> Matches(entry[t].columns, r.filter)
  PROVE  Knows(r, t)'
<1>1. (t \in Listed(r.filter))' <=> t \in Listed(r.filter)
  BY DEF Listed, Matches
<1>2. AfterCursor(r.cursor, t)' <=> AfterCursor(r.cursor, t)
  BY DEF AfterCursor, Key, Before
<1>. QED
  BY <1>1, <1>2 DEF Knows

\* A page turns what is known of an entry before it into what is known after.
LEMMA KnowsTurns ==
  ASSUME TypeInv, NEW q \in Requests, ListTimeEntriesPage(q), NEW t \in Entries,
         Knows(request[q], t)
  PROVE  Knows(request[q], t)'
<1>0. UNCHANGED entry /\ entry \in [Entries -> EntryRow] /\ request[q] \in Listing
  BY PageTurns DEF ListTimeEntriesPage, TypeInv, TypeOK
<1>1. PICK r \in Listing : r = request[q]
  BY <1>0
<1>2. PICK after \in Listing : after = request'[q]
  BY PageTurns
<1> DEFINE rows == {u \in Listed(r.filter) : AfterCursor(r.cursor, u)}
           page == Page(rows, PageSize)
           more == Cardinality(rows) > PageSize
           last == LastOf(page)
<1>3. /\ ~r.done /\ rows \in SUBSET Entries /\ IsFiniteSet(rows)
      /\ more => rows # {}
      /\ after.filter = r.filter /\ after.there = r.there
      /\ after.done = ~more
      /\ after.cursor = IF more THEN Key(last) ELSE r.cursor
      /\ after.seen[t] = r.seen[t] + IF t \in page THEN 1 ELSE 0
  BY <1>1, <1>2, PageTurns
<1>4. r.seen[t] \in Nat /\ r.cursor \in Cursor \union {None} /\ Knows(r, t)
  BY <1>1 DEF Listing
<1>5. ASSUME more
      PROVE  /\ last \in rows /\ page \subseteq rows
             /\ \A u \in rows : u \in page <=> ~Before(Key(last), Key(u))
  <2>. HIDE DEF rows
  <2>. QED
    BY <1>0, <1>3, <1>5, PageOfRows
<1>6. ASSUME ~more PROVE page = rows
  <2>1. CASE rows = {}
    BY <2>1 DEF Page
  <2>2. CASE rows # {}
    <3>1. Cardinality(rows) <= PageSize
      BY <1>3, <1>6, FS_CardinalityType
    <3>. HIDE DEF rows
    <3>. QED
      BY <1>0, <1>3, <2>2, <3>1, PageOfRows
  <2>. QED
    BY <2>1, <2>2
<1>7. Knows(after, t)' <=> Knows(after, t)
  BY <1>0 DEF Knows, Listed, AfterCursor, Key
<1>8. t \in rows <=> t \in Listed(r.filter) /\ AfterCursor(r.cursor, t)
  OBVIOUS
<1>9. ASSUME more PROVE Knows(after, t)
  <2>1. /\ last \in Entries /\ Key(last) \in Place /\ Key(t) \in Place /\ Key(last) # None
        /\ (r.cursor # None => r.cursor \in Place /\ Before(r.cursor, Key(last)))
    <3>1. last \in Entries /\ AfterCursor(r.cursor, last)
      BY <1>3, <1>5, <1>9
    <3>. HIDE DEF last, rows, page, more
    <3>2. Key(last) \in Place /\ Key(t) \in Place /\ r.cursor \in Place \union {None}
      BY <1>0, <1>4, <3>1, KeysArePlaces
    <3>3. Key(last) # None
      BY <1>0, <3>1, KeysArePlaces DEF Cursor
    <3>. QED
      BY <3>1, <3>2, <3>3 DEF AfterCursor
  <2>2. ~after.done /\ after.cursor = Key(last)
    BY <1>3, <1>9
  <2>3. AfterCursor(after.cursor, t) <=> Before(Key(last), Key(t))
    BY <2>1, <2>2 DEF AfterCursor
  <2>. HIDE DEF rows, page, more, last
  <2>4. CASE t \in page
    <3>1. t \in rows /\ ~Before(Key(last), Key(t))
      BY <1>5, <1>9, <2>4
    <3>2. r.seen[t] = 0
      BY <1>3, <1>4, <1>8, <3>1 DEF Knows
    <3>3. after.seen[t] = 1
      BY <1>3, <2>4, <3>2
    <3>. QED
      BY <1>3, <1>4, <1>8, <2>1, <2>2, <2>3, <3>1, <3>3 DEF Knows
  <2>5. CASE t \notin page
    <3>1. after.seen[t] = r.seen[t]
      BY <1>3, <1>4, <2>5
    <3>2. r.seen[t] = 1 => ~Before(Key(last), Key(t))
      BY <1>3, <1>4, <2>1, BeforeOrders DEF Knows, AfterCursor
    <3>3. t \in r.there /\ r.seen[t] = 0 => Before(Key(last), Key(t))
      BY <1>4, <1>5, <1>8, <1>9, <2>5 DEF Knows
    <3>. QED
      BY <1>3, <1>4, <2>1, <2>2, <2>3, <3>1, <3>2, <3>3 DEF Knows
  <2>. QED
    BY <2>4, <2>5
<1>10. ASSUME ~more PROVE Knows(after, t)
  <2>1. after.done /\ page = rows
    BY <1>3, <1>6, <1>10
  <2>. HIDE DEF rows, page, more, last
  <2>2. t \in rows => r.seen[t] = 0
    BY <1>3, <1>4, <1>8 DEF Knows
  <2>3. t \in r.there /\ r.seen[t] = 0 => t \in rows
    BY <1>4, <1>8 DEF Knows
  <2>. QED
    BY <1>3, <1>4, <2>1, <2>2, <2>3 DEF Knows
<1>11. Knows(after, t)'
  BY <1>7, <1>9, <1>10
<1>. QED
  BY <1>2, <1>11 DEF Knows

LEMMA ListInvStep == TypeInv /\ ListInv /\ [Next]_vars => ListInv'
<1> SUFFICES ASSUME TypeInv, ListInv, [Next]_vars PROVE ListInv'
  OBVIOUS
<1>0. /\ TypeOK /\ entry \in [Entries -> EntryRow] /\ request \in [Requests -> Request]
      /\ \A r \in Requests : request[r] \in Request
      /\ \A r \in Requests : request[r].op = "list" => request[r] \in Listing
  BY RequestShapes DEF TypeInv, TypeOK
\* A request that a step leaves alone goes on knowing the entries that stay.
<1>s. ASSUME NEW r \in Requests, request'[r] = request[r], request[r].op = "list",
             NEW t \in Entries \ request[r].moved,
             entry'[t].columns.date = entry[t].columns.date,
             Present(entry'[t]) <=> Present(entry[t]),
             Matches(entry'[t].columns, request[r].filter)
               <=> Matches(entry[t].columns, request[r].filter)
      PROVE  Knows(request[r], t)'
  <2>1. Knows(request[r], t)
    BY <1>s DEF ListInv
  <2>2. PICK l \in Listing : l = request[r]
    BY <1>0, <1>s
  <2>3. Knows(l, t)'
    BY <1>s, <2>1, <2>2, KnowsStays
  <2>. QED
    BY <1>s, <2>2, <2>3 DEF Knows
<1>1. ASSUME UNCHANGED entry,
             \A r \in Requests : request'[r] = request[r] \/ request'[r].op # "list"
      PROVE  ListInv'
  BY <1>1, <1>s DEF ListInv
<1>2. ASSUME NEW q \in Requests, NEW filter \in Projects \union {None}, BeginListing(q, filter)
      PROVE  ListInv'
  <2>1. /\ UNCHANGED entry
        /\ \A r \in Requests : r # q => request'[r] = request[r]
    BY <1>0, <1>2 DEF BeginListing, Begin
  <2>2. /\ ~request'[q].done /\ request'[q].cursor = None /\ request'[q].filter = filter
        /\ request'[q].there = Listed(filter)
        /\ \A t \in Entries : request'[q].seen[t] = 0
    BY <1>0, <1>2 DEF BeginListing, Begin
  <2>3. \A t \in Entries : t \in request'[q].there =>
          Present(entry'[t]) /\ Matches(entry'[t].columns, request'[q].filter)
    BY <2>1, <2>2 DEF Listed
  <2>4. ASSUME NEW t \in Entries PROVE Knows(request[q], t)'
    <3>1. (t \in request[q].there => t \in Listed(request[q].filter))'
      BY <2>3 DEF Listed
    <3>2. AfterCursor(request[q].cursor, t)'
      BY <2>2 DEF AfterCursor
    <3>3. (request[q].seen[t] = 0 /\ ~request[q].done)'
      BY <2>2
    <3>. QED
      BY ONLY <3>1, <3>2, <3>3 DEF Knows
  <2>. QED
    BY <1>s, <2>1, <2>4 DEF ListInv
<1>3. ASSUME NEW q \in Requests, ListTimeEntriesPage(q) PROVE ListInv'
  <2>1. /\ \A r \in Requests : r # q => request'[r] = request[r]
        /\ request'[q].moved = request[q].moved
    BY <1>3, PageTurns
  <2>2. \A t \in Entries \ request[q].moved : Knows(request[q], t)
    BY <1>3 DEF ListTimeEntriesPage, ListInv
  <2>3. \A t \in Entries \ request'[q].moved : Knows(request[q], t)'
    BY <1>3, <2>1, <2>2, KnowsTurns
  <2>4. UNCHANGED entry
    BY <1>3 DEF ListTimeEntriesPage
  <2>. QED
    BY <1>s, <2>1, <2>3, <2>4 DEF ListInv
<1>4. ASSUME NEW q \in Requests, NEW u \in Entries, InsertTimeEntry(q, u) PROVE ListInv'
  <2>1. \A r \in Requests : request'[r] = request[r] \/ request'[r].op # "list"
    BY <1>0, <1>4, RequestShapes DEF InsertTimeEntry, End
  <2>2. /\ ~Present(entry[u])
        /\ \A t \in Entries : t # u => entry'[t] = entry[t]
    BY <1>0, <1>4 DEF InsertTimeEntry
  <2>3. ASSUME NEW r \in Requests, request'[r].op = "list", NEW t \in Entries \ request'[r].moved
        PROVE  Knows(request[r], t)'
    <3>1. request'[r] = request[r]
      BY <2>1, <2>3
    <3>2. CASE t # u
      BY <1>s, <2>2, <2>3, <3>1, <3>2
    <3>3. CASE t = u
      <4>1. Knows(request[r], t)
        BY <2>3, <3>1 DEF ListInv
      <4>2. t \notin Listed(request[r].filter)
        BY <2>2, <3>3 DEF Listed
      <4>3. /\ request[r].seen[t] <= 1 /\ t \notin request[r].there
            /\ ~(request[r].seen[t] = 1 /\ ~request[r].done)
        BY <4>1, <4>2 DEF Knows
      <4>. QED
        BY <3>1, <4>3 DEF Knows
    <3>. QED
      BY <3>2, <3>3
  <2>. QED
    BY <2>3 DEF ListInv
<1>5. ASSUME NEW u \in Entries, LockEntry(u) PROVE ListInv'
  <2>1. /\ UNCHANGED request
        /\ \A t \in Entries : entry'[t].columns = entry[t].columns
        /\ \A t \in Entries : Present(entry'[t]) <=> Present(entry[t])
    BY <1>0, <1>5 DEF LockEntry, EntryRow, Present
  <2>. QED
    BY <1>s, <2>1 DEF ListInv
<1>6. ASSUME NEW q \in Requests, UpdateTimeEntry(q) PROVE ListInv'
  <2>1. CASE End(q) /\ UNCHANGED entry
    BY <1>0, <1>1, <2>1, BeginAndEnd, RequestShapes
  <2>2. CASE ~(End(q) /\ UNCHANGED entry)
    <3>1. request[q] \in EntryPatch
      BY <1>0, <1>6, RequestShapes DEF UpdateTimeEntry
    <3>2. PICK u \in Entries, columns \in EntryColumns :
            u = request[q].entry /\ columns = Merged(request[q].change, request[q].copy)
      BY <3>1, MergedTypes DEF EntryPatch
    <3>3. /\ entry' = [entry EXCEPT ![u].columns = columns]
          /\ \A r \in Requests :
               request'[r] = IF r = q THEN Idle
                             ELSE IF Moves(u, columns, request[r])
                             THEN [request[r] EXCEPT !.moved = @ \union {u}]
                             ELSE request[r]
      BY <1>6, <2>2, <3>2 DEF UpdateTimeEntry
    <3>4. /\ entry'[u].columns = columns
          /\ \A t \in Entries : t # u => entry'[t] = entry[t]
          /\ \A t \in Entries : Present(entry'[t]) <=> Present(entry[t])
      BY <1>0, <3>3 DEF EntryRow, Present
    <3>5. ASSUME NEW r \in Requests, request'[r].op = "list",
                 NEW t \in Entries \ request'[r].moved
          PROVE  Knows(request[r], t)'
      <4>1. r # q
        BY <3>3, <3>5, RequestShapes
      <4>2. CASE ~Moves(u, columns, request[r])
        <5>1. request'[r] = request[r]
          BY <3>3, <4>1, <4>2
        <5>. QED
          BY <1>s, <3>4, <3>5, <4>2, <5>1 DEF Moves
      <4>3. CASE Moves(u, columns, request[r])
        <5>1. PICK l \in Listing : l = request[r]
          BY <4>3, <3>2, MovingEntries
        <5>2. request'[r] = [l EXCEPT !.moved = @ \union {u}]
          BY <3>3, <4>1, <4>3, <5>1
        <5>3. /\ request'[r].seen = l.seen /\ request'[r].done = l.done
              /\ request'[r].cursor = l.cursor /\ request'[r].filter = l.filter
              /\ request'[r].there = l.there /\ request'[r].moved = l.moved \union {u}
          BY <5>2 DEF Listing
        <5>4. Knows(l, t) /\ t # u
          BY <3>5, <4>3, <5>1, <5>3 DEF ListInv, Moves
        <5>5. Knows(l, t)'
          BY <3>4, <5>4, KnowsStays
        <5>. QED
          BY <5>3, <5>5 DEF Knows
      <4>. QED
        BY <4>2, <4>3
    <3>. QED
      BY <3>5 DEF ListInv
  <2>. QED
    BY <2>1, <2>2
<1>e. ASSUME NEW q \in Requests, End(q), NEW r \in Requests
      PROVE  request'[r] = request[r] \/ request'[r].op # "list"
  BY <1>0, <1>e, RequestShapes DEF End
<1>7. ASSUME NEW q \in Requests,
             \/ \E c \in Clients, change \in ClientChange : LoadClient(q, c, change)
             \/ \E c \in Clients, name \in Names : FindClient(q, c, name)
             \/ \E p \in Projects, change \in ProjectChange : LoadProject(q, p, change)
             \/ \E columns \in EntryColumns : ValidateNewEntry(q, columns)
             \/ \E t \in Entries, change \in EntryChange : LoadEntry(q, t, change)
      PROVE  ListInv'
  <2>1. UNCHANGED entry
    BY <1>7 DEF LoadClient, FindClient, LoadProject, ValidateNewEntry, LoadEntry
  <2>2. ASSUME NEW c \in Clients, NEW change \in ClientChange, LoadClient(q, c, change)
        PROVE  request'[q].op # "list"
    BY <1>0, <2>2 DEF LoadClient, Begin
  <2>3. ASSUME NEW c \in Clients, NEW name \in Names, FindClient(q, c, name)
        PROVE  request'[q].op # "list"
    BY <1>0, <2>3 DEF FindClient, Begin
  <2>4. ASSUME NEW p \in Projects, NEW change \in ProjectChange, LoadProject(q, p, change)
        PROVE  request'[q].op # "list"
    BY <1>0, <2>4 DEF LoadProject, Begin
  <2>5. ASSUME NEW columns \in EntryColumns, ValidateNewEntry(q, columns)
        PROVE  request'[q].op # "list"
    BY <1>0, <2>5 DEF ValidateNewEntry, Begin
  <2>6. ASSUME NEW t \in Entries, NEW change \in EntryChange, LoadEntry(q, t, change)
        PROVE  request'[q].op # "list"
    BY <1>0, <2>6 DEF LoadEntry, Begin
  <2>7. \A r \in Requests : r # q => request'[r] = request[r]
    BY <1>0, <1>7 DEF LoadClient, FindClient, LoadProject, ValidateNewEntry, LoadEntry, Begin
  <2>. QED
    BY <1>1, <1>7, <2>1, <2>2, <2>3, <2>4, <2>5, <2>6, <2>7
<1>8. ASSUME NEW q \in Requests, ValidateNewProject(q) PROVE ListInv'
  <2>1. request[q] \in EntryPatch
    BY <1>0, <1>8, RequestShapes DEF ValidateNewProject
  <2>2. [request[q] EXCEPT !.ready = TRUE].op # "list"
    BY <2>1 DEF EntryPatch
  <2>3. \A r \in Requests : request'[r] = request[r] \/ request'[r].op # "list"
    BY <1>0, <1>8, <2>2, RequestShapes DEF ValidateNewProject
  <2>. QED
    BY <1>1, <1>8, <2>3 DEF ValidateNewProject
<1>9. ASSUME NEW q \in Requests,
             \/ UpdateClient(q) \/ \E p \in Projects : InsertProject(q, p)
             \/ UpdateProject(q) \/ Abandon(q)
      PROVE  ListInv'
  <2>1. End(q) /\ UNCHANGED entry
    BY <1>9 DEF UpdateClient, InsertProject, UpdateProject, Abandon
  <2>. QED
    BY <1>1, <1>e, <2>1
<1>10. ASSUME \/ \E c \in Clients, columns \in ClientColumns : CreateClient(c, columns)
              \/ \E c \in Clients : SoftDeleteClient(c)
              \/ UNCHANGED vars
       PROVE  ListInv'
  BY <1>1, <1>10 DEF CreateClient, SoftDeleteClient, vars
<1>. QED
  BY <1>2, <1>3, <1>4, <1>5, <1>6, <1>7, <1>8, <1>9, <1>10 DEF Next

LEMMA InitListInv == Init => ListInv
  BY DEF Init, ListInv, Idle

\* A listing that was read to its end has returned every entry that stayed
\* where it was exactly once, with pages of any size and whatever was created
\* or moved while it was read.
THEOREM CompleteListings == Spec => []ListingsAreComplete
<1>1. TypeInv /\ ListInv => ListingsAreComplete
  <2> SUFFICES ASSUME TypeInv, ListInv, NEW q \in Requests, request[q].op = "list",
                      NEW t \in Entries \ request[q].moved
               PROVE  /\ request[q].seen[t] <= 1
                      /\ request[q].done /\ t \in request[q].there => request[q].seen[t] = 1
    BY DEF ListingsAreComplete
  <2>1. request[q] \in Listing /\ Knows(request[q], t)
    BY RequestShapes DEF TypeInv, TypeOK, ListInv
  <2>2. request[q].seen[t] \in Nat
    BY <2>1 DEF Listing
  <2>. QED
    BY <2>1, <2>2 DEF Knows
<1>. QED
  BY <1>1, InitTypeInv, TypeInvStep, InitListInv, ListInvStep, PTL DEF Spec
=============================================================================
