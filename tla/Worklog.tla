------------------------------ MODULE Worklog ------------------------------
(***************************************************************************)
(* Clients, their projects, and the time entries of one organization, as   *)
(* the requests that create, change and list them interleave.              *)
(*                                                                         *)
(* No request here is a transaction.  What a new row refers to is looked   *)
(* at in one statement and the row inserted in another; a PATCH reads a    *)
(* row in one statement and writes all of its columns in another; a list   *)
(* of entries is read page by page, each page a request of its own.        *)
(*                                                                         *)
(* Of a client the name is kept, of a project the name and whether it is   *)
(* archived, of a time entry the columns that other rows and the listing   *)
(* depend on, its date and project.  A PATCH that changes none of them     *)
(* changes a column that is left out.                                      *)
(* The approval of entries is in TimeBilling; here it only locks them.     *)
(***************************************************************************)
EXTENDS Integers, FiniteSets

CONSTANTS
  Clients, Projects,
  Entries,        \* ids of time entries: naturals, since listings order them
  Requests,       \* requests in flight at once
  Names, Dates,
  None,
  PageSize,       \* the limit of a listing
  MaxRequests     \* bound: requests of several statements

ASSUME WorklogAssumption ==
  /\ Entries \subseteq Nat /\ IsFiniteSet(Entries) /\ Dates \subseteq Nat
  /\ Entries \intersect Projects = {} /\ Entries \intersect Clients = {}
  /\ Projects \intersect Clients = {}
  /\ PageSize \in Nat \ {0} /\ MaxRequests \in Nat
  /\ None \notin Clients \union Projects \union Names \union Nat \union BOOLEAN
  /\ None \notin [date : Dates, id : Entries]

VARIABLES
  client,       \* clients
  project,      \* projects
  entry,        \* time_entries
  request,      \* requests, between two statements
  begun,        \* how many of them there were
  asked,        \* history: a row as the PATCHes, one at a time, would leave it
  overlapped    \* history: rows that two PATCHes had read at a time

vars == <<client, project, entry, request, begun, asked, overlapped>>

ClientColumns == [name : Names]
ClientRow == [status : {"absent", "active", "deleted"}, columns : ClientColumns]
ProjectColumns == [name : Names, archived : BOOLEAN]
ProjectRow == [client : Clients \union {None}, columns : ProjectColumns]
EntryColumns == [date : Dates, project : Projects]
EntryRow == [status : {"absent", "open", "locked"}, columns : EntryColumns]

ClientChange == [name : Names \union {None}]
ProjectChange == [name : Names \union {None}, archived : BOOLEAN \union {None}]
EntryChange == [date : Dates \union {None}, project : Projects \union {None}]
Cursor == [date : Dates, id : Entries]

Idle == [op |-> "none"]
Request ==
  {Idle}
    \union [op : {"create project"}, client : Clients, name : Names]
    \union [op : {"patch client"}, client : Clients, change : ClientChange, copy : ClientColumns]
    \union [op : {"patch project"}, project : Projects, change : ProjectChange,
            copy : ProjectColumns]
    \union [op : {"create entry"}, columns : EntryColumns]
    \union [op : {"patch entry"}, ready : BOOLEAN, entry : Entries, change : EntryChange,
            copy : EntryColumns]
    \union [op : {"list"}, done : BOOLEAN, filter : Projects \union {None},
            cursor : Cursor \union {None}, seen : [Entries -> Nat],
            there : SUBSET Entries, moved : SUBSET Entries]

Exists(row) == row.client # None
Present(row) == row.status # "absent"

\* Every row keeps to its columns and refers to rows that are there.
TypeOK ==
  /\ client \in [Clients -> ClientRow]
  /\ project \in [Projects -> ProjectRow]
  /\ entry \in [Entries -> EntryRow]
  /\ request \in [Requests -> Request]
  /\ begun \in 0..MaxRequests
  /\ asked \in [Entries \union Projects \union Clients ->
               EntryColumns \union ProjectColumns \union ClientColumns]
  /\ overlapped \in SUBSET (Entries \union Projects \union Clients)
  /\ \A p \in Projects : Exists(project[p]) => Present(client[project[p].client])
  /\ \A t \in Entries : Present(entry[t]) => Exists(project[entry[t].columns.project])

\* Rows that earlier requests left behind, and no request on its way.
Init ==
  /\ client \in [Clients -> ClientRow]
  /\ project \in [Projects -> ProjectRow]
  /\ entry \in [Entries -> EntryRow]
  /\ request = [q \in Requests |-> Idle]
  /\ begun = 0
  /\ asked = [r \in Entries \union Projects \union Clients |->
                IF r \in Entries THEN entry[r].columns
                ELSE IF r \in Projects THEN project[r].columns
                ELSE client[r].columns]
  /\ overlapped = {}
  /\ \A p \in Projects : Exists(project[p]) => Present(client[project[p].client])
  /\ \A t \in Entries : Present(entry[t]) => Exists(project[entry[t].columns.project])
-----------------------------------------------------------------------------
Begin(q, r) ==
  /\ request[q] = Idle
  /\ begun < MaxRequests
  /\ begun' = begun + 1
  /\ request' = [request EXCEPT ![q] = r]

End(q) == request' = [request EXCEPT ![q] = Idle]

\* Mutant: columns that are left alone are not filled in.
MergedAsIs(change, copy) == change

\* The columns a PATCH leaves alone come from the row as it was read.
Merged(change, copy) ==
  [k \in DOMAIN copy |-> IF change[k] = None THEN copy[k] ELSE change[k]]

\* Two PATCHes of one row, each between its read and its write.
Overlaps(op, field, row) ==
  \E q \in Requests : request[q].op = op /\ request[q][field] = row

\* The request is cut off between two statements.
Abandon(q) ==
  /\ request[q] # Idle
  /\ End(q)
  /\ UNCHANGED <<client, project, entry, begun, asked, overlapped>>
-----------------------------------------------------------------------------
(***************************************************************************)
(* Clients.                                                                *)
(***************************************************************************)

CreateClient(c, columns) ==
  /\ client[c].status = "absent"
  /\ client' = [client EXCEPT ![c] = [status |-> "active", columns |-> columns]]
  /\ asked' = [asked EXCEPT ![c] = columns]
  /\ UNCHANGED <<project, entry, request, begun, overlapped>>

\* SoftDeleteClient: one statement, and its projects are not asked.
SoftDeleteClient(c) ==
  /\ client[c].status = "active"
  /\ client' = [client EXCEPT ![c].status = "deleted"]
  /\ UNCHANGED <<project, entry, request, begun, asked, overlapped>>

\* UpdateClient, its first statement (GetClient).
LoadClient(q, c, change) ==
  /\ client[c].status = "active"
  /\ Begin(q, [op |-> "patch client", client |-> c, change |-> change,
               copy |-> client[c].columns])
  /\ overlapped' = IF Overlaps("patch client", "client", c)
                   THEN overlapped \union {c} ELSE overlapped
  /\ UNCHANGED <<client, project, entry, asked>>

\* Mutant: UPDATE without AND deleted_at IS NULL.
UpdateAnyClient(q) ==
  /\ request[q].op = "patch client"
  /\ LET c == request[q].client
         change == request[q].change
     IN
       /\ client' = [client EXCEPT ![c].columns = Merged(change, request[q].copy)]
       /\ asked' = [asked EXCEPT ![c] = Merged(change, @)]
  /\ End(q)
  /\ UNCHANGED <<project, entry, begun, overlapped>>

\* UpdateClient, its second statement: a client that was deleted in between
\* is left alone.
UpdateClient(q) ==
  /\ request[q].op = "patch client"
  /\ LET c == request[q].client
         change == request[q].change
     IN IF client[c].status = "active"
        THEN /\ client' = [client EXCEPT ![c].columns = Merged(change, request[q].copy)]
             /\ asked' = [asked EXCEPT ![c] = Merged(change, @)]
        ELSE UNCHANGED <<client, asked>>
  /\ End(q)
  /\ UNCHANGED <<project, entry, begun, overlapped>>
-----------------------------------------------------------------------------
(***************************************************************************)
(* Projects.                                                               *)
(***************************************************************************)

\* CreateProject, its first statement: the client is there and not deleted.
FindClient(q, c, name) ==
  /\ client[c].status = "active"
  /\ Begin(q, [op |-> "create project", client |-> c, name |-> name])
  /\ UNCHANGED <<client, project, entry, asked, overlapped>>

\* CreateProject, its second statement: the schema asks for a client's row,
\* which a deleted client still has.
InsertProject(q, p) ==
  /\ request[q].op = "create project"
  /\ ~Exists(project[p])
  /\ LET columns == [name |-> request[q].name, archived |-> FALSE] IN
       /\ project' = [project EXCEPT ![p] = [client |-> request[q].client, columns |-> columns]]
       /\ asked' = [asked EXCEPT ![p] = columns]
  /\ End(q)
  /\ UNCHANGED <<client, entry, begun, overlapped>>

\* UpdateProject, its first statement (GetProject).
LoadProject(q, p, change) ==
  /\ Exists(project[p])
  /\ Begin(q, [op |-> "patch project", project |-> p, change |-> change,
               copy |-> project[p].columns])
  /\ overlapped' = IF Overlaps("patch project", "project", p)
                   THEN overlapped \union {p} ELSE overlapped
  /\ UNCHANGED <<client, project, entry, asked>>

\* Mutant: a project that is not asked to be archived is not.
UpdateUnarchives(q) ==
  /\ request[q].op = "patch project"
  /\ LET p == request[q].project
         change == request[q].change
         columns == [Merged(change, request[q].copy) EXCEPT !.archived = change.archived = TRUE]
     IN
       /\ project' = [project EXCEPT ![p].columns = columns]
       /\ asked' = [asked EXCEPT ![p] = Merged(change, @)]
  /\ End(q)
  /\ UNCHANGED <<client, entry, begun, overlapped>>

\* UpdateProject, its second statement.
UpdateProject(q) ==
  /\ request[q].op = "patch project"
  /\ LET p == request[q].project
         change == request[q].change
     IN
       /\ project' = [project EXCEPT ![p].columns = Merged(change, request[q].copy)]
       /\ asked' = [asked EXCEPT ![p] = Merged(change, @)]
  /\ End(q)
  /\ UNCHANGED <<client, entry, begun, overlapped>>
-----------------------------------------------------------------------------
(***************************************************************************)
(* Time entries.                                                           *)
(***************************************************************************)

\* Mutant: archived projects are valid.
ValidAnyProject(p) == Exists(project[p])

\* ValidateProjectForTimeEntry.
ValidProject(p) == Exists(project[p]) /\ ~project[p].columns.archived

\* CreateTimeEntry, its first statement.
ValidateNewEntry(q, columns) ==
  /\ ValidProject(columns.project)
  /\ Begin(q, [op |-> "create entry", columns |-> columns])
  /\ UNCHANGED <<client, project, entry, asked, overlapped>>

\* CreateTimeEntry, its second statement.
InsertTimeEntry(q, t) ==
  /\ request[q].op = "create entry"
  /\ ~Present(entry[t])
  /\ entry' = [entry EXCEPT ![t] = [status |-> "open", columns |-> request[q].columns]]
  /\ asked' = [asked EXCEPT ![t] = request[q].columns]
  /\ End(q)
  /\ UNCHANGED <<client, project, begun, overlapped>>

\* UpdateTimeEntry, its first statement (GetTimeEntry): an approved entry is
\* refused.  A request that changes neither date nor project changes minutes,
\* rate or notes.
LoadEntry(q, t, change) ==
  /\ entry[t].status = "open"
  /\ Begin(q, [op |-> "patch entry", ready |-> change.project = None, entry |-> t,
               change |-> change, copy |-> entry[t].columns])
  /\ overlapped' = IF Overlaps("patch entry", "entry", t)
                   THEN overlapped \union {t} ELSE overlapped
  /\ UNCHANGED <<client, project, entry, asked>>

\* UpdateTimeEntry, its second statement, if the entry is to go to a project.
ValidateNewProject(q) ==
  /\ request[q].op = "patch entry" /\ ~request[q].ready
  /\ request' = [request EXCEPT ![q] =
                   IF ValidProject(request[q].change.project)
                   THEN [request[q] EXCEPT !.ready = TRUE] ELSE Idle]
  /\ UNCHANGED <<client, project, entry, begun, asked, overlapped>>

Matches(columns, filter) == filter = None \/ columns.project = filter

\* For a listing on its way, an entry has moved when its date or its being
\* listed at all is not what it was.
Moves(t, columns, r) ==
  /\ r.op = "list"
  /\ \/ entry[t].columns.date # columns.date
     \/ Matches(entry[t].columns, r.filter) # Matches(columns, r.filter)

\* UpdateTimeEntry, its last statement: all columns, if the entry is still
\* open.
UpdateTimeEntry(q) ==
  /\ request[q].op = "patch entry" /\ request[q].ready
  /\ LET t == request[q].entry
         columns == Merged(request[q].change, request[q].copy)
     IN IF entry[t].status = "open"
        THEN /\ entry' = [entry EXCEPT ![t].columns = columns]
             /\ asked' = [asked EXCEPT ![t] = Merged(request[q].change, @)]
             /\ request' = [r \in Requests |->
                  IF r = q THEN Idle
                  ELSE IF Moves(t, columns, request[r])
                  THEN [request[r] EXCEPT !.moved = @ \union {t}]
                  ELSE request[r]]
        ELSE /\ End(q)
             /\ UNCHANGED <<entry, asked>>
  /\ UNCHANGED <<client, project, begun, overlapped>>

\* The approval of a submitted entry.
LockEntry(t) ==
  /\ entry[t].status = "open"
  /\ entry' = [entry EXCEPT ![t].status = "locked"]
  /\ UNCHANGED <<client, project, request, begun, asked, overlapped>>
-----------------------------------------------------------------------------
(***************************************************************************)
(* The listing of time entries.                                            *)
(***************************************************************************)

Listed(filter) == {t \in Entries : Present(entry[t]) /\ Matches(entry[t].columns, filter)}

BeginListing(q, filter) ==
  /\ Begin(q, [op |-> "list", done |-> FALSE, filter |-> filter, cursor |-> None,
               seen |-> [t \in Entries |-> 0], there |-> Listed(filter), moved |-> {}])
  /\ UNCHANGED <<client, project, entry, asked, overlapped>>

\* ORDER BY work_date ASC, id ASC.
Key(t) == [date |-> entry[t].columns.date, id |-> t]
Before(k, l) == k.date < l.date \/ (k.date = l.date /\ k.id < l.id)

\* Mutant: the rows of the cursor's date have been seen.
AfterDate(cursor, t) == cursor = None \/ cursor.date < Key(t).date

AfterCursor(cursor, t) == cursor = None \/ Before(cursor, Key(t))

\* The first n of some rows, and the last of them.
Page(rows, n) == {t \in rows : Cardinality({u \in rows : Before(Key(u), Key(t))}) < n}
LastOf(rows) == CHOOSE t \in rows : \A u \in rows : u = t \/ Before(Key(u), Key(t))

\* ListTimeEntriesPage: one row more than the limit is read to learn whether
\* there is another page, which starts behind the last row of this one.
ListTimeEntriesPage(q) ==
  /\ request[q].op = "list" /\ ~request[q].done
  /\ LET rows == {t \in Listed(request[q].filter) : AfterCursor(request[q].cursor, t)}
         page == Page(rows, PageSize)
         more == Cardinality(rows) > PageSize
     IN
       request' = [request EXCEPT ![q] =
         [request[q] EXCEPT !.seen = [t \in Entries |-> @[t] + IF t \in page THEN 1 ELSE 0],
                            !.done = ~more,
                            !.cursor = IF more THEN Key(LastOf(page)) ELSE @]]
  /\ UNCHANGED <<client, project, entry, begun, asked, overlapped>>
-----------------------------------------------------------------------------
Next ==
  \/ \E c \in Clients :
       \/ \E columns \in ClientColumns : CreateClient(c, columns)
       \/ SoftDeleteClient(c)
       \/ \E q \in Requests, change \in ClientChange : LoadClient(q, c, change)
       \/ \E q \in Requests, name \in Names : FindClient(q, c, name)
  \/ \E q \in Requests :
       \/ UpdateClient(q)
       \/ \E p \in Projects : InsertProject(q, p)
       \/ \E p \in Projects, change \in ProjectChange : LoadProject(q, p, change)
       \/ UpdateProject(q)
       \/ \E columns \in EntryColumns : ValidateNewEntry(q, columns)
       \/ \E t \in Entries : InsertTimeEntry(q, t)
       \/ \E t \in Entries, change \in EntryChange : LoadEntry(q, t, change)
       \/ ValidateNewProject(q)
       \/ UpdateTimeEntry(q)
       \/ \E filter \in Projects \union {None} : BeginListing(q, filter)
       \/ ListTimeEntriesPage(q)
       \/ Abandon(q)
  \/ \E t \in Entries : LockEntry(t)

Spec == Init /\ [][Next]_vars
-----------------------------------------------------------------------------
(***************************************************************************)
(* Properties.                                                             *)
(***************************************************************************)

ProjectsOf(c) == {p \in Projects : project[p].client = c}
Founding(c) == \E q \in Requests : request[q].op = "create project" /\ request[q].client = c

\* A deleted client rests: a PATCH that had read it changes nothing any more,
\* and once the creations of projects that had found it are over, it is given
\* no more projects.
DeletedClientsRest ==
  [][\A c \in Clients : client[c].status = "deleted" =>
       /\ client'[c] = client[c]
       /\ ~Founding(c) => ProjectsOf(c)' = ProjectsOf(c) /\ ~Founding(c)']_vars

EntriesOf(p) == {t \in Entries : Present(entry[t]) /\ entry[t].columns.project = p}
Expecting(p) ==
  \E q \in Requests :
    \/ request[q].op = "create entry" /\ request[q].columns.project = p
    \/ request[q].op = "patch entry" /\ request[q].ready /\ request[q].change.project = p

\* "Archived project cannot receive new time entries" (backlog.v1.json), as
\* far as it is true: once the requests that had found it open are over, it
\* receives none, neither new ones nor from other projects, except that one of
\* two overlapping PATCHes may put an entry back.
ArchivedProjectsRest ==
  [][\A p \in Projects :
       Exists(project[p]) /\ project[p].columns.archived /\ ~Expecting(p) =>
         /\ ~Expecting(p)'
         /\ EntriesOf(p)' \subseteq EntriesOf(p) \union overlapped]_vars

\* A PATCH changes what it was asked to and nothing else: whichever requests
\* came before, a client, a project or an entry is as they asked for, unless
\* two PATCHes of it overlapped.
PatchesAddUp ==
  /\ \A c \in Clients \ overlapped : client[c].columns = asked[c]
  /\ \A t \in Entries \ overlapped : entry[t].columns = asked[t]
  /\ \A p \in Projects \ overlapped : project[p].columns = asked[p]

\* "Pagination stable" (backlog.v1.json): a listing that was read to its end
\* has returned every entry that stayed where it was exactly once, whatever
\* was created or moved while it was read.
ListingsAreComplete ==
  \A q \in Requests : request[q].op = "list" =>
    \A t \in Entries \ request[q].moved :
      /\ request[q].seen[t] <= 1
      /\ request[q].done /\ t \in request[q].there => request[q].seen[t] = 1
=============================================================================
