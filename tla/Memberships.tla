---------------------------- MODULE Memberships ----------------------------
(***************************************************************************)
(* Who belongs to an organization: members are added, given another role   *)
(* and removed, and the organization is deactivated.                       *)
(*                                                                         *)
(* Every request is let in by requireTenantAuth and requireRole, which     *)
(* read the caller's role once; the handler runs later.  The transactions  *)
(* are READ COMMITTED and lock nothing they read: what a statement decides *)
(* on may have changed when the next one runs.  An UPDATE or DELETE waits  *)
(* for a row that an open transaction has written.                         *)
(***************************************************************************)
EXTENDS Integers, FiniteSets

CONSTANTS
  Users,
  Members,     \* ids of membership rows, each used once; bounds the additions
  OtherRoles,  \* accountant and contractor, which nothing here tells apart
  Additions,   \* POST /v1/memberships requests
  Changes,     \* PATCH and DELETE /v1/memberships/{id} requests
  Closings,    \* POST /v1/organizations/{id}/deactivate requests
  None

Requests == Additions \union Changes \union Closings
Roles == {"owner"} \union OtherRoles

ASSUME MembershipAssumption ==
  /\ IsFiniteSet(Members) /\ Members # {}
  /\ Users # {}
  /\ Additions \intersect Changes = {}
  /\ Additions \intersect Closings = {}
  /\ Changes \intersect Closings = {}
  /\ None \notin Users \union Members \union Roles

VARIABLES
  member,        \* memberships
  deactivated,   \* organizations.deactivated_at IS NOT NULL
  removals,      \* audit_logs: the "membership.removed" records of a membership
  request,       \* requests being served
  overlap        \* history: two changes were in their transactions at once

vars == <<member, deactivated, removals, request, overlap>>

MemberRow ==
  [status : {"unborn", "active", "suspended", "deleted"},
   role : Roles \union {None}, user : Users \union {None}]

\* "target" is the membership of a change; "to" its new role, or the role of
\* a new member (None: DELETE); "rows" what a closing has written so far.
Request ==
  [pc : {"idle", "authorised", "read", "cleared", "removed", "open", "suspending"},
   user : Users \union {None}, target : Members \union {None},
   to : Roles \union {None}, rows : SUBSET Members]

Live(m) == member[m].status \in {"active", "suspended"}
ActiveOwner(m) == member[m].status = "active" /\ member[m].role = "owner"

\* Every row keeps to its columns, and no user has two memberships.
TypeOK ==
  /\ member \in [Members -> MemberRow]
  /\ deactivated \in BOOLEAN
  /\ removals \in [Members -> Nat]
  /\ request \in [Requests -> Request]
  /\ overlap \in BOOLEAN
  /\ \A m, n \in Members :
       Live(m) /\ Live(n) /\ member[m].user = member[n].user => m = n

Idle == [pc |-> "idle", user |-> None, target |-> None, to |-> None, rows |-> {}]
Unborn == [status |-> "unborn", role |-> None, user |-> None]
NewMember(user, role) == [status |-> "active", role |-> role, user |-> user]

\* RegisterUserAndOrganization: a new organization has its founder for owner.
Init ==
  /\ \E founder \in Members, u \in Users :
       member = [m \in Members |-> IF m = founder THEN NewMember(u, "owner") ELSE Unborn]
  /\ deactivated = FALSE
  /\ removals = [m \in Members |-> 0]
  /\ request = [q \in Requests |-> Idle]
  /\ overlap = FALSE

\* Mutant: a suspended owner is let in.
OwnerOfAnyStatus == \E m \in Members : Live(m) /\ member[m].role = "owner"

\* requireTenantAuth and requireRole: memberships are written and
\* organizations deactivated by active owners only.
SomeOwnerAsks == \E m \in Members : ActiveOwner(m)

\* An open transaction has written the row.
RowLocked(m) == \E q \in Closings : m \in request[q].rows
-----------------------------------------------------------------------------
(***************************************************************************)
(* POST /v1/memberships.                                                   *)
(***************************************************************************)

BeginAddition(q, u, role) ==
  /\ request[q].pc = "idle"
  /\ SomeOwnerAsks
  /\ request' = [request EXCEPT ![q].pc = "authorised", ![q].user = u, ![q].to = role]
  /\ UNCHANGED <<member, deactivated, removals, overlap>>

\* Mutant: the table lets a user join twice.
CreateAnyMembership(q) ==
  /\ request[q].pc = "authorised"
  /\ \E m \in Members :
       /\ member[m].status = "unborn"
       /\ member' = [member EXCEPT ![m] = NewMember(request[q].user, request[q].to)]
  /\ request' = [request EXCEPT ![q] = Idle]
  /\ UNCHANGED <<deactivated, removals, overlap>>

\* CreateActiveMembership: the insertion fails on UNIQUE (user_id,
\* organization_id) if the user is a member.  The handler's own look for a
\* membership refuses nothing more, and nothing asks whether the
\* organization is deactivated.
CreateActiveMembership(q) ==
  /\ request[q].pc = "authorised"
  /\ \/ /\ \E m \in Members : Live(m) /\ member[m].user = request[q].user
        /\ UNCHANGED member
     \/ /\ ~ \E m \in Members : Live(m) /\ member[m].user = request[q].user
        /\ \E m \in Members :
             /\ member[m].status = "unborn"
             /\ member' = [member EXCEPT ![m] = NewMember(request[q].user, request[q].to)]
  /\ request' = [request EXCEPT ![q] = Idle]
  /\ UNCHANGED <<deactivated, removals, overlap>>
-----------------------------------------------------------------------------
(***************************************************************************)
(* PATCH and DELETE /v1/memberships/{id}.                                  *)
(***************************************************************************)

\* The handler lets the request in and finds the membership.
BeginChange(q, m, to) ==
  /\ request[q].pc = "idle"
  /\ SomeOwnerAsks
  /\ Live(m)
  /\ request' = [request EXCEPT ![q].pc = "authorised", ![q].target = m, ![q].to = to]
  /\ UNCHANGED <<member, deactivated, removals, overlap>>

InTransaction(q) == request[q].pc \in {"read", "cleared"}

\* Does the change take an owner away?  A demotion does not ask whether the
\* owner is active.
Protected(m, to) ==
  /\ member[m].role = "owner"
  /\ IF to = None THEN member[m].status = "active" ELSE to # "owner"

\* getMembershipInOrganizationTx, the transaction's first statement.
ReadMembership(q) ==
  /\ request[q].pc = "authorised"
  /\ LET m == request[q].target IN
       \/ /\ ~Live(m)
          /\ request' = [request EXCEPT ![q] = Idle]
       \/ /\ Live(m)
          /\ request' = [request EXCEPT ![q].pc =
               IF Protected(m, request[q].to) THEN "read" ELSE "cleared"]
  /\ overlap' = (overlap \/ \E p \in Changes \ {q} : InTransaction(p))
  /\ UNCHANGED <<member, deactivated, removals>>

\* Mutant: one owner is enough for one of them to leave.
CountTooFew(q) ==
  /\ request[q].pc = "read"
  /\ request' = IF Cardinality({m \in Members : ActiveOwner(m)}) < 1
                THEN [request EXCEPT ![q] = Idle]
                ELSE [request EXCEPT ![q].pc = "cleared"]
  /\ UNCHANGED <<member, deactivated, removals, overlap>>

\* countActiveOwnersInOrganizationTx: ErrLastOwnerProtected ends the request.
CountActiveOwners(q) ==
  /\ request[q].pc = "read"
  /\ request' = IF Cardinality({m \in Members : ActiveOwner(m)}) <= 1
                THEN [request EXCEPT ![q] = Idle]
                ELSE [request EXCEPT ![q].pc = "cleared"]
  /\ UNCHANGED <<member, deactivated, removals, overlap>>

\* UpdateMembershipRole, its UPDATE and commit.  No row is no error.
UpdateMembershipRole(q) ==
  LET m == request[q].target IN
  /\ request[q].pc = "cleared"
  /\ request[q].to # None
  /\ ~RowLocked(m)
  /\ member' = IF Live(m) THEN [member EXCEPT ![m].role = request[q].to] ELSE member
  /\ request' = [request EXCEPT ![q] = Idle]
  /\ UNCHANGED <<deactivated, removals, overlap>>

\* Mutant: DELETE does not look at the rows it affected.
DeleteUnseen(q) ==
  LET m == request[q].target IN
  /\ request[q].pc = "cleared"
  /\ request[q].to = None
  /\ ~RowLocked(m)
  /\ member' = [member EXCEPT ![m].status = "deleted"]
  /\ request' = [request EXCEPT ![q].pc = "removed"]
  /\ UNCHANGED <<deactivated, removals, overlap>>

\* DeleteMembership, its DELETE and commit; no row is an error.
DeleteMembership(q) ==
  LET m == request[q].target IN
  /\ request[q].pc = "cleared"
  /\ request[q].to = None
  /\ ~RowLocked(m)
  /\ member' = IF Live(m) THEN [member EXCEPT ![m].status = "deleted"] ELSE member
  /\ request' = IF Live(m) THEN [request EXCEPT ![q].pc = "removed"]
                           ELSE [request EXCEPT ![q] = Idle]
  /\ UNCHANGED <<deactivated, removals, overlap>>

\* logAudit, after the commit and outside of its transaction.
LogRemoval(q) ==
  /\ request[q].pc = "removed"
  /\ removals' = [removals EXCEPT ![request[q].target] = @ + 1]
  /\ request' = [request EXCEPT ![q] = Idle]
  /\ UNCHANGED <<member, deactivated, overlap>>
-----------------------------------------------------------------------------
(***************************************************************************)
(* POST /v1/organizations/{id}/deactivate.                                 *)
(***************************************************************************)

BeginClosing(q) ==
  /\ request[q].pc = "idle"
  /\ SomeOwnerAsks
  /\ request' = [request EXCEPT ![q].pc = "authorised"]
  /\ UNCHANGED <<member, deactivated, removals, overlap>>

\* DeactivateOrganization: a deactivated organization is left as it is.
ReadOrganization(q) ==
  /\ request[q].pc = "authorised"
  /\ request' = IF deactivated THEN [request EXCEPT ![q] = Idle]
                               ELSE [request EXCEPT ![q].pc = "open"]
  /\ UNCHANGED <<member, deactivated, removals, overlap>>

\* Its two updates.  The first waits for the organization's row; the second
\* finds the memberships that are active when it starts.
SuspendMembers(q) ==
  /\ request[q].pc = "open"
  /\ \A p \in Closings : request[p].pc # "suspending"
  /\ request' = [request EXCEPT ![q].pc = "suspending",
                   ![q].rows = {m \in Members : member[m].status = "active"}]
  /\ UNCHANGED <<member, deactivated, removals, overlap>>

\* Its commit.
CommitDeactivation(q) ==
  /\ request[q].pc = "suspending"
  /\ deactivated' = TRUE
  /\ member' = [m \in Members |->
       IF m \in request[q].rows THEN [member[m] EXCEPT !.status = "suspended"]
                                ELSE member[m]]
  /\ request' = [request EXCEPT ![q] = Idle]
  /\ UNCHANGED <<removals, overlap>>
-----------------------------------------------------------------------------
\* A request ends between its statements: cancelled, or the process died.
Abandon(q) ==
  /\ request[q].pc # "idle"
  /\ request' = [request EXCEPT ![q] = Idle]
  /\ UNCHANGED <<member, deactivated, removals, overlap>>

Next ==
  \/ \E q \in Additions :
       \/ \E u \in Users, role \in Roles : BeginAddition(q, u, role)
       \/ CreateActiveMembership(q)
  \/ \E q \in Changes :
       \/ \E m \in Members, to \in Roles \union {None} : BeginChange(q, m, to)
       \/ ReadMembership(q)
       \/ CountActiveOwners(q)
       \/ UpdateMembershipRole(q)
       \/ DeleteMembership(q)
       \/ LogRemoval(q)
  \/ \E q \in Closings :
       \/ BeginClosing(q)
       \/ ReadOrganization(q)
       \/ SuspendMembers(q)
       \/ CommitDeactivation(q)
  \/ \E q \in Requests : Abandon(q)

Spec == Init /\ [][Next]_vars
-----------------------------------------------------------------------------
(***************************************************************************)
(* Properties.                                                             *)
(***************************************************************************)

\* "Prevent deletion or demotion of last remaining owner" (backlog.v1.json):
\* until it is deactivated, an organization has an active owner.  Two
\* requests that count the same two owners both go ahead.
AnOwnerRemains == deactivated \/ \E m \in Members : ActiveOwner(m)

\* The same, as far as the code keeps it: whatever additions, abandoned
\* requests and deactivations come between, an organization keeps an owner as
\* long as no two changes of memberships were in their transactions at once.
OneChangeAtATimeKeepsAnOwner == overlap \/ AnOwnerRemains

\* The removal of a membership is recorded once at most, by the request that
\* did remove it, also when two requests delete the same membership.
RemovalsAreRecordedOnce ==
  \A m \in Members : removals[m] > 0 =>
    removals[m] = 1 /\ member[m].status = "deleted"

\* The organization is deactivated, nobody in it is active, and nobody who
\* was let in before is still about to add a member.
Closed ==
  /\ deactivated
  /\ \A m \in Members : member[m].status # "active"
  /\ \A q \in Additions : request[q].pc = "idle"

\* "After deactivation, tenant APIs return 403 for that organization"
\* (docs/runbook.md), as far as the code keeps it: an organization that is
\* closed, with no addition still on its way, is closed for good, whatever
\* changes and deactivations are still being served.
ClosedStaysClosed == [][Closed => Closed']_vars
=============================================================================
