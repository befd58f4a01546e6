------------------------ MODULE Memberships_proofs ------------------------
(***************************************************************************)
(* Proofs about Memberships for every set of users, rows and requests.     *)
(***************************************************************************)
EXTENDS Memberships, FiniteSetTheorems, TLAPS

\* What an open deactivation has written it keeps locked: those members stay
\* active until it ends, and no other deactivation gets that far meanwhile.
\* Without it a commit might bring a removed membership back.
Locks ==
  /\ \A q \in Requests : request[q].rows # {} => request[q].pc = "suspending"
  /\ \A p, q \in Closings :
       request[p].pc = "suspending" /\ request[q].pc = "suspending" => p = q
  /\ \A q \in Closings : \A m \in request[q].rows : member[m].status = "active"

\* A removal is recorded by the one request that made it.
Removing(q, m) == request[q].pc = "removed" /\ request[q].target = m

Account(m) ==
  /\ removals[m] > 0 => removals[m] = 1 /\ \A q \in Requests : ~Removing(q, m)
  /\ member[m].status # "deleted" =>
       removals[m] = 0 /\ \A q \in Requests : ~Removing(q, m)
  /\ \A p, q \in Requests : Removing(p, m) /\ Removing(q, m) => p = q

RemovalAccount == \A m \in Members : Account(m)

\* Unless changes overlap, a change that is about to take a member's role
\* away leaves an owner behind.
OwnersInv ==
  ~overlap =>
    /\ \A p, q \in Changes : InTransaction(p) /\ InTransaction(q) => p = q
    /\ ~deactivated => \E m \in Members : ActiveOwner(m)
    /\ ~deactivated =>
         \A q \in Changes : request[q].pc = "cleared" /\ request[q].to # "owner" =>
           \E m \in Members : ActiveOwner(m) /\ m # request[q].target

IInv == TypeOK /\ Locks
-----------------------------------------------------------------------------
(***************************************************************************)
(* Types and locks.                                                        *)
(***************************************************************************)

LEMMA RowTypes ==
  /\ Unborn \in MemberRow
  /\ \A u \in Users \union {None}, r \in Roles \union {None} : NewMember(u, r) \in MemberRow
  /\ Idle \in Request
  BY DEF Unborn, NewMember, MemberRow, Idle, Request

LEMMA InitIInv == Init => IInv
  <1> SUFFICES ASSUME Init PROVE IInv
    OBVIOUS
  <1>1. PICK founder \in Members, u \in Users :
          member = [m \in Members |-> IF m = founder THEN NewMember(u, "owner") ELSE Unborn]
    BY DEF Init
  <1>2. member \in [Members -> MemberRow]
    BY <1>1, RowTypes DEF Roles
  <1>3. \A m \in Members : Live(m) => m = founder
    BY <1>1 DEF Live, Unborn
  <1>4. request \in [Requests -> Request] /\ removals \in [Members -> Nat]
    BY RowTypes DEF Init
  <1>5. TypeOK
    BY <1>2, <1>3, <1>4 DEF Init, TypeOK
  <1>6. Locks
    BY DEF Init, Locks, Idle, Requests
  <1>7. QED
    BY <1>5, <1>6 DEF IInv

\* A step of one request that is not, and does not become, a deactivation
\* with rows of its own, and that writes no membership.
LEMMA RequestStep ==
  ASSUME IInv, NEW q \in Requests, NEW r \in Request,
         request' = [request EXCEPT ![q] = r], r.rows = {}, r.pc # "suspending",
         UNCHANGED member, removals' \in [Members -> Nat], deactivated' \in BOOLEAN,
         overlap' \in BOOLEAN
  PROVE  IInv'
  <1>1. TypeOK'
    BY DEF IInv, TypeOK, Live
  <1>2. Locks'
    BY DEF IInv, TypeOK, Locks, Requests
  <1>3. QED
    BY <1>1, <1>2 DEF IInv

\* A request that is written anew, a field at a time.
LEMMA RequestTypes ==
  ASSUME IInv, NEW q \in Requests
  PROVE  /\ request[q] \in Request
         /\ request[q].pc # "suspending" => request[q].rows = {}
         /\ request[q].user \in Users \union {None}
         /\ request[q].target \in Members \union {None}
         /\ request[q].to \in Roles \union {None}
  BY DEF IInv, TypeOK, Locks, Request

\* The steps of a request that write nothing but the request.
LEMMA PcStep ==
  ASSUME IInv, NEW q \in Requests,
         NEW pc \in {"authorised", "read", "cleared", "removed", "open"},
         request' = [request EXCEPT ![q].pc = pc], request[q].pc # "suspending",
         UNCHANGED <<member, deactivated, removals>>, overlap' \in BOOLEAN
  PROVE  IInv'
  <1> DEFINE r == [request[q] EXCEPT !.pc = pc]
  <1>1. r \in Request /\ r.rows = {} /\ r.pc # "suspending"
    BY RequestTypes DEF Request
  <1>2. request' = [request EXCEPT ![q] = r]
    BY DEF IInv, TypeOK
  <1>3. removals' \in [Members -> Nat] /\ deactivated' \in BOOLEAN
    BY DEF IInv, TypeOK
  <1> HIDE DEF r
  <1>4. QED
    BY <1>1, <1>2, <1>3, RequestStep

LEMMA IdleStep ==
  ASSUME IInv, NEW q \in Requests, request' = [request EXCEPT ![q] = Idle],
         UNCHANGED <<member, deactivated>>, removals' \in [Members -> Nat],
         overlap' \in BOOLEAN
  PROVE  IInv'
  <1>1. Idle \in Request /\ Idle.rows = {} /\ Idle.pc # "suspending"
    BY RowTypes DEF Idle
  <1>2. deactivated' \in BOOLEAN
    BY DEF IInv, TypeOK
  <1>3. QED
    BY <1>1, <1>2, RequestStep

LEMMA BeginAdditionIInv ==
  ASSUME IInv, NEW q \in Additions, NEW u \in Users, NEW role \in Roles, BeginAddition(q, u, role)
  PROVE  IInv'
  <1> DEFINE r == [request[q] EXCEPT !.pc = "authorised", !.user = u, !.to = role]
  <1>1. q \in Requests
    BY DEF Requests
  <1>2. r \in Request /\ r.rows = {} /\ r.pc # "suspending"
    BY <1>1, RequestTypes DEF Request, BeginAddition
  <1>3. request' = [request EXCEPT ![q] = r]
    BY <1>1 DEF IInv, TypeOK, BeginAddition
  <1>4. /\ UNCHANGED member /\ removals' \in [Members -> Nat]
        /\ deactivated' \in BOOLEAN /\ overlap' \in BOOLEAN
    BY DEF IInv, TypeOK, BeginAddition
  <1> HIDE DEF r
  <1>5. QED
    BY <1>1, <1>2, <1>3, <1>4, RequestStep

LEMMA BeginChangeIInv ==
  ASSUME IInv, NEW q \in Changes, NEW m \in Members, NEW to \in Roles \union {None},
         BeginChange(q, m, to)
  PROVE  IInv'
  <1> DEFINE r == [request[q] EXCEPT !.pc = "authorised", !.target = m, !.to = to]
  <1>1. q \in Requests
    BY DEF Requests
  <1>2. r \in Request /\ r.rows = {} /\ r.pc # "suspending"
    BY <1>1, RequestTypes DEF Request, BeginChange
  <1>3. request' = [request EXCEPT ![q] = r]
    BY <1>1 DEF IInv, TypeOK, BeginChange
  <1>4. /\ UNCHANGED member /\ removals' \in [Members -> Nat]
        /\ deactivated' \in BOOLEAN /\ overlap' \in BOOLEAN
    BY DEF IInv, TypeOK, BeginChange
  <1> HIDE DEF r
  <1>5. QED
    BY <1>1, <1>2, <1>3, <1>4, RequestStep

\* The insertion makes an unborn row a member, of a user who is not one yet.
LEMMA CreateIInv ==
  ASSUME IInv, NEW q \in Additions, CreateActiveMembership(q)
  PROVE  IInv'
  <1>1. q \in Requests /\ overlap' \in BOOLEAN /\ removals' \in [Members -> Nat]
    BY DEF Requests, CreateActiveMembership, IInv, TypeOK
  <1>2. CASE UNCHANGED member
    BY <1>1, <1>2, IdleStep DEF CreateActiveMembership
  <1>3. CASE ~ UNCHANGED member
    <2>1. PICK m \in Members :
            /\ member[m].status = "unborn"
            /\ member' = [member EXCEPT ![m] = NewMember(request[q].user, request[q].to)]
      BY <1>3 DEF CreateActiveMembership
    <2>2. \A n \in Members : Live(n) => member[n].user # request[q].user
      BY <1>3 DEF CreateActiveMembership
    <2>3. member' \in [Members -> MemberRow]
      BY <1>1, <2>1, RequestTypes, RowTypes DEF IInv, TypeOK
    <2>4. \A n, k \in Members :
            (Live(n) /\ Live(k) /\ member[n].user = member[k].user => n = k)'
      <3> TAKE n, k \in Members
      <3>1. CASE n = m /\ k # m
        BY <2>1, <2>2, <3>1 DEF IInv, TypeOK, Live, NewMember
      <3>2. CASE n # m /\ k = m
        BY <2>1, <2>2, <3>2 DEF IInv, TypeOK, Live, NewMember
      <3>3. CASE n # m /\ k # m
        BY <2>1, <3>3 DEF IInv, TypeOK, Live
      <3>4. QED
        BY <3>1, <3>2, <3>3
    <2>5. request' = [request EXCEPT ![q] = Idle] /\ UNCHANGED deactivated
      BY DEF CreateActiveMembership
    <2>6. TypeOK'
      BY <1>1, <2>3, <2>4, <2>5, RowTypes DEF IInv, TypeOK
    <2>7. Locks'
      BY <1>1, <2>1, <2>5 DEF IInv, TypeOK, Locks, Idle, Requests
    <2>8. QED
      BY <2>6, <2>7 DEF IInv
  <1>4. QED
    BY <1>2, <1>3

LEMMA UpdateIInv ==
  ASSUME IInv, NEW q \in Changes, UpdateMembershipRole(q)
  PROVE  IInv'
  <1> DEFINE m == request[q].target
  <1>1. q \in Requests /\ request[q].to \in Roles
    BY RequestTypes DEF Requests, UpdateMembershipRole
  <1>2. /\ request' = [request EXCEPT ![q] = Idle]
        /\ UNCHANGED <<deactivated, removals, overlap>>
        /\ member' = member \/ member' = [member EXCEPT ![m].role = request[q].to]
    BY DEF UpdateMembershipRole
  <1>3. member' \in [Members -> MemberRow]
    BY <1>1, <1>2 DEF IInv, TypeOK, MemberRow
  <1>4. \A n \in Members : member'[n].status = member[n].status /\ member'[n].user = member[n].user
    BY <1>2 DEF IInv, TypeOK, MemberRow
  <1>5. TypeOK'
    BY <1>1, <1>2, <1>3, <1>4, RowTypes DEF IInv, TypeOK, Live
  <1>6. Locks'
    BY <1>1, <1>2, <1>4 DEF IInv, TypeOK, Locks, Idle, Requests, Request
  <1>7. QED
    BY <1>5, <1>6 DEF IInv

\* A locked row is not deleted.
LEMMA DeleteIInv ==
  ASSUME IInv, NEW q \in Changes, DeleteMembership(q)
  PROVE  IInv'
  <1> DEFINE m == request[q].target
  <1>0. q \in Requests /\ request[q].pc # "suspending"
    BY DEF Requests, DeleteMembership
  <1>1. CASE ~Live(m)
    <2>1. /\ request' = [request EXCEPT ![q] = Idle] /\ UNCHANGED <<member, deactivated>>
          /\ removals' \in [Members -> Nat] /\ overlap' \in BOOLEAN
      BY <1>1 DEF DeleteMembership, IInv, TypeOK
    <2>2. QED
      BY <1>0, <2>1, IdleStep
  <1>2. CASE Live(m)
    <2>1. /\ member' = [member EXCEPT ![m].status = "deleted"]
          /\ request' = [request EXCEPT ![q].pc = "removed"]
          /\ UNCHANGED <<deactivated, removals, overlap>> /\ ~RowLocked(m)
      BY <1>2 DEF DeleteMembership
    <2>2. member' \in [Members -> MemberRow]
      BY <2>1 DEF IInv, TypeOK, MemberRow
    <2>3. request' \in [Requests -> Request]
      BY <1>0, <2>1 DEF IInv, TypeOK, Request
    <2>4. \A n \in Members : Live(n)' => Live(n) /\ member'[n].user = member[n].user
      BY <2>1 DEF IInv, TypeOK, MemberRow, Live
    <2>5. TypeOK'
      BY <2>1, <2>2, <2>3, <2>4 DEF IInv, TypeOK
    <2>6. \A p \in Requests : request'[p].rows = request[p].rows
      BY <2>1 DEF IInv, TypeOK, Request
    <2>7. \A p \in Requests :
            IF p = q THEN request'[p].pc = "removed" ELSE request'[p].pc = request[p].pc
      BY <2>1 DEF IInv, TypeOK, Request
    <2>8. \A p \in Closings : \A n \in request[p].rows : n \in Members /\ n # m
      BY <2>1 DEF RowLocked, IInv, TypeOK, Request, Requests
    <2>9. \A n \in Members : n # m => member'[n] = member[n]
      BY <2>1 DEF IInv, TypeOK
    <2>10. request[q].rows = {}
      BY <1>0, RequestTypes
    <2>11. Closings \subseteq Requests
      BY DEF Requests
    <2> HIDE DEF m
    <2>12. Locks'
      <3>1. \A p \in Requests : request'[p].rows # {} => request'[p].pc = "suspending"
        BY <1>0, <2>6, <2>7, <2>10 DEF IInv, Locks
      <3>2. \A p, k \in Closings :
              request'[p].pc = "suspending" /\ request'[k].pc = "suspending" => p = k
        <4>1. \A p \in Closings :
                request'[p].pc = "suspending" => request[p].pc = "suspending"
          BY <2>7, <2>11
        <4>2. QED
          BY <4>1 DEF IInv, Locks
      <3>3. \A p \in Closings : \A n \in request'[p].rows : member'[n].status = "active"
        BY <2>6, <2>8, <2>9, <2>11 DEF IInv, Locks
      <3>4. QED
        BY <3>1, <3>2, <3>3 DEF Locks
    <2>13. QED
      BY <2>5, <2>12 DEF IInv
  <1>3. QED
    BY <1>1, <1>2

LEMMA SuspendIInv ==
  ASSUME IInv, NEW q \in Closings, SuspendMembers(q)
  PROVE  IInv'
  <1> DEFINE active == {m \in Members : member[m].status = "active"}
             r == [request[q] EXCEPT !.pc = "suspending", !.rows = active]
  <1>1. q \in Requests /\ Closings \subseteq Requests
    BY DEF Requests
  <1>2. /\ UNCHANGED <<member, deactivated, removals, overlap>>
        /\ \A p \in Closings : request[p].pc # "suspending"
    BY DEF SuspendMembers
  <1>3. r \in Request /\ r.pc = "suspending" /\ r.rows = active
    BY <1>1, RequestTypes DEF Request
  <1>4. request' = [request EXCEPT ![q] = r]
    BY <1>1 DEF IInv, TypeOK, SuspendMembers
  <1>5. \A m \in active : member[m].status = "active"
    OBVIOUS
  <1> HIDE DEF r, active
  <1>6. TypeOK'
    BY <1>1, <1>2, <1>3, <1>4 DEF IInv, TypeOK, Live
  <1>7. Locks'
    <2>1. \A p \in Requests : request'[p] = IF p = q THEN r ELSE request[p]
      BY <1>1, <1>4 DEF IInv, TypeOK
    <2>2. QED
      BY <1>1, <1>2, <1>3, <1>5, <2>1 DEF IInv, Locks
  <1>8. QED
    BY <1>6, <1>7 DEF IInv

\* The commit suspends members who are still active, so nobody comes back.
LEMMA CommitIInv ==
  ASSUME IInv, NEW q \in Closings, CommitDeactivation(q)
  PROVE  IInv'
  <1>1. q \in Requests /\ Closings \subseteq Requests
    BY DEF Requests
  <1>2. member' \in [Members -> MemberRow]
    BY DEF IInv, TypeOK, MemberRow, CommitDeactivation
  <1>3. \A n \in Members : Live(n)' => Live(n) /\ member'[n].user = member[n].user
    BY <1>1 DEF IInv, TypeOK, Locks, MemberRow, CommitDeactivation, Live
  <1>4. TypeOK'
    BY <1>2, <1>3, RowTypes DEF IInv, TypeOK, CommitDeactivation
  <1>5. \A p \in Requests : request'[p] = IF p = q THEN Idle ELSE request[p]
    BY <1>1 DEF IInv, TypeOK, CommitDeactivation
  <1>6. \A p \in Closings : p # q => request[p].rows = {}
    BY <1>1 DEF IInv, Locks, CommitDeactivation
  <1>7. Locks'
    BY <1>1, <1>5, <1>6 DEF IInv, Locks, Idle
  <1>8. QED
    BY <1>4, <1>7 DEF IInv

LEMMA NextIInv == IInv /\ [Next]_vars => IInv'
  <1> SUFFICES ASSUME IInv, [Next]_vars PROVE IInv'
    OBVIOUS
  <1>0. /\ removals \in [Members -> Nat] /\ overlap \in BOOLEAN
        /\ Additions \subseteq Requests /\ Changes \subseteq Requests
        /\ Closings \subseteq Requests
    BY DEF IInv, TypeOK, Requests
  <1>1. CASE UNCHANGED vars
    BY <1>1 DEF vars, IInv, TypeOK, Locks, Live
  <1>2. ASSUME NEW q \in Additions, NEW u \in Users, NEW role \in Roles, BeginAddition(q, u, role)
        PROVE  IInv'
    BY <1>2, BeginAdditionIInv
  <1>3. ASSUME NEW q \in Additions, CreateActiveMembership(q)
        PROVE  IInv'
    BY <1>3, CreateIInv
  <1>4. ASSUME NEW q \in Changes, NEW m \in Members, NEW to \in Roles \union {None},
               BeginChange(q, m, to)
        PROVE  IInv'
    BY <1>4, BeginChangeIInv
  <1>5. ASSUME NEW q \in Changes, ReadMembership(q)
        PROVE  IInv'
    <2>1. overlap' \in BOOLEAN /\ UNCHANGED <<member, deactivated, removals>>
      BY <1>5, <1>0 DEF ReadMembership
    <2>2. \/ request' = [request EXCEPT ![q] = Idle]
          \/ request' = [request EXCEPT ![q].pc = "read"]
          \/ request' = [request EXCEPT ![q].pc = "cleared"]
      BY <1>5 DEF ReadMembership
    <2>3. request[q].pc # "suspending"
      BY <1>5 DEF ReadMembership
    <2>4. QED
      BY <1>0, <2>1, <2>2, <2>3, IdleStep, PcStep
  <1>6. ASSUME NEW q \in Changes, CountActiveOwners(q)
        PROVE  IInv'
    <2>1. \/ request' = [request EXCEPT ![q] = Idle]
          \/ request' = [request EXCEPT ![q].pc = "cleared"]
      BY <1>6 DEF CountActiveOwners
    <2>2. /\ UNCHANGED <<member, deactivated, removals, overlap>>
          /\ request[q].pc # "suspending"
      BY <1>6 DEF CountActiveOwners
    <2>3. QED
      BY <1>0, <2>1, <2>2, IdleStep, PcStep
  <1>7. ASSUME NEW q \in Changes, UpdateMembershipRole(q)
        PROVE  IInv'
    BY <1>7, UpdateIInv
  <1>8. ASSUME NEW q \in Changes, DeleteMembership(q)
        PROVE  IInv'
    BY <1>8, DeleteIInv
  <1>9. ASSUME NEW q \in Changes, LogRemoval(q)
        PROVE  IInv'
    <2>1. removals' \in [Members -> Nat]
      <3> DEFINE t == request[q].target
      <3>1. removals' = [removals EXCEPT ![t] = @ + 1]
        BY <1>9 DEF LogRemoval
      <3>2. removals \in [Members -> Nat]
        BY <1>0
      <3> HIDE DEF t
      <3>3. CASE t \in Members
        BY <3>1, <3>2, <3>3
      <3>4. CASE t \notin Members
        BY <3>1, <3>2, <3>4
      <3>5. QED
        BY <3>3, <3>4
    <2>2. /\ request' = [request EXCEPT ![q] = Idle]
          /\ UNCHANGED <<member, deactivated, overlap>>
      BY <1>9 DEF LogRemoval
    <2>3. overlap' \in BOOLEAN
      BY <1>0, <2>2
    <2>4. QED
      BY <1>0, <2>1, <2>2, <2>3, IdleStep
  <1>10. ASSUME NEW q \in Closings, BeginClosing(q)
         PROVE  IInv'
    BY <1>10, <1>0, PcStep DEF BeginClosing
  <1>11. ASSUME NEW q \in Closings, ReadOrganization(q)
         PROVE  IInv'
    <2>1. \/ request' = [request EXCEPT ![q] = Idle]
          \/ request' = [request EXCEPT ![q].pc = "open"]
      BY <1>11 DEF ReadOrganization
    <2>2. /\ UNCHANGED <<member, deactivated, removals, overlap>>
          /\ request[q].pc # "suspending"
      BY <1>11 DEF ReadOrganization
    <2>3. QED
      BY <1>0, <2>1, <2>2, IdleStep, PcStep
  <1>12. ASSUME NEW q \in Closings, SuspendMembers(q)
         PROVE  IInv'
    BY <1>12, SuspendIInv
  <1>13. ASSUME NEW q \in Closings, CommitDeactivation(q)
         PROVE  IInv'
    BY <1>13, CommitIInv
  <1>14. ASSUME NEW q \in Requests, Abandon(q)
         PROVE  IInv'
    BY <1>14, <1>0, IdleStep DEF Abandon
  <1>15. QED
    BY <1>1, <1>2, <1>3, <1>4, <1>5, <1>6, <1>7, <1>8, <1>9, <1>10, <1>11, <1>12,
       <1>13, <1>14 DEF Next

LEMMA SpecIInv == Spec => []IInv
  BY InitIInv, NextIInv, PTL DEF Spec

\* Every row keeps to its columns and no user has two memberships, also when
\* a deactivation suspends members while others are removed and added.
THEOREM TypeCorrect == Spec => []TypeOK
  <1>1. IInv => TypeOK
    BY DEF IInv
  <1>2. QED
    BY <1>1, SpecIInv, PTL
-----------------------------------------------------------------------------
(***************************************************************************)
(* What a step does to the requests.                                       *)
(***************************************************************************)

LEMMA RequestWrite ==
  ASSUME IInv, NEW q \in Requests, NEW r \in Request, request' = [request EXCEPT ![q] = r]
  PROVE  request'[q] = r /\ \A p \in Requests : p # q => request'[p] = request[p]
  BY DEF IInv, TypeOK

LEMMA PcWrite ==
  ASSUME IInv, NEW q \in Requests, NEW pc, request' = [request EXCEPT ![q].pc = pc]
  PROVE  /\ request'[q].pc = pc
         /\ request'[q].target = request[q].target /\ request'[q].to = request[q].to
         /\ \A p \in Requests : p # q => request'[p] = request[p]
  BY DEF IInv, TypeOK, Request

LEMMA IdleWrite ==
  ASSUME IInv, NEW q \in Requests, request' = [request EXCEPT ![q] = Idle]
  PROVE  request'[q].pc = "idle" /\ \A p \in Requests : p # q => request'[p] = request[p]
  <1>1. request'[q] = Idle /\ \A p \in Requests : p # q => request'[p] = request[p]
    BY RowTypes, RequestWrite
  <1>2. QED
    BY <1>1 DEF Idle

\* Every step of a request other than a removal and its record: it leaves the
\* audit log alone, removes nobody and brings nobody back.
QuietStep(q) ==
  /\ UNCHANGED removals
  /\ \A m \in Members : member'[m].status = "deleted" <=> member[m].status = "deleted"
  /\ request'[q].pc # "removed"
  /\ \A p \in Requests : p # q => request'[p] = request[p]

LEMMA QuietRemovals ==
  ASSUME RemovalAccount, NEW q \in Requests, QuietStep(q)
  PROVE  RemovalAccount'
  <1>1. \A p \in Requests : request'[p].pc = "removed" =>
          p # q /\ request'[p] = request[p]
    BY DEF QuietStep
  <1>2. QED
    BY <1>1 DEF QuietStep, RemovalAccount, Account, Removing

\* Every step of a request that does not enter, nor go on with, the
\* transaction of a change: no owner is lost but by a deactivation.
OwnersStay(q) ==
  /\ UNCHANGED overlap
  /\ ~deactivated' => ~deactivated /\ \A m \in Members : ActiveOwner(m) => ActiveOwner(m)'
  /\ request'[q].pc \notin {"read", "cleared"}
  /\ \A p \in Requests : p # q => request'[p] = request[p]

LEMMA OwnersStayInv ==
  ASSUME OwnersInv, NEW q \in Requests, OwnersStay(q)
  PROVE  OwnersInv'
  <1> SUFFICES ASSUME ~overlap' PROVE
        /\ \A p, k \in Changes : InTransaction(p)' /\ InTransaction(k)' => p = k
        /\ ~deactivated' => \E m \in Members : ActiveOwner(m)'
        /\ ~deactivated' =>
             \A p \in Changes : request'[p].pc = "cleared" /\ request'[p].to # "owner" =>
               \E m \in Members : ActiveOwner(m)' /\ m # request'[p].target
    BY DEF OwnersInv
  <1>1. ~overlap /\ Changes \subseteq Requests
    BY DEF OwnersStay, Requests
  <1>2. \A p \in Changes : InTransaction(p)' => p # q /\ request'[p] = request[p] /\ InTransaction(p)
    BY <1>1 DEF OwnersStay, InTransaction
  <1>3. \A p \in Changes : request'[p].pc = "cleared" => p # q /\ request'[p] = request[p]
    BY <1>1 DEF OwnersStay
  <1>4. \A p, k \in Changes : InTransaction(p)' /\ InTransaction(k)' => p = k
    BY <1>1, <1>2 DEF OwnersInv
  <1>5. ~deactivated' => \E m \in Members : ActiveOwner(m)'
    BY <1>1 DEF OwnersInv, OwnersStay
  <1>6. ASSUME ~deactivated', NEW p \in Changes,
               request'[p].pc = "cleared", request'[p].to # "owner"
        PROVE  \E m \in Members : ActiveOwner(m)' /\ m # request'[p].target
    <2>1. request'[p] = request[p]
      BY <1>3, <1>6
    <2>2. PICK m \in Members : ActiveOwner(m) /\ m # request[p].target
      BY <1>1, <1>6, <2>1 DEF OwnersInv, OwnersStay
    <2>3. QED
      BY <1>6, <2>1, <2>2 DEF OwnersStay
  <1>7. QED
    BY <1>4, <1>5, <1>6
-----------------------------------------------------------------------------
(***************************************************************************)
(* The actions that are quiet, or leave the owners alone, or both.         *)
(***************************************************************************)

\* A request that writes itself only, and enters no transaction of a change.
LEMMA RequestOnly ==
  ASSUME NEW q \in Requests, UNCHANGED <<member, deactivated, overlap>>,
         request'[q].pc \notin {"read", "cleared"},
         \A p \in Requests : p # q => request'[p] = request[p]
  PROVE  /\ OwnersStay(q)
         /\ UNCHANGED removals /\ request'[q].pc # "removed" => QuietStep(q)
  <1>1. \A m \in Members : ActiveOwner(m) => ActiveOwner(m)'
    BY DEF ActiveOwner
  <1>2. OwnersStay(q)
    BY <1>1 DEF OwnersStay
  <1>3. UNCHANGED removals /\ request'[q].pc # "removed" => QuietStep(q)
    BY DEF QuietStep
  <1>4. QED
    BY <1>2, <1>3

LEMMA CreateSteps ==
  ASSUME IInv, NEW q \in Additions, CreateActiveMembership(q)
  PROVE  QuietStep(q) /\ OwnersStay(q)
  <1>1. q \in Requests
    BY DEF Requests
  <1>2. request'[q].pc = "idle" /\ \A p \in Requests : p # q => request'[p] = request[p]
    BY <1>1, IdleWrite DEF CreateActiveMembership
  <1>3. \A m \in Members :
          \/ member'[m] = member[m]
          \/ member[m].status = "unborn" /\ member'[m].status = "active"
    BY DEF CreateActiveMembership, NewMember, IInv, TypeOK
  <1>4. UNCHANGED <<deactivated, removals, overlap>>
    BY DEF CreateActiveMembership
  <1>5. QED
    BY <1>2, <1>3, <1>4 DEF QuietStep, OwnersStay, ActiveOwner

LEMMA CommitSteps ==
  ASSUME IInv, NEW q \in Closings, CommitDeactivation(q)
  PROVE  QuietStep(q) /\ OwnersStay(q)
  <1>1. q \in Requests
    BY DEF Requests
  <1>2. request'[q].pc = "idle" /\ \A p \in Requests : p # q => request'[p] = request[p]
    BY <1>1, IdleWrite DEF CommitDeactivation
  <1>3. \A m \in Members :
          \/ member'[m] = member[m]
          \/ member[m].status = "active" /\ member'[m].status = "suspended"
    BY DEF CommitDeactivation, IInv, TypeOK, Locks, MemberRow
  <1>4. deactivated' /\ UNCHANGED <<removals, overlap>>
    BY DEF CommitDeactivation
  <1>5. QED
    BY <1>2, <1>3, <1>4 DEF QuietStep, OwnersStay

\* The steps of additions and deactivations, and the end of any request.
LEMMA OtherSteps ==
  ASSUME IInv, NEW q \in Requests,
         \/ \E u \in Users, role \in Roles : BeginAddition(q, u, role)
         \/ \E m \in Members, to \in Roles \union {None} : BeginChange(q, m, to)
         \/ BeginClosing(q) \/ ReadOrganization(q) \/ SuspendMembers(q) \/ Abandon(q)
  PROVE  QuietStep(q) /\ OwnersStay(q)
  <1>1. UNCHANGED <<member, deactivated, removals, overlap>>
    BY DEF BeginAddition, BeginChange, BeginClosing, ReadOrganization, SuspendMembers, Abandon
  <1>2. /\ request'[q].pc \in {"idle", "authorised", "open", "suspending"}
        /\ \A p \in Requests : p # q => request'[p] = request[p]
    <2>1. CASE \E u \in Users, role \in Roles : BeginAddition(q, u, role)
      <3>1. PICK u \in Users, role \in Roles :
              request' = [request EXCEPT ![q].pc = "authorised", ![q].user = u, ![q].to = role]
        BY <2>1 DEF BeginAddition
      <3>2. QED
        BY <3>1 DEF IInv, TypeOK, Request
    <2>2. CASE \E m \in Members, to \in Roles \union {None} : BeginChange(q, m, to)
      <3>1. PICK m \in Members, to \in Roles \union {None} :
              request' = [request EXCEPT ![q].pc = "authorised", ![q].target = m, ![q].to = to]
        BY <2>2 DEF BeginChange
      <3>2. QED
        BY <3>1 DEF IInv, TypeOK, Request
    <2>3. CASE BeginClosing(q)
      BY <2>3, PcWrite DEF BeginClosing
    <2>4. CASE ReadOrganization(q)
      BY <2>4, PcWrite, IdleWrite DEF ReadOrganization
    <2>5. CASE SuspendMembers(q)
      BY <2>5 DEF SuspendMembers, IInv, TypeOK, Request
    <2>6. CASE Abandon(q)
      BY <2>6, IdleWrite DEF Abandon
    <2>7. QED
      BY <2>1, <2>2, <2>3, <2>4, <2>5, <2>6
  <1>3. QED
    BY <1>1, <1>2, RequestOnly
-----------------------------------------------------------------------------
(***************************************************************************)
(* Removals.                                                               *)
(***************************************************************************)

LEMMA ChangeIsQuiet ==
  ASSUME IInv, NEW q \in Changes,
         ReadMembership(q) \/ CountActiveOwners(q) \/ UpdateMembershipRole(q)
  PROVE  QuietStep(q)
  <1>1. q \in Requests
    BY DEF Requests
  <1>2. CASE ReadMembership(q)
    <2>1. /\ request'[q].pc # "removed"
          /\ \A p \in Requests : p # q => request'[p] = request[p]
      BY <1>1, <1>2, PcWrite, IdleWrite DEF ReadMembership
    <2>2. QED
      BY <1>2, <2>1 DEF ReadMembership, QuietStep
  <1>3. CASE CountActiveOwners(q)
    <2>1. \/ request' = [request EXCEPT ![q] = Idle]
          \/ request' = [request EXCEPT ![q].pc = "cleared"]
      BY <1>3 DEF CountActiveOwners
    <2>2. /\ request'[q].pc # "removed"
          /\ \A p \in Requests : p # q => request'[p] = request[p]
      BY <1>1, <2>1, PcWrite, IdleWrite
    <2>3. QED
      BY <1>3, <2>2 DEF CountActiveOwners, QuietStep
  <1>4. CASE UpdateMembershipRole(q)
    <2>1. /\ request'[q].pc # "removed"
          /\ \A p \in Requests : p # q => request'[p] = request[p]
      BY <1>1, <1>4, IdleWrite DEF UpdateMembershipRole
    <2>2. \A m \in Members : member'[m].status = member[m].status
      BY <1>4 DEF UpdateMembershipRole, IInv, TypeOK, MemberRow
    <2>3. QED
      BY <1>4, <2>1, <2>2 DEF UpdateMembershipRole, QuietStep
  <1>5. QED
    BY <1>2, <1>3, <1>4

LEMMA DeleteRemovals ==
  ASSUME IInv, RemovalAccount, NEW q \in Changes, DeleteMembership(q)
  PROVE  RemovalAccount'
  <1> DEFINE d == request[q].target
  <1>1. q \in Requests
    BY DEF Requests
  <1>2. CASE ~Live(d)
    <2>1. QuietStep(q)
      BY <1>1, <1>2, IdleWrite DEF DeleteMembership, QuietStep
    <2>2. QED
      BY <1>1, <2>1, QuietRemovals
  <1>3. CASE Live(d)
    <2>1. /\ request'[q].pc = "removed" /\ request'[q].target = d
          /\ \A p \in Requests : p # q => request'[p] = request[p]
      BY <1>1, <1>3, PcWrite DEF DeleteMembership
    <2>2. /\ \A m \in Members : m # d => member'[m] = member[m]
          /\ \A m \in Members : m = d => member'[m].status = "deleted"
          /\ UNCHANGED removals
      BY <1>3 DEF DeleteMembership, IInv, TypeOK, MemberRow
    <2>3. d \in Members =>
            removals[d] = 0 /\ \A p \in Requests : ~(request[p].pc = "removed" /\ request[p].target = d)
      BY <1>3 DEF RemovalAccount, Account, Removing, Live
    <2> HIDE DEF d
    <2>4. ASSUME NEW m \in Members
          PROVE  Account(m)'
      <3>1. CASE m = d
        BY <2>1, <2>2, <2>3, <3>1 DEF Account, Removing
      <3>2. CASE m # d
        <4>1. \A p \in Requests : request'[p].pc = "removed" /\ request'[p].target = m =>
                request'[p] = request[p]
          BY <2>1, <3>2
        <4>2. QED
          BY <2>2, <3>2, <4>1 DEF RemovalAccount, Account, Removing
      <3>3. QED
        BY <3>1, <3>2
    <2>5. QED
      BY <2>4 DEF RemovalAccount
  <1>4. QED
    BY <1>2, <1>3

LEMMA LogRemovals ==
  ASSUME IInv, RemovalAccount, NEW q \in Changes, LogRemoval(q)
  PROVE  RemovalAccount'
  <1> DEFINE d == request[q].target
  <1>1. q \in Requests /\ request[q].pc = "removed"
    BY DEF Requests, LogRemoval
  <1>2. request'[q].pc = "idle" /\ \A p \in Requests : p # q => request'[p] = request[p]
    BY <1>1, IdleWrite DEF LogRemoval
  <1>3. /\ \A m \in Members : removals'[m] = IF m = d THEN removals[m] + 1 ELSE removals[m]
        /\ \A m \in Members : removals[m] \in Nat
        /\ UNCHANGED member
    BY DEF LogRemoval, IInv, TypeOK
  <1>4. d \in Members => removals[d] = 0 /\ member[d].status = "deleted"
    BY <1>1, <1>3 DEF RemovalAccount, Account, Removing
  <1>5. \A p \in Requests : request'[p].pc = "removed" => p # q /\ request'[p] = request[p]
    BY <1>2
  <1>6. d \in Members => \A p \in Requests : ~(request'[p].pc = "removed" /\ request'[p].target = d)
    BY <1>1, <1>5 DEF RemovalAccount, Account, Removing
  <1> HIDE DEF d
  <1>7. ASSUME NEW m \in Members
        PROVE  Account(m)'
    <2>1. CASE m = d
      BY <1>3, <1>4, <1>6, <2>1 DEF Account, Removing
    <2>2. CASE m # d
      BY <1>3, <1>5, <2>2 DEF RemovalAccount, Account, Removing
    <2>3. QED
      BY <2>1, <2>2
  <1>8. QED
    BY <1>7 DEF RemovalAccount

LEMMA NextRemovals == IInv /\ RemovalAccount /\ [Next]_vars => RemovalAccount'
  <1> SUFFICES ASSUME IInv, RemovalAccount, [Next]_vars PROVE RemovalAccount'
    OBVIOUS
  <1>1. Additions \subseteq Requests /\ Changes \subseteq Requests /\ Closings \subseteq Requests
    BY DEF Requests
  <1>2. CASE UNCHANGED vars
    BY <1>2 DEF vars, RemovalAccount, Account, Removing
  <1>3. ASSUME NEW q \in Additions, CreateActiveMembership(q) PROVE RemovalAccount'
    BY <1>1, <1>3, CreateSteps, QuietRemovals
  <1>4. ASSUME NEW q \in Closings, CommitDeactivation(q) PROVE RemovalAccount'
    BY <1>1, <1>4, CommitSteps, QuietRemovals
  <1>5. ASSUME NEW q \in Changes, ReadMembership(q) \/ CountActiveOwners(q) \/ UpdateMembershipRole(q)
        PROVE  RemovalAccount'
    BY <1>1, <1>5, ChangeIsQuiet, QuietRemovals
  <1>6. ASSUME NEW q \in Changes, DeleteMembership(q) PROVE RemovalAccount'
    BY <1>6, DeleteRemovals
  <1>7. ASSUME NEW q \in Changes, LogRemoval(q) PROVE RemovalAccount'
    BY <1>7, LogRemovals
  <1>8. ASSUME NEW q \in Requests,
               \/ \E u \in Users, role \in Roles : BeginAddition(q, u, role)
               \/ \E m \in Members, to \in Roles \union {None} : BeginChange(q, m, to)
               \/ BeginClosing(q) \/ ReadOrganization(q) \/ SuspendMembers(q) \/ Abandon(q)
        PROVE  RemovalAccount'
    BY <1>8, OtherSteps, QuietRemovals
  <1>9. QED
    BY <1>1, <1>2, <1>3, <1>4, <1>5, <1>6, <1>7, <1>8 DEF Next

\* However many requests remove the same membership, the audit log has one
\* record of it at most, and then it is gone.
THEOREM RemovalsRecordedOnce == Spec => []RemovalsAreRecordedOnce
  <1>1. Init => RemovalAccount
    <2> SUFFICES ASSUME Init PROVE RemovalAccount
      OBVIOUS
    <2>1. \A q \in Requests : request[q].pc = "idle"
      BY DEF Init, Idle
    <2>2. QED
      BY <2>1 DEF Init, RemovalAccount, Account, Removing
  <1>2. IInv /\ RemovalAccount => RemovalsAreRecordedOnce
    <2> SUFFICES ASSUME IInv, RemovalAccount, NEW m \in Members, removals[m] > 0
                 PROVE  removals[m] = 1 /\ member[m].status = "deleted"
      BY DEF RemovalsAreRecordedOnce
    <2>1. QED
      BY DEF RemovalAccount, Account, IInv, TypeOK
  <1>3. QED
    BY <1>1, <1>2, SpecIInv, NextRemovals, PTL DEF Spec
-----------------------------------------------------------------------------
(***************************************************************************)
(* The last owner.                                                         *)
(***************************************************************************)

\* Where more than one owner is counted there is another one.
LEMMA AnotherOwner ==
  ASSUME NEW d, ~(Cardinality({m \in Members : ActiveOwner(m)}) <= 1)
  PROVE  \E m \in Members : ActiveOwner(m) /\ m # d
  <1> DEFINE O == {m \in Members : ActiveOwner(m)}
  <1> SUFFICES ASSUME \A m \in O : m = d PROVE FALSE
    OBVIOUS
  <1>1. O = {} \/ O = {d}
    OBVIOUS
  <1>2. Cardinality(O) \in {0, 1}
    BY <1>1, FS_EmptySet, FS_Singleton
  <1>3. QED
    BY <1>2

\* A step within the transaction of a change, which is the only one: it
\* brings or keeps an owner other than the one it is about to take away.
LEMMA OnlyChange ==
  ASSUME NEW q \in Changes, ~overlap',
         \A p \in Requests : p # q => request'[p] = request[p],
         \A p \in Changes : p # q => ~InTransaction(p),
         ~deactivated' => \E m \in Members : ActiveOwner(m)',
         ~deactivated' /\ request'[q].pc = "cleared" /\ request'[q].to # "owner" =>
           \E m \in Members : ActiveOwner(m)' /\ m # request'[q].target
  PROVE  OwnersInv'
  <1>1. Changes \subseteq Requests
    BY DEF Requests
  <1>2. \A p \in Changes : p # q => ~InTransaction(p)' /\ request'[p].pc # "cleared"
    BY <1>1 DEF InTransaction
  <1>3. QED
    BY <1>2 DEF OwnersInv

\* A change has the transactions to itself while nothing overlaps.
LEMMA Alone ==
  ASSUME OwnersInv, ~overlap, NEW q \in Changes, InTransaction(q)
  PROVE  \A p \in Changes : p # q => ~InTransaction(p)
  BY DEF OwnersInv

LEMMA ReadOwners ==
  ASSUME IInv, OwnersInv, NEW q \in Changes, ReadMembership(q)
  PROVE  OwnersInv'
  <1>1. q \in Requests
    BY DEF Requests
  <1>2. CASE overlap'
    BY <1>2 DEF OwnersInv
  <1>3. CASE ~overlap'
    <2>1. ~overlap /\ \A p \in Changes : p # q => ~InTransaction(p)
      BY <1>3 DEF ReadMembership
    <2>2. UNCHANGED <<member, deactivated>>
      BY DEF ReadMembership
    <2>3. ~deactivated' => \E m \in Members : ActiveOwner(m)'
      BY <2>1, <2>2 DEF OwnersInv, ActiveOwner
    <2>4. \/ request' = [request EXCEPT ![q] = Idle]
          \/ request' = [request EXCEPT ![q].pc = "read"]
          \/ /\ request' = [request EXCEPT ![q].pc = "cleared"]
             /\ ~Protected(request[q].target, request[q].to)
      BY DEF ReadMembership
    <2>5. \A p \in Requests : p # q => request'[p] = request[p]
      BY <1>1, <2>4, PcWrite, IdleWrite
    <2>6. ASSUME ~deactivated', request'[q].pc = "cleared", request'[q].to # "owner"
          PROVE  \E m \in Members : ActiveOwner(m)' /\ m # request'[q].target
      <3>1. /\ request'[q].target = request[q].target /\ request'[q].to = request[q].to
            /\ ~Protected(request[q].target, request[q].to)
        BY <1>1, <2>4, <2>6, PcWrite, IdleWrite
      <3>2. PICK m \in Members : ActiveOwner(m)
        BY <2>1, <2>2, <2>6 DEF OwnersInv
      <3>3. m # request[q].target
        BY <2>6, <3>1, <3>2 DEF Protected, ActiveOwner
      <3>4. QED
        BY <2>2, <3>1, <3>2, <3>3 DEF ActiveOwner
    <2>7. QED
      BY <1>3, <2>1, <2>3, <2>5, <2>6, OnlyChange
  <1>4. QED
    BY <1>2, <1>3

LEMMA CountOwners ==
  ASSUME IInv, OwnersInv, NEW q \in Changes, CountActiveOwners(q)
  PROVE  OwnersInv'
  <1>1. q \in Requests /\ InTransaction(q)
    BY DEF Requests, CountActiveOwners, InTransaction
  <1>2. UNCHANGED <<member, deactivated, overlap>>
    BY DEF CountActiveOwners
  <1>3. CASE overlap
    BY <1>2, <1>3 DEF OwnersInv
  <1>4. CASE ~overlap
    <2>1. \A p \in Changes : p # q => ~InTransaction(p)
      BY <1>1, <1>4, Alone
    <2>2. ~deactivated' => \E m \in Members : ActiveOwner(m)'
      BY <1>2, <1>4 DEF OwnersInv, ActiveOwner
    <2>3. \/ request' = [request EXCEPT ![q] = Idle]
          \/ /\ request' = [request EXCEPT ![q].pc = "cleared"]
             /\ ~(Cardinality({m \in Members : ActiveOwner(m)}) <= 1)
      BY DEF CountActiveOwners
    <2>4. \A p \in Requests : p # q => request'[p] = request[p]
      BY <1>1, <2>3, PcWrite, IdleWrite
    <2>5. ASSUME request'[q].pc = "cleared"
          PROVE  \E m \in Members : ActiveOwner(m)' /\ m # request'[q].target
      <3>1. ~(Cardinality({m \in Members : ActiveOwner(m)}) <= 1)
        BY <1>1, <2>3, <2>5, IdleWrite
      <3>2. \E m \in Members : ActiveOwner(m) /\ m # request'[q].target
        BY <3>1, AnotherOwner
      <3>3. QED
        BY <1>2, <3>2 DEF ActiveOwner
    <2>6. QED
      BY <1>2, <1>4, <2>1, <2>2, <2>4, <2>5, OnlyChange
  <1>5. QED
    BY <1>3, <1>4

\* The write of a change leaves the owner it found besides its target.
LEMMA WriteOwners ==
  ASSUME IInv, OwnersInv, NEW q \in Changes, UpdateMembershipRole(q) \/ DeleteMembership(q)
  PROVE  OwnersInv'
  <1> DEFINE d == request[q].target
  <1>1. q \in Requests /\ InTransaction(q) /\ request[q].pc = "cleared"
    BY DEF Requests, UpdateMembershipRole, DeleteMembership, InTransaction
  <1>2. UNCHANGED <<deactivated, overlap>>
    BY DEF UpdateMembershipRole, DeleteMembership
  <1>3. CASE overlap
    BY <1>2, <1>3 DEF OwnersInv
  <1>4. CASE ~overlap
    <2>1. \A p \in Changes : p # q => ~InTransaction(p)
      BY <1>1, <1>4, Alone
    <2>2. /\ request'[q].pc # "cleared"
          /\ \A p \in Requests : p # q => request'[p] = request[p]
      BY <1>1, PcWrite, IdleWrite DEF UpdateMembershipRole, DeleteMembership
    <2>3. \A m \in Members : m # d => member'[m] = member[m]
      BY DEF UpdateMembershipRole, DeleteMembership, IInv, TypeOK
    <2>4. CASE request[q].to = "owner"
      <3>1. UpdateMembershipRole(q)
        BY <2>4, MembershipAssumption DEF DeleteMembership, Roles
      <3>2. \A m \in Members :
              \/ member'[m] = member[m]
              \/ member'[m].status = member[m].status /\ member'[m].role = "owner"
        BY <2>4, <3>1 DEF UpdateMembershipRole, IInv, TypeOK, MemberRow
      <3>3. \A m \in Members : ActiveOwner(m) => ActiveOwner(m)'
        BY <3>2 DEF ActiveOwner
      <3>4. ~deactivated' => \E m \in Members : ActiveOwner(m)'
        BY <1>2, <1>4, <3>3 DEF OwnersInv
      <3>5. QED
        BY <1>2, <1>4, <2>1, <2>2, <3>4, OnlyChange
    <2>5. CASE request[q].to # "owner"
      <3>1. ~deactivated' => \E m \in Members : ActiveOwner(m) /\ m # d
        BY <1>1, <1>2, <1>4, <2>5 DEF OwnersInv
      <3>2. ~deactivated' => \E m \in Members : ActiveOwner(m)'
        BY <2>3, <3>1 DEF ActiveOwner
      <3>3. QED
        BY <1>2, <1>4, <2>1, <2>2, <3>2, OnlyChange
    <2>6. QED
      BY <2>4, <2>5
  <1>5. QED
    BY <1>3, <1>4

LEMMA NextOwners == IInv /\ OwnersInv /\ [Next]_vars => OwnersInv'
  <1> SUFFICES ASSUME IInv, OwnersInv, [Next]_vars PROVE OwnersInv'
    OBVIOUS
  <1>1. Additions \subseteq Requests /\ Changes \subseteq Requests /\ Closings \subseteq Requests
    BY DEF Requests
  <1>2. CASE UNCHANGED vars
    BY <1>2 DEF vars, OwnersInv, ActiveOwner, InTransaction
  <1>3. ASSUME NEW q \in Additions, CreateActiveMembership(q) PROVE OwnersInv'
    BY <1>1, <1>3, CreateSteps, OwnersStayInv
  <1>4. ASSUME NEW q \in Closings, CommitDeactivation(q) PROVE OwnersInv'
    BY <1>1, <1>4, CommitSteps, OwnersStayInv
  <1>5. ASSUME NEW q \in Changes, ReadMembership(q) PROVE OwnersInv'
    BY <1>5, ReadOwners
  <1>6. ASSUME NEW q \in Changes, CountActiveOwners(q) PROVE OwnersInv'
    BY <1>6, CountOwners
  <1>7. ASSUME NEW q \in Changes, UpdateMembershipRole(q) \/ DeleteMembership(q)
        PROVE  OwnersInv'
    BY <1>7, WriteOwners
  <1>8. ASSUME NEW q \in Changes, LogRemoval(q) PROVE OwnersInv'
    <2>1. request'[q].pc = "idle" /\ \A p \in Requests : p # q => request'[p] = request[p]
      BY <1>1, <1>8, IdleWrite DEF LogRemoval
    <2>2. UNCHANGED <<member, deactivated, overlap>>
      BY <1>8 DEF LogRemoval
    <2>3. OwnersStay(q)
      BY <1>1, <2>1, <2>2, RequestOnly
    <2>4. QED
      BY <1>1, <2>3, OwnersStayInv
  <1>9. ASSUME NEW q \in Requests,
               \/ \E u \in Users, role \in Roles : BeginAddition(q, u, role)
               \/ \E m \in Members, to \in Roles \union {None} : BeginChange(q, m, to)
               \/ BeginClosing(q) \/ ReadOrganization(q) \/ SuspendMembers(q) \/ Abandon(q)
        PROVE  OwnersInv'
    BY <1>9, OtherSteps, OwnersStayInv
  <1>10. QED
    BY <1>1, <1>2, <1>3, <1>4, <1>5, <1>6, <1>7, <1>8, <1>9 DEF Next

\* As long as no two changes of memberships are in their transactions at
\* once, an organization that is not deactivated keeps an active owner,
\* whatever additions, deactivations and cancelled requests come between.
THEOREM OwnerKept == Spec => []OneChangeAtATimeKeepsAnOwner
  <1>1. Init => OwnersInv
    <2> SUFFICES ASSUME Init PROVE OwnersInv
      OBVIOUS
    <2>1. \A q \in Changes : request[q].pc = "idle"
      BY DEF Init, Idle, Requests
    <2>2. \E m \in Members : ActiveOwner(m)
      BY DEF Init, ActiveOwner, NewMember
    <2>3. QED
      BY <2>1, <2>2 DEF OwnersInv, InTransaction
  <1>2. OwnersInv => OneChangeAtATimeKeepsAnOwner
    BY DEF OwnersInv, OneChangeAtATimeKeepsAnOwner, AnOwnerRemains
  <1>3. QED
    BY <1>1, <1>2, SpecIInv, NextOwners, PTL DEF Spec
-----------------------------------------------------------------------------
(***************************************************************************)
(* Deactivated organizations.                                              *)
(***************************************************************************)

\* An organization that is deactivated, with nobody active in it and nobody
\* about to be added, stays so: nobody is let in, and a change or another
\* deactivation still on its way makes nobody active.
THEOREM ClosedForGood == Spec => ClosedStaysClosed
  <1>1. IInv /\ [Next]_vars => [Closed => Closed']_vars
    <2> SUFFICES ASSUME IInv, [Next]_vars, Closed PROVE Closed'
      OBVIOUS
    <2>1. Additions \subseteq Requests /\ Changes \subseteq Requests /\ Closings \subseteq Requests
      BY DEF Requests
    <2>2. \A m \in Members : ~ActiveOwner(m)
      BY DEF Closed, ActiveOwner
    <2>3. CASE UNCHANGED vars
      BY <2>3 DEF vars, Closed
    <2>4. CASE \E q \in Requests : Abandon(q)
      BY <2>1, <2>4, IdleWrite DEF Abandon, Closed
    <2>5. ASSUME NEW q \in Additions, CreateActiveMembership(q) PROVE FALSE
      BY <2>5 DEF CreateActiveMembership, Closed
    <2>6. ASSUME NEW q \in Changes \union Closings,
                 deactivated', \A p \in Requests : p # q => request'[p] = request[p],
                 \A m \in Members : member'[m].status = "active" => member[m].status = "active"
          PROVE  Closed'
      BY <2>1, <2>6, MembershipAssumption DEF Closed
    <2>7. ASSUME NEW q \in Changes, ReadMembership(q) \/ CountActiveOwners(q) \/ UpdateMembershipRole(q)
          PROVE  Closed'
      <3>1. \A p \in Requests : p # q => request'[p] = request[p]
        BY <2>1, <2>7, ChangeIsQuiet DEF QuietStep
      <3>2. \A m \in Members : member'[m].status = member[m].status
        BY <2>7 DEF ReadMembership, CountActiveOwners, UpdateMembershipRole, IInv, TypeOK, MemberRow
      <3>3. deactivated'
        BY <2>7 DEF ReadMembership, CountActiveOwners, UpdateMembershipRole, Closed
      <3>4. QED
        BY <2>6, <3>1, <3>2, <3>3
    <2>8. ASSUME NEW q \in Changes, DeleteMembership(q) PROVE Closed'
      <3>1. \A p \in Requests : p # q => request'[p] = request[p]
        BY <2>1, <2>8, PcWrite, IdleWrite DEF DeleteMembership
      <3>2. \A m \in Members : member'[m].status = "active" => member[m].status = "active"
        BY <2>8 DEF DeleteMembership, IInv, TypeOK, MemberRow
      <3>3. deactivated'
        BY <2>8 DEF DeleteMembership, Closed
      <3>4. QED
        BY <2>6, <3>1, <3>2, <3>3
    <2>9. ASSUME NEW q \in Changes, LogRemoval(q) PROVE Closed'
      <3>1. \A p \in Requests : p # q => request'[p] = request[p]
        BY <2>1, <2>9, IdleWrite DEF LogRemoval
      <3>2. member' = member /\ deactivated'
        BY <2>9 DEF LogRemoval, Closed
      <3>3. QED
        BY <2>6, <3>1, <3>2
    <2>10. ASSUME NEW q \in Closings, ReadOrganization(q) \/ SuspendMembers(q) PROVE Closed'
      <3>1. \A p \in Requests : p # q => request'[p] = request[p]
        BY <2>1, <2>10, OtherSteps DEF QuietStep
      <3>2. member' = member /\ deactivated'
        BY <2>10 DEF ReadOrganization, SuspendMembers, Closed
      <3>3. QED
        BY <2>6, <3>1, <3>2
    <2>11. ASSUME NEW q \in Closings, CommitDeactivation(q) PROVE Closed'
      <3>1. \A p \in Requests : p # q => request'[p] = request[p]
        BY <2>11, CommitSteps DEF QuietStep
      <3>2. \A m \in Members : member'[m].status = "active" => member[m].status = "active"
        BY <2>11 DEF CommitDeactivation, IInv, TypeOK, MemberRow
      <3>3. deactivated'
        BY <2>11 DEF CommitDeactivation
      <3>4. QED
        BY <2>6, <3>1, <3>2, <3>3
    <2>12. ~SomeOwnerAsks
      BY <2>2 DEF SomeOwnerAsks
    <2>13. QED
      BY <2>3, <2>4, <2>5, <2>7, <2>8, <2>9, <2>10, <2>11, <2>12
         DEF Next, BeginAddition, BeginChange, BeginClosing
  <1>2. QED
    BY <1>1, SpecIInv, PTL DEF Spec, ClosedStaysClosed
=============================================================================
