--------------------------- MODULE Sessions_proofs --------------------------
(***************************************************************************)
(* What Sessions promises, for any number of sessions and requests.        *)
(*                                                                         *)
(* Refreshes are decided on one statement and take effect in another, so   *)
(* each promise needs to know what a request on its way still knows: whose *)
(* token it was shown, that nobody else has shown it, and how long ago it  *)
(* began.                                                                  *)
(***************************************************************************)
EXTENDS Sessions, FiniteSetTheorems, TLAPS

USE SessionAssumption

\* What the program counter says of a request, and a missing row of its other
\* columns.
Shapes ==
  /\ \A q \in Requests :
       /\ request[q].pc # "idle" =>
            request[q].session \in Sessions /\ session[request[q].session].token # None
       /\ request[q].pc = "found" => request[q].presented \in Tokens
       /\ request[q].pc = "answering" => request[q].fresh \in Tokens
  /\ \A s \in Sessions : session[s].token = None => session[s].revokedAt = None

\* Tokens that have not been drawn yet are nobody's.
Undrawn ==
  /\ \A s \in Sessions : session[s].token \in Tokens => session[s].token <= drawn
  /\ \A h \in held : h.token <= drawn
  /\ \A q \in Requests :
       /\ request[q].pc = "found" => request[q].presented <= drawn
       /\ request[q].pc = "answering" => request[q].fresh <= drawn
  /\ \A t \in Tokens : t > drawn => spent[t] = {}

TypeInv == TypeOK /\ Shapes /\ Undrawn

LEMMA InitTypeInv == Init => TypeInv
  BY DEF Init, TypeInv, TypeOK, Shapes, Undrawn, SessionRow, Request, NoSession, Idle, Tokens, Instants

\* A row is read and written as a record of its columns.
LEMMA RowTypes ==
  ASSUME TypeOK
  PROVE  /\ \A s \in Sessions : /\ session[s] \in SessionRow
                                /\ session[s].token \in Tokens \union {None}
                                /\ session[s].expires \in Instants
                                /\ session[s].revokedAt \in Instants \union {None}
         /\ \A q \in Requests : /\ request[q] \in Request
                                /\ request[q].session \in Sessions \union {None}
                                /\ request[q].aged \in BOOLEAN
         /\ drawn \in Nat /\ now \in Nat /\ drawn <= MaxTokens /\ now <= MaxTime
         /\ \A t \in Tokens : t \in Nat /\ t # None
         /\ now + RefreshTTL \in Instants /\ now \in Instants
  BY DEF TypeOK, SessionRow, Request, Tokens, Instants

LEMMA TypeInvStep == TypeInv /\ [Next]_vars => TypeInv'
<1> SUFFICES ASSUME TypeInv, [Next]_vars PROVE TypeInv'
  OBVIOUS
<1>0. TypeOK /\ Shapes /\ Undrawn
  BY DEF TypeInv
<1>t. /\ \A s \in Sessions : /\ session[s] \in SessionRow
                             /\ session[s].token \in Tokens \union {None}
                             /\ session[s].expires \in Instants
                             /\ session[s].revokedAt \in Instants \union {None}
      /\ \A q \in Requests : /\ request[q] \in Request
                             /\ request[q].session \in Sessions \union {None}
                             /\ request[q].aged \in BOOLEAN
      /\ drawn \in Nat /\ now \in Nat /\ drawn <= MaxTokens /\ now <= MaxTime
      /\ \A t \in Tokens : t \in Nat /\ t # None
      /\ now + RefreshTTL \in Instants /\ now \in Instants
  BY <1>0, RowTypes
<1>1. CASE Tick
  <2>1. \A q \in Requests :
          /\ request'[q] \in Request
          /\ request'[q].pc = request[q].pc /\ request'[q].session = request[q].session
          /\ request'[q].presented = request[q].presented /\ request'[q].fresh = request[q].fresh
    BY <1>t, <1>1 DEF Tick, Request
  <2>2. request' \in [Requests -> Request]
    BY <2>1, <1>1 DEF Tick
  <2>3. TypeOK'
    BY <1>0, <1>t, <1>1, <2>2 DEF Tick, TypeOK
  <2>. QED
    BY <1>0, <1>1, <2>1, <2>3 DEF Tick, TypeInv, Shapes, Undrawn
<1>2. ASSUME NEW q \in Requests, NEW s \in Sessions, InsertAuthSession(q, s) PROVE TypeInv'
  <2> DEFINE row == [token |-> drawn + 1, expires |-> now + RefreshTTL, revokedAt |-> None]
             req == [Idle EXCEPT !.pc = "answering", !.session = s, !.fresh = drawn + 1]
  <2>1. drawn + 1 \in Tokens /\ drawn + 1 # None
    BY <1>t, <1>2 DEF InsertAuthSession, Tokens
  <2>2. row \in SessionRow /\ row.token = drawn + 1 /\ row.revokedAt = None
    BY <1>t, <2>1 DEF SessionRow
  <2>3. /\ req \in Request /\ req.pc = "answering" /\ req.session = s /\ req.fresh = drawn + 1
    BY <2>1 DEF Request, Idle
  <2>4. session' = [session EXCEPT ![s] = row] /\ request' = [request EXCEPT ![q] = req]
    BY <1>2 DEF InsertAuthSession
  <2>. HIDE DEF row, req
  <2>5. TypeOK'
    BY <1>0, <1>t, <1>2, <2>1, <2>2, <2>3, <2>4 DEF InsertAuthSession, TypeOK, Undrawn
  <2>6. Shapes'
    BY <1>0, <1>t, <2>1, <2>2, <2>3, <2>4 DEF TypeOK, Shapes
  <2>7. Undrawn'
    <3>1. /\ drawn' = drawn + 1 /\ held' = held /\ spent' = spent
          /\ \A h \in held : h.token \in Nat
      BY <1>0, <1>t, <1>2 DEF InsertAuthSession, TypeOK, RefreshToken
    <3>2. \A r \in Sessions : session'[r].token \in Tokens => session'[r].token <= drawn + 1
      BY <1>0, <1>t, <2>2, <2>4 DEF TypeOK, Undrawn
    <3>3. \A p \in Requests :
            /\ request'[p].pc = "found" => request'[p].presented <= drawn + 1
            /\ request'[p].pc = "answering" => request'[p].fresh <= drawn + 1
      BY <1>0, <1>t, <2>3, <2>4 DEF TypeOK, Undrawn, Shapes
    <3>. QED
      BY <1>0, <1>t, <3>1, <3>2, <3>3 DEF Undrawn
  <2>. QED
    BY <2>5, <2>6, <2>7 DEF TypeInv
<1>3. ASSUME NEW q \in Requests, NEW h \in held, NEW s \in Sessions,
             GetAuthSessionByRefreshHash(q, h.token, s)
      PROVE  TypeInv'
  BY <1>0, <1>t, <1>3 DEF GetAuthSessionByRefreshHash, TypeInv, TypeOK, Shapes, Undrawn, Request, RefreshToken, Idle
<1>4. ASSUME NEW q \in Requests, UpdateAuthSessionRefresh(q) PROVE TypeInv'
  <2> DEFINE s == request[q].session
             t == request[q].presented
             row == [session[s] EXCEPT !.token = drawn + 1, !.expires = now + RefreshTTL]
             req == [request[q] EXCEPT !.pc = "answering", !.fresh = drawn + 1]
  <2>1. drawn + 1 \in Tokens /\ drawn + 1 # None /\ drawn' = drawn + 1
    BY <1>t, <1>4 DEF UpdateAuthSessionRefresh, Tokens
  <2>2. s \in Sessions /\ session[s].token # None /\ t \in Tokens /\ t <= drawn
    BY <1>0, <1>4 DEF UpdateAuthSessionRefresh, Shapes, Undrawn
  <2>3. /\ row \in SessionRow /\ row.token = drawn + 1
        /\ row.revokedAt = session[s].revokedAt
    BY <1>t, <2>1, <2>2 DEF SessionRow
  <2>4. req \in Request /\ req.pc = "answering" /\ req.session = s /\ req.fresh = drawn + 1
    BY <1>t, <2>1 DEF Request
  <2>5. CASE ~Live(s)
    <3>1. request' = [request EXCEPT ![q] = Idle] /\ UNCHANGED <<session, spent>>
      BY <1>4, <2>5 DEF UpdateAuthSessionRefresh
    <3>2. Idle \in Request /\ Idle.pc = "idle"
      BY DEF Idle, Request
    <3>3. \A p \in Requests : request'[p].pc # "idle" => request'[p] = request[p]
      BY <1>0, <3>1, <3>2 DEF TypeOK
    <3>4. TypeOK'
      BY <1>0, <1>4, <2>1, <3>1, <3>2 DEF UpdateAuthSessionRefresh, TypeOK, Tokens
    <3>5. Shapes'
      BY <1>0, <3>1, <3>3 DEF Shapes
    <3>6. UNCHANGED held /\ \A h \in held : h.token \in Nat
      BY <1>0, <1>t, <1>4 DEF UpdateAuthSessionRefresh, TypeOK, RefreshToken
    <3>7. Undrawn'
      BY <1>0, <1>t, <2>1, <3>1, <3>3, <3>6 DEF Shapes, Undrawn
    <3>. QED
      BY <3>4, <3>5, <3>7 DEF TypeInv
  <2>6. CASE Live(s)
    <3>1. session' = [session EXCEPT ![s] = row] /\ request' = [request EXCEPT ![q] = req]
      BY <1>0, <1>4, <2>2, <2>6 DEF UpdateAuthSessionRefresh, TypeOK
    <3>2. spent' = [spent EXCEPT ![t] = @ \union {drawn + 1}]
      BY <1>4, <2>6 DEF UpdateAuthSessionRefresh
    <3>. HIDE DEF row, req, s, t
    <3>3. TypeOK'
      <4>1. spent' \in [Tokens -> SUBSET Tokens]
        BY <1>0, <2>1, <2>2, <3>2 DEF TypeOK
      <4>2. \A r \in Sessions : session'[r].token = IF r = s THEN drawn + 1 ELSE session[r].token
        BY <1>0, <2>2, <2>3, <3>1 DEF TypeOK
      <4>3. \A r \in Sessions : session[r].token # drawn + 1
        BY <1>0, <1>t, <2>1 DEF Undrawn
      <4>. QED
        BY <1>0, <1>t, <1>4, <2>1, <2>2, <2>3, <2>4, <3>1, <4>1, <4>2, <4>3
        DEF UpdateAuthSessionRefresh, TypeOK
    <3>4. Shapes'
      BY <1>0, <1>t, <2>1, <2>2, <2>3, <2>4, <3>1 DEF TypeOK, Shapes
    <3>5. Undrawn'
      <4>1. /\ held' = held
            /\ \A h \in held : h.token \in Nat
        BY <1>0, <1>t, <1>4 DEF UpdateAuthSessionRefresh, TypeOK, RefreshToken
      <4>2. \A r \in Sessions : session'[r].token \in Tokens => session'[r].token <= drawn + 1
        BY <1>0, <1>t, <2>3, <3>1 DEF TypeOK, Undrawn
      <4>3. \A p \in Requests :
              /\ request'[p].pc = "found" => request'[p].presented <= drawn + 1
              /\ request'[p].pc = "answering" => request'[p].fresh <= drawn + 1
        BY <1>0, <1>t, <2>4, <3>1 DEF TypeOK, Undrawn, Shapes
      <4>4. \A u \in Tokens : u > drawn + 1 => spent'[u] = {}
        BY <1>0, <1>t, <2>2, <3>2 DEF TypeOK, Undrawn
      <4>. QED
        BY <1>0, <1>t, <2>1, <4>1, <4>2, <4>3, <4>4 DEF Undrawn
    <3>. QED
      BY <3>3, <3>4, <3>5 DEF TypeInv
  <2>. QED
    BY <2>5, <2>6
<1>5. ASSUME NEW q \in Requests, IssueAccessToken(q) PROVE TypeInv'
  BY <1>0, <1>t, <1>5 DEF IssueAccessToken, TypeInv, TypeOK, Shapes, Undrawn, Request, RefreshToken, AccessToken, Idle
<1>6. ASSUME NEW q \in Requests, NEW a \in access, SessionBelongsToUser(q, a) PROVE TypeInv'
  BY <1>0, <1>t, <1>6 DEF SessionBelongsToUser, TypeInv, TypeOK, Shapes, Undrawn, Request, AccessToken, Idle, Live
<1>7. ASSUME NEW q \in Requests, RevokeAuthSession(q) PROVE TypeInv'
  BY <1>0, <1>t, <1>7 DEF RevokeAuthSession, TypeInv, TypeOK, Shapes, Undrawn, Request, SessionRow, Idle, Live
<1>8. ASSUME NEW q \in Requests, Abandon(q) PROVE TypeInv'
  BY <1>0, <1>t, <1>8 DEF Abandon, TypeInv, TypeOK, Shapes, Undrawn, Request, Idle
<1>9. CASE UNCHANGED vars
  BY <1>0, <1>9 DEF TypeInv, TypeOK, Shapes, Undrawn, vars
<1>. QED
  BY <1>1, <1>2, <1>3, <1>4, <1>5, <1>6, <1>7, <1>8, <1>9 DEF Next

\* Every row keeps to its columns, and no two sessions have one token: what a
\* rotation stores is drawn only then.
THEOREM TypeCorrect == Spec => []TypeOK
<1>1. TypeInv => TypeOK
  BY DEF TypeInv
<1>. QED
  BY <1>1, InitTypeInv, TypeInvStep, PTL DEF Spec
-----------------------------------------------------------------------------
(***************************************************************************)
(* A logout is final.                                                      *)
(***************************************************************************)

LEMMA RevokedStays ==
  ASSUME TypeInv, [Next]_vars, NEW s \in Sessions, session[s].revokedAt # None
  PROVE  session'[s] = session[s]
<1>1. TypeOK /\ Shapes /\ session[s].token # None
  BY DEF TypeInv, Shapes
<1>2. ASSUME NEW q \in Requests, NEW r \in Sessions, InsertAuthSession(q, r)
      PROVE  session'[s] = session[s]
  BY <1>1, <1>2 DEF InsertAuthSession, TypeOK
<1>3. ASSUME NEW q \in Requests, UpdateAuthSessionRefresh(q) PROVE session'[s] = session[s]
  BY <1>1, <1>3 DEF UpdateAuthSessionRefresh, TypeOK, Live
<1>4. ASSUME NEW q \in Requests, RevokeAuthSession(q) PROVE session'[s] = session[s]
  BY <1>1, <1>4 DEF RevokeAuthSession, TypeOK, Live
<1>. QED
  BY <1>2, <1>3, <1>4
  DEF Next, vars, Tick, GetAuthSessionByRefreshHash, IssueAccessToken, SessionBelongsToUser, Abandon

\* A logout is for good, also for a refresh that had found the session before.
THEOREM LogoutFinal == Spec => LogoutIsFinal
<1>1. TypeInv /\ [Next]_vars =>
        [\A s \in Sessions : session[s].revokedAt # None => session'[s] = session[s]]_vars
  BY RevokedStays
<1>. QED
  BY <1>1, InitTypeInv, TypeInvStep, PTL DEF Spec, LogoutIsFinal
-----------------------------------------------------------------------------
(***************************************************************************)
(* Whose a token is.                                                       *)
(***************************************************************************)

\* Token t has been seen as a token of session s: it is in its row, with a
\* client, or with a request.
Claim(t, s) ==
  \/ session[s].token = t
  \/ \E h \in held : h.token = t /\ h.session = s
  \/ \E q \in Requests :
       /\ request[q].session = s
       /\ \/ request[q].pc = "found" /\ request[q].presented = t
          \/ request[q].pc = "answering" /\ request[q].fresh = t

ClaimInv ==
  \A t \in Tokens, s \in Sessions : Claim(t, s) =>
    /\ t <= drawn
    /\ session[s].token # None
    /\ \A r \in Sessions : Claim(t, r) => r = s

\* A rotation that finds its session not revoked.
Rotation(q) == UpdateAuthSessionRefresh(q) /\ Live(request[q].session)

\* What a rotation does.
LEMMA RotationStep ==
  ASSUME TypeInv, NEW q \in Requests, Rotation(q)
  PROVE  /\ request[q].pc = "found"
         /\ request[q].session \in Sessions /\ request[q].presented \in Tokens
         /\ request[q].presented <= drawn
         /\ drawn + 1 \in Tokens /\ drawn' = drawn + 1
         /\ \A s \in Sessions : session'[s].token =
              IF s = request[q].session THEN drawn + 1 ELSE session[s].token
         /\ \A t \in Tokens : spent'[t] =
              IF t = request[q].presented THEN spent[t] \union {drawn + 1} ELSE spent[t]
         /\ \A p \in Requests \ {q} : request'[p] = request[p]
         /\ request'[q].pc = "answering" /\ request'[q].fresh = drawn + 1
         /\ request'[q].session = request[q].session
         /\ UNCHANGED <<held, overlapped>>
<1>1. TypeOK /\ Shapes /\ Undrawn
  BY DEF TypeInv
<1>2. request[q] \in Request /\ \A s \in Sessions : session[s] \in SessionRow
  BY <1>1, RowTypes
<1>. QED
  BY <1>1, <1>2 DEF Rotation, UpdateAuthSessionRefresh, TypeOK, Shapes, Undrawn, Request, SessionRow, Tokens

\* What every other step does with tokens: a session's token is drawn once,
\* nothing is exchanged, and a request that comes to know a session's token
\* remembers whether another one did.
Found(q) == request[q].pc = "found"
Presents(q) == Found(q)'
               /\ session[request'[q].session].token = request'[q].presented
               /\ request'[q].session \in Sessions
               /\ \A p \in Requests :
                    /\ p # q => request'[p] = request[p]
                    /\ Found(p) /\ request[p].session = request'[q].session =>
                         request'[q].session \in overlapped'

LEMMA OtherStep ==
  ASSUME TypeInv, [Next]_vars, \A q \in Requests : ~Rotation(q)
  PROVE  /\ spent' = spent
         /\ overlapped \subseteq overlapped'
         /\ \A s \in Sessions :
              \/ session'[s].token = session[s].token
              \/ /\ session[s].token = None /\ session'[s].token = drawn + 1
                 /\ drawn' = drawn + 1 /\ drawn + 1 \in Tokens
         /\ \A q \in Requests : Found(q)' =>
              \/ /\ Found(q)
                 /\ request'[q].session = request[q].session
                 /\ request'[q].presented = request[q].presented
              \/ Presents(q)
<1>1. TypeOK /\ Shapes /\ Undrawn
  BY DEF TypeInv
<1>2. \A q \in Requests : request[q] \in Request
  BY <1>1, RowTypes
<1>3. CASE Tick
  BY <1>1, <1>2, <1>3 DEF Tick, Request, Found
<1>4. ASSUME NEW q \in Requests, NEW s \in Sessions, InsertAuthSession(q, s)
      PROVE  /\ spent' = spent
             /\ overlapped \subseteq overlapped'
             /\ \A r \in Sessions :
                  \/ session'[r].token = session[r].token
                  \/ /\ session[r].token = None /\ session'[r].token = drawn + 1
                     /\ drawn' = drawn + 1 /\ drawn + 1 \in Tokens
             /\ \A p \in Requests : Found(p)' => request'[p] = request[p]
  BY <1>1, <1>2, <1>4 DEF InsertAuthSession, TypeOK, Idle, Found, Tokens
<1>5. ASSUME NEW q \in Requests, NEW h \in held, NEW s \in Sessions,
             GetAuthSessionByRefreshHash(q, h.token, s)
      PROVE  /\ Presents(q)
             /\ UNCHANGED <<spent, session>> /\ overlapped \subseteq overlapped'
             /\ \A p \in Requests : p # q => request'[p] = request[p]
  BY <1>1, <1>2, <1>5 DEF GetAuthSessionByRefreshHash, TypeOK, Idle, Found, Presents
<1>6. ASSUME NEW q \in Requests, UpdateAuthSessionRefresh(q)
      PROVE  /\ UNCHANGED <<spent, session, overlapped>>
             /\ \A p \in Requests : Found(p)' => request'[p] = request[p]
  BY <1>1, <1>2, <1>6 DEF UpdateAuthSessionRefresh, Rotation, TypeOK, Idle, Found
<1>7. ASSUME NEW q \in Requests, IssueAccessToken(q)
      PROVE  /\ UNCHANGED <<spent, session, overlapped>>
             /\ \A p \in Requests : Found(p)' => request'[p] = request[p]
  BY <1>1, <1>2, <1>7 DEF IssueAccessToken, TypeOK, Idle, Found
<1>8. ASSUME NEW q \in Requests, NEW a \in access, SessionBelongsToUser(q, a)
      PROVE  /\ UNCHANGED <<spent, session, overlapped>>
             /\ \A p \in Requests : Found(p)' => request'[p] = request[p]
  BY <1>1, <1>2, <1>8 DEF SessionBelongsToUser, TypeOK, Idle, Found
<1>9. ASSUME NEW q \in Requests, RevokeAuthSession(q)
      PROVE  /\ UNCHANGED <<spent, overlapped>>
             /\ \A s \in Sessions : session'[s].token = session[s].token
             /\ \A p \in Requests : Found(p)' => request'[p] = request[p]
  BY <1>1, <1>2, <1>9, RowTypes DEF RevokeAuthSession, TypeOK, Idle, Found, SessionRow
<1>10. ASSUME NEW q \in Requests, Abandon(q)
       PROVE  /\ UNCHANGED <<spent, session, overlapped>>
              /\ \A p \in Requests : Found(p)' => request'[p] = request[p]
  BY <1>1, <1>2, <1>10 DEF Abandon, TypeOK, Idle, Found
<1>11. CASE UNCHANGED vars
  BY <1>11 DEF vars, Found
<1>12. ASSUME NEW q \in Requests,
              \/ \E s \in Sessions : InsertAuthSession(q, s)
              \/ UpdateAuthSessionRefresh(q)
              \/ IssueAccessToken(q)
              \/ \E a \in access : SessionBelongsToUser(q, a)
              \/ RevokeAuthSession(q)
              \/ Abandon(q)
       PROVE  /\ spent' = spent
              /\ overlapped \subseteq overlapped'
              /\ \A s \in Sessions :
                   \/ session'[s].token = session[s].token
                   \/ /\ session[s].token = None /\ session'[s].token = drawn + 1
                      /\ drawn' = drawn + 1 /\ drawn + 1 \in Tokens
              /\ \A p \in Requests : Found(p)' => request'[p] = request[p]
  BY <1>4, <1>6, <1>7, <1>8, <1>9, <1>10, <1>12
<1>13. ASSUME NEW q \in Requests, NEW p \in Requests, Found(p)', request'[p] = request[p]
       PROVE  Found(p)
  BY <1>13 DEF Found
<1>14. ASSUME NEW q \in Requests, NEW h \in held, NEW s \in Sessions,
              GetAuthSessionByRefreshHash(q, h.token, s)
       PROVE  \A p \in Requests : Found(p)' => Presents(p) \/ (p # q /\ request'[p] = request[p])
  BY <1>5, <1>14
<1>. QED
  BY <1>3, <1>5, <1>11, <1>12, <1>13, <1>14 DEF Next

\* A step lets a claim spread only from where it was, or draws a new token.
Drawing(t, s) == t = drawn + 1 /\ session'[s].token = t

LEMMA ClaimStep ==
  ASSUME TypeInv, [Next]_vars, NEW t \in Tokens, NEW s \in Sessions, Claim(t, s)'
  PROVE  Claim(t, s) \/ Drawing(t, s)
<1>1. TypeOK /\ Shapes /\ Undrawn
  BY DEF TypeInv
<1>2. \A q \in Requests : request[q] \in Request
  BY <1>1, RowTypes
<1>3. t # None
  BY DEF Tokens
<1>4. CASE Tick
  BY <1>1, <1>2, <1>4 DEF Tick, Request, Claim
<1>5. ASSUME NEW q \in Requests, NEW r \in Sessions, InsertAuthSession(q, r)
      PROVE  Claim(t, s) \/ Drawing(t, s)
  BY <1>1, <1>2, <1>5 DEF InsertAuthSession, TypeOK, Idle, Claim, Drawing
<1>6. ASSUME NEW q \in Requests, NEW h \in held, NEW r \in Sessions,
             GetAuthSessionByRefreshHash(q, h.token, r)
      PROVE  Claim(t, s) \/ Drawing(t, s)
  BY <1>1, <1>2, <1>6 DEF GetAuthSessionByRefreshHash, TypeOK, Idle, Claim
<1>7. ASSUME NEW q \in Requests, UpdateAuthSessionRefresh(q)
      PROVE  Claim(t, s) \/ Drawing(t, s)
  <2>1. CASE Rotation(q)
    BY <2>1, <1>3, RotationStep DEF Claim, Drawing
  <2>2. CASE ~Rotation(q)
    BY <1>1, <1>2, <1>7, <2>2 DEF UpdateAuthSessionRefresh, Rotation, TypeOK, Idle, Claim
  <2>. QED
    BY <2>1, <2>2
<1>8. ASSUME NEW q \in Requests, IssueAccessToken(q) PROVE Claim(t, s) \/ Drawing(t, s)
  BY <1>1, <1>2, <1>8 DEF IssueAccessToken, TypeOK, Idle, Claim
<1>9. ASSUME NEW q \in Requests, NEW a \in access, SessionBelongsToUser(q, a)
      PROVE  Claim(t, s) \/ Drawing(t, s)
  BY <1>1, <1>2, <1>9 DEF SessionBelongsToUser, TypeOK, Idle, Claim
<1>10. ASSUME NEW q \in Requests, RevokeAuthSession(q) PROVE Claim(t, s) \/ Drawing(t, s)
  BY <1>1, <1>2, <1>10, RowTypes DEF RevokeAuthSession, TypeOK, Idle, SessionRow, Claim
<1>11. ASSUME NEW q \in Requests, Abandon(q) PROVE Claim(t, s) \/ Drawing(t, s)
  BY <1>1, <1>2, <1>11 DEF Abandon, TypeOK, Idle, Claim
<1>12. CASE UNCHANGED vars
  BY <1>12 DEF vars, Claim
<1>. QED
  BY <1>4, <1>5, <1>6, <1>7, <1>8, <1>9, <1>10, <1>11, <1>12 DEF Next

\* A session keeps having a token.
LEMMA TokensStay ==
  ASSUME TypeInv, [Next]_vars, NEW s \in Sessions, session[s].token # None
  PROVE  session'[s].token # None
<1>1. CASE \E q \in Requests : Rotation(q)
  BY <1>1, RotationStep DEF Tokens
<1>2. CASE \A q \in Requests : ~Rotation(q)
  BY <1>2, OtherStep
<1>. QED
  BY <1>1, <1>2

LEMMA ClaimsBelow ==
  ASSUME TypeInv, NEW t \in Tokens, NEW s \in Sessions, Claim(t, s)
  PROVE  t <= drawn
  BY DEF TypeInv, Undrawn, Claim

LEMMA InitClaimInv == Init => ClaimInv
  BY DEF Init, ClaimInv, Claim, NoSession, Idle, Tokens

LEMMA ClaimInvStep == TypeInv /\ TypeInv' /\ ClaimInv /\ [Next]_vars => ClaimInv'
<1> SUFFICES ASSUME TypeInv, TypeInv', ClaimInv, [Next]_vars,
                    NEW t \in Tokens, NEW s \in Sessions, Claim(t, s)'
             PROVE  /\ t <= drawn'
                    /\ session'[s].token # None
                    /\ \A r \in Sessions : Claim(t, r)' => r = s
  BY DEF ClaimInv
<1>1. t <= drawn'
  BY DEF TypeInv, Undrawn, Claim
<1>2. Claim(t, s) \/ Drawing(t, s)
  BY ClaimStep
<1>3. session'[s].token # None
  BY <1>2, TokensStay DEF ClaimInv, Drawing, Tokens
<1>4. ASSUME NEW r \in Sessions, Claim(t, r)' PROVE r = s
  <2>1. Claim(t, r) \/ Drawing(t, r)
    BY <1>4, ClaimStep
  <2>2. CASE Drawing(t, s) /\ Drawing(t, r)
    BY <2>2 DEF Drawing, TypeInv, TypeOK, Tokens
  <2>3. CASE Claim(t, s) /\ Claim(t, r)
    BY <2>3 DEF ClaimInv
  <2>4. ASSUME NEW u \in Sessions, NEW v \in Sessions, Claim(t, u), Drawing(t, v) PROVE FALSE
    BY <2>4, RowTypes DEF ClaimInv, Drawing, TypeInv
  <2>. QED
    BY <1>2, <2>1, <2>2, <2>3, <2>4
<1>. QED
  BY <1>1, <1>3, <1>4
-----------------------------------------------------------------------------
(***************************************************************************)
(* What a token is worth, where refreshes of a session do not overlap.     *)
(***************************************************************************)

AtMostOne(S) == \A a, b \in S : a = b

\* The parts are about tokens that have been seen, requests that are about to
\* exchange one, and tokens that are still their session's.
SpentInv ==
  /\ \A t \in Tokens, s \in Sessions \ overlapped : Claim(t, s) =>
       /\ AtMostOne(spent[t])
       /\ spent[t] = {} => session[s].token = t
  /\ \A q \in Requests : Found(q) /\ request[q].session \notin overlapped =>
       /\ spent[request[q].presented] = {}
       /\ \A p \in Requests : Found(p) /\ request[p].session = request[q].session => p = q
  /\ \A s \in Sessions \ overlapped :
       session[s].token # None => spent[session[s].token] = {}

LEMMA InitSpentInv == Init => SpentInv
  BY DEF Init, SpentInv, AtMostOne, Claim, Found, NoSession, Idle, Tokens

LEMMA SpentInvRotation ==
  ASSUME TypeInv, ClaimInv, SpentInv, [Next]_vars, NEW q \in Requests, Rotation(q)
  PROVE  SpentInv'
<1> DEFINE s0 == request[q].session
           t0 == request[q].presented
<1>1. /\ Found(q) /\ s0 \in Sessions /\ t0 \in Tokens /\ t0 <= drawn
      /\ drawn \in Nat /\ drawn + 1 \in Tokens /\ drawn + 1 # t0
      /\ \A s \in Sessions : session'[s].token =
           IF s = s0 THEN drawn + 1 ELSE session[s].token
      /\ \A t \in Tokens : spent'[t] =
           IF t = t0 THEN spent[t] \union {drawn + 1} ELSE spent[t]
      /\ \A p \in Requests : Found(p)' => p # q /\ request'[p] = request[p] /\ Found(p)
      /\ overlapped' = overlapped
  BY RotationStep, RowTypes DEF Found, TypeInv, Tokens
<1>2. spent[drawn + 1] = {}
  BY <1>1 DEF TypeInv, Undrawn
<1>3. Claim(t0, s0)
  BY <1>1 DEF Claim, Found
<1>4. \A s \in Sessions : session[s].token \in Tokens \union {None} /\ None \notin Tokens
  BY RowTypes DEF TypeInv, Tokens
<1>5. s0 \notin overlapped => spent[t0] = {} /\ session[s0].token = t0
  BY <1>1, <1>3 DEF SpentInv
<1> HIDE DEF s0, t0
<1>6. ASSUME NEW t \in Tokens, NEW s \in Sessions \ overlapped', Claim(t, s)'
      PROVE  AtMostOne(spent'[t]) /\ (spent'[t] = {} => session'[s].token = t)
  <2>1. CASE Drawing(t, s)
    BY <1>1, <1>2, <2>1 DEF Drawing, AtMostOne
  <2>2. CASE Claim(t, s)
    <3>1. AtMostOne(spent[t]) /\ (spent[t] = {} => session[s].token = t)
      BY <1>1, <2>2 DEF SpentInv
    <3>2. CASE t = t0
      <4>1. s = s0
        BY <1>1, <1>3, <2>2, <3>2 DEF ClaimInv
      <4>. QED
        BY <1>1, <1>5, <3>2, <4>1 DEF AtMostOne
    <3>3. CASE t # t0
      BY <1>1, <1>5, <3>1, <3>3
    <3>. QED
      BY <3>2, <3>3
  <2>. QED
    BY <1>6, <2>1, <2>2, ClaimStep
<1>7. ASSUME NEW p \in Requests, Found(p)', request'[p].session \notin overlapped'
      PROVE  /\ spent'[request'[p].presented] = {}
             /\ \A r \in Requests : Found(r)' /\ request'[r].session = request'[p].session => r = p
  <2>1. Found(p) /\ p # q /\ request'[p] = request[p]
    BY <1>1, <1>7
  <2>2. request[p].session \in Sessions /\ request[p].presented \in Tokens
    BY <2>1 DEF TypeInv, Shapes, Found
  <2>3. request[p].session # s0
    BY <1>1, <1>7, <2>1 DEF SpentInv, s0
  <2>4. Claim(request[p].presented, request[p].session)
    BY <2>1 DEF Claim, Found
  <2>5. request[p].presented # t0
    BY <1>1, <1>3, <2>2, <2>3, <2>4 DEF ClaimInv
  <2>. QED
    <3>1. /\ spent[request[p].presented] = {}
          /\ \A r \in Requests : Found(r) /\ request[r].session = request[p].session => r = p
      BY <1>1, <1>7, <2>1 DEF SpentInv
    <3>2. spent'[request[p].presented] = {}
      BY <1>1, <2>2, <2>5, <3>1
    <3>. QED
      BY <1>1, <2>1, <3>1, <3>2
<1>8. ASSUME NEW s \in Sessions \ overlapped', session'[s].token # None
      PROVE  spent'[session'[s].token] = {}
  <2>1. CASE s = s0
    BY <1>1, <1>2, <2>1
  <2>2. CASE s # s0
    <3>1. session'[s].token = session[s].token /\ session[s].token \in Tokens
      BY <1>1, <1>4, <1>8, <2>2
    <3>2. Claim(session[s].token, s)
      BY DEF Claim
    <3>3. session[s].token # t0
      BY <1>1, <1>3, <2>2, <3>1, <3>2 DEF ClaimInv
    <3>. QED
      BY <1>1, <1>8, <3>1, <3>3 DEF SpentInv
  <2>. QED
    BY <2>1, <2>2
<1>. QED
  BY <1>6, <1>7, <1>8 DEF SpentInv

LEMMA SpentInvOther ==
  ASSUME TypeInv, ClaimInv, SpentInv, [Next]_vars, \A q \in Requests : ~Rotation(q)
  PROVE  SpentInv'
<1>1. /\ spent' = spent
      /\ overlapped \subseteq overlapped'
      /\ \A s \in Sessions :
           \/ session'[s].token = session[s].token
           \/ /\ session[s].token = None /\ session'[s].token = drawn + 1
              /\ drawn + 1 \in Tokens
      /\ \A q \in Requests : Found(q)' =>
           \/ /\ Found(q)
              /\ request'[q].session = request[q].session
              /\ request'[q].presented = request[q].presented
           \/ Presents(q)
  BY OtherStep
<1>2. drawn \in Nat /\ (drawn + 1 \in Tokens => spent[drawn + 1] = {})
  BY RowTypes DEF TypeInv, Undrawn
<1>3. ASSUME NEW t \in Tokens, NEW s \in Sessions \ overlapped', Claim(t, s)'
      PROVE  AtMostOne(spent'[t]) /\ (spent'[t] = {} => session'[s].token = t)
  <2>1. CASE Drawing(t, s)
    BY <1>1, <1>2, <2>1 DEF Drawing, AtMostOne
  <2>2. CASE Claim(t, s)
    BY <1>1, <2>2 DEF SpentInv, ClaimInv
  <2>. QED
    BY <1>3, <2>1, <2>2, ClaimStep
<1>4. ASSUME NEW q \in Requests, Found(q)', request'[q].session \notin overlapped'
      PROVE  /\ spent'[request'[q].presented] = {}
             /\ \A p \in Requests : Found(p)' /\ request'[p].session = request'[q].session => p = q
  <2>1. CASE \A p \in Requests : Found(p)' => ~Presents(p)
    BY <1>1, <1>4, <2>1 DEF SpentInv
  <2>2. ASSUME NEW p \in Requests, Presents(p)
        PROVE  /\ spent'[request'[q].presented] = {}
               /\ \A r \in Requests : Found(r)' /\ request'[r].session = request'[q].session => r = q
    <3>1. \A r \in Requests : r # p /\ Found(r)' => Found(r) /\ request'[r] = request[r]
      BY <2>2 DEF Presents, Found
    <3>2. \A r \in Requests : r # p /\ Found(r)' /\ request'[r].session = request'[p].session =>
            request'[p].session \in overlapped'
      BY <2>2, <3>1 DEF Presents
    <3>3. CASE q = p
      <4>1. /\ request'[p].session \in Sessions \ overlapped
            /\ session[request'[p].session].token = request'[p].presented
        BY <1>1, <1>4, <2>2, <3>3 DEF Presents
      <4>2. session[request'[p].session].token # None => spent'[request'[p].presented] = {}
        BY <1>1, <4>1 DEF SpentInv
      <4>3. request'[p].session \in Sessions => session[request'[p].session].token # None
        <5>1. TypeInv'
          BY TypeInvStep
        <5>2. session'[request'[p].session].token # None
          BY <1>4, <3>3, <5>1 DEF TypeInv, Shapes, Found
        <5>3. request'[p].pc = "found"
          BY <1>4, <3>3 DEF Found
        <5>4. request'[p].presented \in Tokens
          BY <5>1, <5>3 DEF TypeInv, Shapes
        <5>. QED
          BY <2>2, <5>4 DEF Presents, Tokens
      <4>. QED
        BY <1>4, <3>2, <3>3, <4>1, <4>2, <4>3
    <3>4. CASE q # p
      <4>1. Found(q) /\ request'[q] = request[q]
        BY <1>4, <3>1, <3>4
      <4>2. /\ spent[request[q].presented] = {}
            /\ \A r \in Requests : Found(r) /\ request[r].session = request[q].session => r = q
        BY <1>1, <1>4, <4>1 DEF SpentInv
      <4>3. request'[p].session # request'[q].session
        BY <1>4, <2>2, <3>4, <4>1 DEF Presents
      <4>. QED
        BY <1>1, <3>1, <4>1, <4>2, <4>3
    <3>. QED
      BY <3>3, <3>4
  <2>. QED
    BY <2>1, <2>2
<1>5. ASSUME NEW s \in Sessions \ overlapped', session'[s].token # None
      PROVE  spent'[session'[s].token] = {}
  BY <1>1, <1>2, <1>5 DEF SpentInv
<1>. QED
  BY <1>3, <1>4, <1>5 DEF SpentInv

IInv == TypeInv /\ ClaimInv /\ SpentInv

LEMMA AlwaysIInv == Spec => []IInv
<1>1. Init => IInv
  BY InitTypeInv, InitClaimInv, InitSpentInv DEF IInv
<1>2. IInv /\ [Next]_vars => IInv'
  BY TypeInvStep, ClaimInvStep, SpentInvRotation, SpentInvOther DEF IInv
<1>. QED
  BY <1>1, <1>2, PTL DEF Spec

LEMMA AtMostOneCounted ==
  ASSUME NEW S, AtMostOne(S) PROVE Cardinality(S) <= 1
<1>1. CASE S = {}
  BY <1>1, FS_EmptySet
<1>2. ASSUME NEW x \in S PROVE Cardinality(S) <= 1
  <2>1. S = {x}
    BY <1>2 DEF AtMostOne
  <2>. QED
    BY <2>1, FS_Singleton
<1>. QED
  BY <1>1, <1>2

\* A refresh token is exchanged once, unless refreshes of its session overlap.
THEOREM SpentOnce == Spec => []TokensAreSpentOnce
<1>1. IInv => TokensAreSpentOnce
  <2> SUFFICES ASSUME IInv, NEW h \in held, h.session \notin overlapped,
                      Cardinality(spent[h.token]) > 1
               PROVE  FALSE
    BY DEF TokensAreSpentOnce
  <2>1. h.token \in Tokens /\ h.session \in Sessions /\ Claim(h.token, h.session)
    BY DEF IInv, TypeInv, TypeOK, RefreshToken, Claim
  <2>2. AtMostOne(spent[h.token])
    BY <2>1 DEF IInv, SpentInv
  <2>3. spent[h.token] \subseteq Tokens
    BY <2>1 DEF IInv, TypeInv, TypeOK
  <2>4. Cardinality(spent[h.token]) \in Nat
    <3>1. IsFiniteSet(Tokens)
      BY FS_Interval DEF Tokens
    <3>. QED
      BY <2>3, <3>1, FS_Subset, FS_CardinalityType
  <2>. QED
    BY <2>2, <2>4, AtMostOneCounted
<1>. QED
  BY <1>1, AlwaysIInv, PTL

\* A client that holds an unspent token is not locked out.
THEOREM UnspentWork == Spec => []UnspentTokensWork
<1>1. IInv => UnspentTokensWork
  BY DEF IInv, TypeInv, TypeOK, RefreshToken, Claim, SpentInv, UnspentTokensWork
<1>. QED
  BY <1>1, AlwaysIInv, PTL
-----------------------------------------------------------------------------
(***************************************************************************)
(* Access ends after a logout.                                             *)
(***************************************************************************)

\* An access token lives for AccessTTL from when it is given out; and what may
\* still be given out for a revoked session, is by a request that was on its
\* way at the logout: a request sees the clock move once.
AccessInv ==
  /\ \A a \in access : a.expires <= now + AccessTTL
  /\ AccessEndsAfterLogout
  /\ \A q \in Requests :
       LET revoked == session[request[q].session].revokedAt IN
       request[q].pc = "answering" /\ revoked # None =>
         now <= revoked + (IF request[q].aged THEN 1 ELSE 0)

LEMMA InitAccessInv == Init => AccessInv
  BY DEF Init, AccessInv, AccessEndsAfterLogout, Idle

LEMMA AccessInvStep == TypeInv /\ TypeInv' /\ AccessInv /\ [Next]_vars => AccessInv'
<1> SUFFICES ASSUME TypeInv, TypeInv', AccessInv, [Next]_vars PROVE AccessInv'
  OBVIOUS
<1>1. /\ TypeOK /\ Shapes
      /\ \A s \in Sessions : session[s] \in SessionRow /\ session[s].revokedAt \in Instants \union {None}
      /\ \A q \in Requests : request[q] \in Request /\ request[q].aged \in BOOLEAN
      /\ now \in Nat
      /\ \A a \in access : a.session \in Sessions /\ a.expires \in Nat
      /\ \A i \in Instants : i \in Nat /\ i # None
  BY RowTypes DEF TypeInv, TypeOK, AccessToken, Instants
<1>2. CASE Tick
  <2>1. now' = now + 1 /\ UNCHANGED <<session, access>>
    BY <1>2 DEF Tick
  <2>2. \A q \in Requests :
          /\ ~request[q].aged
          /\ request'[q].pc = request[q].pc /\ request'[q].session = request[q].session
          /\ request[q].pc # "idle" => request'[q].aged
    BY <1>1, <1>2 DEF Tick, Request
  <2>3. \A a \in access' : a.expires <= now' + AccessTTL
    BY <1>1, <2>1 DEF AccessInv
  <2>4. AccessEndsAfterLogout'
    BY <2>1 DEF AccessInv, AccessEndsAfterLogout
  <2>5. ASSUME NEW q \in Requests, request'[q].pc = "answering",
               session'[request'[q].session].revokedAt # None
        PROVE  now' <= session'[request'[q].session].revokedAt + (IF request'[q].aged THEN 1 ELSE 0)
    BY <1>1, <2>1, <2>2, <2>5 DEF AccessInv, Shapes
  <2>. QED
    BY <2>3, <2>4, <2>5 DEF AccessInv
<1>3. ASSUME NEW q \in Requests, NEW s \in Sessions, InsertAuthSession(q, s) PROVE AccessInv'
  <2>1. UNCHANGED <<access, now>>
    BY <1>3 DEF InsertAuthSession
  <2>2. session'[s].revokedAt = None /\ session[s].revokedAt = None
    BY <1>1, <1>3 DEF InsertAuthSession, TypeOK, Shapes
  <2>3. \A r \in Sessions : session'[r].revokedAt = session[r].revokedAt
    BY <1>1, <1>3, <2>2 DEF InsertAuthSession, TypeOK
  <2>4. /\ request'[q].session = s
        /\ \A p \in Requests : p # q => request'[p] = request[p]
    BY <1>1, <1>3 DEF InsertAuthSession, TypeOK, Idle
  <2>5. AccessEndsAfterLogout'
    BY <1>1, <2>1, <2>3 DEF AccessInv, AccessEndsAfterLogout
  <2>. QED
    BY <1>1, <2>1, <2>2, <2>3, <2>4, <2>5 DEF AccessInv, Shapes
<1>4. ASSUME NEW q \in Requests, UpdateAuthSessionRefresh(q) PROVE AccessInv'
  <2>1. UNCHANGED <<access, now>> /\ request[q].session \in Sessions
    BY <1>1, <1>4 DEF UpdateAuthSessionRefresh, Shapes
  <2>2. \A r \in Sessions : session'[r].revokedAt = session[r].revokedAt
    BY <1>1, <1>4, <2>1 DEF UpdateAuthSessionRefresh, TypeOK, SessionRow
  <2>3. /\ request'[q].pc = "answering" =>
             request'[q].session = request[q].session /\ session[request[q].session].revokedAt = None
        /\ \A p \in Requests : p # q => request'[p] = request[p]
    <3>1. CASE Live(request[q].session)
      <4>1. request' = [request EXCEPT ![q].pc = "answering", ![q].fresh = drawn + 1]
        BY <1>4, <3>1 DEF UpdateAuthSessionRefresh
      <4>2. request'[q].session = request[q].session
        BY <1>1, <4>1 DEF TypeOK, Request
      <4>. QED
        BY <1>1, <3>1, <4>1, <4>2 DEF TypeOK, Live
    <3>2. CASE ~Live(request[q].session)
      <4>1. request' = [request EXCEPT ![q] = Idle]
        BY <1>4, <3>2 DEF UpdateAuthSessionRefresh
      <4>. QED
        BY <1>1, <4>1 DEF TypeOK, Idle
    <3>. QED
      BY <3>1, <3>2
  <2>4. AccessEndsAfterLogout'
    BY <1>1, <2>1, <2>2 DEF AccessInv, AccessEndsAfterLogout
  <2>. QED
    BY <1>1, <2>1, <2>2, <2>3, <2>4 DEF AccessInv, Shapes
<1>5. ASSUME NEW q \in Requests, IssueAccessToken(q) PROVE AccessInv'
  <2> DEFINE s == request[q].session
             a0 == [session |-> s, expires |-> now + AccessTTL]
  <2>1. /\ UNCHANGED <<session, now>> /\ access' = access \union {a0}
        /\ request[q].pc = "answering" /\ s \in Sessions
    BY <1>1, <1>5 DEF IssueAccessToken, Shapes
  <2>2. session[s].revokedAt # None => now <= session[s].revokedAt + 1
    BY <1>1, <2>1 DEF AccessInv
  <2>3. session[s].revokedAt # None => a0.expires <= session[s].revokedAt + 1 + AccessTTL
    BY <1>1, <2>1, <2>2
  <2>4. AccessEndsAfterLogout'
    BY <2>1, <2>3 DEF AccessInv, AccessEndsAfterLogout
  <2>5. \A a \in access' : a.expires <= now' + AccessTTL
    BY <1>1, <2>1 DEF AccessInv
  <2>6. \A p \in Requests : request'[p].pc = "answering" => request'[p] = request[p]
    BY <1>1, <1>5 DEF IssueAccessToken, TypeOK, Idle
  <2>. QED
    BY <2>1, <2>4, <2>5, <2>6 DEF AccessInv
<1>6. ASSUME NEW q \in Requests, RevokeAuthSession(q) PROVE AccessInv'
  <2> DEFINE s == request[q].session
  <2>1. UNCHANGED <<access, now>> /\ s \in Sessions
    BY <1>1, <1>6 DEF RevokeAuthSession, Shapes
  <2>2. \A r \in Sessions :
          session'[r].revokedAt = session[r].revokedAt \/ session'[r].revokedAt = now
    BY <1>1, <1>6, <2>1 DEF RevokeAuthSession, TypeOK, SessionRow
  <2>3. \A p \in Requests : request'[p].pc = "answering" => request'[p] = request[p]
    BY <1>1, <1>6 DEF RevokeAuthSession, TypeOK, Idle
  <2>4. AccessEndsAfterLogout'
    BY <1>1, <2>1, <2>2 DEF AccessInv, AccessEndsAfterLogout
  <2>. QED
    BY <1>1, <2>1, <2>2, <2>3, <2>4 DEF AccessInv, Shapes
<1>7. ASSUME UNCHANGED <<session, access, now>>,
             \A p \in Requests : request'[p].pc = "answering" => request'[p] = request[p]
      PROVE  AccessInv'
  BY <1>7 DEF AccessInv, AccessEndsAfterLogout
<1>8. ASSUME NEW q \in Requests, NEW h \in held, NEW s \in Sessions,
             GetAuthSessionByRefreshHash(q, h.token, s)
      PROVE  AccessInv'
  BY <1>1, <1>7, <1>8 DEF GetAuthSessionByRefreshHash, TypeOK, Idle
<1>9. ASSUME NEW q \in Requests, NEW a \in access, SessionBelongsToUser(q, a) PROVE AccessInv'
  BY <1>1, <1>7, <1>9 DEF SessionBelongsToUser, TypeOK, Idle
<1>10. ASSUME NEW q \in Requests, Abandon(q) PROVE AccessInv'
  BY <1>1, <1>7, <1>10 DEF Abandon, TypeOK, Idle
<1>11. CASE UNCHANGED vars
  BY <1>7, <1>11 DEF vars
<1>. QED
  BY <1>2, <1>3, <1>4, <1>5, <1>6, <1>8, <1>9, <1>10, <1>11 DEF Next

\* Access to a session ends one lifetime of an access token after its logout,
\* give or take a refresh that was being answered.
THEOREM AccessEnds == Spec => []AccessEndsAfterLogout
<1>1. Init => TypeInv /\ AccessInv
  BY InitTypeInv, InitAccessInv
<1>2. TypeInv /\ AccessInv /\ [Next]_vars => (TypeInv /\ AccessInv)'
  BY TypeInvStep, AccessInvStep
<1>3. AccessInv => AccessEndsAfterLogout
  BY DEF AccessInv
<1>. QED
  BY <1>1, <1>2, <1>3, PTL DEF Spec
=============================================================================
