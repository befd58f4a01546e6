------------------------------ MODULE Sessions ------------------------------
(***************************************************************************)
(* Login, refresh and logout, and the tokens they give out.                *)
(*                                                                         *)
(* None of the three is a transaction: a refresh finds its session in one  *)
(* statement and rotates the session's token in another, a logout checks   *)
(* the session in one and revokes it in another, and what a statement did  *)
(* stays when the answer never arrives.  Access tokens are checked by      *)
(* their signature and expiry only (middleware_tenant.go), so they are out *)
(* of reach once they are given out.                                       *)
(*                                                                         *)
(* Passwords, signatures and hashes are left out: refresh tokens are       *)
(* numbered in the order they are drawn, and none is drawn twice.  A unit  *)
(* of time is longer than a request may take (requestTimeout).             *)
(***************************************************************************)
EXTENDS Integers, FiniteSets

CONSTANTS
  Sessions,     \* rows of auth_sessions
  Requests,     \* requests in flight at once
  None,
  AccessTTL,    \* JWT_ACCESS_TTL_MIN
  RefreshTTL,   \* JWT_REFRESH_TTL_DAYS
  MaxTokens,    \* bound: refresh tokens drawn
  MaxTime       \* bound: the clock

ASSUME SessionAssumption ==
  /\ AccessTTL \in Nat /\ RefreshTTL \in Nat
  /\ MaxTokens \in Nat /\ MaxTime \in Nat
  /\ None \notin Nat /\ None \notin Sessions

VARIABLES
  session,      \* auth_sessions
  drawn,        \* how many refresh tokens have been drawn
  held,         \* refresh tokens that were answered, with their sessions
  access,       \* access tokens that were answered
  request,      \* requests, between two statements
  now,
  spent,        \* history: the tokens that a token was exchanged for
  overlapped    \* history: sessions that two refreshes rotated at a time

vars == <<session, drawn, held, access, request, now, spent, overlapped>>

Tokens == 1..MaxTokens
Instants == 0..(MaxTime + RefreshTTL)

\* A row without a token is not there yet.
SessionRow ==
  [token : Tokens \union {None}, expires : Instants, revokedAt : Instants \union {None}]
RefreshToken == [token : Tokens, session : Sessions]
AccessToken == [session : Sessions, expires : 0..(MaxTime + AccessTTL)]
Request ==
  [pc : {"idle", "found", "answering", "leaving"}, session : Sessions \union {None},
   presented : Tokens \union {None}, fresh : Tokens \union {None}, aged : BOOLEAN]

NoSession == [token |-> None, expires |-> 0, revokedAt |-> None]
Idle == [pc |-> "idle", session |-> None, presented |-> None, fresh |-> None, aged |-> FALSE]

\* Every row keeps to its columns, and no two sessions have one token.
TypeOK ==
  /\ session \in [Sessions -> SessionRow]
  /\ drawn \in 0..MaxTokens
  /\ held \in SUBSET RefreshToken
  /\ access \in SUBSET AccessToken
  /\ request \in [Requests -> Request]
  /\ now \in 0..MaxTime
  /\ spent \in [Tokens -> SUBSET Tokens]
  /\ overlapped \in SUBSET Sessions
  /\ \A s, r \in Sessions :
       session[s].token = session[r].token /\ session[s].token # None => s = r

Init ==
  /\ session = [s \in Sessions |-> NoSession]
  /\ drawn = 0
  /\ held = {}
  /\ access = {}
  /\ request = [q \in Requests |-> Idle]
  /\ now = 0
  /\ spent = [t \in Tokens |-> {}]
  /\ overlapped = {}
-----------------------------------------------------------------------------
\* Mutant: revoked_at is not looked at.
Inserted(s) == session[s].token # None

\* SessionBelongsToUser, and the WHERE of every UPDATE.
Live(s) == session[s].token # None /\ session[s].revokedAt = None

\* Login: the session is inserted, its tokens are still to be answered.
InsertAuthSession(q, s) ==
  /\ request[q].pc = "idle"
  /\ session[s].token = None
  /\ drawn < MaxTokens
  /\ drawn' = drawn + 1
  /\ session' = [session EXCEPT ![s] =
                   [token |-> drawn + 1, expires |-> now + RefreshTTL, revokedAt |-> None]]
  /\ request' = [request EXCEPT ![q] =
                   [Idle EXCEPT !.pc = "answering", !.session = s, !.fresh = drawn + 1]]
  /\ UNCHANGED <<held, access, now, spent, overlapped>>

\* Refresh, its first statement: a live session by the hash of its token.
GetAuthSessionByRefreshHash(q, t, s) ==
  /\ request[q].pc = "idle"
  /\ Live(s) /\ session[s].token = t /\ session[s].expires > now
  /\ request' = [request EXCEPT ![q] =
                   [Idle EXCEPT !.pc = "found", !.session = s, !.presented = t]]
  /\ overlapped' = IF \E p \in Requests : request[p].pc = "found" /\ request[p].session = s
                   THEN overlapped \union {s} ELSE overlapped
  /\ UNCHANGED <<session, drawn, held, access, now, spent>>

\* Mutant: revoked_at is not looked at again.
RotateAnyway(q) ==
  LET s == request[q].session
      t == request[q].presented
  IN
  /\ request[q].pc = "found"
  /\ drawn < MaxTokens
  /\ drawn' = drawn + 1
  /\ session' = [session EXCEPT ![s].token = drawn + 1, ![s].expires = now + RefreshTTL]
  /\ spent' = [spent EXCEPT ![t] = @ \union {drawn + 1}]
  /\ request' = [request EXCEPT ![q].pc = "answering", ![q].fresh = drawn + 1]
  /\ UNCHANGED <<held, access, now, overlapped>>

\* Mutant: the expiry is extended and the token stays.
RotateExpiryOnly(q) ==
  LET s == request[q].session
      t == request[q].presented
  IN
  /\ request[q].pc = "found"
  /\ drawn < MaxTokens
  /\ drawn' = drawn + 1
  /\ IF Live(s)
     THEN /\ session' = [session EXCEPT ![s].expires = now + RefreshTTL]
          /\ spent' = [spent EXCEPT ![t] = @ \union {drawn + 1}]
          /\ request' = [request EXCEPT ![q].pc = "answering", ![q].fresh = drawn + 1]
     ELSE /\ request' = [request EXCEPT ![q] = Idle]
          /\ UNCHANGED <<session, spent>>
  /\ UNCHANGED <<held, access, now, overlapped>>

\* Mutant: the token of every live session is rotated, not that of one.
RotateEverywhere(q) ==
  LET t == request[q].presented IN
  /\ request[q].pc = "found"
  /\ drawn < MaxTokens
  /\ drawn' = drawn + 1
  /\ session' = [s \in Sessions |->
                   IF Live(s) THEN [session[s] EXCEPT !.token = drawn + 1] ELSE session[s]]
  /\ spent' = [spent EXCEPT ![t] = @ \union {drawn + 1}]
  /\ request' = [request EXCEPT ![q].pc = "answering", ![q].fresh = drawn + 1]
  /\ UNCHANGED <<held, access, now, overlapped>>

\* Mutant: the new lifetime is added to what is left of the old one.
RotateStacksExpiry(q) ==
  LET s == request[q].session
      t == request[q].presented
  IN
  /\ request[q].pc = "found"
  /\ drawn < MaxTokens
  /\ drawn' = drawn + 1
  /\ IF Live(s)
     THEN /\ session' = [session EXCEPT ![s].token = drawn + 1, ![s].expires = @ + RefreshTTL]
          /\ spent' = [spent EXCEPT ![t] = @ \union {drawn + 1}]
          /\ request' = [request EXCEPT ![q].pc = "answering", ![q].fresh = drawn + 1]
     ELSE /\ request' = [request EXCEPT ![q] = Idle]
          /\ UNCHANGED <<session, spent>>
  /\ UNCHANGED <<held, access, now, overlapped>>

\* Refresh, its second statement: whichever token the session has by now, it
\* gets a new one, unless it has been revoked.  Neither the token that was
\* presented nor the expiry is looked at again.
UpdateAuthSessionRefresh(q) ==
  LET s == request[q].session
      t == request[q].presented
  IN
  /\ request[q].pc = "found"
  /\ drawn < MaxTokens
  /\ drawn' = drawn + 1
  /\ IF Live(s)
     THEN /\ session' = [session EXCEPT ![s].token = drawn + 1, ![s].expires = now + RefreshTTL]
          /\ spent' = [spent EXCEPT ![t] = @ \union {drawn + 1}]
          /\ request' = [request EXCEPT ![q].pc = "answering", ![q].fresh = drawn + 1]
     ELSE /\ request' = [request EXCEPT ![q] = Idle]
          /\ UNCHANGED <<session, spent>>
  /\ UNCHANGED <<held, access, now, overlapped>>

\* The end of a login or a refresh: an access token is signed, and both
\* tokens reach the client.
IssueAccessToken(q) ==
  /\ request[q].pc = "answering"
  /\ held' = held \union {[token |-> request[q].fresh, session |-> request[q].session]}
  /\ access' = access \union {[session |-> request[q].session, expires |-> now + AccessTTL]}
  /\ request' = [request EXCEPT ![q] = Idle]
  /\ UNCHANGED <<session, drawn, now, spent, overlapped>>

\* Logout, its first statement: any unexpired access token of the session
\* will do.
SessionBelongsToUser(q, a) ==
  /\ request[q].pc = "idle"
  /\ a \in access /\ a.expires > now
  /\ Live(a.session)
  /\ request' = [request EXCEPT ![q] = [Idle EXCEPT !.pc = "leaving", !.session = a.session]]
  /\ UNCHANGED <<session, drawn, held, access, now, spent, overlapped>>

\* Logout, its second statement, which does nothing if another logout came
\* first.
RevokeAuthSession(q) ==
  LET s == request[q].session IN
  /\ request[q].pc = "leaving"
  /\ session' = IF Live(s) THEN [session EXCEPT ![s].revokedAt = now] ELSE session
  /\ request' = [request EXCEPT ![q] = Idle]
  /\ UNCHANGED <<drawn, held, access, now, spent, overlapped>>

\* The request is cut off between two statements, or its answer is lost.
Abandon(q) ==
  /\ request[q].pc # "idle"
  /\ request' = [request EXCEPT ![q] = Idle]
  /\ UNCHANGED <<session, drawn, held, access, now, spent, overlapped>>

\* Time passes; a request may live to see that once.
Tick ==
  /\ now < MaxTime
  /\ \A q \in Requests : ~request[q].aged
  /\ now' = now + 1
  /\ request' = [q \in Requests |-> [request[q] EXCEPT !.aged = request[q].pc # "idle"]]
  /\ UNCHANGED <<session, drawn, held, access, spent, overlapped>>

Next ==
  \/ Tick
  \/ \E q \in Requests :
       \/ \E s \in Sessions : InsertAuthSession(q, s)
       \/ \E h \in held, s \in Sessions : GetAuthSessionByRefreshHash(q, h.token, s)
       \/ UpdateAuthSessionRefresh(q)
       \/ IssueAccessToken(q)
       \/ \E a \in access : SessionBelongsToUser(q, a)
       \/ RevokeAuthSession(q)
       \/ Abandon(q)

Spec == Init /\ [][Next]_vars
-----------------------------------------------------------------------------
(***************************************************************************)
(* Properties.                                                             *)
(***************************************************************************)

\* A logout is for good: a revoked session is never rotated, extended or
\* revoked again, also not by a refresh that had found it before.
LogoutIsFinal ==
  [][\A s \in Sessions : session[s].revokedAt # None => session'[s] = session[s]]_vars

\* "Refresh token cannot be reused after rotation" (backlog.v1.json), as far
\* as it is true: a refresh token is exchanged once, unless two refreshes of
\* its session ran at the same time.
TokensAreSpentOnce ==
  \A h \in held : Cardinality(spent[h.token]) > 1 => h.session \in overlapped

\* A client that follows the rules is not locked out: a refresh token that
\* was answered and not yet exchanged is its session's token, until expiry or
\* logout.  Only where refreshes of the session overlapped may it be void.
UnspentTokensWork ==
  \A h \in held :
    spent[h.token] = {} /\ h.session \notin overlapped => session[h.session].token = h.token

\* Access tokens are not checked against the session, but a logout still ends
\* access: the last token of a revoked session expires one lifetime after the
\* logout, give or take a refresh that was being answered.
AccessEndsAfterLogout ==
  \A a \in access :
    session[a.session].revokedAt # None =>
      a.expires <= session[a.session].revokedAt + 1 + AccessTTL
=============================================================================
