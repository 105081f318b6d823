------------------------------- MODULE Access -------------------------------
(***************************************************************************)
(* Access tokens and permissions: /auth/login and /auth/refresh read the   *)
(* row of a user and sign a JWT with its role (auth/routes.py,             *)
(* auth/security.py); every route then trusts the role in the token until  *)
(* it expires (auth/dependencies.py).  No route looks at the table users   *)
(* again.  The policy of casbin is not part of the model.                  *)
(*                                                                         *)
(* Time passes in ticks.  Of the refresh tokens, which RefreshTokens       *)
(* models, only this counts: whether the user has one that works.          *)
(***************************************************************************)
EXTENDS Naturals

CONSTANTS
    Users,
    Requests,   \* threads that serve /auth requests
    Roles,      \* the roles the accounts get, among VALID_ROLES
    Ttl,        \* ACCESS_TOKEN_EXPIRY_SECONDS
    MaxDelay    \* bound on the time between the reading of a row and the signing

ASSUME TimesAssumption == Ttl \in Nat \ {0} /\ MaxDelay \in Nat

VARIABLES
    account,    \* role and is_active, per user
    cookie,     \* users with a refresh token that works
    life,       \* per user and role, what the youngest access token has left; 0: expired
    req,        \* what each thread is doing, and the row it has read
    since       \* history: time since a user was last active in a role

vars == <<account, cookie, life, req, since>>

\* So long ago, or never, that no token can tell.
Long == Ttl + MaxDelay + 1

Idle == [pc |-> "idle", user |-> {}, role |-> {}, age |-> 0]

Active(u) == account[u].active

InRole(u, role) == Active(u) /\ account[u].role = role

\* decode_token: a token is valid until its exp.
Accepted(u, role) == life[u][role] > 0

-----------------------------------------------------------------------------

Init ==
    /\ account \in [Users -> [role : Roles, active : {TRUE}]]
    /\ cookie = {} /\ life = [u \in Users |-> [role \in Roles |-> 0]]
    /\ req = [r \in Requests |-> Idle]
    /\ since = [u \in Users |-> [role \in Roles |-> IF InRole(u, role) THEN 0 ELSE Long]]

Goto(r, pc, u, role) ==
    req' = [req EXCEPT ![r] = [pc |-> pc, user |-> {u}, role |-> role, age |-> 0]]

\* login: the user exists, is active, and the password is right.
LoginRead(r, u) ==
    /\ req[r] = Idle /\ Active(u)
    /\ Goto(r, "sign", u, {account[u].role})
    /\ UNCHANGED <<account, cookie, life, since>>

\* refresh, up to the commit of rotate_refresh_token.
RefreshRotate(r, u) ==
    /\ req[r] = Idle /\ u \in cookie
    /\ Goto(r, "check", u, {})
    /\ UNCHANGED <<account, cookie, life, since>>

\* Mutant: the row is not tested for is_active.
RefreshRead_NoActiveTest(r) ==
    /\ req[r].pc = "check"
    /\ \E u \in req[r].user : Goto(r, "sign", u, {account[u].role})
    /\ UNCHANGED <<account, cookie, life, since>>

\* Mutant: the new token takes its role from the old one.
RefreshRead_RoleOfToken(r) ==
    /\ req[r].pc = "check"
    /\ \E u \in req[r].user, role \in Roles :
           Accepted(u, role) /\ Active(u) /\ Goto(r, "sign", u, {role})
    /\ UNCHANGED <<account, cookie, life, since>>

\* refresh: the row is read; the tokens of an inactive user are all revoked.
RefreshRead(r) ==
    /\ req[r].pc = "check"
    /\ \E u \in req[r].user :
           IF Active(u)
           THEN Goto(r, "sign", u, {account[u].role}) /\ UNCHANGED cookie
           ELSE req' = [req EXCEPT ![r] = Idle] /\ cookie' = cookie \ {u}
    /\ UNCHANGED <<account, life, since>>

\* issue_token; login also inserts a refresh token.
Sign(r) ==
    /\ req[r].pc = "sign"
    /\ \E u \in req[r].user, role \in req[r].role :
           /\ life' = [life EXCEPT ![u][role] = Ttl]
           /\ cookie' = cookie \cup {u}
    /\ req' = [req EXCEPT ![r] = Idle]
    /\ UNCHANGED <<account, since>>

\* A query or the insertion of the refresh token fails: 500.
Fail(r) ==
    /\ req[r] # Idle
    /\ req' = [req EXCEPT ![r] = Idle]
    /\ UNCHANGED <<account, cookie, life, since>>

-----------------------------------------------------------------------------

\* The refresh token of a user expires, is used up elsewhere, or is revoked.
LoseCookie(u) ==
    /\ u \in cookie /\ cookie' = cookie \ {u}
    /\ UNCHANGED <<account, life, req, since>>

SetAccount(u, role, active) ==
    /\ account' = [account EXCEPT ![u] = [role |-> role, active |-> active]]
    /\ since' = [since EXCEPT ![u] =
           [r \in Roles |-> IF active /\ r = role THEN 0 ELSE since[u][r]]]
    /\ UNCHANGED <<cookie, life, req>>

\* Mutant: no check of the role.
UpsertUser_AnyRole(u, role) ==
    account' = [account EXCEPT ![u] = [role |-> "owner", active |-> TRUE]]
    /\ UNCHANGED <<cookie, life, req, since>>

\* create_user: a role, and active again.
UpsertUser(u, role) == SetAccount(u, role, TRUE)

\* By hand, in the database.
Deactivate(u) == Active(u) /\ SetAccount(u, account[u].role, FALSE)

Tick ==
    /\ \A r \in Requests : req[r].pc = "sign" => req[r].age < MaxDelay
    /\ life' = [u \in Users |-> [role \in Roles |->
                  IF Accepted(u, role) THEN life[u][role] - 1 ELSE 0]]
    /\ req' = [r \in Requests |->
                  IF req[r].pc = "sign" THEN [req[r] EXCEPT !.age = @ + 1] ELSE req[r]]
    /\ since' = [u \in Users |-> [role \in Roles |->
                  IF InRole(u, role) THEN 0
                  ELSE IF since[u][role] < Long THEN since[u][role] + 1 ELSE Long]]
    /\ UNCHANGED <<account, cookie>>

Serve(r) == RefreshRead(r) \/ Sign(r)

Next ==
    \/ \E r \in Requests : Serve(r) \/ Fail(r)
    \/ \E r \in Requests, u \in Users : LoginRead(r, u) \/ RefreshRotate(r, u)
    \/ \E u \in Users : LoseCookie(u) \/ Deactivate(u)
    \/ \E u \in Users, role \in Roles : UpsertUser(u, role)
    \/ Tick

Spec == Init /\ [][Next]_vars /\ WF_vars(Tick) /\ \A r \in Requests : WF_vars(Serve(r))

-----------------------------------------------------------------------------

TypeOK ==
    /\ account \in [Users -> [role : Roles, active : BOOLEAN]]
    /\ cookie \subseteq Users
    /\ life \in [Users -> [Roles -> 0..Ttl]]
    /\ \A r \in Requests : req[r] = Idle \/
           req[r] \in [pc : {"check", "sign"}, user : {{u} : u \in Users},
                       role : SUBSET Roles, age : 0..MaxDelay]
    /\ since \in [Users -> [Roles -> 0..Long]]

\* A token that is accepted names a role in which its user was active not longer ago
\* than the token is old, and the time its handler took: no refresh, demotion or
\* reactivation stretches the life of a role.
RoleIsRecent ==
    \A u \in Users, role \in Roles :
        Accepted(u, role) => since[u][role] <= Ttl - life[u][role] + MaxDelay

\* A user who stays deactivated is locked out in the end, without any revocation of
\* access tokens, and whatever the user goes on refreshing.
LockedOut ==
    \A u \in Users : <>[]~Active(u) => <>[](\A role \in Roles : ~Accepted(u, role))

\* A user who is given a role for good has no other in the end: the tokens of the
\* old role run out, although none is revoked, and no refresh of the session that was
\* opened with it, nor one that read the old row, renews it.
RoleTakesEffect ==
    \A u \in Users, role \in Roles : <>[]InRole(u, role) =>
        <>[](\A other \in Roles \ {role} : ~Accepted(u, other))
=============================================================================
