--------------------------- MODULE RefreshTokens ---------------------------
(***************************************************************************)
(* The life of refresh tokens: POST /auth/login, /auth/refresh and         *)
(* /auth/logout (auth/routes.py) over the table refresh_tokens             *)
(* (auth/refresh.py).                                                      *)
(*                                                                         *)
(* FastAPI runs each of these handlers on a thread of its pool, so several *)
(* run at once; every `with _cursor()` block is one READ COMMITTED         *)
(* transaction, and a handler's transactions are its atomic steps.  A      *)
(* transaction that writes takes effect when it commits: what it read      *)
(* before is in the thread's memory (req), where it can go stale.          *)
(***************************************************************************)
EXTENDS FiniteSets, Naturals

CONSTANTS
    Users,      \* rows of the table users
    Tokens,     \* the values generate_refresh_token may return, each at most once
    Requests,   \* threads that serve /auth requests
    NoUser,
    NoToken

ASSUME NoUserAssumption  == NoUser \notin Users
ASSUME NoTokenAssumption == NoToken \notin Tokens
ASSUME RequestsAssumption == IsFiniteSet(Requests)

VARIABLES
    owner,      \* refresh_tokens.username; NoUser: the table has no such row
    revoked,    \* tokens whose revoked_at is not null
    expired,    \* tokens whose expires_at has passed
    delivered,  \* tokens some response carried: all that a client can present
    active,     \* users whose is_active is true
    req,        \* what each thread is doing, and the locals it holds
    parent,     \* history: the token whose rotation inserted this one
    needsLogin, \* history: users whose tokens were all revoked, no login since
    raced       \* history: users whose last revocation met a rotation in flight

table == <<owner, revoked, expired>>
history == <<parent, needsLogin, raced>>
vars == <<table, delivered, active, req, history>>

Steps == {"idle", "issue", "rotate", "reuse", "check", "disable", "logout", "respond"}

Request == [pc: Steps, who: Users \cup {NoUser}, tok: Tokens \cup {NoToken}]

Idle == [pc |-> "idle", who |-> NoUser, tok |-> NoToken]

Goto(r, step, u, t) == req' = [req EXCEPT ![r] = [pc |-> step, who |-> u, tok |-> t]]

Live(u) == {t \in Tokens : owner[t] = u} \ revoked

Children(t) == {n \in Tokens : parent[n] = t}

Rotating(t) == {r \in Requests : req[r].pc = "rotate" /\ req[r].tok = t}

Init ==
    /\ owner = [t \in Tokens |-> NoUser]
    /\ revoked = {}
    /\ expired = {}
    /\ delivered = {}
    /\ active = Users
    /\ req = [r \in Requests |-> Idle]
    /\ parent = [t \in Tokens |-> NoToken]
    /\ needsLogin = {}
    /\ raced = {}

-----------------------------------------------------------------------------
(* The two writes the handlers share.                                       *)

\* INSERT INTO refresh_tokens, of a value no row has.
Insert(n, u) ==
    /\ owner[n] = NoUser
    /\ owner' = [owner EXCEPT ![n] = u]

\* Mutant: the UPDATE lost its WHERE username.
RevokeFamily_AnyUser(r, u) ==
    /\ revoked' = {t \in Tokens : owner[t] # NoUser}
    /\ needsLogin' = needsLogin \cup {u}
    /\ UNCHANGED <<owner, expired, parent, delivered, active, raced>>

\* UPDATE refresh_tokens SET revoked_at WHERE username AND revoked_at IS NULL.
RevokeFamily(r, u) ==
    /\ revoked' = revoked \cup Live(u)
    /\ needsLogin' = needsLogin \cup {u}
    /\ raced' = IF \E q \in Requests \ {r} : req[q].pc = "rotate" /\ req[q].who = u
                THEN raced \cup {u}
                ELSE raced \ {u}
    /\ UNCHANGED <<owner, expired, parent, delivered, active>>

-----------------------------------------------------------------------------
(* /auth/login: an absent, inactive or mistyped user changes nothing.       *)

LoginRead(r, u) ==
    /\ req[r] = Idle
    /\ u \in active
    /\ Goto(r, "issue", u, NoToken)
    /\ UNCHANGED <<table, delivered, active, history>>

\* Mutant: the response carries the variable before it is assigned.
LoginIssue_NoCookie(r, n) ==
    /\ req[r].pc = "issue"
    /\ Insert(n, req[r].who)
    /\ Goto(r, "respond", req[r].who, NoToken)
    /\ UNCHANGED <<revoked, expired, delivered, active, history>>

LoginIssue(r, n) ==
    /\ req[r].pc = "issue"
    /\ Insert(n, req[r].who)
    /\ needsLogin' = needsLogin \ {req[r].who}
    /\ Goto(r, "respond", req[r].who, n)
    /\ UNCHANGED <<revoked, expired, delivered, active, parent, raced>>

-----------------------------------------------------------------------------
(* /auth/refresh.  An unknown or an expired token that was not revoked is   *)
(* refused with a 401 that changes nothing.                                 *)

\* Mutant: the row is not tested for revoked_at.
RefreshRead_NoReuseTest(r, t) ==
    /\ req[r] = Idle
    /\ t \in delivered \ expired
    /\ Goto(r, "rotate", owner[t], t)
    /\ UNCHANGED <<table, delivered, active, history>>

RefreshRead(r, t) ==
    /\ req[r] = Idle
    /\ t \in delivered
    /\ \/ /\ t \in revoked
          /\ Goto(r, "reuse", owner[t], t)
       \/ /\ t \notin revoked \cup expired
          /\ Goto(r, "rotate", owner[t], t)
    /\ UNCHANGED <<table, delivered, active, history>>

\* Mutant: the INSERT is made without the UPDATE.
Rotate_KeepsParent(r, n) ==
    /\ req[r].pc = "rotate"
    /\ Insert(n, req[r].who)
    /\ parent' = [parent EXCEPT ![n] = req[r].tok]
    /\ Goto(r, "check", req[r].who, n)
    /\ UNCHANGED <<revoked, expired, delivered, active, needsLogin, raced>>

\* The UPDATE of the rotation names the token only: what was read of
\* revoked_at is not read again.
Rotate(r, n) ==
    /\ req[r].pc = "rotate"
    /\ Insert(n, req[r].who)
    /\ revoked' = revoked \cup {req[r].tok}
    /\ parent' = [parent EXCEPT ![n] = req[r].tok]
    /\ Goto(r, "check", req[r].who, n)
    /\ UNCHANGED <<expired, delivered, active, needsLogin, raced>>

\* The second transaction of rotate_refresh_token; the answer is a 401.
ReuseRevoke(r) ==
    /\ req[r].pc = "reuse"
    /\ RevokeFamily(r, req[r].who)
    /\ Goto(r, "idle", NoUser, NoToken)

CheckUser(r) ==
    /\ req[r].pc = "check"
    /\ Goto(r, IF req[r].who \in active THEN "respond" ELSE "disable",
            req[r].who, req[r].tok)
    /\ UNCHANGED <<table, delivered, active, history>>

DisableRevoke(r) ==
    /\ req[r].pc = "disable"
    /\ RevokeFamily(r, req[r].who)
    /\ Goto(r, "idle", NoUser, NoToken)

-----------------------------------------------------------------------------
(* /auth/logout, with the token of the cookie, dead or alive.               *)

LogoutRead(r, t) ==
    /\ req[r] = Idle
    /\ t \in delivered
    /\ Goto(r, "logout", owner[t], t)
    /\ UNCHANGED <<table, delivered, active, history>>

\* Mutant: only the token of the cookie is revoked.
LogoutRevoke_OneToken(r) ==
    /\ req[r].pc = "logout"
    /\ revoked' = revoked \cup {req[r].tok}
    /\ needsLogin' = needsLogin \cup {req[r].who}
    /\ Goto(r, "idle", NoUser, NoToken)
    /\ UNCHANGED <<owner, expired, delivered, active, parent, raced>>

LogoutRevoke(r) ==
    /\ req[r].pc = "logout"
    /\ RevokeFamily(r, req[r].who)
    /\ Goto(r, "idle", NoUser, NoToken)

-----------------------------------------------------------------------------
(* The end of a request: its response arrives, or the request is cut short  *)
(* by a failed transaction (IngestionError, 500), the end of the process or *)
(* a lost response.  What it committed stays committed.                     *)

Respond(r) ==
    /\ req[r].pc = "respond"
    /\ delivered' = delivered \cup {req[r].tok}
    /\ Goto(r, "idle", NoUser, NoToken)
    /\ UNCHANGED <<table, active, history>>

Fail(r) ==
    /\ req[r] # Idle
    /\ Goto(r, "idle", NoUser, NoToken)
    /\ UNCHANGED <<table, delivered, active, history>>

-----------------------------------------------------------------------------
(* What happens outside the handlers.                                       *)

\* Seven days go by.
Expire(t) ==
    /\ owner[t] # NoUser
    /\ t \notin expired
    /\ expired' = expired \cup {t}
    /\ UNCHANGED <<owner, revoked, delivered, active, req, history>>

\* An administrator sets is_active to FALSE in the database ...
Deactivate(u) ==
    /\ u \in active
    /\ active' = active \ {u}
    /\ UNCHANGED <<table, delivered, req, history>>

\* ... and create_user sets it back.
UpsertUser(u) ==
    /\ u \notin active
    /\ active' = active \cup {u}
    /\ UNCHANGED <<table, delivered, req, history>>

-----------------------------------------------------------------------------

Serve(r) ==
    \/ \E n \in Tokens : LoginIssue(r, n) \/ Rotate(r, n)
    \/ ReuseRevoke(r)
    \/ CheckUser(r)
    \/ DisableRevoke(r)
    \/ LogoutRevoke(r)
    \/ Respond(r)

Arrive(r) ==
    \/ \E u \in Users : LoginRead(r, u)
    \/ \E t \in Tokens : RefreshRead(r, t) \/ LogoutRead(r, t)

Outside ==
    \/ \E t \in Tokens : Expire(t)
    \/ \E u \in Users : Deactivate(u) \/ UpsertUser(u)

Next ==
    \/ \E r \in Requests : Arrive(r) \/ Serve(r) \/ Fail(r)
    \/ Outside

Spec == Init /\ [][Next]_vars

-----------------------------------------------------------------------------

TypeOK ==
    /\ owner \in [Tokens -> Users \cup {NoUser}]
    /\ revoked \subseteq Tokens
    /\ expired \subseteq Tokens
    /\ delivered \subseteq Tokens
    /\ active \subseteq Users
    /\ req \in [Requests -> Request]
    /\ parent \in [Tokens -> Tokens \cup {NoToken}]
    /\ needsLogin \subseteq Users
    /\ raced \subseteq Users

\* A token that was rotated is revoked, whoever rotated it and whatever failed
\* afterwards, and its successor belongs to the same user: a successor is never
\* in the table beside a parent that still works.
RotatedTokenIsDead ==
    \A n \in Tokens : parent[n] # NoToken =>
        /\ parent[n] \in revoked
        /\ owner[n] # NoUser
        /\ owner[n] = owner[parent[n]]

\* A token gets more than one successor only from requests that were all past
\* the SELECT before the first of them committed: the requests that can still
\* rotate a token and the successors it has are never more than the threads.
ForksNeedOverlap ==
    \A t \in Tokens :
        Cardinality(Children(t)) + Cardinality(Rotating(t)) <= Cardinality(Requests)

\* After a revocation of all of a user's tokens (logout, reuse, account no longer
\* active) that met no rotation of that user in flight, the user has no working
\* token until the next login, whatever else runs in between.
RevocationHolds == \A u \in needsLogin \ raced : Live(u) = {}

\* A token changes to revoked only in a request made with a token of the same
\* user: one user's rotations, reuse alarms and logouts never touch another's.
OnlyOwnFamily ==
    [][\A t \in revoked' \ revoked :
          \E r \in Requests : req[r] # Idle /\ req[r].who = owner[t] /\ req'[r] # req[r]]_vars

\* What architecture.md says of a rotation ("the old token is dead the instant
\* it's used") and refresh.py's docstring ("atomically"): no token is exchanged
\* for two.
SingleUse == \A t \in Tokens : Cardinality(Children(t)) <= 1
=============================================================================
