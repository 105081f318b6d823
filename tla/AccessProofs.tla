---------------------------- MODULE AccessProofs ----------------------------
(***************************************************************************)
(* What Access promises for every number of users and threads, every life  *)
(* of the tokens and every delay of a handler.                             *)
(***************************************************************************)
EXTENDS Access, TLAPS

Working == [pc : {"check", "sign"}, user : {{u} : u \in Users},
            role : SUBSET Roles, age : 0..MaxDelay]

WellFormed ==
    /\ account \in [Users -> [role : Roles, active : BOOLEAN]]
    /\ cookie \subseteq Users
    /\ life \in [Users -> [Roles -> 0..Ttl]]
    /\ req \in [Requests -> {Idle} \cup Working]
    /\ since \in [Users -> [Roles -> 0..Long]]

LEMMA LongIsLong == Long \in Nat /\ Long = Ttl + MaxDelay + 1
  BY TimesAssumption DEF Long

LEMMA InitWellFormed == Init => WellFormed
  <1> SUFFICES ASSUME Init
               PROVE  WellFormed
    OBVIOUS
  <1>1. account \in [Users -> [role : Roles, active : BOOLEAN]]
    BY DEF Init
  <1>2. 0 \in 0..Ttl /\ 0 \in 0..Long /\ Long \in 0..Long
    BY TimesAssumption, LongIsLong
  <1>3. life \in [Users -> [Roles -> 0..Ttl]] /\ since \in [Users -> [Roles -> 0..Long]]
    BY <1>2 DEF Init
  <1> QED
    BY <1>1, <1>3 DEF Init, WellFormed

LEMMA SetAccountWellFormed ==
  ASSUME WellFormed, NEW u \in Users, NEW role \in Roles, NEW active \in BOOLEAN,
         SetAccount(u, role, active)
  PROVE  WellFormed'
  <1>1. account' \in [Users -> [role : Roles, active : BOOLEAN]]
    BY DEF SetAccount, WellFormed
  <1>2. since' \in [Users -> [Roles -> 0..Long]]
    BY LongIsLong DEF SetAccount, WellFormed
  <1> QED
    BY <1>1, <1>2 DEF SetAccount, WellFormed

LEMMA GotoWellFormed ==
  ASSUME WellFormed, NEW r \in Requests, NEW pc \in {"check", "sign"}, NEW u \in Users,
         NEW role \in SUBSET Roles, Goto(r, pc, u, role)
  PROVE  req' \in [Requests -> {Idle} \cup Working]
  <1>1. [pc |-> pc, user |-> {u}, role |-> role, age |-> 0] \in Working
    BY TimesAssumption DEF Working
  <1>2. req \in [Requests -> {Idle} \cup Working]
    BY DEF WellFormed
  <1>3. \A d \in Working : [req EXCEPT ![r] = d] \in [Requests -> {Idle} \cup Working]
    BY <1>2
  <1> QED
    BY <1>1, <1>3 DEF Goto

LEMMA ServedRequest ==
  ASSUME WellFormed, NEW r \in Requests, req[r].pc \in {"check", "sign"}
  PROVE  /\ req[r] \in Working
         /\ \E u \in Users : req[r].user = {u}
  <1>1. req[r] \in {Idle} \cup Working
    BY DEF WellFormed
  <1>2. req[r] \in Working
    BY <1>1 DEF Idle
  <1> QED
    BY <1>2 DEF Working

LEMMA TickWellFormed == WellFormed /\ Tick => WellFormed'
  <1> SUFFICES ASSUME WellFormed, Tick
               PROVE  WellFormed'
    OBVIOUS
  <1>1. life' \in [Users -> [Roles -> 0..Ttl]]
    BY TimesAssumption DEF Tick, WellFormed, Accepted
  <1>2. since' \in [Users -> [Roles -> 0..Long]]
    BY LongIsLong DEF Tick, WellFormed
  <1>3. ASSUME NEW r \in Requests
        PROVE  req'[r] \in {Idle} \cup Working
    <2>1. CASE req[r].pc = "sign"
      <3>1. req[r].age < MaxDelay /\ req'[r] = [req[r] EXCEPT !.age = @ + 1]
        BY <2>1 DEF Tick
      <3> QED
        BY <2>1, <3>1, ServedRequest, TimesAssumption DEF Working
    <2>2. CASE req[r].pc # "sign"
      BY <2>2 DEF Tick, WellFormed
    <2> QED
      BY <2>1, <2>2
  <1>4. req' \in [Requests -> {Idle} \cup Working]
    BY <1>3 DEF Tick
  <1> QED
    BY <1>1, <1>2, <1>4 DEF Tick, WellFormed

LEMMA NextWellFormed == WellFormed /\ [Next]_vars => WellFormed'
  <1> SUFFICES ASSUME WellFormed, [Next]_vars
               PROVE  WellFormed'
    OBVIOUS
  <1>1. ASSUME NEW r \in Requests, NEW u \in Users, LoginRead(r, u)
        PROVE  WellFormed'
    <2>1. {account[u].role} \in SUBSET Roles
      BY DEF WellFormed
    <2> QED
      BY <1>1, <2>1, GotoWellFormed DEF LoginRead, WellFormed
  <1>2. ASSUME NEW r \in Requests, NEW u \in Users, RefreshRotate(r, u)
        PROVE  WellFormed'
    BY <1>2, GotoWellFormed DEF RefreshRotate, WellFormed
  <1>3. ASSUME NEW r \in Requests, RefreshRead(r)
        PROVE  WellFormed'
    <2>1. PICK u \in Users : req[r].user = {u}
      BY <1>3, ServedRequest DEF RefreshRead
    <2>2. CASE Active(u)
      <3>1. Goto(r, "sign", u, {account[u].role}) /\ {account[u].role} \in SUBSET Roles
        BY <1>3, <2>1, <2>2 DEF RefreshRead, WellFormed
      <3>2. req' \in [Requests -> {Idle} \cup Working]
        BY <3>1, GotoWellFormed
      <3> QED
        BY <1>3, <2>1, <2>2, <3>2 DEF RefreshRead, WellFormed
    <2>3. CASE ~Active(u)
      BY <1>3, <2>1, <2>3 DEF RefreshRead, WellFormed
    <2> QED
      BY <2>2, <2>3
  <1>4. ASSUME NEW r \in Requests, Sign(r)
        PROVE  WellFormed'
    <2>0. req[r].user \subseteq Users /\ req[r].role \subseteq Roles
      BY <1>4, ServedRequest DEF Sign, Working
    <2>1. PICK u \in Users, role \in Roles :
             life' = [life EXCEPT ![u][role] = Ttl] /\ cookie' = cookie \cup {u}
      BY <1>4, <2>0 DEF Sign
    <2>2. life' \in [Users -> [Roles -> 0..Ttl]]
      BY <2>1, TimesAssumption DEF WellFormed
    <2> QED
      BY <1>4, <2>1, <2>2 DEF Sign, WellFormed
  <1>5. ASSUME NEW r \in Requests, Fail(r)
        PROVE  WellFormed'
    BY <1>5 DEF Fail, WellFormed
  <1>6. ASSUME NEW u \in Users, LoseCookie(u)
        PROVE  WellFormed'
    BY <1>6 DEF LoseCookie, WellFormed
  <1>7. ASSUME NEW u \in Users, Deactivate(u)
        PROVE  WellFormed'
    <2>1. account[u].role \in Roles
      BY DEF WellFormed
    <2> QED
      BY <1>7, <2>1, SetAccountWellFormed DEF Deactivate
  <1>8. ASSUME NEW u \in Users, NEW role \in Roles, UpsertUser(u, role)
        PROVE  WellFormed'
    BY <1>8, SetAccountWellFormed DEF UpsertUser
  <1>9. CASE UNCHANGED vars
    BY <1>9 DEF vars, WellFormed
  <1> QED
    BY <1>1, <1>2, <1>3, <1>4, <1>5, <1>6, <1>7, <1>8, <1>9, TickWellFormed DEF Next, Serve

\* Accounts, tokens and the locals of the threads are of their kinds, in login, refresh and
\* everything that changes an account.
THEOREM WellFormedInvariant == Spec => []WellFormed
  BY InitWellFormed, NextWellFormed, PTL DEF Spec

\* TypeOK: the type invariant.
THEOREM TypeCorrect == Spec => []TypeOK
  <1>1. WellFormed => TypeOK
    BY DEF WellFormed, TypeOK, Working
  <1> QED
    BY <1>1, WellFormedInvariant, PTL

-----------------------------------------------------------------------------
(* RoleIsRecent is not inductive: a token is signed from a row that a thread *)
(* has read before.  What it takes is how old that row can be, and that the  *)
(* clocks of since stand still while the user has the role.                  *)

NowIsNow == \A u \in Users, role \in Roles : InRole(u, role) => since[u][role] = 0

ReadIsRecent ==
    \A r \in Requests : req[r].pc = "sign" =>
        \A u \in req[r].user, role \in req[r].role : since[u][role] <= req[r].age

RecencyInv == NowIsNow /\ ReadIsRecent /\ RoleIsRecent

\* A row that is read now is as recent as can be.
LEMMA GotoSignRecent ==
  ASSUME WellFormed, RecencyInv, NEW r \in Requests, NEW u \in Users, Active(u),
         Goto(r, "sign", u, {account[u].role}), UNCHANGED <<account, life, since>>
  PROVE  RecencyInv'
  <1>1. since[u][account[u].role] = 0
    BY DEF RecencyInv, NowIsNow, InRole, WellFormed
  <1>2. NowIsNow' /\ RoleIsRecent'
    BY DEF RecencyInv, NowIsNow, RoleIsRecent, InRole, Active, Accepted
  <1>3. ReadIsRecent'
    BY <1>1 DEF RecencyInv, ReadIsRecent, Goto, WellFormed
  <1> QED
    BY <1>2, <1>3 DEF RecencyInv

LEMMA SetAccountRecent ==
  ASSUME WellFormed, RecencyInv, NEW u \in Users, NEW role \in Roles, NEW active \in BOOLEAN,
         SetAccount(u, role, active)
  PROVE  RecencyInv'
  <1>1. ASSUME NEW v \in Users, NEW p \in Roles
        PROVE  since'[v][p] \in {0, since[v][p]}
    BY DEF SetAccount, WellFormed
  <1>2. NowIsNow'
    BY DEF RecencyInv, NowIsNow, InRole, Active, SetAccount, WellFormed
  <1>3. \A v \in Users, p \in Roles : since[v][p] \in Nat /\ life[v][p] \in 0..Ttl
    BY LongIsLong DEF WellFormed
  <1>4. RoleIsRecent'
    BY <1>1, <1>3, TimesAssumption DEF RecencyInv, RoleIsRecent, SetAccount, Accepted
  <1>5. ASSUME NEW r \in Requests, req[r].pc = "sign", NEW v \in req[r].user, NEW p \in req[r].role
        PROVE  since'[v][p] <= req[r].age
    <2>1. v \in Users /\ p \in Roles /\ req[r].age \in Nat
      BY <1>5, ServedRequest, TimesAssumption DEF Working
    <2>2. since[v][p] <= req[r].age
      BY <1>5 DEF RecencyInv, ReadIsRecent
    <2> QED
      BY <1>1, <2>1, <2>2
  <1> QED
    BY <1>2, <1>4, <1>5 DEF RecencyInv, ReadIsRecent, SetAccount

LEMMA SignRecent ==
  ASSUME WellFormed, RecencyInv, NEW r \in Requests, Sign(r)
  PROVE  RecencyInv'
  <1>1. PICK u \in req[r].user, role \in req[r].role : life' = [life EXCEPT ![u][role] = Ttl]
    BY DEF Sign
  <1>2. u \in Users /\ role \in Roles /\ req[r].age \in 0..MaxDelay
    BY ServedRequest DEF Sign, Working
  <1>3. since[u][role] \in Nat /\ since[u][role] <= req[r].age
    BY <1>2, LongIsLong DEF Sign, WellFormed, RecencyInv, ReadIsRecent
  <1>4. RoleIsRecent'
    <2> SUFFICES ASSUME NEW v \in Users, NEW p \in Roles, Accepted(v, p)'
                 PROVE  since'[v][p] <= Ttl - life'[v][p] + MaxDelay
      BY DEF RoleIsRecent
    <2>1. since' = since
      BY DEF Sign
    <2>2. CASE v = u /\ p = role
      <3>1. life'[v][p] = Ttl
        BY <1>1, <1>2, <2>2 DEF WellFormed
      <3> QED
        BY <1>2, <1>3, <2>1, <2>2, <3>1, TimesAssumption
    <2>3. CASE ~(v = u /\ p = role)
      <3>1. life'[v][p] = life[v][p]
        BY <1>1, <1>2, <2>3 DEF WellFormed
      <3> QED
        BY <2>1, <3>1 DEF RecencyInv, RoleIsRecent, Accepted
    <2> QED
      BY <2>2, <2>3
  <1>5. NowIsNow' /\ ReadIsRecent'
    BY DEF Sign, RecencyInv, NowIsNow, ReadIsRecent, InRole, Active, WellFormed, Idle
  <1> QED
    BY <1>4, <1>5 DEF RecencyInv

LEMMA TickRecent ==
  ASSUME WellFormed, RecencyInv, Tick
  PROVE  RecencyInv'
  <1>1. ASSUME NEW u \in Users, NEW role \in Roles
        PROVE  /\ since[u][role] \in Nat /\ since'[u][role] \in Nat
               /\ since'[u][role] <= since[u][role] + 1
               /\ life[u][role] \in 0..Ttl
    BY LongIsLong, TickWellFormed DEF Tick, WellFormed
  <1>2. NowIsNow'
    BY DEF Tick, NowIsNow, InRole, Active
  <1>3. ASSUME NEW r \in Requests, req'[r].pc = "sign",
               NEW u \in req'[r].user, NEW role \in req'[r].role
        PROVE  since'[u][role] <= req'[r].age
    <2>1. req[r].pc = "sign"
      BY <1>3 DEF Tick
    <2>2. req'[r] = [req[r] EXCEPT !.age = @ + 1] /\ req[r] \in Working
      BY <2>1, ServedRequest DEF Tick
    <2>3. /\ u \in req[r].user /\ role \in req[r].role
          /\ u \in Users /\ role \in Roles /\ req[r].age \in Nat /\ req'[r].age = req[r].age + 1
      BY <1>3, <2>2, TimesAssumption DEF Working
    <2>4. since[u][role] <= req[r].age
      BY <2>1, <2>3 DEF RecencyInv, ReadIsRecent
    <2> QED
      BY <1>1, <2>3, <2>4
  <1>4. RoleIsRecent'
    <2> SUFFICES ASSUME NEW u \in Users, NEW role \in Roles, Accepted(u, role)'
                 PROVE  since'[u][role] <= Ttl - life'[u][role] + MaxDelay
      BY DEF RoleIsRecent
    <2>1. Accepted(u, role) /\ life'[u][role] = life[u][role] - 1
      BY <1>1 DEF Tick, Accepted
    <2>2. since[u][role] <= Ttl - life[u][role] + MaxDelay
      BY <2>1 DEF RecencyInv, RoleIsRecent
    <2> QED
      BY <1>1, <2>1, <2>2, TimesAssumption
  <1> QED
    BY <1>2, <1>3, <1>4 DEF RecencyInv, ReadIsRecent

LEMMA NextRecent == WellFormed /\ RecencyInv /\ [Next]_vars => RecencyInv'
  <1> SUFFICES ASSUME WellFormed, RecencyInv, [Next]_vars
               PROVE  RecencyInv'
    OBVIOUS
  <1>1. ASSUME NEW r \in Requests, NEW u \in Users, LoginRead(r, u)
        PROVE  RecencyInv'
    BY <1>1, GotoSignRecent DEF LoginRead
  <1>2. ASSUME UNCHANGED <<account, life, since>>,
               \A r \in Requests : req'[r] = req[r] \/ req'[r].pc # "sign"
        PROVE  RecencyInv'
    BY <1>2 DEF RecencyInv, NowIsNow, ReadIsRecent, RoleIsRecent, InRole, Active, Accepted
  <1>3. ASSUME NEW r \in Requests, RefreshRead(r)
        PROVE  RecencyInv'
    <2>1. PICK u \in Users : req[r].user = {u}
      BY <1>3, ServedRequest DEF RefreshRead
    <2>2. CASE Active(u)
      BY <1>3, <2>1, <2>2, GotoSignRecent DEF RefreshRead
    <2>3. CASE ~Active(u)
      BY <1>2, <1>3, <2>1, <2>3 DEF RefreshRead, WellFormed, Idle
    <2> QED
      BY <2>2, <2>3
  <1>4. ASSUME NEW r \in Requests, Fail(r) \/ \E u \in Users : RefreshRotate(r, u)
        PROVE  RecencyInv'
    BY <1>2, <1>4 DEF Fail, RefreshRotate, Goto, WellFormed, Idle
  <1>5. ASSUME NEW u \in Users, LoseCookie(u)
        PROVE  RecencyInv'
    BY <1>2, <1>5 DEF LoseCookie
  <1>6. ASSUME NEW u \in Users, Deactivate(u) \/ \E role \in Roles : UpsertUser(u, role)
        PROVE  RecencyInv'
    <2>1. PICK role \in Roles, active \in BOOLEAN : SetAccount(u, role, active)
      BY <1>6 DEF Deactivate, UpsertUser, WellFormed
    <2> QED
      BY <2>1, SetAccountRecent
  <1>7. CASE UNCHANGED vars
    BY <1>2, <1>7 DEF vars
  <1> QED
    BY <1>1, <1>3, <1>4, <1>5, <1>6, <1>7, SignRecent, TickRecent DEF Next, Serve

\* RoleIsRecent: an accepted token names a role that its user had not longer ago than
\* the token is old and its handler may have taken.
THEOREM RolesAreRecent == Spec => []RoleIsRecent
  <1>1. Init => RecencyInv
    BY DEF Init, RecencyInv, NowIsNow, ReadIsRecent, RoleIsRecent, Accepted, Idle, InRole, Active
  <1>2. RecencyInv => RoleIsRecent
    BY DEF RecencyInv
  <1> QED
    BY <1>1, <1>2, WellFormedInvariant, NextRecent, PTL DEF Spec

\* A user who has not been active in a role for the life of a token and the time that a
\* handler may take holds no token of it that is accepted.
OldRoleIsRefused ==
    \A u \in Users, role \in Roles : since[u][role] >= Ttl + MaxDelay => ~Accepted(u, role)

\* OldRoleIsRefused: get_current_user accepts no token of such a role.
THEOREM OldRolesAreRefused == Spec => []OldRoleIsRefused
  <1>1. ASSUME WellFormed, RoleIsRecent, NEW u \in Users, NEW role \in Roles,
               since[u][role] >= Ttl + MaxDelay
        PROVE  ~Accepted(u, role)
    <2>1. since[u][role] \in Nat /\ life[u][role] \in 0..Ttl
      BY <1>1, LongIsLong DEF WellFormed
    <2> QED
      BY <1>1, <2>1, TimesAssumption DEF RoleIsRecent, Accepted
  <1>2. WellFormed /\ RoleIsRecent => OldRoleIsRefused
    BY <1>1 DEF OldRoleIsRefused
  <1> QED
    BY <1>2, WellFormedInvariant, RolesAreRecent, PTL
=============================================================================
