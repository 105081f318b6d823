------------------------ MODULE RefreshTokensProofs ------------------------
(***************************************************************************)
(* What RefreshTokens promises for every number of users, tokens and       *)
(* threads.  The invariant is built in three layers: what the locals of a  *)
(* request and the rows of the table look like (WellFormed), what a        *)
(* revocation leaves behind (RevocationHolds and the rotations in flight), *)
(* and how many successors a token can have (ForksNeedOverlap).            *)
(***************************************************************************)
EXTENDS RefreshTokens, FiniteSetTheorems, TLAPS

\* A request under way knows its user, and after its first transaction a token
\* of that user.
RequestsOK ==
    \A r \in Requests :
        /\ req[r].pc # "idle" => req[r].who \in Users
        /\ req[r].pc \notin {"idle", "issue"} =>
              req[r].tok \in Tokens /\ owner[req[r].tok] = req[r].who

\* What is revoked or was delivered has a row.
RowsOK == \A t \in revoked \cup delivered : owner[t] \in Users

WellFormed == TypeOK /\ RequestsOK /\ RowsOK /\ RotatedTokenIsDead

LEMMA InitWellFormed == Init => WellFormed
  BY NoUserAssumption, NoTokenAssumption
     DEF Init, WellFormed, TypeOK, RequestsOK, RowsOK, RotatedTokenIsDead,
         Idle, Request, Steps

LEMMA NextWellFormed == WellFormed /\ [Next]_vars => WellFormed'
  <1> SUFFICES ASSUME WellFormed, [Next]_vars
               PROVE  WellFormed'
    OBVIOUS
  <1> USE NoUserAssumption, NoTokenAssumption
          DEF WellFormed, TypeOK, RequestsOK, RowsOK, RotatedTokenIsDead, Idle,
              Request, Steps, Goto, table, history
  <1>1. ASSUME NEW r \in Requests, NEW u \in Users, LoginRead(r, u)
        PROVE  WellFormed'
    BY <1>1 DEF LoginRead
  <1>2. ASSUME NEW r \in Requests, NEW n \in Tokens, LoginIssue(r, n)
        PROVE  WellFormed'
    BY <1>2 DEF LoginIssue, Insert
  <1>3. ASSUME NEW r \in Requests, NEW t \in Tokens, RefreshRead(r, t)
        PROVE  WellFormed'
    BY <1>3 DEF RefreshRead
  <1>4. ASSUME NEW r \in Requests, NEW n \in Tokens, Rotate(r, n)
        PROVE  WellFormed'
    BY <1>4 DEF Rotate, Insert
  <1>5. ASSUME NEW r \in Requests, ReuseRevoke(r)
        PROVE  WellFormed'
    BY <1>5 DEF ReuseRevoke, RevokeFamily, Live
  <1>6. ASSUME NEW r \in Requests, CheckUser(r)
        PROVE  WellFormed'
    BY <1>6 DEF CheckUser
  <1>7. ASSUME NEW r \in Requests, DisableRevoke(r)
        PROVE  WellFormed'
    BY <1>7 DEF DisableRevoke, RevokeFamily, Live
  <1>8. ASSUME NEW r \in Requests, NEW t \in Tokens, LogoutRead(r, t)
        PROVE  WellFormed'
    BY <1>8 DEF LogoutRead
  <1>9. ASSUME NEW r \in Requests, LogoutRevoke(r)
        PROVE  WellFormed'
    BY <1>9 DEF LogoutRevoke, RevokeFamily, Live
  <1>10. ASSUME NEW r \in Requests, Respond(r) \/ Fail(r)
         PROVE  WellFormed'
    BY <1>10 DEF Respond, Fail
  <1>11. CASE Outside
    BY <1>11 DEF Outside, Expire, Deactivate, UpsertUser
  <1>12. CASE UNCHANGED vars
    BY <1>12 DEF vars
  <1> QED
    BY <1>1, <1>2, <1>3, <1>4, <1>5, <1>6, <1>7, <1>8, <1>9, <1>10, <1>11, <1>12
       DEF Next, Arrive, Serve

\* The variables keep their types, with the facts about locals and rows that
\* this takes.
THEOREM WellFormedInvariant == Spec => []WellFormed
  BY InitWellFormed, NextWellFormed, PTL DEF Spec

\* TypeOK: the type invariant.
THEOREM TypeCorrect == Spec => []TypeOK
  <1>1. WellFormed => TypeOK
    BY DEF WellFormed
  <1> QED
    BY <1>1, WellFormedInvariant, PTL

\* RotatedTokenIsDead: a token that has a successor is revoked.
THEOREM RotationKillsParent == Spec => []RotatedTokenIsDead
  <1>1. WellFormed => RotatedTokenIsDead
    BY DEF WellFormed
  <1> QED
    BY <1>1, WellFormedInvariant, PTL

-----------------------------------------------------------------------------
(* What a revocation leaves behind.  RevocationHolds is not inductive: a     *)
(* rotation in flight could give the user a token.  Where the revocation met *)
(* none, none can begin, because a rotation begins with a working token.     *)

Quiet(u) == \A r \in Requests : ~(req[r].pc = "rotate" /\ req[r].who = u)

RevocationInv ==
    \A u \in needsLogin \ raced : Live(u) = {} /\ Quiet(u)

LEMMA RevokeFamilyKeepsInv ==
  ASSUME WellFormed, RevocationInv,
         NEW r \in Requests, NEW v, RevokeFamily(r, v),
         Goto(r, "idle", NoUser, NoToken)
  PROVE  RevocationInv'
  <1> USE DEF WellFormed, TypeOK, Request
  <1>1. ASSUME NEW u \in needsLogin' \ raced', u # v
        PROVE  Live(u)' = {} /\ Quiet(u)'
    <2>1. u \in needsLogin \ raced
      BY <1>1 DEF RevokeFamily
    <2> QED
      BY <2>1 DEF RevocationInv, RevokeFamily, Live, Quiet, Goto
  <1>2. Live(v)' = {}
    BY DEF RevokeFamily, Live
  <1>3. v \notin raced' => Quiet(v)'
    BY NoUserAssumption DEF RevokeFamily, Quiet, Goto
  <1> QED
    BY <1>1, <1>2, <1>3 DEF RevocationInv

LEMMA NextRevocationInv ==
    WellFormed /\ RevocationInv /\ [Next]_vars => RevocationInv'
  <1> SUFFICES ASSUME WellFormed, RevocationInv, [Next]_vars
               PROVE  RevocationInv'
    OBVIOUS
  <1> USE NoUserAssumption, NoTokenAssumption
          DEF WellFormed, TypeOK, RequestsOK, RowsOK, Idle, Request, Goto, table,
              history, RevocationInv, Live, Quiet
  <1>1. ASSUME NEW r \in Requests, NEW u \in Users, LoginRead(r, u)
        PROVE  RevocationInv'
    BY <1>1 DEF LoginRead
  <1>2. ASSUME NEW r \in Requests, NEW n \in Tokens, LoginIssue(r, n)
        PROVE  RevocationInv'
    BY <1>2 DEF LoginIssue, Insert
  <1>3. ASSUME NEW r \in Requests, NEW t \in Tokens, RefreshRead(r, t)
        PROVE  RevocationInv'
    <2>1. t \notin revoked => t \in Live(owner[t])
      OBVIOUS
    <2> QED
      BY <1>3, <2>1 DEF RefreshRead
  <1>4. ASSUME NEW r \in Requests, NEW n \in Tokens, Rotate(r, n)
        PROVE  RevocationInv'
    BY <1>4 DEF Rotate, Insert
  <1>5. ASSUME NEW r \in Requests,
               ReuseRevoke(r) \/ DisableRevoke(r) \/ LogoutRevoke(r)
        PROVE  RevocationInv'
    <2>1. RevokeFamily(r, req[r].who) /\ Goto(r, "idle", NoUser, NoToken)
      BY <1>5 DEF ReuseRevoke, DisableRevoke, LogoutRevoke
    <2>2. PICK v : v = req[r].who
      OBVIOUS
    <2>3. RevokeFamily(r, v)
      BY <2>1, <2>2
    <2> QED
      BY ONLY WellFormed, RevocationInv, <2>1, <2>3, RevokeFamilyKeepsInv
  <1>6. ASSUME NEW r \in Requests, CheckUser(r)
        PROVE  RevocationInv'
    BY <1>6 DEF CheckUser
  <1>7. ASSUME NEW r \in Requests, NEW t \in Tokens, LogoutRead(r, t)
        PROVE  RevocationInv'
    BY <1>7 DEF LogoutRead
  <1>8. ASSUME NEW r \in Requests, Respond(r) \/ Fail(r)
        PROVE  RevocationInv'
    BY <1>8 DEF Respond, Fail
  <1>9. CASE Outside
    BY <1>9 DEF Outside, Expire, Deactivate, UpsertUser
  <1>10. CASE UNCHANGED vars
    BY <1>10 DEF vars
  <1> QED
    BY <1>1, <1>2, <1>3, <1>4, <1>5, <1>6, <1>7, <1>8, <1>9, <1>10
       DEF Next, Arrive, Serve

\* RevocationHolds: a revocation that met no rotation in flight holds until the
\* user logs in again.
THEOREM RevocationIsLasting == Spec => []RevocationHolds
  <1>1. Init => RevocationInv
    BY DEF Init, RevocationInv
  <1>2. RevocationInv => RevocationHolds
    BY DEF RevocationInv, RevocationHolds
  <1> QED
    BY <1>1, <1>2, WellFormedInvariant, NextRevocationInv, PTL DEF Spec

-----------------------------------------------------------------------------
(* Whose tokens a request revokes.                                           *)

LEMMA StepRevokesOwnFamily ==
    WellFormed /\ [Next]_vars =>
        \A t \in revoked' \ revoked :
           \E r \in Requests : req[r] # Idle /\ req[r].who = owner[t] /\ req'[r] # req[r]
  <1> SUFFICES ASSUME WellFormed, Next, NEW t \in revoked' \ revoked
               PROVE  \E r \in Requests :
                         req[r] # Idle /\ req[r].who = owner[t] /\ req'[r] # req[r]
    BY DEF vars, table
  <1>1. PICK r \in Requests :
           \/ \E n \in Tokens : Rotate(r, n)
           \/ ReuseRevoke(r) \/ DisableRevoke(r) \/ LogoutRevoke(r)
    BY DEF Next, Arrive, Serve, Outside, LoginRead, LoginIssue, RefreshRead, CheckUser,
           LogoutRead, Respond, Fail, Expire, Deactivate, UpsertUser, table
  <1>2. req[r].pc # "idle" /\ req'[r].pc # req[r].pc
    BY <1>1 DEF Rotate, ReuseRevoke, DisableRevoke, LogoutRevoke, Goto, WellFormed, TypeOK
  <1>3. req[r].who = owner[t]
    BY <1>1 DEF Rotate, ReuseRevoke, DisableRevoke, LogoutRevoke, RevokeFamily, Live,
                WellFormed, RequestsOK
  <1> QED
    BY <1>2, <1>3 DEF Idle

\* OnlyOwnFamily: one user's requests never revoke another user's token.
THEOREM FamiliesAreSeparate == Spec => OnlyOwnFamily
  BY WellFormedInvariant, StepRevokesOwnFamily, PTL DEF Spec, OnlyOwnFamily

-----------------------------------------------------------------------------
(* How many successors a token can have.  The sum that ForksNeedOverlap      *)
(* bounds grows only when a rotation begins, and it begins with a token that *)
(* is not revoked, so one with no successor yet.                             *)

ForksInv ==
    \A t \in Tokens :
        /\ IsFiniteSet(Children(t))
        /\ Cardinality(Children(t)) + Cardinality(Rotating(t)) <= Cardinality(Requests)

LEMMA RotatingIsFinite ==
  ASSUME NEW t \in Tokens
  PROVE  /\ IsFiniteSet(Rotating(t))
         /\ Cardinality(Rotating(t)) \in Nat
         /\ Cardinality(Rotating(t)) <= Cardinality(Requests)
         /\ Cardinality(Requests) \in Nat
  BY RequestsAssumption, FS_Subset, FS_CardinalityType DEF Rotating

LEMMA ChildrenOfUnrevoked ==
  ASSUME WellFormed, NEW t \in Tokens \ revoked
  PROVE  Children(t) = {}
  BY NoTokenAssumption DEF WellFormed, RotatedTokenIsDead, Children

\* The steps that add no successor and start no rotation.
LEMMA FewerRotations ==
  ASSUME ForksInv, parent' = parent,
         \A t \in Tokens : Rotating(t)' \subseteq Rotating(t)
  PROVE  ForksInv'
  <1> SUFFICES ASSUME NEW t \in Tokens
               PROVE  /\ IsFiniteSet(Children(t)')
                      /\ Cardinality(Children(t)') + Cardinality(Rotating(t)')
                           <= Cardinality(Requests)
    BY DEF ForksInv
  <1>1. Children(t)' = Children(t)
    BY DEF Children
  <1>2. /\ Cardinality(Rotating(t)') \in Nat
        /\ Cardinality(Rotating(t)') <= Cardinality(Rotating(t))
    BY RotatingIsFinite, FS_Subset, FS_CardinalityType
  <1>3. Cardinality(Children(t)) \in Nat
    BY FS_CardinalityType DEF ForksInv
  <1> QED
    BY <1>1, <1>2, <1>3, RotatingIsFinite DEF ForksInv

LEMMA RefreshReadKeepsForks ==
  ASSUME WellFormed, ForksInv,
         NEW r \in Requests, NEW t \in Tokens, RefreshRead(r, t)
  PROVE  ForksInv'
  <1> USE DEF WellFormed, TypeOK, Request
  <1> SUFFICES ASSUME NEW s \in Tokens
               PROVE  /\ IsFiniteSet(Children(s)')
                      /\ Cardinality(Children(s)') + Cardinality(Rotating(s)')
                           <= Cardinality(Requests)
    BY DEF ForksInv
  <1>1. Children(s)' = Children(s)
    BY DEF RefreshRead, Children, history
  <1>2. /\ Cardinality(Rotating(s)') \in Nat
        /\ Cardinality(Rotating(s)') <= Cardinality(Requests)
    <2>1. Rotating(s)' \subseteq Requests
      BY DEF Rotating
    <2> QED
      BY <2>1, RequestsAssumption, FS_Subset, FS_CardinalityType
  <1>3. CASE s \notin revoked
    BY <1>1, <1>2, <1>3, ChildrenOfUnrevoked, FS_EmptySet DEF ForksInv
  <1>4. CASE s \in revoked
    <2>1. Rotating(s)' \subseteq Rotating(s)
      BY <1>4 DEF RefreshRead, Rotating, Goto
    <2>2. Cardinality(Rotating(s)') <= Cardinality(Rotating(s))
      BY <2>1, RotatingIsFinite, FS_Subset
    <2>3. Cardinality(Children(s)) \in Nat
      BY FS_CardinalityType DEF ForksInv
    <2> QED
      BY <1>1, <1>2, <2>2, <2>3, RotatingIsFinite DEF ForksInv
  <1> QED
    BY <1>3, <1>4

LEMMA RotateKeepsForks ==
  ASSUME WellFormed, ForksInv,
         NEW r \in Requests, NEW n \in Tokens, Rotate(r, n)
  PROVE  ForksInv'
  <1> USE DEF WellFormed, TypeOK, Request
  <1> SUFFICES ASSUME NEW t \in Tokens
               PROVE  /\ IsFiniteSet(Children(t)')
                      /\ Cardinality(Children(t)') + Cardinality(Rotating(t)')
                           <= Cardinality(Requests)
    BY DEF ForksInv
  <1>1. /\ IsFiniteSet(Children(t)) /\ Cardinality(Children(t)) \in Nat
        /\ Cardinality(Children(t)) + Cardinality(Rotating(t)) <= Cardinality(Requests)
    BY FS_CardinalityType DEF ForksInv
  <1>2. parent[n] = NoToken
    BY DEF Rotate, Insert, RotatedTokenIsDead
  <1>3. CASE t = req[r].tok
    <2>1. Children(t)' = Children(t) \cup {n} /\ n \notin Children(t)
      BY <1>2, <1>3, NoTokenAssumption DEF Rotate, Children
    <2>2. Rotating(t)' = Rotating(t) \ {r} /\ r \in Rotating(t)
      BY <1>3 DEF Rotate, Rotating, Goto
    <2>3. IsFiniteSet(Children(t)') /\ Cardinality(Children(t)') = Cardinality(Children(t)) + 1
      BY <1>1, <2>1, FS_AddElement
    <2>4. Cardinality(Rotating(t)') = Cardinality(Rotating(t)) - 1
      BY <2>2, RotatingIsFinite, FS_RemoveElement
    <2> QED
      BY <1>1, <2>3, <2>4, RotatingIsFinite
  <1>4. CASE t # req[r].tok
    <2>1. Children(t)' = Children(t)
      BY <1>2, <1>4, NoTokenAssumption DEF Rotate, Children
    <2>2. Rotating(t)' = Rotating(t)
      BY <1>4 DEF Rotate, Rotating, Goto
    <2> QED
      BY <1>1, <2>1, <2>2
  <1> QED
    BY <1>3, <1>4

LEMMA NextForksInv == WellFormed /\ ForksInv /\ [Next]_vars => ForksInv'
  <1> SUFFICES ASSUME WellFormed, ForksInv, [Next]_vars
               PROVE  ForksInv'
    OBVIOUS
  <1>1. CASE \E r \in Requests, t \in Tokens : RefreshRead(r, t)
    BY <1>1, RefreshReadKeepsForks
  <1>2. CASE \E r \in Requests, n \in Tokens : Rotate(r, n)
    BY <1>2, RotateKeepsForks
  <1>3. CASE \E r \in Requests :
                \/ \E u \in Users : LoginRead(r, u)
                \/ \E t \in Tokens : LoginIssue(r, t) \/ LogoutRead(r, t)
                \/ ReuseRevoke(r) \/ CheckUser(r) \/ DisableRevoke(r)
                \/ LogoutRevoke(r) \/ Respond(r) \/ Fail(r)
    <2>1. parent' = parent
      BY <1>3 DEF LoginRead, LoginIssue, LogoutRead, ReuseRevoke, CheckUser,
                  DisableRevoke, LogoutRevoke, Respond, Fail, RevokeFamily, history
    <2>2. PICK r \in Requests, step \in Steps \ {"rotate"} : \E u, t : Goto(r, step, u, t)
      BY <1>3 DEF LoginRead, LoginIssue, LogoutRead, ReuseRevoke, CheckUser,
                  DisableRevoke, LogoutRevoke, Respond, Fail, Steps
    <2>3. \A t_1 \in Tokens : Rotating(t_1)' \subseteq Rotating(t_1)
      BY <2>2 DEF Rotating, Goto, WellFormed, TypeOK
    <2> QED
      BY <2>1, <2>3, FewerRotations
  <1>4. CASE Outside \/ UNCHANGED vars
    <2>1. parent' = parent /\ req' = req
      BY <1>4 DEF Outside, Expire, Deactivate, UpsertUser, vars, history
    <2> QED
      BY <2>1, FewerRotations DEF Rotating
  <1> QED
    BY <1>1, <1>2, <1>3, <1>4 DEF Next, Arrive, Serve

\* ForksNeedOverlap: a token never has more successors than there are threads to
\* present it before the first rotation commits.
THEOREM ForksAreBounded == Spec => []ForksNeedOverlap
  <1>1. Init => ForksInv
    <2> SUFFICES ASSUME Init, NEW t \in Tokens
                 PROVE  /\ IsFiniteSet(Children(t))
                        /\ Cardinality(Children(t)) + Cardinality(Rotating(t))
                             <= Cardinality(Requests)
      BY DEF ForksInv
    <2>1. Children(t) = {}
      BY NoTokenAssumption DEF Init, Children
    <2> QED
      BY <2>1, FS_EmptySet, RotatingIsFinite
  <1>2. ForksInv => ForksNeedOverlap
    BY DEF ForksInv, ForksNeedOverlap
  <1> QED
    BY <1>1, <1>2, WellFormedInvariant, NextForksInv, PTL DEF Spec
=============================================================================
