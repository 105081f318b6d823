----------------------------- MODULE AskSession -----------------------------
(***************************************************************************)
(* POST /ask (main.py) over the session store (session_store.py): a user's *)
(* session is read, changed by pipeline.ask and written back inside a      *)
(* per-user Redis lock.  The lock is a lease of ten seconds; the handler   *)
(* does not renew it, nor does it look at it again before it writes.       *)
(*                                                                         *)
(* FastAPI runs the handler on threads of several processes: requests of   *)
(* one user and of several interleave at every call to Redis.              *)
(***************************************************************************)
EXTENDS Pipeline

CONSTANTS
    Users,
    Requests,   \* threads that serve /ask
    Says,       \* the texts each user may send
    Free,       \* the lock of a user has no key in Redis
    Orphan,     \* the key is there, and no thread will delete it
    NoUser

ASSUME SaysAssumption == Says \in [Users -> SUBSET Text]
ASSUME LockAssumption == Free # Orphan /\ Requests \cap {Free, Orphan} = {}
ASSUME NoUserAssumption == NoUser \notin Users

VARIABLES
    session,    \* the key session:<user>; a missing key reads as NewSession
    lock,       \* the key session-lock:<user>: whose token it holds
    req,        \* what each thread is doing, and its locals
    overtaken,  \* history: threads whose user's lock went to another before they left it
    outdated,   \* history: threads that have not seen the last update of the session
    disturbed   \* history: users whose lock was lost under a thread that is still inside

history == <<overtaken, outdated, disturbed>>
vars == <<session, lock, req, history>>

Steps == {"idle", "acquire", "load", "ask", "store", "release", "unwind", "push",
          "done"}

\* What the client gets: 0 while the handler runs, 502 when the pipeline raises.
Codes == {0, 200, 500, 502, 503}

\* A failed call to Redis: redis.exceptions.ConnectionError is caught (503),
\* redis.exceptions.TimeoutError is not the TimeoutError the handler names (500).
RedisCodes == {500, 503}

Idle == [pc |-> "idle", user |-> NoUser, text |-> NoText, state |-> NewSession, code |-> 0]

RequestState ==
    [pc: Steps, user: Users \cup {NoUser}, text: Text \cup {NoText}, state: SessionState,
     code: Codes]

\* Between the acquisition of the lock and its release.
Inside == {"load", "ask", "store", "release", "unwind"}

InsideFor(u) == {r \in Requests : req[r].user = u /\ req[r].pc \in Inside}

Init ==
    /\ session = [u \in Users |-> NewSession]
    /\ lock = [u \in Users |-> Free]
    /\ req = [r \in Requests |-> Idle]
    /\ overtaken = {}
    /\ outdated = {}
    /\ disturbed = {}

At(r, step) == req[r].pc = step

Goto(r, step) == req' = [req EXCEPT ![r].pc = step]

\* The locals that no later step uses are forgotten.
Forget(r, step, code) ==
    req' = [req EXCEPT ![r] = [Idle EXCEPT !.pc = step, !.user = req[r].user, !.code = code]]

Reply(r, code) == req' = [req EXCEPT ![r] = [Idle EXCEPT !.pc = "done", !.code = code]]

\* The bookkeeping of a thread that leaves the lock.
Left(r) ==
    disturbed' = IF InsideFor(req[r].user) \subseteq {r}
                 THEN disturbed \ {req[r].user}
                 ELSE disturbed

-----------------------------------------------------------------------------

Arrive(r, u, text) ==
    /\ At(r, "idle")
    /\ req' = [req EXCEPT ![r] = [Idle EXCEPT !.pc = "acquire", !.user = u, !.text = text]]
    /\ UNCHANGED <<session, lock, history>>

\* Mutant: the key is set without NX.
Acquire_NoTest(r) ==
    /\ At(r, "acquire")
    /\ lock' = [lock EXCEPT ![req[r].user] = r]
    /\ Goto(r, "load")
    /\ UNCHANGED <<session, history>>

\* SET session-lock:<user> <token of this acquisition> NX PX 10000.
Acquire(r) ==
    /\ At(r, "acquire")
    /\ lock[req[r].user] = Free
    /\ lock' = [lock EXCEPT ![req[r].user] = r]
    /\ overtaken' = overtaken \cup InsideFor(req[r].user)
    /\ Goto(r, "load")
    /\ UNCHANGED <<session, outdated, disturbed>>

\* Five seconds of polling found the lock taken: the TimeoutError of locked().
AcquireTimeout(r) ==
    /\ At(r, "acquire")
    /\ lock[req[r].user] # Free
    /\ Reply(r, 503)
    /\ UNCHANGED <<session, lock, history>>

\* The call fails, before or after it set the key.
AcquireError(r) ==
    /\ At(r, "acquire")
    /\ \/ UNCHANGED <<lock, overtaken>>
       \/ /\ lock[req[r].user] = Free
          /\ lock' = [lock EXCEPT ![req[r].user] = Orphan]
          /\ overtaken' = overtaken \cup InsideFor(req[r].user)
    /\ \E code \in RedisCodes : Reply(r, code)
    /\ UNCHANGED <<session, outdated, disturbed>>

\* Mutant: a missing key is not turned into a new session.
Load_NoDefault(r) ==
    /\ At(r, "load")
    /\ session[req[r].user] = NewSession
    /\ req' = [req EXCEPT ![r].pc = "ask", ![r].state = NoText]
    /\ UNCHANGED <<session, lock, history>>

Load(r) ==
    /\ At(r, "load")
    /\ req' = [req EXCEPT ![r].pc = "ask", ![r].state = session[req[r].user]]
    /\ UNCHANGED <<session, lock, history>>

\* pipeline.ask: retrieval, generation and verification, many seconds.
AskPipeline(r) ==
    /\ At(r, "ask")
    /\ \E o \in Ask(req[r].text, req[r].state) :
          req' = [req EXCEPT ![r].pc = "store", ![r].text = NoText, ![r].state = o.session]
    /\ UNCHANGED <<session, lock, history>>

\* SET session:<user>, with the time to live of the role.
Write(r) ==
    /\ session' = [session EXCEPT ![req[r].user] = req[r].state]
    /\ outdated' = (outdated \cup {q \in InsideFor(req[r].user) : req[q].pc \in {"ask", "store"}})
                      \ {r}

Store(r) ==
    /\ At(r, "store")
    /\ Write(r)
    /\ Forget(r, "release", 0)
    /\ UNCHANGED <<lock, overtaken, disturbed>>

\* An exception inside the lock; a SET that fails may have been done.
RaiseInside(r) ==
    /\ \/ /\ At(r, "load")
          /\ \E code \in RedisCodes : Forget(r, "unwind", code)
          /\ UNCHANGED <<session, outdated>>
       \/ /\ At(r, "ask")
          /\ Forget(r, "unwind", 502)
          /\ outdated' = outdated \ {r}
          /\ UNCHANGED session
       \/ /\ At(r, "store")
          /\ \E code \in RedisCodes : Forget(r, "unwind", code)
          /\ Write(r) \/ (UNCHANGED session /\ outdated' = outdated \ {r})
    /\ UNCHANGED <<lock, overtaken, disturbed>>

-----------------------------------------------------------------------------
(* The finally clause: lock.release() deletes the key if it still holds the *)
(* token of this acquisition, and raises LockNotOwnedError otherwise.       *)

\* Mutant: DEL session-lock:<user>, whoever holds it.
Release_AnyOwner(r) ==
    /\ req[r].pc \in {"release", "unwind"}
    /\ lock' = [lock EXCEPT ![req[r].user] = Free]
    /\ IF At(r, "release") THEN Forget(r, "push", 0) ELSE Reply(r, req[r].code)
    /\ Left(r)
    /\ UNCHANGED <<session, overtaken, outdated>>

Release(r) ==
    /\ req[r].pc \in {"release", "unwind"}
    /\ lock[req[r].user] = r
    /\ lock' = [lock EXCEPT ![req[r].user] = Free]
    /\ IF At(r, "release") THEN Forget(r, "push", 0) ELSE Reply(r, req[r].code)
    /\ Left(r)
    /\ UNCHANGED <<session, overtaken, outdated>>

ReleaseNotOwned(r) ==
    /\ req[r].pc \in {"release", "unwind"}
    /\ lock[req[r].user] # r
    /\ Reply(r, 500)
    /\ Left(r)
    /\ UNCHANGED <<session, lock, overtaken, outdated>>

\* The lock of a thread that will not release it (again).
Abandoned(r) ==
    [u \in Users |-> IF lock[u] = r THEN Orphan ELSE lock[u]]

\* The call fails, before or after it deleted the key.
ReleaseError(r) ==
    /\ req[r].pc \in {"release", "unwind"}
    /\ lock' \in {Abandoned(r), [u \in Users |-> IF lock[u] = r THEN Free ELSE lock[u]]}
    /\ \E code \in RedisCodes : Reply(r, code)
    /\ Left(r)
    /\ UNCHANGED <<session, overtaken, outdated>>

-----------------------------------------------------------------------------
(* After the lock.  The list recent:<user> is write-only in this program    *)
(* and its content is left out; enqueue_history_write catches everything.   *)

PushRecentTurn(r) ==
    /\ At(r, "push")
    /\ \E code \in {200} \cup RedisCodes : Reply(r, code)
    /\ UNCHANGED <<session, lock, history>>

Return(r) ==
    /\ At(r, "done")
    /\ req' = [req EXCEPT ![r] = Idle]
    /\ overtaken' = overtaken \ {r}
    /\ UNCHANGED <<session, lock, outdated, disturbed>>

\* The process of a thread dies.
Crash(r) ==
    /\ req[r].pc \notin {"idle", "done"}
    /\ req' = [req EXCEPT ![r] = Idle]
    /\ lock' = Abandoned(r)
    /\ overtaken' = overtaken \ {r}
    /\ outdated' = outdated \ {r}
    /\ Left(r)
    /\ UNCHANGED session

-----------------------------------------------------------------------------
(* Redis on its own.                                                        *)

\* Ten seconds have passed since the lock was taken, or a failover lost the key.
LeaseEnds(u) ==
    /\ lock[u] # Free
    /\ lock' = [lock EXCEPT ![u] = Free]
    /\ disturbed' = IF lock[u] \in Requests THEN disturbed \cup {u} ELSE disturbed
    /\ UNCHANGED <<session, req, overtaken, outdated>>

\* The time to live of the session is over (ten minutes or an hour), or Redis
\* evicted it.
SessionExpires(u) ==
    /\ session[u] # NewSession
    /\ session' = [session EXCEPT ![u] = NewSession]
    /\ UNCHANGED <<lock, req, history>>

-----------------------------------------------------------------------------

Serve(r) ==
    \/ Acquire(r) \/ AcquireTimeout(r) \/ AcquireError(r)
    \/ Load(r) \/ AskPipeline(r) \/ Store(r) \/ RaiseInside(r)
    \/ Release(r) \/ ReleaseNotOwned(r) \/ ReleaseError(r)
    \/ PushRecentTurn(r) \/ Return(r)

Next ==
    \/ \E r \in Requests : \/ \E u \in Users : \E text \in Says[u] : Arrive(r, u, text)
                           \/ Serve(r)
                           \/ Crash(r)
    \/ \E u \in Users : LeaseEnds(u) \/ SessionExpires(u)

Spec == Init /\ [][Next]_vars

-----------------------------------------------------------------------------

TypeOK ==
    /\ session \in [Users -> SessionState]
    /\ lock \in [Users -> Requests \cup {Free, Orphan}]
    /\ req \in [Requests -> RequestState]
    /\ overtaken \cup outdated \subseteq Requests
    /\ disturbed \subseteq Users

\* Once a thread has released the lock without an error, no other thread of the
\* user was inside with it: of the requests that answer 200 for one user, no two
\* were inside the lock together.
ReleasedInTime ==
    \A r \in Requests : req[r].pc = "push" \/ req[r].code = 200 =>
        r \notin overtaken

\* As long as no lock is lost under a thread, a thread that is about to write has
\* seen every update of the session: none is lost.
NoLostUpdate ==
    \A r \in outdated : req[r].user \in disturbed

\* A stored pending question was asked by this user, and with it are stored the
\* two or more documents that were offered to choose from: whatever interleaves,
\* a selection can always be resolved.
PendingIsAnswerable ==
    \A u \in Users : session[u].pending # NoText =>
        session[u].pending \in Says[u] /\ Cardinality(session[u].candidates) > 1
=============================================================================
