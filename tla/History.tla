------------------------------ MODULE History ------------------------------
(***************************************************************************)
(* The history of the turns: /ask hands a job to RQ's queue in Redis       *)
(* (orchestration/history_queue.py), and a worker process takes it and     *)
(* inserts a row in conversation_turns and one in audit_log                *)
(* (history_worker.py).                                                    *)
(*                                                                         *)
(* RQ is external: its lists and registries are the record redis.  A job   *)
(* that fails with retries left is put off for a while (all the intervals  *)
(* of HISTORY_JOB_RETRY are positive), and comes back to the queue when    *)
(* RQ's scheduler is run.  Redis replicates asynchronously: a failover     *)
(* goes back to what the replica has.                                      *)
(***************************************************************************)
EXTENDS FiniteSets, Naturals, Sequences, SequencesExt

CONSTANTS
    Turns,
    Workers,
    MaxRetries,     \* Retry(max=3)
    MaxCrashes,     \* bound on the crashes of workers
    MaxFailovers    \* bound on the failovers

ASSUME WorkersAssumption == IsFiniteSet(Workers)

ASSUME BoundsAssumption ==
    /\ MaxRetries \in Nat /\ MaxFailovers \in Nat
    /\ MaxCrashes \in Nat /\ MaxCrashes < Cardinality(Workers)

VARIABLES
    asked,      \* what /ask did of a turn
    redis,      \* RQ's queue, registries and jobs, db 1 of the primary
    replica,    \* the same at the replica
    worker,
    conversation_turns, audit_log,  \* rows, per turn
    crashes, failovers,
    logged,     \* history: turns whose enqueue raised, which is logged
    forgotten,  \* history: turns whose job a failover has lost
    doubt       \* history: how often a job was done unnoticed, or brought back by a failover

vars == <<asked, redis, replica, worker, conversation_turns, audit_log,
          crashes, failovers, logged, forgotten, doubt>>
rows == <<conversation_turns, audit_log>>
faults == <<replica, crashes, failovers, forgotten>>

NoJobs == [queue |-> <<>>, started |-> {}, scheduled |-> {}, finished |-> {},
           failed |-> {}, left |-> [t \in Turns |-> MaxRetries]]

\* Where RQ still knows the job of a turn.
Kept(r) == ToSet(r.queue) \cup r.started \cup r.scheduled \cup r.finished \cup r.failed

Idle == [pc |-> "idle", turn |-> {}]
Off == [pc |-> "off", turn |-> {}]

Init ==
    /\ asked = [t \in Turns |-> "new"]
    /\ redis = NoJobs /\ replica = NoJobs
    /\ worker = [w \in Workers |-> Idle]
    /\ conversation_turns = [t \in Turns |-> 0] /\ audit_log = conversation_turns
    /\ crashes = 0 /\ failovers = 0
    /\ logged = {} /\ forgotten = {}
    /\ doubt = [t \in Turns |-> 0]

-----------------------------------------------------------------------------
(* The request *)

Push(t) == redis' = [redis EXCEPT !.queue = Append(@, t)]

\* enqueue_history_write: any exception is logged and swallowed.  It is raised before
\* the job is pushed, or when Redis has pushed it and the reply is lost.
Enqueue(t) ==
    /\ asked[t] = "new"
    /\ asked' = [asked EXCEPT ![t] = "served"]
    /\ \/ Push(t) /\ logged' = logged
       \/ Push(t) /\ logged' = logged \cup {t}
       \/ UNCHANGED redis /\ logged' = logged \cup {t}
    /\ UNCHANGED <<faults, worker, rows, doubt>>

\* push_recent_turn raises, after the session was saved: 503, and no job.
PushRecentTurnFails(t) ==
    /\ asked[t] = "new"
    /\ asked' = [asked EXCEPT ![t] = "unavailable"]
    /\ UNCHANGED <<redis, faults, worker, rows, logged, doubt>>

-----------------------------------------------------------------------------
(* The worker *)

\* RQ pops the job and enters it in the registry of started jobs in several commands;
\* what RQ does about a worker that dies between them is left to RQ: one step here.
Dequeue(w) ==
    /\ worker[w] = Idle /\ redis.queue # <<>>
    /\ worker' = [worker EXCEPT ![w] = [pc |-> "writing", turn |-> {Head(redis.queue)}]]
    /\ redis' = [redis EXCEPT !.queue = Tail(@), !.started = @ \cup {Head(redis.queue)}]
    /\ UNCHANGED <<asked, faults, rows, logged, doubt>>

\* Mutant: a transaction for each table; the second fails.
Write_TwoTransactions(w) ==
    /\ worker[w].pc = "writing"
    /\ worker' = [worker EXCEPT ![w].pc = "written"]
    /\ \E t \in worker[w].turn :
           /\ conversation_turns' = [conversation_turns EXCEPT ![t] = @ + 1]
           /\ \/ audit_log' = [audit_log EXCEPT ![t] = @ + 1]
              \/ UNCHANGED audit_log
    /\ UNCHANGED <<asked, redis, faults, logged, doubt>>

\* Mutant: the INSERTs are committed one by one, and the job can still fail as if nothing was.
Write_Autocommit(w) ==
    /\ worker[w].pc = "writing"
    /\ \E pc \in {"writing", "written"} : worker' = [worker EXCEPT ![w].pc = pc]
    /\ \E t \in worker[w].turn :
           /\ conversation_turns' = [conversation_turns EXCEPT ![t] = @ + 1]
           /\ audit_log' = [audit_log EXCEPT ![t] = @ + 1]
    /\ UNCHANGED <<asked, redis, faults, logged, doubt>>

\* write_history_and_audit: both INSERTs, committed when _cursor is left.
Write(w) ==
    /\ worker[w].pc = "writing"
    /\ worker' = [worker EXCEPT ![w].pc = "written"]
    /\ \E t \in worker[w].turn :
           /\ conversation_turns' = [conversation_turns EXCEPT ![t] = @ + 1]
           /\ audit_log' = [audit_log EXCEPT ![t] = @ + 1]
    /\ UNCHANGED <<asked, redis, faults, logged, doubt>>

JobDone(w) ==
    /\ worker[w].pc = "written"
    /\ worker' = [worker EXCEPT ![w] = Idle]
    /\ redis' = [redis EXCEPT !.started = @ \ worker[w].turn, !.finished = @ \cup worker[w].turn]
    /\ UNCHANGED <<asked, faults, rows, logged, doubt>>

\* Mutant: one retry too many.
Retried_OneMore(t) ==
    IF redis.left[t] >= 0
    THEN [redis EXCEPT !.started = @ \ {t}, !.scheduled = @ \cup {t}, !.left[t] = @ - 1]
    ELSE [redis EXCEPT !.started = @ \ {t}, !.failed = @ \cup {t}]

\* Mutant: the job is queued again at once, whenever it fails.
Retried_Forever(t) == [redis EXCEPT !.started = @ \ {t}, !.queue = Append(@, t)]

\* A failed job of t, with HISTORY_JOB_RETRY: put off, or in the registry of failed jobs.
Retried(t) ==
    IF redis.left[t] > 0
    THEN [redis EXCEPT !.started = @ \ {t}, !.scheduled = @ \cup {t}, !.left[t] = @ - 1]
    ELSE [redis EXCEPT !.started = @ \ {t}, !.failed = @ \cup {t}]

Doubted(t, written) == IF written THEN [doubt EXCEPT ![t] = @ + 1] ELSE doubt

\* Mutant: the job swallows its exceptions.
JobFails_Swallowed(w) ==
    /\ worker[w].pc \in {"writing", "written"}
    /\ worker' = [worker EXCEPT ![w] = Idle]
    /\ redis' = [redis EXCEPT !.started = @ \ worker[w].turn, !.finished = @ \cup worker[w].turn]
    /\ UNCHANGED <<asked, faults, rows, logged, doubt>>

\* The job raises or runs into RQ's time limit: nothing is committed, or the commit
\* is done and its answer lost.
JobFails(w) ==
    /\ worker[w].pc \in {"writing", "written"}
    /\ worker' = [worker EXCEPT ![w] = Idle]
    /\ \E t \in worker[w].turn :
           redis' = Retried(t) /\ doubt' = Doubted(t, worker[w].pc = "written")
    /\ UNCHANGED <<asked, faults, rows, logged>>

\* The whole worker is killed, and nobody starts it again; Postgres rolls back what was
\* not committed.
Crash(w) ==
    /\ crashes < MaxCrashes /\ crashes' = crashes + 1
    /\ worker[w].pc \in {"writing", "written"}
    /\ worker' = [worker EXCEPT ![w] = Off]
    /\ \E t \in worker[w].turn : doubt' = Doubted(t, worker[w].pc = "written")
    /\ UNCHANGED <<asked, redis, replica, rows, failovers, logged, forgotten>>

\* RQ's maintenance, by another worker: a started job that nobody runs has failed.
Abandoned(t) ==
    /\ t \in redis.started
    /\ \A w \in Workers : t \notin worker[w].turn
    /\ \E w \in Workers : worker[w] # Off
    /\ redis' = Retried(t)
    /\ UNCHANGED <<asked, faults, worker, rows, logged, doubt>>

\* RQ's scheduler.  worker.work() does not run it: somebody else may.
Reschedule(t) ==
    /\ t \in redis.scheduled
    /\ redis' = [redis EXCEPT !.scheduled = @ \ {t}, !.queue = Append(@, t)]
    /\ UNCHANGED <<asked, faults, worker, rows, logged, doubt>>

-----------------------------------------------------------------------------
(* Redis *)

Replicate ==
    /\ failovers < MaxFailovers
    /\ replica' = redis
    /\ UNCHANGED <<asked, redis, worker, rows, crashes, failovers, logged, forgotten, doubt>>

\* How often a job of t waits in r to be run: in the queue, put off, or left by a dead
\* worker.
Waiting(r, t) ==
    Cardinality({i \in DOMAIN r.queue : r.queue[i] = t})
      + Cardinality({t} \cap r.scheduled)
      + Cardinality({s \in {t} \cap r.started : \A w \in Workers : s \notin worker[w].turn})

BroughtBack(t) ==
    IF Waiting(replica, t) > Waiting(redis, t)
    THEN Waiting(replica, t) - Waiting(redis, t) ELSE 0

Failover ==
    /\ failovers < MaxFailovers /\ failovers' = failovers + 1
    /\ redis' = replica
    /\ replica' = IF failovers' < MaxFailovers THEN replica ELSE NoJobs
    /\ forgotten' = {t \in Turns : t \in forgotten \cup Kept(redis) /\ t \notin Kept(replica)}
    /\ doubt' = [t \in Turns |-> doubt[t] + BroughtBack(t)]
    /\ UNCHANGED <<asked, worker, rows, crashes, logged>>

-----------------------------------------------------------------------------

Work(w) == Dequeue(w) \/ Write(w) \/ JobDone(w) \/ JobFails(w)

Next ==
    \/ \E t \in Turns : Enqueue(t) \/ PushRecentTurnFails(t) \/ Abandoned(t) \/ Reschedule(t)
    \/ \E w \in Workers : Work(w) \/ Crash(w)
    \/ Replicate \/ Failover

Fairness ==
    /\ \A w \in Workers : WF_vars(Work(w))
    /\ WF_vars(\E t \in Turns : Abandoned(t))

Spec == Init /\ [][Next]_vars /\ Fairness

-----------------------------------------------------------------------------

TypeOK ==
    /\ asked \in [Turns -> {"new", "served", "unavailable"}]
    /\ \A r \in {redis, replica} :
           /\ r.queue \in Seq(Turns)
           /\ \A set \in {r.started, r.scheduled, r.finished, r.failed} : set \subseteq Turns
           /\ r.left \in [Turns -> 0..MaxRetries]
    /\ \A w \in Workers : worker[w] \in {Idle, Off} \cup
           [pc : {"writing", "written"}, turn : {{t} : t \in Turns}]
    /\ {conversation_turns, audit_log, doubt} \subseteq [Turns -> Nat]
    /\ crashes \in 0..MaxCrashes /\ failovers \in 0..MaxFailovers
    /\ logged \subseteq Turns /\ forgotten \subseteq Turns

\* A turn that got its answer has its rows, or a job that is still to be done or in the
\* registry of failed jobs, or an error in the log, or a failover lost its job: no
\* crash, retry or race of two workers loses it in silence, nor calls it finished.
NothingIsLostSilently ==
    \A t \in Turns :
        asked[t] = "served" /\ conversation_turns[t] = 0 =>
            t \in ToSet(redis.queue) \cup redis.started \cup redis.scheduled \cup redis.failed
                      \cup logged \cup forgotten

\* A turn has more than one row only when that many executions ended in doubt, the
\* commit being done and not known to be, or when a failover brought the job back as
\* often, after it had been taken or done.
DuplicatesNeedDoubt == \A t \in Turns : conversation_turns[t] <= 1 + doubt[t]

Pending == ToSet(redis.queue) \cup redis.started

\* While a worker lives, a job does not stay in the queue or in a dead worker's hands.
PendingEnds == \A t \in Turns : t \in Pending ~> t \notin Pending

\* Both tables grow together and only by turns that were served.
Abstract == INSTANCE TurnLog WITH
    served <- {t \in Turns : asked[t] = "served"},
    history <- conversation_turns,
    audit <- audit_log

ImplementsTurnLog == Abstract!Spec

\* What the documentation says of the retries: a write lands or dead-letters.
LandsOrDeadLetters ==
    \A t \in Turns : t \in Pending ~> conversation_turns[t] > 0 \/ t \in redis.failed
=============================================================================
