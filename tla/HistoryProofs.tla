--------------------------- MODULE HistoryProofs ---------------------------
(***************************************************************************)
(* What History promises for every number of turns, workers, retries,      *)
(* crashes and failovers.                                                  *)
(***************************************************************************)
EXTENDS History, FunctionTheorems, SequenceTheorems, FiniteSetTheorems, TLAPS

-----------------------------------------------------------------------------
(* The queue: what Append and Tail do to its elements and their positions.   *)

At(q, t) == {i \in DOMAIN q : q[i] = t}

LEMMA AppendElements ==
  ASSUME NEW q \in Seq(Turns), NEW t \in Turns
  PROVE  ToSet(Append(q, t)) = ToSet(q) \cup {t}
  <1>1. DOMAIN Append(q, t) = DOMAIN q \cup {Len(q) + 1}
    BY AppendProperties, LenProperties
  <1>2. \A i \in DOMAIN q : Append(q, t)[i] = q[i]
    BY AppendProperties, LenProperties
  <1>3. Append(q, t)[Len(q) + 1] = t
    BY AppendProperties
  <1> QED
    BY <1>1, <1>2, <1>3 DEF ToSet

LEMMA HeadAndTail ==
  ASSUME NEW q \in Seq(Turns), q # <<>>
  PROVE  /\ Head(q) \in Turns /\ Tail(q) \in Seq(Turns)
         /\ 1 \in DOMAIN q /\ q[1] = Head(q)
         /\ \A i \in DOMAIN q : i = 1 \/ \E j \in DOMAIN Tail(q) : i = j + 1
         /\ \A j \in DOMAIN Tail(q) :
               j \in Nat \ {0} /\ j + 1 \in DOMAIN q /\ q[j + 1] = Tail(q)[j]
  <1>1. Len(q) \in Nat \ {0} /\ DOMAIN q = 1..Len(q) /\ q[1] = Head(q) /\ Head(q) \in Turns
    BY HeadTailProperties, EmptySeq, LenProperties
  <1>2. Tail(q) \in Seq(Turns) /\ DOMAIN Tail(q) = 1..(Len(q) - 1)
    BY HeadTailProperties, LenProperties
  <1>3. \A i \in DOMAIN Tail(q) : i \in Nat \ {0} /\ q[i + 1] = Tail(q)[i]
    BY <1>1, <1>2, HeadTailProperties
  <1>4. ASSUME NEW i \in 1..Len(q), i # 1
        PROVE  \E j \in DOMAIN Tail(q) : i = j + 1
    <2>1. i - 1 \in DOMAIN Tail(q) /\ i = (i - 1) + 1
      BY <1>1, <1>2, <1>4
    <2> QED
      BY <2>1
  <1>5. \A j \in DOMAIN Tail(q) : j + 1 \in 1..Len(q)
    BY <1>1, <1>2
  <1> QED
    BY <1>1, <1>2, <1>3, <1>4, <1>5

LEMMA TailElements ==
  ASSUME NEW q \in Seq(Turns), q # <<>>
  PROVE  ToSet(q) = ToSet(Tail(q)) \cup {Head(q)}
  <1>1. ASSUME NEW i \in DOMAIN q
        PROVE  q[i] \in ToSet(Tail(q)) \cup {Head(q)}
    <2>1. i = 1 \/ \E j \in DOMAIN Tail(q) : i = j + 1
      BY HeadAndTail
    <2> QED
      BY <2>1, HeadAndTail DEF ToSet
  <1>2. \A i \in DOMAIN Tail(q) : i + 1 \in DOMAIN q /\ q[i + 1] = Tail(q)[i]
    BY HeadAndTail
  <1>3. 1 \in DOMAIN q /\ q[1] = Head(q)
    BY HeadAndTail
  <1>4. \A x \in ToSet(Tail(q)) \cup {Head(q)} : x \in ToSet(q)
    BY <1>2, <1>3 DEF ToSet
  <1> QED
    BY <1>1, <1>4 DEF ToSet

LEMMA PositionsAreFinite ==
  ASSUME NEW q \in Seq(Turns), NEW t
  PROVE  IsFiniteSet(At(q, t)) /\ Cardinality(At(q, t)) \in Nat
  <1>1. IsFiniteSet(DOMAIN q)
    BY LenProperties, FS_Interval
  <1> QED
    BY <1>1, FS_Subset, FS_CardinalityType DEF At

LEMMA AppendPositions ==
  ASSUME NEW q \in Seq(Turns), NEW t \in Turns, NEW u
  PROVE  Cardinality(At(Append(q, t), u)) =
           Cardinality(At(q, u)) + (IF u = t THEN 1 ELSE 0)
  <1>1. DOMAIN Append(q, t) = DOMAIN q \cup {Len(q) + 1} /\ Len(q) + 1 \notin DOMAIN q
    BY AppendProperties, LenProperties
  <1>2. \A i \in DOMAIN q : Append(q, t)[i] = q[i]
    BY AppendProperties, LenProperties
  <1>3. Append(q, t)[Len(q) + 1] = t
    BY AppendProperties
  <1>4. At(Append(q, t), u) = IF u = t THEN At(q, u) \cup {Len(q) + 1} ELSE At(q, u)
    BY <1>1, <1>2, <1>3 DEF At
  <1>5. Len(q) + 1 \notin At(q, u)
    BY <1>1 DEF At
  <1>6. IsFiniteSet(At(q, u)) /\ Cardinality(At(q, u)) \in Nat
    BY PositionsAreFinite
  <1>7. CASE u = t
    <2>1. Cardinality(At(q, u) \cup {Len(q) + 1}) = Cardinality(At(q, u)) + 1
      BY <1>5, <1>6, FS_AddElement
    <2> QED
      BY <1>4, <1>7, <2>1
  <1>8. CASE u # t
    BY <1>4, <1>6, <1>8
  <1> QED
    BY <1>7, <1>8

LEMMA TailPositions ==
  ASSUME NEW q \in Seq(Turns), q # <<>>, NEW u
  PROVE  Cardinality(At(q, u)) =
           Cardinality(At(Tail(q), u)) + (IF u = Head(q) THEN 1 ELSE 0)
  <1> DEFINE shifted == {i + 1 : i \in At(Tail(q), u)}
             f == [i \in At(Tail(q), u) |-> i + 1]
  <1>1. At(q, u) = IF u = Head(q) THEN shifted \cup {1} ELSE shifted
    <2>1. ASSUME NEW i \in At(q, u), i # 1
          PROVE  i \in shifted
      <3>1. PICK j \in DOMAIN Tail(q) : i = j + 1
        BY <2>1, HeadAndTail DEF At
      <3> QED
        BY <3>1, HeadAndTail DEF At
    <2>2. shifted \subseteq At(q, u)
      BY HeadAndTail DEF At
    <2>3. 1 \in At(q, u) <=> u = Head(q)
      BY HeadAndTail DEF At
    <2> QED
      <3> HIDE DEF shifted
      <3>1. CASE u = Head(q)
        <4>1. \A i : i \in At(q, u) <=> i \in shifted \cup {1}
          BY <2>1, <2>2, <2>3, <3>1
        <4> QED
          BY <3>1, <4>1
      <3>2. CASE u # Head(q)
        <4>1. \A i : i \in At(q, u) <=> i \in shifted
          BY <2>1, <2>2, <2>3, <3>2
        <4> QED
          BY <3>2, <4>1
      <3> QED
        BY <3>1, <3>2
  <1>2. 1 \notin shifted
    BY HeadAndTail DEF At
  <1>3. f \in Bijection(At(Tail(q), u), shifted)
    <2>1. \A i \in At(Tail(q), u) : i \in Nat
      BY HeadAndTail DEF At
    <2>2. f \in [At(Tail(q), u) -> shifted]
      OBVIOUS
    <2>3. \A i, j \in At(Tail(q), u) : f[i] = f[j] => i = j
      BY <2>1
    <2>4. \A j \in shifted : \E i \in At(Tail(q), u) : f[i] = j
      OBVIOUS
    <2> HIDE DEF f, shifted
    <2> QED
      BY <2>2, <2>3, <2>4, Fun_IsBij
  <1>4. IsFiniteSet(shifted) /\ Cardinality(shifted) = Cardinality(At(Tail(q), u))
    <2> HIDE DEF f, shifted
    <2>1. IsFiniteSet(At(Tail(q), u))
      BY HeadAndTail, PositionsAreFinite
    <2>2. ExistsBijection(At(Tail(q), u), shifted)
      BY <1>3 DEF ExistsBijection
    <2> QED
      BY <2>1, <2>2, <1>3, FS_Bijection
  <1> QED
    <2> HIDE DEF f, shifted
    <2>1. Cardinality(At(Tail(q), u)) \in Nat
      BY HeadAndTail, PositionsAreFinite
    <2>2. CASE u = Head(q)
      <3>1. Cardinality(shifted \cup {1}) = Cardinality(shifted) + 1
        BY <1>2, <1>4, FS_AddElement
      <3> QED
        BY <1>1, <1>4, <2>2, <3>1
    <2>3. CASE u # Head(q)
      BY <1>1, <1>4, <2>1, <2>3
    <2> QED
      BY <2>2, <2>3

-----------------------------------------------------------------------------
(* Types.                                                                    *)

JobsOK(r) ==
    r \in [queue : Seq(Turns), started : SUBSET Turns, scheduled : SUBSET Turns,
           finished : SUBSET Turns, failed : SUBSET Turns, left : [Turns -> 0..MaxRetries]]

Busy == [pc : {"writing", "written"}, turn : {{t} : t \in Turns}]

Rows ==
    /\ conversation_turns \in [Turns -> Nat] /\ audit_log \in [Turns -> Nat]
    /\ doubt \in [Turns -> Nat]

WellFormed ==
    /\ asked \in [Turns -> {"new", "served", "unavailable"}]
    /\ JobsOK(redis) /\ JobsOK(replica)
    /\ worker \in [Workers -> {Idle, Off} \cup Busy]
    /\ Rows
    /\ crashes \in 0..MaxCrashes /\ failovers \in 0..MaxFailovers
    /\ logged \subseteq Turns /\ forgotten \subseteq Turns

LEMMA NoJobsOK == JobsOK(NoJobs)
  <1>1. <<>> \in Seq(Turns)
    BY EmptySeq
  <1>2. MaxRetries \in 0..MaxRetries
    BY BoundsAssumption
  <1> QED
    BY <1>1, <1>2 DEF NoJobs, JobsOK

LEMMA InitWellFormed == Init => WellFormed
  BY NoJobsOK, BoundsAssumption DEF Init, WellFormed, Rows

LEMMA RetriedOK ==
  ASSUME JobsOK(redis), NEW t \in Turns
  PROVE  JobsOK(Retried(t))
  <1>1. redis.left[t] > 0 => redis.left[t] - 1 \in 0..MaxRetries
    BY BoundsAssumption DEF JobsOK
  <1> QED
    BY <1>1 DEF Retried, JobsOK

LEMMA PushOK ==
  ASSUME JobsOK(redis), NEW t \in Turns
  PROVE  Append(redis.queue, t) \in Seq(Turns)
  BY AppendProperties DEF JobsOK

LEMMA DoubtedOK ==
  ASSUME doubt \in [Turns -> Nat], NEW t \in Turns, NEW written
  PROVE  Doubted(t, written) \in [Turns -> Nat]
  BY DEF Doubted

LEMMA BusyWorker ==
  ASSUME WellFormed, NEW w \in Workers, worker[w].pc \in {"writing", "written"}
  PROVE  worker[w] \in Busy /\ \E t \in Turns : worker[w].turn = {t}
  BY DEF WellFormed, Idle, Off, Busy

\* A job is at most once put off and at most once left by a dead worker.
LEMMA WaitingType ==
  ASSUME NEW r, JobsOK(r), NEW t \in Turns
  PROVE  /\ Waiting(r, t) \in Nat
         /\ Waiting(r, t) = Cardinality(At(r.queue, t))
               + (IF t \in r.scheduled THEN 1 ELSE 0)
               + (IF t \in r.started /\ \A w \in Workers : t \notin worker[w].turn
                  THEN 1 ELSE 0)
  <1>1. Cardinality(At(r.queue, t)) \in Nat
    BY PositionsAreFinite DEF JobsOK
  <1>2. Cardinality({t} \cap r.scheduled) = IF t \in r.scheduled THEN 1 ELSE 0
    <2>1. {t} \cap r.scheduled = IF t \in r.scheduled THEN {t} ELSE {}
      OBVIOUS
    <2> QED
      BY <2>1, FS_Singleton, FS_EmptySet
  <1> DEFINE abandoned == {s \in {t} \cap r.started : \A w \in Workers : s \notin worker[w].turn}
             left == t \in r.started /\ \A w \in Workers : t \notin worker[w].turn
  <1>3. Cardinality(abandoned) = IF left THEN 1 ELSE 0
    <2>1. CASE left
      <3>1. abandoned = {t}
        BY <2>1
      <3> QED
        BY <2>1, <3>1, FS_Singleton
    <2>2. CASE ~left
      <3>1. abandoned = {}
        BY <2>2
      <3> QED
        BY <2>2, <3>1, FS_EmptySet
    <2> QED
      BY <2>1, <2>2
  <1>4. Waiting(r, t) =
          Cardinality(At(r.queue, t)) + Cardinality({t} \cap r.scheduled) + Cardinality(abandoned)
    BY DEF Waiting, At
  <1> QED
    <2> HIDE DEF abandoned, left
    <2>1. Waiting(r, t) = Cardinality(At(r.queue, t))
               + (IF t \in r.scheduled THEN 1 ELSE 0) + (IF left THEN 1 ELSE 0)
      BY <1>2, <1>3, <1>4
    <2>2. Waiting(r, t) \in Nat
      BY <1>1, <2>1
    <2> QED
      BY <2>1, <2>2 DEF left

LEMMA BroughtBackType ==
  ASSUME WellFormed, NEW t \in Turns
  PROVE  BroughtBack(t) \in Nat /\ Waiting(replica, t) <= Waiting(redis, t) + BroughtBack(t)
  <1>1. Waiting(redis, t) \in Nat /\ Waiting(replica, t) \in Nat
    BY WaitingType DEF WellFormed
  <1> QED
    BY <1>1 DEF BroughtBack

LEMMA NextWellFormed == WellFormed /\ [Next]_vars => WellFormed'
  <1> SUFFICES ASSUME WellFormed, [Next]_vars
               PROVE  WellFormed'
    OBVIOUS
  <1> USE DEF WellFormed, Rows, faults, rows
  <1>1. ASSUME NEW t \in Turns, Enqueue(t)
        PROVE  WellFormed'
    <2>1. JobsOK(redis')
      <3>1. JobsOK(redis) /\ Append(redis.queue, t) \in Seq(Turns)
        BY PushOK
      <3>2. redis' = redis \/ redis' = [redis EXCEPT !.queue = Append(redis.queue, t)]
        BY <1>1 DEF Enqueue, Push
      <3>3. [redis EXCEPT !.queue = Append(redis.queue, t)] \in
               [queue : Seq(Turns), started : SUBSET Turns, scheduled : SUBSET Turns,
                finished : SUBSET Turns, failed : SUBSET Turns, left : [Turns -> 0..MaxRetries]]
        BY <3>1 DEF JobsOK
      <3> QED
        BY <3>1, <3>2, <3>3 DEF JobsOK
    <2> QED
      BY <1>1, <2>1 DEF Enqueue
  <1>2. ASSUME NEW t \in Turns, PushRecentTurnFails(t)
        PROVE  WellFormed'
    BY <1>2 DEF PushRecentTurnFails
  <1>3. ASSUME NEW t \in Turns, Abandoned(t)
        PROVE  WellFormed'
    BY <1>3, RetriedOK DEF Abandoned
  <1>4. ASSUME NEW t \in Turns, Reschedule(t)
        PROVE  WellFormed'
    BY <1>4, PushOK DEF Reschedule, JobsOK
  <1>5. ASSUME NEW w \in Workers, Dequeue(w)
        PROVE  WellFormed'
    <2>1. Head(redis.queue) \in Turns /\ Tail(redis.queue) \in Seq(Turns)
      BY <1>5, HeadAndTail DEF Dequeue, JobsOK
    <2>2. JobsOK(redis')
      BY <1>5, <2>1 DEF Dequeue, JobsOK
    <2>3. worker' \in [Workers -> {Idle, Off} \cup Busy]
      BY <1>5, <2>1 DEF Dequeue, Busy
    <2> QED
      BY <1>5, <2>2, <2>3 DEF Dequeue
  <1>6. ASSUME NEW w \in Workers, Write(w)
        PROVE  WellFormed'
    <2>1. PICK t \in Turns : worker[w].turn = {t}
      BY <1>6, BusyWorker DEF Write
    <2>2. worker'[w] \in Busy
      BY <1>6, BusyWorker DEF Write, Busy
    <2> QED
      BY <1>6, <2>1, <2>2 DEF Write
  <1>7. ASSUME NEW w \in Workers, JobDone(w)
        PROVE  WellFormed'
    <2>1. PICK t \in Turns : worker[w].turn = {t}
      BY <1>7, BusyWorker DEF JobDone
    <2>2. JobsOK(redis')
      BY <1>7, <2>1 DEF JobDone, JobsOK
    <2> QED
      BY <1>7, <2>2 DEF JobDone
  <1>8. ASSUME NEW w \in Workers, JobFails(w)
        PROVE  WellFormed'
    <2>1. PICK t \in Turns : worker[w].turn = {t}
      BY <1>8, BusyWorker DEF JobFails
    <2>2. redis' = Retried(t) /\ doubt' = Doubted(t, worker[w].pc = "written")
      BY <1>8, <2>1 DEF JobFails
    <2> QED
      BY <1>8, <2>2, RetriedOK, DoubtedOK DEF JobFails
  <1>9. ASSUME NEW w \in Workers, Crash(w)
        PROVE  WellFormed'
    <2>1. PICK t \in Turns : worker[w].turn = {t}
      BY <1>9, BusyWorker DEF Crash
    <2>2. doubt' = Doubted(t, worker[w].pc = "written")
      BY <1>9, <2>1 DEF Crash
    <2> QED
      BY <1>9, <2>2, DoubtedOK, BoundsAssumption DEF Crash
  <1>10. CASE Replicate
    BY <1>10 DEF Replicate
  <1>11. CASE Failover
    BY <1>11, BroughtBackType, NoJobsOK, BoundsAssumption DEF Failover
  <1>12. CASE UNCHANGED vars
    BY <1>12 DEF vars
  <1> QED
    BY <1>1, <1>2, <1>3, <1>4, <1>5, <1>6, <1>7, <1>8, <1>9, <1>10, <1>11, <1>12
       DEF Next, Work

\* RQ's record, its replica, the workers and the two tables are of their kinds.
THEOREM WellFormedInvariant == Spec => []WellFormed
  BY InitWellFormed, NextWellFormed, PTL DEF Spec

\* TypeOK: the type invariant.
THEOREM TypeCorrect == Spec => []TypeOK
  <1>1. WellFormed => TypeOK
    BY DEF WellFormed, TypeOK, JobsOK, Busy, Rows
  <1> QED
    BY <1>1, WellFormedInvariant, PTL

-----------------------------------------------------------------------------
(* Where a turn is.  NothingIsLostSilently is not inductive by itself: it    *)
(* takes that the jobs RQ calls finished have their rows, in what a failover *)
(* brings back too, and that RQ knows every turn that was served and is      *)
(* neither in the log nor lost by a failover.                                *)

Held(t) == \E w \in Workers : t \in worker[w].turn

\* Only turns that were served get to RQ, to a worker and to the tables.
ServedOnly ==
    \A t \in Turns :
        t \in Kept(redis) \cup Kept(replica) \/ Held(t) \/ conversation_turns[t] > 0 =>
            asked[t] = "served"

FinishedIsWritten ==
    \A t \in Turns :
        \/ t \in redis.finished \cup replica.finished
        \/ \E w \in Workers : worker[w].pc = "written" /\ t \in worker[w].turn
        => conversation_turns[t] > 0

Accounted ==
    \A t \in Turns : asked[t] = "served" => t \in Kept(redis) \cup logged \cup forgotten

Whereabouts == ServedOnly /\ FinishedIsWritten /\ Accounted

LEMMA PushKeeps ==
  ASSUME NEW r, JobsOK(r), NEW t \in Turns, NEW n,
         n.queue = Append(r.queue, t), n.started = r.started, n.finished = r.finished,
         n.failed = r.failed, n.scheduled \cup {t} = r.scheduled \cup {t}
  PROVE  Kept(n) = Kept(r) \cup {t}
  <1>1. ToSet(n.queue) = ToSet(r.queue) \cup {t}
    BY AppendElements DEF JobsOK
  <1> QED
    BY <1>1 DEF Kept

LEMMA RetriedKeeps ==
  ASSUME JobsOK(redis), NEW t \in Turns
  PROVE  Kept(Retried(t)) = Kept(redis) \cup {t} /\ Retried(t).finished = redis.finished
  BY DEF Retried, Kept, JobsOK

LEMMA NextWhereabouts == WellFormed /\ Whereabouts /\ [Next]_vars => Whereabouts'
  <1> SUFFICES ASSUME WellFormed, Whereabouts, [Next]_vars
               PROVE  Whereabouts'
    OBVIOUS
  <1> USE DEF Whereabouts, ServedOnly, FinishedIsWritten, Accounted, Held, faults, rows
  <1>0. JobsOK(redis) /\ Rows /\ asked \in [Turns -> {"new", "served", "unavailable"}]
    BY DEF WellFormed
  <1>1. ASSUME NEW t \in Turns, Enqueue(t)
        PROVE  Whereabouts'
    <2>1. CASE Push(t)
      <3>1. Kept(redis') = Kept(redis) \cup {t} /\ redis'.finished = redis.finished
        BY <1>0, <2>1, PushKeeps DEF Push, JobsOK
      <3> QED
        BY <1>0, <1>1, <3>1 DEF Enqueue
    <2>2. CASE UNCHANGED redis
      BY <1>0, <1>1, <2>2 DEF Enqueue, Push, Kept, JobsOK
    <2> QED
      BY <1>1, <2>1, <2>2 DEF Enqueue
  <1>2. ASSUME NEW t \in Turns, PushRecentTurnFails(t)
        PROVE  Whereabouts'
    BY <1>0, <1>2 DEF PushRecentTurnFails
  <1>3. ASSUME NEW t \in Turns, Abandoned(t)
        PROVE  Whereabouts'
    <2>1. t \in Kept(redis)
      BY <1>3 DEF Abandoned, Kept
    <2> QED
      BY <1>0, <1>3, <2>1, RetriedKeeps DEF Abandoned
  <1>4. ASSUME NEW t \in Turns, Reschedule(t)
        PROVE  Whereabouts'
    <2>1. t \in Kept(redis)
      BY <1>4 DEF Reschedule, Kept
    <2>2. Kept(redis') = Kept(redis) \cup {t} /\ redis'.finished = redis.finished
      <3>1. /\ redis'.queue = Append(redis.queue, t) /\ redis'.scheduled = redis.scheduled \ {t}
            /\ redis'.started = redis.started /\ redis'.finished = redis.finished
            /\ redis'.failed = redis.failed
        BY <1>0, <1>4 DEF Reschedule, JobsOK
      <3>2. redis'.scheduled \cup {t} = redis.scheduled \cup {t}
        BY <3>1
      <3> QED
        BY <1>0, <3>1, <3>2, PushKeeps
    <2> QED
      BY <1>4, <2>1, <2>2 DEF Reschedule
  <1>5. ASSUME NEW w \in Workers, Dequeue(w)
        PROVE  Whereabouts'
    <2>1. PICK t \in Turns : t = Head(redis.queue)
      BY <1>0, <1>5, HeadAndTail DEF Dequeue, JobsOK
    <2>2. ToSet(redis.queue) = ToSet(Tail(redis.queue)) \cup {t}
      BY <1>0, <1>5, <2>1, TailElements DEF Dequeue, JobsOK
    <2>3. Kept(redis') = Kept(redis) /\ redis'.finished = redis.finished /\ t \in Kept(redis)
      BY <1>0, <1>5, <2>1, <2>2 DEF Dequeue, JobsOK, Kept
    <2>4. worker' = [worker EXCEPT ![w] = [pc |-> "writing", turn |-> {t}]]
      BY <1>5, <2>1 DEF Dequeue
    <2> QED
      BY <1>5, <2>3, <2>4 DEF Dequeue, WellFormed
  <1>6. ASSUME NEW w \in Workers, Write(w)
        PROVE  Whereabouts'
    <2>1. PICK t \in Turns : worker[w].turn = {t}
      BY <1>6, BusyWorker DEF Write
    <2>2. conversation_turns' = [conversation_turns EXCEPT ![t] = @ + 1]
      BY <1>6, <2>1 DEF Write
    <2>3. \A v \in Workers : worker'[v].turn = worker[v].turn
      BY <1>6 DEF Write, WellFormed
    <2>4. \A v \in Workers \ {w} : worker'[v] = worker[v]
      BY <1>6 DEF Write, WellFormed
    <2>5. ServedOnly' /\ Accounted'
      BY <1>0, <1>6, <2>1, <2>2, <2>3 DEF Write, Rows
    <2>6. \A u \in Turns : conversation_turns'[u] > 0 <=> (u = t \/ conversation_turns[u] > 0)
      BY <1>0, <2>2 DEF Rows
    <2> QED
      BY <1>6, <2>1, <2>3, <2>4, <2>5, <2>6 DEF Write
  <1>7. ASSUME NEW w \in Workers, JobDone(w)
        PROVE  Whereabouts'
    <2>1. PICK t \in Turns : worker[w].turn = {t}
      BY <1>7, BusyWorker DEF JobDone
    <2>2. Kept(redis') = Kept(redis) \cup {t} /\ redis'.finished = redis.finished \cup {t}
      BY <1>0, <1>7, <2>1 DEF JobDone, Kept, JobsOK
    <2>3. worker' = [worker EXCEPT ![w] = Idle]
      BY <1>7 DEF JobDone
    <2> QED
      BY <1>7, <2>1, <2>2, <2>3 DEF JobDone, WellFormed, Idle
  <1>8. ASSUME NEW w \in Workers, JobFails(w)
        PROVE  Whereabouts'
    <2>1. PICK t \in Turns : worker[w].turn = {t}
      BY <1>8, BusyWorker DEF JobFails
    <2>2. redis' = Retried(t)
      BY <1>8, <2>1 DEF JobFails
    <2> QED
      BY <1>0, <1>8, <2>1, <2>2, RetriedKeeps DEF JobFails, WellFormed, Idle
  <1>9. ASSUME NEW w \in Workers, Crash(w)
        PROVE  Whereabouts'
    BY <1>9 DEF Crash, WellFormed, Off
  <1>10. CASE Replicate
    BY <1>10 DEF Replicate
  <1>11. CASE Failover
    <2>1. replica'.finished \subseteq replica.finished /\ Kept(replica') \subseteq Kept(replica)
      BY <1>11 DEF Failover, NoJobs, Kept, ToSet
    <2> QED
      BY <1>11, <2>1 DEF Failover
  <1>12. CASE UNCHANGED vars
    BY <1>12 DEF vars
  <1> QED
    BY <1>1, <1>2, <1>3, <1>4, <1>5, <1>6, <1>7, <1>8, <1>9, <1>10, <1>11, <1>12
       DEF Next, Work

\* Where the job of every served turn is, through enqueueing, execution, crashes and
\* failovers.
THEOREM WhereaboutsInvariant == Spec => []Whereabouts
  <1>1. Init => Whereabouts
    BY DEF Init, Whereabouts, ServedOnly, FinishedIsWritten, Accounted, Held, Kept, NoJobs,
           ToSet, Idle
  <1> QED
    BY <1>1, WellFormedInvariant, NextWhereabouts, PTL DEF Spec

\* NothingIsLostSilently: a served turn has its rows, a job that is still to be done or
\* failed, an error in the log, or was lost by a failover.
THEOREM NothingIsLost == Spec => []NothingIsLostSilently
  <1>1. WellFormed /\ Whereabouts => NothingIsLostSilently
    BY DEF WellFormed, Whereabouts, FinishedIsWritten, Accounted, NothingIsLostSilently, Kept
  <1> QED
    BY <1>1, WellFormedInvariant, WhereaboutsInvariant, PTL

-----------------------------------------------------------------------------
(* How often a turn can still be written: a row for each time it is waiting  *)
(* in RQ or running, so DuplicatesNeedDoubt becomes a sum that no step       *)
(* raises without raising doubt.                                             *)

Running(t) == {w \in Workers : worker[w].pc = "writing" /\ t \in worker[w].turn}

Counted ==
    \A t \in Turns :
        conversation_turns[t] + Waiting(redis, t) + Cardinality(Running(t)) <= 1 + doubt[t]

Queued(t) == Cardinality(At(redis.queue, t))
PutOff(t) == IF t \in redis.scheduled THEN 1 ELSE 0
Orphaned(t) == IF t \in redis.started /\ ~Held(t) THEN 1 ELSE 0
Executed(t) == Cardinality(Running(t))

LEMMA WaitingSum ==
    WellFormed => \A t \in Turns :
        /\ Queued(t) \in Nat
        /\ Waiting(redis, t) = Queued(t) + PutOff(t) + Orphaned(t)
  <1> SUFFICES ASSUME WellFormed, NEW t \in Turns
               PROVE  /\ Queued(t) \in Nat
                      /\ Waiting(redis, t) = Queued(t) + PutOff(t) + Orphaned(t)
    OBVIOUS
  <1>1. JobsOK(redis)
    BY DEF WellFormed
  <1>2. Queued(t) \in Nat
    BY <1>1, PositionsAreFinite DEF Queued, JobsOK
  <1> QED
    BY <1>1, <1>2, WaitingType DEF Queued, PutOff, Orphaned, Held

\* One worker more or less executes t.
LEMMA RunningFinite == \A t : IsFiniteSet(Running(t)) /\ Executed(t) \in Nat
  BY WorkersAssumption, FS_Subset, FS_CardinalityType DEF Running, Executed

LEMMA RunningStep ==
  ASSUME NEW w \in Workers, NEW t,
         \A v \in Workers \ {w} : worker'[v] = worker[v]
  PROVE  Executed(t)' = Executed(t)
           + (IF w \in Running(t)' /\ w \notin Running(t) THEN 1 ELSE 0)
           - (IF w \in Running(t) /\ w \notin Running(t)' THEN 1 ELSE 0)
  <1>1. IsFiniteSet(Running(t)) /\ Cardinality(Running(t)) \in Nat
    BY RunningFinite DEF Executed
  <1>2. CASE w \in Running(t)' /\ w \notin Running(t)
    <2>1. Running(t)' = Running(t) \cup {w}
      BY <1>2 DEF Running
    <2>2. Cardinality(Running(t)') = Cardinality(Running(t)) + 1
      BY <1>1, <1>2, <2>1, FS_AddElement
    <2> QED
      BY <1>1, <1>2, <2>2 DEF Executed
  <1>3. CASE w \in Running(t) /\ w \notin Running(t)'
    <2>1. Running(t)' = Running(t) \ {w}
      BY <1>3 DEF Running
    <2>2. Cardinality(Running(t)') = Cardinality(Running(t)) - 1
      BY <1>1, <1>3, <2>1, FS_RemoveElement
    <2> QED
      BY <1>1, <1>3, <2>2 DEF Executed
  <1>4. CASE w \in Running(t) <=> w \in Running(t)'
    <2>1. Running(t)' = Running(t)
      BY <1>4 DEF Running
    <2> QED
      BY <1>1, <1>4, <2>1 DEF Executed
  <1> QED
    BY <1>2, <1>3, <1>4

Total(t) == conversation_turns[t] + Queued(t) + PutOff(t) + Orphaned(t) + Executed(t)

TotalsOK == \A t \in Turns : Total(t) <= 1 + doubt[t]

LEMMA CountedTotal == WellFormed => (Counted <=> TotalsOK)
  BY WaitingSum, RunningFinite
     DEF Counted, TotalsOK, Total, Executed, PutOff, Orphaned, WellFormed, Rows

SumOK(t) ==
    /\ conversation_turns[t] \in Nat /\ doubt[t] \in Nat
    /\ Queued(t) \in Nat /\ PutOff(t) \in 0..1 /\ Orphaned(t) \in 0..1
    /\ Executed(t) \in Nat
    /\ Waiting(redis, t) = Queued(t) + PutOff(t) + Orphaned(t)

SumsOK == \A t \in Turns : SumOK(t)

LEMMA SumTypes == WellFormed => SumsOK
  BY WaitingSum, RunningFinite DEF WellFormed, Rows, PutOff, Orphaned, SumsOK, SumOK

LEMMA RetriedCounts ==
  ASSUME WellFormed, NEW t \in Turns, NEW u \in Turns, redis' = Retried(t)
  PROVE  /\ Queued(u)' = Queued(u)
         /\ u # t => /\ PutOff(u)' = PutOff(u)
                     /\ u \in redis'.started <=> u \in redis.started
         /\ u = t => PutOff(u)' <= PutOff(u) + 1 /\ u \notin redis'.started
  BY DEF Retried, Queued, PutOff, WellFormed, JobsOK

LEMMA NextTotal ==
  ASSUME WellFormed, WellFormed', Whereabouts, Next, NEW u \in Turns,
         Total(u) <= 1 + doubt[u]
  PROVE  Total(u)' <= 1 + doubt'[u]
  <1>0. SumOK(u)
    BY SumTypes DEF SumsOK
  <1>a. WellFormed' => SumsOK'
    BY SumTypes, PTL
  <1>b. SumOK(u)'
    BY <1>a DEF SumsOK
  <1>c. JobsOK(redis) /\ JobsOK(replica) /\ Rows
    BY DEF WellFormed
  <1> USE DEF Total, SumOK, faults, rows
  <1>1. ASSUME NEW t \in Turns, Enqueue(t)
        PROVE  Total(u)' <= 1 + doubt'[u]
    <2>1. /\ conversation_turns' = conversation_turns /\ doubt' = doubt
          /\ Executed(u)' = Executed(u) /\ PutOff(u)' = PutOff(u)
          /\ Orphaned(u)' = Orphaned(u)
      BY <1>1, <1>c DEF Enqueue, Push, JobsOK, Executed, Running, PutOff, Orphaned, Held
    <2>2. CASE Push(t)
      <3>1. Queued(u)' = Queued(u) + (IF u = t THEN 1 ELSE 0)
        BY <1>c, <2>2, AppendPositions DEF Push, Queued, JobsOK
      <3>2. CASE u = t
        <4>1. asked[u] = "new"
          BY <1>1, <3>2 DEF Enqueue
        <4>2. u \notin Kept(redis) /\ ~Held(u) /\ conversation_turns[u] = 0
          BY <1>0, <4>1 DEF Whereabouts, ServedOnly
        <4>3. Queued(u) = 0 /\ PutOff(u) = 0 /\ Orphaned(u) = 0
          <5>1. At(redis.queue, u) = {}
            BY <4>2 DEF Kept, At, ToSet
          <5> QED
            BY <4>2, <5>1, FS_EmptySet DEF Queued, PutOff, Orphaned, Kept
        <4>4. Executed(u) = 0
          <5>1. Running(u) = {}
            BY <4>2 DEF Running, Held
          <5> QED
            BY <5>1, FS_EmptySet DEF Executed
        <4> QED
          BY <1>0, <2>1, <3>1, <3>2, <4>2, <4>3, <4>4
      <3>3. CASE u # t
        BY <1>0, <2>1, <3>1, <3>3
      <3> QED
        BY <3>2, <3>3
    <2>3. CASE UNCHANGED redis
      BY <2>1, <2>3 DEF Queued
    <2> QED
      BY <1>1, <2>2, <2>3 DEF Enqueue
  <1>2. ASSUME NEW t \in Turns, PushRecentTurnFails(t)
        PROVE  Total(u)' <= 1 + doubt'[u]
    BY <1>2 DEF PushRecentTurnFails, Queued, PutOff, Orphaned, Executed, Running, Held
  <1>3. ASSUME NEW t \in Turns, Abandoned(t)
        PROVE  Total(u)' <= 1 + doubt'[u]
    <2>1. /\ conversation_turns' = conversation_turns /\ doubt' = doubt
          /\ Executed(u)' = Executed(u) /\ (Held(u)' <=> Held(u))
      BY <1>3 DEF Abandoned, Executed, Running, Held
    <2>2. CASE u = t
      <3>1. Orphaned(u) = 1
        BY <1>3, <2>2 DEF Abandoned, Orphaned, Held
      <3>2. Queued(u)' = Queued(u) /\ PutOff(u)' <= PutOff(u) + 1 /\ Orphaned(u)' = 0
        BY <1>3, <2>2, RetriedCounts DEF Abandoned, Orphaned
      <3> QED
        BY <1>0, <1>b, <2>1, <3>1, <3>2
    <2>3. CASE u # t
      <3>1. redis' = Retried(t)
        BY <1>3 DEF Abandoned
      <3>2. /\ Queued(u)' = Queued(u) /\ PutOff(u)' = PutOff(u)
            /\ (u \in redis'.started <=> u \in redis.started)
        BY <2>3, <3>1, RetriedCounts
      <3>3. Orphaned(u)' = Orphaned(u)
        BY <2>1, <3>2 DEF Orphaned
      <3> QED
        BY <2>1, <3>2, <3>3
    <2> QED
      BY <2>2, <2>3
  <1>4. ASSUME NEW t \in Turns, Reschedule(t)
        PROVE  Total(u)' <= 1 + doubt'[u]
    <2>1. /\ conversation_turns' = conversation_turns /\ doubt' = doubt
          /\ Executed(u)' = Executed(u) /\ Orphaned(u)' = Orphaned(u)
      BY <1>4, <1>c DEF Reschedule, Executed, Running, Orphaned, Held, JobsOK
    <2>2. Queued(u)' = Queued(u) + (IF u = t THEN 1 ELSE 0)
      BY <1>4, <1>c, AppendPositions DEF Reschedule, Queued, JobsOK
    <2>3. PutOff(u)' = PutOff(u) - (IF u = t THEN 1 ELSE 0)
      BY <1>4, <1>c DEF Reschedule, PutOff, JobsOK
    <2> QED
      BY <1>0, <1>b, <2>1, <2>2, <2>3
  <1>5. ASSUME NEW w \in Workers, Dequeue(w)
        PROVE  Total(u)' <= 1 + doubt'[u]
    <2>1. PICK t \in Turns : t = Head(redis.queue)
      BY <1>5, <1>c, HeadAndTail DEF Dequeue, JobsOK
    <2>2. /\ conversation_turns' = conversation_turns /\ doubt' = doubt
          /\ worker[w] = Idle /\ worker'[w] = [pc |-> "writing", turn |-> {t}]
          /\ \A v \in Workers \ {w} : worker'[v] = worker[v]
      BY <1>5, <2>1 DEF Dequeue, WellFormed
    <2>3. Queued(u)' = Queued(u) - (IF u = t THEN 1 ELSE 0)
      <3>1. Queued(u) = Cardinality(At(Tail(redis.queue), u)) + (IF u = t THEN 1 ELSE 0)
        BY <1>5, <1>c, <2>1, TailPositions DEF Dequeue, JobsOK, Queued
      <3>2. redis'.queue = Tail(redis.queue)
        BY <1>5, <1>c DEF Dequeue, JobsOK
      <3> QED
        BY <1>0, <1>b, <3>1, <3>2 DEF Queued
    <2>4. PutOff(u)' = PutOff(u) /\ redis'.started = redis.started \cup {t}
      BY <1>5, <1>c, <2>1 DEF Dequeue, JobsOK, PutOff
    <2>5. Orphaned(u)' <= Orphaned(u)
      BY <2>2, <2>4 DEF Orphaned, Held, Idle
    <2>6. Executed(u)' = Executed(u) + (IF u = t THEN 1 ELSE 0)
      <3>1. w \notin Running(u) /\ (w \in Running(u)' <=> u = t)
        BY <2>2 DEF Running, Idle
      <3> QED
        BY <1>0, <2>2, <3>1, RunningStep
    <2> QED
      BY <1>0, <1>b, <2>2, <2>3, <2>4, <2>5, <2>6
  <1>6. ASSUME NEW w \in Workers, Write(w)
        PROVE  Total(u)' <= 1 + doubt'[u]
    <2>1. PICK t \in Turns : worker[w].turn = {t}
      BY <1>6, BusyWorker DEF Write
    <2>2. /\ doubt' = doubt
          /\ conversation_turns'[u] = conversation_turns[u] + (IF u = t THEN 1 ELSE 0)
          /\ Queued(u)' = Queued(u) /\ PutOff(u)' = PutOff(u)
      BY <1>6, <1>0, <1>c, <2>1 DEF Write, Rows, Queued, PutOff
    <2>3. /\ worker[w].pc = "writing" /\ worker'[w].pc = "written"
          /\ worker'[w].turn = {t}
          /\ \A v \in Workers \ {w} : worker'[v] = worker[v]
      BY <1>6, <2>1, BusyWorker DEF Write, WellFormed, Busy
    <2>4. Orphaned(u)' = Orphaned(u)
      BY <1>6, <2>1, <2>3 DEF Write, Orphaned, Held
    <2>5. Executed(u)' = Executed(u) - (IF u = t THEN 1 ELSE 0)
      <3>1. w \notin Running(u)' /\ (w \in Running(u) <=> u = t)
        BY <2>1, <2>3 DEF Running
      <3> QED
        BY <1>0, <2>3, <3>1, RunningStep
    <2> QED
      BY <1>0, <1>b, <2>2, <2>4, <2>5
  <1>7. ASSUME NEW w \in Workers, JobDone(w)
        PROVE  Total(u)' <= 1 + doubt'[u]
    <2>1. PICK t \in Turns : worker[w].turn = {t}
      BY <1>7, BusyWorker DEF JobDone
    <2>2. /\ doubt' = doubt /\ conversation_turns' = conversation_turns
          /\ Queued(u)' = Queued(u) /\ PutOff(u)' = PutOff(u)
          /\ redis'.started = redis.started \ {t}
      BY <1>7, <1>c, <2>1 DEF JobDone, JobsOK, Queued, PutOff
    <2>3. /\ worker[w].pc = "written" /\ worker'[w] = Idle
          /\ \A v \in Workers \ {w} : worker'[v] = worker[v]
      BY <1>7 DEF JobDone, WellFormed
    <2>4. Orphaned(u)' <= Orphaned(u)
      BY <2>1, <2>2, <2>3 DEF Orphaned, Held
    <2>5. Executed(u)' = Executed(u)
      <3>1. w \notin Running(u) /\ w \notin Running(u)'
        BY <2>3 DEF Running, Idle
      <3> QED
        BY <1>0, <2>3, <3>1, RunningStep
    <2> QED
      BY <1>0, <1>b, <2>2, <2>4, <2>5
  <1>8. ASSUME NEW w \in Workers, JobFails(w)
        PROVE  Total(u)' <= 1 + doubt'[u]
    <2>1. PICK t \in Turns : worker[w].turn = {t}
      BY <1>8, BusyWorker DEF JobFails
    <2>2. /\ conversation_turns' = conversation_turns /\ redis' = Retried(t)
          /\ doubt' = Doubted(t, worker[w].pc = "written")
          /\ worker[w].pc \in {"writing", "written"} /\ worker'[w] = Idle
          /\ \A v \in Workers \ {w} : worker'[v] = worker[v]
      BY <1>8, <2>1 DEF JobFails, WellFormed
    <2>3. CASE u # t
      <3>1. /\ Queued(u)' = Queued(u) /\ PutOff(u)' = PutOff(u)
            /\ (u \in redis'.started <=> u \in redis.started)
        BY <2>2, <2>3, RetriedCounts
      <3>2. Orphaned(u)' = Orphaned(u) /\ doubt'[u] = doubt[u]
        BY <2>1, <2>2, <2>3, <3>1 DEF Orphaned, Held, Idle, Doubted
      <3>3. Executed(u)' = Executed(u)
        <4>1. w \notin Running(u) /\ w \notin Running(u)'
          BY <2>1, <2>2, <2>3 DEF Running, Idle
        <4> QED
          BY <1>0, <2>2, <4>1, RunningStep
      <3> QED
        BY <2>2, <3>1, <3>2, <3>3
    <2>4. CASE u = t
      <3>1. Queued(u)' = Queued(u) /\ PutOff(u)' <= PutOff(u) + 1 /\ Orphaned(u)' = 0
        BY <2>2, <2>4, RetriedCounts DEF Orphaned
      <3>2. w \notin Running(u)' /\ (w \in Running(u) <=> worker[w].pc = "writing")
        BY <2>1, <2>2, <2>4 DEF Running, Idle
      <3>3. Executed(u)' = Executed(u) - (IF worker[w].pc = "writing" THEN 1 ELSE 0)
        BY <1>0, <2>2, <3>2, RunningStep
      <3>4. doubt'[u] = doubt[u] + (IF worker[w].pc = "writing" THEN 0 ELSE 1)
        BY <1>0, <1>c, <2>2, <2>4 DEF Doubted, Rows
      <3> QED
        BY <1>0, <1>b, <2>2, <3>1, <3>3, <3>4
    <2> QED
      BY <2>3, <2>4
  <1>9. ASSUME NEW w \in Workers, Crash(w)
        PROVE  Total(u)' <= 1 + doubt'[u]
    <2>1. PICK t \in Turns : worker[w].turn = {t}
      BY <1>9, BusyWorker DEF Crash
    <2>2. /\ conversation_turns' = conversation_turns /\ redis' = redis
          /\ doubt' = Doubted(t, worker[w].pc = "written")
          /\ worker[w].pc \in {"writing", "written"} /\ worker'[w] = Off
          /\ \A v \in Workers \ {w} : worker'[v] = worker[v]
      BY <1>9, <2>1 DEF Crash, WellFormed
    <2>3. Queued(u)' = Queued(u) /\ PutOff(u)' = PutOff(u)
      BY <2>2 DEF Queued, PutOff
    <2>4. CASE u # t
      <3>1. Orphaned(u)' = Orphaned(u) /\ doubt'[u] = doubt[u]
        BY <2>1, <2>2, <2>4 DEF Orphaned, Held, Off, Doubted
      <3>2. Executed(u)' = Executed(u)
        <4>1. w \notin Running(u) /\ w \notin Running(u)'
          BY <2>1, <2>2, <2>4 DEF Running, Off
        <4> QED
          BY <1>0, <2>2, <4>1, RunningStep
      <3> QED
        BY <2>2, <2>3, <3>1, <3>2
    <2>5. CASE u = t
      <3>1. Orphaned(u) = 0
        BY <2>1, <2>5 DEF Orphaned, Held
      <3>2. w \notin Running(u)' /\ (w \in Running(u) <=> worker[w].pc = "writing")
        BY <2>1, <2>2, <2>5 DEF Running, Off
      <3>3. Executed(u)' = Executed(u) - (IF worker[w].pc = "writing" THEN 1 ELSE 0)
        BY <1>0, <2>2, <3>2, RunningStep
      <3>4. doubt'[u] = doubt[u] + (IF worker[w].pc = "writing" THEN 0 ELSE 1)
        BY <1>0, <1>c, <2>2, <2>5 DEF Doubted, Rows
      <3> QED
        BY <1>0, <1>b, <2>2, <2>3, <3>1, <3>3, <3>4
    <2> QED
      BY <2>4, <2>5
  <1>10. CASE Replicate
    BY <1>10 DEF Replicate, Queued, PutOff, Orphaned, Executed, Running, Held
  <1>11. CASE Failover
    <2>1. /\ conversation_turns' = conversation_turns /\ worker' = worker
          /\ redis' = replica /\ doubt'[u] = doubt[u] + BroughtBack(u)
      BY <1>11 DEF Failover
    <2>2. Waiting(redis, u)' = Waiting(replica, u)
      BY <2>1 DEF Waiting
    <2>3. BroughtBack(u) \in Nat /\ Waiting(replica, u) <= Waiting(redis, u) + BroughtBack(u)
      BY BroughtBackType
    <2>4. Executed(u)' = Executed(u)
      BY <2>1 DEF Executed, Running
    <2> QED
      BY <1>0, <1>b, <2>1, <2>2, <2>3, <2>4
  <1> QED
    BY <1>1, <1>2, <1>3, <1>4, <1>5, <1>6, <1>7, <1>8, <1>9, <1>10, <1>11 DEF Next, Work

LEMMA NextCounted ==
    WellFormed /\ WellFormed' /\ Whereabouts /\ Counted /\ [Next]_vars => Counted'
  <1> SUFFICES ASSUME WellFormed, WellFormed', Whereabouts, Counted, [Next]_vars
               PROVE  Counted'
    OBVIOUS
  <1>1. CASE Next
    <2>1. TotalsOK'
      BY <1>1, CountedTotal, NextTotal DEF TotalsOK
    <2>2. WellFormed' => (Counted' <=> TotalsOK')
      BY CountedTotal, PTL
    <2> QED
      BY <2>1, <2>2
  <1>2. CASE UNCHANGED vars
    BY <1>2 DEF vars, Counted, Waiting, Running
  <1> QED
    BY <1>1, <1>2

\* DuplicatesNeedDoubt: a turn's further rows are paid for by executions that ended in
\* doubt and by jobs that a failover brought back.
THEOREM DuplicatesArePaidFor == Spec => []DuplicatesNeedDoubt
  <1>1. Init => Counted
    <2> SUFFICES ASSUME Init, NEW t \in Turns
                 PROVE  conversation_turns[t] + Waiting(redis, t) + Cardinality(Running(t))
                          <= 1 + doubt[t]
      BY DEF Counted
    <2>1. conversation_turns[t] = 0 /\ doubt[t] = 0
      BY DEF Init
    <2>2. WellFormed /\ At(redis.queue, t) = {}
      BY InitWellFormed, EmptySeq DEF Init, NoJobs, At
    <2>3. Waiting(redis, t) = 0
      <3>1. redis.scheduled = {} /\ redis.started = {}
        BY DEF Init, NoJobs
      <3>2. Queued(t) = 0 /\ PutOff(t) = 0 /\ Orphaned(t) = 0
        BY <2>2, <3>1, FS_EmptySet DEF Queued, PutOff, Orphaned
      <3> QED
        BY <2>2, <3>2, WaitingSum
    <2>4. Running(t) = {}
      BY DEF Init, Idle, Running
    <2> QED
      BY <2>1, <2>3, <2>4, FS_EmptySet
  <1>2. WellFormed /\ Counted => DuplicatesNeedDoubt
    BY WaitingSum, RunningFinite
       DEF Counted, DuplicatesNeedDoubt, Executed, WellFormed, Rows, PutOff, Orphaned
  <1> QED
    BY <1>1, <1>2, WellFormedInvariant, WhereaboutsInvariant, NextCounted, PTL DEF Spec

-----------------------------------------------------------------------------
(* TurnLog: enqueueing serves a turn, a write records it, and all the rest   *)
(* stutters.                                                                 *)

ServedTurns == {t \in Turns : asked[t] = "served"}

LEMMA StepLogs ==
    WellFormed /\ Whereabouts /\ [Next]_vars =>
        [\E t \in Turns : Abstract!Serve(t) \/ Abstract!Record(t)]_
            <<ServedTurns, conversation_turns, audit_log>>
  <1> SUFFICES ASSUME WellFormed, Whereabouts, [Next]_vars
               PROVE  \/ \E t \in Turns : Abstract!Serve(t) \/ Abstract!Record(t)
                      \/ UNCHANGED <<ServedTurns, conversation_turns, audit_log>>
    OBVIOUS
  <1> USE DEF ServedTurns, faults, rows
  <1>0. asked \in [Turns -> {"new", "served", "unavailable"}]
    BY DEF WellFormed
  <1>1. ASSUME NEW t \in Turns, Enqueue(t)
        PROVE  Abstract!Serve(t)
    BY <1>0, <1>1 DEF Enqueue, Abstract!Serve
  <1>2. ASSUME NEW t \in Turns, PushRecentTurnFails(t)
        PROVE  UNCHANGED <<ServedTurns, conversation_turns, audit_log>>
    BY <1>0, <1>2 DEF PushRecentTurnFails
  <1>3. ASSUME NEW w \in Workers, Write(w)
        PROVE  \E t \in Turns : Abstract!Record(t)
    <2>1. PICK t \in Turns : worker[w].turn = {t}
      BY <1>3, BusyWorker DEF Write
    <2>2. t \in ServedTurns
      BY <2>1 DEF Whereabouts, ServedOnly, Held
    <2> QED
      BY <1>3, <2>1, <2>2 DEF Write, Abstract!Record
  <1>4. ASSUME \/ \E t \in Turns : Abandoned(t) \/ Reschedule(t)
               \/ \E w \in Workers : Dequeue(w) \/ JobDone(w) \/ JobFails(w) \/ Crash(w)
               \/ Replicate \/ Failover \/ UNCHANGED vars
        PROVE  UNCHANGED <<ServedTurns, conversation_turns, audit_log>>
    BY <1>4 DEF Abandoned, Reschedule, Dequeue, JobDone, JobFails, Crash, Replicate, Failover, vars
  <1> QED
    BY <1>1, <1>2, <1>3, <1>4 DEF Next, Work

\* ImplementsTurnLog: whatever the queue, the workers and the failovers do, both tables
\* only grow, together, and only by turns that were served.
THEOREM HistoryImplementsTurnLog == Spec => ImplementsTurnLog
  <1>1. Init => Abstract!Init
    BY DEF Init, Abstract!Init
  <1> QED
    BY <1>1, StepLogs, WellFormedInvariant, WhereaboutsInvariant, PTL
       DEF Spec, ImplementsTurnLog, Abstract!Spec, ServedTurns
=============================================================================
