--------------------------- MODULE IdentityProofs ---------------------------
(***************************************************************************)
(* What Identity promises for every set of contracts, of files and of      *)
(* slots: types, what an extraction leaves in the cache, what the          *)
(* preflight check is worth, and the table that both programs implement.   *)
(***************************************************************************)
EXTENDS Identity, FiniteSetTheorems, SequenceTheorems, WellFoundedInduction, TLAPS

-----------------------------------------------------------------------------
(* Types.  That slots stays within its bounds is a matter of counting: while *)
(* the extraction asks, a slot that is not free is held by a task.           *)

Asking == {i \in DOMAIN ext.task : ext.task[i] \in {"gemini", "groq"}}

\* The slots that a task in this state has.
Held(state) == IF state \in {"gemini", "groq"} THEN 1 ELSE 0

SlotsAreCounted ==
    ext.pc = "asking" => /\ Len(ext.task) = Len(ext.list)
                         /\ slots + Cardinality(Asking) = MaxCalls

WellFormed ==
    /\ file \in Caches \cup {Torn} /\ saved \in Caches
    /\ ext \in [pc : {"off", "asking", "saving", "ended"}, list : Seq(Docs),
                cache : Caches, task : Seq(TaskStates)]
    /\ slots \in 0..MaxCalls /\ SlotsAreCounted
    /\ build \in [pc : {"off", "inserting"}, list : Seq(Docs), known : Caches, next : Nat]
    /\ build.next \in 1..(Len(build.list) + 1)
    /\ row \in [Ids -> Rows \cup {None}]

LEMMA UnknownType == Unknown \in Caches
  BY DEF Unknown, Caches

LEMMA StoppedType ==
  ASSUME NEW pc \in {"off", "asking", "saving", "ended"}, NEW list \in Seq(Docs)
  PROVE  /\ Stopped(pc, list) \in [pc : {"off", "asking", "saving", "ended"}, list : Seq(Docs),
                                   cache : Caches, task : Seq(TaskStates)]
         /\ Stopped(pc, list).pc = pc /\ Stopped(pc, list).list = list
  BY UnknownType, EmptySeq DEF Stopped

\* Positions in a list of contracts, and their hashes.
LEMMA ContractAt ==
  ASSUME NEW list \in Seq(Docs), NEW i \in DOMAIN list
  PROVE  list[i] \in Docs /\ HashOf[list[i]] \in Hashes /\ DocumentId(list[i]) \in Ids
  <1>1. list[i] \in Docs
    BY LenProperties, ElementOfSeq
  <1> QED
    BY <1>1, HashAssumption, IdAssumption DEF DocumentId

LEMMA AskingIsFinite ==
  ASSUME ext.task \in Seq(TaskStates)
  PROVE  /\ IsFiniteSet(Asking) /\ Cardinality(Asking) \in Nat
         /\ ext.task \in [1..Len(ext.task) -> TaskStates] /\ Len(ext.task) \in Nat
  <1>1. ext.task \in [1..Len(ext.task) -> TaskStates] /\ Len(ext.task) \in Nat
    BY LenProperties
  <1>2. IsFiniteSet(1..Len(ext.task))
    BY <1>1, FS_Interval
  <1>3. Asking \in SUBSET (1..Len(ext.task))
    BY <1>1 DEF Asking
  <1> QED
    BY <1>1, <1>2, <1>3, FS_Subset, FS_CardinalityType

LEMMA InitWellFormed == Init => WellFormed
  <1> SUFFICES ASSUME Init
               PROVE  WellFormed
    OBVIOUS
  <1>1. <<>> \in Seq(Docs) /\ Len(<<>>) = 0
    BY EmptySeq
  <1>2. ext \in [pc : {"off", "asking", "saving", "ended"}, list : Seq(Docs),
                 cache : Caches, task : Seq(TaskStates)] /\ ext.pc = "off"
    BY <1>1, StoppedType DEF Init
  <1>3. build \in [pc : {"off", "inserting"}, list : Seq(Docs), known : Caches, next : Nat]
        /\ build.next \in 1..(Len(build.list) + 1)
    BY <1>1, UnknownType DEF Init, NotBuilding
  <1> QED
    BY <1>2, <1>3, UnknownType, MaxCallsAssumption DEF Init, WellFormed, SlotsAreCounted

LEMMA TasksType ==
  ASSUME NEW list \in Seq(Docs), NEW cache \in Caches
  PROVE  /\ Tasks(list, cache) \in Seq(TaskStates) /\ Len(Tasks(list, cache)) = Len(list)
         /\ \A i \in DOMAIN list : Tasks(list, cache)[i] =
                IF cache[HashOf[list[i]]] = None THEN "waiting" ELSE "cached"
  <1> DEFINE t == Tasks(list, cache)
  <1>1. DOMAIN list = 1..Len(list) /\ Len(list) \in Nat
    BY LenProperties
  <1>2. t \in [1..Len(list) -> TaskStates]
    BY <1>1 DEF Tasks, TaskStates
  <1>3. t \in Seq(TaskStates)
    BY <1>1, <1>2, SeqDef
  <1>4. Len(t) = Len(list)
    BY <1>1, <1>2, <1>3, LenProperties
  <1> QED
    BY <1>3, <1>4 DEF Tasks

LEMMA ExtractAllWellFormed ==
  ASSUME WellFormed, NEW list \in Lists, ExtractAll(list)
  PROVE  WellFormed'
  <1>1. list \in Seq(Docs) /\ file \in Caches
    BY ListsAssumption DEF ExtractAll, WellFormed
  <1>2. /\ Tasks(list, file) \in Seq(TaskStates) /\ Len(Tasks(list, file)) = Len(list)
        /\ \A i \in DOMAIN Tasks(list, file) : Tasks(list, file)[i] \notin {"gemini", "groq"}
    BY <1>1, TasksType DEF Tasks
  <1>3. /\ ext' \in [pc : {"off", "asking", "saving", "ended"}, list : Seq(Docs),
                     cache : Caches, task : Seq(TaskStates)]
        /\ ext'.task = Tasks(list, file) /\ ext'.list = list
    BY <1>1, <1>2 DEF ExtractAll
  <1>4. Asking' = {}
    BY <1>2, <1>3 DEF Asking
  <1>5. SlotsAreCounted' /\ slots' \in 0..MaxCalls
    BY <1>2, <1>3, <1>4, FS_EmptySet, MaxCallsAssumption DEF ExtractAll, SlotsAreCounted
  <1> QED
    BY <1>3, <1>5 DEF ExtractAll, WellFormed

\* A task goes from one state to the next, and the slots with it.
LEMMA TaskStep ==
  ASSUME WellFormed, ext.pc = "asking", NEW i \in DOMAIN ext.task, NEW s \in TaskStates,
         NEW cache \in Caches,
         ext' = [ext EXCEPT !.task[i] = s, !.cache = cache],
         slots' + Held(s) = slots + Held(ext.task[i]), slots' \in Nat, UNCHANGED <<file, build, row, saved>>
  PROVE  WellFormed'
  <1> DEFINE n == Len(ext.task)
  <1>0. /\ ext.task \in Seq(TaskStates) /\ ext.task \in [1..n -> TaskStates] /\ n \in Nat
        /\ IsFiniteSet(Asking) /\ Cardinality(Asking) \in Nat
    BY AskingIsFinite DEF WellFormed
  <1>1. /\ ext'.task = [ext.task EXCEPT ![i] = s] /\ ext'.list = ext.list
        /\ ext'.pc = "asking" /\ ext'.cache = cache
    BY DEF WellFormed
  <1>2. /\ ext'.task \in Seq(TaskStates) /\ Len(ext'.task) = n
        /\ ext'.task \in [1..n -> TaskStates]
    BY <1>0, <1>1, ExceptSeq, LenProperties
  <1>3. /\ ext'.task[i] = s
        /\ \A j \in DOMAIN ext.task \ {i} : ext'.task[j] = ext.task[j]
    BY <1>0, <1>1
  <1>4. slots' + Cardinality(Asking') = slots + Cardinality(Asking)
    <2>0. slots \in Nat
      BY MaxCallsAssumption DEF WellFormed
    <2>1. CASE s \in {"gemini", "groq"} /\ ext.task[i] \in {"gemini", "groq"}
      <3>1. Asking' = Asking
        BY <2>1, <1>0, <1>2, <1>3 DEF Asking
      <3> QED
        BY <3>1, <2>0, <2>1, <1>0 DEF Held
    <2>2. CASE s \in {"gemini", "groq"} /\ ext.task[i] \notin {"gemini", "groq"}
      <3>1. Asking' = Asking \cup {i} /\ i \notin Asking
        BY <2>2, <1>0, <1>2, <1>3 DEF Asking
      <3>2. Cardinality(Asking') = Cardinality(Asking) + 1
        BY <3>1, <1>0, FS_AddElement
      <3> QED
        BY <3>2, <2>0, <2>2, <1>0 DEF Held
    <2>3. CASE s \notin {"gemini", "groq"} /\ ext.task[i] \in {"gemini", "groq"}
      <3>1. Asking' = Asking \ {i} /\ i \in Asking
        BY <2>3, <1>0, <1>2, <1>3 DEF Asking
      <3>2. Cardinality(Asking') = Cardinality(Asking) - 1
        BY <3>1, <1>0, FS_RemoveElement
      <3> QED
        BY <3>2, <2>0, <2>3, <1>0 DEF Held
    <2>4. CASE s \notin {"gemini", "groq"} /\ ext.task[i] \notin {"gemini", "groq"}
      <3>1. Asking' = Asking
        BY <2>4, <1>0, <1>2, <1>3 DEF Asking
      <3> QED
        BY <3>1, <2>0, <2>4, <1>0 DEF Held
    <2> QED
      BY <2>1, <2>2, <2>3, <2>4
  <1>5. Cardinality(Asking') \in Nat
    <2>1. Asking' \in SUBSET (1..n)
      BY <1>2 DEF Asking
    <2>0. n \in Int /\ 1 \in Int
      BY <1>0
    <2>2. IsFiniteSet(1..n)
      BY <2>0, FS_Interval
    <2>3. IsFiniteSet(Asking')
      BY <2>1, <2>2, FS_Subset
    <2> QED
      BY <2>3, FS_CardinalityType
  <1>6. SlotsAreCounted' /\ slots' \in 0..MaxCalls
    BY <1>0, <1>1, <1>2, <1>4, <1>5, MaxCallsAssumption DEF WellFormed, SlotsAreCounted
  <1>7. ext' \in [pc : {"off", "asking", "saving", "ended"}, list : Seq(Docs),
                  cache : Caches, task : Seq(TaskStates)]
    BY <1>1, <1>2 DEF WellFormed
  <1> QED
    BY <1>6, <1>7 DEF WellFormed

\* The extraction is not asking any more.
LEMMA OtherPhase ==
  ASSUME WellFormed, ext'.pc # "asking",
         ext' \in [pc : {"off", "asking", "saving", "ended"}, list : Seq(Docs),
                   cache : Caches, task : Seq(TaskStates)],
         file' \in Caches \cup {Torn}, saved' \in Caches, UNCHANGED <<slots, build, row>>
  PROVE  WellFormed'
  BY DEF WellFormed, SlotsAreCounted

LEMMA BuildStep ==
  ASSUME WellFormed, UNCHANGED <<file, ext, slots, saved>>, row' \in [Ids -> Rows \cup {None}],
         build' \in [pc : {"off", "inserting"}, list : Seq(Docs), known : Caches, next : Nat],
         build'.next \in 1..(Len(build'.list) + 1)
  PROVE  WellFormed'
  BY DEF WellFormed, SlotsAreCounted, Asking

\* What ExtractOne does to the state, whichever task it moves.
LEMMA ExtractOneSteps ==
  ASSUME WellFormed, NEW i \in DOMAIN ext.task, ExtractOne(i)
  PROVE  /\ ext.pc = "asking"
         /\ \/ /\ ext.task[i] = "waiting" /\ slots > 0 /\ slots' = slots - 1
               /\ ext' = [ext EXCEPT !.task[i] = "gemini"]
            \/ /\ ext.task[i] = "gemini" /\ slots' = slots
               /\ ext' = [ext EXCEPT !.task[i] = "groq"]
            \/ /\ ext.task[i] \in {"gemini", "groq"} /\ slots' = slots + 1
               /\ \E identity \in {"found", "failed"} :
                      ext' = [ext EXCEPT !.task[i] = "done",
                                         !.cache[HashOf[ext.list[i]]] = identity]
         /\ UNCHANGED <<file, build, row, saved>>
  <1>1. CASE CallGemini(i)
    BY <1>1 DEF CallGemini, Move
  <1>2. CASE CallGroq(i)
    BY <1>2 DEF CallGroq, Move
  <1>3. ASSUME NEW from \in {"gemini", "groq"}, NEW identity \in {"found", "failed"},
               Answer(i, from, identity)
        PROVE  /\ ext.pc = "asking" /\ ext.task[i] \in {"gemini", "groq"} /\ slots' = slots + 1
               /\ ext' = [ext EXCEPT !.task[i] = "done",
                                     !.cache[HashOf[ext.list[i]]] = identity]
               /\ UNCHANGED <<file, build, row, saved>>
    BY <1>3 DEF Answer
  <1> QED
    BY <1>1, <1>2, <1>3 DEF ExtractOne

LEMMA ExtractOneWellFormed ==
  ASSUME WellFormed, NEW i \in DOMAIN ext.task, ExtractOne(i)
  PROVE  WellFormed'
  <1>0. /\ ext.pc = "asking" /\ slots \in Nat /\ ext.cache \in Caches
        /\ UNCHANGED <<file, build, row, saved>>
    <2>1. ext.pc = "asking" /\ UNCHANGED <<file, build, row, saved>>
      BY ExtractOneSteps
    <2> QED
      BY <2>1, MaxCallsAssumption DEF WellFormed
  <1>1. CASE /\ ext.task[i] = "waiting" /\ slots > 0 /\ slots' = slots - 1
             /\ ext' = [ext EXCEPT !.task[i] = "gemini"]
    <2>1. ext' = [ext EXCEPT !.task[i] = "gemini", !.cache = ext.cache]
      BY <1>1 DEF WellFormed
    <2>2. /\ "gemini" \in TaskStates /\ slots' \in Nat
          /\ slots' + Held("gemini") = slots + Held(ext.task[i])
      BY <1>0, <1>1 DEF TaskStates, Held
    <2> QED
      BY <1>0, <1>1, <2>1, <2>2, TaskStep
  <1>2. CASE /\ ext.task[i] = "gemini" /\ slots' = slots
             /\ ext' = [ext EXCEPT !.task[i] = "groq"]
    <2>1. ext' = [ext EXCEPT !.task[i] = "groq", !.cache = ext.cache]
      BY <1>2 DEF WellFormed
    <2>2. /\ "groq" \in TaskStates /\ slots' \in Nat
          /\ slots' + Held("groq") = slots + Held(ext.task[i])
      BY <1>0, <1>2 DEF TaskStates, Held
    <2> QED
      BY <1>0, <2>1, <2>2, TaskStep
  <1>3. ASSUME NEW identity \in {"found", "failed"},
               ext.task[i] \in {"gemini", "groq"}, slots' = slots + 1,
               ext' = [ext EXCEPT !.task[i] = "done",
                                  !.cache[HashOf[ext.list[i]]] = identity]
        PROVE  WellFormed'
    <2> DEFINE cache == [ext.cache EXCEPT ![HashOf[ext.list[i]]] = identity]
    <2>1. cache \in Caches
      BY <1>0 DEF Caches
    <2>2. ext' = [ext EXCEPT !.task[i] = "done", !.cache = cache]
      BY <1>3 DEF WellFormed
    <2>3. /\ "done" \in TaskStates /\ slots' \in Nat
          /\ slots' + Held("done") = slots + Held(ext.task[i])
      BY <1>0, <1>3 DEF TaskStates, Held
    <2> HIDE DEF cache
    <2> QED
      BY <1>0, <2>1, <2>2, <2>3, TaskStep
  <1> QED
    BY <1>1, <1>2, <1>3, ExtractOneSteps

LEMMA BuildNextWellFormed ==
  ASSUME WellFormed, BuildNext
  PROVE  WellFormed'
  <1> DEFINE d == build.list[build.next]
             id == DocumentId(d)
  <1>1. build.next \in DOMAIN build.list /\ build.list \in Seq(Docs)
    BY LenProperties DEF BuildNext, WellFormed
  <1>2. d \in Docs /\ HashOf[d] \in Hashes /\ id \in Ids
    BY <1>1, ContractAt
  <1>3. IdentitySource(d) \in Sources
    BY <1>2 DEF WellFormed, Caches, IdentitySource, Sources
  <1>4. row' \in [Ids -> Rows \cup {None}]
    <2>1. CASE row' = row
      BY <2>1 DEF WellFormed
    <2>2. CASE d \notin Blank /\ row' = [row EXCEPT ![id] = [contract |-> d, source |-> IdentitySource(d)]]
      BY <1>2, <1>3, <2>2 DEF WellFormed, Rows
    <2> QED
      BY <2>1, <2>2 DEF BuildNext
  <1>5. /\ build' \in [pc : {"off", "inserting"}, list : Seq(Docs), known : Caches, next : Nat]
        /\ build'.next \in 1..(Len(build'.list) + 1)
    <2>1. /\ Len(build.list) \in Nat /\ build.next \in Nat /\ build.next >= 1
          /\ build.next <= Len(build.list)
      BY <1>1, LenProperties DEF BuildNext, WellFormed
    <2>2. /\ build'.list = build.list /\ build'.next = build.next + 1
          /\ build'.pc = build.pc /\ build'.known = build.known
          /\ build' = [build EXCEPT !.next = build.next + 1]
      BY DEF BuildNext, WellFormed
    <2>3. build.next + 1 \in Nat /\ build.next + 1 \in 1..(Len(build.list) + 1)
      BY <2>1
    <2> QED
      BY <2>2, <2>3 DEF WellFormed
  <1> QED
    BY <1>4, <1>5, BuildStep DEF BuildNext

LEMMA NextWellFormed == WellFormed /\ [Next]_vars => WellFormed'
  <1> SUFFICES ASSUME WellFormed, [Next]_vars
               PROVE  WellFormed'
    OBVIOUS
  <1>1. ASSUME NEW list \in Lists, ExtractAll(list)
        PROVE  WellFormed'
    BY <1>1, ExtractAllWellFormed
  <1>2. ASSUME NEW i \in DOMAIN ext.task, ExtractOne(i)
        PROVE  WellFormed'
    BY <1>2, ExtractOneWellFormed
  <1>3. CASE BeginSave
    <2>1. CASE ext' = [ext EXCEPT !.pc = "saving"] /\ file' = Torn
      BY <1>3, <2>1, OtherPhase DEF BeginSave, WellFormed
    <2>2. CASE ext' = Stopped("ended", ext.list) /\ UNCHANGED file
      BY <1>3, <2>2, OtherPhase, StoppedType DEF BeginSave, WellFormed
    <2> QED
      BY <1>3, <2>1, <2>2 DEF BeginSave
  <1>4. CASE EndSave
    BY <1>4, OtherPhase, StoppedType DEF EndSave, WellFormed
  <1>5. CASE ExtractionStops
    BY <1>5, OtherPhase, StoppedType, EmptySeq DEF ExtractionStops, WellFormed
  <1>6. ASSUME NEW list \in Lists, StartBuild(list)
        PROVE  WellFormed'
    <2>1. list \in Seq(Docs) /\ file \in Caches /\ Len(list) \in Nat
      BY <1>6, ListsAssumption, LenProperties DEF StartBuild, WellFormed
    <2> QED
      BY <1>6, <2>1, BuildStep DEF StartBuild, WellFormed
  <1>7. CASE BuildNext
    BY <1>7, BuildNextWellFormed
  <1>8. CASE BuildStops
    <2>1. <<>> \in Seq(Docs) /\ Len(<<>>) = 0
      BY EmptySeq
    <2> QED
      BY <1>8, <2>1, UnknownType, BuildStep DEF BuildStops, NotBuilding, WellFormed
  <1>9. CASE UNCHANGED vars
    BY <1>9 DEF vars, WellFormed, SlotsAreCounted, Asking
  <1> QED
    BY <1>1, <1>2, <1>3, <1>4, <1>5, <1>6, <1>7, <1>8, <1>9 DEF Next, Extraction

\* The inductive invariant that says of what kind every part of the state is.
THEOREM WellFormedInvariant == Spec => []WellFormed
  BY InitWellFormed, NextWellFormed, PTL DEF Spec

\* Type correctness, for any number of slots: a slot is given back as often as it is
\* taken.
THEOREM TypeCorrect == Spec => []TypeOK
  <1>1. WellFormed => TypeOK
    BY DEF WellFormed, TypeOK
  <1> QED
    BY <1>1, WellFormedInvariant, PTL

-----------------------------------------------------------------------------
(* What is known.  The invariant says what each state of a task means for    *)
(* what was saved and for the cache in memory; the cache in memory never     *)
(* forgets or changes what was saved, and nothing is saved before all tasks  *)
(* have ended.                                                               *)

Knows(cache, d) == cache[HashOf[d]] # None

FileIsSaved ==
    /\ file # Torn => file = saved
    /\ ext.pc \in {"asking", "ended"} => file # Torn

CacheExtendsSaved ==
    ext.pc \in {"asking", "saving"} =>
        \A h \in Hashes : saved[h] # None => ext.cache[h] = saved[h]

TasksAreTrue ==
    ext.pc = "asking" => \A i \in DOMAIN ext.task :
        /\ ext.task[i] \in {"waiting", "gemini", "groq"} => ~Knows(saved, ext.list[i])
        /\ ext.task[i] = "cached" => Knows(saved, ext.list[i])
        /\ ext.task[i] = "done" => Knows(ext.cache, ext.list[i])

AllAreKnown ==
    \A i \in DOMAIN ext.list :
        /\ ext.pc = "saving" => Knows(ext.cache, ext.list[i])
        /\ ext.pc = "ended" => Knows(saved, ext.list[i])

\* A build that is under way may be behind, but knows nothing else.
BuildIsBehind == \A h \in Hashes : build.known[h] # None => saved[h] = build.known[h]

Knowledge == FileIsSaved /\ CacheExtendsSaved /\ TasksAreTrue /\ AllAreKnown /\ BuildIsBehind

LEMMA InitKnowledge == Init => Knowledge
  <1> SUFFICES ASSUME Init
               PROVE  Knowledge
    OBVIOUS
  <1>1. Unknown # Torn
    BY UnknownType, TornAssumption
  <1>2. ext.pc = "off" /\ file = saved
    BY DEF Init, Stopped
  <1>3. \A h \in Hashes : build.known[h] = None
    BY DEF Init, NotBuilding, Unknown
  <1> QED
    BY <1>1, <1>2, <1>3
       DEF Knowledge, FileIsSaved, CacheExtendsSaved, TasksAreTrue, AllAreKnown, BuildIsBehind

\* While the extraction asks, there is one task for every contract of its list.
LEMMA TasksOfList ==
  ASSUME WellFormed, ext.pc = "asking"
  PROVE  /\ DOMAIN ext.task = DOMAIN ext.list
         /\ \A i \in DOMAIN ext.task : /\ ext.list[i] \in Docs /\ HashOf[ext.list[i]] \in Hashes
                                     /\ ext.task[i] \in TaskStates
  <1>1. /\ ext.task \in Seq(TaskStates) /\ ext.list \in Seq(Docs)
        /\ Len(ext.task) = Len(ext.list)
    BY DEF WellFormed, SlotsAreCounted
  <1>2. DOMAIN ext.task = DOMAIN ext.list
    BY <1>1, LenProperties
  <1>3. \A i \in DOMAIN ext.task : ext.task[i] \in TaskStates
    BY <1>1, LenProperties
  <1> QED
    BY <1>1, <1>2, <1>3, ContractAt

LEMMA ExtractAllKnowledge ==
  ASSUME WellFormed, Knowledge, NEW list \in Lists, ExtractAll(list)
  PROVE  Knowledge'
  <1>1. list \in Seq(Docs) /\ file \in Caches /\ file # Torn /\ file = saved
    BY ListsAssumption DEF ExtractAll, WellFormed, Knowledge, FileIsSaved
  <1>2. \A i \in DOMAIN Tasks(list, file) :
            Tasks(list, file)[i] = IF file[HashOf[list[i]]] = None THEN "waiting" ELSE "cached"
    BY DEF Tasks
  <1>3. /\ ext'.pc = "asking" /\ ext'.list = list /\ ext'.cache = file
        /\ ext'.task = Tasks(list, file)
        /\ UNCHANGED <<file, build, row, saved>>
    BY DEF ExtractAll
  <1>4. TasksAreTrue'
    BY <1>1, <1>2, <1>3 DEF TasksAreTrue, Knows
  <1> QED
    BY <1>1, <1>3, <1>4
       DEF Knowledge, FileIsSaved, CacheExtendsSaved, AllAreKnown, BuildIsBehind

LEMMA ExtractOneKnowledge ==
  ASSUME WellFormed, Knowledge, NEW i \in DOMAIN ext.task, ExtractOne(i)
  PROVE  Knowledge'
  <1>1. ext.pc = "asking" /\ UNCHANGED <<file, build, row, saved>>
    BY ExtractOneSteps
  <1>2. /\ DOMAIN ext.task = DOMAIN ext.list /\ ext.cache \in Caches
        /\ \A j \in DOMAIN ext.task : HashOf[ext.list[j]] \in Hashes
    BY <1>1, TasksOfList DEF WellFormed
  <1>3. ASSUME NEW s \in {"gemini", "groq"}, ext.task[i] \in {"waiting", "gemini"},
               ext' = [ext EXCEPT !.task[i] = s]
        PROVE  Knowledge'
    <2>1. /\ ext'.pc = "asking" /\ ext'.list = ext.list /\ ext'.cache = ext.cache
          /\ ext'.task = [ext.task EXCEPT ![i] = s]
      BY <1>1, <1>3 DEF WellFormed
    <2>2. TasksAreTrue'
      BY <1>1, <1>3, <2>1 DEF Knowledge, TasksAreTrue, Knows
    <2> QED
      BY <1>1, <2>1, <2>2
         DEF Knowledge, FileIsSaved, CacheExtendsSaved, AllAreKnown, BuildIsBehind
  <1>4. ASSUME NEW identity \in {"found", "failed"}, ext.task[i] \in {"gemini", "groq"},
               ext' = [ext EXCEPT !.task[i] = "done",
                                  !.cache[HashOf[ext.list[i]]] = identity]
        PROVE  Knowledge'
    <2>1. /\ ext'.pc = "asking" /\ ext'.list = ext.list
          /\ ext'.task = [ext.task EXCEPT ![i] = "done"]
          /\ ext'.cache = [ext.cache EXCEPT ![HashOf[ext.list[i]]] = identity]
      BY <1>1, <1>4 DEF WellFormed
    <2>2. identity # None
      BY NoneAssumption DEF Sources
    <2>3. /\ \A h \in Hashes \ {HashOf[ext.list[i]]} : ext'.cache[h] = ext.cache[h]
          /\ ext'.cache[HashOf[ext.list[i]]] = identity
      BY <1>2, <2>1 DEF Caches
    <2>4. saved[HashOf[ext.list[i]]] = None
      BY <1>1, <1>4 DEF Knowledge, TasksAreTrue, Knows
    <2>5. CacheExtendsSaved'
      BY <1>1, <2>1, <2>3, <2>4 DEF Knowledge, CacheExtendsSaved
    <2>6. TasksAreTrue'
      <3>1. /\ DOMAIN ext'.task = DOMAIN ext.task /\ ext'.task[i] = "done"
            /\ \A j \in DOMAIN ext.task \ {i} : ext'.task[j] = ext.task[j]
        BY <2>1
      <3>2. ASSUME NEW j \in DOMAIN ext.task, ext'.task[j] = "done"
            PROVE  Knows(ext'.cache, ext.list[j])
        <4>1. CASE HashOf[ext.list[j]] = HashOf[ext.list[i]]
          BY <4>1, <2>2, <2>3 DEF Knows
        <4>2. CASE HashOf[ext.list[j]] # HashOf[ext.list[i]]
          BY <4>2, <1>1, <1>2, <2>3, <3>1, <3>2 DEF Knowledge, TasksAreTrue, Knows
        <4> QED
          BY <4>1, <4>2
      <3> QED
        BY <1>1, <2>1, <3>1, <3>2 DEF Knowledge, TasksAreTrue, Knows
    <2> QED
      BY <1>1, <2>1, <2>5, <2>6 DEF Knowledge, FileIsSaved, AllAreKnown, BuildIsBehind
  <1> QED
    BY <1>3, <1>4, ExtractOneSteps

LEMMA BeginSaveKnowledge ==
  ASSUME WellFormed, Knowledge, BeginSave
  PROVE  Knowledge'
  <1>0. ext.pc = "asking" /\ \A i \in DOMAIN ext.task : ext.task[i] \in {"cached", "done"}
    BY DEF BeginSave, Answered
  <1>1. DOMAIN ext.task = DOMAIN ext.list /\ UNCHANGED <<build, row, saved>>
    BY <1>0, TasksOfList DEF BeginSave
  <1>2. ASSUME NEW i \in DOMAIN ext.list
        PROVE  Knows(ext.cache, ext.list[i])
    <2>1. HashOf[ext.list[i]] \in Hashes
      BY ContractAt DEF WellFormed
    <2> QED
      BY <1>0, <1>1, <2>1 DEF Knowledge, TasksAreTrue, CacheExtendsSaved, Knows
  <1>3. CASE ext' = [ext EXCEPT !.pc = "saving"] /\ file' = Torn
    <2>1. ext'.pc = "saving" /\ ext'.list = ext.list /\ ext'.cache = ext.cache
      BY <1>3 DEF WellFormed
    <2> QED
      BY <1>0, <1>1, <1>2, <1>3, <2>1
         DEF Knowledge, FileIsSaved, CacheExtendsSaved, TasksAreTrue, AllAreKnown, BuildIsBehind
  <1>4. CASE /\ "done" \notin {ext.task[i] : i \in DOMAIN ext.task}
             /\ ext' = Stopped("ended", ext.list) /\ UNCHANGED file
    <2>1. ext'.pc = "ended" /\ ext'.list = ext.list
      BY <1>4 DEF Stopped
    <2>2. \A i \in DOMAIN ext.list : Knows(saved, ext.list[i])
      BY <1>0, <1>1, <1>4 DEF Knowledge, TasksAreTrue
    <2> QED
      BY <1>0, <1>1, <1>4, <2>1, <2>2
         DEF Knowledge, FileIsSaved, CacheExtendsSaved, TasksAreTrue, AllAreKnown, BuildIsBehind
  <1> QED
    BY <1>3, <1>4 DEF BeginSave

LEMMA EndSaveKnowledge ==
  ASSUME WellFormed, Knowledge, EndSave
  PROVE  Knowledge'
  <1>1. /\ ext.pc = "saving" /\ file' = ext.cache /\ saved' = ext.cache
        /\ ext'.pc = "ended" /\ ext'.list = ext.list /\ build' = build
    BY DEF EndSave, Stopped
  <1>2. ext.cache # Torn
    BY TornAssumption DEF WellFormed
  <1>3. BuildIsBehind'
    BY <1>1, NoneAssumption DEF Knowledge, BuildIsBehind, CacheExtendsSaved
  <1> QED
    BY <1>1, <1>2, <1>3
       DEF Knowledge, FileIsSaved, CacheExtendsSaved, TasksAreTrue, AllAreKnown

LEMMA NextKnowledge == WellFormed /\ Knowledge /\ [Next]_vars => Knowledge'
  <1> SUFFICES ASSUME WellFormed, Knowledge, [Next]_vars
               PROVE  Knowledge'
    OBVIOUS
  <1> USE DEF Knowledge, FileIsSaved, CacheExtendsSaved, TasksAreTrue, AllAreKnown, BuildIsBehind
  <1>1. CASE ExtractionStops
    <2>1. ext'.pc = "off" /\ UNCHANGED <<file, build, saved>>
      BY <1>1 DEF ExtractionStops, Stopped
    <2> QED
      BY <2>1
  <1>2. ASSUME NEW list \in Lists, StartBuild(list)
        PROVE  Knowledge'
    <2>1. build'.known = saved /\ UNCHANGED <<file, ext, saved>>
      BY <1>2 DEF StartBuild
    <2> QED
      BY <2>1
  <1>3. CASE BuildNext
    <2>1. build'.known = build.known /\ UNCHANGED <<file, ext, saved>>
      BY <1>3 DEF BuildNext, WellFormed
    <2> QED
      BY <2>1
  <1>4. CASE BuildStops
    <2>1. /\ \A h \in Hashes : build'.known[h] = None
          /\ UNCHANGED <<file, ext, saved>>
      BY <1>4 DEF BuildStops, NotBuilding, Unknown
    <2> QED
      BY <2>1
  <1>5. CASE UNCHANGED vars
    BY <1>5 DEF vars
  <1> QED
    BY <1>1, <1>2, <1>3, <1>4, <1>5, ExtractAllKnowledge, ExtractOneKnowledge,
       BeginSaveKnowledge, EndSaveKnowledge DEF Next, Extraction

\* What the tasks, the cache in memory, the file and the build know, through every
\* interruption of either program.
THEOREM KnowledgeInvariant == Spec => []Knowledge
  BY InitKnowledge, NextKnowledge, WellFormedInvariant, PTL DEF Spec

\* An extraction that ends leaves a file that can be read and knows every contract of
\* its list, whatever was interrupted before it.
THEOREM EndedExtractionsAreComplete == Spec => []EndedMeansKnown
  <1>1. Knowledge => EndedMeansKnown
    BY DEF Knowledge, FileIsSaved, AllAreKnown, EndedMeansKnown, Knows
  <1> QED
    BY <1>1, KnowledgeInvariant, PTL

-----------------------------------------------------------------------------
(* The table of identities.                                                  *)

\* An extraction adds to the table when it saves, and only then; an insertion of the
\* build registers one contract, with what the table says or the fallback.
THEOREM IdentityImplementsTable == Spec => ImplementsIdentityTable
  <1>1. Init => Abstract!Init
    BY DEF Init, Abstract!Init, Unknown
  <1>2. WellFormed /\ Knowledge /\ [Next]_vars => [Abstract!Next]_<<saved, row>>
    <2> SUFFICES ASSUME WellFormed, Knowledge, [Next]_vars
                 PROVE  Abstract!Next \/ UNCHANGED <<saved, row>>
      OBVIOUS
    <2>1. CASE EndSave
      <3>1. saved' = ext.cache /\ ext.cache \in Caches /\ ext.pc = "saving" /\ row' = row
        BY <2>1 DEF EndSave, WellFormed
      <3>2. Abstract!Learn
        BY <3>1 DEF Abstract!Learn, Caches, Knowledge, CacheExtendsSaved
      <3> QED
        BY <3>2 DEF Abstract!Next
    <2>2. CASE BuildNext
      <3> DEFINE d == build.list[build.next]
                 id == DocumentId(d)
                 source == IdentitySource(d)
      <3>1. build.next \in DOMAIN build.list /\ build.list \in Seq(Docs)
        BY <2>2, LenProperties DEF BuildNext, WellFormed
      <3>2. d \in Docs /\ HashOf[d] \in Hashes /\ id \in Ids
        BY <3>1, ContractAt
      <3>3. source \in {saved[HashOf[d]], "regex_fallback"} \ {None}
        BY <3>2, NoneAssumption DEF IdentitySource, Knowledge, BuildIsBehind, Sources
      <3>4. saved' = saved
        BY <2>2 DEF BuildNext
      <3>5. \/ row' = row
            \/ row' = [row EXCEPT ![id] = [contract |-> d, source |-> source]]
        BY <2>2 DEF BuildNext
      <3> HIDE DEF d, id, source
      <3>6. CASE row' = [row EXCEPT ![id] = [contract |-> d, source |-> source]]
        BY <3>2, <3>3, <3>4, <3>6 DEF Abstract!Next, Abstract!Register
      <3> QED
        BY <3>4, <3>5, <3>6
    <2>3. ASSUME NEW i \in DOMAIN ext.task, ExtractOne(i)
          PROVE  UNCHANGED <<saved, row>>
      BY <2>3, ExtractOneSteps
    <2> QED
      BY <2>1, <2>2, <2>3
         DEF Next, Extraction, ExtractAll, BeginSave, ExtractionStops, StartBuild, BuildStops, vars
  <1> QED
    BY <1>1, <1>2, WellFormedInvariant, KnowledgeInvariant, PTL
       DEF Spec, ImplementsIdentityTable, Abstract!Spec

-----------------------------------------------------------------------------
(* The preflight check and the build.                                        *)

\* No two contracts of a list have one id under two titles.
NoClash(list) == \A i, j \in DOMAIN list : ~Clash(list[i], list[j])

\* Every set of positions has a first one.
LEMMA FirstOf ==
  ASSUME NEW T \in SUBSET Nat, T # {}
  PROVE  \E m \in T : \A k \in T : ~(k < m)
  <1>1. PICK m \in T : \A k \in T : ~(<<k, m>> \in OpToRel(<, Nat))
    BY NatLessThanWellFounded, WFMin
  <1> QED
    BY <1>1 DEF OpToRel

LEMMA ClashIsSymmetric ==
  ASSUME NEW d, NEW e
  PROVE  /\ Clash(d, e) => Clash(e, d) /\ d \notin Blank /\ e \notin Blank
         /\ Clash(d, e) => DocumentId(d) = DocumentId(e) /\ TitleOf[d] # TitleOf[e]
         /\ d \notin Blank /\ e \notin Blank /\ DocumentId(d) = DocumentId(e)
              /\ TitleOf[d] # TitleOf[e] => Clash(d, e)
  BY DEF Clash

\* The check compares a title only with the one that claimed its id first; that is
\* enough to find a clash of any two titles of the file.
LEMMA PreflightIsComplete ==
  ASSUME NEW list \in Seq(Docs), IsSafe(list)
  PROVE  NoClash(list)
  <1>0. DOMAIN list \in SUBSET Nat /\ DOMAIN list = 1..Len(list) /\ Len(list) \in Nat
    BY LenProperties
  <1>1. ASSUME NEW i \in DOMAIN list, NEW j \in DOMAIN list, i < j, Clash(list[i], list[j])
        PROVE  FALSE
    <2> DEFINE Same == {k \in 1..(j - 1) : /\ list[k] \notin Blank
                                          /\ DocumentId(list[k]) = DocumentId(list[j])}
    <2>1. i \in Same /\ Same \in SUBSET Nat /\ j \in Nat /\ i \in Nat
      BY <1>0, <1>1, ClashIsSymmetric
    <2>2. PICK m \in Same : \A k \in Same : ~(k < m)
      <3> HIDE DEF Same
      <3> QED
        BY <2>1, FirstOf
    <2>3. m \in 1..(j - 1) /\ list[m] \notin Blank /\ DocumentId(list[m]) = DocumentId(list[j])
      BY <2>2
    <2>4. \A k \in 1..(m - 1) : list[k] \in Blank \/ DocumentId(list[k]) # DocumentId(list[j])
      <3>1. \A k \in 1..(m - 1) : k \in 1..(j - 1) /\ k < m
        BY <2>1, <2>3
      <3> QED
        BY <2>2, <3>1
    <2>5. CASE TitleOf[list[m]] # TitleOf[list[j]]
      <3>1. Clash(list[m], list[j])
        BY <1>1, <2>3, <2>5, ClashIsSymmetric
      <3>2. j \in CheckTitles(list)
        BY <2>3, <2>4, <3>1 DEF CheckTitles
      <3> QED
        BY <3>2 DEF IsSafe
    <2>6. CASE TitleOf[list[m]] = TitleOf[list[j]]
      <3>1. Clash(list[m], list[i]) /\ DocumentId(list[i]) = DocumentId(list[j])
        BY <1>1, <2>3, <2>6, ClashIsSymmetric
      <3>2. m # i
        BY <1>1, <2>6, ClashIsSymmetric
      <3>3. m \in 1..(i - 1)
        BY <2>1, <2>2, <2>3, <3>2
      <3>4. i \in CheckTitles(list)
        BY <2>4, <3>1, <3>3 DEF CheckTitles
      <3> QED
        BY <3>4 DEF IsSafe
    <2> QED
      BY <2>5, <2>6
  <1> SUFFICES ASSUME NEW i \in DOMAIN list, NEW j \in DOMAIN list, Clash(list[i], list[j])
               PROVE  FALSE
    BY DEF NoClash
  <1>2. i # j
    BY ClashIsSymmetric
  <1>3. i < j \/ j < i
    BY <1>0, <1>2
  <1> QED
    BY <1>1, <1>3, ClashIsSymmetric

\* The registry has d, with a text that the file has under the title of d.
IsThere(d, rows, list) ==
    /\ rows[DocumentId(d)] # None
    /\ \E j \in DOMAIN list : /\ TitleOf[list[j]] = TitleOf[d]
                             /\ TextOf[list[j]] = TextOf[rows[DocumentId(d)].contract]

\* What a build has gone through is there.
InsertedIsThere ==
    build.pc = "inserting" /\ NoClash(build.list) =>
        \A i \in 1..(build.next - 1) :
            build.list[i] \notin Blank => IsThere(build.list[i], row, build.list)

LEMMA BuildNextInserted ==
  ASSUME WellFormed, InsertedIsThere, BuildNext
  PROVE  InsertedIsThere'
  <1> DEFINE d == build.list[build.next]
             id == DocumentId(d)
             r == [contract |-> d, source |-> IdentitySource(d)]
  <1>1. /\ build.next \in DOMAIN build.list /\ build.list \in Seq(Docs)
        /\ DOMAIN build.list = 1..Len(build.list)
        /\ build.next \in Nat /\ build.next >= 1 /\ Len(build.list) \in Nat
    BY LenProperties DEF BuildNext, WellFormed
  <1>2. d \in Docs /\ HashOf[d] \in Hashes /\ id \in Ids
    BY <1>1, ContractAt
  <1>3. /\ build'.list = build.list /\ build'.next - 1 = build.next /\ build.pc = "inserting"
    BY <1>1 DEF BuildNext, WellFormed
  <1>4. r # None \/ d \in Blank
    <2>1. IdentitySource(d) \in Sources
      BY <1>2 DEF WellFormed, Caches, IdentitySource, Sources
    <2> QED
      BY <1>2, <2>1, NoneAssumption DEF Rows
  <1>5. \/ row' = row /\ d \in Blank
        \/ row' = row /\ row[id] # None /\ TextOf[row[id].contract] = TextOf[d]
        \/ row' = [row EXCEPT ![id] = r] /\ d \notin Blank
    BY DEF BuildNext
  \* The row of d has the text of d, which the file has under the title of d.
  <1>6. ASSUME NEW e \in Docs, TitleOf[e] = TitleOf[d], DocumentId(e) = id,
               row'[id] # None, TextOf[row'[id].contract] = TextOf[d]
        PROVE  IsThere(e, row', build.list)
    BY <1>1, <1>6 DEF IsThere
  <1>7. ASSUME NoClash(build.list), NEW i \in 1..build.next, build.list[i] \notin Blank
        PROVE  IsThere(build.list[i], row', build.list)
    <2> DEFINE e == build.list[i]
    <2>1. i \in DOMAIN build.list /\ e \in Docs /\ DocumentId(e) \in Ids
      BY <1>1, ContractAt
    <2>2. CASE i = build.next
      <3>1. row'[id] # None /\ TextOf[row'[id].contract] = TextOf[d]
        <4>1. CASE row' = row
          BY <1>5, <1>7, <2>2, <4>1, <1>2, <1>4 DEF WellFormed
        <4>2. CASE row' = [row EXCEPT ![id] = r] /\ d \notin Blank
          <5>1. row'[id] = r
            BY <1>2, <4>2 DEF WellFormed
          <5> QED
            BY <1>4, <4>2, <5>1
        <4> QED
          BY <1>5, <4>1, <4>2
      <3> QED
        BY <1>2, <1>6, <2>2, <3>1
    <2>3. CASE i # build.next
      <3>1. i \in 1..(build.next - 1)
        BY <1>1, <2>3
      <3>2. IsThere(e, row, build.list)
        BY <1>3, <1>7, <3>1 DEF InsertedIsThere
      <3>3. CASE row' = row \/ DocumentId(e) # id
        <4>1. row'[DocumentId(e)] = row[DocumentId(e)]
          BY <1>5, <2>1, <3>3 DEF WellFormed
        <4> QED
          BY <3>2, <4>1 DEF IsThere
      <3>4. CASE row' = [row EXCEPT ![id] = r] /\ d \notin Blank /\ DocumentId(e) = id
        <4>1. TitleOf[e] = TitleOf[d]
          BY <1>1, <1>7, <2>1, <3>4, ClashIsSymmetric DEF NoClash
        <4>2. row'[id] = r
          BY <1>2, <3>4 DEF WellFormed
        <4>3. row'[id] # None /\ TextOf[row'[id].contract] = TextOf[d]
          BY <1>4, <3>4, <4>2
        <4>4. e \in Docs /\ DocumentId(e) = id
          BY <2>1, <3>4
        <4> HIDE DEF id, d
        <4> QED
          BY <1>6, <4>1, <4>3, <4>4
      <3> QED
        BY <1>5, <3>3, <3>4
    <2> QED
      BY <2>2, <2>3
  <1> QED
    BY <1>3, <1>7 DEF InsertedIsThere

\* What the loop of build() has inserted from a file without clashes stays there until it
\* ends.
THEOREM InsertedInvariant == Spec => []InsertedIsThere
  <1>1. Init => InsertedIsThere
    BY DEF Init, NotBuilding, InsertedIsThere
  <1>2. WellFormed /\ InsertedIsThere /\ [Next]_vars => InsertedIsThere'
    <2> SUFFICES ASSUME WellFormed, InsertedIsThere, [Next]_vars
                 PROVE  InsertedIsThere'
      OBVIOUS
    <2>1. CASE UNCHANGED <<build, row>>
      BY <2>1 DEF InsertedIsThere
    <2>2. ASSUME NEW list \in Lists, StartBuild(list)
          PROVE  InsertedIsThere'
      <3>1. build'.next = 1 /\ 1..(1 - 1) = {}
        BY <2>2 DEF StartBuild
      <3> QED
        BY <3>1 DEF InsertedIsThere
    <2>3. CASE BuildNext
      BY <2>3, BuildNextInserted
    <2>4. CASE BuildStops
      BY <2>4 DEF BuildStops, NotBuilding, InsertedIsThere
    <2>5. ASSUME NEW i \in DOMAIN ext.task, ExtractOne(i)
          PROVE  UNCHANGED <<build, row>>
      BY <2>5, ExtractOneSteps
    <2> QED
      BY <2>1, <2>2, <2>3, <2>4, <2>5
         DEF Next, Extraction, ExtractAll, BeginSave, EndSave, ExtractionStops, vars
  <1> QED
    BY <1>1, <1>2, WellFormedInvariant, PTL DEF Spec

\* SafeBuildLosesNothing: of a file that the preflight check calls ready no contract is
\* hidden behind the text of another title, whatever the registry had before the build.
THEOREM SafeBuilds == Spec => []SafeBuildLosesNothing
  <1>1. WellFormed /\ InsertedIsThere => SafeBuildLosesNothing
    <2> SUFFICES ASSUME WellFormed, InsertedIsThere, build.pc = "inserting",
                        build.next > Len(build.list), IsSafe(build.list),
                        NEW i \in DOMAIN build.list, build.list[i] \notin Blank
                 PROVE  IsThere(build.list[i], row, build.list)
      BY DEF SafeBuildLosesNothing, IsThere
    <2>1. /\ build.list \in Seq(Docs) /\ NoClash(build.list)
          /\ build.next \in Nat /\ Len(build.list) \in Nat
      BY PreflightIsComplete, LenProperties DEF WellFormed
    <2>2. i \in 1..(build.next - 1)
      BY <2>1, LenProperties DEF WellFormed
    <2> QED
      BY <2>1, <2>2 DEF InsertedIsThere
  <1> QED
    BY <1>1, WellFormedInvariant, InsertedInvariant, PTL
=============================================================================
