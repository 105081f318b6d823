-------------------------- MODULE AnsweringProofs --------------------------
(***************************************************************************)
(* What Answering promises for every number of chunks, claims, attempts    *)
(* and slots.                                                              *)
(***************************************************************************)
EXTENDS Answering, FiniteSetTheorems, TLAPS

-----------------------------------------------------------------------------
(* Types.  That free stays within the slots is a matter of counting: a slot  *)
(* that is not free is held by a claim the judge is being asked about.       *)

Asking == {i \in DOMAIN task : task[i].at = "asking"}

SlotsAreCounted == free \in Nat /\ free + Cardinality(Asking) = Slots

PassesOK ==
    /\ pass \in 1..2 /\ shown \subseteq Chunks /\ failed \in 0..Attempts
    /\ first \in Claims /\ last \in Claims /\ claims \in Claims
    /\ offered \subseteq Chunks

TasksOK == task \in [IF pc = "judge" THEN DOMAIN claims ELSE {} -> Task]

WellFormed ==
    /\ corpus \subseteq Chunks /\ lookup \subseteq Chunks
    /\ pc \in {"retrieve", "preamble", "generate", "verify", "judge"} \cup Ended
    /\ PassesOK /\ TasksOK /\ SlotsAreCounted
    /\ given \subseteq Chunks /\ disturbed \in BOOLEAN

LEMMA NoClaimsOK == NoClaims \in Claims /\ DOMAIN NoClaims = {}
  <1>1. 0 \in 0..MaxClaims
    BY LimitsAssumption
  <1>2. NoClaims \in [1..0 -> Claim]
    BY DEF NoClaims
  <1> QED
    BY <1>1, <1>2 DEF Claims, NoClaims

LEMMA ClaimsType ==
  ASSUME NEW r \in Claims
  PROVE  r \in [DOMAIN r -> Claim] /\ IsFiniteSet(DOMAIN r)
  <1>1. PICK n \in 0..MaxClaims : r \in [1..n -> Claim]
    BY DEF Claims
  <1>2. n \in Int
    BY LimitsAssumption
  <1> QED
    BY <1>1, <1>2, FS_Interval

\* No claim is before the judge.
LEMMA NobodyAsks ==
  ASSUME \A i \in DOMAIN task' : task'[i].at # "asking", free' = Slots
  PROVE  SlotsAreCounted'
  <1>1. Asking' = {}
    BY DEF Asking
  <1> QED
    BY <1>1, FS_EmptySet, LimitsAssumption DEF SlotsAreCounted

LEMMA ForgetAllOK ==
  ASSUME ForgetAll, pc' # "judge"
  PROVE  PassesOK' /\ TasksOK' /\ SlotsAreCounted' /\ given' = {} /\ disturbed' = FALSE
  <1>1. DOMAIN task' = {} /\ task' \in [{} -> Task] /\ free' = Slots
    BY NoClaimsOK DEF ForgetAll, NoClaims
  <1>2. PassesOK'
    BY NoClaimsOK, LimitsAssumption DEF ForgetAll, ForgetPasses, PassesOK
  <1> QED
    BY <1>1, <1>2, NobodyAsks DEF ForgetAll, TasksOK

LEMMA FreeSlots ==
  ASSUME WellFormed, pc # "judge"
  PROVE  free = Slots /\ DOMAIN task = {}
  <1>1. DOMAIN task = {} /\ Asking = {}
    BY DEF WellFormed, TasksOK, Asking
  <1> QED
    BY <1>1, FS_EmptySet, LimitsAssumption DEF WellFormed, SlotsAreCounted

LEMMA AskingIsFinite ==
  ASSUME WellFormed, pc = "judge"
  PROVE  /\ IsFiniteSet(Asking) /\ Cardinality(Asking) \in Nat
         /\ task \in [DOMAIN claims -> Task] /\ claims \in [DOMAIN claims -> Claim]
  <1>1. IsFiniteSet(DOMAIN claims) /\ claims \in [DOMAIN claims -> Claim]
    BY ClaimsType DEF WellFormed, PassesOK
  <1>2. task \in [DOMAIN claims -> Task]
    BY DEF WellFormed, TasksOK
  <1>3. Asking \in SUBSET (DOMAIN claims)
    BY <1>2 DEF Asking
  <1> QED
    BY <1>1, <1>2, <1>3, FS_Subset, FS_CardinalityType

LEMMA InitWellFormed == Init => WellFormed
  <1> SUFFICES ASSUME Init
               PROVE  WellFormed
    OBVIOUS
  <1>1. PassesOK /\ TasksOK
    BY NoClaimsOK, LimitsAssumption DEF Init, PassesOK, TasksOK, NoClaims
  <1>2. SlotsAreCounted
    <2>1. Asking = {}
      BY NoClaimsOK DEF Init, Asking
    <2> QED
      BY <2>1, FS_EmptySet, LimitsAssumption DEF Init, SlotsAreCounted
  <1> QED
    BY <1>1, <1>2 DEF Init, WellFormed, Ended

\* Steps before the judges are at work.
LEMMA PassStepWellFormed ==
  ASSUME WellFormed, PassesOK', pc # "judge",
         pc' \in {"retrieve", "preamble", "generate", "verify"} \cup Ended,
         corpus' = corpus, lookup' = lookup, UNCHANGED judge_vars, disturbed' \in BOOLEAN
  PROVE  WellFormed'
  <1>1. free = Slots /\ DOMAIN task = {} /\ task \in [{} -> Task]
    BY FreeSlots DEF WellFormed, TasksOK
  <1>2. SlotsAreCounted'
    BY <1>1, NobodyAsks DEF judge_vars
  <1>3. TasksOK' /\ pc' # "judge"
    BY <1>1 DEF TasksOK, judge_vars, Ended
  <1> QED
    BY <1>2, <1>3 DEF WellFormed, judge_vars

\* The judge's answer, or its last failure, gives the slot back.
LEMMA SlotGivenBack ==
  ASSUME WellFormed, pc = "judge", NEW i \in DOMAIN task, task[i].at = "asking",
         free' = free + 1, NEW x \in Task, x.at = "done", task' = [task EXCEPT ![i] = x],
         UNCHANGED <<corpus, lookup, pc, pass_vars, claims, given, disturbed>>
  PROVE  WellFormed'
  <1>0. /\ IsFiniteSet(Asking) /\ Cardinality(Asking) \in Nat
        /\ task \in [DOMAIN claims -> Task]
    BY AskingIsFinite
  <1>1. task' \in [DOMAIN claims -> Task]
    BY <1>0
  <1>2. i \in Asking /\ Asking' = Asking \ {i}
    BY <1>0 DEF Asking
  <1>3. Cardinality(Asking') = Cardinality(Asking) - 1
    BY <1>0, <1>2, FS_RemoveElement
  <1>4. SlotsAreCounted'
    BY <1>0, <1>3 DEF WellFormed, SlotsAreCounted
  <1> QED
    BY <1>1, <1>4 DEF WellFormed, PassesOK, TasksOK, pass_vars

LEMMA JudgingWellFormed ==
  ASSUME WellFormed, Judging
  PROVE  WellFormed'
  <1>1. ASSUME NEW i \in DOMAIN task, TakeSlot(i)
        PROVE  WellFormed'
    <2>0. /\ IsFiniteSet(Asking) /\ Cardinality(Asking) \in Nat
          /\ task \in [DOMAIN claims -> Task] /\ pc = "judge"
      BY <1>1, AskingIsFinite DEF TakeSlot
    <2>1. /\ task'[i].at = "asking"
          /\ \A j \in DOMAIN task \ {i} : task'[j] = task[j]
          /\ task' \in [DOMAIN claims -> Task]
      BY <1>1, <2>0 DEF TakeSlot, Task
    <2>2. i \notin Asking /\ Asking' = Asking \cup {i}
      BY <1>1, <2>0, <2>1 DEF TakeSlot, Asking
    <2>3. Cardinality(Asking') = Cardinality(Asking) + 1
      BY <2>0, <2>2, FS_AddElement
    <2>4. SlotsAreCounted'
      BY <1>1, <2>0, <2>3 DEF TakeSlot, WellFormed, SlotsAreCounted
    <2> QED
      BY <1>1, <2>0, <2>1, <2>4 DEF TakeSlot, WellFormed, PassesOK, TasksOK, pass_vars
  <1>2. ASSUME NEW i \in DOMAIN task, JudgeFails(i)
        PROVE  WellFormed'
    <2>0. task \in [DOMAIN claims -> Task] /\ pc = "judge" /\ task[i] \in Task
      BY <1>2, AskingIsFinite DEF JudgeFails
    <2>1. CASE task[i].failed + 1 < Attempts
      <3>1. /\ free' = free /\ task'[i].at = "asking"
            /\ \A j \in DOMAIN task \ {i} : task'[j] = task[j]
            /\ DOMAIN task' = DOMAIN task
        BY <1>2, <2>0, <2>1 DEF JudgeFails, Task
      <3>2. task[i].failed + 1 \in 0..Attempts
        BY <2>0, <2>1, LimitsAssumption DEF Task
      <3>3. task' \in [DOMAIN claims -> Task]
        BY <1>2, <2>0, <2>1, <3>2 DEF JudgeFails, Task
      <3>4. Asking' = Asking
        BY <1>2, <3>1 DEF Asking, JudgeFails
      <3> QED
        BY <1>2, <2>0, <3>1, <3>3, <3>4
           DEF JudgeFails, WellFormed, PassesOK, TasksOK, SlotsAreCounted, pass_vars
    <2>2. CASE ~(task[i].failed + 1 < Attempts)
      <3>1. Done("UNSUPPORTED", Attempts) \in Task /\ Done("UNSUPPORTED", Attempts).at = "done"
        BY LimitsAssumption DEF Done, Task, Verdicts
      <3> QED
        BY <1>2, <2>0, <2>2, <3>1, SlotGivenBack DEF JudgeFails
    <2> QED
      BY <2>1, <2>2
  <1>3. ASSUME NEW i \in DOMAIN task, NEW v \in Verdicts, JudgeReplies(i, v)
        PROVE  WellFormed'
    <2>0. task[i] \in Task /\ pc = "judge"
      BY <1>3, AskingIsFinite DEF JudgeReplies
    <2>1. Done(v, task[i].failed) \in Task /\ Done(v, task[i].failed).at = "done"
      BY <2>0 DEF Done, Task
    <2>2. task' = [task EXCEPT ![i] = Done(v, task[i].failed)]
      BY <1>3 DEF JudgeReplies
    <2> QED
      BY <1>3, <2>0, <2>1, <2>2, SlotGivenBack DEF JudgeReplies
  <1>4. CASE Gathered
    <2>1. pc' = "answered"
      BY <1>4 DEF Gathered
    <2> QED
      BY <1>4, <2>1, ForgetAllOK DEF Gathered, WellFormed, Ended
  <1> QED
    BY <1>1, <1>2, <1>3, <1>4 DEF Judging

LEMMA PreVerdictType ==
  ASSUME NEW c \in Claim
  PROVE  /\ PreLlmVerdict(c) \in Task /\ PreLlmVerdict(c).at \in {"queued", "done"}
         /\ PreLlmVerdict(c).at = "queued" =>
               ~c.empty /\ c.source \in lookup /\ PreLlmVerdict(c) = Queued
         /\ PreLlmVerdict(c).at = "done" =>
               PreLlmVerdict(c).verdict \in {"UNSUPPORTED", "NO_ANSWER"}
  <1>1. Queued \in Task /\ Done("UNSUPPORTED", 0) \in Task /\ Done("NO_ANSWER", 0) \in Task
    BY LimitsAssumption DEF Queued, Done, Task, Verdicts
  <1>2. CASE c.empty
    <2>1. PreLlmVerdict(c) = Done("UNSUPPORTED", 0)
      BY <1>2 DEF PreLlmVerdict
    <2> QED
      BY <1>1, <2>1 DEF Done
  <1>3. CASE ~c.empty /\ c.source = NoChunk
    <2>1. PreLlmVerdict(c) = Done("NO_ANSWER", 0)
      BY <1>3, ChunksAssumption DEF PreLlmVerdict
    <2> QED
      BY <1>1, <2>1 DEF Done
  <1>4. CASE ~c.empty /\ c.source # NoChunk /\ c.source \in Chunks \ lookup
    <2>1. PreLlmVerdict(c) = Done("UNSUPPORTED", 0)
      BY <1>4 DEF PreLlmVerdict
    <2> QED
      BY <1>1, <2>1 DEF Done
  <1>5. CASE ~c.empty /\ c.source # NoChunk /\ c.source \notin Chunks \ lookup
    <2>1. PreLlmVerdict(c) = Queued
      BY <1>5 DEF PreLlmVerdict
    <2> QED
      BY <1>1, <1>5, <2>1 DEF Queued, Claim
  <1> QED
    BY <1>2, <1>3, <1>4, <1>5

LEMMA NextWellFormed == WellFormed /\ [Next]_vars => WellFormed'
  <1> SUFFICES ASSUME WellFormed, [Next]_vars
               PROVE  WellFormed'
    OBVIOUS
  <1> USE DEF pass_vars, judge_vars
  <1>1. CASE SwapIndexes
    BY <1>1 DEF SwapIndexes, Request, WellFormed, PassesOK, TasksOK, SlotsAreCounted, Asking
  <1>2. CASE ReloadLookup
    BY <1>2 DEF ReloadLookup, Request, WellFormed, PassesOK, TasksOK, SlotsAreCounted, Asking
  <1>3. CASE Begin
    <2>1. PassesOK' /\ pc # "judge" /\ disturbed' \in BOOLEAN
      BY <1>3 DEF Begin, WellFormed, PassesOK, Ended
    <2> QED
      BY <1>3, <2>1, PassStepWellFormed DEF Begin
  <1>4. CASE Retrieve
    <2>1. PassesOK'
      BY <1>4 DEF Retrieve, WellFormed, PassesOK
    <2>2. disturbed' \in BOOLEAN
      BY <1>4 DEF Retrieve, WellFormed
    <2> QED
      BY <1>4, <2>1, <2>2, PassStepWellFormed DEF Retrieve
  <1>5. CASE AddPreamble
    <2>1. CASE shown \cup (corpus \cap Preambles) # {}
      <3>1. shown' \subseteq Chunks /\ offered' = offered \cup shown' /\ pc' = "generate"
        BY <1>5, <2>1 DEF AddPreamble, WellFormed, PassesOK
      <3>2. PassesOK' /\ disturbed' \in BOOLEAN
        BY <1>5, <2>1, <3>1 DEF AddPreamble, WellFormed, PassesOK
      <3> QED
        BY <1>5, <2>1, <3>1, <3>2, PassStepWellFormed DEF AddPreamble
    <2>2. CASE shown \cup (corpus \cap Preambles) = {} /\ pass = 1
      <3>1. pc' = "no_result" /\ ForgetAll /\ UNCHANGED <<corpus, lookup>>
        BY <1>5, <2>2 DEF AddPreamble
      <3> QED
        BY <3>1, ForgetAllOK DEF WellFormed, Ended
    <2>3. CASE shown \cup (corpus \cap Preambles) = {} /\ pass # 1
      <3>1. Verify(first) /\ UNCHANGED <<pass_vars, judge_vars, disturbed, corpus, lookup>>
        BY <1>5, <2>3 DEF AddPreamble
      <3>2. PassesOK' /\ pc' = "verify" /\ disturbed' \in BOOLEAN /\ pc # "judge"
        BY <1>5, <3>1 DEF Verify, WellFormed, PassesOK, AddPreamble
      <3> QED
        BY <3>1, <3>2, PassStepWellFormed
    <2> QED
      BY <2>1, <2>2, <2>3
  <1>6. ASSUME NEW r \in Claims, Generate(r)
        PROVE  WellFormed'
    <2>1. first' \in Claims /\ last' \in Claims /\ failed' \in 0..Attempts
      BY <1>6, LimitsAssumption DEF Generate, WellFormed, PassesOK
    <2>2. claims' \in Claims /\ pass' \in 1..2 /\ pc' \in {"verify", "retrieve"}
      BY <1>6, <2>1 DEF Generate, Verify, WellFormed, PassesOK
    <2>3. PassesOK' /\ disturbed' \in BOOLEAN /\ pc # "judge"
      BY <1>6, <2>1, <2>2 DEF Generate, WellFormed, PassesOK
    <2> QED
      BY <1>6, <2>2, <2>3, PassStepWellFormed DEF Generate
  <1>7. CASE GenerateFails
    <2>1. CASE failed + 1 < Attempts
      <3>1. PassesOK'
        BY <1>7, <2>1, LimitsAssumption DEF GenerateFails, WellFormed, PassesOK
      <3>2. disturbed' \in BOOLEAN /\ pc = "generate" /\ pc' = pc
        BY <1>7, <2>1 DEF GenerateFails, WellFormed
      <3> QED
        BY <1>7, <2>1, <3>1, <3>2, PassStepWellFormed DEF GenerateFails
    <2>2. CASE ~(failed + 1 < Attempts)
      <3>1. pc' = "raised" /\ ForgetAll /\ UNCHANGED <<corpus, lookup>>
        BY <1>7, <2>2 DEF GenerateFails
      <3> QED
        BY <3>1, ForgetAllOK DEF WellFormed, Ended
    <2> QED
      BY <2>1, <2>2
  <1>8. CASE Raise
    <2>1. pc' = "raised" /\ ForgetAll /\ UNCHANGED <<corpus, lookup>>
      BY <1>8 DEF Raise
    <2> QED
      BY <2>1, ForgetAllOK DEF WellFormed, Ended
  <1>9. CASE StartVerify
    <2>1. claims \in [DOMAIN claims -> Claim]
      BY ClaimsType DEF WellFormed, PassesOK
    <2>2. /\ task' \in [DOMAIN claims -> Task]
          /\ \A i \in DOMAIN task' : task'[i].at # "asking"
      BY <1>9, <2>1, PreVerdictType DEF StartVerify
    <2>3. free' = Slots
      BY <1>9, FreeSlots DEF StartVerify
    <2>4. PassesOK'
      BY <1>9, NoClaimsOK, LimitsAssumption
         DEF StartVerify, ForgetPasses, WellFormed, PassesOK
    <2>5. TasksOK' /\ SlotsAreCounted'
      BY <1>9, <2>2, <2>3, NobodyAsks DEF StartVerify, TasksOK
    <2> QED
      BY <1>9, <2>4, <2>5 DEF StartVerify, WellFormed
  <1>10. CASE UNCHANGED vars
    BY <1>10 DEF vars, WellFormed, PassesOK, TasksOK, SlotsAreCounted, Asking
  <1> QED
    BY <1>1, <1>2, <1>3, <1>4, <1>5, <1>6, <1>7, <1>8, <1>9, <1>10, JudgingWellFormed DEF Next

\* The locals of an answer are of their kinds, and no slot of the semaphore is lost or
\* given back twice, whatever the judges do.
THEOREM WellFormedInvariant == Spec => []WellFormed
  BY InitWellFormed, NextWellFormed, PTL DEF Spec

\* TypeOK: the type invariant.
THEOREM TypeCorrect == Spec => []TypeOK
  <1>1. ASSUME WellFormed
        PROVE  TypeOK
    <2>1. free \in 0..Slots
      <3>1. CASE pc = "judge"
        BY <1>1, <3>1, AskingIsFinite, LimitsAssumption DEF WellFormed, SlotsAreCounted
      <3>2. CASE pc # "judge"
        BY <1>1, <3>2, FreeSlots, LimitsAssumption
      <3> QED
        BY <3>1, <3>2
    <2> QED
      BY <1>1, <2>1 DEF WellFormed, PassesOK, TasksOK, TypeOK
  <1> QED
    BY <1>1, WellFormedInvariant, PTL

-----------------------------------------------------------------------------
(* The passes.  The second begins with the first still the last, and without *)
(* a source; a request begins with the first.                                *)

SecondPass ==
    pass = 2 =>
        /\ pc \notin Ended
        /\ pc \in {"retrieve", "preamble", "generate"} => last = first /\ NeedsRetry(first)

PassInv == SecondPass /\ RetryNeverWorsens

LEMMA ForgottenPasses == ForgetPasses => pass' = 1
  BY DEF ForgetPasses

LEMMA NextPassInv == WellFormed /\ PassInv /\ [Next]_vars => PassInv'
  <1> SUFFICES ASSUME WellFormed, PassInv, [Next]_vars
               PROVE  PassInv'
    OBVIOUS
  <1> USE DEF PassInv, SecondPass, RetryNeverWorsens, NeedsRetry, Ended, pass_vars
  <1>1. ASSUME UNCHANGED <<pass, first, last, claims>>,
               \/ pc' = pc
               \/ pc = "retrieve" /\ pc' = "preamble"
               \/ pc = "preamble" /\ pc' = "generate"
        PROVE  PassInv'
    BY <1>1 DEF Ended
  <1>2. ASSUME ForgetPasses, pc' \in {"judge"} \cup Ended
        PROVE  PassInv'
    BY <1>2, ForgottenPasses DEF Ended
  <1>3. CASE SwapIndexes \/ ReloadLookup \/ Retrieve \/ UNCHANGED vars
    BY <1>1, <1>3 DEF SwapIndexes, ReloadLookup, Retrieve, Request, vars
  <1>4. CASE Begin
    <2>1. pass = 1 \/ pass = 2
      BY DEF WellFormed, PassesOK
    <2> QED
      BY <1>4, <2>1 DEF Begin, Ended
  <1>5. CASE AddPreamble
    <2>1. CASE shown \cup (corpus \cap Preambles) # {}
      <3>1. /\ UNCHANGED <<pass, first, last, claims>>
            /\ pc = "preamble" /\ pc' = "generate"
        BY <1>5, <2>1 DEF AddPreamble
      <3> QED
        BY <1>1, <3>1
    <2>2. CASE shown \cup (corpus \cap Preambles) = {} /\ pass = 1
      <3>1. pc' = "no_result" /\ ForgetPasses
        BY <1>5, <2>2 DEF AddPreamble, ForgetAll
      <3> QED
        BY <1>2, <3>1 DEF Ended
    <2>3. CASE shown \cup (corpus \cap Preambles) = {} /\ pass # 1
      <3>1. pass = 2 /\ last = first /\ pc = "preamble"
        BY <1>5, <2>3 DEF AddPreamble, WellFormed, PassesOK
      <3> QED
        BY <1>5, <2>3, <3>1 DEF AddPreamble, Verify
    <2> QED
      BY <2>1, <2>2, <2>3
  <1>6. ASSUME NEW r \in Claims, Generate(r)
        PROVE  PassInv'
    <2>1. last' = r /\ first' = (IF pass = 1 THEN r ELSE first) /\ pc = "generate"
      BY <1>6 DEF Generate
    <2>2. CASE Verify(IF NeedsRetry(r) THEN first' ELSE r) /\ UNCHANGED pass
      BY <2>1, <2>2 DEF Verify
    <2>3. CASE pass = 1 /\ NeedsRetry(r) /\ pass' = 2 /\ pc' = "retrieve"
      BY <2>1, <2>3
    <2> QED
      BY <1>6, <2>2, <2>3 DEF Generate
  <1>7. CASE GenerateFails
    <2>1. CASE failed + 1 < Attempts
      <3>1. UNCHANGED <<pc, pass, first, last, claims>> /\ pc = "generate"
        BY <1>7, <2>1 DEF GenerateFails
      <3> QED
        BY <1>1, <3>1
    <2>2. CASE ~(failed + 1 < Attempts)
      <3>1. pc' = "raised" /\ ForgetPasses
        BY <1>7, <2>2 DEF GenerateFails, ForgetAll
      <3> QED
        BY <1>2, <3>1 DEF Ended
    <2> QED
      BY <2>1, <2>2
  <1>8. CASE Raise \/ StartVerify \/ Gathered
    BY <1>2, <1>8 DEF Raise, StartVerify, Gathered, ForgetAll, Ended
  <1>9. ASSUME NEW i \in DOMAIN task,
               TakeSlot(i) \/ JudgeFails(i) \/ \E v \in Verdicts : JudgeReplies(i, v)
        PROVE  PassInv'
    BY <1>1, <1>9 DEF TakeSlot, JudgeFails, JudgeReplies
  <1> QED
    BY <1>3, <1>4, <1>5, <1>6, <1>7, <1>8, <1>9 DEF Next, Judging

\* What generate_with_bounded_retry knows of its first pass while the second runs.
THEOREM PassInvariant == Spec => []PassInv
  <1>1. Init => PassInv
    BY DEF Init, PassInv, SecondPass, RetryNeverWorsens
  <1> QED
    BY <1>1, WellFormedInvariant, NextPassInv, PTL DEF Spec

\* RetryNeverWorsens: what is verified is a pass, whole, and lacks a source only when every
\* pass did.
THEOREM RetriesNeverWorsen == Spec => []RetryNeverWorsens
  <1>1. PassInv => RetryNeverWorsens
    BY DEF PassInv
  <1> QED
    BY <1>1, PassInvariant, PTL

-----------------------------------------------------------------------------
(* The citations.  While no reload disturbs an answer, the corpus it is      *)
(* generated from and the lookup it will be verified against stay the same.  *)

Undisturbed ==
    /\ pc \in Ended => offered = {}
    /\ ~disturbed /\ pc \in {"retrieve", "preamble", "generate", "verify"} =>
          /\ lookup = corpus /\ offered \subseteq corpus
          /\ pc = "preamble" => shown \subseteq corpus
    /\ ~disturbed /\ pc = "judge" => offered \subseteq given

LEMMA NextUndisturbed == WellFormed /\ Undisturbed /\ [Next]_vars => Undisturbed'
  <1> SUFFICES ASSUME WellFormed, Undisturbed, [Next]_vars
               PROVE  Undisturbed'
    OBVIOUS
  <1> USE DEF Undisturbed, Ended, pass_vars, judge_vars
  <1>1. ASSUME ForgetAll, pc' \in Ended
        PROVE  Undisturbed'
    BY <1>1 DEF ForgetAll
  <1>2. CASE SwapIndexes \/ ReloadLookup
    BY <1>2 DEF SwapIndexes, ReloadLookup, Request, WellFormed
  <1>3. CASE Begin \/ Retrieve \/ StartVerify
    BY <1>3 DEF Begin, Retrieve, StartVerify
  <1>4. CASE AddPreamble
    <2>1. CASE shown \cup (corpus \cap Preambles) # {}
      <3>1. shown' \subseteq shown \cup corpus /\ offered' = offered \cup shown'
        BY <1>4, <2>1 DEF AddPreamble
      <3>2. /\ pc = "preamble" /\ pc' = "generate"
            /\ UNCHANGED <<corpus, lookup, disturbed>>
        BY <1>4, <2>1 DEF AddPreamble
      <3> QED
        BY <3>1, <3>2
    <2>2. CASE shown \cup (corpus \cap Preambles) = {}
      BY <1>1, <1>4, <2>2 DEF AddPreamble, Verify
    <2> QED
      BY <2>1, <2>2
  <1>5. ASSUME NEW r \in Claims, Generate(r)
        PROVE  Undisturbed'
    BY <1>5 DEF Generate, Verify
  <1>6. CASE GenerateFails
    <2>1. \/ UNCHANGED <<pc, corpus, lookup, offered, disturbed>> /\ pc = "generate"
          \/ ForgetAll /\ pc' = "raised"
      BY <1>6 DEF GenerateFails
    <2> QED
      BY <1>1, <2>1
  <1>7. CASE Raise \/ Gathered
    BY <1>1, <1>7 DEF Raise, Gathered
  <1>8. ASSUME NEW i \in DOMAIN task,
               TakeSlot(i) \/ JudgeFails(i) \/ \E v \in Verdicts : JudgeReplies(i, v)
        PROVE  Undisturbed'
    BY <1>8 DEF TakeSlot, JudgeFails, JudgeReplies
  <1>9. CASE UNCHANGED vars
    BY <1>9 DEF vars
  <1> QED
    BY <1>2, <1>3, <1>4, <1>5, <1>6, <1>7, <1>8, <1>9 DEF Next, Judging

\* CitationsAreKnown: without a reload, a claim that cites what the generator was given is
\* found in the lookup.
THEOREM CitationsAreFound == Spec => []CitationsAreKnown
  <1>1. Init => Undisturbed
    BY DEF Init, Undisturbed, Ended
  <1>2. Undisturbed => CitationsAreKnown
    BY DEF Undisturbed, CitationsAreKnown
  <1> QED
    BY <1>1, <1>2, WellFormedInvariant, NextUndisturbed, PTL DEF Spec

-----------------------------------------------------------------------------
(* The verdicts.  A claim that waits for the judge has a text and a chunk    *)
(* that is known, and an attempt left.                                       *)

Judged(c, t, known) ==
    t.at # "done" \/ t.verdict \in {"SUPPORTED", "PARTIAL"} =>
        ~c.empty /\ c.source \in known /\ t.failed < Attempts

VerdictsAreEarned == pc = "judge" => \A i \in DOMAIN task : Judged(claims[i], task[i], given)

LEMMA QueuedIsEarned ==
  ASSUME NEW c \in Claim
  PROVE  Judged(c, PreLlmVerdict(c), lookup)
  <1>1. CASE PreLlmVerdict(c).at = "queued"
    BY <1>1, PreVerdictType, LimitsAssumption DEF Judged, Queued
  <1>2. CASE PreLlmVerdict(c).at = "done"
    BY <1>2, PreVerdictType DEF Judged
  <1> QED
    BY <1>1, <1>2, PreVerdictType

LEMMA NextEarned == WellFormed /\ VerdictsAreEarned /\ [Next]_vars => VerdictsAreEarned'
  <1> SUFFICES ASSUME WellFormed, VerdictsAreEarned, Next \/ UNCHANGED vars, pc' = "judge",
                      NEW j \in DOMAIN task'
               PROVE  Judged(claims'[j], task'[j], given')
    BY DEF VerdictsAreEarned
  <1>1. CASE StartVerify
    <2>1. claims[j] \in Claim /\ task'[j] = PreLlmVerdict(claims[j])
      BY <1>1, ClaimsType DEF StartVerify, WellFormed, PassesOK
    <2> QED
      BY <1>1, <2>1, QueuedIsEarned DEF StartVerify
  <1>2. ASSUME NEW i \in DOMAIN task,
               TakeSlot(i) \/ JudgeFails(i) \/ \E v \in Verdicts : JudgeReplies(i, v)
        PROVE  Judged(claims'[j], task'[j], given')
    <2>1. /\ pc = "judge" /\ claims' = claims /\ given' = given /\ DOMAIN task' = DOMAIN task
          /\ task[i].at # "done" /\ \A k \in DOMAIN task \ {i} : task'[k] = task[k]
      BY <1>2 DEF TakeSlot, JudgeFails, JudgeReplies
    <2>2. task[i] \in Task /\ task \in [DOMAIN task -> Task] /\ Judged(claims[i], task[i], given)
      BY <2>1 DEF WellFormed, TasksOK, VerdictsAreEarned
    <2>3. /\ ~claims[i].empty /\ claims[i].source \in given /\ task[i].failed < Attempts
      BY <2>1, <2>2 DEF Judged
    <2>4. task'[i].failed < Attempts \/ task'[i] = Done("UNSUPPORTED", Attempts)
      <3>1. CASE TakeSlot(i)
        BY <2>2, <2>3, <3>1 DEF TakeSlot, Task
      <3>2. CASE JudgeFails(i)
        BY <2>2, <2>3, <3>2 DEF JudgeFails, Task
      <3>3. ASSUME NEW v \in Verdicts, JudgeReplies(i, v)
            PROVE  task'[i].failed < Attempts
        <4>1. task'[i] = Done(v, task[i].failed)
          BY <2>2, <3>3 DEF JudgeReplies
        <4> QED
          BY <2>3, <4>1 DEF Done
      <3> QED
        BY <1>2, <3>1, <3>2, <3>3
    <2>5. Judged(claims[i], task'[i], given)
      BY <2>3, <2>4 DEF Judged, Done
    <2> QED
      BY <2>1, <2>5 DEF VerdictsAreEarned
  <1>3. CASE SwapIndexes \/ ReloadLookup \/ UNCHANGED vars
    BY <1>3 DEF SwapIndexes, ReloadLookup, Request, judge_vars, vars, VerdictsAreEarned
  <1>4. CASE Gathered
    BY <1>4 DEF Gathered
  <1>5. CASE Begin \/ Retrieve \/ AddPreamble \/ GenerateFails \/ Raise
    BY <1>5 DEF Begin, Retrieve, AddPreamble, GenerateFails, Raise, Verify
  <1>6. CASE \E r \in Claims : Generate(r)
    BY <1>6 DEF Generate, Verify
  <1> QED
    BY <1>1, <1>2, <1>3, <1>4, <1>5, <1>6 DEF Next, Judging

\* SupportIsEarned: only the judge supports a claim, one with a text and a known chunk.
THEOREM SupportsAreEarned == Spec => []SupportIsEarned
  <1>1. Init => VerdictsAreEarned
    BY DEF Init, VerdictsAreEarned
  <1>2. WellFormed /\ VerdictsAreEarned => SupportIsEarned
    BY DEF WellFormed, TasksOK, VerdictsAreEarned, Judged, SupportIsEarned
  <1> QED
    BY <1>1, <1>2, WellFormedInvariant, NextEarned, PTL DEF Spec
=============================================================================
