----------------------------- MODULE Answering -----------------------------
(***************************************************************************)
(* One answer of pipeline.ask: answer_with_retry (retry_layer.py, over     *)
(* generate_answer), then _verify (verification/verify.py), for one        *)
(* document, while the watcher of the worker may reload what retrieval     *)
(* reads (corpus) and what verification reads (lookup).                    *)
(*                                                                         *)
(* The models are the environment: a generation returns any claims, a      *)
(* judge any verdict its schema admits, and both may fail.  The judges of  *)
(* the claims of an answer run at once on one event loop; they interleave  *)
(* where they wait for a slot of the semaphore or for the judge.           *)
(***************************************************************************)
EXTENDS FiniteSets, Naturals

CONSTANTS
    Chunks,       \* ids of the chunks that the document has, in any of its versions
    Preambles,    \* those with is_preamble
    NoChunk,      \* None: no source_chunk_id
    Attempts,     \* max_retries + 1, of a generation and of a judge
    Slots,        \* MAX_CONCURRENT_VERIFICATIONS
    MaxClaims     \* bound: claims of one generation

ASSUME ChunksAssumption == Preambles \subseteq Chunks /\ NoChunk \notin Chunks
ASSUME LimitsAssumption ==
    Attempts \in Nat \ {0} /\ Slots \in Nat \ {0} /\ MaxClaims \in Nat

VARIABLES
    corpus,      \* chunks of the document in the indexes of the worker
    lookup,      \* Sessions.chunk_lookup, of the document
    pc,
    pass,        \* 1, and 2 once the question was reformulated
    shown,       \* the chunks a generation is given
    failed,      \* attempts of this generation that failed
    first, last, \* the claims of the first pass, and of the last
    claims,      \* the claims that are verified
    given,       \* the lookup they are verified against
    free,        \* slots of the semaphore
    task,        \* the verification of each claim
    offered,     \* history: all chunks the generations were given
    disturbed    \* history: a reload was under way while this answer was made

pass_vars == <<pass, shown, failed, first, last, offered>>
judge_vars == <<given, free, task>>
vars == <<corpus, lookup, pc, pass_vars, claims, judge_vars, disturbed>>

Verdicts == {"SUPPORTED", "PARTIAL", "UNSUPPORTED", "NO_ANSWER"}

\* An empty text says nothing, whatever it cites.
Claim == [empty: BOOLEAN, source: Chunks \cup {NoChunk}]

Claims == UNION {[1..n -> Claim] : n \in 0..MaxClaims}

NoClaims == [i \in {} |-> NoChunk]

Task == [at: {"queued", "asking", "done"}, failed: 0..Attempts,
         verdict: Verdicts \cup {"none"}]

Ended == {"answered", "no_result", "raised"}

\* What a step that ends the request, or a part of it, forgets.
ForgetPasses ==
    /\ pass' = 1 /\ shown' = {} /\ failed' = 0
    /\ first' = NoClaims /\ last' = NoClaims

ForgetAll ==
    /\ ForgetPasses
    /\ claims' = NoClaims /\ given' = {} /\ free' = Slots /\ task' = NoClaims
    /\ offered' = {} /\ disturbed' = FALSE

Init ==
    /\ corpus \in SUBSET Chunks
    /\ lookup = corpus
    /\ pc = "no_result"
    /\ pass = 1 /\ shown = {} /\ failed = 0
    /\ first = NoClaims /\ last = NoClaims /\ claims = NoClaims
    /\ given = {} /\ free = Slots /\ task = NoClaims
    /\ offered = {} /\ disturbed = FALSE

-----------------------------------------------------------------------------
(* The watcher, on a thread of its own.                                     *)

Request == <<pc, pass_vars, claims, judge_vars>>

\* reload_index_from_disk ...
SwapIndexes ==
    /\ \E c \in SUBSET Chunks : c # corpus /\ corpus' = c
    /\ disturbed' = (pc \notin Ended)
    /\ UNCHANGED <<lookup, Request>>

\* ... and Sessions.reload, at once or at a later poll.
ReloadLookup ==
    /\ lookup # corpus
    /\ lookup' = corpus
    /\ UNCHANGED <<corpus, disturbed, Request>>

-----------------------------------------------------------------------------
(* generate_with_bounded_retry.                                             *)

Begin ==
    /\ pc \in Ended
    /\ pc' = "retrieve"
    /\ disturbed' = (lookup # corpus)
    /\ UNCHANGED <<corpus, lookup, pass_vars, claims, judge_vars>>

\* Mutant: hits that the corpus does not have are not skipped.
Retrieve_AnyHit ==
    /\ pc = "retrieve"
    /\ shown' \in SUBSET Chunks
    /\ pc' = "preamble"
    /\ UNCHANGED <<corpus, lookup, pass, failed, first, last, offered, claims,
                   judge_vars, disturbed>>

\* The hits of the document among the best chunks.
Retrieve ==
    /\ pc = "retrieve"
    /\ shown' \in SUBSET corpus
    /\ pc' = "preamble"
    /\ UNCHANGED <<corpus, lookup, pass, failed, first, last, offered, claims,
                   judge_vars, disturbed>>

NeedsRetry(r) == \E i \in DOMAIN r : r[i].source = NoChunk

Verify(r) == pc' = "verify" /\ claims' = r

\* get_scoped_context adds a preamble of the corpus of this moment, and returns
\* None when there is nothing to show.
AddPreamble ==
    /\ pc = "preamble"
    /\ \/ /\ shown \cup (corpus \cap Preambles) # {}
          /\ IF corpus \cap Preambles = {} THEN UNCHANGED shown
             ELSE \E p \in corpus \cap Preambles : shown' = shown \cup {p}
          /\ offered' = offered \cup shown'
          /\ pc' = "generate"
          /\ UNCHANGED <<pass, failed, first, last, claims, judge_vars, disturbed>>
       \/ /\ shown \cup (corpus \cap Preambles) = {}
          /\ IF pass = 1 THEN pc' = "no_result" /\ ForgetAll
             ELSE Verify(first) /\ UNCHANGED <<pass_vars, judge_vars, disturbed>>
    /\ UNCHANGED <<corpus, lookup>>

\* Mutant: the branches of the last test are swapped.
Generate_FirstWins(r) ==
    /\ pc = "generate"
    /\ last' = r /\ failed' = 0
    /\ first' = IF pass = 1 THEN r ELSE first
    /\ \/ Verify(IF NeedsRetry(r) THEN r ELSE first') /\ UNCHANGED pass
       \/ /\ pass = 1 /\ NeedsRetry(r)
          /\ pass' = 2 /\ pc' = "retrieve" /\ UNCHANGED claims
    /\ UNCHANGED <<corpus, lookup, shown, offered, judge_vars, disturbed>>

\* A generation that returns the claims r.  A first pass without a source is made
\* again when the question has a pattern for reformulate_query.
Generate(r) ==
    /\ pc = "generate"
    /\ last' = r /\ failed' = 0
    /\ first' = IF pass = 1 THEN r ELSE first
    /\ \/ Verify(IF NeedsRetry(r) THEN first' ELSE r) /\ UNCHANGED pass
       \/ /\ pass = 1 /\ NeedsRetry(r)
          /\ pass' = 2 /\ pc' = "retrieve" /\ UNCHANGED claims
    /\ UNCHANGED <<corpus, lookup, shown, offered, judge_vars, disturbed>>

\* The model does not answer, or not with the JSON that was asked for.
GenerateFails ==
    /\ pc = "generate"
    /\ IF failed + 1 < Attempts
       THEN /\ failed' = failed + 1
            /\ UNCHANGED <<pc, pass, shown, first, last, offered, claims, judge_vars, disturbed>>
       ELSE pc' = "raised" /\ ForgetAll
    /\ UNCHANGED <<corpus, lookup>>

\* Retrieval fails, or a reply of a model has no text (parse_llm_json raises what
\* its callers do not catch): a first pass that succeeded is lost, and so are the
\* verdicts of the other judges.
Raise ==
    /\ pc \in {"retrieve", "generate", "verify", "judge"}
    /\ pc' = "raised" /\ ForgetAll
    /\ UNCHANGED <<corpus, lookup>>

-----------------------------------------------------------------------------
(* verify_all_claims.                                                       *)

Queued == [at |-> "queued", failed |-> 0, verdict |-> "none"]

Done(v, n) == [at |-> "done", failed |-> n, verdict |-> v]

\* Mutant: a claim whose citation is unknown is let through.
PreLlmVerdict_Trusting(c) ==
    CASE c.empty -> Done("UNSUPPORTED", 0)
      [] ~c.empty /\ c.source = NoChunk -> Done("NO_ANSWER", 0)
      [] ~c.empty /\ c.source \in Chunks \ lookup -> Done("PARTIAL", 0)
      [] OTHER -> Queued

\* _pre_llm_verdict: what needs no judge.
PreLlmVerdict(c) ==
    CASE c.empty -> Done("UNSUPPORTED", 0)
      [] ~c.empty /\ c.source = NoChunk -> Done("NO_ANSWER", 0)
      [] ~c.empty /\ c.source \in Chunks \ lookup -> Done("UNSUPPORTED", 0)
      [] OTHER -> Queued

\* Every claim is checked against the lookup of this moment.
StartVerify ==
    /\ pc = "verify"
    /\ pc' = "judge"
    /\ given' = lookup
    /\ task' = [i \in DOMAIN claims |-> PreLlmVerdict(claims[i])]
    /\ ForgetPasses
    /\ UNCHANGED <<corpus, lookup, offered, claims, free, disturbed>>

TakeSlot(i) ==
    /\ pc = "judge" /\ task[i].at = "queued" /\ free > 0
    /\ free' = free - 1
    /\ task' = [task EXCEPT ![i].at = "asking"]
    /\ UNCHANGED <<corpus, lookup, pc, pass_vars, claims, given, disturbed>>

\* Mutant: the slot of an answered claim is not given back.
JudgeReplies_KeepsSlot(i, v) ==
    /\ pc = "judge" /\ task[i].at = "asking"
    /\ task' = [task EXCEPT ![i] = Done(v, @.failed)]
    /\ UNCHANGED <<corpus, lookup, pc, pass_vars, claims, given, free, disturbed>>

\* JudgeVerdict admits every Verdict.
JudgeReplies(i, v) ==
    /\ pc = "judge" /\ task[i].at = "asking"
    /\ task' = [task EXCEPT ![i] = Done(v, @.failed)]
    /\ free' = free + 1
    /\ UNCHANGED <<corpus, lookup, pc, pass_vars, claims, given, disturbed>>

\* Mutant: a judge that never answered leaves the claim without a verdict.
JudgeFails_NoVerdict(i) ==
    /\ pc = "judge" /\ task[i].at = "asking"
    /\ IF task[i].failed + 1 < Attempts
       THEN task' = [task EXCEPT ![i].failed = @ + 1] /\ UNCHANGED free
       ELSE task' = [task EXCEPT ![i] = Done("FAILED", Attempts)] /\ free' = free + 1
    /\ UNCHANGED <<corpus, lookup, pc, pass_vars, claims, given, disturbed>>

\* A failed attempt is made again in the same slot; the last one fails safe.
JudgeFails(i) ==
    /\ pc = "judge" /\ task[i].at = "asking"
    /\ IF task[i].failed + 1 < Attempts
       THEN task' = [task EXCEPT ![i].failed = @ + 1] /\ UNCHANGED free
       ELSE task' = [task EXCEPT ![i] = Done("UNSUPPORTED", Attempts)] /\ free' = free + 1
    /\ UNCHANGED <<corpus, lookup, pc, pass_vars, claims, given, disturbed>>

Gathered ==
    /\ pc = "judge" /\ \A i \in DOMAIN task : task[i].at = "done"
    /\ pc' = "answered" /\ ForgetAll
    /\ UNCHANGED <<corpus, lookup>>

-----------------------------------------------------------------------------

Judging ==
    \/ \E i \in DOMAIN task :
          TakeSlot(i) \/ JudgeFails(i) \/ \E v \in Verdicts : JudgeReplies(i, v)
    \/ Gathered

Next ==
    \/ SwapIndexes \/ ReloadLookup
    \/ Begin \/ Retrieve \/ AddPreamble
    \/ \E r \in Claims : Generate(r)
    \/ GenerateFails \/ Raise \/ StartVerify
    \/ Judging

\* The event loop runs the judges, and the client of the judge gives up a call that
\* takes too long.  (The client of the local generator never does.)
Spec == Init /\ [][Next]_vars /\ WF_vars(Judging)

-----------------------------------------------------------------------------

TypeOK ==
    /\ corpus \subseteq Chunks /\ lookup \subseteq Chunks
    /\ pc \in {"retrieve", "preamble", "generate", "verify", "judge"} \cup Ended
    /\ pass \in 1..2 /\ shown \subseteq Chunks /\ failed \in 0..Attempts
    /\ {first, last, claims} \subseteq Claims
    /\ given \subseteq Chunks /\ free \in 0..Slots
    /\ DOMAIN task = IF pc = "judge" THEN DOMAIN claims ELSE {}
    /\ \A i \in DOMAIN task : task[i] \in Task
    /\ offered \subseteq Chunks /\ disturbed \in BOOLEAN

\* What is verified is one of the passes, whole, and it lacks a source only when
\* every pass did: the second pass never replaces a better first, and never mixes
\* with it.
RetryNeverWorsens ==
    pc = "verify" =>
        /\ claims \in {first, last}
        /\ NeedsRetry(claims) => NeedsRetry(first) /\ NeedsRetry(last)

\* A claim that cites a chunk which a generation of this answer was given is put
\* to the judge: "not found in corpus" is said of it only when a reload was under
\* way while the answer was made.
CitationsAreKnown ==
    (pc = "judge" /\ ~disturbed) =>
        \A i \in DOMAIN claims : claims[i].source \in offered =>
            claims[i].source \in given

\* Only a judge makes a claim SUPPORTED or PARTIAL: one that has a text and cites
\* a chunk of the lookup, before the judge used up its attempts.
SupportIsEarned ==
    \A i \in DOMAIN task : task[i].verdict \in {"SUPPORTED", "PARTIAL"} =>
        /\ ~claims[i].empty
        /\ claims[i].source \in given
        /\ task[i].failed < Attempts

\* A verification that has begun ends, however few the slots and however often the
\* judge fails: no claim waits for a slot for ever.
VerificationEnds == pc = "judge" ~> pc \in Ended
=============================================================================
