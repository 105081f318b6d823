------------------------------ MODULE Identity ------------------------------
(***************************************************************************)
(* The identities of contracts (ingest/identity_extraction.py): a process  *)
(* asks Gemini, then Groq, about the preamble of every contract of a file  *)
(* that the cache does not know, a few at a time, and rewrites the cache   *)
(* when all have been answered.  build_index.py reads the cache once, and  *)
(* inserts the contracts with what it knew of them, under the document ids *)
(* that chunker.py makes of their titles.  pre_flight_check.py says of a   *)
(* file whether two of its titles have one id.                             *)
(*                                                                         *)
(* An identity is what the callers distinguish of it: "found" by one of    *)
(* the models, or "failed".  One extraction and one build run at a time,   *)
(* side by side.  A contract is a title with a text.                       *)
(***************************************************************************)
EXTENDS FiniteSets, Naturals, Sequences

CONSTANTS
    Docs,
    Blank,      \* contracts without a text
    TitleOf,
    TextOf,
    Ids,
    IdOf,       \* document_id_for: of titles, a slug cut to sixty characters
    Hashes,
    HashOf,     \* hash_preamble: contracts with one preamble have one hash
    Lists,      \* the JSON files: sequences of contracts
    MaxCalls,   \* MAX_CONCURRENT_CALLS
    None,       \* not in the cache; no row in the table documents
    Torn        \* a cache file that json.load rejects

ASSUME HashAssumption == Blank \subseteq Docs /\ HashOf \in [Docs -> Hashes]
ASSUME TextAssumption ==
    \A d, e \in Docs : TextOf[d] = TextOf[e] =>
        HashOf[d] = HashOf[e] /\ (d \in Blank <=> e \in Blank)
ASSUME IdAssumption == \A d \in Docs : IdOf[TitleOf[d]] \in Ids
ASSUME ListsAssumption == Lists \subseteq Seq(Docs)
ASSUME MaxCallsAssumption == MaxCalls \in Nat \ {0}
Sources == {"found", "failed", "regex_fallback"}
Rows == [contract : Docs \ Blank, source : Sources]

ASSUME NoneAssumption == None \notin Sources \cup Rows

Caches == [Hashes -> {None, "found", "failed"}]

ASSUME TornAssumption == Torn \notin Caches

VARIABLES
    file,    \* identity_cache.json
    ext,     \* the extraction
    slots,   \* its semaphore
    build,   \* build_index
    row,     \* the table documents: per id the contract, and its identity_source
    saved    \* history: what the cache file was when it was last whole

vars == <<file, ext, slots, build, row, saved>>

Unknown == [h \in Hashes |-> None]

\* The extraction of a list that does not run, or not any more.
Stopped(pc, list) == [pc |-> pc, list |-> list, cache |-> Unknown, task |-> <<>>]

NotBuilding == [pc |-> "off", list |-> <<>>, known |-> Unknown, next |-> 1]

Init ==
    /\ file = Unknown /\ saved = Unknown
    /\ ext = Stopped("off", <<>>)
    /\ slots = MaxCalls
    /\ build = NotBuilding
    /\ row = [id \in Ids |-> None]

-----------------------------------------------------------------------------

TaskStates == {"waiting", "cached", "gemini", "groq", "done"}

\* Mutant: a contract that failed is asked about again.
Tasks_AskFailedAgain(list, cache) ==
    [i \in DOMAIN list |->
        IF cache[HashOf[list[i]]] \in {None, "failed"} THEN "waiting" ELSE "cached"]

\* One task for a contract, not for a hash.
Tasks(list, cache) ==
    [i \in DOMAIN list |-> IF cache[HashOf[list[i]]] = None THEN "waiting" ELSE "cached"]

\* extract_all_identities, up to the tasks.  It raises if the file is torn.  (It also
\* does for a list with a contract whose context is missing or null, as StartBuild
\* does, before anything has changed: Lists has none.)
ExtractAll(list) ==
    /\ ext.pc \in {"off", "ended"} /\ file # Torn
    /\ ext' = [pc |-> "asking", list |-> list, cache |-> file, task |-> Tasks(list, file)]
    /\ slots' = MaxCalls
    /\ UNCHANGED <<file, build, row, saved>>

\* The task of the i-th contract goes from one state to the next.
Move(i, from, to) ==
    /\ ext.pc = "asking" /\ i \in DOMAIN ext.task /\ ext.task[i] = from
    /\ ext' = [ext EXCEPT !.task[i] = to]
    /\ UNCHANGED <<file, build, row, saved>>

CallGemini(i) == Move(i, "waiting", "gemini") /\ slots > 0 /\ slots' = slots - 1

\* Mutant: the second model is called without the semaphore.
CallGroq_NoSlot(i) == Move(i, "gemini", "groq") /\ slots' = slots + 1

\* Any error of Gemini, or of the parsing of what it said.
CallGroq(i) == Move(i, "gemini", "groq") /\ UNCHANGED slots

\* Mutant: the slot is only given back when a model answered.
Answer_KeepSlot(i, from, identity) ==
    /\ ext.pc = "asking" /\ i \in DOMAIN ext.task /\ ext.task[i] = from
    /\ ext' = [ext EXCEPT !.task[i] = "done", !.cache[HashOf[ext.list[i]]] = identity]
    /\ slots' = IF identity = "found" THEN slots + 1 ELSE slots
    /\ UNCHANGED <<file, build, row, saved>>

\* extract_one returns, and as_completed hands its identity on: of two contracts
\* with one hash, the later answer stays.
Answer(i, from, identity) ==
    /\ ext.pc = "asking" /\ i \in DOMAIN ext.task /\ ext.task[i] = from
    /\ ext' = [ext EXCEPT !.task[i] = "done", !.cache[HashOf[ext.list[i]]] = identity]
    /\ slots' = slots + 1
    /\ UNCHANGED <<file, build, row, saved>>

ExtractOne(i) ==
    \/ CallGemini(i)
    \/ Answer(i, "gemini", "found")
    \/ CallGroq(i)
    \/ \E identity \in {"found", "failed"} : Answer(i, "groq", identity)

Answered == ext.pc = "asking" /\ \A i \in DOMAIN ext.task : ext.task[i] \in {"cached", "done"}

\* Mutant: nothing is saved when some contract failed.
BeginSave_NoneFailed ==
    /\ Answered
    /\ IF "done" \in {ext.task[i] : i \in DOMAIN ext.task}
             /\ \A i \in DOMAIN ext.list : ext.cache[HashOf[ext.list[i]]] = "found"
       THEN ext' = [ext EXCEPT !.pc = "saving"] /\ file' = Torn
       ELSE ext' = Stopped("ended", ext.list) /\ UNCHANGED file
    /\ UNCHANGED <<slots, build, row, saved>>

\* open(CACHE_PATH, "w") empties the file; with nothing to process there is no save.
BeginSave ==
    /\ Answered
    /\ IF "done" \in {ext.task[i] : i \in DOMAIN ext.task}
       THEN ext' = [ext EXCEPT !.pc = "saving"] /\ file' = Torn
       ELSE ext' = Stopped("ended", ext.list) /\ UNCHANGED file
    /\ UNCHANGED <<slots, build, row, saved>>

EndSave ==
    /\ ext.pc = "saving"
    /\ file' = ext.cache /\ saved' = ext.cache
    /\ ext' = Stopped("ended", ext.list)
    /\ UNCHANGED <<slots, build, row>>

\* The extraction is interrupted; or the file cannot be written.
ExtractionStops ==
    /\ ext.pc \in {"asking", "saving"}
    /\ ext' = Stopped("off", <<>>)
    /\ UNCHANGED <<file, slots, build, row, saved>>

-----------------------------------------------------------------------------

\* build: load_cached_identities, which raises if the file is torn.
StartBuild(list) ==
    /\ build.pc = "off" /\ file # Torn
    /\ build' = [pc |-> "inserting", list |-> list, known |-> file, next |-> 1]
    /\ UNCHANGED <<file, ext, slots, row, saved>>

\* identity_source in build_document_record.
IdentitySource(d) ==
    IF build.known[HashOf[d]] = None THEN "regex_fallback" ELSE build.known[HashOf[d]]

DocumentId(d) == IdOf[TitleOf[d]]

\* insert_or_update_document compares the text with the one that has the row of the
\* id, and not the title: the same text is a no-op, which leaves the row the title it
\* has; another text replaces it.
BuildNext ==
    /\ build.pc = "inserting" /\ build.next <= Len(build.list)
    /\ build' = [build EXCEPT !.next = @ + 1]
    /\ LET d == build.list[build.next]
           id == DocumentId(d)
           isNoop == row[id] # None /\ TextOf[row[id].contract] = TextOf[d]
       IN  row' = IF d \in Blank \/ isNoop THEN row
                  ELSE [row EXCEPT ![id] = [contract |-> d, source |-> IdentitySource(d)]]
    /\ UNCHANGED <<file, ext, slots, saved>>

\* The build is done, or was cut off.
BuildStops ==
    /\ build.pc = "inserting"
    /\ build' = NotBuilding
    /\ UNCHANGED <<file, ext, slots, row, saved>>

-----------------------------------------------------------------------------

Clash(d, e) ==
    {d, e} \cap Blank = {} /\ DocumentId(d) = DocumentId(e) /\ TitleOf[d] # TitleOf[e]

\* Mutant: a title is compared with the one before it only.
CheckTitles_Adjacent(list) == {j \in DOMAIN list : j > 1 /\ Clash(list[j - 1], list[j])}

\* check_titles: the contracts whose id was first claimed under another title.  A
\* contract without a text is passed over.
CheckTitles(list) ==
    {j \in DOMAIN list : \E i \in 1..(j - 1) :
        /\ Clash(list[i], list[j])
        /\ \A k \in 1..(i - 1) :
               list[k] \in Blank \/ DocumentId(list[k]) # DocumentId(list[j])}

\* print_report: "READY TO EMBED".
IsSafe(list) == CheckTitles(list) = {}

-----------------------------------------------------------------------------

Extraction == (\E i \in DOMAIN ext.task : ExtractOne(i)) \/ BeginSave \/ EndSave

Next ==
    \/ \E list \in Lists : ExtractAll(list) \/ StartBuild(list)
    \/ Extraction \/ ExtractionStops
    \/ BuildNext \/ BuildStops

Spec == Init /\ [][Next]_vars /\ WF_vars(Extraction)

-----------------------------------------------------------------------------

TypeOK ==
    /\ file \in Caches \cup {Torn}
    /\ saved \in Caches
    /\ ext.pc \in {"off", "asking", "saving", "ended"}
    /\ ext.list \in Seq(Docs)
    /\ ext.cache \in Caches
    /\ ext.task \in Seq(TaskStates)
    /\ slots \in 0..MaxCalls
    /\ build.pc \in {"off", "inserting"}
    /\ build.list \in Seq(Docs)
    /\ build.known \in Caches
    /\ build.next \in 1..(Len(build.list) + 1)
    /\ row \in [Ids -> Rows \cup {None}]

\* After an extraction that ends the cache knows every contract of its list, so
\* that a build after it has no need of the fallback.
EndedMeansKnown ==
    ext.pc = "ended" =>
        file # Torn /\ \A i \in DOMAIN ext.list : file[HashOf[ext.list[i]]] # None

\* After a build of a file that the preflight check calls ready, every contract of it
\* that has a text is in the registry with a text that the file has under that very
\* title: whatever was built before, none of them is hidden behind another title's text.
\* (The title in the row may be an older one with the same id and the same text.)
SafeBuildLosesNothing ==
    build.pc = "inserting" /\ build.next > Len(build.list) /\ IsSafe(build.list) =>
        \A d \in {build.list[i] : i \in DOMAIN build.list} \ Blank :
            /\ row[DocumentId(d)] # None
            /\ \E j \in DOMAIN build.list :
                   /\ TitleOf[build.list[j]] = TitleOf[d]
                   /\ TextOf[build.list[j]] = TextOf[row[DocumentId(d)].contract]

\* The cache file and the registry implement a table of identities that is only added
\* to ("safe to re-run"), and rows that say what the table says or fall back: however
\* extractions and builds overlap and wherever they are cut off.
Abstract == INSTANCE IdentityTable WITH known <- saved

ImplementsIdentityTable == Abstract!Spec

\* A task that waits for a slot gets one: the extraction comes to an end.
ExtractionEnds == ext.pc = "asking" ~> ext.pc # "asking"
=============================================================================
