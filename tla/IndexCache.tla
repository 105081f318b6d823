----------------------------- MODULE IndexCache -----------------------------
(***************************************************************************)
(* How a worker keeps up with the indexes that the ingestion process       *)
(* writes: the files, the counter index:version in Redis, the watcher of   *)
(* each worker (retrieval/cache_watcher.py) and what it reloads            *)
(* (retrieve.reload_index_from_disk, then Sessions.reload).                *)
(*                                                                         *)
(* What a file holds is the number of the save that wrote it, whatever the *)
(* documents.  A file that is being written is Broken: reading it raises.  *)
(* Ingestion says what a save is made of and when it fails.                *)
(***************************************************************************)
EXTENDS FiniteSets, Naturals

CONSTANTS
    Workers,
    Broken,     \* a file that is cut short
    None,
    MaxSaves    \* bound: saves of the ingestion process

ASSUME MaxSavesAssumption == MaxSaves \in Nat
ASSUME MarksAssumption == \A n \in 0..MaxSaves : n # Broken /\ n # None

VARIABLES
    disk,       \* vectors (index.faiss), docstore (index.pkl), corpus (bm25_corpus.pkl)
    writer,     \* the ingestion process: the file it writes, and its last save
    version,    \* index:version
    lost,       \* history: by how much index:version has been set back in all
    announced,  \* history: the save that the n-th bump announced
    watcher,    \* the watcher of each worker, and the locals of its reload
    cache,      \* what each worker serves from
    seen,       \* _last_seen_version
    query,      \* the BM25Okapi that a query of the worker has built and not stored yet
    reloaded    \* history: workers that have reloaded since they started

vars == <<disk, writer, version, lost, announced, watcher, cache, seen, query, reloaded>>

Saves == 0..MaxSaves

Files == {"vectors", "docstore", "corpus"}

Writer == [pc: Files \cup {"idle", "bump"}, open: BOOLEAN, save: Saves]

\* A worker that boots loads the files as a reload does, with nothing to serve yet.
Watcher == [pc: Files \cup {"down", "sleep", "swap", "swap_bm25", "swap_okapi", "sessions"},
            boots: BOOLEAN, target: Saves, read: [Files -> Saves]]

\* okapi is _bm25_cache, made of a corpus by the first query or by a reload;
\* lookup is Sessions.chunk_lookup, made of the corpus in memory.
Cache == [files: [Files -> Saves], okapi: Saves \cup {None}, lookup: Saves]

Nothing == [f \in Files |-> 0]

Down == [pc |-> "down", boots |-> FALSE, target |-> 0, read |-> Nothing]

Empty == [files |-> Nothing, okapi |-> None, lookup |-> 0]

\* The order in which a save writes the files and a reload reads them.
After(f) == CASE f = "vectors" -> "docstore" [] f = "docstore" -> "corpus" [] f = "corpus" -> "end"

\* An index is on disk, and no worker is up.
Init ==
    /\ disk = [f \in Files |-> 0]
    /\ writer = [pc |-> "idle", open |-> FALSE, save |-> 0]
    /\ version = 0 /\ lost = 0
    /\ announced = [n \in Saves |-> 0]
    /\ watcher = [w \in Workers |-> Down]
    /\ cache = [w \in Workers |-> Empty]
    /\ seen = [w \in Workers |-> None]
    /\ query = [w \in Workers |-> None]
    /\ reloaded = {}

-----------------------------------------------------------------------------
(* The ingestion process.                                                   *)

ingestion == <<disk, writer, version, lost, announced>>
serving == <<watcher, cache, seen, query, reloaded>>

BeginSave ==
    /\ writer.pc = "idle" /\ writer.save < MaxSaves
    /\ writer' = [pc |-> "vectors", open |-> FALSE, save |-> writer.save + 1]
    /\ UNCHANGED <<disk, version, lost, announced, serving>>

Open(f) ==
    /\ writer.pc = f /\ ~writer.open
    /\ disk' = [disk EXCEPT ![f] = Broken]
    /\ writer' = [writer EXCEPT !.open = TRUE]
    /\ UNCHANGED <<version, lost, announced, serving>>

Close(f) ==
    /\ writer.pc = f /\ writer.open
    /\ disk' = [disk EXCEPT ![f] = writer.save]
    /\ writer' = [writer EXCEPT !.open = FALSE,
                                !.pc = IF f = "corpus" THEN "bump" ELSE After(f)]
    /\ UNCHANGED <<version, lost, announced, serving>>

\* bump_index_version.
Bump ==
    /\ writer.pc = "bump"
    /\ version' = version + 1
    /\ announced' = [announced EXCEPT ![version + lost + 1] = writer.save]
    /\ writer' = [writer EXCEPT !.pc = "idle"]
    /\ UNCHANGED <<disk, lost, serving>>

\* A call that raises, or the end of the process: the files stay as they are.
Abandon ==
    /\ writer.pc # "idle"
    /\ writer' = [writer EXCEPT !.pc = "idle", !.open = FALSE]
    /\ UNCHANGED <<disk, version, lost, announced, serving>>

\* The key index:version is evicted, and reads as 0; or a failover of Redis brings an
\* older value back.
LoseVersion ==
    \E v \in 0..(version - 1) :
        /\ version' = v /\ lost' = lost + version - v
        /\ UNCHANGED <<disk, writer, announced, serving>>

-----------------------------------------------------------------------------
(* A worker.                                                                *)

Goto(w, step) == watcher' = [watcher EXCEPT ![w].pc = step]

\* What raises is caught and tried again at the next poll; a worker that boots ends.
Raise(w) ==
    watcher' = [watcher EXCEPT ![w] = IF @.boots THEN Down ELSE [Down EXCEPT !.pc = "sleep"]]

Boot(w) ==
    /\ watcher[w].pc = "down"
    /\ watcher' = [watcher EXCEPT ![w].pc = "vectors", ![w].boots = TRUE]
    /\ UNCHANGED <<ingestion, cache, seen, query, reloaded>>

\* Mutant: the version is marked as seen before the reload.
Poll_MarksFirst(w) ==
    /\ watcher[w].pc = "sleep"
    /\ seen' = [seen EXCEPT ![w] = version]
    /\ IF seen[w] # None /\ version > seen[w]
       THEN watcher' = [watcher EXCEPT ![w].pc = "vectors", ![w].target = version]
       ELSE UNCHANGED watcher
    /\ UNCHANGED <<ingestion, cache, query, reloaded>>

\* Mutant: a reload for the next version only.
Poll_NextOnly(w) ==
    /\ watcher[w].pc = "sleep"
    /\ IF seen[w] = None
       THEN seen' = [seen EXCEPT ![w] = version] /\ UNCHANGED watcher
       ELSE /\ version = seen[w] + 1
            /\ watcher' = [watcher EXCEPT ![w].pc = "vectors", ![w].target = version]
            /\ UNCHANGED seen
    /\ UNCHANGED <<ingestion, cache, query, reloaded>>

\* GET index:version; one that raises is tried again.
Poll(w) ==
    /\ watcher[w].pc = "sleep"
    /\ IF seen[w] = None
       THEN seen' = [seen EXCEPT ![w] = version] /\ UNCHANGED watcher
       ELSE /\ version > seen[w]
            /\ watcher' = [watcher EXCEPT ![w].pc = "vectors", ![w].target = version]
            /\ UNCHANGED seen
    /\ UNCHANGED <<ingestion, cache, query, reloaded>>

\* Mutant: what is read is not validated.
Read_Anything(w, f) ==
    /\ watcher[w].pc = f
    /\ watcher' = [watcher EXCEPT ![w].read[f] = disk[f],
                                  ![w].pc = IF f = "corpus" THEN "swap" ELSE After(f)]
    /\ UNCHANGED <<ingestion, cache, seen, query, reloaded>>

\* FaissIndex(...) reads two files, Bm25Index(...) the third.
Read(w, f) ==
    /\ watcher[w].pc = f /\ disk[f] # Broken
    /\ watcher' = [watcher EXCEPT ![w].read[f] = disk[f],
                                  ![w].pc = IF f = "corpus" THEN "swap" ELSE After(f)]
    /\ UNCHANGED <<ingestion, cache, seen, query, reloaded>>

ReadRaises(w, f) ==
    /\ watcher[w].pc = f /\ disk[f] = Broken
    /\ Raise(w)
    /\ UNCHANGED <<ingestion, cache, seen, query, reloaded>>

(* The swap of reload_index_from_disk is three assignments under a lock, which no     *)
(* query takes.                                                                       *)

SwapFaiss(w) ==
    /\ watcher[w].pc = "swap"
    /\ cache' = [cache EXCEPT ![w].files["vectors"] = watcher[w].read["vectors"],
                              ![w].files["docstore"] = watcher[w].read["docstore"]]
    /\ Goto(w, "swap_bm25")
    /\ UNCHANGED <<ingestion, seen, query, reloaded>>

\* A worker that boots makes no BM25Okapi yet.
SwapBm25(w) ==
    /\ watcher[w].pc = "swap_bm25"
    /\ cache' = [cache EXCEPT ![w].files["corpus"] = watcher[w].read["corpus"]]
    /\ Goto(w, IF watcher[w].boots THEN "sessions" ELSE "swap_okapi")
    /\ UNCHANGED <<ingestion, seen, query, reloaded>>

\* Mutant: the sessions are not reloaded with the indexes.
SwapOkapi_Alone(w) ==
    /\ watcher[w].pc = "swap_okapi"
    /\ cache' = [cache EXCEPT ![w].okapi = watcher[w].read["corpus"]]
    /\ seen' = [seen EXCEPT ![w] = watcher[w].target]
    /\ Raise(w)
    /\ UNCHANGED <<ingestion, query, reloaded>>

SwapOkapi(w) ==
    /\ watcher[w].pc = "swap_okapi"
    /\ cache' = [cache EXCEPT ![w].okapi = watcher[w].read["corpus"]]
    /\ Goto(w, "sessions")
    /\ UNCHANGED <<ingestion, seen, query, reloaded>>

\* Sessions.__init__ or Sessions.reload, and what the watcher does after the last
\* callback.
ReloadSessions(w) ==
    /\ watcher[w].pc = "sessions"
    /\ cache' = [cache EXCEPT ![w].lookup = cache[w].files["corpus"]]
    /\ IF watcher[w].boots THEN UNCHANGED <<seen, reloaded>>
       ELSE seen' = [seen EXCEPT ![w] = watcher[w].target] /\ reloaded' = reloaded \cup {w}
    /\ watcher' = [watcher EXCEPT ![w] = [Down EXCEPT !.pc = "sleep"]]
    /\ UNCHANGED <<ingestion, query>>

\* The identities come from Postgres, which may not answer.
ReloadSessionsRaises(w) ==
    /\ watcher[w].pc = "sessions"
    /\ Raise(w)
    /\ cache' = IF watcher[w].boots THEN [cache EXCEPT ![w] = Empty] ELSE cache
    /\ UNCHANGED <<ingestion, seen, query, reloaded>>

Serves(w) == watcher[w].pc # "down" /\ ~watcher[w].boots

\* _get_cached_bm25 on a thread that serves a query: it builds what it finds
\* missing, and stores it when it is done.
BuildOkapi(w) ==
    /\ Serves(w) /\ cache[w].okapi = None /\ query[w] = None
    /\ query' = [query EXCEPT ![w] = cache[w].files["corpus"]]
    /\ UNCHANGED <<ingestion, watcher, cache, seen, reloaded>>

StoreOkapi(w) ==
    /\ query[w] # None
    /\ cache' = [cache EXCEPT ![w].okapi = query[w]]
    /\ query' = [query EXCEPT ![w] = None]
    /\ UNCHANGED <<ingestion, watcher, seen, reloaded>>

\* The worker ends, or is restarted.
Stop(w) ==
    /\ watcher[w].pc # "down"
    /\ watcher' = [watcher EXCEPT ![w] = Down]
    /\ cache' = [cache EXCEPT ![w] = Empty]
    /\ seen' = [seen EXCEPT ![w] = None]
    /\ query' = [query EXCEPT ![w] = None]
    /\ reloaded' = reloaded \ {w}
    /\ UNCHANGED ingestion

-----------------------------------------------------------------------------

Watch(w) ==
    \/ Poll(w)
    \/ \E f \in Files : Read(w, f) \/ ReadRaises(w, f)
    \/ SwapFaiss(w) \/ SwapBm25(w) \/ SwapOkapi(w)
    \/ ReloadSessions(w) \/ ReloadSessionsRaises(w)

Next ==
    \/ BeginSave \/ Bump \/ Abandon \/ LoseVersion
    \/ \E f \in Files : Open(f) \/ Close(f)
    \/ \E w \in Workers : Boot(w) \/ Watch(w) \/ BuildOkapi(w) \/ StoreOkapi(w) \/ Stop(w)

\* The event loop wakes the watcher up after every sleep, and Postgres answers in
\* the end to one who keeps asking.
Fairness ==
    \A w \in Workers :
        /\ WF_vars(Watch(w))
        /\ SF_vars(ReloadSessions(w))

Spec == Init /\ [][Next]_vars /\ Fairness

-----------------------------------------------------------------------------

TypeOK ==
    /\ \A f \in Files : disk[f] = Broken \/ disk[f] \in Saves
    /\ writer \in Writer
    /\ version \in Saves /\ lost \in Saves
    /\ announced \in [Saves -> Saves]
    /\ watcher \in [Workers -> Watcher]
    /\ \A w \in Workers :
          /\ cache[w].files \in [Files -> Saves] /\ cache[w].lookup \in Saves
          /\ cache[w].okapi = None \/ cache[w].okapi \in Saves
          /\ seen[w] = None \/ seen[w] \in Saves
          /\ query[w] = None \/ query[w] \in Saves
    /\ reloaded \subseteq Workers

\* A worker that has reloaded serves every save that the version it has seen
\* announces, and so does what the sessions made of it: whatever was saved, cut
\* short or announced while it read the files, and however often a reload raised.
\* If index:version was set back, a worker that sees nothing new lacks at most as
\* many of the last saves as were set back.
SeenIsServed ==
    \A w \in reloaded :
        /\ \A f \in Files : cache[w].files[f] >= announced[seen[w]]
        /\ cache[w].lookup >= announced[seen[w]]

\* The sessions lag behind the corpus only in the middle of a reload, or while a
\* newer version is still to be seen or was set back: a reload that swapped the
\* indexes and then raised is made again.
LookupFollows ==
    \A w \in Workers :
        cache[w].lookup # cache[w].files["corpus"] =>
            \/ watcher[w].pc \in {"swap_okapi", "sessions"}
            \/ seen[w] # None /\ seen[w] < version + lost

\* When a worker stays up and the files stay readable, its watcher comes to see
\* the last version, through every reload that raises, unless it has seen a higher
\* one before index:version was set back.
CatchesUp ==
    \A w \in Workers :
        <>[](watcher[w].pc # "down" /\ \A f \in Files : disk[f] # Broken)
            => <>[](seen[w] # None /\ seen[w] >= version)

\* What retrieve.py says of the reload ("swap in atomically"): the BM25Okapi and
\* the corpus that a query looks the chunks up in are of one save.  (Between the two
\* assignments of a swap they may not be; here is only what stays after it.)
SwapIsAtomic ==
    \A w \in Workers : watcher[w].pc # "swap_okapi" =>
        cache[w].okapi \in {None, cache[w].files["corpus"]}
=============================================================================
