# AuditFlow: TLA+ models, checks and proofs

AuditFlow answers questions about a corpus of contracts. A batch process
ingests contracts into a FAISS index, a BM25 corpus and Postgres; FastAPI
workers answer `POST /ask` with a retrieval, a generation whose claims cite
chunks, and a verification of each claim; sessions and locks live in Redis;
users carry access JWTs and rotating refresh tokens.

This directory holds TLA+ models of the parts of it whose correctness depends
on what happens in which order, the TLC configurations that check them on small
instances, and proofs, checked by TLAPS, of the main theorems for all
instances. Paths below are those of the repository; `auditflow/` abbreviates
`src/auditflow/`.

Checking one run, and one proof module:

    tlc -config RefreshTokens.cfg MCRefreshTokens
    tlapm RefreshTokensProofs.tla

## 1. Inventory

| Component | Code | State | Operations | Talks to |
|---|---|---|---|---|
| Refresh tokens | `auditflow/auth/refresh.py`, `auth/routes.py` | table `refresh_tokens`, `users.is_active`, the cookies of clients | login, refresh (rotate), logout, `create_user` | Postgres, one transaction per `_cursor()` block |
| Access control | `auth/security.py`, `dependencies.py`; `casbin_enforcer.py`, `RBAC/` (not modelled) | the tokens that clients hold, `users.role`, `users.is_active`; a fixed policy | sign at login and refresh, check a request | Postgres, at login and refresh only |
| `/ask` and sessions | `main.py`, `orchestration/session_store.py` | Redis keys `session:<user>`, `session-lock:<user>`, `recent:<user>` | lock, get, set, release, push | Redis; the pipeline; the history queue |
| Dialogue | `orchestration/pipeline.py` | none of its own: it changes the `SessionState` it is given; caches `chunk_lookup`, `all_identities` | `ask`, `reload` | retrieval, retry layer, verification |
| Answering | `orchestration/retry_layer.py`, `generation/`, `verification/verify.py` | locals of one request; a semaphore per answer | two generation passes, the judges | Ollama, Groq, the caches of the worker |
| Ingestion | `ingest/ingestion_service.py`, `ingest/index/`, `ingest/store/` | indexes in memory and on disk, tables `documents` and `chunks` | insert or update, delete | disk, Postgres, `index:version` |
| Index caches | `retrieval/cache_watcher.py`, `retrieval/retrieve.py` | module globals `_faiss_index`, `_bm25_index`, `_bm25_cache`, `_last_seen_version`; `Sessions.chunk_lookup` | poll, reload, lazy build | Redis, disk, Postgres |
| Retrieval scoring | `retrieval/retrieve.py` | none | hybrid search, rerank, consistency report | the caches |
| Identities, batch build | `ingest/identity_extraction.py`, `build_index.py`, `preamble.py`, `models.py` | `identity_cache.json`, tasks under a semaphore | extract, build | Gemini, Groq, ingestion |
| Chunking, titles, preflight | `ingest/chunker.py`, `pre_flight_check.py`, `title_parser.py` | none | text processing, ids, the verdict on a file | ingestion, the batch build |
| History and audit | `orchestration/history_queue.py`, `history_worker.py` | RQ's queue and registries, `conversation_turns`, `audit_log` | enqueue, a job with three retries | Redis db 1, Postgres |
| Frontend, metrics, logging, migrations | `frontend/`, `core/`, `alembic/` | - | - | - |

What is hard, by component (`PROJECT.json` lists each hazard at its line):

* **Refresh tokens.** A handler runs several transactions, and a rotation reads
  a row before it writes it; other handlers commit in between. Responses get
  lost. Correct means: a rotated token never works again, revocation reaches
  every token of this user and none of another's, and a token is not exchanged
  for two.
* **Sessions.** A read, a long computation and a write under a lease that is
  shorter than the computation can be. Redis calls fail after they took effect,
  sessions expire, processes die. Correct means: no update is lost while leases
  hold, a thread that lost its lease never reports success, and a stored
  dialogue state can always be continued.
* **Dialogue.** An offer of documents may be answered many texts later.
* **Answering.** Model calls fail and are retried at two levels; what is
  retrieved and what is verified against are reloaded concurrently.
* **Ingestion.** Eight writes to four stores, none atomic with another, two of them
  the files of one FAISS store; retries are made from what the failed call left.
* **Identities.** The cache is saved once, at the end and in place, and read by a
  build that may run beside the extraction; two contracts may share a preamble.
* **Index caches.** Files are read while they are rewritten; a counter tells a
  worker when, and can be lost; two callbacks must both succeed.
* **History.** A job is handed over three times (request, Redis, worker), each time
  with an answer that can get lost, and is retried without a key of its own.
  Correct means: a turn is in both tables or in neither, is lost only where the
  log or an operator can see it, and is doubled only where nobody could know.
* **Access.** A role is read, signed later and trusted for fifteen minutes, while
  the account changes. Correct means: fifteen minutes is what it takes, whatever is
  refreshed in between.
* **Preflight.** Two titles can get one document id; the check must find them
  wherever they are in the file, because the build replaces one by the other.

## 2. Plan

Modules, most important behaviour first.

1. `RefreshTokens`, `MCRefreshTokens`, `RefreshTokensProofs`
2. `Pipeline` (operators), `AskSession` (extends it), `MCAskSession`, `AskSessionProofs`
3. `Conversation` (extends `Pipeline`); its proofs are in `AskSessionProofs`
4. `Ingestion`, `MCIngestion`, `IngestionProofs`
5. `IndexCache`, `IndexCacheProofs`
6. `Answering`, `MCAnswering`, `AnsweringProofs`
7. `IdentityTable` (abstract), `Identity` (implements it), `MCIdentity`, `IdentityProofs`
8. `TurnLog` (abstract), `History` (implements it), `HistoryProofs`
9. `Access`, `AccessProofs`

All of these exist, and every safety property that a passing run checks is proved.
What is left:

* Models: the metadata of unchanged chunks in `Ingestion`; two extractions at once in
  `Identity`; an atomic session register that `AskSession` implements while no lease is
  lost.

## 3. The modules and the code

`PROJECT.json` ("map") gives the lines that each definition models. The mutants
that some definitions have beside them (`Rotate_KeepsParent` next to `Rotate`)
are not part of any specification: each is a plausible slip in that code, and
shows that some property would notice.

### RefreshTokens

A *step* is one transaction, since other threads see nothing of it before it
commits. A rotation is two: `RefreshRead` (the SELECT, whose result stays in the
thread's locals) and `Rotate` (the commit of UPDATE and INSERT), because READ
COMMITTED without `FOR UPDATE` lets others commit between them. `delivered` is
what a response has carried: a client presents nothing else, and `Fail` models a
response that is lost, a transaction that fails and a process that ends. `Expire`
lets a token's week go by, `Deactivate` and `UpsertUser` change `is_active`. Three
history variables say what the table does not: the parent of a token, users who
have not logged in since a revocation, and revocations that met a rotation in
flight.

Properties. `RotatedTokenIsDead`: a successor never stands beside a parent that
works. `ForksNeedOverlap`: successors and rotations in flight of one token are
never more than the threads: once a rotation has committed, no new one can begin.
`RevocationHolds`: after a revocation that met no rotation in flight, the user
has no working token until a login. `OnlyOwnFamily` (an action property): only
requests made with a user's token, or its successor, revoke that user's tokens.

A revocation that does meet a rotation in flight does not end in a login: the
rotation inserts its successor after the revocation has looked (`refresh.py:77-91`,
`109-114`), and the user keeps a working token, where `architecture.md:136-138` speaks of
"forcing re-login everywhere". It is the race of `refresh_single_use` again, and has
no run of its own.

### Pipeline, AskSession, Conversation

`Pipeline` translates `Sessions.ask` to `Ask(text, s)`: the set of pairs of a
session and a reply that a call may end with. Retrieval is any consistency
report (`Reports`), the document that a text names is any other than the active
one, and every scoped answer may be found or not.

`AskSession` is the handler with one step per call to Redis: `Acquire` (`SET NX
PX`), `Load`, `AskPipeline`, `Store`, `Release` (which deletes the key only if it
holds the token of this acquisition), `PushRecentTurn`. Every call may fail
before or after it took effect (`AcquireError`, `RaiseInside`, `ReleaseError`);
`LeaseEnds` is the end of the ten seconds or the loss of the key in a failover,
and can happen at any moment, since the pipeline takes any time.
`redis.exceptions.ConnectionError` becomes a 503, and
`redis.exceptions.TimeoutError`, which is not the `TimeoutError` that the handler
names, a 500; whatever the pipeline raises is given as 502. A failed thread
drops the session it holds: nothing is stored.

Properties. `ReleasedInTime`: of the requests answered 200 for one user, no two
were inside the lock together. `NoLostUpdate`: a thread that is about to write
has seen every update, unless a lease was lost under a thread. `PendingIsAnswerable`:
a stored question was asked by this user and is stored with the documents to
choose from.

`Conversation` is one user's dialogue (specification `Dialogue`), with the session in
`memory` and the replies in the state; its names differ from those of `AskSession`
because the proofs about both share the lemmas on `Ask`. `offer` is history: the question that documents were last offered for, and these documents.
`PendingIsLastOffer`: the session's pending question and candidates are those of
one offer, the last; no branch of `ask` clears or replaces one without the other.
`SelectionIsHonoured` (an action property): a user who selects an offered
document, however many other texts later, gets an answer about this document to
the question of that offer.

Two observations. `session_store.locked()` holds a lease
of ten seconds (`session_store.py:16,62-66`), and `main.py:95-98` neither renews
it nor looks at it before `set`, while a test of the repository
(`tests/concurrency/test_session_race_conditions.py:24-26`) says that updates
serialized by it "must all land": they do as long as a turn takes less than the
lease, and `NoLostUpdate` says precisely that. And an answer that moves to
another document leaves an earlier offer pending (`pipeline.py:175-191`), so that a
later statement is taken for a selection (`PendingIsLastOffer` says that it is then at
least a selection for the question of that offer).

### Ingestion

A call is a diff against the registry (`InsertOrUpdate`, `DeleteDocument`) and then
one step per write: `FaissUpdate` (memory), `VectorsSave` and `DocstoreSave` (the two
files that `save_local` writes, `index.faiss` and then `index.pkl`), `Bm25Save` (memory
and pickle), `WriteRow`, `DeleteChunks`, `InsertChunks`, `Bump`. Each may fail, a file
in the middle (`Broken`), a transaction or an INCR also after it took effect; `Crash`
ends the process anywhere and `Start` loads the two indexes again. A chunk id is a pair
of a document and a chunk, as the code hashes the text of a chunk under its document.

`index.faiss` holds vectors by position, `index.pkl` says which position is which id.
A crash between the two leaves new vectors beside an older mapping: the next start loads
both without a complaint (`faiss_index.py:42-45`), and then the vectors are `askew` to the
ids, for every document of the store. Vectors that are saved afterwards are `Askew` on
disk as well. That an id is in both files is not enough, so the model compares the whole
sets the files were written for.

`harm` is history: what failed calls may have left of each document. A document
stays `Clean`, or becomes the text whose first insertion was cut off before
Postgres heard of it, or is `Spoilt`. A retry of a text that was cut off in this
way finds its ids in FAISS and ends `Clean`.

Properties. `StoresAgree`: on a clean document, registry, FAISS and BM25 agree, on
disk and in memory, vectors and mapping with each other. `DiffIsApplicable`: unless the
document is spoilt, `FAISS.delete` is never given an id that it lacks. `BumpIsLast` (an
action property): when the version moves, all three files and the registry are complete;
and a call that has begun to write ends well only by moving it, so that what it saved
is announced. It does not say that of a call that fails: one that has saved its files
and then raises (`ingestion_service.py:65-72`) has announced nothing, and the workers learn
of it with the next call that ends well, if there is one.

A retry does not always heal. The documents row is committed, with the new hash, in
a transaction of its own (`ingestion_service.py:62`) before the chunks are deleted and
inserted (63-64); when one of these fails, the next call finds the hash (28-30) and
returns with nothing to do, and the registry lacks the chunks for good. This is the
main way to `Spoilt`, and is why `StoresAgree` excludes it. The other way is a crash
between the two files of FAISS: when the next start loads them, every document is
`Spoilt`, where the message of a call that raises speaks of "this document" only
(`ingestion_service.py:67-72`); a crash raises no message at all. `faiss_index.py:18-27`
describes the healing for the writes before the row, which `StoresAgree` confirms.

The version is bumped after the Postgres writes (`ingestion_service.py:74`), where
`architecture.md:199-201` says immediately after the index saves; `BumpIsLast` is
about the order of the code.

### IndexCache

Files hold the number of the save that wrote them, or `Broken` while they are
being written: `Open` truncates, `Close` completes. A worker boots (`Boot`, reads,
`SwapFaiss`, `SwapBm25`, `ReloadSessions`: the import of `main.py`), then polls: `Poll` is one round
of `watch_index_version`, which begins a reload when the version has advanced,
`Read` reads the files one by one, `SwapFaiss`, `SwapBm25` and `SwapOkapi` assign the
three globals (under a lock that no query takes, so that a query may come between
them), and `ReloadSessions` is `Sessions.reload`. What raises is tried again at the next
poll. `BuildOkapi` and `StoreOkapi` are the lazy build of `_bm25_cache` by a query.
A poll that fails, or finds nothing new, is a stutter.

`LoseVersion` sets the counter back: to 0 when the key is evicted
(`docker-compose.yml:29`, `allkeys-lru`), to an older value when a replica takes
over. `lost` is history, the sum of these losses, so that `version + lost` numbers all
the bumps there have been.

Properties. `SeenIsServed`: a worker that has reloaded serves every save that the
version it has seen announced, files and lookup; what a lost counter costs is
bounded by what it lost. `LookupFollows`: the lookup lags behind the corpus only
during a reload or while a newer version is unseen. `SwapIsAtomic`, of the run that
fails, overlooks the moment between the last two assignments: what it finds is a
mixture that stays. `CatchesUp` (liveness): a worker
that stays up, with files that stay readable, comes to have seen the last version,
or has seen a higher one before the counter was set back. After such a loss the
worker takes no bump for news until the counter has passed what it has seen.

`SeenIsServed` speaks of workers that have reloaded since they booted, for a reason.
The first poll takes the version it finds for seen without a reload
(`cache_watcher.py:47-49`), while the files were loaded when `main.py` was imported
(`main.py:37`): a save that is bumped in between is not loaded until the next bump,
although `architecture.md:207-211` says a worker reloads "if it's fallen behind".

### Answering

One answer for one document: `Retrieve` and `AddPreamble` are
`get_scoped_context`, `Generate` and `GenerateFails` one attempt of
`generate_answer` and the decision that follows it in
`generate_with_bounded_retry`, `StartVerify` the pre-LLM verdicts, `TakeSlot`,
`JudgeReplies` and `JudgeFails` the coroutine of one claim under the semaphore.
`Raise` includes replies without a text, which `parse_llm_json` cannot take and no
caller catches. The watcher's `SwapIndexes` and `ReloadLookup` come at any moment.
Claims are records of whether the text is empty and what they cite. A chunk that a
generation cites may be one it was not given.

Properties. `RetryNeverWorsens`: what is verified is one pass, whole, and lacks a
source only if every pass did. `CitationsAreKnown`: a citation of a chunk that the
generator was given is known to the verification unless a reload was under way.
`SupportIsEarned`: only a judge, within its attempts, makes a claim SUPPORTED or
PARTIAL. `VerificationEnds` (liveness).

The schema of the judge's reply admits NO_ANSWER (`schemas/verification.py:43`), and
`verify_claim_async` passes it on for a claim that has a citation
(`verify.py:143-149`), where the comment above the schema (39-42) and
`tests/unit/test_verify.py:208-219` say that it is refused. The model lets a judge reply it,
as the code does; no property says otherwise.

### Identity, IdentityTable

`ExtractAll` is `extract_all_identities` up to the tasks, one per contract the cache
does not know; `CallGemini`, `CallGroq` and `Answer` are the steps of `extract_one`
under the semaphore, `Answer` with the line of `as_completed` that puts the
identity into the cache; `BeginSave` empties the file (`open(..., "w")`), `EndSave`
completes it. `StartBuild` is `load_cached_identities` and `BuildNext` one turn of
the loop of `build`, which writes the row under `DocumentId`, the slug of the title.
`ExtractionStops` and `BuildStops` end either program anywhere. Both raise at a file
that is `Torn`, which here is to do nothing. `saved` is history: the file when it was
last whole. `CheckTitles` and `IsSafe` are `check_titles` and the verdict of
`print_report` in `pre_flight_check.py`.

`IdentityTable` says what both programs promise together: a table of identities
that is only added to, and rows that say what the table says of their contract,
or fall back. `ImplementsIdentityTable` is that `Identity` implements it with
`saved` for the table: a save neither drops nor changes what an earlier one saved,
and no build writes what the table never said, although both run side by side
over files that overlap.

Other properties. `EndedMeansKnown`: after an extraction that ends, the file knows
every contract of its list. `SafeBuildLosesNothing`: after the build of a file that the
preflight check calls ready, every contract of it that has a text is in the
registry with a text that the file has under that very title, with whatever was built
before from other files: it is not hidden behind another title's text.
`ExtractionEnds` (liveness).

`SafeBuildLosesNothing` does not say that the row has the title of the file. A build
decides by the hash of the text alone whether there is anything to do
(`ingestion_service.py:28-30`): when an earlier build gave the id, with the same text,
another title (`A B` became `A-B`), the new title is a no-op, the row keeps the old one,
and the preflight check, which sees one file, cannot know.

A contract without the key `context`, or with `null`, makes the extraction and the build
raise (`identity_extraction.py:162,182`) before either has changed anything, although
the preflight check passes over it; the lists of the model have none. An interruption
during a save leaves a `Torn` cache, which both programs refuse until somebody removes
the file: no property excludes that.

The other half of the preflight's verdict, the collision of one chunk id in two
documents (`pre_flight_check.py:135-138`), can never fire, as a chunk id begins with
the document id (`chunker.py:74`): it is left out of `IsSafe`.

What follows from these and may surprise: a contract whose two models failed is
known, as failed, from then on (`identity_extraction.py:184,198`), and a contract that was
built with the fallback keeps it (`ingestion_service.py:28-30`). Of two contracts with
one preamble, the answer that comes last stays, be it the failed one. None of
this contradicts a statement of the repository.

### History, TurnLog

`redis` is what RQ keeps in db 1: the queue, and the registries of started,
scheduled, finished and failed jobs, with the retries that each job has left; RQ
is external, and modelled as far as this code relies on it. `Enqueue` is
`enqueue_history_write`, which swallows and logs whatever is raised, before or after
the job was pushed; `PushRecentTurnFails` is the 503 that comes between the stored
session and the enqueueing. `Dequeue`, `Write` (the one transaction of
`write_history_and_audit`), `JobDone` and `JobFails` are the worker; `Crash` kills it,
for good, as nothing in the repository starts it again. `Abandoned` is RQ's
maintenance, by which another worker fails the job of a dead one. `Dequeue` takes the job
and enters it in the registry in one step, as RQ's own recovery, not this code, covers
what is between them. `Reschedule` is
RQ's scheduler: it may act, but `worker.work()` (`history_worker.py:57`) does not run it,
so that nothing makes it act. `Replicate` and `Failover` are Redis' asynchronous
replication: what was acknowledged may be gone, or back. Eviction is not modelled:
`docker-compose.yml:29` lets Redis evict any key when its memory is full, RQ's too.

`TurnLog` is the promise of `architecture.md:172-176`: both tables grow together, by
turns that were served. `ImplementsTurnLog` is the refinement, with the two
tables for the two logs. `NothingIsLostSilently`: a served turn without its rows has
a job still to be done, or one in the registry of failed jobs, or an error in the
log, or lost its job in a failover; no finished job lacks its rows.
`DuplicatesNeedDoubt`: a turn has as many extra rows as executions whose commit was
done but not known, or jobs that a failover brought back; never by a plain retry.
`BroughtBack` counts the latter: the places where the replica still has a job
`Waiting` (the queue, the scheduled jobs, the started ones of dead workers) and the
lost primary had not. A second failover can bring one job back once more, and each
of them counts.
`PendingEnds` (liveness): while a worker lives, a job does not stay in the queue or
with a dead worker.

`history_retry` shows what the missing scheduler means: a job that fails once is
neither written nor dead-lettered (`LandsOrDeadLetters`, from `architecture.md:298-300`).
`history_queue.py:8-17` has a dummy `Retry` for versions of RQ without one; the
models have the real one. The order of two turns of one user is not kept by
anything: the job is enqueued after the lock is released.

### Access

A login reads the row of a user and signs the role (`LoginRead`, `Sign`); a refresh
rotates, then reads the row, then signs (`RefreshRotate`, `RefreshRead`, `Sign`), and
each of these is a step, since accounts change in between: `UpsertUser` is
`create_user.py`, which sets a role and reactivates; `Deactivate` is by hand. Of the
access tokens of a user only the youngest for each role counts, and of this what it
has left (`life`). `since` is history: how long ago the user was last active in a role.

Properties. `RoleIsRecent`: whoever acts in a role was active in it not longer ago than
the token is old, plus the time its handler took to sign. `LockedOut` (liveness): a user
who stays deactivated loses every access, whatever was refreshed or in flight
(`architecture.md:122-128`). `RoleTakesEffect` (liveness): a user who is given a role for
good acts in no other in the end, although no token is revoked and the session goes on
being refreshed.

## 4. Runs

| Run | Instance | Result |
|---|---|---|
| `refresh_tokens` | 2 users, 3 tokens, 3 threads; symmetric | holds, 854 646 states |
| `refresh_single_use` | same | `SingleUse` fails |
| `ask_session` | 2 threads, 2 users (one asks or selects, the other asks), 2 documents | holds, 1 761 883 states |
| `conversation` | 3 documents, 2 questions, 1 statement | holds, 3 045 states |
| `answering` | 2 chunks (one preamble), 3 attempts, 1 slot, up to 2 claims | holds, 218 481 states |
| `ingestion` | 2 documents, 2 chunks, texts {k1}, {k1,k2}, {k2} and {}, 2 versions | holds, 5 580 160 states |
| `index_cache` | 1 worker, 3 saves | holds, 503 147 states |
| `index_cache_swap` | same | `SwapIsAtomic` fails |
| `identity` | 6 contracts and a blank one (2 with one preamble, 3 titles with one id, 2 with one title, 2 with one text) in 3 lists, 2 slots | holds, 128 113 states |
| `history` | 2 turns, 2 workers, 1 retry, 1 crash, 1 failover | holds, 782 846 states |
| `history_retry` | 1 turn, 1 worker, 3 retries | `LandsOrDeadLetters` fails |
| `access` | 1 user, 2 threads, 3 roles, tokens of 3 ticks, 1 tick to sign | holds, 366 816 states |

The runs that fail each check one sentence of the repository's documents,
comments or tests that the code does not keep; `PROJECT.json` ("findings") quotes
the sentence and the code.

**Bounds.** `MaxVersion`, `MaxSaves`, `MaxClaims`, `Attempts`, `Slots`, `MaxCalls`,
`MaxRetries`, `MaxCrashes`, `MaxFailovers`, `Ttl` and `MaxDelay` are the numeric bounds. Three tokens allow a fork of a token and its rotation,
or a chain of rotations; three threads allow two rotations of one token beside
a revocation. Two threads are what an overlap under one lock takes; the second
user is there to see that nothing of one reaches the other. From one
text to another a document gains a chunk, loses one, or changes one for another, with
one kept or none; the blank text makes the empty diff. Two documents are what a fault of
one takes to reach another;
two versions allow a call to succeed and then calls to fail and be repeated
without limit, as a failed call uses no version. Three saves allow one at boot,
one during a reload and one after. One slot for two claims makes a judge wait. `Attempts` is
the code's own number. Two slots for three contracts make one wait. One retry
has both outcomes of a failed job, a second chance and the registry of failed
jobs; the code's three add repetitions of the first. One crash leaves a worker to
clean up after it, two turns let a job of one wait behind that of the other, and a
failover between any two steps brings a job back that is being run. A crash of
all workers is excluded (`MaxCrashes < Cardinality(Workers)`): nothing would end
then. `MaxDelay` bounds the time from the reading of a row to the signature, which
the code does not: `RoleIsRecent` is relative to it. Three ticks let a token of one
role outlive a change to another and back; the roles are the two ends of the chain
and one between, the fourth being like `ceo`.

`Conversation`, `AskSession` and `Identity` have no numeric bound but the slots, and
`Access` none on what happens: dialogues, retries, extractions, builds, logins and
changes of accounts go on for any length. Deadlock is
checked everywhere but in `Ingestion`, where a file that a crash cut short stops
the process for good (`bm25_index.py:25`, `faiss_index.py:91`), and in `Identity`,
where a torn cache does the same (`identity_extraction.py:110`), and in `History`,
which may stop when every turn was asked and every job has an end.

**Symmetry** is used in runs without liveness properties only, over sets
whose members the specification treats alike.

**Fairness.** `IndexCache`: `WF(Watch)`, since the event loop wakes the watcher up
after every sleep and the loop survives every exception; `SF(ReloadSessions)`, since
Postgres, which may fail any one reload, answers in the end to one who keeps
asking. Nothing is assumed of ingestion. `Answering`: `WF(Judging)`, since the event
loop runs every ready coroutine and the Groq client gives a call up after its
timeout. `Identity`: `WF(Extraction)`, for the same reasons: both clients give a
call up by themselves. Nothing is assumed of the generator, whose client has no timeout
(`generate.py:69`). `History`: `WF(Work(w))`, since a worker that lives takes what is in
the queue and RQ's time limit ends its job, and `WF` of `Abandoned` for any job, since
RQ's maintenance is part of every worker's loop; nothing of the scheduler, of
failovers or of requests. `Access`: `WF(Tick)`, time passes, and `WF(Serve(r))`, a handler
that has begun goes on. The other specifications have safety properties only and state no
fairness.

**Refinements.** `Identity` implements `IdentityTable` and `History` implements
`TurnLog`; both are checked as properties of their runs, by the mapping that their
`INSTANCE` names.

## 5. Proofs

All proofs hold for every value of the constants that the named `ASSUME`s allow;
these say that sentinels are not members of the sets they are sentinels of, that
numeric bounds are numbers, that the requests of `RefreshTokens` and the workers of
`History` are finitely many (both are counted), and of what kind the tables are that a
configuration gives: `HashOf`, `IdOf` and `Lists` of `Identity`, `Says` of `AskSession`.

Every module has an inductive `WellFormed`, from which `TypeOK` follows. The
other invariants are inductive relative to it; TLC found no violation of any of them
on the instances of section 4.

**RefreshTokensProofs.** `WellFormed` is inductive by itself: types; a request
past its first transaction holds a token of its user; whatever is revoked or
delivered has a row; `RotatedTokenIsDead`. `RevocationHolds` is not inductive, since a rotation in flight could give the user a
token: the proof carries along that a user whose revocation met no rotation is
*quiet*, no thread being about to rotate a token of this user (`RevocationInv`).
None can begin, as a rotation begins with a working token.
`FamiliesAreSeparate` is an action property: one step per action shows which
tokens it revokes. `ForksNeedOverlap` bounds a sum of two cardinalities: a
rotation turns a rotating thread into a child, and a thread begins to
rotate only a token that has no children yet, because one that has is revoked;
the lemmas on the two finite sets come from `FiniteSetTheorems`.

**AskSessionProofs.** `WellFormed` is about data: every session that a thread is
about to store, or the store keeps, has its candidates with its pending question.
It takes lemmas on what `Ask` makes of a session, one per branch. `LockInv` is
needed because neither `ReleasedInTime` nor `NoLostUpdate` is inductive; its parts
are:

* the thread whose token the key holds is inside, and nobody has overtaken it
  (`HolderInside`);
* a thread that is inside holds the key, or its user has lost one (`InsideHolds`);
* an overtaken thread is inside or done, and a thread that answers 200 is done
  (`OvertakenPlaces`, `AnswersAreLast`);
* an outdated thread is between its read and its write, and its user has lost a
  lock (`OutdatedInside`).

A thread is overtaken, or becomes outdated, only while another is inside; by
`InsideHolds` one of the two has lost its lock, and only the one that holds the key
releases without an error. TLC found no violation of `LockInv` on the instance of
`ask_session`.

The same lemmas on `Ask` serve `Conversation`. `PendingIsLastOffer` is inductive with the
type of the session, because every outcome of `Ask` that leaves a question pending
either leaves the old pair alone or is itself the offer (`AskedOutcome`).
`SelectionIsHonoured` is then a statement about one step: the pending question that
`ResolvePendingSelection` answers is that of the last offer.

**IngestionProofs.** `StoresAgree` speaks of documents that no call is in the middle
of, and so is far from inductive. `AllKnown` says of every document that is not spoilt
what each store has of it before and after the step that writes it: the registry has
the text or a call is between its row and its chunks (`RegistryHas`); an index has
what the registry says, or part of a text of which Postgres has not heard (`Rest`),
and from its own step on it has what the call will leave (`IndexesHave`). It takes
`CallInv`, which holds for spoilt documents too: inside a call, what a step has saved
stays what is in memory, and what remains to be done of the diff makes the old chunks
the new ones. Between the calls it says nothing: a failed call leaves memory and files
apart. Of the two FAISS files `IndexesHave` adds that, as long as one document is not
spoilt, the vectors in memory are in step with the mapping, and so are saved ones. `DiffIsApplicable` follows, since what is to be deleted is in the registry and an
index at rest has it. `BumpIsLast` needs only `CallInv`.

**IndexCacheProofs.** `SeenIsServed` relates two processes over what one announced and
the other read. `DiskInv` is the writer's part: announcements are ordered like the
versions they belong to, and a file that can be read is never older than one that was
announced. `WorkerInv` is the watcher's: what a reload has read of a file so far is at least what its
target announced (`TargetIsRead`), since the target was read before the files and
files only get newer; and it only began for a version not seen (`SeenIsPast`).
Losses of the counter do no harm because the proof counts `version + lost`, which no
step lowers.

**AnsweringProofs.** Slots are counted: `free` and the claims the judge is being asked
about are together `Slots`, by cardinality over any number of claims.
`RetryNeverWorsens` takes that the second pass begins with the first still the last,
and without a source (`SecondPass`); `CitationsAreKnown` that corpus and lookup stay the
same while nothing disturbs the answer (`Undisturbed`); `SupportIsEarned` that a claim
that waits for the judge has a text, a known chunk and an attempt left
(`VerdictsAreEarned`).

**IdentityProofs.** Slots are counted as above. `Knowledge` says what the state of each
task means: one that is not done has nothing saved under its hash, one that was
cached has, and the cache in memory has all that was saved, unchanged; a build knows
only what was saved. From it follow `EndedMeansKnown` and the refinement: `EndSave` is
`Learn`, `BuildNext` is `Register` or changes nothing, and every other step is a stutter.
`SafeBuildLosesNothing` takes a lemma on the preflight check (`PreflightIsComplete`): it
compares each title with the first that claimed its id, and if any two titles of the
file clash, the later of the two, or the earlier, clashes with that first one. The
first claimant exists because the positions are well-founded (`WFMin`). The theorem then
is an invariant of the loop (`InsertedIsThere`): every contract that was inserted so far
is in its row with a text that the list has under its title, and no later one, which has
another id or the same title, takes that away.

**HistoryProofs.** `Whereabouts` says that RQ knows every served turn that is neither in
the log nor forgotten, and that what is finished, on the primary or the replica, is
written; `NothingIsLostSilently` follows. `DuplicatesNeedDoubt` is strengthened to a
sum (`Counted`): rows, jobs that wait and workers that execute are at most `1 + doubt`.
A step moves one unit from one summand to another or raises `doubt` with it; a
failover raises it by what it adds. `HistoryImplementsTurnLog` maps `Enqueue` to a
turn served and `Write` to a row of it in each table; every other step is a stutter.

**AccessProofs.** `RoleIsRecent` takes that the row a thread signs from is not older
than the time it has spent (`ReadIsRecent`), and that a role that is held has age 0.
`OldRolesAreRefused` puts it the other way round: after the life of a token and the
time of a handler, a role that was lost is in no accepted token. That is the safety
half of `LockedOut` and `RoleTakesEffect`.

**Only model-checked.** Liveness under fairness (`CatchesUp`, `VerificationEnds`,
`ExtractionEnds`, `PendingEnds`, `LockedOut`, `RoleTakesEffect`): the proof system does not do it, nor
`ENABLED`, nor induction over data.

## 6. Not modelled

* *RQ itself*: its queue and registries are what `History` says of them. Its
  dead-letter registry expires after a year, which the model leaves out.
  `history_store.py` is not called, and the retention of the two tables that
  `architecture.md` speaks of is not in the code.
* *Passwords and the encoding of tokens*: a token is taken for what was signed.
* *The policy of casbin* (`RBAC/`, `casbin_enforcer.py`): a table that is read at the start
  and never changes, as `reload_policy` has no caller. The only route that asks it is
  `/ask` (`main.py:91`), which every role of `VALID_ROLES` inherits from `viewer`; no step
  of the program bears on that.
* *Chunking, titles, scoring, prompts, JSON extraction*: functions of text; the
  models let them return anything their callers tell apart.
* *Several ingestion processes*: the batch entry point is the only caller of the
  service, and `Ingestion` has one writer. Two would overwrite each other's files.
* *Several extractions at once*: they, too, would overwrite each other's cache.
* *The refusal of a reload with an empty corpus* (`retrieve.py:87-88`).
* *The connection pool* (`document_store.py:47`): its exhaustion is one of the
  transactions that fail before they begin.
* *The list `recent:<user>`*: nothing reads it.
* *Embeddings, alternative generator, metrics, logging, frontend*.
