# A TLA+ development of the enterprise RAG backend

The backend is a FastAPI application (`src/app`): several uvicorn processes
("workers"), in each of them an event loop, a thread pool in which every
synchronous route runs, and two background pollers. Its state is in PostgreSQL
(one application pool, one analytics pool), in Qdrant (document chunks, semantic
cache pointers), in Redis (the query cache, the rate limiter's windows), in one
policy directory, and in process memory (the runtime configuration, the wired
objects, counters). No transaction spans two of these stores, and hardly any
operation touches only one. What is hard about this code is therefore in the gaps:
between two transactions of one request, between a commit and the in-memory copy it
should reach, between a write to one store and the write to the other.

## Inventory

| Part | State | Operations | What is hard | What makes it correct |
|---|---|---|---|---|
| SQL proposals (`sql/sql_service.py`, `sql_proposal_repository.py`, `api/sql_proposal_recovery.py`) | rows of `sql_query_proposals`; catalog version; policy version of the worker | propose, approve_and_execute, reject, reclaim | approval races rejection, expiry, another approval, the reclaimer, a redeploy, a crash after the lease was granted | a stored statement runs at most once, for its owner, as it was shown; no row stays in `executing` |
| SQL policy, catalog, generator, executor | none between requests | validate, explain, execute | catalog torn between file and row | only outcomes matter to the workflow |
| RAG operations configuration (`rag_ops_controller.py`, `rag_ops_repository.py`, `rag_ops_sync.py`, `rag_runtime_config.py`) | the singleton row, its audit log; per worker: a store and the poller's last seen `updated_at` | update, emergency and lockdown switch, corpus bump, poll | partial updates valid alone and invalid together; commit order against apply order; `updated_at` is the begin time | no version is refused by the runtime; workers converge; the log explains the row |
| Policy ingestion (`policy_ingestion_security_service.py`, `policy_ingestion_service.py`, `document_security_repository.py`) | rows of `document_security_state`, chunks with a status, files | submit, approve, reject, `seed_db.py` | seven calls per upload, none atomic with another; paging | what is searchable was scanned and approved |
| Answer caches (`rag_service.py`, `query_cache_service.py`, `semantic_cache_repository.py`, `corpus_cache_invalidation_service.py`) | answers in Redis, pointers in Qdrant, the corpus version in the row | lookup, write, clear, bump | a slow answer written after the clear; list-then-delete; a failed invalidation | nothing older than the namespace announces is served |
| Semantic collection (`semantic_cache_repository.py`) | a Qdrant collection and its indexes; per worker: a flag and a lock | make ready, use, clear | two workers create at once; a clear deletes and creates again; a call its caller gave up on is done later | a worker that is ready has a collection to use |
| RAG pipeline (`rag_service.py`) | none between requests | retrieve, rerank, HyDE, CRAG, generate, reflect, guard | each stage falls back on its own; what may be cached or cited after which fallback | degraded answers are never cached |
| Self-reflection (`rag_services/reflection`) | none between requests | critique, retrieve more, revise | bounded attempts and a total timeout, failures at each stage | it never serves an answer it did not accept as accepted |
| Corrective retrieval (`rag_services/crag`) | none between requests | grade, refine, formulate a web query, search the web | fallbacks and the shadow mode | evidence only from what was graded |
| Chat, orchestration, database pool (`chat_controller.py`, `query_orchestration`, conversation repositories, `core/db.py`) | conversations, turns, proposals, security events; the connections | resolve a conversation, guard, route to SQL, documents or both, save the turn | six transactions per turn and a pool that raises when it is empty; the configuration changes meanwhile | turns and proposals are their user's; the response says what happened; what was stored for a question is never answered with an error |
| Guardrails (`guardrails`) | none | input, context, output, tool gates | modes `monitor` and `enforce`, and what each gate does to the stage after it | enforced evidence and answers contain nothing flagged; the audit row comes first |
| Dependency wiring (`api/deps.py`) | one object per getter | build on first use | `lru_cache` does not lock while a getter runs | what must be shared is |
| LLM client (`core/llm/chat_client.py`) | none | attempt, back off, give up | attempts and sleeps share one deadline | every call returns or raises in time, and gives up only for a reason |
| Embedding client (`core/llm/embedding_client.py`) | vectors in Redis | read the cache, ask for the misses, store | items in any order, left out, or found twice | each text gets its own vector |
| Rate limiter (`core/security/rate_limiter.py`) | a sorted set in Redis per address and route | stamp, five commands, verdict | the commands of two requests alternate | no more than the limit in a window, and no refusal without a reason |
| Metrics (`rag_metrics_service.py`) | windows of samples, totals | record, snapshot | several statements per record, under one lock | a snapshot is of one moment and adds up |
| Collection migration (`scripts/migrate_qdrant_hybrid.py`) | collections, aliases, the configured name | ingest, compare, cut over, invalidate | stopped anywhere, run again, beside live workers and an operator | what is served stays complete |
| Health, settings, eval harness, document parsing | none or local | | | left aside, with reasons, in `PROJECT.json` |

How they interact: the chat route resolves a conversation and hands the question to
the orchestrator, which reads the worker's configuration store once, guards the
question and sends it to `SQLService.propose`, `RAGService.answer` or both; both read
the same store once more. Admin requests write the configuration row and push it
into their own worker's store; the pollers carry it to the other workers.
Approving a document makes chunks searchable and then bumps the corpus version
in that row and clears the caches, so the ingestion workflow reaches the answer
path only through the row, the store and the caches. Which objects share the store
at all is decided by the wiring.

## Modules

| Module | What it is |
|---|---|
| `SqlProposals` | the proposal workflow, with workers, crashes, redeploys, the reclaimer |
| `ProposalConsent` | its abstract specification: what the owner of a proposal is promised |
| `SqlProposalsProofs` | the inductive invariant, its consequences, the refinement |
| `RagOpsConfig` | the configuration row, its transactions, stores and pollers |
| `RagOpsConfigProofs` | no committed version is refused, the log explains the row, a poll misses only what was overtaken |
| `PolicyIngestion` | the quarantine workflow over rows, chunks and files |
| `Quarantine` | its abstract specification: what the quarantine promises of a source |
| `PolicyIngestionProofs` | what is searchable was approved, and was scanned, and the refinement, as three inductive invariants |
| `AnswerCache` | cache-aside answering across corpus changes |
| `AnswerCacheProofs` | freshness of the namespaces, as an inductive invariant |
| `CorrectiveRetrieval` | one run of the corrective retriever (CRAG) |
| `SelfReflection` | one run of the reflection engine |
| `SelfReflectionProofs` | its budgets and its outcome, as an inductive invariant |
| `RagPipeline` | `RAGService.answer` after a cache miss, composing the two |
| `RagPipelineProofs` | what is cached, cited and served, resting on the engine's invariant |
| `ChatTurns` | a chat turn from the route to the saved history, over the connection pool |
| `ChatTurnsProofs` | ownership, authorisation, truth of the response, the pool |
| `LazySingletons`, `WorkerWiring` | how getters build and keep objects, and the graph of `api/deps.py` |
| `LlmCalls`, `EmbeddingCalls` | one call of each client |
| `RateLimiter` | the sliding window in Redis |
| `RagMetrics` | recording and snapshots under the lock |
| `SemanticCollection` | creating and clearing the semantic cache's collection |
| `CollectionMigration` | the migration script beside the application and the operator |
| `ServicesProofs` | the wiring, and the main property of each of the last six parts |
| `MC*` | small instances: symmetry sets and constant values; `MCServices` puts the services together |

`RagPipeline` and `SelfReflection` need nothing but constants for TLC and are run
as they are.

### SqlProposals

`row[p]` is the row (status, owner, bound catalog and policy versions, remaining
life, age of the lease), `req[r]` a request with its local variables, `store[w]`
and `policy[w]` a worker's configuration and policy version, `runs[p]` a history
variable: how often the statement reached the analytics database. One database
transaction is one action: `lock_for_execution` is `LockRefused`, `LockExpired`
and `LockGranted`; `mark_executed` and `mark_failed` have no condition on the
status in the code and have none here. Everything between two transactions is a
gap: the configuration is read in `StartApprove` and the lock is taken later.
Time is kept as the remaining life and the age of a lease, since the code only
compares timestamps with two spans. A crash ends every request of the worker.

### RagOpsConfig

The row is the sequence of its committed versions, so a snapshot, the content of
a store and a response are version numbers. `updated_at` is PostgreSQL's
`now()`, the time the transaction *began*: `Begin` fixes it, `Commit` may come in
another order. `Commit` is the whole transaction from the row lock on, and its
answer may be lost. `PollRead` is the read in the poller's thread; the
comparison and the apply happen later on the event loop. `PollMarks` is the one
path on which a version is marked as seen without having been applied: a worker
without a store, whose second read fails. `newest` is a history variable: the newest
version that a worker's store has held since it started. The store itself may go back
(`config_reorder`); since the row is cumulative, `newest` says which changes reached it. Left out: the CHECK constraints of
migrations 008, 009 and 012, a further backstop for what `update_config`
validates; the checks of a single field (percentages, backends, the guardrail
mode), which are properties of the payload alone; `last_cache_invalidated_at`.
A worker has one store here; that two first requests may build two is the subject of
`WorkerWiring`.

### PolicyIngestion

A document is its number in the order of ingestion, a chunk a pair of it and a
part. Every call that `submit`, `approve` and `reject` make to PostgreSQL or
Qdrant is an action, and `Fail` may end a request between any two. `Page` is one
page of a scroll. The scanners' verdict on the text they are given is left open,
which covers both guardrail modes; what the model keeps is *which* text they were
given. `rows` are in the order of `uploaded_at`.

Requests overlap freely, also on one source. What goes wrong then is remembered in
`strayed`, a history variable: the sources on which two requests were under way
together, an upload ended between storing its chunks and writing its row, or
`seed_db.py` ran beside the workflow. `LiveWasScannedInTurn` and `OneUploadPerSource`
promise what the code keeps for all other sources, however the requests on different
sources interleave and wherever they fail; `LiveHasApproval` and `FailedStaysFailed`
hold for every source. That a source can stray to a chunk nobody scanned is the run
`policy_race`.

`Quarantine` says the same as an order of stages, without chunks, rows, files or
requests: a source is empty, held, passed or failed, approved, open, each in its turn,
until something removes it. `StageOf` reads the stage from the chunks and rows: the rows
that count are those whose scan was given every chunk there is (`Speaking`). Chunks of
two uploads, or searchable beside hidden ones, are the stage "mixed", which `Quarantine`
does not have, so `HonoursQuarantine` implies `OneUploadPerSource` and says besides
that nothing opens that was not passed and approved after, and that a failed scan leads
nowhere but to removal.

### AnswerCache

The searchable corpus is a generation number; an answer is known by the oldest
generation its evidence is from and the guardrail mode it was made under. The
parts of the cache namespace that do not concern the corpus (cohorts, top_k) are
the same for everybody. `Capture` is the one read of the store in
`RAGService.answer`. `Sync` lets a store move to any committed version: what
`RagOpsConfig` shows is that it may even move back. The stages between the first
retrieval and the write are one gap; whatever is retrieved later in a request is
newer than the first retrieval. `delete_prefix` is two steps, `ListKeys` and
`DeleteKeys`. `Expire` covers the time to live and any deletion by somebody else.

`orderly` is a history variable: every change of the corpus so far was an approval
whose bump succeeded. The code promises `UpToDate`, and keeps it only then, which is
`BumpsSuffice`: however the clearing fails, bumping the version is enough.

### SelfReflection

`reflect()` is a loop with three calls in it (critic, augmenter, reviser). Each call
is two actions, asking and returning, because the deadline may pass in between:
the clock is the flag `late`, which `Expire` may set between any two steps. `Fails`
is the availability boundary around all of it, so it is enabled at every call; a
response that does not validate, a refused query and a revision with a fabricated
citation end there too. A critique keeps the four judgements the decision policy
compares with thresholds; an answer is its kind, the number of its revision and
what it cites; evidence is a set of chunks. `Decisions` lets the policy forget the
budget it is told (`PolicyMayIgnoreBudget`), since the engine has backstops of its
own for that. The order inside the evidence is left out, so `Merged` allows any cut
that keeps the current evidence first.

### CorrectiveRetrieval

The stages of `correct()` in their order: grade, refine, search, verify, inside the
fail-safe `Fails`. The grader's scores are kept as the set of chunks that clear the
bar and a coverage below, between or above its two thresholds. What the refiner
extracts is a subset of those chunks, but in pieces: the refiner may select one chunk
more than once, and what is compared with `MinEvidence` is the length of the list. So a
set of chunks stands for every number of pieces from its size up (`Counts`; `MaxPieces`
of one chunk in the run). The query formulator fails open and is not visible.

### RagPipeline

`plan` holds the cohorts and the guardrail mode, all from one snapshot; `stage` is
where `answer()` is; `crag`, `draft` and `final` are the function's local variables
of the same meaning. `CorrectiveRetrieval` and `SelfReflection` are instantiated
over the pipeline's own variables, and a stage that runs one of them takes its
steps. "off" stands for a disabled feature and for the control cohort, which differ
in counters and in the namespace only. `fellBack` is the set of HyDE, the reranker and
the draft (replaced because of a fabricated citation), as far as each fell back; the
correction and the reflection have flags of their own in `crag` and `final`. What the
write decides from all of these (`Degraded`) and what `CachedIsWhatThePlanSays` demands
stage by stage, also of the correction and the engine themselves, are two things. `Fail`
is any exception that leaves `answer()`: of a stage without a fallback, or of writing the
audit row of the context guard or of the output guard, which nothing catches. A chunk
that the context guard would block is a member of `Flagged`. A redaction by the output guard
leaves the answer and its citations what they are in the model. Evidence that
reflection retrieves does not pass the context guard in the code, and
`GuardedEvidence` says so by its condition. Confidence, metrics, the claim checker's
wording and message texts are left out.

### ChatTurns

`req[r]` is a request with the step it is at, the user of its token, its conversation,
what the input scanner finds in its question, the configuration the orchestrator
captured, its route and its status. `conversations`, `recent` (the order of
`updated_at`), `history`, `proposals` and `events` are the tables a turn writes. Every
database call is two steps: `Take` a connection of the pool, then the statement and
the commit, with the connection given back in the same step on every path; with no
connection left `Exhausted` raises, as `psycopg2`'s pool does. The answer to a commit
may be lost (`arrives`), so a row may be there although the request went on as if it
had failed. `Raises` is any other exception, at every call. `SetConfig` changes the
worker's configuration at any moment; `Crash` ends all requests. Of
`RAGService.answer` the steps here are those that touch the pool or have an answer to
lose: `Rag` (up to the context guard, with the configuration read again), `AuditContext`,
`Draft` (up to the output guard) and `AuditOutput`; the audit rows are transactions that
nothing catches. The rest of it is in `RagPipeline`. The generation and validation of an
SQL statement are one outcome; `SqlProposals` is about what follows.

`StoredIsTold` is what is left of "an answer is never lost" in this code: whatever was
stored for a question is never followed by an error, since the proposal is the last step
that may fail and saving the turn is best effort. An answer that is made but not stored is
lost to an empty pool (`AnswerOutlivesFailures`, below): at the audit row of the output
guard, and, on the hybrid route, at the catalog or the proposal.

### LazySingletons and WorkerWiring

A getter of `api/deps.py` under `lru_cache(maxsize=1)` calls the getters of its
arguments in their order, builds its object, and is kept; the cache does not lock
while it runs, so two first calls both build, the first to finish is kept, and each
goes on with its own. An exception unwinds all getters in progress. An object is
named by its getter and the thread that built it. `WorkerWiring` is the graph: every
getter and what it calls, which are under the decorator, which hold process state and
which connect to something when they are built. Its tables follow the sections of
`api/deps.py`, and `Graph` looks each getter up in the one of them it is in.

### LlmCalls and EmbeddingCalls

`LlmCalls` is one call of the chat client, with or without a deadline: time passes
only in an attempt, up to its timeout, and in a sleep. That an attempt ends within its
timeout is assumed: httpx applies the timeout to each phase of a request, so an answer that
trickles in may take longer. A backoff is shortened to the time that remains, and may use
all of it, so that no attempt follows; `GivesUpForAReason` allows that. `EmbeddingCalls` is
`embed_texts` with several callers over one cache: reading it text by text, asking
once for the distinct misses, a response whose items come in any order and may leave
inputs out, storing item by item. A vector is the model and the text it was made from.

### RateLimiter

One address and route. A request stamps itself, then sends its five Redis commands,
each a step, so those of several requests alternate. The members of the set are the
stamps themselves, as in the code, where two equal stamps are one member; when the set
empties, its expiry goes with it. One clock is shared by the workers and Redis. `MaxStall`
bounds the time between the stamp and the last command. `disturbed` remembers the two
cases in which the count falls short: equal stamps, and a key that expired between
two commands of a request.

### RagMetrics

A record is two statements (the window, then the totals) and a snapshot two reads,
under one lock. A record uses one token, so totals count records; latencies are
ranks; the statistics of each stage are those of the code.

### SemanticCollection

Every call to Qdrant is a step and may fail; the flag and the lock are per worker,
the collection is everybody's. A call that failed may still be with Qdrant
(`abandoned`) and be done later, when the lock is released and the operation over
(`LateCreation`, `LateIndex`, `LateDeletion`). Looking up and recording make the same
calls here and are one kind of operation. A clear deletes the collection and creates it
again without taking the lock, as in the code. `broken` remembers a call that failed in
between, or that came late and changed something.

### CollectionMigration

The script, the application it migrates and the operator who follows what it logs.
A collection is the set of the files in it; a name is resolved through the aliases, as
Qdrant does. The script may be stopped before every call and run again; workers
create the configured collection when they start and do not find it. Administrators may
publish an upload at any time, in what is served then (`PublishUpload`). The script reads
the policy directory only, so what `ServedStaysComplete` promises is of its files; that
uploads are lost with the old collection is `UploadsStay`.

### MCServices

The small modules meet nowhere but in the process, so one specification holds an
instance of each (and the instance of `RagOpsConfig` with dependent flags); the
variable `part` says which of them moves in a behaviour, and the others stay in
their first state. Its states are therefore the sum and not the product of the parts'.

## Runs

| Run | Instance | What it shows |
|---|---|---|
| `sql_safety` | 1 proposal, 3 requests, 2 workers, 2 users, 2 policies | at most one run, one lease holder who is the owner, closed proposals inert, "executed" true, the approved policy version, no late claim |
| `sql_live` | 2 proposals, 2 requests | the workflow implements `ProposalConsent`, and every lease ends |
| `config_turns` | 2 workers, one admin request under way at a time | the workers converge, whatever crashes and is lost in between |
| `policy` | 2 sources, 2 requests that overlap freely, 2 parts, 3 uploads, a run of `seed_db.py`, failures everywhere | nothing is searchable without an approval; a source that did not stray shows only scanned chunks; `scan_failed` is never overwritten but by a rejection; the workflow implements `Quarantine` |
| `cache_fresh` | 2 admins, 1 request, 3 generations, 3 configurations, everything fails | nobody is served anything older than the version he captured, and bumping alone retires every outdated answer |
| `reflection` | 3 chunks, 2 revisions, 1 retrieval, tokens for two calls | what is accepted was judged, a failure returns the draft, the budgets hold against any policy, nothing starts after the deadline, `reflect()` returns |
| `pipeline` | 2 policy chunks (one flagged), 1 web page, every cohort and mode | what is cached, cited, served from a shadow, served after a failure, and which evidence is let in |
| `chat` | 2 requests, an admin and a user, 3 configurations that change at any time, a pool of one connection, crashes, lost answers | turns and proposals belong to their user, proposals are authorised by the captured configuration, the response says what happened, the audit row comes first, what was stored is not followed by an error |
| `services` | each service on its own: 2 admins with dependent flags; 2 threads over the whole graph of getters; every deadline and number of attempts; 2 embedding callers; 3 requests to a limit of 2; 2 threads and 3 records; 3 threads of 2 workers and a call given up on; 4 runs of the script and an upload | versions stay applicable and explained, and a poll misses only a change that was overtaken, while transactions overlap freely; what must be shared is, unless two threads met in its getter; deadlines hold, and a call gives up only for a reason; vectors line up; the limit holds from both sides; snapshots are of one moment; a ready worker has its collection; what is served stays complete |

Runs that end in a violation are disagreements between the code and what it says
of itself; `PROJECT.json` quotes the sentences.

| Run | The disagreement |
|---|---|
| `config_reorder` | two requests of one worker commit in one order and apply in the other; the poller does not repair it |
| `policy_race` | an approval activates chunks of a newer upload that was not scanned |
| `pipeline_fabricated` | without evidence the citation check finds nothing, so a draft that cites a policy anyway is served |

### Further configurations

These are kept to be run by hand (`tlc -config X.cfg MCY`, for the pipeline
`RagPipeline`). Except for the two `_live` ones, each ends in a counterexample: its
property is a sentence of the code that the code does not keep.

| Configuration | Property | The sentence, and what happens |
|---|---|---|
| `SqlProposals_reclaim` | `ReclaimsOnlyAbandoned` | the reclaimer "only ever catches a genuinely abandoned EXECUTING row"; it also fails rows whose request is alive, waiting for the answer LLM |
| `SqlProposals_killswitch` | `DisabledIsImmediate` | disabling SQL makes proposals "unexecutable immediately"; an approval that read the configuration before goes on |
| the same | `LockdownDeniesExecute` in its place | "propose and execute both denied" under lockdown; the approval path does not look at it |
| `RagOpsConfig_clock` | `EveryChangeIsPushed` | the row is pushed "if it has changed since the last poll"; a transaction that began earlier and commits later has a smaller `updated_at` |
| `RagOpsConfig_bump` | `BumpIsObserved` | a bump is observed "immediately on the worker that bumped it"; it is observed at its next poll |
| `PolicyIngestion_stuck` | `ApprovedIsUnsearchable` | a row left at `approved` may well be searchable |
| `AnswerCache_replace` | `UpToDate` | replacing a searchable document invalidates nothing |
| `AnswerCache_mode` | `EnforcedAnswersOnly` | answers made under `monitor` are served under `enforce` |
| `RagPipeline_guess` | `NoGuess` | "never an LLM guess filling an evidence gap"; the context guard may drop all evidence of a correction that did not abstain, and the model is asked |
| `ChatTurns_monitor` | `MonitorOnlyObserves` | in monitor mode, too, a question is answered with an error when its audit row cannot be written |
| `ChatTurns_answer` | `AnswerOutlivesFailures` | "an answer that already cost an LLM call shouldn't 500", said of an answer that the guard blocks; an audit row of the output guard that cannot be written, or the catalog or proposal of a hybrid answer's other half, ends the request |
| `ChatTurns_recent` | `MostRecentFirst` | the turn and `updated_at` are two transactions, so the conversation with the latest turn need not come first |
| `ChatTurns_live` | `EveryTurnEnds` | holds: every request ends |
| `RagPipeline_live` | `Answers` | holds: every request is answered or fails |

Three configurations answer more when one line of them is changed. In
`PolicyIngestion_policy`, `ScrollLimit = 1` refutes `LiveWasScannedInTurn`,
`HonoursQuarantine` and `OneUploadPerSource`: the scan and the deletion read one page, the approval publishes
everything, so a document must fit into the page. In `Services`, the type
invariants `WiringTypeOK`, `LlmTypeOK` and `MigrationTypeOK` hold, and these do not:
`OneConfiguration` (two first requests build two configuration stores, and only one
of them is fed), `LimitAlwaysHolds` (the limiter without its two exceptions),
`NeverStranded` (a failed clear leaves a ready worker without a collection),
`UploadsStay` (what was uploaded is not in the new collection), `ToldOnlyLeftovers` (the script tells the operator to delete what is being served) and
`CachesFollow` (answers computed during the migration survive the invalidation). With
four requests and `MaxTime = 9`, `RateLimiter` alone refutes `ResetHasRoom`: refused
requests count as well, so the window may still be full when it was said to have room.

### Bounds, and why they are enough

Every bound is a constant with a comment: `MaxCatalog`, `MaxClock`, `MaxUploads`,
`MaxReseeds`, `MaxGeneration`, `MaxConfigs`, `MaxCost`, `MaxTime`, `MaxTexts`,
`MaxRecords`, `MaxRuns`, `MaxPieces`, `MaxAbandoned`. Each hazard needs two actors and one event between two steps
of one of them; the instances have two or three actors and room for two such events.
In `sql_safety` a lease is stale after one tick (`StaleAfter = 0`) and a proposal lives
one tick, so every race with time is reachable; `sql_live` gives a lease one tick
more, so that a request may also finish in time. `MaxClock` bounds transactions and
crashes together. In `policy`, three uploads over two sources let one source be
replaced while the other is under way; `ScrollLimit` is larger than the collection.

In `reflection` a call costs up to one token of a budget of two, so a critique or a
revision may be the one that meets the budget or the one that exceeds it; two
revisions and one retrieval are the shipped defaults. In `pipeline` one chunk of
two is flagged and `MinEvidence` is two, so every subset decides something: enough,
too little, nothing, nothing left by the guard; with up to two pieces of a chunk
(`MaxPieces`), one chunk may also be enough. The details of budgets are left to
`reflection` there (`MaxCost = 0`).

In `chat` a pool of one connection makes every database call of one request a
possible exhaustion for the other. In `services` the limiter's window is four ticks and
seven pass, so a window slides out completely and one more stamp fits; with a window of
two the stall of one tick would leave the property nothing to say. The deadlines 1, 3
and 6 lie below the first sleep, between the first two and beyond; two texts, two
models and two callers make every collision of cache keys possible; a metrics window of
two drops a sample at the third record; one call at a time may be with Qdrant although its
caller has gone (`MaxAbandoned`). The proofs have no bounds on proposals, requests,
workers, admins, documents, flags, users, connections, chunks, pieces or budgets.

Deadlock is checked in the SQL and configuration runs. The other runs switch it off:
uploads and corpus changes are counted, and a reflection or a request that has
returned has nothing left to do.

### Fairness

`SqlProposals!FairSpec`: weak fairness of `Reclaim` and of time. The
reclaimer's loop catches every exception of a poll and sleeps; requests get no
fairness at all. `RagOpsConfig!FairSpec`: weak fairness of every worker's poller,
for the same reason, assuming the database can be reached again eventually.
Admins, crashes and requests are never fair. `SelfReflection!FairSpec`: weak fairness
of `Round`, the engine going on: each of its three calls is given a timeout of its
own, so it returns or raises; the deadline itself need never come, so `Terminates`
rests on the counters alone. `RagPipeline!FairSpec`: the same for the pipeline's
stages. `ChatTurns!ChatFairSpec`: weak fairness of each request: every call returns
or raises, and the pool raises when it is empty, so nobody waits for a connection.

## Proofs

The run of a module checks its properties; its type invariant and its strengthening
are proved rather than run.

`SqlProposalsProofs`. `AtMostOneRun` is not inductive: that the counter stays at
one needs to know that a lease holder before execution has not run yet, that there
is only one, and that no row goes back to pending. `LeaseDiscipline` is the
strengthening (sole holder, holder matches row, counter matches row); with
`TypeOK` it is inductive, and the other safety properties follow from it.
`RunsWhatWasApproved` needs one more invariant (`ValidatedBinding`). The
refinement theorem maps each action to a step of `ProposalConsent` or a stutter.
`ClaimedInTime` is an action property over the same invariant: of all steps only
`LockGranted` moves a row from `proposed` to `executing`, and it does so under the row lock,
for the owner, and not for a request that began after the proposal had lapsed (`StatusStep`).

`RagOpsConfigProofs`. `AlwaysApplicable` is inductive together with `TypeOK`: an
update commits only if `Allowed` accepts the merged fields under the lock, and a
switch or a bump leaves the dependent flags alone (`SwitchesOnly`). `AuditExplainsRow`
rests on the row lock: the values an entry calls old are those of the version the
same transaction replaced.

`PollsMissOnlyOvertaken` makes no assumption about who overlaps whom. What a poller has
marked is the stamp of a version that its worker's store, once built, has held or gone
past (`MarksWereHeld`); so a poll that is skipped has read a version that began no later
than one that reached the store. It needs that a request is served by a worker with a
store (`ServersHaveStores`). That a poll misses nothing at all, and that the store never
goes back, is what overlapping requests refute (`RagOpsConfig_clock`, `config_reorder`).

`PolicyIngestionProofs` has three inductive invariants. `Approvals` (types, the shape of
the rows, `LiveHasApproval`) needs no assumption about who does what when. `InTurn`
adds the files and, for every source that did not stray, `TurnOf`: what the one
request at work on it knows of its chunks (`ChunksKnown`), and what holds of the
chunks when none is (`Settled`). A step concerns one source (`Around`), all others keep
their turn (`OthersKeepTurns`), and so the proof is about one request at a time.
`LiveWasScannedInTurn` and `OneUploadPerSource` are proved under `[]OnePage`: no scroll
meets its limit.

The refinement of `Quarantine` needs a third, `Supervision`: that a row was scanned says
nothing of the stage unless it speaks for exactly the chunks there are now. So a document
has one row at most (`Numbered`), a row's texts are of its own document (`OwnTexts`), the
chunks of a source are published together (`ReadInTurn`), and the request at work knows
what it has read (`JobRead`). Each step then concerns one source (`Concerns`): its stage
takes one step of `Quarantine` or none (`Moves`), and no other stage changes. The
theorem is `Spec /\ []OnePage => HonoursQuarantine`; with a smaller page TLC refutes
it, as said above.

`AnswerCacheProofs`. `FreshNamespaces` needs to know that corpus versions never
decrease along the configurations, that equal versions carry the same generation,
that no key is ahead of the latest version, and that whatever a request has
retrieved is at least as new as the version it captured: that is `Freshness`.
`ServedFresh` follows, since a semantic candidate has the namespace of its request.
`BumpsSuffice` needs besides that an orderly history leaves the latest version with
the latest generation.

`SelfReflectionProofs`. `AcceptedAsJudged` needs to know that an answer about to be
accepted is still the one that was judged, and `WithinBudget` what each phase has
already compared with its budget (a reviser is only asked while `iteration` is below
its limit and tokens are left). `Rounds` says this phase by phase; with `TypeOK` and
the properties it is inductive, one lemma per action. The proof does not use what
the policy is told, only that it accepts nothing that did not pass (`DecisionsSound`).
`NothingAfterDeadline` follows from the actions alone. `RoundsRunOut` gives the variant
behind `Terminates`: at most five steps to a revision, and no more revisions than the limit.

`RagPipelineProofs`. Every property relates the response to a stage that ended long
before, so the invariant follows the data: what the corrective retriever knows in each
phase (`Correcting`, `CorrectionSound`), which of its outcomes is used behind the guard
(`Used`), what the engine was given (`Tied`), and what the final outcome and the
response inherit (`Finals`, `Responded`). The engine is not proved about again: its
inductive invariant is instantiated from `SelfReflectionProofs`, whose lemmas hold
since the pipeline's rounds are the engine's (`SameRound`). All five properties of
the run follow. What the correction passed on as local evidence is known by its count of
pieces in each phase (`Correcting`), however many sources they are from. `RequestsRunOut` adds up the stages to come, the phases of the correction
and the engine's variant: a request takes at most `5 * MaxIterations + 17` steps.

`ChatTurnsProofs`. A proposal is authorised by a configuration read several steps
earlier, so `Justified` keeps for each step what has been decided on the way to it,
`Knows` what its request holds, and `Turns` ties rows to conversations, which are
never given away. The pool's bound (`ConnectionsComeBack`) is the invariant that a
connection is held only inside a database call. `WhatIsStoredIsTold` needs to
know where a request is that has stored something (`Past`, `Saved`): at a step whose
failure is caught, or done. `TurnsRunOut` is the variant behind
`EveryTurnEnds`, per request: two steps for each step to come, the connection and the
call, and nobody else can make it larger.

`ServicesProofs`. Seven developments beside each other, for the services share nothing.
The wiring, for any graph of getters with a rank that falls along every call: the getters a
thread is inside of call each other (`StacksAreCalls`), so their rank falls and none occurs
twice; and a part that has to be shared is the kept one, unless another thread was inside
its getter at the same time (`WiringInv`). `TheWorkerIsWiredOnce` is the
program's own graph: its getters form eight layers (`LayerOf`), every
call goes to a lower one (`GraphCallsDown`), and every getter that holds process state is
under the cache decorator (`StatefulIsKept`).
The LLM client: at its top, in an attempt and in a pause the loop has used no more time
than it was given (`LlmProgress`). The embedding client: results and misses line up with
the texts at every step (`CallLinesUp`), and every entry of the cache is its key's vector.
The limiter: stamps are of the past and stay in the sorted set for the window, so when a
request counts, all those of its window that have been let in are among what it counts,
and its count bounds them (`FewAreChosen`); this needs the library's theorems on
cardinality. The metrics: a deque that drops its
oldest is the last part of all that was recorded (`LastOfNext`), the totals agree with it
but for the holder of the lock (`CountersAgree`), and for the percentiles some latency is
at every index of the sorted samples (`PercentileIs`). The collection: a creation under
way either holds its worker's lock or belongs to a clear, and a missing index is still to
be made (`IndexesFollow`). The migration: what a run is going to publish is whole before
it publishes it (`RunKnows`).

Assumptions: only the named assumptions on the constants (`SqlAssumption`,
`ConfigAssumption`, `IngestionAssumption`, `CacheAssumption`, `ReflectionAssumption`,
`PipelineAssumption`, `ChatAssumption`, `WiringAssumption`,
`LlmAssumption`, `EmbedAssumption`, `LimiterAssumption`, `MetricsAssumption`,
`CollectionAssumption`, `MigrationAssumption`), each of which says
the kind of a constant or what the code checks at start-up, and `OnePage` where it is named.

Only model-checked: liveness itself (`ExecutingEnds`, `Converges`, `Terminates`,
`Answers`, `EveryTurnEnds`), since fairness and ENABLED are out of the prover's reach. Of
the last three the variant is proved (`RoundsRunOut`, `RequestsRunOut`, `TurnsRunOut`), and
of the pollers what a poll can miss (`PollsMissOnlyOvertaken`); that there always is a next
step, and that it is taken, is what the runs show.

## Not modelled

Text: prompts, scanners, SQL syntax trees, document parsing, citations' wording.
Real arithmetic: scores, embeddings, fusion, confidence. Of the metrics, the counters
of bypassed and cached answers, which are one statement each; of the semantic cache,
its lookup and hit counters; of the rate limiter, the in-memory variant, which
is the same window under a lock. Of the scripts, backfills and a forced local
re-creation, which an operator runs alone. Start-up configuration, hashing and
signing, health probes, the evaluation harness. `PROJECT.json` lists each part with
the reason.

## Plan

What is left, in this order. An abstract specification of the pipeline (an answer is
drafted, checked, served or replaced) that `RagPipelineProofs` would then relate to it,
and one of the answer cache (what is served is of the version captured, or newer). A
composition of `PolicyIngestion` with `AnswerCache` over the row they share. Variants for
a call of `LlmCalls` and for the lease of `SqlProposals`.
