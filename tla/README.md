# AIM in TLA+

AIM answers questions about an organisation: a FastAPI service (`aim/`) runs a
graph of LLM and retrieval steps over Neo4j, a vector store and external
sources reached by MCP, keeps conversations and a cache in Redis, and streams
the answer to a browser client (`frontend/`). This directory holds TLA+ models
of that code, their TLC configurations and machine-checked proofs.

Everything runs in this directory:

    tlasany M.tla                                # parse
    tlc -workers 2 -config X.cfg MCModule        # one run of PROJECT.json
    tlapm MProofs.tla                            # the proofs of a module

`PROJECT.json` lists components, runs, hazards, findings and theorems, and maps
every definition to the lines it models.

## 1. Inventory

| Component | State | Operations | Hard part | Modules |
|---|---|---|---|---|
| Ingest worker `aim/workers/ingest_worker.py` | jobs by id, bounded queue, consumer task, draining flag | enqueue, enqueue_extraction, consumer loop, evict, start, stop | callers, consumer, stop and Neo4j interleave at every await; lost answers; retries | `IngestWorker`, `JobService` |
| Circuit breaker `aim/utils/circuit_breaker.py` | stored state, failure count, time of last failure | call, success, failure, reset | calls end in any order, long after the state that admitted them | `CircuitBreaker` |
| Startup, migrations `aim/main.py`, `aim/graph/migrations.py` | versions and schema in Neo4j, where each instance stands | start, migrate, serve, die | crash or lost answer between command and record; instances at once | `Startup` |
| Conversation store `aim/utils/conversation_store.py` | per thread turns and owner; per key an index, old and new | append_turn, _update_index, delete_thread, list_threads | optimistic transactions of several processes; two keys, two transactions; migration | `ConversationStore` |
| Reasoning loop `aim/agents/reasoning_agent.py`, `state.py`, `nodes/` | the channels of AgentState | five kinds of node, fan-out and join, evaluation and reloop | reducers of parallel writes, timeouts that return the input, stale flags | `ReasoningLoop` (partly) |
| Response cache `aim/utils/cache.py` | Redis, LRU, `_redis_ok`, reconnect timer, key of encryption | get, set, delete, tenanted variants, health check, reaper | two stores that disagree after an outage | `ResponseCache` |
| Rate limiter `aim/api/deps.py`; feedback `aim/api/routes/feedback.py` | sorted set in Redis, token bucket | check; rate, read a rating | undo that may fail, change of backend | `Gateway` |
| Query routes `aim/api/routes/query.py` | none of their own | query, stream, get | thread, cache, run, turn and disconnect in one handler | `QueryRoute`; `Gateway` (get), `Answers` (exact incidents) |
| Branches `reasoning_agent.py`, `branch_selector.py` | candidates | fan-out, select | partial failure | `QueryRoute`, `Ranking` |
| Browser client `frontend/hooks/useAIMQuery.ts`, `stores/aim-store.ts` | controller, token buffer, frame, timers, messages | submit, abort, retry, flush, finalise | overlapping queries share mutable refs | `QueryClient` |
| MCP stdio client, session pool `aim/mcp/client/` | subprocess, pending requests, reader, sessions, listings | start, send, read, stop, get_session, list, invalidate, shutdown | replies, timeouts, cancellation and death of the process race | `SessionPool` (pool partly) |
| Live ingestion `aim/ingestion/live_worker.py`; Neo4j client `aim/graph/` | the graph | ingest_document, ingest_batch, delete | read, derive, write edge by edge | `LiveGraph` (Neo4j client partly) |
| Webhooks `aim/api/routes/webhooks.py`; poller `aim/workers/mcp_ingest_worker.py` | cursors, event stream | enqueue text; poll, tail, stop | refusal of a full queue, re-reading | `IngestSources` |
| Access, sovereignty, encryption `aim/utils/` | none | who sees what, what may leave, what a key reads | inheritance of labels; rotation of keys | `Governance` |
| Facts and truth `aim/utils/facts.py`, `truth.py` | none | fact layer, resolution of claims | groups that overlap | `Truth`, `Governance` |
| Ranking and scoring `aim/agents/` | none | path, branch and hybrid scores, reranking, evaluation | zero, ties, mixed scales | `Ranking` |
| Answer synthesis `aim/agents/nodes/synthesizer.py` | none | refusals, incidents, responders, citations, confidence, temporal chain | rules that override each other | `Answers`, `Synthesis` (partly) |
| Graph search `aim/agents/nodes/graph_searcher.py` | none | one pass over its calls | each call may fail alone | `GraphSearch` (partly) |
| Extraction `aim/extraction/` | the deduplicator's index | extract, merge | order of messages over a process's life | `Extraction` |
| Decomposition `nodes/decomposer.py` | none | sub-queries from reply and feedback | stale feedback | `Decomposition` (partly) |
| JSON-RPC server, fetch handler `aim/mcp/` | none | handle, batches; fetch with deadlines | one bad item among good ones | `McpServer` (partly) |
| Audit log `aim/utils/audit_log.py` | entries and index in Redis | record, read | two commands | `AuditLog` (partly) |
| LLM wrappers `aim/llm/factory.py` | slot counter | invoke, stream | | guard in `Governance`; rest no |
| Vector stores, application shell, evaluation, dashboard, scripts | | | I/O, text, rendering | no (section 5) |

How they interact. A query route reads the conversation thread, runs the
reasoning loop (several branches of it on request), stores the answer in the
cache and appends a turn. The loop's nodes call the LLM wrappers, Neo4j and the
vector store, each through a circuit breaker, and MCP sources through the fetch
handler, session pool and stdio client. Webhooks, the graph routes and the
poller put jobs on the ingest worker's queue; live ingestion writes beside it.
`aim/main.py` runs the migrations and starts the worker before it serves
requests. The browser talks to the streaming route only. All Python parts of
one process share an event loop, so code between two awaits is atomic; several
processes share Redis and Neo4j.

Compositions: `Startup` runs the migrations of several instances with the
breaker of one; `Gateway` puts limiter, feedback and the read route on the
cache; `QueryRoute` puts thread check, branches, cache and turn in one handler;
`SessionPool` holds the stdio client under the pool; `IngestSources` puts
webhooks and poller on the queue whose consumer writes `LiveGraph`.

## 2. Modules

| Module | Models | State and actions |
|---|---|---|
| `IngestWorker` | the worker in one process, from start to stop | `_jobs` as functions over `Job` (`status`, `kind`, `entities`, `retries`, times), `_queue`, the consumer's `pc` (the await it is suspended at), `cur`, `attempt`, `_draining`, Neo4j as the last writer of each entity. One action per stretch between two awaits: `Accept`/`Refuse`, `Take`, `Wait`, `GetTimedOut`, `DrainedExit`, `ExtractionDone`/`Failed`, `IngestDone`/`Raised`, `Retry`, `Start`, `StopCalled`, `StopJoined`, `StopTimedOut`. Eviction runs inside `Finish`, as in the code. |
| `JobService` | nothing in the code: what a poller is promised | a phase per job and the graph; no queue, task or clock. `JobServiceRefinement` maps `phase <- status, batch <- entities, order <- arrival` |
| `CircuitBreaker` | one breaker and its callers | stored state, `_failures`, age of the last failure; `Admit`, `OnSuccess`, `OnFailure`, `PassOn`, `Reset`, `Tick`. A cancelled caller counts as a failure, however well the service is. A call in flight lies between `Admit` and its end. |
| `Startup` | EXTENDS `CircuitBreaker` with instances on one Neo4j | `pc`, pending versions, `schema`, `recorded`, `duplicates`; `ReadVersions`, `Apply`, `Record`, `MigrationFails`, `Crash`, `Collide` (two MERGEs without the constraint) |
| `ConversationStore` | Redis keys, and requests of any number of processes | thread, index and legacy index; each request with its attempt, the value it is about to write and whether its watched key was written. `ReadThread`/`SaveThread`, `ReadIndex`/`WriteIndex`, `EraseThread`, each with its reply or without (`LoseReply`), `Conflict`, `Abandon`, expiry |
| `ThreadLists` | EXTENDS `ConversationStore` with two histories | no state of the code: `unlisted` and `gone` tell for which threads something came between the two transactions of an append, or between thread and list. Its actions are those of `ConversationStore` with the histories written beside: `Save`, `List`, `Erase`, `Leave`, `LoseThread`, `LoseIndex`, `GoOn` |
| `ReasoningLoop` | one run of the compiled graph | the channels the control flow reads, and the sources; a superstep per action: `Decompose`, `Retrieve` (three nodes and their folds), `Synthesize`, `Evaluate`, `EvaluateTimeout`, `Fail` |
| `ResponseCache` | one process, its calls in flight, Redis | places (tenant, key) in Redis and in the LRU, each call suspended at a ping or a Redis command; failures with or without the effect, health check, expiry, reaper, restart under another encryption setting |
| `Gateway` | EXTENDS `ResponseCache` with limiter, feedback, GET /query/{id} | the window in Redis and its key's TTL, the bucket, each request's way through limiter and cache with the age of the clock it read |
| `QueryClient` | the hook and the store in one tab | per query its place in the retry loop and its stream; the shared refs (controller, buffer, frame), timers, messages; server and user act at any time |
| `SessionPool` | callers over pool, session, client, subprocess | clients by generation with reader and request table, the process and its pipe, the pool's session and listing; the server answers, notifies, exits, closes its output or hangs; callers are cancelled anywhere |
| `QueryRoute` | handlers of both routes | per handler thread check (which a failed read passes), branches, tokens, answer, cache, turn; `threads`, `cache`; a client that leaves and asks again |
| `LiveGraph` | writers on the graph | nodes with versions, each with a text of its own; MENTIONS edges, calls of ingest_document between reads and writes, the consumer's jobs and batches, deletions, failures. A writer notes whether the corpus (documents or their texts) changed since its read; its document, or one whose text a batch replaced, is `unsure` from then until a call that was not disturbed |
| `Lists` | `[x for x in list if ...]` of the store and of the browser | no state: `Picked(list, positions)`, used by `ConversationStore` and `QueryClient` |
| `IngestSources` | EXTENDS `LiveGraph` with webhooks and poller | unacknowledged events, stream, cursors, the poller's await and the items it still has to extract. A uri stands for what the search of its provider may find |
| `Governance`, `Truth`, `Ranking`, `Answers`, `Synthesis`, `GraphSearch`, `Extraction`, `Decomposition`, `McpServer`, `AuditLog` | what does not interleave, as operators | constants only; folds over bounded inputs |
| `MC*` | | instances for TLC. `MCAlgorithms` has one variable, `case`: from `Start` a behaviour takes one step to an algorithm with one input; the invariants compare the result with what it is for. `GraphSearch` is staged inside that step (accumulator, entities, pairs, results), each evaluated once |
| `*Proofs` | | inductive invariants and theorems of the module named; `QueryRouteProofs` also those of `ReasoningLoop`, `Governance`, `Ranking` and `McpServer`, which a request runs through |

A property that a run checks is the conjunction of named parts, defined at the
end of its module (for the algorithms in `MCAlgorithms`); the comment of each
part says which behaviour of the code it is about.

Histories, which the code does not keep, are marked in the declarations:
`arrival`, `ended_at` (IngestWorker); `since` (CircuitBreaker); `pass`,
`evalTimedOut` (ReasoningLoop); `writes`, `newest`, `unretired`, `restarts`
(ResponseCache); `granted`, `asks` (Gateway); `got`, `crossed`, `cut`,
`timedOut`, `silenced`, `freed`, `asleep` (QueryClient); `late`, `abandoned`,
`replaced`, `overtaken` (SessionPool); `early`, `unread`, `pass`, `lost` (QueryRoute);
`unsure` (LiveGraph); `again` (ConversationStore); `unlisted`, `gone` (ThreadLists). Guards read them only to keep a bound. Operators called a
mutant of another one describe plausible bugs; nothing uses them. They show
that each property of a passing run can fail.

Abstractions. A batch is a set of entities; a turn, a token and a value are the
request, query or write they come from. A source is the retrieval that found
it, and whether in the first pass. A text is the set of names it mentions. A
score below or above the threshold is a free choice where control depends on
it, and an integer (per cent or ten-thousandths) in `Ranking`. Redis errors are:
nothing happened, the command happened but its reply did not arrive, a read
that counts as a miss, a TTL that ran out. Encryption is which setting wrote a
value. A pipe hands on lines in order; what a line says is its request.

## 3. Runs

### What they check

| Run | Properties (parts) | What it shows |
|---|---|---|
| `ingest_safety` | `JobsConsistent` (`TypeOK`, `QueueMatchesStatus`, `RunningIsHeld`), `DoneIsStored`, `FailureIsEarned`, `LatestWins`, `OutcomeRetained`, `ImplementsService` | a queued job is in the queue once; DONE means stored; a job fails only if every attempt failed, the extraction failed or the queue was full; a retry never overwrites a later job; an outcome stays readable for the retention window; all of it is a behaviour of `JobService` |
| `ingest_liveness` | `WorkerProgresses` (`EventuallySettled`, `StopReturns`) | an accepted job is settled unless the process stops; stop() returns |
| `startup` | `BreakerConsistent` (`TypeOK`, `OpenIffThreshold`), `BacksOff`, `StopsRejecting`, `VersionsAreTrue` (`StartupTypeOK`, `RecordedIsThere`, `NoGaps`, `CleanStartMigrates`), `StartEnds` | late answers never set state and counter apart, every failure restarts the wait, once no call fails and no caller is cancelled, time alone ends the rejections for good; a recorded version is there, whoever crashed or migrated beside; every start ends |
| `conversation_safety` | `ListsAgree` (`ListConsistent`, `HistoryTypeOK`, `StoredIsListed`, `ListedIsStored`), `TurnsOnce`, `ThreadsOnlyGrow` (`TurnsKept`, `OwnerStable`), `ListedStays` | no turn overwritten by a concurrent append, and none doubled by conflicts or by what breaks after it, but by a request that sends again what an EXEC without reply had stored; a thread two keys started has one owner; no entry doubled or dropped while the index moves; a thread that exists is in its owner's list and one in a list exists, unless something came between the two transactions |
| `reasoning_safety` | `InBudget` (`TypeOK`, `BoundedUnlessTimeout`), `SourcesStay`, `Terminates` | the loop keeps its budget and misses the recursion limit unless evaluate times out; no later node drops a source; every run ends |
| `gateway_safety` | `CacheConsistent` (`TypeOK`, `ReadsNewest`, `RaisesOnlyInOutage`), `LimitHolds` (`RedisKeepsLimit`, `GrantsBounded`), `LegacyRetired` | a get is never older than what its caller could know of, unless that went to the other store; Redis keeps the limit, by the clock the requests read, however late a pipeline runs and whatever undo fails, and a bound on what a flapping backend gives away; values of before the tenants do not come back |
| `query_route` | `TurnsAreTheirs` (`TypeOK`, `TurnsAreComplete`, `OwnTurns`), `AnswersHold` (`AnswersBecomeTurns`, `BranchesSuffice`), `RequestEnds` | which answers become turns of which thread, that some branches may fail, that requests end |
| `client` | `MessagesConsistent` (`TypeOK`, `AnswerIsItsTokens`, `FrameIsComing`), `ConsoleConsistent` (`OneAtATime`, `BusyMeansRunning`, `CancelSticks`), `QueryEnds` | whose tokens a message holds, when the console is busy, that every query ends |
| `mcp_client` | `CallersAreTold` (`TypeOK`, `NobodyWaitsInVain`, `CancelsOnlyTheDead`), `CacheFresh`, `NoOrphans` | who is told of an end, what is cached, which processes are left |
| `sources` | `EdgesHold` (`TypeOK`, `NoDanglingEdge`, `LinkedUnlessDisturbed`), `PollerCatchesUp` | which mention edges may be missing after overlaps, edits and batches; the poller makes good what a full queue dropped, for what its searches find |
| `algorithms` | `EvidenceHolds` (access, classification, keys, facts, claims), `RankingHolds` (scores, orders, evaluation, merging of results), `CitationsHold` (citations, confidence, temporal chain, paths), `AnswersAreGrounded` (refusals, incidents, responders, sub-queries), `SearchKeepsFinds` (a search and its failing calls), `ToldIsKept` (deduplicator), `CallsAreAccounted` (JSON-RPC, fetch, audit log) | each result compared with what it is for, over bounded inputs |
| `reasoning_loop` (violation) | `LoopBounded` | the one finding, below |

Several properties name an exception ("unless ..."). The exception is what the
code really does wrong or differently, narrowed down until TLC found no other;
section "Where code and text disagree" lists them.

### Where code and text disagree

`reasoning_loop` is the run of PROJECT.json "findings": the loop is bounded by
`max_reasoning_loops`, the text says, but an evaluate that times out leaves
`needs_reloop` as it was, and the graph goes round to the recursion limit.

What else the models made visible, by the line where it happens. Some of these
are exceptions of a property, some an outcome the model allows; none is checked
by a run of its own. Ingest, breaker, conversations, loop:

* `ingest_worker.py:139`: a job refused by a full queue has no `completed_at`,
  so it is never evicted, against the comment at l. 34.
* `circuit_breaker.py:84`: the stored OPEN still reads as HALF_OPEN during a
  probe, so a second caller probes too (docstring l. 6, 80-83).
* `conversation_store.py:289`: after `max_retries` conflicts the turn is logged
  and dropped (docstring 231-233). 289-290: "retry on conflict" retries more: redis-py
  raises a `WatchError`, too, when the connection breaks or times out while a key is
  watched, so an EXEC that was carried out is sent again when its reply is lost, and
  its turn is stored twice. `TurnsOnce` names such requests (`again`). 296, 364: an append that saved its thread
  before a delete lists it again after it (docstring 364: "Atomically delete a thread
  and remove it from the user index"): one of the exceptions of `ListedIsStored`. 144: a legacy index that cannot be
  read is deleted unread (137-140).
* `state.py:63`: of three parallel retrievals the last populated one replaces
  the others' sources (46-47, 132). An empty `missing_hops` never clears the
  channel. `main.py:130`: a failed migration is logged, the instance serves
  without the unique constraint, and duplicates then keep it from being made.

Cache and limiter (`cache.py`):

* 182, 186: a get decrypts what it reads from Redis only, so it raises when it hits an
  entry of the fallback that was written under a key; `RaisesOnlyInOutage` says that
  this is all. 201, 278: what was written or deleted during an outage is not carried
  over to Redis; `ReadsNewest` and `LegacyRetired` name the other store.
* 340: the clock that says what is evicted and is the member's score is read before
  the pipeline is awaited (348). A pipeline late by d frees its place d sooner after its
  answer, and by the time of the answers more than the limit may pass within a window
  (docstring 323-325: "count <= limit", "total in window"). `RedisKeepsLimit` counts by
  the readings; by the answers it holds for a window shorter by the longest delay.
  `deps.py:149`: with a flapping Redis the bucket's limit comes on top, see `GrantsBounded`.

Browser (`useAIMQuery.ts`):

* 274: a query the user cancels ends in AbortError and is sent again. 295:
  giving up writes from a stale snapshot of the messages.
* 328: abort() leaves `rafRef` set, so no frame is scheduled after it; `done`
  leaves a frame scheduled. 108, 124: the fetch timer is not cleared on failure.
* 280, 102: a timeout on the last attempt or in a backoff leaves the status
  busy. 311: the 4 s timer of an earlier error frees the console under a query.

MCP client and routes:

* The respawn quota does not stop restarts; a cancelled initialize leaves its
  process; a listing may be cached after the invalidation that meant it.
* `conversation_store.py:91-101`, 206: a thread that cannot be read counts as none, so
  the request of another key passes the check of the owner (docstring 201: "Raises
  ``PermissionError`` when the thread exists but the key doesn't match") and its turn
  is appended there. `append_turn` does not check the owner; the fast path of POST /query caches
  but writes no turn and is outside the timeout; `done` precedes the saved turn;
  tokens of rejected passes are in the saved turn.

Sources of the graph:

* `mcp_ingest_worker.py:266`: the cursor is read and not used; 358: the tail
  reads the first ten events from `0-0` again each time. Nothing in the
  repository appends to the stream or starts the poller (in the model, some
  other process does).
* `handler.py:332`: resources/read takes the uri for its provider only and runs an
  empty query over that provider's default channels or projects (docstring 323: "Read a
  declared MCP resource by URI"). An event of the stream brings what that search
  finds, not the document it names; a uri no provider declares is "Resource not found",
  and a failed search an empty answer. `max_results_per_provider` is not enforced.
* Documents the poller brings get no MENTIONS edges, nor does a text a batch replaces
  (`queries.py:227`); an edge stays when the name is gone from the text; a webhook answers 500 when
  the queue is full; overlapping `ingest_document` calls may both miss an edge;
  deleted nodes come back with the next poll.

Scoring and governance:

* `graph_scoring.py:267`: a path score of zero counts as missing and gets 0.4.
  `reranker.py:186,195,212`: two rerankers cut to top_k before they sort.
  `branch_selector.py`: the docstring fails for answers of under 12 characters.
* `truth.py`: the loser of a subject group may be active again through an object
  group; a whole group may end superseded; identical claims supersede each other.
* `facts.py`: evidence outside the batch hands on no labels; `synthesizer.py`
  (about 1470) makes fact ids without the evidence uri. Fields confidential by
  name pass `max=confidential` with a secret in their value; one malformed key
  turns encryption off.
* Cross-modal reranking depends on the order of a set; the proximity boost has
  no cap.

Answers and search:

* `synthesizer.py` (about 1844): a name without Latin letters or digits turns
  the refusal off; 1920: an exact-incident answer overrides refusals, and only
  the first incident is answered; 1965: responders match by substring. Offsets
  of citations shift when the answer starts with blanks.
* `graph_searcher.py`: an open circuit drops the results of later sub-queries,
  any other error all of them; a refinement's error ends the search (625); pairs
  beyond the third are reported missing without a search; the cap follows an
  unsorted list (857). Nothing writes `aim:rel_weight_adj` (72-77).
* `llm_extractor.py:150`: facts found by pattern are lost when the LLM fails, and
  when one item of its reply has a confidence that is no number, null properties
  or a name that is no text (484-492, then 174), though 467 says invalid items
  are dropped "rather than failing the entire extraction". `ToldIsKept` names it.
  The deduplicator keeps the first summary told and always the newest name and
  source (115-117), keys names without their type, and is never loaded from the
  graph.
* `jsonrpc.py:114`: `handle`, which never raises (73-83), raises for a fractional
  or structured id; notifications are answered (131). A tool call reports success
  with empty data when its provider failed. A disabled audit log stores its
  first entry.

### Bounds, and why they are enough

* `IngestWorker_safety`: 3 jobs, a queue of 2, 2 attempts. With three jobs one
  runs, one waits and one is refused or follows a retried one, which is all the
  order properties compare; the queue is full while another job runs. One
  entity is enough for "who wrote last": entities never interact. The clock stops at
  `MaxTime = 2` with `Retention = 0`, so a job may end, be kept, and be evicted
  by a later one. Jobs are symmetric.
* `IngestWorker_liveness`: 2 jobs, a queue of 1, all 3 attempts of the code; no
  symmetry, since the properties are temporal.
* `Startup_all`: 3 callers and threshold 2: two fail and a third is in flight
  across the change of state. `ResetTimeout = 2` tells part of the wait from all
  of it; `MaxFailures = 6` caps a counter that is compared with the threshold
  only. Two instances, one at each end of a race; three migrations, of which
  the last is the one data can contradict, so a gap would show below it.
* `ConversationStore_safety`: 3 requests (two appends and a delete), 2 keys,
  3 threads of which two are in the legacy index, `MaxIndex = 2`, so a third
  thread overflows the list, `MaxTurns = 2`, so a third turn pushes one out,
  and 2 attempts, so a request meets a conflict or loses a reply, retries and gives
  up. One thread, not an old one, and the list that moves may expire (`Expiring`): of
  a thread that expires only its being stored and listed matters. A failed
  read of the legacy index is left out: it breaks `ListedStays` (above). The
  theorems hold for every set `Trouble`; only `ListingsStay` assumes what the run
  does, that `"read_fails"` is not in it.
* `ReasoningLoop_*`: `MaxLoops = 3`, the default: above the cap of 2 for multi-hop
  questions, so that both budgets occur. `PassBound` caps the counter
  of passes one above what any property compares it with. The merge order is a
  constant; the runs take one order, the proofs hold for all.

The larger compositions have a variable `plan` in their MC module: the initial
state picks one of a few budgets, each rich in one kind of step and poor in the
others, and the behaviours of every budget are checked in one run.

* `Gateway_safety`: 2 callers of one tenant, a query's key and its feedback's,
  encryption off or on, an LRU of 1, so a second entry evicts. Limit 1 and
  window 2: a request is over the limit and one at the window's edge ages out. A
  pipeline is late by up to 2 ticks (`MaxDelay`), so some enter when their place is over.
  The budgets: two writes; a write and a restart; three requests to the limiter
  and a restart; limiter with cache and read route; feedback. Two writes are what
  "older" needs, and tenants share no place and no bucket.
* `QueryClient_all`: one query with a retry, three tokens, a new conversation and
  a reload; two queries with a retry each and one token. A behaviour stops once a
  query ran over another (`crossed`), after which nothing is claimed.
* `SessionPool_safety`: 2 callers, up to 3 sessions (a death and a respawn, or two
  started at once and one after), up to 4 requests, two versions of a listing. Callers
  are symmetric.
* `QueryRoute_all`: 3 streams of one key; 2 of two passes each; 2 requests of two
  keys on both routes with two branches. The third stream meets one that is
  still saving and one that was given up.
* `IngestSources_all`: 4 documents. One comes to name another in its second version,
  one names it in the first only; two share a name; one no search finds, one is
  too short. Two uris, of two providers; queue 2, as many as one search finds; stream up
  to 2 with a tail of 1 and 1 kept, so it is cut; one failure, one deletion, two
  versions. The budgets: two calls of ingest_document that overlap each other, or an
  edit; a call and a webhook's job; a call and the batches of a poll; polls with a
  deletion, with a stream, and with webhooks of older versions.
* `Algorithms_all`: inputs of two or three elements per collection, all values
  that a condition tells apart. Thresholds are the code's (`ConfidenceThreshold`,
  `SparseBelow`, `PairsRun`) or cut to the input (`DeepCap`).

Deadlock is not checked where the system may stop: jobs used up and the worker
stopped, every request done, the run ended, an input's case reached, a plan
exhausted. `startup` checks it: a breaker and its instances never stop.

### Fairness

* `IngestWorker`: weak fairness of the consumer's steps (the event loop runs a
  task that can run, and every await in the loop is bounded by a timeout: one
  second for the queue, the extraction's and Neo4j's own, the back-off), of
  `Start` (the lifespan calls it) and of the end of `stop()` (`wait_for` with a
  timeout). Callers and the call of stop() are not fair.
* `Startup`: time passes in an instance that serves; each statement of a
  migration is answered or its connection breaks. Boots, crashes, callers and
  their calls are not fair: calls may hang for ever.
* `ReasoningLoop`: each node returns or runs into the timeout `_timed_node`
  gives it.
* `QueryClient`: timers fire (`Timeout`, `Wake`), an aborted fetch rejects
  (`Aborts`) and a closed stream ends (`BreaksOff`). Servers and users are not fair.
* `QueryRoute`: the store's calls return (`Load`, `Cache`, `SaveAndRespond`; Redis
  has socket timeouts) and the route's timeout fires. The agent may hang.
* `IngestSources`: the poller's timer and its awaits end (`Wake`, `ReadResource`,
  `ExtractItem`, `ReadStream`), the worker works, and time and again a listed uri is
  read while the queue is empty: a job commits in less time than a model takes for an
  item. Without that a queue may be full at every poll, and nothing arrives.
  `PollerCatchesUp` supposes besides that from some time on the searches find the
  document (`Misses`), and that what one of them finds fits the queue (`Polled`).
* `ConversationStore`, `Gateway` and `SessionPool` state no liveness: requests may
  be abandoned anywhere, and a server may never answer.

## 4. Proofs

All theorems hold for every value of the constants that satisfies
the assumptions the module names (positive sizes and limits; sentinels
outside the sets they mark; a legacy index that names a thread once; `MaxLoops`
in 1..5, as `config.py` enforces). Every state property and every action
property of the runs on components that interleave is a theorem; each `Inv`
below was an invariant of the component's run before it was proved.

* `IngestWorkerProofs`. `Inv` adds to the type invariant: the loop holds a job
  exactly while it is past the queue (`LoopOK`); what `completed_at` says is
  when the job ended (`EndedOK`); a uuid used once stays used
  (`FreshIsUnordered`); and accepted jobs stand in one line: writers of
  entities, then the job held, then the queue in order (`InLine`). The last is
  what `LatestWins` needs: a write by the held job goes to entities of earlier
  jobs only. Theorems: `NoJobStranded` (which contains the type), `DoneMeansStored`,
  `WritesInOrder`, `OutcomesStayReadable`. `FailuresAreEarned` also needs that
  the consumer counts the attempts on the job it holds (`AttemptsOK`).
  `WorkerImplementsService` is the refinement: each step of the worker
  is a step of `JobService` or leaves phase, batch, order and graph alone. Beyond
  `Inv` it takes that `arrivals` counts the accepted jobs, so that the next order
  of the service is the next arrival, and that only these have a `completed_at`,
  so that eviction forgets none that was refused.
* `StartupProofs`. The breaker first, alone: state and counter agree, and the
  timer is the age of the last failure, whoever failed (`OpensAtThreshold`,
  `WaitsAfterFailure`); then inside an instance that migrates and crashes
  (`BreakerOutlivesCrashes`, `WaitsAcrossStarts`). `VersionsStayTrue` needs to
  know what a migrating instance knows (`WorkIsKnown`): a version it did not put
  on its list is recorded, and the one it is about to record is in the schema.
* `ConversationStoreProofs`. `Inv`: while nobody woke a request, what it is
  about to write is the stored thread plus its turn (`DraftCurrent`), and a turn
  is not yet stored while its request may still store it (`Unwritten`), unless the
  request is one of `again`. From
  the first, a save is an append to what is stored; from the second it adds a
  new turn. `OneMoreTurn` is the lemma about cutting a thread to its limit.
  Theorems: `NoTurnTwice`, `ThreadsKept`. `ListInv` says the same of lists: those
  stored and those about to be written name a thread once (`EachOnce`), and while
  nobody woke a request its list is what a reader sees with its own change made
  (`IndexCurrent`). The latter needs that a plain read of the legacy list does not
  fail, and only `ListingsStay` uses it; `ListsStayConsistent` does not.
  `ListsAgreeAlways` relates threads and lists across the two transactions of an
  append. Its invariant `AgreeInv` adds: a legacy list is gone once there is a current
  one (`Retired`); the list an append is about to write has its thread, that of a
  delete has it no more, and, while nobody woke the request, neither names a thread
  that a reader does not see (`DraftsFit`); an append that is still to list a thread
  finds it stored, or the history names it as gone (`Awaited`); a stored thread has
  an owner (`Owned`). Without `DraftsFit` and `Awaited` a write of a list could name a
  deleted thread that nobody accounts for. It needs nothing of failing reads: what the
  code loses by one is among the threads `unlisted` names. `HistoriesOnlyWatch` says
  that the histories restrict nothing: a behaviour of `ThreadLists` is one of
  `ConversationStore`, so that all other theorems hold of it.
* `QueryRouteProofs`. `Inv` says of a request that may still save a turn that it has
  not failed, that a stream has sent `done`, and that it looked at the thread as
  its owner, before there was one, or in vain (`RequestsSound`); and of the request behind a
  turn that it is over, so that what is said of it stays true (`TurnsComplete`).
  Theorem: `TurnsStayTheirs`. `AnswersAlwaysHold` adds what a handler's branches may
  be at each of its steps (`BranchesOK`) and follows an answer seen to the turn.
  The loop (`ReasoningLoop`): `LoopInv` counts. As long as evaluate has answered each
  time, passes begun are at most loops counted plus one, and supersteps are four
  per pass, which the recursion limit leaves room for. Theorems:
  `LoopKeepsBudget`, `SourcesAccumulate`, and `LoopAdvances`, the part of `Terminates`
  that needs no fairness: a step ends the run or uses up one of its supersteps.
* The functions of `Governance`, `Ranking` and `McpServer` that have no fold, at the
  end of `QueryRouteProofs`. `algorithms` checks the properties over bounded inputs, the
  theorems hold for any.
  * `FactsAreMadeOnce`, `FactsAreGoverned`: what `MaterializeFactLayer` returns has the
    same plain relationships as its input, each told its fact (`FactIsTold`), and no
    fact takes the place of evidence, so that a second pass inherits what the first
    did (`InheritedAgain`). Assumed: a batch has one entity per id (the code keys
    them by id); evidence is an artifact and no fact made in the batch; and, for the
    second theorem, no two relationships make the same fact, for of two that do
    the code keeps the governance of the last only.
  * `SecretsAreNotSent`, `ClassifiedAlwaysStaysIn`, `RotationAlwaysReads`. The second
    assumes a policy that allows CONFIDENTIAL where it allows RESTRICTED. The setting
    is a free list, PUBLIC and INTERNAL by default; for a list with RESTRICTED and
    without CONFIDENTIAL the property is false, since the classifier stops at the first
    secret and does not look for markers.
  * `OthersAlwaysKept`, `AnswersAlwaysMatch`: any number of providers and of items.
  * `FailedModelNeverDecides`, `AcceptedAlwaysScoresHere`: any counts and thresholds. The
    first is about questions of one hop: for others missing hops lower the score
    after the model was asked.

  Every input that `algorithms` gives these properties satisfies the assumptions.
* `GatewayProofs`. The limiter, for any delay of the pipelines: what Redis granted is in
  the window until it ages out, as a later pipeline evicts by a clock no newer than now
  and the key outlives it (`GrantsAreMembers`), which needs that an undo takes back the number of its own
  request and of no other (`RequestsApart`); and for each number of ticks, what the
  bucket granted in them and the tokens left come to at most a full bucket per start
  and what these ticks refilled (`BucketPays`). Theorem: `LimitIsKept`. The cache, `CInv`:
  the LRU has one entry per place, written by this process (`Own`); for the newest
  write, and for the one a call in flight could know of, the stores it reached hold
  nothing older at its place, nor at the legacy location unless Redis refused to retire
  it (`Kept`). Theorems: `ReadsStayFresh`, `LegacyStaysRetired`.
* `SessionPoolProofs`. A session is its starter's until it is registered, a request
  is one caller's and in at most that caller's table (`NothingShared`); who runs a
  process (`Kept`); and an old listing has a notification behind it, from the
  server's output through reader and caller to the cache (`StaleIsAnnounced`).
  Theorems: `CallersStayTold`, `ListingsStayFresh`, `ProcessesStayOwned`.
* `IngestSourcesProofs`. A writer that nothing disturbed knows the corpus
  (`CorpusKnown`), then holds or has written every edge that the text it writes and the
  stored ones want between its document and the others (`MissingKnown`); what is on its way is a version that
  was published. Theorem: `EdgesFollowTexts`.
* `QueryClientProofs`. The console, `Inv`: controllers are new with each
  submission and retry, the status is busy while a query lives, a cancelled
  sleeper's controller stays aborted. `ConsoleStaysConsistent` needs no bound on
  queries that run over each other, where the run stops. The messages, `MessageInv`:
  ids grow along the list (`ListsOK`); a running query's message lacks exactly what
  the buffer holds, and a frame flushes into that message only (`Filling`); the message
  of a query that ended is whole in the list and in the saved copy a reload
  reads (`Ended`); a frame is coming for what is in the buffer (`Coming`). Theorem:
  `MessagesStayConsistent`.

What the attempts changed. In `LiveGraph` the batch of a job used to clear
`unsure` of its document by a flag read before another call wrote: the step did not
preserve `LinkedUnlessDisturbed`, and the run had no budget in which a call
overlaps a job. Both are mended. The lists of the store, the
browser and the LRU are filtered by positions (`Picked`) and not by SelectSeq, about
which the prover has no facts. Two constants got an assumption
that says what any use of them has: a version of a listing, a tenant.

Only model-checked: liveness (`WorkerProgresses`, `StopsRejecting`, `StartEnds`,
`Terminates`, `RequestEnds`, `QueryEnds`, `PollerCatchesUp`), which needs
ENABLED; and what sorts, folds or recurses over data, which takes induction: the rest
of `Ranking` (fusion, branches, re-rankers, paths), `AuditLog`, `Truth`, `Answers`,
`Synthesis`, `GraphSearch`, `Extraction` and `Decomposition`. The invariants of
`algorithms` have such parts, or are about the inputs of the run, so none of them is
a theorem as it stands: the theorems above are about their other parts.

## 5. Not modelled

* Vector stores (clients of an external store), the application shell (settings,
  middleware, probes, logging), the evaluation harness (an offline, sequential
  benchmark), the dashboard (rendering), seed and load-test scripts.
* The HTTP clients of LLM providers, and the slot counter in Redis: it lets every
  call through whatever it counts, so it decides nothing.
* The SSE transport's sessions: an unbounded queue each, read by one reader.
* The Cypher of searches: `GraphSearch` starts from what the calls return. Sources made
  of causal relationships and their decay, the learned weights, the similarity
  of titles, prompts, patterns that find secrets or entities in text: inputs.
* A crash of the ingest worker: jobs are in memory only and a restart begins at
  `Init`. A second `start()` does not happen in `aim/main.py`.
* `LiveGraph` takes an upsert as atomic, which is what the unique constraint
  gives; `Startup` models its absence. The registry of breakers: a name per instance.
* In `ReasoningLoop`: hops, prompts, entities, and the streaming variant (their
  decisions are in `Ranking`, `Decomposition` and `QueryRoute`).
  `ConversationStore` without Redis is a no-op and left out, as are
  pagination and the contents of turns.
* In `SessionPool`: the listing of tools (cached alike, never invalidated),
  prompts, ping and subscriptions, which are requests like any other.

## 6. Plan

The model covers the components whose steps interleave, and their safety is proved;
of what does not interleave, what needs no induction. Left are the components of
section 5, and:

1. Liveness. The steps behind `Terminates` are counted (`LoopAdvances`); the like for
   a request's handler and a query's retries would leave only the fairness to TLC.
2. The algorithms that sort and fold, once a prover for induction over sequences is
   at hand: `WinnerIsClose` and `FusionLiftsMatches` first, which decide what is shown.
