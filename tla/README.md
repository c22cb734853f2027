# A verification development for mflow-cpg

mflow-cpg is two systems in one repository: **M-Flow** (`src/src/m_flow`), a
memory engine that ingests documents into datasets and turns them into a
knowledge graph with vectors, and **OmniCPG** (`src/src/omnicpg`, with
`mflow_cpg` and two MCP servers), which builds code property graphs in Neo4j
and answers questions about them. This directory holds TLA+ models of the parts
whose correctness depends on ordering, concurrency and failure, TLC
configurations that check them, and proofs checked by TLAPS. All paths below
are relative to `src/src`.

Contents: [inventory](#inventory) - [what is modelled](#what-is-modelled) -
[the runs](#the-runs) - [fairness](#fairness) - [the proofs](#the-proofs) -
[findings](#findings) - [what is not modelled](#what-is-not-modelled) -
[plan](#plan)

## Inventory

| component | state it keeps | operations | what must hold |
|---|---|---|---|
| run lifecycle: `m_flow/pipeline/operations/{pipeline,run_tasks,record_run_*}.py`, `pipeline/layers`, `pipeline/methods` | append-only table `workflow_runs`; the newest row of a (dataset, workflow) pair is its status | gate on the status, STARTED / COMPLETED / ERRORED rows, reset to INITIATED by `add()`, dismissal, listing of active runs | a status never claims more than the run did; a stale status never hides work; an active run is visible |
| entry points `add`, `memorize`, `ingest` | `_ACTIVE_DATASETS`, the registry of datasets being memorized | reset, register, run a pipeline, unregister, answer | `ingest()` reports COMPLETED only of queryable data; mode `error` excludes |
| executors: `pipeline/layers/pipeline_execution_mode.py` | background tasks, generators of runs | blocking or background execution, of several datasets one after the other | every run reaches a terminal row; a run that fails does not strand the next |
| incremental loading: `pipeline/operations/process_data_items.py`, `db_concurrency.py` | `Data.workflow_state` (JSON per item, shared by all pipelines and datasets), `_STATUS_CACHE` | preload per batch, check, run tasks, mark, collect or raise item errors, serial or `gather` | an item is marked only when done; a COMPLETED run owes no item; a marked item costs nothing |
| `ingest_data` and deletion: `ingestion/pipeline_tasks/ingest_data.py`, `data/methods/delete_dataset.py`, `api/v1/delete/delete.py` | tables `data` and `dataset_data`, graph and vector stores | list, look up, merge, commit; clear marks, drop stores, purge | links, marks and graph agree after any sequence of adds and deletions |
| update: `api/v1/update/update.py` | none | delete, add, memorize | a failure in between does not lose the item |
| progress and queues: `update_pipeline_progress.py`, `queues/workflow_run_info_queues.py`, the websocket of `get_memorize_router.py` | `run_detail` JSON, queues by run id | read-modify-write; push, subscribe, pop, remove | who subscribes to a run hears of its end |
| prune and maintenance: `api/v1/prune`, `api/v1/maintenance` | lock and cooldown of each worker, Redis lock with a timeout | refuse while pipelines are active, delete | two prunes overlap only where a lock was lost; no lock stays taken |
| playground sessions: `api/v1/playground/session.py` | messages, buffer window, counters, datasets being memorized | chat, flush, retry, background memorize | every message reaches long-term memory once |
| coreference sessions: `preprocessing/coreference/session_manager.py` | session table, LRU order, TTL | resolve, reset, expire, evict, clear | a session never answers from another user's context; the least used one is evicted |
| cloud sync: `api/v1/sync`, `shared/sync` | sync operation records, both sides of a dataset | admit, diff, upload, download, close the record | a completed operation has synced what it says and stays closed |
| analysis pipeline: `omnicpg/orchestrator` | nodes and edges in Neo4j, an index of names per run | clear, analyse in chunks, insert, resume, sync with git, enrich | a rebuild is exact; an incremental run never leaves an old text, nor a false call that is not marked as a guess |
| call resolution: `omnicpg/orchestrator/project_orchestrator.py` | index of declarations and declared types | answer each call from the index | what it calls typed is what Java binds; nothing is lost over a whole program |
| control flow: `omnicpg/plugins/*/cfg_builder.py` | edges, the lists already connected | walk the statements of a method | the flow follows the structure of the text |
| procedural memory: `m_flow/memory/procedural` | procedures with a status, supersedes edges between versions | recall, decide, compile, deprecate, write a batch | no procedure is hidden without a successor |
| expansion cache and slicer: `omnicpg/cache`, `omnicpg/slicer` | memory cache, expanded flag in Neo4j | expand on demand, traverse, invalidate | a cached method is complete; slices respect the budget |
| retrieval: `m_flow/retrieval/episodic` | none | search vectors, score episodes by their cheapest path, choose edges to show | a score is that of the path it names, and the path is shown |
| other memory and retrieval, LLM, auth, config, CLI, evaluation, language plugins | mostly none | model calls, lookups, parsing | see [what is not modelled](#what-is-not-modelled) |

**How they interact.** A server process runs every call as an asyncio coroutine;
between two awaits on a database a coroutine is alone. `ingest()` calls `add()`
and then `memorize()`. Both run a pipeline through an executor,
`execute_workflow` and `run_tasks`; the pipelines of concurrent calls meet only
in the database (`workflow_runs`, `data.workflow_state`, `dataset_data`, the
graph) and in two variables of the process (`_ACTIVE_DATASETS`,
`_STATUS_CACHE`). Deletions, dismissals, prune and maintenance read and write
the same tables without taking part in any protocol. Nothing is transactional
beyond one database session, so the hard behaviours are check-then-act races
between sessions, stale copies written back, errors that are collected instead
of raised, and what a cancelled call or a dead process leaves behind.

The hazards this gives rise to, each at its line and with the properties that
cover it, are listed in `PROJECT.json`.

## What is modelled

### `WorkflowRuns` - the life of a run, seen from its dataset

One dataset, a set of call slots (`Calls`) and items. `latest` is the status of
the newest row of `add_pipeline` and `memorize_pipeline`: every reader of the
append-only table looks at that row only, or asks whether an INITIATED or
STARTED row exists, which holds as soon as there is a row (the first is always
STARTED), so older rows are not kept. `active` is the registry, reduced to the
one dataset; `dataset` and `memorized` are the items linked and marked; the
other variables are the locals of a call (`pc` follows the code from await to
await: `reset`, `register`, `fetch`, `gate`, `start`/`restart`, `run`,
`finished`, `leave`).

| code | action |
|---|---|
| `add()` / `ingest()` entry, `_prepare_pipeline_context` | `BeginAdd`, then one `ResetStatus` per row |
| `memorize()` entry, `_check_and_register_datasets` | `BeginMemorize`, `Register`, `RefuseConflict` |
| `fetch_dataset_items`, `check_cache_status`, `cfg.cache` | `FetchItems`, `SkipRun`, `PassGate` |
| `record_run_start` | `StartRun` |
| `process_data_items` over the batches | `ProcessItem`, `FailItem` (detailed in `ItemProcessing`) |
| `record_run_finish`, `_flush_remote_storage` | `FinishRun`, `FlushRun` |
| the two `except` clauses of `run_tasks` | `FailRun` (not raised), `AbortRun` (raised) |
| `asyncio.gather` in `run_with_concurrency_limit`: siblings of an item that raised | `Leftovers`, kept by `AbortRun`; each one ends in `FinishStray` or `LoseStray` |
| `run_pipeline_as_background_process` | `ReturnInBackground` |
| end of `memorize()`, its `finally`, answer of `ingest()` | `Leave` |
| `dismiss_pipeline_run`, `CancelledError`, death of the process | `Dismiss`, `Cancel`, `Crash` |

A run that raises does not take the other coroutines of its batch along: `stray`
holds the (workflow, item) pairs they still have in hand. They link or mark their
item whenever they like, after the ERRORED row and beside any later call, until
they end or the process dies.

`promised`, `orphaned`, `late` and `overlapped` are history variables: they record
what `ingest()` answered, which rows lost their writer, which items such a
coroutine of `add()` has linked and no completed `memorize()` has fetched since,
and whether calls were ever in flight together; no guard reads them.

### `ItemProcessing` - incremental loading, seen from its items

The inside of `ProcessItem`: runs of both pipelines over a set of datasets that
share items. `marks` is `Data.workflow_state`, `links` is `dataset_data`,
`rows` the table `data`, `graph` what the graph holds; `cached` and `cache` are
`_STATUS_CACHE`; `stage` follows each item of the current batch through
`process_items_incremental` (`check`, `tasks`, `mark`, `write`) and through
`ingest_data` (list, look up, commit), and `snap` is the document its coroutine
has loaded and will write back: `_mark_completed` writes it with one entry more,
and `ingest_data` merges the detached row it looked up, `workflow_state` included,
over the row as it is by then (`CommitItem`, case `update`). Deletions run beside them step by step: `dpc`
follows `delete_dataset` (`clear`, `store`, `row`) and `delete()` (`purge`).
`Serial` is the concurrency limit of SQLite; otherwise the coroutines of a batch
run in parallel, and when one raises, `gather` ends the run while its siblings
go on - the model keeps them alive past the end of their run. `earned` records
the (item, pipeline, dataset) triples whose task chain ran to its end.

### `PlaygroundSession` - from the buffer to long-term memory

One session of the playground. `messages`, `start`, `turns`, `tokens`, `mapping`,
`seen`, `flushing`, `retries` and `memorizing` are the fields of the class;
`flush` holds the locals of `flush_to_long_term` across its awaits, `sleeping`
the retries that wait. `tasks`, `left`, `turn`, `step` and `read` follow the
background memorizes through `execute_workflow`, dataset by dataset. `closed` is
the gate: the datasets whose newest `memorize_pipeline` row is STARTED or
COMPLETED. `stored` and `memorized` are what `add()` and `memorize()` have done.
These two calls have modules of their own; here is what a session sees of them.
`add()` opens the gate before it stores anything, and may return or raise
whether or not it stored the episode (it is skipped beside another `add()`, or
fails with item errors collected). `memorize()` reads a dataset, is skipped at a
closed gate and still returns as usual, or starts a run that covers what was read,
fails with its errors collected, or raises. `Shared` says whether other callers and
sessions move the gate as well (`OtherRuns`, `OtherOpens`).

| code | action |
|---|---|
| `_prepare_chat_context`: faces seen, message added | `Meet`, `Ask` |
| `event_stream`: reply added, `should_flush`, flush | `Reply`; the client gone before it: `Disconnect` |
| `flush_to_long_term` up to its first await | `CallFlush`: `RefuseFlush`, `StartFlush` or `BreakFlush` (the `except` clause and the retry it schedules) |
| each `add()` with the reset in it, and after the last one the end of the flush | `AddBegins`, `AddReturns` with `EndFlush` and `Launch` |
| the client gone while the flush of its chat awaits | `CancelFlush` |
| `/flush`, `_retry`, `/link-face` | `ManualFlush`, `RetryFlush`, `LinkFace` |
| `_memorize_then_clear`, and its `finally` | `MemorizeStep`, ending in `MemorizeReturns` or `MemorizeFails` |
| `_execute_for_dataset` within it: items fetched, gate, rows | `ReadDataset`, `SkipDataset`, `StartDataset`, `EndDataset`, `FailDataset` |

A message is its role and weighs one token; participants, names and summaries
are left out, as no flush depends on them. `done`, `late`, `rerun` and `excused`
are history variables; `rerun` are the datasets of which some run wrote STARTED or
COMPLETED since the last `add()` opened their gate. It differs from `closed`
only in a program that forgets the reset, as the mutant `AddBeginsKeepingStatus` does.

Abstractions of `WorkflowRuns` and `ItemProcessing`: an item is its content hash; tasks have no other
effect than the link or the graph content they leave; a run id is its
(dataset, workflow) pair, as in the code, where it is derived from them;
users, tenants and permissions are left out; a batch of `add()` items and of
`memorize()` items is a set, since no action depends on the order.

### `CodeAnalysis` and `CodeIndex` - the code graph under rebuilds and syncs

`CodeIndex` is the abstract specification: an index over files shows of each
file nothing, a damaged remainder, or a text that was read from the source *by
the pass under way*; a pass reads before it shows. `CodeAnalysis` is the
pipeline in detail: `history` holds the commits, `nodes`, `parents`, `calls`,
`virtual`, `guessed` and `inherits` the graph by the files it joins, `run` the locals of
`run_analysis_pipeline`. Its `View` (the text a file's nodes form, or `Torn`)
refines the abstract view, the last commit the source and the chunk at hand what
is read; `ShowsWhatItReads` is that refinement.

| code | action |
|---|---|
| `clear()`, a directory, a single file, `resume` | `StartRebuild`, `StartDirectory`, `StartFile`, `StartResume` |
| `sync_git_changes` from any earlier commit | `StartSync` |
| `clear_files_batch`, one transaction per file | `ClearFile` |
| `scan_directory`, the list of an incremental run | `Scan` |
| `analyze_streaming_files`, chunk by chunk, and its last chunk of calls | `AnalyzeChunk`, `InsertCalls` |
| `insert_nodes`, `insert_edges` | `InsertNode` (a batch of one), `InsertEdges` |
| `materialize_inheritance_edges`, `materialize_cha_polymorphism_edges` | `MaterializeInheritance`, `MaterializeCha`; an exception: `SwallowEnrichment` |
| a write that raises, a file that vanishes, death of the process | `Stop`, between any two steps |
| `git commit` | `Commit`, at any time |

A file declares one class and at most one method, and all methods have one name;
a text says what the class extends, which classes its method calls on receivers
with a declared type (`calls`), and which class names it calls it on (`statics`,
where `Absent` stands for receivers of unknown type). A call of the first kind on a
class that the run has not indexed is suppressed; one of the second kind goes by
name alone to every indexed method, unless there are more than `MaxTargets`
(`NamedPairs`). Its edges carry `resolution = "heuristic"` and are kept in
`guessed`. A merge overwrites the resolution, so an edge that both kinds give is
told by the first call in the text. The working tree is HEAD. `clear()` removes
all edges in one step and then the nodes file by file. Other enrichments, data
flow and parallel parsing are left out.

### `CorefSessions`, `CloudSync`, `PruneControl`, `ProcedureVersions`, `RunEvents` - five services

| code | action |
|---|---|
| `resolve_query`: session of this user / none, or another user's | `Continue` / `Create` (each after the two clean-ups, `Cleaned`) |
| `reset_session`, `clear_session_manager`, the clock | `Reset`, `Clear`, `Tick` |
| `POST /sync`, `sync()`, `mark_sync_started` | `Admit`, `Launch`, `Start` |
| `_check_diff`, one PUT, one GET of a dataset, its exception | `Diff`, `Upload`, `Download`, `FailDataset` |
| end of `_background_sync`, `mark_sync_failed`, death of the server | `Finish`, `MarkFailed`, `Crash` |
| prune endpoints up to each await, deletion over | `CheckCooldown`, `RefusePipelines`, `Enter`, `Leave` |
| timeout of the Redis lock, end of the cooldown, death of a worker | `Expire`, `EndCooldown`, `KillWorker` |
| router of `write_procedural_memories`, recall and decision per candidate | `Route`, `Decide` |
| `_write_create_new`, `_write_patch`, `_write_new_version` with its deprecation | `WriteCreateNew`, `WritePatch`, `WriteNewVersion` |
| `extract_graph` per candidate, `persist_memory_nodes` | `Persist` over `Extracted` |
| the nodes are not written, or the process dies | `Abandon` |
| `run_pipeline_as_background_process`: call, first event of each run, answer | `BeginBackground`, `OpenRun`, `AnswerCall` |
| `_process_remaining`, by what the generator at hand does next | `PassSkipped`, `StartDriven`, `EndDriven`; an exception without an event, a cancellation: `BreakDriving` |
| `/subscribe/{workflow_run_id}`: queue made, polled, event sent, connection lost | `Subscribe`, `FindNothing`, `GetEvent`, `SendEvent`, `LoseClient` |

A coreference session keeps who said something in which language since its last
reset (`context`); every operation holds the lock of the manager, so it is one
step. In `CloudSync` an update of the record may raise whether or not it was
committed, and the cloud, which is external, may fail to give a file. In
`PruneControl` whether a pipeline is active changes at any time, and Redis or
the query may fail at any time; the wait for the Redis lock blocks the worker,
so that `Enter` is one step. In `ProcedureVersions` the language model may decide
anything about any active procedure and draft any signature; a candidate whose
processing raises goes on as one to create; the text of procedures is left out.
In `RunEvents` a run id is its dataset, as in the code, so that the runs of two
calls and the handlers of two clients share a queue; what the gate and the run
decide is any choice, as `WorkflowRuns` has both in detail; an event is
`progress` or the `end`, and payloads are left out.
`context`, `used`, `seen`, `lost`, `grip`, `orphaned` and `disturbed` serve the
properties.

### `CodeSlicer`, `CallResolution`, `ControlFlow`, `EpisodicBundles` - algorithms

Each chooses its input in `Init` and takes the steps of the code's loops; the
properties compare what they do with a reference definition over the input.

* `CodeSlicer`: `_traverse` (`Pop`, `Look`, `Leave`) and `neighbourhood` (`Take`,
  `Look`, `Leave`, `NextHop`, `AddRest`) over any list of edges; the order of a
  Python set is free. Reference: closed sets of nodes and distances.
* `CallResolution`: `Read` enters a file into the index, `AnswerCall` answers one
  call of one method (`_resolve_streaming_targets` and the lookups under it) and
  adds its edges. The walks up the hierarchy pop the code's stack (`Climb`). A
  receiver is an expression and not its text, applied to another one (`e.on`) down
  to what the text begins with (`Root`); the constant `Depth` counts how far down
  that is, and the code follows it no deeper than `MaxDepth`. Reference: Java's
  rules for names, members and inheritance (`Means`, `Inherited`, `StaticType`,
  `JavaTargets`), over the whole program.
* `ControlFlow`: the recursive walk of the Java plugin as a stack of tasks, one
  handler per kind of statement. Lists of statements have addresses: a list that
  is made takes any address no living list has, as an allocator may, and the walk
  passes over addresses it remembers. Reference: the nesting of the text.
* `EpisodicBundles`: the loops of `compute_episode_bundles` over the facets
  (`ViaFacet`) and entities (`ViaEntity`) of one episode, in any order, and the
  edges that detail mode shows of it (`Assemble`). What a search has hit and the
  graph around the episode are the input; the ways to a facet are compared at
  once, as their order decides only between equals. Reference: the paths from the
  episode to a hit. Ranking several episodes is a sort and left out.

## The runs

| run | instance | result |
|---|---|---|
| `runs_mixed` | 2 calls of `add`/`memorize`, 2 items, both modes of execution and caching, errors collected, disruptions, 2 coroutines that outlive a run; 850,317 states | `TypeOK`, `CompletedCoversBatch`, `StartedHasOwner`, `CompletedIsCurrent` hold |
| `runs_live` | 2 callers that `ingest` in mode `error`, 1 item, errors raised, disruptions, fair; 12,336 states | `ErrorModeIsExclusive`, `SequentialIngestIsHonest` and the liveness `EventuallyMemorized` hold |
| `items_sequential` | 1 run or deletion at a time, an item in 2 datasets, errors collected; 48,512 states | `SequentialAddLinks`, `SequentialMemorizeCovers`, `MarkedIsSkipped` hold |
| `items_parallel` | 2 runs over 2 items in parallel batches, errors raised; 1,185,984 states | `CompletedRunOwesNothing` holds |
| `items_deletions` | 2 runs of an item beside every kind of deletion on a shared graph; 268,721 states | `TypeOK`, `MarksAreEarned` hold |
| `playground_memory` | 1 session, a face, 2 datasets that others memorize too, 2 messages; 369,892 states (symmetric) | `TypeOK`, `FlushedOnce`, `MemorizedOrExcused` hold |
| `playground_live` | 1 session of anonymous speakers, 1 dataset, 3 messages, a retry, fair; 149,148 states | `CountersMatchBuffer`, `QuietMessagesReachMemory` and the liveness `FlushEnds`, `DatasetsAreReleased` hold |
| `runs_ingest_promise` | 2 overlapping `ingest()` calls, undisturbed | `IngestCompletedIsQueryable` is violated |
| `analysis` | 3 files, 3 commits, 2 runs of any kind, chunks of 2, guesses of 2 targets; 931,221 states | `TypeOK`, `RebuildIsExact`, `SyncMakesNodesCurrent`, `ResolvedCallsAreTrue` and the refinement `ShowsWhatItReads` hold |
| `services` | coreference: 3 names, 2 users, 2 languages; sync: 2 requests, 2 hashes; prune: 3 requests, 2 workers; procedures: 3 batches of 2 candidates, 2 signatures; events: 2 background calls over 1 and 2 datasets, 2 clients; 448,198 states | `ServicesTypeOK`, `ContextIsOneSpeaker`, `OrderIsByUse`, `SyncedDatasetsMeet`, `UploadClaimsHold`, `ClosedStaysClosed`, `OverlapNeedsALostLock`, `DeprecatedHasSuccessor` and the liveness `SubscriberHearsTheEnd` hold |
| `algorithms` | graphs of 4 nodes, programs of 4 classes and 18 calls, methods of 10 statements, episodes of 2 facets, a point and 2 entities; 1,143,151 states | `SliceIsExact`, `NearestFirst`, `TypedEdgesAreTrue`, `NoCallIsLost`, `FlowIsStructured`, `BundleIsShortestPath` hold |
| `cfg_sequences` | the methods of `algorithms` | `SequencesFlow` is violated |

**Bounds, and why they are enough.** Two calls or runs are the smallest number
that race; slots are reused, so any number of calls follow each other. Two
items make a batch of which one part is done and the other fails; the batch
size is 1 where batches must follow each other and 2 where items of a batch
must run together. Two datasets are needed where marks of one must not be taken
for those of the other. The tables are kept as the newest status, sets
grow to the items at most, and no run uses a depth bound. The bounds in
guards are `MaxMessages`, `MaxCommits`, `MaxRuns`, `MaxTime` and `MaxBatches`,
and the finite sets of requests: a conversation of two messages is flushed twice, or once
with the second message late; in three, a late message is followed by a flush of
its own. `MaxRetries` is 1 for 3, which exhausts the count, and 0 where nothing depends on
it (`playground_memory`). A manual flush that
is refused is a step, so the two playground runs never deadlock at the bound.
`items_sequential` explores only behaviours whose calls do not
overlap (`CONSTRAINT OneAtATime`), because its properties speak of those.
`MaxStray` bounds the coroutines that outlive their run at one time: two in
`runs_mixed`, where an item per pipeline, or both items of one, may be left;
the run follows a history either into overlapping calls or into such coroutines
(`CONSTRAINT StraysAlone`), as the only property that is sensitive to them,
`CompletedIsCurrent`, speaks of calls that do not overlap, and the proofs
need no such bound. In `runs_live` there is one item, whose
coroutine is the one that raises, so that none is left; that strays do not disturb
the answers of `ingest()` is proved (`SequentialIngestAlwaysHonest`). In `playground_memory` the datasets belong to
a face (`CONSTRAINT KnownSpeakers`) and others use them (`Shared`); in
`playground_live` they belong to anonymous speakers and nobody else does, as
its properties do not depend on what a memorize reads.

In `analysis` two chunks of two files are needed for a class and its caller to
fall into different chunks; three commits and two runs are the smallest numbers
with which a sync follows a broken sync over a changed tree, or a commit races
with a run that follows another. The texts make each of the three relations
change: 1 calls 3, and a class outside the project on its name; 2 extends 3, or
calls 1; 3 calls 2 on its name, or nothing. A sync that leaves 2 out therefore
guesses, and with a limit of two it gives up when all three files are read. In `services`
three names at a limit of three with two ticks and a time to live of one give
eviction by count, expiry, and both at once; one of the two languages has no
module. Two sync requests follow each other or overlap where the first record
could not be written; two hashes are one to upload and one to download, and one
arrives late. Three prune requests on two workers make two of a worker and two
of different ones. Three batches of procedures, two of them at a time, replace a
version, replace it again, and do so while another batch has recalled it; two
candidates over two signatures build the same id, or replace what the other
builds. A background call over two datasets has a run that waits for another, and a
second call on the later dataset makes two runs of one id, before, during and
after; two clients listen to one run or to two. The five services, and the four algorithms of
`algorithms`, have separate state: one of them moves in a behaviour, and they
share a run only to save time. Four nodes and three edges give chains, cycles,
diamonds and self-loops; a budget of three cuts, one of five does not; zero to
two hops. Four classes are a caller, the class it uses, one that may share its
name or be a supertype that hides what the interface declares, and an interface, in
one or two packages, each read or not; every kind of receiver is called, of depth
zero, one and, as `MaxDepth` is 1 for 8, two, which is too deep. A method nests compound statements twice, with every jump
where Java allows it. An episode has two facets that share a point and an entity,
hit within either discount, outside or not at all; an entity is reached with and
without a facet; one edge is missing and two are hit at most, so that every kind
of path is the cheapest somewhere and replaces another that was.

Deadlock is checked except in `analysis`, `services`, `algorithms` and
`cfg_sequences`: an algorithm returns, requests end, and the runs and the clock
reach their bounds.

**What the passing properties say.** `CompletedCoversBatch` and
`CompletedRunOwesNothing`: no failing item slips through into a COMPLETED run.
`StartedHasOwner`: STARTED without a live run is left behind only by
cancellation or death. `CompletedIsCurrent`: `add()` resets the status early
enough that the gate never hides an item from a later `memorize()` - without
overlaps; with overlaps it does not hold. Even then one thing breaks it: a coroutine that
outlives an `add()` that raised may link its item after a later `memorize()` has
completed, and the item stays unmemorized until the next `add()` opens the gate.
The property names these items (`late`), and says that nothing else is ever missing.
`MarksAreEarned`: three places (`_mark_completed`, the merge of `ingest_data`,
`delete_dataset`) write back a `workflow_state` they loaded earlier, and entries can
get lost or come back that way, but never appear from nowhere. `SequentialAddLinks`, `SequentialMemorizeCovers`:
what a completed run reports is in the tables and in the graph, with
`delete_dataset` and row removal between the runs. `MarkedIsSkipped`: the shared
cache, which a raising run leaves behind, makes no later run do work twice.
`FlushedOnce` and `QuietMessagesReachMemory`: the window of a flush is neither
added again nor dropped, whatever fails or is cancelled, and only messages that
arrive while a flush awaits `add()` are lost. `MemorizedOrExcused`: what was
added and is not searchable belongs to a dataset that was busy at the flush, to a
memorize that failed, or to one that the gate skipped because a run had
closed it after the last `add()` opened it. The last case is real, also within one
session: while a flush awaits its second dataset, the memorize of an earlier flush
may complete on the first one and be released; the new memorize is then skipped
and reports success. What cannot happen is that a memorize is skipped for a row
older than its `add()`, or that a busy dataset keeps its neighbours waiting.

`RebuildIsExact`: the graph after a rebuild does not depend on what was there or
on how files fell into chunks. `SyncMakesNodesCurrent`: the same sync repeated
repairs what a failed one left, ghosts of deleted files included. Edges are
another matter: an incremental run may lose calls (see the findings), and it may
add false ones, because a call on the name of a class outside its files goes by
name to every method of the run (`NamedPairs`); a property without that
exception is violated on this instance. `ResolvedCallsAreTrue` says that these
guesses are told apart for as long as they live: an edge that is neither
virtual nor marked heuristic is one that its caller's text makes, and a
heuristic one starts at a caller that still has such a call, as long as classes declare their
own methods. `ShowsWhatItReads`: no run shows a text older than
its own reading. `ContextIsOneSpeaker`, `OrderIsByUse`: neither expiry, eviction
nor take-over of a name mixes contexts or evicts one that was used more
recently. `SyncedDatasetsMeet`, `UploadClaimsHold`, `ClosedStaysClosed`: two
syncs of the same dataset harm neither the files nor each other's records.
`OverlapNeedsALostLock`: the two locks of prune, one of which
expires and may be skipped, fail only one way. `SubscriberHearsTheEnd`: who is
alone on a run id and subscribes while a run is under way is told of an end,
although queues are shared, replaced and removed by others, unless the task that
drives the run breaks; the two exceptions are real, and the property names them. `DeprecatedHasSuccessor`: however
batches overlap and whichever id is written first, from a deprecated procedure
the supersedes edges lead to an active one, unless its batch was lost.
`SliceIsExact`, `NearestFirst`: a
slice is complete up to its budget and what is cut is farthest.
`TypedEdgesAreTrue`: a call that is marked typed is never a wrong guess where
simple names are unique (`OneClassPerName`), even when the run has read only some
of the files; where the code knows the name of the receiver's type and no class,
the edge leads to a class above that type. `NoCallIsLost`: over a whole program no
call is dropped while its name is not too common, also where classes share a name,
as long as the names of member types mean the same in all files
(`OneMeaningPerName`), a member inherited twice has one type
(`OneTypePerMember`), and the receiver is within reach. Both speak of receivers that
do not begin with `super` and are not chains that begin with `new` (`Rooted`): those the
code binds to the caller's class and to the class created (see the findings). Simpler
statements of both were refuted by TLC on the programs of this instance. `FlowIsStructured`:
whichever lists are passed over, no edge leads back but to a loop.
`BundleIsShortestPath`: of the paths a bundle has named on the way nothing is left
but the cheapest, which is shown although the output ignores discounts and
entities when it ranks facets.

Every property has a mutant: an operator of the module that changes one
definition the way a plausible bug would (`RegisterBlindly`, `FillCacheOnce`,
`ClearNothing`, ...), under which TLC finds the property violated.

## Fairness

`runs_live` and `playground_live` use fairness (`FairSpec`), and so does `services`. In
`WorkflowRuns`: weak fairness of `Step(c)` and
`Begin(c)`: the event loop runs every ready coroutine, and callers keep calling.
Strong fairness of `ProcessItem`, `FinishRun` and `FlushRun`: an item, a finish
or a flush that is attempted again and again goes through once; an item that
fails for ever is never memorized, and no scheduling changes that. Strong rather
than weak, because a failing attempt disables the action in between. Cancel,
Dismiss and Crash have no fairness; `EventuallyMemorized` speaks of behaviours
in which from some point on every step is a call's own work, after any number
of disruptions, which is what it means to recover. In `PlaygroundSession`: weak fairness of the return, normal or by exception, of the
`add()` and `memorize()` calls a session awaits; nothing makes users chat, flush
or go away. In `RunEvents` (`EventsFairness`): weak fairness of what a background call does once
it has begun, and of a handler that has an event to send: the event loop resumes
both. That a run ends is assumed here and treated in `WorkflowRuns`; callers and
clients need not come.

## The proofs

One module of proofs per component, one for the algorithms
(`Algorithms_proofs`: `CodeSlicer`, `EpisodicBundles`, `ControlFlow`; call resolution
has its own, `CallResolution_proofs`) and one for the services
(`Services_proofs`, cloud sync included), prove for every number of calls,
runs, items, datasets, messages, requests, files, nodes and edges and every value
of the other constants:

| theorem | says |
|---|---|
| `TypeCorrect` of `WorkflowRuns`, `ItemProcessing`, `PlaygroundSession`, `CodeAnalysis`; `SyncTypeCorrect`, `PruneTypeCorrect` | the type invariants |
| `StartedAlwaysHasOwner`, `CompletedAlwaysCoversBatch` | `StartedHasOwner`, `CompletedCoversBatch` |
| `CompletedAlwaysCurrent`, `SequentialIngestAlwaysHonest` | `CompletedIsCurrent`, `SequentialIngestIsHonest` |
| `ErrorModeAlwaysExclusive` | `ErrorModeIsExclusive` |
| `MarksAlwaysEarned`, `CompletedRunNeverOwes` | `MarksAreEarned`, `CompletedRunOwesNothing` |
| `SequentialAddAlwaysLinks`, `SequentialMemorizeAlwaysCovers` | `SequentialAddLinks`, `SequentialMemorizeCovers`, without deletions of a document from one dataset |
| `MarkedAlwaysSkipped` | the action property `MarkedIsSkipped` |
| `NothingFlushedTwice`, `OnlyLateMessagesLost` | `FlushedOnce`, `QuietMessagesReachMemory` |
| `MemorizeExclusive`, `NothingForgotten` | `OneMemorizePerDataset` (tasks never share a dataset; only proved), `MemorizedOrExcused` |
| `CountersAlwaysMatch` | `CountersMatchBuffer` |
| `PipelineKeepsThePromise` | `ShowsWhatItReads`: `CodeAnalysis` implements `CodeIndex` |
| `SyncRepairs`, `RebuildIsComplete` | `SyncMakesNodesCurrent`, `RebuildIsExact` |
| `ResolvedCallsStayTrue` | `ResolvedCallsAreTrue` |
| `SyncedDatasetsAlwaysMeet`, `UploadClaimsAlwaysHold`, `ClosedAlwaysStaysClosed` | `SyncedDatasetsMeet`, `UploadClaimsHold`, `ClosedStaysClosed` |
| `ContextIsAlwaysOneSpeaker`, `OrderIsAlwaysByUse` | `ContextIsOneSpeaker`, `OrderIsByUse` |
| `OverlapAlwaysNeedsALostLock` | `OverlapNeedsALostLock` |
| `DeprecatedAlwaysHasSuccessor` | `DeprecatedHasSuccessor` |
| `CorefTypeCorrect`, `VersionsTypeCorrect`, `EventsTypeCorrect`, `ServicesTypeCorrect` | the parts of `ServicesTypeOK`, and `ServicesTypeOK` of the five services together |
| `SliceIsAlwaysExact`, `NearestIsAlwaysFirst` | `SliceIsExact`, `NearestFirst` |
| `BundleIsAlwaysShortestPath` | `BundleIsShortestPath` |
| `FlowIsAlwaysStructured` | `FlowIsStructured`, for every method |
| `TypedEdgesAreAlwaysTrue`, `NoCallIsEverLost` | `TypedEdgesAreTrue`, `NoCallIsLost`, for every program and every receiver |

Assumptions: the named assumption on the constants of each module (ranges of the
settings; `NoDataset`, `Absent`, `Torn`, `Closed`, `Free` and `Nobody` stand for
nothing that exists). Finiteness is assumed of files, of session names, and by
`NearestIsAlwaysFirst` of the nodes of the graph. The episode theorem assumes that
an episode, its facets, points and entities are different nodes, and that
"infinite" (`Far`) is more than any path can cost. `FlowAssumption` says what a
method is once it is parsed: a tree of blocks, its statements numbered in the order
of the text, `finally` last, `break` and `continue` (without labels) only where Java
allows them. `CallAssumption` says what a program is: finitely many classes and
names, one class of a name in a package, and receivers built from shorter ones;
hierarchies may have any shape, cycles included. The two `Sequential...`
theorems assume `"document" \notin Deletions`: `delete()` of a document from one
dataset leaves its mark (`m_flow/api/v1/delete/delete.py:172`) and takes it out of a
graph that others share (line 375), so that neither holds with it; the run
`items_sequential` has the same instance.

*Induction.* The library's induction theorems take a predicate as a parameter,
which the provers cannot instantiate. Module `Induction` states what is needed
over sets instead, from the well-foundedness of `<`: a least element (`LeastNat`),
induction up to infinity and up to a bound (`AllNumbers`, `NumbersUpTo`), and the
existence of functions defined by recursion (`IterationExists`,
`RecursionExists`; `RankedRecursionExists` where a rank falls at each step, with
`RankedInduction` for what holds of all). What a recursive function of the models computes can then be
proved, where it recurs on a number or something falls: the distances `Within` of a graph, the names
that `Forget` leaves, the graph `Extracted` of a batch, the sequence that
`FlattenSeq` joins. For the same reason the first three are functions and not
folds of the community modules, whose recursion the provers cannot unfold.
`Beneath` recurs on the blocks of a method: a fixed point is found as the smallest
closed sets (`UnderIs`), and what holds of every fixed point by going down from the
last statement (`Descent`). A walk up a hierarchy recurs on its stack: `StepsLeft`
falls, because a class is followed once. Receivers recurse on what they are applied
to, and `Depth` falls.

*Runs.* `RunInv` says where the processed items of a run are: every item of its
batch that is no longer to do is marked, unless the run has failed; that makes
`CompletedCoversBatch` inductive. For the sequential properties the invariant
`SeqInv` follows the only call in flight: what it found to reset, that no
workflow is COMPLETED once its first item can be added, and that a call that
reaches `leave` without failing has memorized what it fetched. What a stray
coroutine links meanwhile is in `late` at once, and leaves it only with a
completed run that has fetched it. `AtMostOne`
connects it to the history: as long as `overlapped` is false, one call is in
flight at most. `ExclusiveInv` ties the registry to the one call that
holds it.

*Items.* `MarksAreEarned` is not inductive, since three actions write what was
loaded earlier; `EarnedInv` adds that every loaded document (`snap`, `dsnap`) and
every key about to be written is earned. `CacheInv` says the same of the preload
and of `_STATUS_CACHE`, and `Covered` follows a run: what is neither to do nor
busy nor failed is earned. `KeyInv`, that a coroutine that outlives its run still
has its dataset, is what types need. The `Sequential...` properties speak of
behaviours without overlaps. `AloneInv` ties the history to the state: unless
something has overlapped, one run at most, with the coroutines it left, or one
deletion is active. `SettledInv` says what entries promise (`Settled`: the item is
linked and, if memorized, in the graph) and that every entry, also one a deletion
is about to write back, and all that a run has behind it keep the promise; a
deletion takes the entries before it takes what they promise, which `delete()`
of a document does not. `MarkedIsSkipped` needs `FreshInv` instead: the preload, and then
the cache, of a lone run say of an item still to be checked what its row says.
Each strengthened invariant was checked by
TLC on the instances above before it was proved; the proofs have one step per
action.

*Sessions.* `FlushInv` ties the flush under way to the buffer: its episode begins
where the buffer does, everything after it is late, and the datasets that took
it hold it. `DoneInv` places reported episodes before the buffer. With them
`FlushedOnce` and `QuietMessagesReachMemory` are inductive. `GateInv` (a gate is
closed by a run since the last `add()` and by nothing else) and `ReadInv` do the same for
`MemorizedOrExcused`: an episode that a flush reported and a dataset of a task holds
is accounted for, or the turn of its dataset is to come, or it is among what was read. The counters
match because a message is always the last of the buffer, so that the set of the
positions it counts gains one element, and a flush empties buffer and counters
together.

*The code graph.* The invariant is the type and `PendingInv`: only parts of files
whose text is at hand wait for insertion. Each step then changes the view of one
file at most, and a lemma says how: inserting a node of a text makes the view
that text or torn, deleting one hides it, and all other steps leave the nodes
alone, so that every step is a step of `CodeIndex` or a stutter. That a
rebuild is exact needs more. `StageInv` says in which phase work of which kind is
left. `NodesInv` follows a run that no commit has disturbed: every file
is to be cleared, awaited, or has the nodes of its text but for the pending ones.
`EdgesInv` does the same for the edges of a rebuild, relation by relation and
phase by phase; the calls are right because the index of the run
has all files by the time the last calls are inserted. `ResolvedCallsAreTrue` outlives
the run: `CallsInv` says of every edge that was neither derived nor guessed that its
caller's node is of a text that names its callee, of every guessed one that its
caller's node is of a text with a call by name, of a file still to be inserted that it has no
such edge unless it is about to be cleared, and that what the run reads and
indexes is the working tree; only a rebuild forgets that a commit raced.

*Sync.* `FilesMoved` says of every stage of a dataset what is where: of what was
seen, only `todo` may be missing from the cloud, and of what the cloud had only
`todo` and `lost` from here; sides only grow. `ClosedInv` connects a completed
record with the sets its task still has. *Prune.* `GripInv`: a
request that prunes with a lock it has not outlived is the holder of the Redis
key, and the holder has not outlived it.

*Coreference.* `TableInv`: every context in the table, before and after clean-up,
has one speaker and one language. `OrderInv` adds that the order is an enumeration
of the open sessions by their last sentence, none later than now, and that no
more than `MaxSessions` are open. The lemmas carry it through the clean-ups:
what `Forget` leaves is a subsequence (`Leaves`), what an eviction leaves is a
tail, and fewer than `MaxSessions` sessions, or none, are left before one is used.
*Procedures.* `Backed` says of the graph that a batch has extracted so far that
every procedure it writes as deprecated is superseded by one it writes as active.
`Bereft` are the deprecated procedures without an excuse; a step that adds none to
them and takes no edge away keeps the property (`SuccessorsStay`), and only writing
a batch adds any: those that `Backed` speaks of. *Events.* The types are inductive, because
a handler takes an event only from a queue it has just looked at.

*Slices.* `SearchInv`: what is visited or queued is inside every
closed set around the start; the edges looked at are collected and their ends
queued or visited; with an empty queue the visited nodes are therefore closed.
*Distances.* `Layers` are the sets of nodes by distance. `QueueInv`: the queue of a
slice is the rest of one layer followed by a part of the next; `BallInv`: the
hops of a neighbourhood go through the layers until the budget is used up. So
whatever is left out is at least as far as all that was kept (`Reaches`).
*Episodes.* `NamesItsPath`: the fields of a bundle, whichever loop wrote them last,
are those of one kind of path, whose cost is the score; `NoShorter`: no path over a
facet or entity already visited is cheaper. When nothing is left these are all
paths, and the edges of the named one are among those shown.
*Control flow.* The invariant is about the tasks still to do (`SoundTasks`): the
statement that a task will connect or link leads (`Leads`) to one after all that
is under it, or to a loop around it, and what it knows of jumps (`JumpsLead`) is
that `break` leaves the nearest loop or switch and `continue` goes to the nearest
loop. Both pass on to the statements right under (`LeadsDown`, `JumpsDown`,
`JumpsInLoop`, `JumpsInSwitch`), so that each handler leaves such tasks and adds such
edges only. Which lists the walk passes over does not matter.

*Calls.* The invariants of a run are short: an edge is in the answer that the
complete index gives to its call (`EdgesAreAnswers`), and an answered call has an
edge for all that its answer holds (`AnswersAreEdges`). What the answers are worth
takes the rest. `WalkInv` says of a walk up a hierarchy that what it has seen or
stacked is above its start with nothing hidden in between, and that what it has
seen is closed under supertypes but for the stack; when the stack is empty its hits
are what Java inherits (`NearestIsInherited`). The code's second closure, over
names, stops growing before it has passed every class (`ChainStops`). An induction
over receivers (`InferenceRight`) shows that an inferred class is the static type.
For completeness the induction carries more (`Sees`): that a class found is the only
static type and, when none is found though there is one, that the second
inference, which does not know the caller's imports, finds none either and the
fallback to a name shared by all methods applies.

*The services together.* A step of one service is a stutter of the others
(`ServicesApart`), so that their invariants hold side by side in `MCSpec`.

Only model-checked: the liveness properties `EventuallyMemorized`, `FlushEnds`,
`DatasetsAreReleased` and `SubscriberHearsTheEnd`, which are out of the prover's
reach. Every invariant of a passing run has a theorem.

## Findings

Two disagreements between code and documentation are shown by runs:
`runs_ingest_promise` (two overlapping `ingest()` calls: COMPLETED is answered for
data that is not in the dataset) and `cfg_sequences` (the control flow builder
takes a list of statements for one it has connected when it has the address of a
freed list, and leaves its statements without edges). The violated properties
are stated as the documents state them.

Others were met while reading and are recorded in `PROJECT.json` with the lines
they quote. In M-Flow: unregistration by calls that never registered; dismissal
of runs long over; runs that the listing of active runs does not see; documents
that are skipped when they are added again after `delete()`; shared stores that
`delete_dataset` leaves alone; a lookup in `_purge_from_relational` that raises
for a document in many datasets; the removal of a data row from all its
datasets; messages that leave the playground buffer unflushed; sync retries
that never happen; a session limit enforced one early; sessions that keep the
stream session of their first language; a prune that goes on beside one that
holds the Redis lock; an episode size check that raises on every call; a patch
that goes to the first version of a procedure instead of the one recalled;
procedures that are all recalled as version 1, so that there is never a third;
episodes marked as processed of which nothing came; subscribers of a skipped run
that nobody tells; background calls without datasets, which raise; the
background run of the command line, which ends with the command; a discount on
near facets that makes some of them dearer; a projection that loads all there is,
twice. In
OmniCPG: calls lost by incremental and resumed runs; `super.m()` resolved to the
caller's own class; chains that begin with `new` taken for the object created; a fall-through edge after `return` or `throw` at the end of
an `if`; edge types of slices other than documented; expanded methods that are never
stored.

## What is not modelled

* Model calls, prompts, extraction, episodic writing, the text of procedures,
  bonuses for words and times, the other retrievers: what they do is decided by
  language models and embeddings. The
  episode size check is among them: its queries ask for edges as neither graph
  adapter returns them, so there is no behaviour to state properties of.
* The governance package of procedures (`memory/procedural/governance`): nothing
  calls it.
* AST builders, chunkers, loaders, the parser of time expressions: pure functions
  of text, most of the repository's lines after the prompts.
* Data flow between methods and the enrichments of the code graph other than
  inheritance and virtual calls: independent queries over names and annotations.
* Database drivers, storage, HTTP routers, the two MCP servers, auth, settings,
  CLI, evaluation: I/O and lookups without a protocol of their own.
* The memory cache of expanded methods, which nothing calls, and the storing of
  expanded methods, which no adapter can do (see the findings).
* Hard-mode deletion, the relationship ledger and vector collections: they
  follow the graph deletion in the same call.
* The distributed runner: third-party scheduling around the same `run_tasks`.
* Participants, names and the video of a playground session.

The lines that models stand for are therefore a small part of the repository:
they are those where order, concurrency, failure or an algorithm decides whether
the result is right.

## Plan

Done: the run lifecycle, incremental loading and a playground session; the
analysis pipeline with its abstract specification, call resolution, slices and
control flow; coreference sessions, cloud sync, prune, the versions of
procedures and the events of background runs; the scores of episodes; their proofs. Next, in this order:

1. An abstract specification of a dataset's promise (what is answered as
   COMPLETED stays queryable) that `ItemProcessing` implements when calls follow
   each other, and `update()` on top.
2. `RunProgress`: read-modify-write of `run_detail`, composed with
   `WorkflowRuns`.
3. Two playground sessions of a user on one dataset, composed with
   `WorkflowRuns`.
