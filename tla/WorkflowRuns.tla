---------------------------- MODULE WorkflowRuns ----------------------------
(***************************************************************************)
(* The run lifecycle of one dataset: the calls add(), memorize() and       *)
(* ingest() that one server process executes concurrently as coroutines,   *)
(* the append-only table workflow_runs they synchronise through, the       *)
(* in-process registry of datasets being memorized, manual dismissal of a  *)
(* run, cancellation of a call and a crash of the process.                 *)
(*                                                                         *)
(* A step is what a coroutine does between two awaits on the database.     *)
(* Every reader of workflow_runs looks at the newest row of a (dataset,     *)
(* workflow) pair, or for the existence of an INITIATED or STARTED row,    *)
(* which the first row of a pair always is: the table is kept as the       *)
(* status of its newest rows.                                              *)
(***************************************************************************)
EXTENDS Naturals, FiniteSets

CONSTANTS
  Calls,        \* slots for API calls in flight; a slot is reused
  Items,        \* data items
  Ops,          \* the entry points callers use
  Modes,        \* the conflict modes memorize() is called with
  Backgrounds,  \* the values of run_in_background
  Caches,       \* the values of enable_cache
  RaiseErrors,  \* RAISE_INCREMENTAL_LOADING_ERRORS
  MaxStray      \* bound on the coroutines that outlive their run at one time;
                \* 0: the concurrency limit of the databases is 1

ConflictModes == {"ignore", "warn", "error", "unresolved"}

ASSUME ConstantsAssumption ==
  /\ Ops \subseteq {"add", "memorize", "ingest"}
  /\ Modes \subseteq ConflictModes    \* "unresolved": no dataset id to register
  /\ Backgrounds \subseteq BOOLEAN
  /\ Caches \subseteq BOOLEAN
  /\ RaiseErrors \in BOOLEAN
  /\ MaxStray \in Nat

AddWf == "add_pipeline"
MemWf == "memorize_pipeline"
Workflows == {AddWf, MemWf}
RunStatus == {"none", "INITIATED", "STARTED", "COMPLETED", "ERRORED"}

\* What a call was asked to do; payload is empty for memorize().
Requests == [op: {"add", "memorize", "ingest"}, payload: SUBSET Items,
             mode: ConflictModes, background: BOOLEAN, cache: BOOLEAN]
NoRequest == [op |-> "memorize", payload |-> {}, mode |-> "warn",
              background |-> FALSE, cache |-> TRUE]

AddRequests ==
  {r \in Requests : /\ r.op \in Ops \ {"memorize"}
                    /\ r.payload # {}
                    /\ r.cache \in Caches
                    /\ r.mode \in IF r.op = "add" THEN {"warn"} ELSE Modes
                    /\ r.background \in IF r.op = "add" THEN {FALSE} ELSE Backgrounds}
MemorizeRequests ==
  {r \in Requests : /\ r.op \in Ops \cap {"memorize"}
                    /\ r.payload = {}
                    /\ r.cache \in Caches
                    /\ r.mode \in Modes
                    /\ r.background \in Backgrounds}

Locations == {"idle", "reset", "register", "fetch", "gate", "start",
              "restart", "run", "finished", "leave"}

VARIABLES
  latest,      \* status of the newest row per workflow ("none": no row)
  dataset,     \* items associated with the dataset
  memorized,   \* items the memorize pipeline marked as processed
  active,      \* the dataset is in _ACTIVE_DATASETS
  pc,          \* where each call is
  req,         \* what each call was asked to do
  wf,          \* the pipeline a call is in
  toReset,     \* add(): the workflows whose status it found to reset
  batch,       \* the items of the call's pipeline run
  todo,        \* those still to be processed
  failed,      \* an item of the run failed, or the call is raising
  held,        \* the call will unregister the dataset on its way out
  stray,       \* items in the hands of coroutines whose run has raised
  late,        \* history: items linked by such a coroutine of add() that
               \* no completed memorize() has fetched since
  promised,    \* history: items for which ingest() answered COMPLETED
  orphaned,    \* history: workflows whose newest row lost its writer
  overlapped   \* history: two calls have been in flight together

tables == <<latest, orphaned>>
locals == <<pc, req, wf, toReset, batch, todo, failed, held>>
strays == <<stray, late>>
vars == <<latest, dataset, memorized, active, pc, req, wf,
          toReset, batch, todo, failed, held, stray, late, promised, orphaned, overlapped>>

TypeOK ==
  /\ latest \in [Workflows -> RunStatus]
  /\ dataset \subseteq Items
  /\ memorized \subseteq Items
  /\ active \in BOOLEAN
  /\ pc \in [Calls -> Locations]
  /\ req \in [Calls -> Requests]
  /\ wf \in [Calls -> Workflows]
  /\ toReset \in [Calls -> SUBSET Workflows]
  /\ batch \in [Calls -> SUBSET Items]
  /\ todo \in [Calls -> SUBSET Items]
  /\ failed \in [Calls -> BOOLEAN]
  /\ held \in [Calls -> BOOLEAN]
  /\ stray \subseteq Workflows \X Items
  /\ late \subseteq Items
  /\ promised \subseteq Items
  /\ orphaned \subseteq Workflows
  /\ overlapped \in BOOLEAN

Init ==
  /\ latest = [w \in Workflows |-> "none"]
  /\ dataset = {}
  /\ memorized = {}
  /\ active = FALSE
  /\ pc = [c \in Calls |-> "idle"]
  /\ req = [c \in Calls |-> NoRequest]
  /\ wf = [c \in Calls |-> AddWf]
  /\ toReset = [c \in Calls |-> {}]
  /\ batch = [c \in Calls |-> {}]
  /\ todo = [c \in Calls |-> {}]
  /\ failed = [c \in Calls |-> FALSE]
  /\ held = [c \in Calls |-> FALSE]
  /\ stray = {}
  /\ late = {}
  /\ promised = {}
  /\ orphaned = {}
  /\ overlapped = FALSE

-----------------------------------------------------------------------------
(* The table workflow_runs *)

\* Mutant: the name of the event is stored where the status belongs.
AppendEventName(w, status) ==
  /\ latest' = [latest EXCEPT ![w] = "WorkflowRunEvent"]
  /\ orphaned' = orphaned \ {w}

\* One INSERT: the new row becomes the newest one of its workflow.
AppendRow(w, status) ==
  /\ latest' = [latest EXCEPT ![w] = status]
  /\ orphaned' = orphaned \ {w}

\* check_cache_status: in progress or already done.
CacheHit(w) == latest[w] \in {"STARTED", "COMPLETED"}

\* Mutant: the pipeline_names filter forgets memorize_pipeline.
ResettableInAddOnly == {w \in {AddWf} : latest[w] \notin {"none", "INITIATED"}}

\* Mutant: a run in progress is not reset either.
ResettableIfOver == {w \in Workflows : latest[w] \in {"COMPLETED", "ERRORED"}}

\* The rows reset_dataset_pipeline_run_status finds worth resetting.
Resettable == {w \in Workflows : latest[w] \notin {"none", "INITIATED"}}

-----------------------------------------------------------------------------
(* Entry and exit of a call *)

InFlight == {c \in Calls : pc[c] # "idle"}

\* A call's locals are gone once it returns.
Forget(c) ==
  /\ pc' = [pc EXCEPT ![c] = "idle"]
  /\ req' = [req EXCEPT ![c] = NoRequest]
  /\ wf' = [wf EXCEPT ![c] = AddWf]
  /\ toReset' = [toReset EXCEPT ![c] = {}]
  /\ batch' = [batch EXCEPT ![c] = {}]
  /\ todo' = [todo EXCEPT ![c] = {}]
  /\ failed' = [failed EXCEPT ![c] = FALSE]
  /\ held' = [held EXCEPT ![c] = FALSE]

\* ingest() goes on to memorize() when add() returned, whatever it returned.
EnterMemorize(c) ==
  /\ pc' = [pc EXCEPT ![c] = "register"]
  /\ wf' = [wf EXCEPT ![c] = MemWf]
  /\ batch' = [batch EXCEPT ![c] = {}]
  /\ todo' = [todo EXCEPT ![c] = {}]
  /\ failed' = [failed EXCEPT ![c] = FALSE]
  /\ UNCHANGED <<req, toReset, held>>

\* add() or ingest() is called; the statuses to reset are read at once.
BeginAdd(c) ==
  /\ pc[c] = "idle"
  /\ \E r \in AddRequests : req' = [req EXCEPT ![c] = r]
  /\ batch' = [batch EXCEPT ![c] = req'[c].payload]
  /\ todo' = [todo EXCEPT ![c] = req'[c].payload]
  /\ toReset' = [toReset EXCEPT ![c] = Resettable]
  /\ pc' = [pc EXCEPT ![c] = IF Resettable = {} THEN "gate" ELSE "reset"]
  /\ overlapped' = (overlapped \/ InFlight # {})
  /\ UNCHANGED <<latest, dataset, memorized, active, wf, failed,
                 held, strays, promised, orphaned>>

BeginMemorize(c) ==
  /\ pc[c] = "idle"
  /\ \E r \in MemorizeRequests : req' = [req EXCEPT ![c] = r]
  /\ pc' = [pc EXCEPT ![c] = "register"]
  /\ wf' = [wf EXCEPT ![c] = MemWf]
  /\ overlapped' = (overlapped \/ InFlight # {})
  /\ UNCHANGED <<tables, dataset, memorized, active, toReset, batch, todo,
                 failed, held, strays, promised>>

-----------------------------------------------------------------------------
(* add(): make both pipelines of the dataset eligible again *)

ResetStatus(c) ==
  /\ pc[c] = "reset"
  /\ \E w \in toReset[c] :
       /\ AppendRow(w, "INITIATED")
       /\ toReset' = [toReset EXCEPT ![c] = @ \ {w}]
  /\ pc' = [pc EXCEPT ![c] = IF toReset'[c] = {} THEN "gate" ELSE "reset"]
  /\ UNCHANGED <<dataset, memorized, active, req, wf, batch, todo, failed,
                 held, strays, promised, overlapped>>

-----------------------------------------------------------------------------
(* memorize(): the conflict registry, then the items of the dataset *)

\* Mutant: mode "error" registers without looking.
RegisterBlindly(c) ==
  /\ pc[c] = "register"
  /\ active' = (active \/ req[c].mode \in {"warn", "error"})
  /\ held' = [held EXCEPT ![c] = req[c].mode # "unresolved"]
  /\ pc' = [pc EXCEPT ![c] = "fetch"]
  /\ UNCHANGED <<tables, dataset, memorized, req, wf, toReset, batch, todo,
                 failed, strays, promised, overlapped>>

\* Mode "ignore" registers nothing and yet unregisters on its way out.
Register(c) ==
  /\ pc[c] = "register"
  /\ ~(req[c].mode = "error" /\ active)
  /\ active' = (active \/ req[c].mode \in {"warn", "error"})
  /\ held' = [held EXCEPT ![c] = req[c].mode # "unresolved"]
  /\ pc' = [pc EXCEPT ![c] = "fetch"]
  /\ UNCHANGED <<tables, dataset, memorized, req, wf, toReset, batch, todo,
                 failed, strays, promised, overlapped>>

\* ConcurrentMemorizeError, raised before the try block.
RefuseConflict(c) ==
  /\ pc[c] = "register"
  /\ req[c].mode = "error"
  /\ active
  /\ Forget(c)
  /\ UNCHANGED <<tables, dataset, memorized, active, strays, promised, overlapped>>

FetchItems(c) ==
  /\ pc[c] = "fetch"
  /\ batch' = [batch EXCEPT ![c] = dataset]
  /\ todo' = [todo EXCEPT ![c] = dataset]
  /\ pc' = [pc EXCEPT ![c] = "gate"]
  /\ UNCHANGED <<tables, dataset, memorized, active, req, wf, toReset, failed,
                 held, strays, promised, overlapped>>

-----------------------------------------------------------------------------
(* execute_workflow and run_tasks, for either pipeline *)

\* Where a pipeline that ended without raising leaves its caller.
ReturnFromPipeline(c) ==
  IF wf[c] = MemWf
  THEN IF held[c] \/ ~req[c].background
       THEN /\ pc' = [pc EXCEPT ![c] = "leave"]
            /\ failed' = [failed EXCEPT ![c] = FALSE]
            /\ UNCHANGED <<req, wf, toReset, batch, todo, held>>
       ELSE Forget(c)
  ELSE IF req[c].op = "ingest" THEN EnterMemorize(c) ELSE Forget(c)

\* Where a pipeline that raised leaves its caller.
RaiseFromPipeline(c) ==
  IF wf[c] = MemWf /\ (held[c] \/ ~req[c].background)
  THEN /\ pc' = [pc EXCEPT ![c] = "leave"]
       /\ failed' = [failed EXCEPT ![c] = TRUE]
       /\ UNCHANGED <<req, wf, toReset, batch, todo, held>>
  ELSE Forget(c)

\* The run is skipped: in progress or done already, and caching is on.
SkipRun(c) ==
  /\ pc[c] = "gate"
  /\ CacheHit(wf[c])
  /\ req[c].cache
  /\ ReturnFromPipeline(c)
  /\ UNCHANGED <<tables, dataset, memorized, active, strays, promised, overlapped>>

PassGate(c) ==
  /\ pc[c] = "gate"
  /\ ~(CacheHit(wf[c]) /\ req[c].cache)
  /\ pc' = [pc EXCEPT ![c] = IF CacheHit(wf[c]) THEN "restart" ELSE "start"]
  /\ UNCHANGED <<tables, dataset, memorized, active, req, wf, toReset, batch,
                 todo, failed, held, strays, promised, overlapped>>

\* record_run_start: the STARTED row, written long after the gate looked.
StartRun(c) ==
  /\ pc[c] \in {"start", "restart"}
  /\ AppendRow(wf[c], "STARTED")
  /\ pc' = [pc EXCEPT ![c] = "run"]
  /\ UNCHANGED <<dataset, memorized, active, req, wf, toReset, batch, todo,
                 failed, held, strays, promised, overlapped>>

\* In background mode memorize() returns with the first event of the run.
ReturnInBackground(c) ==
  /\ pc[c] \in {"restart", "run", "finished"}
  /\ wf[c] = MemWf
  /\ req[c].background
  /\ held[c]
  /\ active' = FALSE
  /\ held' = [held EXCEPT ![c] = FALSE]
  /\ UNCHANGED <<tables, dataset, memorized, pc, req, wf, toReset, batch,
                 todo, failed, strays, promised, overlapped>>

\* One item goes through the tasks (or is found processed) and is marked.
ProcessItem(c, i) ==
  /\ pc[c] = "run"
  /\ i \in todo[c]
  /\ todo' = [todo EXCEPT ![c] = @ \ {i}]
  /\ IF wf[c] = AddWf
     THEN dataset' = dataset \cup {i} /\ UNCHANGED memorized
     ELSE memorized' = memorized \cup {i} /\ UNCHANGED dataset
  /\ UNCHANGED <<tables, active, pc, req, wf, toReset, batch, failed, held,
                 strays, promised, overlapped>>

\* An item fails and the errors of items are collected instead of raised.
FailItem(c, i) ==
  /\ pc[c] = "run"
  /\ ~RaiseErrors
  /\ i \in todo[c]
  /\ todo' = [todo EXCEPT ![c] = @ \ {i}]
  /\ failed' = [failed EXCEPT ![c] = TRUE]
  /\ UNCHANGED <<tables, dataset, memorized, active, pc, req, wf, toReset,
                 batch, held, strays, promised, overlapped>>

\* Mutant: the collected item errors are not looked at.
FinishRunAnyway(c) ==
  /\ pc[c] = "run"
  /\ todo[c] = {}
  /\ AppendRow(wf[c], "COMPLETED")
  /\ late' = IF wf[c] = MemWf THEN late \ batch[c] ELSE late
  /\ pc' = [pc EXCEPT ![c] = "finished"]
  /\ UNCHANGED <<dataset, memorized, active, req, wf, toReset, batch, todo,
                 failed, held, stray, promised, overlapped>>

\* record_run_finish
FinishRun(c) ==
  /\ pc[c] = "run"
  /\ todo[c] = {}
  /\ ~failed[c]
  /\ AppendRow(wf[c], "COMPLETED")
  /\ late' = IF wf[c] = MemWf THEN late \ batch[c] ELSE late
  /\ pc' = [pc EXCEPT ![c] = "finished"]
  /\ UNCHANGED <<dataset, memorized, active, req, wf, toReset, batch, todo,
                 failed, held, stray, promised, overlapped>>

\* WorkflowRunFailedError: recorded, reported as an event, not raised.
FailRun(c) ==
  /\ pc[c] = "run"
  /\ todo[c] = {}
  /\ failed[c]
  /\ AppendRow(wf[c], "ERRORED")
  /\ ReturnFromPipeline(c)
  /\ UNCHANGED <<dataset, memorized, active, strays, promised, overlapped>>

\* The remote flush after a blocking run; a background run never gets there.
FlushRun(c) ==
  /\ pc[c] = "finished"
  /\ ReturnFromPipeline(c)
  /\ UNCHANGED <<tables, dataset, memorized, active, strays, promised, overlapped>>

\* Mutant: an exception of the run is raised without a row.
AbortRunSilently(c) ==
  /\ \/ pc[c] = "run"
     \/ pc[c] = "finished" /\ ~(wf[c] = MemWf /\ req[c].background)
  /\ RaiseFromPipeline(c)
  /\ UNCHANGED <<tables, dataset, memorized, active, strays, promised, overlapped>>

\* What asyncio.gather leaves behind when an item of a parallel batch raises:
\* the coroutines of any of the other unfinished items run on.
Leftovers(c) ==
  {{}} \cup {left \in SUBSET ({wf[c]} \X todo[c]) :
              /\ pc[c] = "run"
              /\ left # {wf[c]} \X todo[c]      \* one of them has raised
              /\ Cardinality(stray \cup left) <= MaxStray}

\* Any other exception of the run, or of the flush: recorded and raised.
AbortRun(c) ==
  /\ \/ pc[c] = "run"
     \/ pc[c] = "finished" /\ ~(wf[c] = MemWf /\ req[c].background)
  /\ AppendRow(wf[c], "ERRORED")
  /\ \E left \in Leftovers(c) : stray' = stray \cup left
  /\ RaiseFromPipeline(c)
  /\ UNCHANGED <<dataset, memorized, active, late, promised, overlapped>>

\* Such a coroutine links or marks its item, whatever the table says by now.
FinishStray(w, i) ==
  /\ <<w, i>> \in stray
  /\ stray' = stray \ {<<w, i>>}
  /\ IF w = AddWf
     THEN /\ dataset' = dataset \cup {i}
          /\ late' = late \cup {i}
          /\ UNCHANGED memorized
     ELSE /\ memorized' = memorized \cup {i}
          /\ UNCHANGED <<dataset, late>>
  /\ UNCHANGED <<tables, locals, active, promised, overlapped>>

\* Or it fails; nobody retrieves its exception.
LoseStray(w, i) ==
  /\ <<w, i>> \in stray
  /\ stray' = stray \ {<<w, i>>}
  /\ UNCHANGED <<tables, locals, dataset, memorized, active, late, promised,
                 overlapped>>

\* Mutant: ingest() takes any end of memorize() for success.
LeaveContent(c) ==
  /\ pc[c] = "leave"
  /\ active' = (active /\ ~held[c])
  /\ promised' = IF req[c].op = "ingest" /\ ~req[c].background
                 THEN promised \cup req[c].payload ELSE promised
  /\ Forget(c)
  /\ UNCHANGED <<tables, dataset, memorized, strays, overlapped>>

\* The end of memorize(), its finally block, and the answer of ingest().
Leave(c) ==
  /\ pc[c] = "leave"
  /\ active' = (active /\ ~held[c])
  /\ promised' = IF req[c].op = "ingest" /\ ~req[c].background /\ ~failed[c]
                 THEN promised \cup req[c].payload ELSE promised
  /\ Forget(c)
  /\ UNCHANGED <<tables, dataset, memorized, strays, overlapped>>

-----------------------------------------------------------------------------
(* The environment *)

\* The workflows a call left as STARTED, with no one to write the next row.
LeftOpen(calls) ==
  {w \in Workflows : /\ latest[w] = "STARTED"
                     /\ \E c \in calls : pc[c] = "run" /\ wf[c] = w}

\* The caller cancels the call: CancelledError passes every except clause
\* of run_tasks, so no row is written; memorize()'s finally block runs. An
\* exception of any await outside run_tasks' try block has the same effect.
Cancel(c) ==
  /\ pc[c] # "idle"
  /\ orphaned' = orphaned \cup LeftOpen({c})
  /\ active' = (active /\ ~held[c])
  /\ Forget(c)
  /\ UNCHANGED <<latest, dataset, memorized, strays, promised, overlapped>>

\* The process dies: coroutines and registry are gone, the tables stay.
Crash ==
  /\ InFlight # {} \/ stray # {}
  /\ orphaned' = orphaned \cup LeftOpen(Calls)
  /\ active' = FALSE
  /\ pc' = [c \in Calls |-> "idle"]
  /\ req' = [c \in Calls |-> NoRequest]
  /\ wf' = [c \in Calls |-> AddWf]
  /\ toReset' = [c \in Calls |-> {}]
  /\ batch' = [c \in Calls |-> {}]
  /\ todo' = [c \in Calls |-> {}]
  /\ failed' = [c \in Calls |-> FALSE]
  /\ held' = [c \in Calls |-> FALSE]
  /\ stray' = {}
  /\ UNCHANGED <<latest, dataset, memorized, late, promised, overlapped>>

\* dismiss_pipeline_run looks for an INITIATED or STARTED row of the run id;
\* run ids are deterministic and the first row of a workflow is always
\* STARTED, so it finds one as soon as the workflow has any row at all.
Dismiss(w) ==
  /\ latest[w] # "none"
  /\ AppendRow(w, "ERRORED")
  /\ UNCHANGED <<locals, dataset, memorized, active, strays, promised, overlapped>>

-----------------------------------------------------------------------------
Step(c) ==
  \/ ResetStatus(c)
  \/ Register(c)
  \/ RefuseConflict(c)
  \/ FetchItems(c)
  \/ SkipRun(c)
  \/ PassGate(c)
  \/ StartRun(c)
  \/ ReturnInBackground(c)
  \/ \E i \in Items : ProcessItem(c, i) \/ FailItem(c, i)
  \/ FinishRun(c)
  \/ FailRun(c)
  \/ FlushRun(c)
  \/ AbortRun(c)
  \/ Leave(c)

Begin(c) == BeginAdd(c) \/ BeginMemorize(c)

Straggle == \E w \in Workflows, i \in Items : FinishStray(w, i) \/ LoseStray(w, i)

Disruption ==
  \/ \E c \in Calls : Cancel(c)
  \/ \E w \in Workflows : Dismiss(w)
  \/ Crash

Next ==
  \/ \E c \in Calls : Begin(c) \/ Step(c)
  \/ Straggle
  \/ Disruption

Spec == Init /\ [][Next]_vars

\* Coroutines are scheduled and callers keep calling; an item, a finish and a
\* flush that are tried again and again go through in the end.
Fairness ==
  \A c \in Calls :
    /\ WF_vars(Step(c))
    /\ WF_vars(Begin(c))
    /\ \A i \in Items, w \in Workflows : SF_vars(wf[c] = w /\ ProcessItem(c, i))
    /\ SF_vars(FinishRun(c))
    /\ SF_vars(FlushRun(c))

FairSpec == Spec /\ Fairness

\* Nobody cancels a call, dismisses a run or kills the process.
Work == Straggle \/ \E c \in Calls : Begin(c) \/ Step(c)

QuietSpec == Init /\ [][Work]_vars
-----------------------------------------------------------------------------
(* Properties *)

\* A COMPLETED row of memorize_pipeline is written only when every item the
\* run fetched is marked as processed: no failing item, whether its error is
\* raised or collected, slips through run_tasks.
CompletedCoversBatch ==
  \A c \in Calls :
    pc[c] = "finished" /\ wf[c] = MemWf => batch[c] \subseteq memorized

\* The newest row of a workflow says STARTED only while a run of it is alive,
\* or else its writer was cancelled or died: every other way out of run_tasks
\* writes a terminal row, also when runs overlap or are dismissed.
StartedHasOwner ==
  \A w \in Workflows :
    latest[w] = "STARTED" =>
      w \in orphaned \/ \E c \in Calls : pc[c] = "run" /\ wf[c] = w

\* As long as calls on the dataset never overlap, a COMPLETED memorize_pipeline
\* is up to date, so skipping it on the cache's word skips no item: add()
\* resets the status before its first item, through crashes, cancellations,
\* dismissals and failed runs. The one thing it can miss is an item that a
\* coroutine of an add() that had already raised links behind its back; the
\* next completed memorize() that fetches it takes that excuse away.
CompletedIsCurrent ==
  ~overlapped /\ latest[MemWf] = "COMPLETED" => dataset \subseteq memorized \cup late

\* As long as calls on the dataset never overlap and item errors are raised,
\* what ingest() reports as COMPLETED has been memorized.
SequentialIngestIsHonest ==
  ~overlapped /\ RaiseErrors => promised \subseteq memorized

\* With conflict_mode "error" in every call and no background runs, at most
\* one memorize() is past the registry, also around crashes, cancellations
\* and refused calls.
ErrorModeIsExclusive ==
  Modes = {"error"} /\ Backgrounds = {FALSE} =>
    \A c, d \in Calls :
      /\ pc[c] # "idle" /\ wf[c] = MemWf /\ pc[c] # "register"
      /\ pc[d] # "idle" /\ wf[d] = MemWf /\ pc[d] # "register"
      => c = d

\* An ingested item is eventually memorized while callers keep ingesting and
\* once cancellations, dismissals and crashes have ceased, although runs are
\* skipped on stale rows or fail, and a crash leaves a STARTED row behind: the
\* next add() reopens the gate.
EventuallyMemorized ==
  <>[][Work]_vars => \A i \in Items : (i \in dataset) ~> (i \in memorized)

\* IngestStatus.COMPLETED: "Synchronously completed, data is queryable."
IngestCompletedIsQueryable == promised \subseteq memorized
=============================================================================
