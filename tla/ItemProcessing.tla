--------------------------- MODULE ItemProcessing ---------------------------
(***************************************************************************)
(* Incremental loading: how pipeline runs decide which data items still    *)
(* need work, and how deletions undo it.                                   *)
(*                                                                         *)
(* Runs of add_pipeline and memorize_pipeline process the items of a       *)
(* dataset batch by batch, one at a time (SQLite) or in parallel           *)
(* (PostgreSQL). What is done is remembered in Data.workflow_state, one    *)
(* JSON document per data item that all pipelines and datasets share and   *)
(* that is read, changed and written back, and in a cache of the process   *)
(* filled per batch. The same item may belong to several datasets.         *)
(* Documents, data rows and datasets are deleted, one deletion at a time.  *)
(*                                                                         *)
(* A step is what a coroutine does between two awaits on the database.     *)
(***************************************************************************)
EXTENDS Naturals, FiniteSets

CONSTANTS
  Runs,         \* slots for pipeline runs in flight; a slot is reused
  Items,        \* data items (identified by their content)
  Datasets,
  NoDataset,
  BatchSize,    \* items_per_batch
  Serial,       \* the concurrency limit is 1
  RaiseErrors,  \* RAISE_INCREMENTAL_LOADING_ERRORS
  Incremental,  \* the values of incremental_loading
  Isolated,     \* every dataset has its own graph database
  Deletions     \* the kinds of deletion callers use

ASSUME ConstantsAssumption ==
  /\ NoDataset \notin Datasets
  /\ BatchSize \in Nat \ {0}
  /\ Serial \in BOOLEAN
  /\ RaiseErrors \in BOOLEAN
  /\ Incremental \subseteq BOOLEAN
  /\ Isolated \in BOOLEAN
  /\ Deletions \subseteq {"document", "data", "dataset"}

Workflows == {"add_pipeline", "memorize_pipeline"}

\* A COMPLETED entry workflow_state[workflow][dataset].
Keys == Workflows \X Datasets

Phases == {"idle", "batch", "preload", "items", "completed", "errored"}

\* Where an item is within process_data_items and the ingestion task; "seen"
\* and "unseen" tell whether the dataset listed the item, "update", "skip",
\* "join" and "new" are the outcomes of looking up its row.
Busy == {"tasks", "seen", "unseen", "update", "skip", "join", "new", "mark", "write"}
Stages == Busy \cup {"none", "check", "done", "failed"}

VARIABLES
  rows,        \* items with a row in table data
  links,       \* table dataset_data
  marks,       \* workflow_state of each row
  graph,       \* what the graph holds, by item and dataset
  cached,      \* the keys of _STATUS_CACHE
  cache,       \* and its values
  phase,       \* where each run is
  wf, ds,      \* its pipeline and dataset
  incremental, \* its incremental_loading
  items,       \* its payload
  todo,        \* the items of the batches to come
  preread,     \* the items its preload found marked
  failed,      \* a collected item error
  stage,       \* where each item of the current batch is
  snap,        \* the workflow_state its coroutine has loaded
  dpc,         \* where the deletion in progress is
  dds,         \* its dataset
  ditems,      \* the items it works on
  dsnap,       \* their workflow_state as it was loaded
  earned,      \* history: (item, key) whose task chain ran to its end
  overlapped   \* history: two runs or deletions have been in flight together

stored == <<rows, links, marks, graph>>
caches == <<cached, cache>>
control == <<phase, wf, ds, incremental, items, todo, preread, failed>>
deletion == <<dpc, dds, ditems, dsnap>>
vars == <<stored, caches, control, stage, snap, deletion, earned, overlapped>>

TypeOK ==
  /\ rows \subseteq Items
  /\ links \subseteq Items \X Datasets
  /\ marks \in [Items -> SUBSET Keys]
  /\ graph \subseteq Items \X Datasets
  /\ cached \subseteq Keys
  /\ cache \in [Keys -> SUBSET Items]
  /\ phase \in [Runs -> Phases]
  /\ wf \in [Runs -> Workflows]
  /\ ds \in [Runs -> Datasets \cup {NoDataset}]
  /\ incremental \in [Runs -> BOOLEAN]
  /\ items \in [Runs -> SUBSET Items]
  /\ todo \in [Runs -> SUBSET Items]
  /\ preread \in [Runs -> SUBSET Items]
  /\ failed \in [Runs -> BOOLEAN]
  /\ stage \in [Runs -> [Items -> Stages]]
  /\ snap \in [Runs -> [Items -> SUBSET Keys]]
  /\ dpc \in {"idle", "clear", "store", "row", "purge"}
  /\ dds \in Datasets \cup {NoDataset}
  /\ ditems \subseteq Items
  /\ dsnap \in [Items -> SUBSET Keys]
  /\ earned \subseteq Items \X Keys
  /\ overlapped \in BOOLEAN

Init ==
  /\ rows = {}
  /\ links = {}
  /\ marks = [i \in Items |-> {}]
  /\ graph = {}
  /\ cached = {}
  /\ cache = [k \in Keys |-> {}]
  /\ phase = [r \in Runs |-> "idle"]
  /\ wf = [r \in Runs |-> "add_pipeline"]
  /\ ds = [r \in Runs |-> NoDataset]
  /\ incremental = [r \in Runs |-> TRUE]
  /\ items = [r \in Runs |-> {}]
  /\ todo = [r \in Runs |-> {}]
  /\ preread = [r \in Runs |-> {}]
  /\ failed = [r \in Runs |-> FALSE]
  /\ stage = [r \in Runs |-> [i \in Items |-> "none"]]
  /\ snap = [r \in Runs |-> [i \in Items |-> {}]]
  /\ dpc = "idle"
  /\ dds = NoDataset
  /\ ditems = {}
  /\ dsnap = [i \in Items |-> {}]
  /\ earned = {}
  /\ overlapped = FALSE

-----------------------------------------------------------------------------
(* Runs *)

Key(r) == <<wf[r], ds[r]>>
Linked(d) == {i \in Items : <<i, d>> \in links}

\* Items of the run whose coroutine is alive, also after the run raised.
Live(r) == {i \in Items : stage[r][i] \in Busy \cup {"check"}}

Quiet == dpc = "idle" /\ \A r \in Runs : phase[r] = "idle" /\ Live(r) = {}

Idle == [i \in Items |-> "none"]

\* Every way to begin a run; add() brings items, memorize() looks them up.
Begin(r, w, d, payload) ==
  /\ phase[r] = "idle"
  /\ Live(r) = {}
  /\ wf' = [wf EXCEPT ![r] = w]
  /\ ds' = [ds EXCEPT ![r] = d]
  /\ \E b \in Incremental : incremental' = [incremental EXCEPT ![r] = b]
  /\ items' = [items EXCEPT ![r] = payload]
  /\ todo' = [todo EXCEPT ![r] = payload]
  /\ phase' = [phase EXCEPT ![r] = "batch"]
  /\ overlapped' = (overlapped \/ ~Quiet)
  /\ UNCHANGED <<stored, caches, preread, failed, stage, snap, deletion, earned>>

BeginAdd(r) ==
  \E d \in Datasets, payload \in SUBSET Items \ {{}} :
    Begin(r, "add_pipeline", d, payload)

BeginMemorize(r) ==
  \E d \in Datasets : Begin(r, "memorize_pipeline", d, Linked(d))

\* The locals of a run are gone.
Forget(r) ==
  /\ phase' = [phase EXCEPT ![r] = "idle"]
  /\ wf' = [wf EXCEPT ![r] = "add_pipeline"]
  /\ ds' = [ds EXCEPT ![r] = NoDataset]
  /\ incremental' = [incremental EXCEPT ![r] = TRUE]
  /\ items' = [items EXCEPT ![r] = {}]
  /\ todo' = [todo EXCEPT ![r] = {}]
  /\ preread' = [preread EXCEPT ![r] = {}]
  /\ failed' = [failed EXCEPT ![r] = FALSE]
  /\ stage' = [stage EXCEPT ![r] = Idle]
  /\ snap' = [snap EXCEPT ![r] = [i \in Items |-> {}]]

\* Mutant: the preload takes an entry of any workflow for its own.
NextBatchAnyMark(r) ==
  /\ phase[r] = "batch"
  /\ \E b \in SUBSET todo[r] :
       /\ b # {}
       /\ Cardinality(b) = BatchSize \/ (Cardinality(b) < BatchSize /\ b = todo[r])
       /\ stage' = [stage EXCEPT ![r] = [i \in Items |-> IF i \in b THEN "check" ELSE "none"]]
       /\ todo' = [todo EXCEPT ![r] = @ \ b]
       /\ preread' = [preread EXCEPT ![r] = {i \in b \cap rows : marks[i] # {}}]
       /\ phase' = [phase EXCEPT ![r] =
            IF incremental[r] /\ wf[r] = "memorize_pipeline" THEN "preload" ELSE "items"]
  /\ UNCHANGED <<stored, caches, wf, ds, incremental, items, failed, snap,
                 deletion, earned, overlapped>>

\* The next batch; memorize() passes Data records, whose status it preloads.
NextBatch(r) ==
  /\ phase[r] = "batch"
  /\ \E b \in SUBSET todo[r] :
       /\ b # {}
       /\ Cardinality(b) = BatchSize \/ (Cardinality(b) < BatchSize /\ b = todo[r])
       /\ stage' = [stage EXCEPT ![r] = [i \in Items |-> IF i \in b THEN "check" ELSE "none"]]
       /\ todo' = [todo EXCEPT ![r] = @ \ b]
       /\ IF incremental[r] /\ wf[r] = "memorize_pipeline"
          THEN /\ preread' = [preread EXCEPT ![r] = {i \in b \cap rows : Key(r) \in marks[i]}]
               /\ phase' = [phase EXCEPT ![r] = "preload"]
          ELSE /\ phase' = [phase EXCEPT ![r] = "items"]
               /\ UNCHANGED preread
  /\ UNCHANGED <<stored, caches, wf, ds, incremental, items, failed, snap,
                 deletion, earned, overlapped>>

\* Mutant: a cache that is there already is kept.
FillCacheOnce(r) ==
  /\ phase[r] = "preload"
  /\ cached' = cached \cup {Key(r)}
  /\ cache' = IF Key(r) \in cached THEN cache ELSE [cache EXCEPT ![Key(r)] = preread[r]]
  /\ preread' = [preread EXCEPT ![r] = {}]
  /\ phase' = [phase EXCEPT ![r] = "items"]
  /\ UNCHANGED <<stored, wf, ds, incremental, items, todo, failed, stage, snap,
                 deletion, earned, overlapped>>

\* The cache of the key holds what the last preload of any run found.
FillCache(r) ==
  /\ phase[r] = "preload"
  /\ cached' = cached \cup {Key(r)}
  /\ cache' = [cache EXCEPT ![Key(r)] = preread[r]]
  /\ preread' = [preread EXCEPT ![r] = {}]
  /\ phase' = [phase EXCEPT ![r] = "items"]
  /\ UNCHANGED <<stored, wf, ds, incremental, items, todo, failed, stage, snap,
                 deletion, earned, overlapped>>

\* All the coroutines of the batch have returned.
EndBatch(r) ==
  /\ phase[r] = "items"
  /\ Live(r) = {}
  /\ failed' = [failed EXCEPT ![r] = @ \/ \E i \in Items : stage[r][i] = "failed"]
  /\ stage' = [stage EXCEPT ![r] = Idle]
  /\ phase' = [phase EXCEPT ![r] = "batch"]
  /\ UNCHANGED <<stored, caches, wf, ds, incremental, items, todo, preread,
                 snap, deletion, earned, overlapped>>

\* Mutant: the collected errors are not looked at.
EndRunAnyway(r) ==
  /\ phase[r] = "batch"
  /\ todo[r] = {}
  /\ cached' = {}
  /\ cache' = [k \in Keys |-> {}]
  /\ phase' = [phase EXCEPT ![r] = "completed"]
  /\ UNCHANGED <<stored, wf, ds, incremental, items, todo, preread, failed,
                 stage, snap, deletion, earned, overlapped>>

\* After the last batch the cache is dropped, for all keys, and the collected
\* errors are looked at.
EndRun(r) ==
  /\ phase[r] = "batch"
  /\ todo[r] = {}
  /\ cached' = {}
  /\ cache' = [k \in Keys |-> {}]
  /\ phase' = [phase EXCEPT ![r] = IF failed[r] THEN "errored" ELSE "completed"]
  /\ UNCHANGED <<stored, wf, ds, incremental, items, todo, preread, failed,
                 stage, snap, deletion, earned, overlapped>>

Return(r) ==
  /\ phase[r] \in {"completed", "errored"}
  /\ Forget(r)
  /\ UNCHANGED <<stored, caches, deletion, earned, overlapped>>

\* The run is cancelled, or its own database access fails; the cache stays.
StopRun(r) ==
  /\ phase[r] \in {"batch", "preload", "items"}
  /\ Forget(r)
  /\ UNCHANGED <<stored, caches, deletion, earned, overlapped>>

-----------------------------------------------------------------------------
(* One item of a run *)

Move(r, i, s) == stage' = [stage EXCEPT ![r][i] = s]
Unload(r, i) == snap' = [snap EXCEPT ![r][i] = {}]

\* With a concurrency limit of 1 the next item waits for the previous one.
Turn(r, i) ==
  /\ phase[r] # "preload"
  /\ Serial => \A j \in Items : stage[r][j] \notin Busy

\* _is_already_processed: the cache if there is one, else the row.
FoundProcessed(r, i) ==
  IF Key(r) \in cached THEN i \in cache[Key(r)]
  ELSE i \in rows /\ Key(r) \in marks[i]

CheckItem(r, i) ==
  /\ stage[r][i] = "check"
  /\ Turn(r, i)
  /\ Move(r, i, IF incremental[r] /\ FoundProcessed(r, i) THEN "done" ELSE "tasks")
  /\ UNCHANGED <<stored, caches, control, snap, deletion, earned, overlapped>>

\* The task chain returned; without incremental loading that is the end.
EndTasks(r, i) ==
  /\ Move(r, i, IF incremental[r] THEN "mark" ELSE "done")
  /\ earned' = earned \cup {<<i, Key(r)>>}

MemorizeItem(r, i) ==
  /\ stage[r][i] = "tasks"
  /\ wf[r] = "memorize_pipeline"
  /\ graph' = graph \cup {<<i, ds[r]>>}
  /\ EndTasks(r, i)
  /\ UNCHANGED <<rows, links, marks, caches, control, snap, deletion, overlapped>>

\* ingest_data lists the dataset, then looks up the row of the item ...
ListDataset(r, i) ==
  /\ stage[r][i] = "tasks"
  /\ wf[r] = "add_pipeline"
  /\ Move(r, i, IF <<i, ds[r]>> \in links THEN "seen" ELSE "unseen")
  /\ UNCHANGED <<stored, caches, control, snap, deletion, earned, overlapped>>

LookUpRow(r, i) ==
  /\ stage[r][i] \in {"seen", "unseen"}
  /\ Move(r, i, IF i \in rows
                THEN IF stage[r][i] = "seen" THEN "update" ELSE "join"
                ELSE IF stage[r][i] = "seen" THEN "skip" ELSE "new")
  /\ snap' = [snap EXCEPT ![r][i] = marks[i]]
  /\ UNCHANGED <<stored, caches, control, deletion, earned, overlapped>>

\* ... and commits what it found missing. A row or link that appeared or
\* disappeared in between makes the commit of "join" or "new" fail; an updated
\* row is merged back with the workflow_state it was loaded with, over the row
\* as it is by now or, if that is gone, as a new one.
CommitItem(r, i) ==
  /\ \/ /\ stage[r][i] = "update"
        /\ rows' = rows \cup {i}
        /\ marks' = [marks EXCEPT ![i] = snap[r][i]]
        /\ UNCHANGED links
     \/ /\ stage[r][i] = "skip"
        /\ UNCHANGED <<rows, links, marks>>
     \/ /\ \/ stage[r][i] = "join" /\ i \in rows
           \/ stage[r][i] = "new" /\ i \notin rows
        /\ <<i, ds[r]>> \notin links
        /\ rows' = rows \cup {i}
        /\ links' = links \cup {<<i, ds[r]>>}
        /\ UNCHANGED marks
  /\ EndTasks(r, i)
  /\ Unload(r, i)
  /\ UNCHANGED <<graph, caches, control, deletion, overlapped>>

\* _mark_completed: load the row, add the entry, write the document back.
LoadState(r, i) ==
  /\ stage[r][i] = "mark"
  /\ Move(r, i, IF i \in rows THEN "write" ELSE "done")
  /\ snap' = [snap EXCEPT ![r][i] = IF i \in rows THEN marks[i] ELSE {}]
  /\ UNCHANGED <<stored, caches, control, deletion, earned, overlapped>>

\* Mutant: the entry is written without its dataset.
WriteStateForAll(r, i) ==
  /\ stage[r][i] = "write"
  /\ i \in rows
  /\ marks' = [marks EXCEPT ![i] = snap[r][i] \cup {wf[r]}]
  /\ Move(r, i, "done")
  /\ Unload(r, i)
  /\ UNCHANGED <<rows, links, graph, caches, control, deletion, earned, overlapped>>

WriteState(r, i) ==
  /\ stage[r][i] = "write"
  /\ i \in rows
  /\ marks' = [marks EXCEPT ![i] = snap[r][i] \cup {Key(r)}]
  /\ Move(r, i, "done")
  /\ Unload(r, i)
  /\ UNCHANGED <<rows, links, graph, caches, control, deletion, earned, overlapped>>

\* Mutant: a finally clause marks the item whose tasks raised.
FailItemMarking(r, i) ==
  /\ stage[r][i] = "tasks"
  /\ Move(r, i, "mark")
  /\ Unload(r, i)
  /\ UNCHANGED <<stored, caches, control, deletion, earned, overlapped>>

\* An exception of the item: collected, or raised through run_tasks. Raised,
\* it ends the run; items that have not begun begin no more if items run one
\* by one, but those started in parallel go on.
FailItem(r, i) ==
  /\ \/ stage[r][i] \in Busy
     \/ stage[r][i] = "check" /\ Turn(r, i)
  /\ IF phase[r] # "items" THEN Move(r, i, "none") /\ UNCHANGED control
     ELSE IF RaiseErrors \/ stage[r][i] = "check"
     THEN /\ phase' = [phase EXCEPT ![r] = "idle"]
          /\ todo' = [todo EXCEPT ![r] = {}]
          /\ stage' = [stage EXCEPT ![r] = [j \in Items |->
                         IF ~Serial /\ j \in Live(r) \ {i} THEN stage[r][j] ELSE "none"]]
          /\ failed' = [failed EXCEPT ![r] = FALSE]
          /\ UNCHANGED <<wf, ds, incremental, items, preread>>
     ELSE Move(r, i, "failed") /\ UNCHANGED control
  /\ Unload(r, i)
  /\ UNCHANGED <<stored, caches, deletion, earned, overlapped>>

-----------------------------------------------------------------------------
(* Deletions *)

EndDeletion ==
  /\ dpc' = "idle"
  /\ dds' = NoDataset
  /\ ditems' = {}
  /\ dsnap' = [i \in Items |-> {}]

\* delete_dataset loads the rows of the dataset ...
DeleteDataset(d) ==
  /\ "dataset" \in Deletions
  /\ dpc = "idle"
  /\ dpc' = "clear"
  /\ dds' = d
  /\ ditems' = Linked(d)
  /\ dsnap' = [i \in Items |-> IF i \in Linked(d) THEN marks[i] ELSE {}]
  /\ overlapped' = (overlapped \/ ~Quiet)
  /\ UNCHANGED <<stored, caches, control, stage, snap, earned>>

\* Mutant: the dataset goes, its entries stay.
ClearNothing ==
  /\ dpc = "clear"
  /\ dpc' = "store"
  /\ UNCHANGED <<stored, caches, control, stage, snap, dds, ditems, dsnap, earned,
                 overlapped>>

\* ... writes back what it loaded, less the entries of the dataset, and commits
\* only if it found such an entry ...
ClearStates ==
  /\ dpc = "clear"
  /\ LET entries == Workflows \X {dds}
     IN  marks' = IF \E i \in ditems : dsnap[i] \cap entries # {}
                  THEN [i \in Items |-> IF i \in ditems /\ dsnap[i] # {}
                                        THEN dsnap[i] \ entries ELSE marks[i]]
                  ELSE marks
  /\ dpc' = "store"
  /\ UNCHANGED <<rows, links, graph, caches, control, stage, snap, dds, ditems,
                 dsnap, earned, overlapped>>

\* ... deletes the databases of the dataset, if it has its own ...
DropStore ==
  /\ dpc = "store"
  /\ graph' = IF Isolated THEN graph \ (Items \X {dds}) ELSE graph
  /\ dpc' = "row"
  /\ UNCHANGED <<rows, links, marks, caches, control, stage, snap, dds, ditems,
                 dsnap, earned, overlapped>>

\* ... and the dataset's row, from which the deletion cascades to dataset_data.
DropRow ==
  /\ dpc = "row"
  /\ links' = links \ (Items \X {dds})
  /\ EndDeletion
  /\ UNCHANGED <<rows, marks, graph, caches, control, stage, snap, earned, overlapped>>

\* delete() of a document from one dataset: first out of the graph, which all
\* datasets share unless they are isolated ...
DeleteDocument(i, d) ==
  /\ "document" \in Deletions
  /\ dpc = "idle"
  /\ <<i, d>> \in links
  /\ i \in rows
  /\ LET content == IF Isolated THEN {<<i, d>>} ELSE {i} \X Datasets
     IN  /\ content \cap graph # {}
         /\ graph' = graph \ content
  /\ dpc' = "purge"
  /\ dds' = d
  /\ ditems' = {i}
  /\ overlapped' = (overlapped \/ ~Quiet)
  /\ UNCHANGED <<rows, links, marks, caches, control, stage, snap, dsnap, earned>>

\* ... then the link and, with the last link, the row. A row in three datasets
\* or more makes the lookup of the other links raise, and nothing is committed.
PurgeDocument ==
  /\ dpc = "purge"
  /\ \E i \in ditems :
       LET others == {e \in Datasets \ {dds} : <<i, e>> \in links}
       IN  IF i \notin rows \/ Cardinality(others) > 1 THEN UNCHANGED <<rows, links, marks>>
           ELSE /\ links' = links \ {<<i, dds>>}
                /\ rows' = IF others = {} THEN rows \ {i} ELSE rows
                /\ marks' = IF others = {} THEN [marks EXCEPT ![i] = {}] ELSE marks
  /\ EndDeletion
  /\ UNCHANGED <<graph, caches, control, stage, snap, earned, overlapped>>

\* The row of an item, with all its links; the graph is left alone.
DeleteData(i) ==
  /\ "data" \in Deletions
  /\ dpc = "idle"
  /\ i \in rows
  /\ rows' = rows \ {i}
  /\ links' = links \ ({i} \X Datasets)
  /\ marks' = [marks EXCEPT ![i] = {}]
  /\ overlapped' = (overlapped \/ ~Quiet)
  /\ UNCHANGED <<graph, caches, control, stage, snap, deletion, earned>>

\* A step of a deletion fails, or its caller gives up.
StopDeletion ==
  /\ dpc # "idle"
  /\ EndDeletion
  /\ UNCHANGED <<stored, caches, control, stage, snap, earned, overlapped>>

\* The process dies.
Crash ==
  /\ ~Quiet
  /\ cached' = {}
  /\ cache' = [k \in Keys |-> {}]
  /\ phase' = [r \in Runs |-> "idle"]
  /\ wf' = [r \in Runs |-> "add_pipeline"]
  /\ ds' = [r \in Runs |-> NoDataset]
  /\ incremental' = [r \in Runs |-> TRUE]
  /\ items' = [r \in Runs |-> {}]
  /\ todo' = [r \in Runs |-> {}]
  /\ preread' = [r \in Runs |-> {}]
  /\ failed' = [r \in Runs |-> FALSE]
  /\ stage' = [r \in Runs |-> Idle]
  /\ snap' = [r \in Runs |-> [i \in Items |-> {}]]
  /\ EndDeletion
  /\ UNCHANGED <<stored, earned, overlapped>>

-----------------------------------------------------------------------------
ItemStep(r, i) ==
  \/ CheckItem(r, i)
  \/ MemorizeItem(r, i)
  \/ ListDataset(r, i)
  \/ LookUpRow(r, i)
  \/ CommitItem(r, i)
  \/ LoadState(r, i)
  \/ WriteState(r, i)
  \/ FailItem(r, i)

RunStep(r) ==
  \/ BeginAdd(r)
  \/ BeginMemorize(r)
  \/ NextBatch(r)
  \/ FillCache(r)
  \/ EndBatch(r)
  \/ EndRun(r)
  \/ Return(r)
  \/ StopRun(r)

DeletionStep ==
  \/ \E d \in Datasets : DeleteDataset(d) \/ \E i \in Items : DeleteDocument(i, d)
  \/ \E i \in Items : DeleteData(i)
  \/ ClearStates
  \/ DropStore
  \/ DropRow
  \/ PurgeDocument
  \/ StopDeletion

Next ==
  \/ \E r \in Runs : RunStep(r) \/ \E i \in Items : ItemStep(r, i)
  \/ DeletionStep
  \/ Crash

Spec == Init /\ [][Next]_vars
-----------------------------------------------------------------------------
(* Properties *)

\* workflow_state says COMPLETED only of what a task chain ran to its end for:
\* no lost update, stale write-back of a deletion or merge of a detached row
\* ever puts an entry there that nobody earned.
MarksAreEarned ==
  \A i \in Items, k \in Keys : k \in marks[i] => <<i, k>> \in earned

\* A run that is recorded as COMPLETED owes no item: each one went through the
\* tasks in this run or in an earlier one, whatever the caches said, whichever
\* runs overlapped it and whichever errors were collected.
CompletedRunOwesNothing ==
  \A r \in Runs : phase[r] = "completed" =>
    \A i \in items[r] : <<i, Key(r)>> \in earned

\* Without overlaps, a completed add_pipeline run leaves every item of its
\* payload in the dataset, through failures, crashes and deletions.
SequentialAddLinks ==
  ~overlapped =>
    \A r \in Runs : phase[r] = "completed" /\ wf[r] = "add_pipeline" =>
      items[r] \subseteq Linked(ds[r])

\* Without overlaps, a completed memorize_pipeline run leaves the graph with
\* every item of the dataset, through failures, crashes and deletions.
SequentialMemorizeCovers ==
  ~overlapped =>
    \A r \in Runs : phase[r] = "completed" /\ wf[r] = "memorize_pipeline" =>
      \A i \in items[r] : <<i, ds[r]>> \in graph

\* Without overlaps, incremental loading spends no work on an item that is
\* marked: no cache of an earlier run, or of an earlier batch, hides a mark.
MarkedIsSkipped ==
  [][\A r \in Runs, i \in Items :
       /\ ~overlapped /\ incremental[r]
       /\ stage[r][i] = "check" /\ stage'[r][i] = "tasks"
       => Key(r) \notin marks[i]]_vars
=============================================================================
