------------------------------ MODULE CloudSync ------------------------------
(***************************************************************************)
(* Cloud synchronisation of one user's datasets (api/v1/sync/sync.py and   *)
(* its router, shared/sync).  A request that sees no active operation      *)
(* creates a record and starts a background task; the task compares the    *)
(* hashes of every dataset with the cloud, uploads and downloads what is   *)
(* missing, and closes the record.  The server may die at any time; the    *)
(* record stays as it was.  The cloud is external: it answers, refuses, or *)
(* does not have a file any more, and a file it gives has the hash it was  *)
(* asked by.  An update of the record may raise, after its retries, whether*)
(* or not it was committed.  The user may write to all the datasets.       *)
(***************************************************************************)
EXTENDS Integers, FiniteSets

CONSTANTS Requests,     \* requests to POST /sync, each becomes a run
          Datasets,     \* the datasets of the user
          Hashes,       \* content hashes
          Arriving,     \* bound: hashes of the items that come while runs go on
          Nothing       \* no result yet

ASSUME SyncAssumption == Arriving \subseteq Hashes

Active == {"started", "in_progress"}
Statuses == {"none", "completed", "failed"} \cup Active

VARIABLES op,       \* op[r]: the SyncOperation record of a run
          task,     \* task[r]: where the request or its background task is
          work,     \* work[r][d]: the sync of a dataset inside the task
          local,    \* local[d]: hashes of the items of a dataset
          remote    \* remote[d]: hashes the cloud holds

syncVars == <<op, task, work, local, remote>>

\* A dataset in a run: what was local and what was remote when the hashes
\* were compared, the files still to move, and those the cloud did not give.
NoWork == [stage |-> "waiting", seen |-> {}, up |-> {}, todo |-> {}, lost |-> {}]
Down(w) == w.up \ w.seen
NoOp == [status |-> "none", uploaded |-> Nothing, downloaded |-> Nothing]

SyncInit ==
    /\ op = [r \in Requests |-> NoOp]
    /\ task = [r \in Requests |-> "new"]
    /\ work = [r \in Requests |-> [d \in Datasets |-> NoWork]]
    /\ local \in [Datasets -> SUBSET Hashes]
    /\ remote \in [Datasets -> SUBSET Hashes]

\* The router refuses a user who has an active operation (409).
Admit(r) ==
    /\ task[r] = "new"
    /\ task' = [task EXCEPT ![r] =
            IF \E q \in Requests : op[q].status \in Active THEN "refused" ELSE "admitted"]
    /\ UNCHANGED <<op, work, local, remote>>

\* sync(): a record that cannot be written is only logged, the task starts.
Launch(r) ==
    /\ task[r] = "admitted"
    /\ \E written \in BOOLEAN :
            op' = IF written THEN [op EXCEPT ![r].status = "started"] ELSE op
    /\ task' = [task EXCEPT ![r] = "launched"]
    /\ UNCHANGED <<work, local, remote>>

\* An update finds its record, or changes nothing.
SetStatus(r, s) == IF op[r].status = "none" THEN op ELSE [op EXCEPT ![r].status = s]

\* mark_sync_started; when it raises, the task marks itself failed.
Start(r) ==
    /\ task[r] = "launched"
    /\ \/ op' = SetStatus(r, "in_progress") /\ task' = [task EXCEPT ![r] = "syncing"]
       \/ op' \in {op, SetStatus(r, "in_progress")} /\ task' = [task EXCEPT ![r] = "failing"]
    /\ UNCHANGED <<work, local, remote>>

At(r, d, stage) == task[r] = "syncing" /\ work[r][d].stage = stage

\* Mutant of Diff: it asks the cloud for the files that are here.
DiffSwapped(r, d) ==
    /\ At(r, d, "waiting")
    /\ work' = [work EXCEPT ![r][d] =
            IF local[d] = {} THEN [@ EXCEPT !.stage = "skipped"]
            ELSE [@ EXCEPT !.stage = "upload", !.up = remote[d], !.seen = local[d],
                           !.todo = remote[d] \ local[d]]]
    /\ UNCHANGED <<op, task, local, remote>>

\* _extract_files and _check_diff: a dataset without local items is skipped.
Diff(r, d) ==
    /\ At(r, d, "waiting")
    /\ work' = [work EXCEPT ![r][d] =
            IF local[d] = {} THEN [@ EXCEPT !.stage = "skipped"]
            ELSE [@ EXCEPT !.stage = "upload", !.up = remote[d], !.seen = local[d],
                           !.todo = local[d] \ remote[d]]]
    /\ UNCHANGED <<op, task, local, remote>>

\* One PUT; after the last one the downloads begin.
Upload(r, d) ==
    /\ At(r, d, "upload")
    /\ IF work[r][d].todo = {}
       THEN /\ work' = [work EXCEPT ![r][d].stage = "download", ![r][d].todo = Down(work[r][d])]
            /\ UNCHANGED remote
       ELSE \E h \in work[r][d].todo :
            /\ remote' = [remote EXCEPT ![d] = @ \cup {h}]
            /\ work' = [work EXCEPT ![r][d].todo = @ \ {h}]
    /\ UNCHANGED <<op, task, local>>

\* One GET and its ingestion; any answer but 200 passes over the file.
Download(r, d) ==
    /\ At(r, d, "download")
    /\ IF work[r][d].todo = {}
       THEN /\ work' = [work EXCEPT ![r][d].stage = "synced"]
            /\ UNCHANGED local
       ELSE \E h \in work[r][d].todo :
            \/ /\ local' = [local EXCEPT ![d] = @ \cup {h}]
               /\ work' = [work EXCEPT ![r][d].todo = @ \ {h}]
            \/ /\ work' = [work EXCEPT ![r][d].todo = @ \ {h}, ![r][d].lost = @ \cup {h}]
               /\ UNCHANGED local
    /\ UNCHANGED <<op, task, remote>>

\* An exception anywhere in a dataset: logged, and the others go on.
FailDataset(r, d) ==
    /\ task[r] = "syncing"
    /\ work[r][d].stage \in {"waiting", "upload", "download"}
    /\ work' = [work EXCEPT ![r][d].stage = "failed"]
    /\ UNCHANGED <<op, task, local, remote>>

\* Mutant of Finish: a dataset that failed is reported too.
FinishClaimsAll(r) ==
    /\ task[r] = "syncing"
    /\ \A d \in Datasets : work[r][d].stage \in {"skipped", "synced", "failed"}
    /\ \/ /\ task' = [task EXCEPT ![r] = "ended"]
          /\ op' = IF op[r].status = "none" THEN op
                   ELSE [op EXCEPT ![r] =
                     [status |-> "completed",
                      uploaded   |-> [d \in Datasets |-> work[r][d].seen \ work[r][d].up],
                      downloaded |-> [d \in Datasets |-> Down(work[r][d])]]]
       \/ op' = op /\ task' = [task EXCEPT ![r] = "failing"]
    /\ UNCHANGED <<work, local, remote>>

\* All datasets are through: the hash map holds what the diffs had found
\* missing, for every dataset that gave a result.  Both memorize calls and
\* all progress updates may fail without a consequence.
Finish(r) ==
    /\ task[r] = "syncing"
    /\ \A d \in Datasets : work[r][d].stage \in {"skipped", "synced", "failed"}
    /\ LET done == {d \in Datasets : work[r][d].stage = "synced"}
           record == [status |-> "completed",
                      uploaded   |-> [d \in done |-> work[r][d].seen \ work[r][d].up],
                      downloaded |-> [d \in done |-> Down(work[r][d])]]
           closed == IF op[r].status = "none" THEN op ELSE [op EXCEPT ![r] = record]
       IN  \/ op' = closed /\ task' = [task EXCEPT ![r] = "ended"]
           \/ op' \in {op, closed} /\ task' = [task EXCEPT ![r] = "failing"]
    /\ UNCHANGED <<work, local, remote>>

\* Mutant of MarkFailed: it closes the newest operation of the user.
MarkFailedOfUser(r) ==
    /\ task[r] = "failing"
    /\ \/ \E q \in Requests : op' = SetStatus(q, "failed")
       \/ op' = op
    /\ task' = [task EXCEPT ![r] = "ended"]
    /\ UNCHANGED <<work, local, remote>>

\* mark_sync_failed; when this raises too, the record may stay active for ever.
MarkFailed(r) ==
    /\ task[r] = "failing"
    /\ op' \in {SetStatus(r, "failed"), op}
    /\ task' = [task EXCEPT ![r] = "ended"]
    /\ UNCHANGED <<work, local, remote>>

\* Items come to a dataset from elsewhere, on either side.
AddItem ==
    /\ \E d \in Datasets, h \in Arriving :
        \/ local' = [local EXCEPT ![d] = @ \cup {h}] /\ UNCHANGED remote
        \/ remote' = [remote EXCEPT ![d] = @ \cup {h}] /\ UNCHANGED local
    /\ UNCHANGED <<op, task, work>>

\* The server stops: its tasks are gone with what they knew, the records stay.
Crash ==
    LET alive == {r \in Requests : task[r] \notin {"new", "refused", "ended", "killed"}} IN
    /\ alive # {}
    /\ task' = [r \in Requests |-> IF r \in alive THEN "killed" ELSE task[r]]
    /\ work' = [r \in Requests |-> IF r \in alive THEN [d \in Datasets |-> NoWork] ELSE work[r]]
    /\ UNCHANGED <<op, local, remote>>

Step(r) == \/ Admit(r) \/ Launch(r) \/ Start(r) \/ Finish(r) \/ MarkFailed(r)
           \/ \E d \in Datasets : Diff(r, d) \/ Upload(r, d) \/ Download(r, d)

SyncNext == \/ \E r \in Requests : Step(r) \/ \E d \in Datasets : FailDataset(r, d)
            \/ AddItem \/ Crash

SyncSpec == SyncInit /\ [][SyncNext]_syncVars

-----------------------------------------------------------------------------
SyncTypeOK ==
    /\ \A r \in Requests : op[r].status \in Statuses
    /\ task \in [Requests -> {"new", "refused", "admitted", "launched", "syncing", "failing",
                              "ended", "killed"}]
    /\ local \in [Datasets -> SUBSET Hashes] /\ remote \in [Datasets -> SUBSET Hashes]

(* A dataset that a sync went through loses nothing to it: all that was    *)
(* local or remote when the hashes were compared is on the other side at   *)
(* the end, except the files the cloud would not give (sync.py:285-316).   *)
SyncedDatasetsMeet ==
    \A r \in Requests, d \in Datasets : work[r][d].stage = "synced" =>
        /\ work[r][d].seen \subseteq remote[d]
        /\ work[r][d].up \subseteq local[d] \cup work[r][d].lost

(* What a completed operation reports as uploaded the cloud has, even when *)
(* two operations ran at once (sync.py:238-241, 305-316).                  *)
UploadClaimsHold ==
    \A r \in Requests : op[r].status = "completed" =>
        \A d \in DOMAIN op[r].uploaded : op[r].uploaded[d] \subseteq remote[d]

(* An operation is closed by its own task and stays closed: a late step of *)
(* another run never reopens it or changes what it reports.  Only a task   *)
(* whose completion was committed and raised yet turns its own record from *)
(* completed to failed (sync.py:187-196).                                  *)
KeepsClosed(r) ==
    /\ op[r].status = "failed" => op'[r] = op[r]
    /\ op[r].status = "completed" =>
          \/ op'[r] = op[r]
          \/ task[r] = "failing" /\ op'[r] = [op[r] EXCEPT !.status = "failed"]

ClosedStaysClosed == [][\A r \in Requests : KeepsClosed(r)]_syncVars
=============================================================================
