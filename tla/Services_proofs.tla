---------------------------- MODULE Services_proofs ----------------------------
(***************************************************************************)
(* Proofs about the services that MCServices runs: CloudSync,              *)
(* CorefSessions, PruneControl, ProcedureVersions and RunEvents, and of    *)
(* the five together.  The constants are any that satisfy the assumptions  *)
(* of the modules.                                                         *)
(***************************************************************************)
EXTENDS MCServices, FiniteSetTheorems, Induction, TLAPS

-----------------------------------------------------------------------------
(* Cloud sync: for any requests, datasets and hashes.                      *)

Stages == {"waiting", "skipped", "upload", "download", "synced", "failed"}
Tasks  == {"new", "refused", "admitted", "launched", "syncing", "failing", "ended", "killed"}
Claims == {Nothing} \cup UNION {[ds -> SUBSET Hashes] : ds \in SUBSET Datasets}
Works  == [stage : Stages, seen : SUBSET Hashes, up : SUBSET Hashes, todo : SUBSET Hashes,
           lost : SUBSET Hashes]

\* The types of SyncTypeOK, and those of what a run holds.
Typed ==
    /\ op \in [Requests -> [status : Statuses, uploaded : Claims, downloaded : Claims]]
    /\ task \in [Requests -> Tasks]
    /\ work \in [Requests -> [Datasets -> Works]]
    /\ local \in [Datasets -> SUBSET Hashes]
    /\ remote \in [Datasets -> SUBSET Hashes]

\* Where the files of a dataset are while its sync is under way.
Moved(w, here, there) ==
    /\ w.stage \in {"upload", "download", "synced"} => w.seen \subseteq here
    /\ w.stage = "upload" => w.seen \ w.todo \subseteq there
    /\ w.stage = "download" => /\ w.seen \subseteq there
                               /\ w.up \ w.todo \subseteq here \cup w.lost
    /\ w.stage = "synced" => w.seen \subseteq there /\ w.up \subseteq here \cup w.lost

FilesMoved == \A r \in Requests, d \in Datasets : Moved(work[r][d], local[d], remote[d])

\* A closed record belongs to a task that is over, or about to mark itself
\* failed; its claims hold.
ClosedInv ==
    \A r \in Requests :
        /\ op[r].status = "failed" => task[r] = "ended"
        /\ op[r].status = "completed" => task[r] \in {"ended", "failing", "killed"}
        /\ op[r].status = "completed" =>
             \A d \in DOMAIN op[r].uploaded :
                d \in Datasets /\ op[r].uploaded[d] \subseteq remote[d]

SyncInv == Typed /\ FilesMoved /\ ClosedInv

LEMMA InitSync == SyncInit => SyncInv
  BY DEF SyncInit, SyncInv, Typed, FilesMoved, Moved, ClosedInv, NoOp, NoWork,
     Statuses, Active,
         Stages, Tasks, Claims, Works

\* A status that is set leaves the rest of the record.
LEMMA StatusSet ==
    ASSUME Typed, NEW r \in Requests, NEW s \in Statuses
    PROVE  /\ SetStatus(r, s) \in [Requests -> [status : Statuses, uploaded : Claims,
                                               downloaded : Claims]]
           /\ \A q \in Requests : q # r => SetStatus(r, s)[q] = op[q]
           /\ SetStatus(r, s)[r].status \in {"none", s}
  BY DEF Typed, SetStatus

\* What the task of a run reports when it finishes.
LEMMA FinishClaims ==
    ASSUME Typed, FilesMoved, NEW r \in Requests,
           NEW done, done = {d \in Datasets : work[r][d].stage = "synced"}
    PROVE  /\ [d \in done |-> work[r][d].seen \ work[r][d].up] \in Claims
           /\ [d \in done |-> Down(work[r][d])] \in Claims
           /\ \A d \in done : work[r][d].seen \ work[r][d].up \subseteq remote[d]
<1>1. \A d \in done : work[r][d] \in Works
  BY DEF Typed
<1>2. [d \in done |-> work[r][d].seen \ work[r][d].up] \in [done -> SUBSET Hashes]
  BY <1>1 DEF Works
<1>3. [d \in done |-> Down(work[r][d])] \in [done -> SUBSET Hashes]
  BY <1>1 DEF Works, Down
<1>4. done \in SUBSET Datasets
  OBVIOUS
<1>5. \A d \in done : work[r][d].seen \ work[r][d].up \subseteq remote[d]
  BY DEF FilesMoved, Moved
<1> QED BY <1>2, <1>3, <1>4, <1>5 DEF Claims

-----------------------------------------------------------------------------
(* Steps inside a dataset: each replaces the record of one dataset of one  *)
(* run, and the two sides only gain files.                                 *)

Grows == \A e \in Datasets : local[e] \subseteq local'[e] /\ remote[e] \subseteq remote'[e]

SidesTyped == local' \in [Datasets -> SUBSET Hashes] /\ remote' \in [Datasets -> SUBSET Hashes]

InDataset(r, d) == Diff(r, d) \/ Upload(r, d) \/ Download(r, d) \/ FailDataset(r, d)

WorkBecomes(r, d, w) == /\ w \in Works
                    /\ work' = [work EXCEPT ![r][d] = w]
                    /\ Moved(w, local'[d], remote'[d])

LEMMA DatasetStep ==
    ASSUME Typed, FilesMoved, NEW r \in Requests, NEW d \in Datasets, InDataset(r, d)
    PROVE  Grows /\ SidesTyped /\ UNCHANGED <<op, task>> /\ \E w : WorkBecomes(r, d, w)
<1> DEFINE w == work[r][d]
<1>1. /\ w \in Works /\ Moved(w, local[d], remote[d])
      /\ local[d] \in SUBSET Hashes /\ remote[d] \in SUBSET Hashes
  BY DEF Typed, FilesMoved
<1>2. CASE Diff(r, d)
  <2>1. Grows /\ SidesTyped /\ UNCHANGED <<op, task>>
    BY <1>2 DEF Diff, Typed, Grows, SidesTyped
  <2>2. CASE local[d] = {}
    <3> DEFINE v == [w EXCEPT !.stage = "skipped"]
    <3>1. v \in Works /\ Moved(v, local[d], remote[d])
      BY <1>1 DEF Works, Stages, Moved
    <3>2. work' = [work EXCEPT ![r][d] = v] /\ local' = local /\ remote' = remote
      BY <1>2, <2>2 DEF Diff
    <3> QED BY <2>1, <3>1, <3>2 DEF WorkBecomes
  <2>3. CASE local[d] # {}
    <3> DEFINE v == [w EXCEPT !.stage = "upload", !.up = remote[d], !.seen = local[d],
                              !.todo = local[d] \ remote[d]]
    <3>1. v \in Works /\ Moved(v, local[d], remote[d])
      BY <1>1 DEF Works, Stages, Moved
    <3>2. work' = [work EXCEPT ![r][d] = v] /\ local' = local /\ remote' = remote
      BY <1>2, <2>3 DEF Diff, Typed
    <3> QED BY <2>1, <3>1, <3>2 DEF WorkBecomes
  <2> QED BY <2>2, <2>3
<1>3. CASE Upload(r, d)
  <2>0. w.stage = "upload" /\ UNCHANGED <<op, task, local>>
    BY <1>3 DEF Upload, At
  <2>1. CASE w.todo = {}
    <3> DEFINE v == [w EXCEPT !.stage = "download", !.todo = Down(w)]
    <3>1. v \in Works /\ Moved(v, local[d], remote[d])
      BY <1>1, <2>0, <2>1 DEF Works, Stages, Moved, Down
    <3>2. work' = [work EXCEPT ![r][d] = v] /\ remote' = remote
      BY <1>3, <2>1 DEF Upload, Typed
    <3> QED BY <2>0, <3>1, <3>2 DEF WorkBecomes, Grows, SidesTyped, Typed
  <2>2. CASE w.todo # {}
    <3>1. PICK h \in w.todo : /\ remote' = [remote EXCEPT ![d] = @ \cup {h}]
                              /\ work' = [work EXCEPT ![r][d].todo = @ \ {h}]
      BY <1>3, <2>2 DEF Upload
    <3> DEFINE v == [w EXCEPT !.todo = @ \ {h}]
    <3>2. h \in Hashes
      BY <1>1 DEF Works
    <3>3. Grows /\ SidesTyped /\ remote'[d] = remote[d] \cup {h}
      BY <2>0, <3>1, <3>2 DEF Grows, SidesTyped, Typed
    <3>4. v \in Works /\ Moved(v, local'[d], remote'[d])
      BY <1>1, <2>0, <3>1, <3>3 DEF Works, Stages, Moved
    <3>5. work' = [work EXCEPT ![r][d] = v]
      BY <3>1
    <3> QED BY <2>0, <3>3, <3>4, <3>5 DEF WorkBecomes
  <2> QED BY <2>1, <2>2
<1>4. CASE Download(r, d)
  <2>0. w.stage = "download" /\ UNCHANGED <<op, task, remote>>
    BY <1>4 DEF Download, At
  <2>1. CASE w.todo = {}
    <3> DEFINE v == [w EXCEPT !.stage = "synced"]
    <3>1. v \in Works /\ Moved(v, local[d], remote[d])
      BY <1>1, <2>0, <2>1 DEF Works, Stages, Moved
    <3>2. work' = [work EXCEPT ![r][d] = v] /\ local' = local
      BY <1>4, <2>1 DEF Download
    <3> QED BY <2>0, <3>1, <3>2 DEF WorkBecomes, Grows, SidesTyped, Typed
  <2>2. ASSUME NEW h \in w.todo, local' = [local EXCEPT ![d] = @ \cup {h}],
               work' = [work EXCEPT ![r][d].todo = @ \ {h}]
        PROVE  Grows /\ SidesTyped /\ UNCHANGED <<op, task>> /\ \E x : WorkBecomes(r, d, x)
    <3> DEFINE v == [w EXCEPT !.todo = @ \ {h}]
    <3>1. h \in Hashes
      BY <1>1 DEF Works
    <3>2. Grows /\ SidesTyped /\ local'[d] = local[d] \cup {h}
      BY <2>0, <2>2, <3>1 DEF Grows, SidesTyped, Typed
    <3>3. v \in Works /\ Moved(v, local'[d], remote'[d])
      BY <1>1, <2>0, <3>2 DEF Works, Stages, Moved
    <3>4. work' = [work EXCEPT ![r][d] = v]
      BY <2>2
    <3> QED BY <2>0, <3>2, <3>3, <3>4 DEF WorkBecomes
  <2>3. ASSUME NEW h \in w.todo, local' = local,
               work' = [work EXCEPT ![r][d].todo = @ \ {h}, ![r][d].lost = @ \cup {h}]
        PROVE  Grows /\ SidesTyped /\ UNCHANGED <<op, task>> /\ \E x : WorkBecomes(r, d, x)
    <3> DEFINE v == [w EXCEPT !.todo = @ \ {h}, !.lost = @ \cup {h}]
    <3>1. h \in Hashes
      BY <1>1 DEF Works
    <3>2. Grows /\ SidesTyped
      BY <2>0, <2>3 DEF Grows, SidesTyped, Typed
    <3>3. v \in Works /\ Moved(v, local'[d], remote'[d])
      BY <1>1, <2>0, <2>3, <3>1 DEF Works, Stages, Moved
    <3>4. work' = [work EXCEPT ![r][d] = v]
      BY <2>3 DEF Typed
    <3> QED BY <2>0, <3>2, <3>3, <3>4 DEF WorkBecomes
  <2> QED BY <1>4, <2>1, <2>2, <2>3 DEF Download
<1>5. CASE FailDataset(r, d)
  <2> DEFINE v == [w EXCEPT !.stage = "failed"]
  <2>1. UNCHANGED <<op, task, local, remote>>
    BY <1>5 DEF FailDataset
  <2>2. v \in Works /\ Moved(v, local[d], remote[d])
    BY <1>1 DEF Works, Stages, Moved
  <2>3. work' = [work EXCEPT ![r][d] = v]
    BY <1>5 DEF FailDataset
  <2> QED BY <2>1, <2>2, <2>3 DEF WorkBecomes, Grows, SidesTyped, Typed
<1> QED BY <1>2, <1>3, <1>4, <1>5 DEF InDataset
LEMMA StepTyped == Typed /\ FilesMoved /\ [SyncNext]_syncVars => Typed'
<1> SUFFICES ASSUME Typed, FilesMoved, [SyncNext]_syncVars PROVE Typed'
  OBVIOUS
<1>1. ASSUME NEW r \in Requests, NEW d \in Datasets, InDataset(r, d) PROVE Typed'
  <2>1. PICK w : WorkBecomes(r, d, w)
    BY <1>1, DatasetStep
  <2>2. SidesTyped /\ UNCHANGED <<op, task>>
    BY <1>1, DatasetStep
  <2>3. work' \in [Requests -> [Datasets -> Works]]
    BY <2>1 DEF WorkBecomes, Typed
  <2> QED BY <2>2, <2>3 DEF SidesTyped, Typed
<1>2. ASSUME NEW r \in Requests, Admit(r) PROVE Typed'
  BY <1>2 DEF Admit, Typed, Tasks
<1>3. ASSUME NEW r \in Requests, Launch(r) PROVE Typed'
  <2>1. "started" \in Statuses
    BY DEF Statuses, Active
  <2>2. op' \in [Requests -> [status : Statuses, uploaded : Claims, downloaded : Claims]]
    BY <1>3, <2>1 DEF Launch, Typed
  <2>3. task' \in [Requests -> Tasks]
    BY <1>3 DEF Launch, Typed, Tasks
  <2> QED BY <1>3, <2>2, <2>3 DEF Launch, Typed
<1>4. ASSUME NEW r \in Requests, Start(r) \/ MarkFailed(r) PROVE Typed'
  <2>1. "in_progress" \in Statuses /\ "failed" \in Statuses
    BY DEF Statuses, Active
  <2>2. /\ SetStatus(r, "in_progress") \in
                [Requests -> [status : Statuses, uploaded : Claims, downloaded : Claims]]
        /\ SetStatus(r, "failed") \in
                [Requests -> [status : Statuses, uploaded : Claims, downloaded : Claims]]
    BY <2>1, StatusSet
  <2>3. op' \in [Requests -> [status : Statuses, uploaded : Claims, downloaded : Claims]]
    BY <1>4, <2>2 DEF Start, MarkFailed, Typed
  <2>4. task' \in [Requests -> Tasks]
    BY <1>4 DEF Start, MarkFailed, Typed, Tasks
  <2> QED BY <1>4, <2>3, <2>4 DEF Start, MarkFailed, Typed
<1>5. ASSUME NEW r \in Requests, Finish(r) PROVE Typed'
  <2> DEFINE done == {d \in Datasets : work[r][d].stage = "synced"}
             rec == [status |-> "completed",
                     uploaded   |-> [d \in done |-> work[r][d].seen \ work[r][d].up],
                     downloaded |-> [d \in done |-> Down(work[r][d])]]
  <2>1. rec \in [status : Statuses, uploaded : Claims, downloaded : Claims]
    BY FinishClaims DEF Statuses
  <2>2. op' = op \/ op' = [op EXCEPT ![r] = rec]
    BY <1>5 DEF Finish
  <2>3. op' \in [Requests -> [status : Statuses, uploaded : Claims, downloaded : Claims]]
    BY <2>1, <2>2 DEF Typed
  <2>4. task' \in [Requests -> Tasks]
    BY <1>5 DEF Finish, Typed, Tasks
  <2> QED BY <1>5, <2>3, <2>4 DEF Finish, Typed
<1>6. CASE AddItem
  BY <1>6, SyncAssumption DEF AddItem, Typed
<1>7. CASE Crash
  <2>1. NoWork \in Works
    BY DEF NoWork, Works, Stages
  <2>2. work' \in [Requests -> [Datasets -> Works]]
    BY <1>7, <2>1 DEF Crash, Typed
  <2>3. task' \in [Requests -> Tasks]
    BY <1>7 DEF Crash, Typed, Tasks
  <2> QED BY <1>7, <2>2, <2>3 DEF Crash, Typed
<1>8. CASE UNCHANGED syncVars
  BY <1>8 DEF syncVars, Typed
<1> QED BY <1>1, <1>2, <1>3, <1>4, <1>5, <1>6, <1>7, <1>8 DEF SyncNext, Step, InDataset

\* Nothing but a dataset's own step changes what its record says, and the
\* sides only grow.
LEMMA StepMoved == Typed /\ FilesMoved /\ [SyncNext]_syncVars => FilesMoved' /\ Grows
<1> SUFFICES ASSUME Typed, FilesMoved, [SyncNext]_syncVars PROVE FilesMoved' /\ Grows
  OBVIOUS
<1>1. ASSUME NEW r \in Requests, NEW d \in Datasets, InDataset(r, d) PROVE FilesMoved' /\ Grows
  <2>1. PICK w : WorkBecomes(r, d, w)
    BY <1>1, DatasetStep
  <2>2. Grows
    BY <1>1, DatasetStep
  <2>3. SUFFICES ASSUME NEW q \in Requests, NEW e \in Datasets
                 PROVE  Moved(work'[q][e], local'[e], remote'[e])
    BY <2>2 DEF FilesMoved
  <2>4. CASE q = r /\ e = d
    BY <2>1, <2>4 DEF WorkBecomes, Typed
  <2>5. CASE ~(q = r /\ e = d)
    <3>1. work'[q][e] = work[q][e]
      BY <2>1, <2>5 DEF WorkBecomes, Typed
    <3> QED BY <2>2, <3>1 DEF FilesMoved, Moved, Grows
  <2> QED BY <2>4, <2>5
<1>2. CASE UNCHANGED <<work, local, remote>>
  BY <1>2 DEF FilesMoved, Grows
<1>3. CASE AddItem
  <2>1. Grows /\ work' = work
    BY <1>3, SyncAssumption DEF AddItem, Grows, Typed
  <2> QED BY <2>1 DEF FilesMoved, Moved, Grows
<1>4. CASE Crash
  <2>1. Grows
    BY <1>4 DEF Crash, Grows
  <2>2. SUFFICES ASSUME NEW q \in Requests, NEW e \in Datasets
                 PROVE  Moved(work'[q][e], local'[e], remote'[e])
    BY <2>1 DEF FilesMoved
  <2>3. work'[q][e] = NoWork \/ work'[q][e] = work[q][e]
    BY <1>4 DEF Crash
  <2>4. local' = local /\ remote' = remote
    BY <1>4 DEF Crash
  <2> QED BY <2>3, <2>4 DEF FilesMoved, Moved, NoWork
<1> QED BY <1>1, <1>2, <1>3, <1>4
        DEF SyncNext, Step, InDataset, Admit, Launch, Start, Finish, MarkFailed, syncVars

\* A record is closed by its own task, with claims that hold.
LEMMA StepClosed == SyncInv /\ [SyncNext]_syncVars =>
                        ClosedInv' /\ \A q \in Requests : KeepsClosed(q)
<1> SUFFICES ASSUME SyncInv, [SyncNext]_syncVars
             PROVE  ClosedInv' /\ \A q \in Requests : KeepsClosed(q)
  OBVIOUS
<1> DEFINE Kept == \A q \in Requests : KeepsClosed(q)
<1> USE DEF SyncInv
<1>0. Grows
  BY StepMoved
<1>1. CASE UNCHANGED <<op, task>>
  <2>1. Kept
    BY <1>1 DEF KeepsClosed
  <2>2. ClosedInv'
    BY <1>0, <1>1 DEF ClosedInv, Grows
  <2> QED BY <2>1, <2>2
<1>2. ASSUME NEW r \in Requests, Admit(r) \/ Launch(r) PROVE ClosedInv' /\ Kept
  <2>1. task[r] \in {"new", "admitted"} /\ remote' = remote
    BY <1>2 DEF Admit, Launch
  <2>2. op[r].status \notin {"completed", "failed"}
    BY <2>1 DEF ClosedInv
  <2>3. op' = op \/ op' = [op EXCEPT ![r].status = "started"]
    BY <1>2 DEF Admit, Launch
  <2>4. \A q \in Requests : q # r => op'[q] = op[q] /\ task'[q] = task[q]
    BY <1>2, <2>3 DEF Admit, Launch, Typed
  <2>5. op'[r].status \notin {"completed", "failed"}
    BY <2>2, <2>3 DEF Typed
  <2> QED BY <2>1, <2>2, <2>4, <2>5 DEF ClosedInv, KeepsClosed
<1>3. ASSUME NEW r \in Requests, Start(r) PROVE ClosedInv' /\ Kept
  <2>1. task[r] = "launched" /\ remote' = remote
    BY <1>3 DEF Start
  <2>2. op[r].status \notin {"completed", "failed"}
    BY <2>1 DEF ClosedInv
  <2>3. \A q \in Requests : q # r => op'[q] = op[q] /\ task'[q] = task[q]
    BY <1>3, StatusSet DEF Start, Typed, Statuses, Active
  <2>4. op'[r].status \notin {"completed", "failed"}
    BY <1>3, <2>2, StatusSet DEF Start, Typed, Statuses, Active
  <2> QED BY <2>1, <2>2, <2>3, <2>4 DEF ClosedInv, KeepsClosed
<1>4. ASSUME NEW r \in Requests, MarkFailed(r) PROVE ClosedInv' /\ Kept
  <2>1. task[r] = "failing" /\ task'[r] = "ended" /\ remote' = remote
    BY <1>4 DEF MarkFailed, Typed
  <2>2. op[r].status # "failed"
    BY <2>1 DEF ClosedInv
  <2>3. \A q \in Requests : q # r => op'[q] = op[q] /\ task'[q] = task[q]
    BY <1>4, StatusSet DEF MarkFailed, Typed, Statuses, Active
  <2>4. op'[r] = op[r] \/ op'[r] = [op[r] EXCEPT !.status = "failed"]
    BY <1>4 DEF MarkFailed, SetStatus, Typed
  <2>5. op'[r].status = "completed" => op'[r] = op[r]
    BY <2>4 DEF Typed
  <2>6. ClosedInv'
    BY <2>1, <2>3, <2>5 DEF ClosedInv
  <2>7. Kept
    BY <2>1, <2>2, <2>3, <2>4 DEF KeepsClosed
  <2> QED BY <2>6, <2>7
<1>5. ASSUME NEW r \in Requests, Finish(r) PROVE ClosedInv' /\ Kept
  <2> DEFINE done == {d \in Datasets : work[r][d].stage = "synced"}
             claim == [d \in done |-> work[r][d].seen \ work[r][d].up]
             rec == [status |-> "completed", uploaded |-> claim,
                     downloaded |-> [d \in done |-> Down(work[r][d])]]
  <2>1. task[r] = "syncing" /\ task'[r] \in {"ended", "failing"} /\ remote' = remote
    BY <1>5 DEF Finish, Typed
  <2>2. op[r].status \notin {"completed", "failed"}
    BY <2>1 DEF ClosedInv
  <2>3. op' = op \/ op' = [op EXCEPT ![r] = rec]
    BY <1>5 DEF Finish
  <2>4. \A q \in Requests : q # r => op'[q] = op[q] /\ task'[q] = task[q]
    BY <1>5, <2>3 DEF Finish, Typed
  <2>5. \A d \in done : claim[d] \subseteq remote[d]
    BY FinishClaims
  <2>6. CASE op' = op
    BY <2>1, <2>2, <2>4, <2>6 DEF ClosedInv, KeepsClosed
  <2>7. CASE op' = [op EXCEPT ![r] = rec]
    <3>1. op'[r] = rec
      BY <2>7 DEF Typed
    <3>2. op'[r].uploaded = claim /\ DOMAIN claim = done /\ op'[r].status = "completed"
      BY <3>1
    <3>3. \A d \in DOMAIN op'[r].uploaded :
                d \in Datasets /\ op'[r].uploaded[d] \subseteq remote'[d]
      BY <2>1, <2>5, <3>2
    <3>4. ClosedInv'
      BY <2>1, <2>4, <3>2, <3>3, ZenonT(40) DEF ClosedInv
    <3>5. Kept
      BY <2>2, <2>4 DEF KeepsClosed
    <3> QED BY <3>4, <3>5
  <2> QED BY <2>3, <2>6, <2>7
<1>6. CASE Crash
  <2>1. op' = op /\ remote' = remote
    BY <1>6 DEF Crash
  <2>2. \A q \in Requests :
            /\ task[q] = "ended" => task'[q] = "ended"
            /\ task[q] \in {"failing", "killed"} => task'[q] = "killed"
    BY <1>6 DEF Crash
  <2> QED BY <2>1, <2>2 DEF ClosedInv, KeepsClosed
<1>7. ASSUME NEW r \in Requests, NEW d \in Datasets, InDataset(r, d) PROVE UNCHANGED <<op, task>>
  BY <1>7, DatasetStep
<1> QED BY <1>1, <1>2, <1>3, <1>4, <1>5, <1>6, <1>7
        DEF SyncNext, Step, InDataset, AddItem, syncVars

LEMMA StepSync == SyncInv /\ [SyncNext]_syncVars => SyncInv'
  BY StepTyped, StepMoved, StepClosed DEF SyncInv

LEMMA SyncInvariant == SyncSpec => []SyncInv
  BY InitSync, StepSync, PTL DEF SyncSpec

LEMMA SyncTypes == SyncInv => SyncTypeOK
  BY DEF SyncInv, Typed, SyncTypeOK, Tasks

(* Records, tasks and both sides keep their types, for any number of       *)
(* operations, datasets and files.                                         *)
THEOREM SyncTypeCorrect == SyncSpec => []SyncTypeOK
  BY SyncInvariant, SyncTypes, PTL

(* A synced dataset has lost nothing: both sides hold what either held at  *)
(* the comparison, but for what the cloud refused.                         *)
THEOREM SyncedDatasetsAlwaysMeet == SyncSpec => []SyncedDatasetsMeet
<1>1. SyncInv => SyncedDatasetsMeet
  BY DEF SyncInv, FilesMoved, Moved, SyncedDatasetsMeet
<1> QED BY <1>1, SyncInvariant, PTL

(* The uploads a completed operation reports are in the cloud, however     *)
(* many operations overlap.                                                *)
THEOREM UploadClaimsAlwaysHold == SyncSpec => []UploadClaimsHold
<1>1. SyncInv => UploadClaimsHold
  BY DEF SyncInv, ClosedInv, UploadClaimsHold
<1> QED BY <1>1, SyncInvariant, PTL

(* No step of any run changes the record of a closed operation, but for a  *)
(* task that could not confirm its completion and marks itself failed.     *)
THEOREM ClosedAlwaysStaysClosed == SyncSpec => ClosedStaysClosed
<1>1. SyncInv /\ [SyncNext]_syncVars =>
        [\A r \in Requests : KeepsClosed(r)]_syncVars
  BY StepClosed
<1> QED BY <1>1, SyncInvariant, PTL DEF SyncSpec, ClosedStaysClosed

-----------------------------------------------------------------------------
(* Coreference sessions: what the table holds.                             *)

Sessions == [SessionIds -> Session \cup {Closed}]

\* What the table of sessions holds.
TableInv == now \in 0 .. MaxTime /\ sessions \in Sessions /\ ContextIsOneSpeaker

\* A table as the clean-ups leave it.
Sound(ss) == ss \in Sessions /\ \A s \in SessionIds :
                ss[s] # Closed => \A c \in ss[s].context : c = <<ss[s].user, ss[s].language>>

LEMMA SoundTable == (sessions \in Sessions /\ ContextIsOneSpeaker) <=> Sound(sessions)
  BY CorefAssumption DEF Sound, ContextIsOneSpeaker, Names

LEMMA DropSound == ASSUME NEW ss, Sound(ss), NEW names PROVE Sound(Drop(ss, names))
  BY DEF Sound, Sessions, Drop

LEMMA CleanedSound == TableInv => Sound(Cleaned.open)
  BY SoundTable, DropSound DEF TableInv, Cleaned

\* A sentence of the owner, in the language of the session.
LEMMA TurnSound ==
    ASSUME TableInv, NEW user \in Users, NEW lang \in Languages, NEW ses \in Session,
           NEW said \in BOOLEAN, ses.user = user, ses.language = lang,
           \A c \in ses.context : c = <<user, lang>>
    PROVE  /\ Turn(ses, user, lang, said) \in Session
           /\ Turn(ses, user, lang, said).user = user
           /\ Turn(ses, user, lang, said).language = lang
           /\ \A c \in Turn(ses, user, lang, said).context : c = <<user, lang>>
<1>1. ses.context \cup {<<user, lang>>} \in SUBSET (Users \X Languages)
  BY DEF Session
<1> QED BY <1>1 DEF Turn, Session, TableInv

\* A session put under a name.
LEMMA PutSound ==
    ASSUME NEW ss, Sound(ss), NEW s \in SessionIds, NEW ses \in Session,
           \A c \in ses.context : c = <<ses.user, ses.language>>
    PROVE  Sound([ss EXCEPT ![s] = ses])
  BY DEF Sound, Sessions

LEMMA InitTable == CorefInit => TableInv
  BY CorefAssumption DEF CorefInit, TableInv, Sessions, ContextIsOneSpeaker, Names

LEMMA StepTable == TableInv /\ [CorefNext]_corefVars => TableInv'
<1> SUFFICES ASSUME TableInv, [CorefNext]_corefVars PROVE TableInv'
  OBVIOUS
<1>0. Sound(sessions)
  BY SoundTable DEF TableInv
<1> SUFFICES now' \in 0 .. MaxTime /\ Sound(sessions')
  BY DEF TableInv, Sound, ContextIsOneSpeaker, Names
<1>1. CASE Tick
  BY <1>0, <1>1, CorefAssumption DEF Tick, TableInv
<1>2. ASSUME NEW s \in SessionIds, NEW u \in Users, NEW l \in Languages, Continue(s, u, l)
      PROVE  now' \in 0 .. MaxTime /\ Sound(sessions')
  <2> DEFINE open == Cleaned.open
             kept == IF open[s].language = l THEN open[s]
                     ELSE [open[s] EXCEPT !.language = l, !.context = {}]
  <2>1. Sound(open)
    BY CleanedSound
  <2>2. open[s] \in Session /\ open[s].user = u /\ \A c \in open[s].context :
            c = <<u, open[s].language>>
    BY <1>2, <2>1 DEF Continue, Owns, Sound, Sessions
  <2>3. /\ kept \in Session /\ kept.user = u /\ kept.language = l
        /\ \A c \in kept.context : c = <<u, l>>
    BY <2>2 DEF Session
  <2>4. PICK said \in BOOLEAN :
            sessions' = [open EXCEPT ![s] = Turn(kept, u, l, said)] /\ now' = now
    BY <1>2 DEF Continue
  <2> HIDE DEF open, kept
  <2>5. /\ Turn(kept, u, l, said) \in Session
        /\ \A c \in Turn(kept, u, l, said).context :
              c = <<Turn(kept, u, l, said).user, Turn(kept, u, l, said).language>>
    BY <2>3, TurnSound
  <2>6. Sound(sessions')
    BY <2>1, <2>4, <2>5, PutSound
  <2> QED BY <2>4, <2>6 DEF TableInv
<1>3. ASSUME NEW s \in SessionIds, NEW u \in Users, NEW l \in Languages, Create(s, u, l)
      PROVE  now' \in 0 .. MaxTime /\ Sound(sessions')
  <2> DEFINE open == Cleaned.open
             new == NewSession(u, l)
  <2>1. Sound(open)
    BY CleanedSound
  <2>2. /\ new \in Session /\ new.user = u /\ new.language = l
        /\ \A c \in new.context : c = <<u, l>>
    BY CorefAssumption DEF NewSession, Session, TableInv
  <2>3. /\ \/ \E said \in BOOLEAN : sessions' = [open EXCEPT ![s] = Turn(new, u, l, said)]
           \/ sessions' = [open EXCEPT ![s] = Closed]
        /\ now' = now
    BY <1>3 DEF Create
  <2> HIDE DEF open, new
  <2>4. ASSUME NEW said \in BOOLEAN, sessions' = [open EXCEPT ![s] = Turn(new, u, l, said)]
        PROVE  now' \in 0 .. MaxTime /\ Sound(sessions')
    <3>1. /\ Turn(new, u, l, said) \in Session
          /\ \A c \in Turn(new, u, l, said).context :
                c = <<Turn(new, u, l, said).user, Turn(new, u, l, said).language>>
      BY <2>2, TurnSound
    <3>2. Sound(sessions')
      BY <2>1, <2>4, <3>1, PutSound
    <3> QED BY <2>3, <3>2 DEF TableInv
  <2>5. CASE sessions' = [open EXCEPT ![s] = Closed]
    BY <2>1, <2>3, <2>5 DEF Sound, Sessions, TableInv
  <2> QED BY <2>3, <2>4, <2>5
<1>4. ASSUME NEW s \in SessionIds, Reset(s) PROVE now' \in 0 .. MaxTime /\ Sound(sessions')
  <2> DEFINE fresh == [sessions[s] EXCEPT !.context = {}, !.active = now]
  <2>1. sessions[s] \in Session
    BY <1>0, <1>4 DEF Reset, Sound, Sessions
  <2>2. now \in 0 .. MaxTime
    BY DEF TableInv
  <2>3. fresh \in Session /\ fresh.context = {}
    BY <2>1, <2>2 DEF Session
  <2>4. sessions' = [sessions EXCEPT ![s] = fresh] /\ now' = now
    BY <1>0, <1>4 DEF Reset, Sound, Sessions
  <2> QED BY <1>0, <2>3, <2>4, PutSound DEF TableInv
<1>5. CASE Clear
  BY <1>5 DEF Clear, Sound, Sessions, TableInv
<1>6. CASE UNCHANGED corefVars
  BY <1>0, <1>6 DEF corefVars, TableInv
<1> QED BY <1>1, <1>2, <1>3, <1>4, <1>5, <1>6 DEF CorefNext

(* A session answers only from what its user said in its language, for any *)
(* interleaving of calls, expiry, eviction and change of owner.            *)
THEOREM ContextIsAlwaysOneSpeaker == CorefSpec => []ContextIsOneSpeaker
<1>1. TableInv => ContextIsOneSpeaker
  BY DEF TableInv
<1> QED BY <1>1, InitTable, StepTable, PTL DEF CorefSpec

-----------------------------------------------------------------------------
(* Coreference sessions: the order.                                        *)

\* t is what is left of the first k names of seq, in their order.
Leaves(t, seq, k, names) ==
    \E e \in [1 .. Len(t) -> 1 .. k] :
        /\ \A x, y \in 1 .. Len(t) : x < y => e[x] < e[y]
        /\ \A x \in 1 .. Len(t) : t[x] = seq[e[x]] /\ t[x] \notin names
        /\ \A y \in 1 .. k : seq[y] \notin names => \E x \in 1 .. Len(t) : e[x] = y

LEMMA LeavesMore ==
    ASSUME NEW seq \in Seq(SessionIds), NEW names, NEW k \in Nat, k + 1 <= Len(seq),
           NEW t \in Seq(SessionIds), Leaves(t, seq, k, names)
    PROVE  LET u == IF seq[k + 1] \in names THEN t ELSE Append(t, seq[k + 1])
           IN  u \in Seq(SessionIds) /\ Leaves(u, seq, k + 1, names)
<1>1. PICK e \in [1 .. Len(t) -> 1 .. k] :
        /\ \A x, y \in 1 .. Len(t) : x < y => e[x] < e[y]
        /\ \A x \in 1 .. Len(t) : t[x] = seq[e[x]] /\ t[x] \notin names
        /\ \A y \in 1 .. k : seq[y] \notin names => \E x \in 1 .. Len(t) : e[x] = y
  BY DEF Leaves
<1>2. Len(t) \in Nat /\ k + 1 \in 1 .. Len(seq) /\ seq[k + 1] \in SessionIds
  OBVIOUS
<1>3. CASE seq[k + 1] \in names
  <2>1. e \in [1 .. Len(t) -> 1 .. k + 1]
    BY <1>1
  <2>2. \A y \in 1 .. k + 1 : y \in 1 .. k \/ y = k + 1
    OBVIOUS
  <2>3. \A y \in 1 .. k + 1 : seq[y] \notin names => \E x \in 1 .. Len(t) : e[x] = y
    BY <1>1, <1>3, <2>2
  <2>4. Leaves(t, seq, k + 1, names)
    BY <1>1, <2>1, <2>3 DEF Leaves
  <2> QED BY <1>3, <2>4
<1>4. CASE seq[k + 1] \notin names
  <2> DEFINE u == Append(t, seq[k + 1])
             n == Len(t) + 1
             d == [x \in 1 .. n |-> IF x = n THEN k + 1 ELSE e[x]]
  <2>1. /\ u \in Seq(SessionIds) /\ Len(u) = n /\ u[n] = seq[k + 1]
        /\ \A x \in 1 .. Len(t) : u[x] = t[x]
    BY <1>2
  <2>2. \A x \in 1 .. n : x = n \/ (x \in 1 .. Len(t) /\ x # n)
    BY <1>2
  <2>3. d \in [1 .. n -> 1 .. k + 1] /\ d[n] = k + 1 /\ n \in 1 .. n
        /\ \A x \in 1 .. Len(t) : d[x] = e[x] /\ d[x] <= k /\ x \in 1 .. n
    <3>1. n \in 1 .. n /\ (\A x \in 1 .. Len(t) : x \in 1 .. n /\ x # n) /\ n \in Nat
      BY <1>2
    <3>2. d[n] = k + 1 /\ \A x \in 1 .. Len(t) : d[x] = e[x]
      BY <3>1
    <3>3. \A x \in 1 .. Len(t) : e[x] \in 1 .. k + 1 /\ e[x] <= k
      BY <1>1
    <3>4. \A x \in 1 .. n : d[x] \in 1 .. k + 1
      <4> HIDE DEF d
      <4> QED BY <2>2, <3>2, <3>3
    <3> QED BY <3>1, <3>2, <3>3, <3>4
  <2> HIDE DEF u, d
  <2>4. \A x, y \in 1 .. n : x < y => d[x] < d[y]
    <3> SUFFICES ASSUME NEW x \in 1 .. n, NEW y \in 1 .. n, x < y PROVE d[x] < d[y]
      OBVIOUS
    <3>1. x \in 1 .. Len(t)
      BY <1>2
    <3>2. CASE y = n
      <4>1. d[x] \in 1 .. k /\ d[y] = k + 1
        BY <1>1, <2>3, <3>1, <3>2
      <4> QED BY <4>1
    <3>3. CASE y # n
      <4>1. y \in 1 .. Len(t)
        BY <2>2, <3>3
      <4>2. e[x] < e[y]
        BY <1>1, <3>1, <4>1
      <4>3. d[x] = e[x] /\ d[y] = e[y]
        BY <2>3, <3>1, <4>1
      <4> QED BY <4>2, <4>3
    <3> QED BY <3>2, <3>3
  <2>5. \A x \in 1 .. n : u[x] = seq[d[x]] /\ u[x] \notin names
    BY <1>1, <1>4, <2>1, <2>2, <2>3
  <2>6. \A y \in 1 .. k + 1 : seq[y] \notin names => \E x \in 1 .. n : d[x] = y
    <3>1. \A y \in 1 .. k + 1 : y \in 1 .. k \/ y = k + 1
      OBVIOUS
    <3> QED BY <1>1, <2>3, <3>1
  <2>7. Leaves(u, seq, k + 1, names)
    <3> HIDE DEF n
    <3>1. d \in [1 .. Len(u) -> 1 .. k + 1]
      BY <2>1, <2>3
    <3> QED BY <2>1, <2>4, <2>5, <2>6, <3>1 DEF Leaves
  <2> QED BY <1>4, <2>1, <2>7 DEF u
<1> QED BY <1>3, <1>4

LEMMA ForgetLeaves ==
    ASSUME NEW seq \in Seq(SessionIds), NEW names
    PROVE  Forget(seq, names) \in Seq(SessionIds)
           /\ Leaves(Forget(seq, names), seq, Len(seq), names)
<1> DEFINE m == Len(seq)
           S == Seq(SessionIds)
           next(k, t) == IF seq[k] \in names THEN t ELSE Append(t, seq[k])
           step == [k \in 1 .. m |-> [t \in S |-> next(k, t)]]
           none == <<>>
<1>1. m \in Nat /\ none \in S /\ step \in [1 .. m -> [S -> S]] /\ Len(none) = 0
  <2>1. \A k \in 1 .. m : seq[k] \in SessionIds
    OBVIOUS
  <2>2. \A k \in 1 .. m, t \in S : next(k, t) \in S
    BY <2>1
  <2> HIDE DEF next
  <2>3. step \in [1 .. m -> [S -> S]]
    BY <2>2
  <2> QED BY <2>3
<1> HIDE DEF m, S, step, none
<1>2. PICK f \in [0 .. m -> S] : f[0] = none /\ \A k \in 1 .. m : f[k] = step[k][f[k-1]]
  <2>1. Recursions(S, none, m, step) # {}
    BY <1>1, RecursionExists
  <2> QED BY <2>1 DEF Recursions
<1> HIDE DEF next
<1>3. f = [k \in 0 .. m |-> IF k = 0 THEN none ELSE next(k, f[k-1])]
  <2>1. ASSUME NEW k \in 0 .. m, k # 0 PROVE f[k] = next(k, f[k-1])
    <3>1. k \in 1 .. m /\ k - 1 \in 0 .. m
      BY <1>1, <2>1
    <3>2. f[k] = step[k][f[k-1]] /\ f[k-1] \in S
      BY <1>2, <3>1
    <3> QED BY <3>1, <3>2 DEF step
  <2> QED BY <1>2, <2>1
<1> DEFINE kept[k \in 0 .. m] == IF k = 0 THEN none ELSE next(k, kept[k-1])
<1>4. kept = [k \in 0 .. m |-> IF k = 0 THEN none ELSE next(k, kept[k-1])]
  BY <1>3
<1>5. Forget(seq, names) = kept[m]
  BY DEF Forget, next, m, none
<1> HIDE DEF kept
<1> DEFINE T == {k \in 0 .. m : kept[k] \in S /\ Leaves(kept[k], seq, k, names)}
<1>6. 0 \in T
  <2>1. kept[0] = none /\ 0 \in 0 .. m
    BY <1>1, <1>4
  <2>2. Leaves(none, seq, 0, names)
    <3>1. \A x \in 1 .. 0 : FALSE
      OBVIOUS
    <3>2. [x \in 1 .. 0 |-> x] \in [1 .. 0 -> 1 .. 0]
      BY <3>1
    <3> QED BY <1>1, <3>1, <3>2 DEF Leaves
  <2> QED BY <1>1, <2>1, <2>2
<1>7. ASSUME NEW k \in 0 .. m, k # m, k \in T PROVE k + 1 \in T
  <2>1. k + 1 \in 0 .. m /\ k + 1 # 0 /\ (k + 1) - 1 = k /\ k \in Nat /\ k + 1 <= m
    BY <1>1, <1>7
  <2>2. kept[k + 1] = next(k + 1, kept[k])
    BY <1>4, <2>1
  <2>3. kept[k] \in S /\ Leaves(kept[k], seq, k, names)
    BY <1>7
  <2>4. next(k + 1, kept[k]) \in S /\ Leaves(next(k + 1, kept[k]), seq, k + 1, names)
    BY <2>1, <2>3, LeavesMore DEF S, m, next
  <2> QED BY <2>1, <2>2, <2>4
<1>8. 0 .. m \subseteq T
  <2> HIDE DEF T
  <2> QED BY <1>1, <1>6, <1>7, NumbersUpTo
<1>9. m \in T
  BY <1>1, <1>8
<1> QED BY <1>5, <1>9 DEF S, m

\* The order names the open sessions once each, those used last at its end.
InOrder(ss, ord) ==
    /\ ord \in Seq(SessionIds) /\ IsInjective(ord) /\ ToSet(ord) = Names(ss)
    /\ \A x, y \in DOMAIN ord : x < y => ss[ord[x]].used <= ss[ord[y]].used
    /\ \A s \in Names(ss) : ss[s].used <= now

OrderInv ==
    /\ TableInv
    /\ InOrder(sessions, order)
    /\ Cardinality(Names(sessions)) <= MaxSessions

LEMMA FiniteNames ==
    ASSUME NEW ss
    PROVE  IsFiniteSet(Names(ss)) /\ Cardinality(Names(ss)) \in Nat
<1>1. Names(ss) \subseteq SessionIds
  BY DEF Names
<1> QED BY <1>1, CorefAssumption, FS_Subset, FS_CardinalityType

LEMMA DropNames ==
    ASSUME NEW ss, NEW names
    PROVE  /\ Names(Drop(ss, names)) = Names(ss) \ names
           /\ \A s \in Names(ss) \ names : Drop(ss, names)[s] = ss[s]
  BY DEF Names, Drop

LEMMA ForgetInOrder ==
    ASSUME NEW ss, NEW ord, InOrder(ss, ord), NEW names
    PROVE  InOrder(Drop(ss, names), Forget(ord, names))
<1> DEFINE t == Forget(ord, names)
           rest == Drop(ss, names)
<1>0. ord \in Seq(SessionIds) /\ DOMAIN ord = 1 .. Len(ord) /\ Len(ord) \in Nat
  BY DEF InOrder
<1>1. t \in Seq(SessionIds) /\ Leaves(t, ord, Len(ord), names)
  BY <1>0, ForgetLeaves
<1> HIDE DEF t
<1>2. Len(t) \in Nat /\ DOMAIN t = 1 .. Len(t)
  BY <1>1
<1>3. PICK e \in [1 .. Len(t) -> 1 .. Len(ord)] :
        /\ \A x, y \in 1 .. Len(t) : x < y => e[x] < e[y]
        /\ \A x \in 1 .. Len(t) : t[x] = ord[e[x]] /\ t[x] \notin names
        /\ \A y \in 1 .. Len(ord) : ord[y] \notin names => \E x \in 1 .. Len(t) : e[x] = y
  BY <1>1 DEF Leaves
<1>4. Names(rest) = Names(ss) \ names /\ \A s \in Names(ss) \ names : rest[s] = ss[s]
  BY DropNames
<1> HIDE DEF rest
<1>5. \A x \in 1 .. Len(t) : t[x] \in Names(ss) \ names
  BY <1>0, <1>3 DEF InOrder, ToSet
<1>6. ToSet(t) = Names(rest)
  <2>1. ASSUME NEW s \in Names(ss) \ names PROVE s \in ToSet(t)
    <3>1. PICK y \in 1 .. Len(ord) : ord[y] = s
      BY <1>0 DEF InOrder, ToSet
    <3>2. PICK x \in 1 .. Len(t) : e[x] = y
      BY <1>3, <2>1, <3>1
    <3> QED BY <1>2, <1>3, <3>1, <3>2 DEF ToSet
  <2> QED BY <1>2, <1>4, <1>5, <2>1 DEF ToSet
<1>7. IsInjective(t)
  <2> SUFFICES ASSUME NEW x \in 1 .. Len(t), NEW y \in 1 .. Len(t), t[x] = t[y] PROVE x = y
    BY <1>2 DEF IsInjective
  <2>1. e[x] \in 1 .. Len(ord) /\ e[y] \in 1 .. Len(ord) /\ ord[e[x]] = ord[e[y]]
    BY <1>3
  <2>2. e[x] = e[y]
    BY <1>0, <2>1 DEF InOrder, IsInjective
  <2>3. ~(x < y) /\ ~(y < x)
    BY <1>3, <2>1, <2>2
  <2> QED BY <1>2, <2>3
<1>8. ASSUME NEW x \in DOMAIN t, NEW y \in DOMAIN t, x < y
      PROVE  rest[t[x]].used <= rest[t[y]].used
  <2>1. /\ e[x] \in DOMAIN ord /\ e[y] \in DOMAIN ord /\ e[x] < e[y]
        /\ t[x] = ord[e[x]] /\ t[y] = ord[e[y]]
    BY <1>0, <1>2, <1>3, <1>8
  <2>2. ss[t[x]].used <= ss[t[y]].used
    BY <2>1 DEF InOrder
  <2> QED BY <1>2, <1>4, <1>5, <1>8, <2>2
<1>9. \A s \in Names(rest) : rest[s].used <= now
  BY <1>4 DEF InOrder
<1> QED BY <1>1, <1>6, <1>7, <1>8, <1>9 DEF InOrder, t, rest

\* What is left when the first k names are evicted.
LEMMA EvictInOrder ==
    ASSUME NEW ss, NEW ord, InOrder(ss, ord), NEW k \in 0 .. Len(ord)
    PROVE  LET gone == ToSet(SubSeq(ord, 1, k))
           IN  /\ InOrder(Drop(ss, gone), SubSeq(ord, k + 1, Len(ord)))
               /\ k = Len(ord) => Names(Drop(ss, gone)) = {}
<1> DEFINE gone == ToSet(SubSeq(ord, 1, k))
           t == SubSeq(ord, k + 1, Len(ord))
           rest == Drop(ss, gone)
<1>0. /\ ord \in Seq(SessionIds) /\ DOMAIN ord = 1 .. Len(ord) /\ Len(ord) \in Nat
      /\ IsInjective(ord) /\ ToSet(ord) = Names(ss)
  BY DEF InOrder
<1>1. gone = {ord[x] : x \in 1 .. k}
  <2>1. /\ DOMAIN SubSeq(ord, 1, k) = 1 .. k
        /\ \A x \in 1 .. k : SubSeq(ord, 1, k)[x] = ord[x]
    BY <1>0
  <2> QED BY <2>1 DEF ToSet
<1>2. /\ t \in Seq(SessionIds) /\ DOMAIN t = 1 .. Len(ord) - k
      /\ \A x \in 1 .. Len(ord) - k : t[x] = ord[k + x] /\ k + x \in DOMAIN ord
  BY <1>0
<1>3. Names(rest) = Names(ss) \ gone /\ \A s \in Names(ss) \ gone : rest[s] = ss[s]
  BY DropNames
<1> HIDE DEF gone, t, rest
<1>4. \A x \in DOMAIN t : t[x] \in Names(ss) \ gone
  <2> SUFFICES ASSUME NEW x \in DOMAIN t, NEW y \in 1 .. k, ord[y] = t[x] PROVE FALSE
    BY <1>0, <1>1, <1>2 DEF ToSet
  <2>1. k + x \in DOMAIN ord /\ y \in DOMAIN ord /\ ord[k + x] = ord[y] /\ k + x # y
    BY <1>0, <1>2
  <2> QED BY <1>0, <2>1 DEF IsInjective
<1>5. ToSet(t) = Names(rest)
  <2>1. ASSUME NEW s \in Names(ss) \ gone PROVE s \in ToSet(t)
    <3>1. PICK y \in 1 .. Len(ord) : ord[y] = s
      BY <1>0 DEF ToSet
    <3>2. y \notin 1 .. k
      BY <1>1, <2>1, <3>1
    <3>3. y - k \in DOMAIN t /\ t[y - k] = s
      BY <1>0, <1>2, <3>1, <3>2
    <3> QED BY <3>3 DEF ToSet
  <2> QED BY <1>3, <1>4, <2>1 DEF ToSet
<1>6. IsInjective(t)
  <2> SUFFICES ASSUME NEW x \in DOMAIN t, NEW y \in DOMAIN t, t[x] = t[y] PROVE x = y
    BY DEF IsInjective
  <2>1. k + x = k + y
    BY <1>0, <1>2 DEF IsInjective
  <2> QED BY <1>2, <2>1
<1>7. ASSUME NEW x \in DOMAIN t, NEW y \in DOMAIN t, x < y
      PROVE  rest[t[x]].used <= rest[t[y]].used
  <2>1. /\ k + x \in DOMAIN ord /\ k + y \in DOMAIN ord /\ k + x < k + y
        /\ t[x] = ord[k + x] /\ t[y] = ord[k + y]
    BY <1>2, <1>7
  <2>2. ss[t[x]].used <= ss[t[y]].used
    BY <2>1 DEF InOrder
  <2> QED BY <1>3, <1>4, <2>2
<1>8. \A s \in Names(rest) : rest[s].used <= now
  BY <1>3 DEF InOrder
<1>9. k = Len(ord) => Names(rest) = {}
  BY <1>0, <1>1, <1>3 DEF ToSet
<1> QED BY <1>2, <1>5, <1>6, <1>7, <1>8, <1>9 DEF InOrder, t, rest, gone

LEMMA EvictedCountIs ==
    ASSUME NEW open, NEW ord \in Seq(SessionIds)
    PROVE  /\ EvictedCount(open, ord) \in 0 .. Len(ord)
           /\ \/ EvictedCount(open, ord) = Len(ord)
              \/ Cardinality(open \ ToSet(SubSeq(ord, 1, EvictedCount(open, ord)))) < MaxSessions
<1> DEFINE enough(k) == k = Len(ord) \/ Cardinality(open \ ToSet(SubSeq(ord, 1, k))) < MaxSessions
           T == {k \in 0 .. Len(ord) : enough(k)}
<1>1. Len(ord) \in Nat
  OBVIOUS
<1> HIDE DEF enough
<1>2. Len(ord) \in T /\ T \subseteq Nat
  BY <1>1 DEF enough
<1>3. PICK k \in T : \A y \in T : k <= y
  BY <1>2, LeastNat
<1>4. k \in 0 .. Len(ord) /\ enough(k) /\ (k > 0 => ~enough(k - 1))
  <2>1. k > 0 => k - 1 \in 0 .. Len(ord) /\ ~(k <= k - 1)
    BY <1>1
  <2> QED BY <1>3, <2>1
<1>5. EvictedCount(open, ord) =
        CHOOSE n \in 0 .. Len(ord) : enough(n) /\ (n > 0 => ~enough(n - 1))
  BY DEF EvictedCount, enough
<1>6. EvictedCount(open, ord) \in 0 .. Len(ord) /\ enough(EvictedCount(open, ord))
  BY <1>4, <1>5
<1> QED BY <1>6 DEF enough

LEMMA CleanedInOrder ==
    ASSUME OrderInv
    PROVE  /\ InOrder(Cleaned.open, Cleaned.ord)
           /\ Cardinality(Names(Cleaned.open)) < MaxSessions
<1> DEFINE old  == Expired
           ss   == Drop(sessions, old)
           ord  == Forget(order, old)
           k    == EvictedCount(Names(sessions) \ old, ord)
           gone == ToSet(SubSeq(ord, 1, k))
<1>1. InOrder(ss, ord)
  BY ForgetInOrder DEF OrderInv
<1>2. Cleaned = [open |-> Drop(sessions, old \cup gone), ord |-> SubSeq(ord, k + 1, Len(ord))]
  BY DEF Cleaned
<1>3. Drop(sessions, old \cup gone) = Drop(ss, gone)
  BY DEF Drop
<1>4. Names(ss) = Names(sessions) \ old
  BY DropNames
<1>5. /\ k \in 0 .. Len(ord)
      /\ k = Len(ord) \/ Cardinality((Names(sessions) \ old) \ gone) < MaxSessions
  BY <1>1, EvictedCountIs DEF InOrder
<1> HIDE DEF old, ss, ord, k
<1>6. /\ InOrder(Drop(ss, gone), SubSeq(ord, k + 1, Len(ord)))
      /\ k = Len(ord) => Names(Drop(ss, gone)) = {}
  BY <1>1, <1>5, EvictInOrder
<1>7. Names(Drop(ss, gone)) = (Names(sessions) \ old) \ gone
  BY <1>4, DropNames
<1>8. Cardinality({}) = 0 /\ MaxSessions \in Nat \ {0}
  BY FS_EmptySet, CorefAssumption
<1>9. Cardinality(Names(Drop(ss, gone))) < MaxSessions
  <2>1. CASE k = Len(ord)
    <3>1. Names(Drop(ss, gone)) = {}
      BY <1>6, <2>1
    <3> QED BY <1>8, <3>1
  <2>2. CASE Cardinality((Names(sessions) \ old) \ gone) < MaxSessions
    BY <1>7, <2>2
  <2> QED BY <1>5, <2>1, <2>2
<1> QED BY <1>2, <1>3, <1>6, <1>9

\* A session that is used goes to the end of the order.
LEMMA UsedInOrder ==
    ASSUME TableInv, NEW ss, Sound(ss), NEW ord, InOrder(ss, ord),
           NEW s \in SessionIds, NEW ses \in Session, ses.used = now
    PROVE  LET new == [ss EXCEPT ![s] = ses]
           IN  InOrder(new, Append(Forget(ord, {s}), s)) /\ Names(new) = Names(ss) \cup {s}
<1> DEFINE new == [ss EXCEPT ![s] = ses]
           rest == Drop(ss, {s})
           t == Forget(ord, {s})
           u == Append(t, s)
           n == Len(t) + 1
<1>1. InOrder(rest, t)
  BY ForgetInOrder
<1>2. Names(rest) = Names(ss) \ {s} /\ \A q \in Names(ss) \ {s} : rest[q] = ss[q]
  BY DropNames
<1>3. ss \in Sessions
  BY DEF Sound
<1>4. new[s] = ses /\ (\A q \in SessionIds : q # s => new[q] = ss[q]) /\ ses # Closed
  BY <1>3, ClosedAssumption DEF Sessions
<1>5. Names(new) = Names(ss) \cup {s}
  BY <1>4 DEF Names
<1> HIDE DEF new, rest, t
<1>6. /\ u \in Seq(SessionIds) /\ Len(u) = n /\ DOMAIN u = 1 .. n /\ u[n] = s
      /\ \A x \in 1 .. Len(t) : u[x] = t[x]
      /\ Len(t) \in Nat /\ DOMAIN t = 1 .. Len(t)
  BY <1>1 DEF InOrder
<1> HIDE DEF u
<1>7. \A x \in 1 .. n : x = n \/ x \in DOMAIN t
  BY <1>6
<1>8. \A x \in DOMAIN t : t[x] \in Names(ss) \ {s} /\ rest[t[x]] = ss[t[x]] /\ new[t[x]] = ss[t[x]]
  BY <1>1, <1>2, <1>4 DEF InOrder, ToSet, Names
<1>9. ToSet(u) = Names(new)
  <2>1. ToSet(t) = Names(ss) \ {s}
    BY <1>1, <1>2 DEF InOrder
  <2>2. ToSet(u) = ToSet(t) \cup {s}
    <3>1. n \in DOMAIN u /\ DOMAIN t \subseteq DOMAIN u
      BY <1>6
    <3> QED BY <1>6, <1>7, <3>1 DEF ToSet
  <2> QED BY <1>5, <2>1, <2>2
<1>10. IsInjective(u)
  <2> SUFFICES ASSUME NEW x \in 1 .. n, NEW y \in 1 .. n, u[x] = u[y] PROVE x = y
    BY <1>6 DEF IsInjective
  <2> QED BY <1>1, <1>6, <1>7, <1>8, SMTT(30) DEF InOrder, IsInjective
<1>11. ASSUME NEW x \in DOMAIN u, NEW y \in DOMAIN u, x < y
       PROVE  new[u[x]].used <= new[u[y]].used
  <2>1. x \in DOMAIN t /\ u[x] = t[x] /\ new[u[x]] = rest[t[x]]
    BY <1>6, <1>8, <1>11
  <2>2. CASE y = n
    <3>1. rest[t[x]].used <= now
      BY <1>1, <1>2, <1>8, <2>1 DEF InOrder
    <3> QED BY <1>4, <1>6, <2>1, <2>2, <3>1
  <2>3. CASE y \in DOMAIN t
    <3>1. rest[t[x]].used <= rest[t[y]].used /\ u[y] = t[y] /\ new[u[y]] = rest[t[y]]
      BY <1>1, <1>6, <1>8, <1>11, <2>1, <2>3 DEF InOrder
    <3> QED BY <2>1, <3>1
  <2> QED BY <1>6, <1>7, <2>2, <2>3
<1>12. \A q \in Names(new) : new[q].used <= now
  <2>1. now <= now
    BY CorefAssumption DEF TableInv
  <2> QED BY <1>4, <1>5, <2>1 DEF InOrder, Names
<1> QED BY <1>5, <1>6, <1>9, <1>10, <1>11, <1>12 DEF InOrder, new, u, t

LEMMA TurnUsed ==
    ASSUME NEW ses \in Session, NEW user, NEW lang, NEW said
    PROVE  Turn(ses, user, lang, said).used = now
  BY DEF Turn, Session

LEMMA InitOrder == CorefInit => OrderInv
<1> SUFFICES ASSUME CorefInit PROVE OrderInv
  OBVIOUS
<1>1. TableInv
  BY InitTable
<1>2. Names(sessions) = {} /\ order = <<>>
  BY DEF CorefInit, Names
<1>3. InOrder(sessions, order)
  <2>1. DOMAIN order = {} /\ order \in Seq(SessionIds)
    BY <1>2
  <2> QED BY <1>2, <2>1 DEF InOrder, IsInjective, ToSet
<1> QED BY <1>1, <1>2, <1>3, FS_EmptySet, CorefAssumption DEF OrderInv

LEMMA StepOrder == OrderInv /\ [CorefNext]_corefVars => OrderInv'
<1> SUFFICES ASSUME OrderInv, [CorefNext]_corefVars PROVE OrderInv'
  OBVIOUS
<1>0. TableInv /\ TableInv' /\ now \in 0 .. MaxTime /\ MaxTime \in Nat /\ MaxSessions \in Nat
  BY StepTable, CorefAssumption DEF OrderInv, TableInv
<1> DEFINE Kept == InOrder(sessions, order)' /\ (Cardinality(Names(sessions)) <= MaxSessions)'
<1> SUFFICES Kept
  BY <1>0 DEF OrderInv
<1> USE DEF OrderInv
<1> DEFINE open == Cleaned.open
           ord  == Cleaned.ord
<1>1. Sound(open) /\ InOrder(open, ord) /\ Cardinality(Names(open)) < MaxSessions
  BY <1>0, CleanedSound, CleanedInOrder
<1> HIDE DEF open, ord
<1>2. ASSUME NEW s \in SessionIds, NEW ses \in Session, ses.used = now,
             sessions' = [open EXCEPT ![s] = ses], order' = Append(Forget(ord, {s}), s), now' = now
      PROVE  Kept
  <2>1. InOrder(sessions', order') /\ Names(sessions') = Names(open) \cup {s}
    BY <1>1, <1>2, UsedInOrder
  <2>2. InOrder(sessions, order)'
    BY <1>2, <2>1 DEF InOrder, Names
  <2>3. Cardinality(Names(open) \cup {s}) <= Cardinality(Names(open)) + 1
        /\ Cardinality(Names(open)) \in Nat /\ Cardinality(Names(open) \cup {s}) \in Nat
    <3> DEFINE N == Names(open)
    <3>1. IsFiniteSet(N)
      BY FiniteNames
    <3> HIDE DEF N
    <3>2. IsFiniteSet(N \cup {s}) /\ Cardinality(N) \in Nat
          /\ Cardinality(N \cup {s}) = IF s \in N THEN Cardinality(N) ELSE Cardinality(N) + 1
      BY <3>1, FS_AddElement, FS_CardinalityType
    <3> QED BY <3>2 DEF N
  <2>4. Names(sessions)' = Names(open) \cup {s}
    BY <2>1 DEF Names
  <2> QED BY <1>0, <1>1, <2>2, <2>3, <2>4
<1>3. CASE Tick
  <2>1. sessions' = sessions /\ order' = order /\ now' = now + 1
    BY <1>3 DEF Tick
  <2>2. \A s \in Names(sessions) : sessions[s].used \in 0 .. MaxTime
    BY <1>0 DEF TableInv, Sessions, Session, Names
  <2>3. \A s \in Names(sessions) : sessions[s].used <= now + 1
    BY <1>0, <2>2 DEF InOrder
  <2> QED BY <2>1, <2>3 DEF InOrder, Names
<1>4. ASSUME NEW s \in SessionIds, NEW u \in Users, NEW l \in Languages, Continue(s, u, l)
      PROVE  Kept
  <2> DEFINE kept == IF open[s].language = l THEN open[s]
                     ELSE [open[s] EXCEPT !.language = l, !.context = {}]
  <2>1. open[s] \in Session /\ open[s].user = u
        /\ \A c \in open[s].context : c = <<u, open[s].language>>
    BY <1>1, <1>4 DEF Continue, Owns, Sound, Sessions, open
  <2>2. kept \in Session /\ kept.user = u /\ kept.language = l
        /\ \A c \in kept.context : c = <<u, l>>
    BY <2>1 DEF Session
  <2>3. PICK said \in BOOLEAN :
            /\ sessions' = [open EXCEPT ![s] = Turn(kept, u, l, said)]
            /\ order' = Append(Forget(ord, {s}), s) /\ now' = now
    BY <1>4 DEF Continue, open, ord
  <2> HIDE DEF kept
  <2>4. Turn(kept, u, l, said) \in Session /\ Turn(kept, u, l, said).used = now
    BY <1>0, <2>2, TurnSound, TurnUsed
  <2> QED BY <1>2, <2>3, <2>4
<1>5. ASSUME NEW s \in SessionIds, NEW u \in Users, NEW l \in Languages, Create(s, u, l)
      PROVE  Kept
  <2>1. CASE l \in Installed
    <3> DEFINE new == NewSession(u, l)
    <3>1. new \in Session /\ new.user = u /\ new.language = l /\ \A c \in new.context : c = <<u, l>>
      BY <1>0 DEF NewSession, Session
    <3>2. PICK said \in BOOLEAN :
            /\ sessions' = [open EXCEPT ![s] = Turn(new, u, l, said)]
            /\ order' = Append(Forget(ord, {s}), s) /\ now' = now
      BY <1>5, <2>1 DEF Create, open, ord
    <3> HIDE DEF new
    <3>3. Turn(new, u, l, said) \in Session /\ Turn(new, u, l, said).used = now
      BY <1>0, <3>1, TurnSound, TurnUsed
    <3> QED BY <1>2, <3>2, <3>3
  <2>2. CASE l \notin Installed
    <3>1. sessions' = [open EXCEPT ![s] = Closed] /\ order' = Forget(ord, {s}) /\ now' = now
      BY <1>5, <2>2 DEF Create, open, ord
    <3>2. sessions' = Drop(open, {s})
      BY <1>1, <3>1 DEF Sound, Sessions, Drop
    <3>3. InOrder(Drop(open, {s}), Forget(ord, {s})) /\ Names(Drop(open, {s})) = Names(open) \ {s}
      BY <1>1, ForgetInOrder, DropNames
    <3>4. InOrder(sessions, order)' /\ Names(sessions)' = Names(open) \ {s}
      BY <3>1, <3>2, <3>3 DEF InOrder, Names
    <3>5. Cardinality(Names(open) \ {s}) <= Cardinality(Names(open))
          /\ Cardinality(Names(open)) \in Nat /\ Cardinality(Names(open) \ {s}) \in Nat
      <4> DEFINE N == Names(open)
      <4>1. IsFiniteSet(N)
        BY FiniteNames
      <4> HIDE DEF N
      <4>2. N \ {s} \subseteq N
        OBVIOUS
      <4>3. IsFiniteSet(N \ {s}) /\ Cardinality(N \ {s}) <= Cardinality(N)
        BY <4>1, <4>2, FS_Subset
      <4>4. Cardinality(N) \in Nat /\ Cardinality(N \ {s}) \in Nat
        BY <4>1, <4>3, FS_CardinalityType
      <4> QED BY <4>3, <4>4 DEF N
    <3> QED BY <1>0, <1>1, <3>4, <3>5
  <2> QED BY <2>1, <2>2
<1>6. ASSUME NEW s \in SessionIds, Reset(s) PROVE Kept
  <2>1. /\ sessions \in Sessions /\ s \in Names(sessions)
        /\ sessions' = [sessions EXCEPT ![s].context = {}, ![s].active = now]
        /\ UNCHANGED <<now, order>>
    BY <1>0, <1>6 DEF Reset, TableInv, Names
  <2>2. sessions[s] \in Session
    BY <2>1 DEF Sessions, Names
  <2>3. \A q \in SessionIds : /\ sessions'[q].used = sessions[q].used
                              /\ sessions'[q] = Closed <=> sessions[q] = Closed
    <3>1. \A q \in SessionIds : q # s => sessions'[q] = sessions[q]
      BY <2>1 DEF Sessions
    <3>2. sessions'[s] = [sessions[s] EXCEPT !.context = {}, !.active = now]
      BY <2>1 DEF Sessions
    <3>3. sessions'[s] \in Session /\ sessions'[s].used = sessions[s].used
      BY <1>0, <2>2, <3>2 DEF Session
    <3> QED BY <2>2, <3>1, <3>3, ClosedAssumption
  <2>4. Names(sessions)' = Names(sessions)
    BY <2>3 DEF Names
  <2>5. \A x \in DOMAIN order : order[x] \in SessionIds
    BY DEF InOrder
  <2>6. \A s2 \in Names(sessions) : sessions'[s2].used <= now
    BY <2>3 DEF InOrder, Names
  <2>7. \A x, y \in DOMAIN order : x < y => sessions'[order[x]].used <= sessions'[order[y]].used
    BY <2>3, <2>5 DEF InOrder
  <2>8. InOrder(sessions, order)'
    BY <2>1, <2>4, <2>6, <2>7 DEF InOrder
  <2>9. Cardinality(Names(sessions))' <= MaxSessions
    BY <2>4
  <2> QED BY <2>8, <2>9
<1>7. CASE Clear
  <2>1. Names(sessions)' = {} /\ order' = <<>>
    BY <1>7 DEF Clear, Names
  <2>2. DOMAIN order' = {} /\ order' \in Seq(SessionIds)
    BY <2>1
  <2>3. InOrder(sessions, order)'
    BY <2>1, <2>2 DEF InOrder, IsInjective, ToSet
  <2> QED BY <1>0, <2>1, <2>3, FS_EmptySet
<1>8. CASE UNCHANGED corefVars
  BY <1>8 DEF corefVars, InOrder, Names
<1> QED BY <1>3, <1>4, <1>5, <1>6, <1>7, <1>8 DEF CorefNext

LEMMA OrderTypes == OrderInv => CorefTypeOK
  BY DEF OrderInv, TableInv, InOrder, Sessions, CorefTypeOK

(* The order names every open session once and nothing else, and no more   *)
(* than MaxSessions are ever open, for any names, limits and times.        *)
THEOREM CorefTypeCorrect == CorefSpec => []CorefTypeOK
  BY OrderTypes, InitOrder, StepOrder, PTL DEF CorefSpec

(* The order is that of the last sentences, through expiry, eviction,      *)
(* deletion and reset: the silent longest are always the first to go.      *)
THEOREM OrderIsAlwaysByUse == CorefSpec => []OrderIsByUse
<1>1. OrderInv => OrderIsByUse
  BY DEF OrderInv, InOrder, OrderIsByUse
<1> QED BY <1>1, InitOrder, StepOrder, PTL DEF CorefSpec

-----------------------------------------------------------------------------
(* Prunes.                                                                 *)

\* What the Redis lock is worth: a request that has not come to Enter has not
\* touched it, one that prunes with a lock it has not outlived is its holder,
\* and a holder has not outlived it.
GripInv ==
    \A r \in PruneRequests :
        /\ place[r] \in {"new", "checking"} => grip[r] = "none"
        /\ place[r] = "pruning" /\ grip[r] = "held" => redis = r
        /\ redis = r => grip[r] = "held"

PruneInv == PruneTypeOK /\ GripInv

LEMMA InitPrune == PruneInit => PruneInv
<1> SUFFICES ASSUME PruneInit PROVE PruneInv
  OBVIOUS
<1> USE PruneAssumption DEF PruneInit
<1>1. PruneTypeOK
  BY DEF PruneTypeOK, Places
<1>2. GripInv
  BY DEF GripInv
<1> QED BY <1>1, <1>2 DEF PruneInv

\* The guard of a worker follows the request that moves.
LEMMA StepPrune == PruneInv /\ [PruneNext]_pruneVars => PruneInv'
<1> SUFFICES ASSUME PruneInv, [PruneNext]_pruneVars PROVE PruneInv'
  OBVIOUS
<1> USE PruneAssumption DEF PruneInv
<1>1. ASSUME NEW r \in PruneRequests, CheckCooldown(r) PROVE PruneInv'
  BY <1>1 DEF CheckCooldown, Move, PruneTypeOK, GripInv, Places
<1>2. ASSUME NEW r \in PruneRequests, RefusePipelines(r) PROVE PruneInv'
  BY <1>2 DEF RefusePipelines, Move, PruneTypeOK, GripInv, Places
<1>3. ASSUME NEW r \in PruneRequests, Enter(r) PROVE PruneInv'
  <2>1. PruneTypeOK'
    <3>1. CASE guard[WorkerOf[r]] # Free
      BY <1>3, <3>1 DEF Enter, Move, PruneTypeOK, Places
    <3>2. CASE guard[WorkerOf[r]] = Free
      BY <1>3, <3>2 DEF Enter, Move, PruneTypeOK, Places
    <3> QED BY <3>1, <3>2
  <2>2. GripInv'
    BY <1>3 DEF Enter, Move, PruneTypeOK, GripInv, Places
  <2> QED BY <2>1, <2>2
<1>4. ASSUME NEW r \in PruneRequests, Leave(r) PROVE PruneInv'
  <2>1. PruneTypeOK'
    BY <1>4 DEF Leave, Move, Released, PruneTypeOK, Places
  <2>2. GripInv'
    BY <1>4 DEF Leave, Move, Released, PruneTypeOK, GripInv, Places
  <2> QED BY <2>1, <2>2
<1>5. CASE Expire
  BY <1>5 DEF Expire, PruneTypeOK, GripInv
<1>6. CASE EndCooldown
  BY <1>6 DEF EndCooldown, PruneTypeOK, GripInv
<1>7. CASE KillWorker
  <2>1. PruneTypeOK'
    BY <1>7 DEF KillWorker, PruneTypeOK, Places
  <2>2. GripInv'
    BY <1>7 DEF KillWorker, PruneTypeOK, GripInv
  <2> QED BY <2>1, <2>2
<1>8. CASE TogglePipelines
  BY <1>8 DEF TogglePipelines, PruneTypeOK, GripInv
<1>9. CASE UNCHANGED pruneVars
  BY <1>9 DEF pruneVars, PruneTypeOK, GripInv
<1> QED BY <1>1, <1>2, <1>3, <1>4, <1>5, <1>6, <1>7, <1>8, <1>9 DEF PruneNext

LEMMA PruneInvariant == PruneSpec => []PruneInv
  BY InitPrune, StepPrune, PTL DEF PruneSpec

(* The state keeps its types, and the lock of a worker is held by the one  *)
(* request that prunes in it, through refusals, failures and kills.        *)
THEOREM PruneTypeCorrect == PruneSpec => []PruneTypeOK
  BY PruneInvariant, PTL DEF PruneInv

(* Two prunes overlap only in two workers, one of them without the Redis   *)
(* lock or past its timeout, however many requests and workers there are.  *)
THEOREM OverlapAlwaysNeedsALostLock == PruneSpec => []OverlapNeedsALostLock
<1>1. PruneInv => OverlapNeedsALostLock
  BY PruneAssumption DEF PruneInv, PruneTypeOK, GripInv, OverlapNeedsALostLock
<1> QED BY <1>1, PruneInvariant, PTL

-----------------------------------------------------------------------------
(* Versions of procedures.                                                 *)

LEMMA OverTyped ==
    ASSUME NEW S, NEW D, NEW E, NEW f \in [D -> S], NEW g \in [E -> S]
    PROVE  /\ Over(f, g) \in [D \cup E -> S]
           /\ \A x \in D : Over(f, g)[x] = f[x]
           /\ \A x \in E \ D : Over(f, g)[x] = g[x]
  BY DEF Over

Written == {"active", "deprecated"}
GraphSet == [nodes : UNION {[D -> Written] : D \in SUBSET Id}, edges : SUBSET (Id \X Id)]

\* What a graph has deprecated a candidate of the batch replaces, by a procedure
\* that the graph has as active.
Backed(g, b) ==
    \A id \in DOMAIN g.nodes : g.nodes[id] = "deprecated" =>
        /\ id \in Replaced(b)
        /\ \E new \in DOMAIN g.nodes : <<new, id>> \in g.edges /\ g.nodes[new] = "active"

LEMMA ResultTyped ==
    ASSUME NEW candidate \in Candidate
    PROVE  \A r \in Result(candidate) : r \in Built /\ r.new \in Id /\ r.old \subseteq Id
  BY DEF Candidate, Result, Option, Built

LEMMA ReplacedTyped ==
    ASSUME VersionsTypeOK, NEW b \in Batches
    PROVE  /\ Replaced(b) \subseteq Id
           /\ batch[b] = <<>> => Replaced(b) = {}
           /\ batch[b] # <<>> => batch[b] \in [1 .. Width -> Candidate]
<1>1. batch[b] = <<>> \/ batch[b] \in [1 .. Width -> Candidate]
  BY DEF VersionsTypeOK
<1>2. batch[b] = <<>> => DOMAIN batch[b] = {}
  OBVIOUS
<1>3. \A k \in DOMAIN batch[b] : batch[b][k] \in Candidate
  BY <1>1, <1>2
<1> QED BY <1>1, <1>2, <1>3, ResultTyped DEF Replaced

LEMMA ExtractGraphTyped ==
    ASSUME NEW g \in GraphSet, NEW candidate \in Candidate
    PROVE  /\ ExtractGraph(g, candidate) \in GraphSet
           /\ LET news == {r.new : r \in Fresh(g, candidate)}
                  olds == UNION {r.old : r \in Fresh(g, candidate)}
                  h == ExtractGraph(g, candidate)
              IN  /\ DOMAIN h.nodes = DOMAIN g.nodes \cup news \cup olds
                  /\ \A id \in DOMAIN g.nodes : h.nodes[id] = g.nodes[id]
                  /\ \A id \in news : h.nodes[id] = "active"
                  /\ h.edges = g.edges \cup Edges(Fresh(g, candidate))
<1> DEFINE fresh == Fresh(g, candidate)
           news == {r.new : r \in fresh}
           olds == UNION {r.old : r \in fresh}
           first == [id \in news |-> "active"]
           last == [id \in olds |-> "deprecated"]
           D == DOMAIN g.nodes
           h == ExtractGraph(g, candidate)
<1>1. \A r \in fresh : r.new \in Id /\ r.old \subseteq Id /\ r.new \notin D
  BY ResultTyped DEF Fresh
<1>2. news \subseteq Id /\ olds \subseteq Id /\ news \cap D = {} /\ Edges(fresh) \subseteq Id \X Id
  BY <1>1 DEF Edges
<1>3. g.nodes \in [D -> Written] /\ D \subseteq Id /\ g.edges \subseteq Id \X Id
  BY DEF GraphSet
<1>4. first \in [news -> Written] /\ last \in [olds -> Written]
  BY DEF Written
<1>5. h = [nodes |-> Over(Over(g.nodes, first), last), edges |-> g.edges \cup Edges(fresh)]
  BY DEF ExtractGraph
<1>6. \A id \in news : first[id] = "active"
  OBVIOUS
<1> HIDE DEF fresh, news, olds, first, last, D, h
<1>7. /\ Over(g.nodes, first) \in [D \cup news -> Written]
      /\ \A id \in D : Over(g.nodes, first)[id] = g.nodes[id]
      /\ \A id \in news \ D : Over(g.nodes, first)[id] = first[id]
  BY <1>3, <1>4 DEF Over
<1>8. /\ Over(Over(g.nodes, first), last) \in [(D \cup news) \cup olds -> Written]
      /\ \A id \in D \cup news : Over(Over(g.nodes, first), last)[id] = Over(g.nodes, first)[id]
  BY <1>4, <1>7 DEF Over
<1>9. h.nodes \in [(D \cup news) \cup olds -> Written] /\ h.edges = g.edges \cup Edges(fresh)
  BY <1>5, <1>8
<1>10. (D \cup news) \cup olds \in SUBSET Id
  BY <1>2, <1>3
<1>11. h \in GraphSet
  BY <1>2, <1>3, <1>5, <1>9, <1>10 DEF GraphSet
<1>12. /\ DOMAIN h.nodes = D \cup news \cup olds
       /\ \A id \in D : h.nodes[id] = g.nodes[id]
       /\ \A id \in news : h.nodes[id] = "active"
  BY <1>2, <1>5, <1>6, <1>7, <1>8, <1>9
<1> QED BY <1>9, <1>11, <1>12 DEF h, D, news, olds, fresh

LEMMA ExtractGraphBacked ==
    ASSUME VersionsTypeOK, NEW b \in Batches, batch[b] # <<>>, NEW k \in 1 .. Width,
           NEW g \in GraphSet, Backed(g, b)
    PROVE  Backed(ExtractGraph(g, batch[b][k]), b)
<1> DEFINE fresh == Fresh(g, batch[b][k])
           news == {r.new : r \in fresh}
           olds == UNION {r.old : r \in fresh}
           h == ExtractGraph(g, batch[b][k])
<1>1. batch[b] \in [1 .. Width -> Candidate] /\ batch[b][k] \in Candidate
  BY ReplacedTyped
<1>2. /\ DOMAIN h.nodes = DOMAIN g.nodes \cup news \cup olds
      /\ \A id \in DOMAIN g.nodes : h.nodes[id] = g.nodes[id]
      /\ \A id \in news : h.nodes[id] = "active"
      /\ h.edges = g.edges \cup Edges(fresh)
  BY <1>1, ExtractGraphTyped
<1>3. olds \subseteq Replaced(b)
  <2>1. fresh \subseteq Result(batch[b][k])
    BY DEF Fresh
  <2> QED BY <1>1, <2>1 DEF Replaced
<1>4. \A id \in olds : \E new \in news : <<new, id>> \in Edges(fresh)
  <2> HIDE DEF fresh
  <2>1. ASSUME NEW r \in fresh, NEW id \in r.old PROVE <<r.new, id>> \in Edges(fresh) /\ r.new \in news
    BY DEF Edges
  <2> QED BY <2>1
<1> HIDE DEF fresh, news, olds, h
<1>5. ASSUME NEW id \in DOMAIN h.nodes, h.nodes[id] = "deprecated"
      PROVE  /\ id \in Replaced(b)
             /\ \E new \in DOMAIN h.nodes : <<new, id>> \in h.edges /\ h.nodes[new] = "active"
  <2>1. CASE id \in DOMAIN g.nodes
    BY <1>2, <1>5, <2>1 DEF Backed
  <2>2. CASE id \in olds
    BY <1>2, <1>3, <1>4, <2>2
  <2> QED BY <1>2, <1>5, <2>1, <2>2
<1> QED BY <1>5 DEF Backed, h

\* A graph can be made by recursion over the candidates of a batch.
LEMMA GraphRecursion ==
    ASSUME NEW none \in GraphSet, Width \in Nat,
           NEW step \in [1 .. Width -> [GraphSet -> GraphSet]]
    PROVE  \E f \in [0 .. Width -> GraphSet] :
               f[0] = none /\ \A k \in 1 .. Width : f[k] = step[k][f[k-1]]
<1> DEFINE S == GraphSet
           m == Width
<1>1. m \in Nat /\ none \in S /\ step \in [1 .. m -> [S -> S]]
  OBVIOUS
<1> HIDE DEF S, m
<1>2. Recursions(S, none, m, step) # {}
  BY <1>1, RecursionExists
<1> QED BY <1>2 DEF Recursions, S, m

\* The graph of a batch is what the recursion over its candidates makes of it.
LEMMA ExtractedBacked ==
    ASSUME VersionsTypeOK, NEW b \in Batches, batch[b] # <<>>
    PROVE  Extracted(b) \in GraphSet /\ Backed(Extracted(b), b)
<1> DEFINE none == [nodes |-> [id \in {} |-> "active"], edges |-> {}]
           step == [k \in 1 .. Width |-> [g \in GraphSet |-> ExtractGraph(g, batch[b][k])]]
<1>1. Width \in Nat /\ \A k \in 1 .. Width : batch[b][k] \in Candidate
  BY VersionsAssumption, ReplacedTyped
<1>2. none \in GraphSet /\ Backed(none, b)
  <2>1. none.nodes \in [{} -> Written] /\ {} \in SUBSET Id /\ DOMAIN none.nodes = {}
    OBVIOUS
  <2>2. none.nodes \in UNION {[D -> Written] : D \in SUBSET Id}
    BY <2>1
  <2> QED BY <2>1, <2>2 DEF GraphSet, Backed
<1>3. step \in [1 .. Width -> [GraphSet -> GraphSet]]
  BY <1>1, ExtractGraphTyped
<1> HIDE DEF none, step
<1>4. PICK f \in [0 .. Width -> GraphSet] :
          f[0] = none /\ \A k \in 1 .. Width : f[k] = step[k][f[k-1]]
  BY <1>1, <1>2, <1>3, GraphRecursion
<1> DEFINE graph[k \in 0 .. Width] ==
              IF k = 0 THEN none ELSE ExtractGraph(graph[k-1], batch[b][k])
<1>5. graph = [k \in 0 .. Width |-> IF k = 0 THEN none
                                   ELSE ExtractGraph(graph[k-1], batch[b][k])]
  <2>1. f = [k \in 0 .. Width |-> IF k = 0 THEN none ELSE ExtractGraph(f[k-1], batch[b][k])]
    <3>1. ASSUME NEW k \in 0 .. Width, k # 0 PROVE f[k] = ExtractGraph(f[k-1], batch[b][k])
      <4>1. k \in 1 .. Width /\ k - 1 \in 0 .. Width
        BY <1>1, <3>1
      <4>2. f[k] = step[k][f[k-1]] /\ f[k-1] \in GraphSet
        BY <1>4, <4>1
      <4> QED BY <4>1, <4>2 DEF step
    <3> QED BY <1>4, <3>1
  <2> QED BY <2>1
<1>6. Extracted(b) = graph[Width]
  BY DEF Extracted, none
<1> HIDE DEF graph
<1> DEFINE T == {k \in 0 .. Width : graph[k] \in GraphSet /\ Backed(graph[k], b)}
<1>7. 0 \in T
  BY <1>1, <1>2, <1>5
<1>8. ASSUME NEW k \in 0 .. Width, k # Width, k \in T PROVE k + 1 \in T
  <2>1. k + 1 \in 0 .. Width /\ k + 1 \in 1 .. Width /\ k + 1 # 0 /\ (k + 1) - 1 = k
    BY <1>1, <1>8
  <2>2. graph[k + 1] = ExtractGraph(graph[k], batch[b][k + 1])
    BY <1>5, <2>1
  <2> QED BY <1>1, <1>8, <2>1, <2>2, ExtractGraphTyped, ExtractGraphBacked
<1>9. 0 .. Width \subseteq T
  <2> HIDE DEF T
  <2> QED BY <1>1, <1>7, <1>8, NumbersUpTo
<1> QED BY <1>1, <1>6, <1>9

-----------------------------------------------------------------------------
\* Deprecated procedures whose new version is neither lost nor on its way.
Bereft == {id \in Id : status[id] = "deprecated" /\ id \notin orphaned \cup Awaiting}

LEMMA SuccessorsStay ==
    ASSUME DeprecatedHasSuccessor, Bereft' \subseteq Bereft, supersedes \subseteq supersedes'
    PROVE  DeprecatedHasSuccessor'
  BY DEF DeprecatedHasSuccessor, Bereft

\* A candidate that had no result yet goes on.
LEMMA CandidateStep ==
    ASSUME VersionsTypeOK, DeprecatedHasSuccessor, NEW b \in Batches, NEW k \in 1 .. Width,
           batch[b] # <<>>, batch[b][k].at # "over",
           NEW candidate \in Candidate, Becomes(b, k, candidate),
           UNCHANGED <<supersedes, begun, orphaned>>,
           status' \in [Id -> {"absent", "active", "deprecated"}],
           \A id \in Id : status'[id] = status[id] \/
                          \E r \in Result(candidate) : id \in r.old
    PROVE  VersionsTypeOK' /\ DeprecatedHasSuccessor'
<1>1. /\ batch[b] \in [1 .. Width -> Candidate]
      /\ batch' = [batch EXCEPT ![b] = [batch[b] EXCEPT ![k] = candidate]]
      /\ batch \in [Batches -> {<<>>} \cup [1 .. Width -> Candidate]]
  BY ReplacedTyped DEF Becomes, VersionsTypeOK
<1>2. /\ batch'[b] \in [1 .. Width -> Candidate] /\ batch'[b][k] = candidate
      /\ \A j \in 1 .. Width : j # k => batch'[b][j] = batch[b][j]
      /\ \A d \in Batches : d # b => batch'[d] = batch[d]
      /\ batch' \in [Batches -> {<<>>} \cup [1 .. Width -> Candidate]]
  BY <1>1
<1>3. VersionsTypeOK'
  BY <1>2 DEF VersionsTypeOK
<1>4. Result(batch[b][k]) = {}
  BY DEF Result
<1>5. Replaced(b) \subseteq Replaced(b)' /\ \A r \in Result(candidate) : r.old \subseteq Replaced(b)'
  <2>1. DOMAIN batch[b] = 1 .. Width /\ DOMAIN batch'[b] = 1 .. Width
    BY <1>1, <1>2
  <2>2. \A j \in 1 .. Width : Result(batch[b][j]) \subseteq Result(batch'[b][j])
    BY <1>2, <1>4
  <2>3. Replaced(b) \subseteq Replaced(b)'
    BY <2>1, <2>2 DEF Replaced, Result
  <2>4. Result(candidate) \subseteq UNION {Result(batch'[b][j]) : j \in DOMAIN batch'[b]}
    BY <1>2, <2>1
  <2> QED BY <2>3, <2>4 DEF Replaced, Result
<1>6. \A d \in Batches : d # b => Replaced(d)' = Replaced(d)
  BY <1>2 DEF Replaced, Result
<1>7. Awaiting \subseteq Awaiting' /\ \A r \in Result(candidate) : r.old \subseteq Awaiting'
  BY <1>5, <1>6 DEF Awaiting
<1>8. Bereft' \subseteq Bereft
  BY <1>7 DEF Bereft
<1> QED BY <1>3, <1>8, SuccessorsStay

LEMMA DecideSucceeds ==
    ASSUME VersionsTypeOK, DeprecatedHasSuccessor, NEW b \in Batches, NEW k \in 1 .. Width,
           Decide(b, k)
    PROVE  VersionsTypeOK' /\ DeprecatedHasSuccessor'
<1>1. \E candidate \in Candidate : Becomes(b, k, candidate)
  <2>1. [at |-> "over", built |-> {}] \in Candidate
    BY DEF Candidate, Option
  <2>2. [at |-> "compiling", action |-> "create_new", match |-> {}] \in Candidate
    BY DEF Candidate, Option
  <2>3. \A action \in {"patch", "new_version"}, id \in Id :
            [at |-> "compiling", action |-> action, match |-> {id}] \in Candidate
    BY DEF Candidate, Option
  <2> QED BY <2>1, <2>2, <2>3 DEF Decide
<1>2. /\ batch[b] # <<>> /\ batch[b][k].at # "over"
      /\ UNCHANGED <<status, supersedes, begun, orphaned>>
      /\ status' \in [Id -> {"absent", "active", "deprecated"}]
  BY DEF Decide, VersionsTypeOK
<1> QED BY <1>1, <1>2, CandidateStep

\* What a candidate that compiles is about to replace.
LEMMA CompilingTyped ==
    ASSUME VersionsTypeOK, NEW b \in Batches, NEW k \in 1 .. Width, NEW action,
           Compiling(b, k, action)
    PROVE  batch[b] # <<>> /\ batch[b][k].at # "over" /\ batch[b][k].match \subseteq Id
<1>1. batch[b] # <<>> /\ batch[b][k].at = "compiling"
  BY DEF Compiling
<1>2. batch[b][k] \in Candidate
  BY <1>1, ReplacedTyped
<1> QED BY <1>1, <1>2 DEF Candidate, Option

LEMMA DoneTyped ==
    ASSUME NEW new \in Id, NEW old \in SUBSET Id, old = {} \/ \E id \in Id : old = {id}
    PROVE  LET over == [at |-> "over", built |-> {[new |-> new, old |-> old]}]
           IN  over \in Candidate /\ Result(over) = {[new |-> new, old |-> old]}
<1>1. [new |-> new, old |-> old] \in Built
  BY DEF Built, Option
<1>2. {[new |-> new, old |-> old]} \in Option(Built)
  BY <1>1 DEF Option
<1> QED BY <1>2 DEF Candidate, Result

LEMMA WriteSucceeds ==
    ASSUME VersionsTypeOK, DeprecatedHasSuccessor, NEW b \in Batches, NEW k \in 1 .. Width,
           WriteCreateNew(b, k) \/ WritePatch(b, k) \/ WriteNewVersion(b, k)
    PROVE  VersionsTypeOK' /\ DeprecatedHasSuccessor'
<1> DEFINE over(new, old) == [at |-> "over", built |-> {[new |-> new, old |-> old]}]
<1>0. status \in [Id -> {"absent", "active", "deprecated"}]
  BY DEF VersionsTypeOK
<1>1. ASSUME NEW new \in Id, Done(b, k, new, {}), UNCHANGED <<status, supersedes, begun, orphaned>>,
             batch[b] # <<>>, batch[b][k].at # "over"
      PROVE  VersionsTypeOK' /\ DeprecatedHasSuccessor'
  <2>1. over(new, {}) \in Candidate /\ Becomes(b, k, over(new, {}))
    BY <1>1, DoneTyped DEF Done
  <2> HIDE DEF over
  <2> QED BY <1>0, <1>1, <2>1, CandidateStep
<1>2. CASE WriteCreateNew(b, k)
  <2>1. /\ batch[b] # <<>> /\ batch[b][k].at # "over"
        /\ UNCHANGED <<status, supersedes, begun, orphaned>>
        /\ \E s \in Signatures : Done(b, k, [sig |-> s, version |-> 1], {})
    BY <1>2, CompilingTyped DEF WriteCreateNew
  <2>2. \A s \in Signatures : [sig |-> s, version |-> 1] \in Id
    BY DEF Id
  <2> QED BY <1>1, <2>1, <2>2
<1>3. CASE WritePatch(b, k)
  <2>1. /\ batch[b] # <<>> /\ batch[b][k].at # "over"
        /\ UNCHANGED <<status, supersedes, begun, orphaned>>
        /\ \E id \in Id : Done(b, k, [sig |-> id.sig, version |-> 1], {})
    BY <1>3, CompilingTyped DEF WritePatch
  <2>2. \A id \in Id : [sig |-> id.sig, version |-> 1] \in Id
    BY DEF Id
  <2> QED BY <1>1, <2>1, <2>2
<1>4. CASE WriteNewVersion(b, k)
  <2>1. /\ batch[b] # <<>> /\ batch[b][k].at # "over" /\ batch[b][k].match \subseteq Id
    BY <1>4, CompilingTyped DEF WriteNewVersion
  <2>2. PICK old \in batch[b][k].match, s \in Signatures :
            /\ Done(b, k, [sig |-> s, version |-> RecalledVersion(old) + 1], {old})
            /\ \/ status' = [status EXCEPT ![old] = "deprecated"]
               \/ UNCHANGED status
    BY <1>4 DEF WriteNewVersion
  <2> DEFINE new == [sig |-> s, version |-> RecalledVersion(old) + 1]
  <2>3. old \in Id /\ new \in Id
    BY <2>1 DEF Id, RecalledVersion
  <2>4. /\ over(new, {old}) \in Candidate /\ Becomes(b, k, over(new, {old}))
        /\ Result(over(new, {old})) = {[new |-> new, old |-> {old}]}
    BY <2>2, <2>3, DoneTyped DEF Done
  <2>5. \E r \in Result(over(new, {old})) : old \in r.old
    <3>1. [new |-> new, old |-> {old}].old = {old}
      OBVIOUS
    <3> QED BY <2>4, <3>1
  <2>6. status' \in [Id -> {"absent", "active", "deprecated"}]
        /\ \A id \in Id : status'[id] = status[id] \/ id = old
    BY <1>0, <2>2, <2>3
  <2>7. UNCHANGED <<supersedes, begun, orphaned>>
    BY <1>4 DEF WriteNewVersion
  <2> HIDE DEF over, new
  <2> QED BY <2>1, <2>4, <2>5, <2>6, <2>7, CandidateStep
<1> QED BY <1>2, <1>3, <1>4

\* A batch that is over leaves the others as they are.
LEMMA BatchEnds ==
    ASSUME VersionsTypeOK, NEW b \in Batches, batch' = [batch EXCEPT ![b] = <<>>]
    PROVE  /\ batch' \in [Batches -> {<<>>} \cup [1 .. Width -> Candidate]]
           /\ Awaiting \subseteq Awaiting' \cup Replaced(b) /\ Awaiting' \subseteq Awaiting
<1>1. /\ batch' \in [Batches -> {<<>>} \cup [1 .. Width -> Candidate]]
      /\ batch'[b] = <<>> /\ \A d \in Batches : d # b => batch'[d] = batch[d]
  BY DEF VersionsTypeOK
<1>2. Replaced(b)' = {}
  BY <1>1 DEF Replaced
<1>3. \A d \in Batches : d # b => Replaced(d)' = Replaced(d)
  BY <1>1 DEF Replaced, Result
<1> QED BY <1>1, <1>2, <1>3 DEF Awaiting

LEMMA PersistSucceeds ==
    ASSUME VersionsTypeOK, DeprecatedHasSuccessor, NEW b \in Batches, Persist(b)
    PROVE  VersionsTypeOK' /\ DeprecatedHasSuccessor'
<1> DEFINE g == Extracted(b)
           written == DOMAIN g.nodes
<1>1. /\ g \in GraphSet /\ Backed(g, b)
  BY ExtractedBacked DEF Persist
<1>2. /\ status' = Over(g.nodes, status) /\ begun' = begun
      /\ batch' = [batch EXCEPT ![b] = <<>>]
      /\ \/ /\ supersedes' = supersedes \cup g.edges
            /\ orphaned' = (orphaned \cup Replaced(b)) \ written
         \/ supersedes' = supersedes /\ orphaned' = orphaned \cup Replaced(b)
  BY DEF Persist
<1> HIDE DEF g
<1>3. written \subseteq Id /\ g.nodes \in [written -> Written] /\ g.edges \subseteq Id \X Id
  BY <1>1 DEF GraphSet
<1>4. status \in [Id -> {"absent", "active", "deprecated"}]
  BY DEF VersionsTypeOK
<1>5. /\ status' \in [Id -> {"absent", "active", "deprecated"}]
      /\ \A id \in written : status'[id] = g.nodes[id]
      /\ \A id \in Id \ written : status'[id] = status[id]
  <2>1. g.nodes \in [written -> {"absent", "active", "deprecated"}]
    BY <1>3 DEF Written
  <2>2. written \cup Id = Id
    BY <1>3
  <2> HIDE DEF written
  <2> QED BY <1>2, <1>3, <1>4, <2>1, <2>2 DEF Over
<1>6. /\ batch' \in [Batches -> {<<>>} \cup [1 .. Width -> Candidate]]
      /\ Awaiting \subseteq Awaiting' \cup Replaced(b) /\ Awaiting' \subseteq Awaiting
      /\ Replaced(b) \subseteq Id
  BY <1>2, BatchEnds, ReplacedTyped
<1>7. VersionsTypeOK'
  BY <1>2, <1>3, <1>5, <1>6 DEF VersionsTypeOK
<1> HIDE DEF written
<1>8. CASE supersedes' = supersedes /\ orphaned' = orphaned \cup Replaced(b)
  <2>1. ASSUME NEW id \in Bereft' PROVE id \in Bereft
    <3>1. /\ id \in Id /\ status'[id] = "deprecated" /\ id \notin orphaned'
          /\ id \notin Awaiting'
      BY DEF Bereft
    <3>2. id \notin written
      BY <1>1, <1>5, <1>8, <3>1 DEF Backed, written
    <3> QED BY <1>5, <1>6, <1>8, <3>1, <3>2 DEF Bereft
  <2> QED BY <1>7, <1>8, <2>1, SuccessorsStay
<1>9. CASE supersedes' = supersedes \cup g.edges /\ orphaned' = (orphaned \cup Replaced(b)) \ written
  <2>1. ASSUME NEW S \in SUBSET Bereft', S # {}
        PROVE  \E e \in supersedes' : e[2] \in S /\ e[1] \notin S
    <3>1. \A id \in S : id \in Id /\ status'[id] = "deprecated" /\ id \notin orphaned'
                        /\ id \notin Awaiting'
      BY DEF Bereft
    <3>2. CASE S \cap written = {}
      <4>1. S \subseteq Bereft
        BY <1>5, <1>6, <1>9, <3>1, <3>2 DEF Bereft
      <4> QED BY <1>9, <2>1, <4>1 DEF DeprecatedHasSuccessor, Bereft
    <3>3. ASSUME NEW id \in S \cap written PROVE \E e \in supersedes' : e[2] \in S /\ e[1] \notin S
      <4>1. g.nodes[id] = "deprecated"
        BY <1>5, <3>1
      <4>2. PICK new \in written : <<new, id>> \in g.edges /\ g.nodes[new] = "active"
        BY <1>1, <4>1 DEF Backed, written
      <4>3. new \notin S
        BY <1>5, <3>1, <4>2
      <4>4. <<new, id>> \in supersedes' /\ <<new, id>>[2] \in S /\ <<new, id>>[1] \notin S
        BY <1>9, <4>2, <4>3
      <4> QED BY <4>4
    <3> QED BY <3>2, <3>3
  <2> QED BY <1>7, <2>1 DEF DeprecatedHasSuccessor, Bereft
<1> QED BY <1>2, <1>8, <1>9

VersionsInv == VersionsTypeOK /\ DeprecatedHasSuccessor

LEMMA InitVersions == VersionsInit => VersionsInv
<1> SUFFICES ASSUME VersionsInit PROVE VersionsInv
  OBVIOUS
<1>1. VersionsTypeOK
  BY VersionsAssumption DEF VersionsInit, VersionsTypeOK
<1>2. {id \in Id : status[id] = "deprecated" /\ id \notin orphaned \cup Awaiting} = {}
  BY DEF VersionsInit
<1> QED BY <1>1, <1>2 DEF VersionsInv, DeprecatedHasSuccessor

LEMMA StepVersions == VersionsInv /\ [VersionsNext]_versionVars => VersionsInv'
<1> SUFFICES ASSUME VersionsInv, [VersionsNext]_versionVars PROVE VersionsInv'
  OBVIOUS
<1> USE DEF VersionsInv
<1>1. ASSUME NEW b \in Batches, Route(b) PROVE VersionsInv'
  <2>1. /\ batch[b] = <<>> /\ begun < MaxBatches /\ begun' = begun + 1
        /\ batch' = [batch EXCEPT ![b] = [k \in 1 .. Width |-> [at |-> "routed"]]]
        /\ UNCHANGED <<status, supersedes, orphaned>>
    BY <1>1 DEF Route
  <2>2. [k \in 1 .. Width |-> [at |-> "routed"]] \in [1 .. Width -> Candidate]
    BY DEF Candidate
  <2>3. VersionsTypeOK'
    <3>1. batch' \in [Batches -> {<<>>} \cup [1 .. Width -> Candidate]]
      BY <2>1, <2>2 DEF VersionsTypeOK
    <3>2. begun' \in 0 .. MaxBatches
      BY <2>1, VersionsAssumption DEF VersionsTypeOK
    <3> QED BY <2>1, <3>1, <3>2 DEF VersionsTypeOK
  <2>4. Replaced(b) = {}
    BY <2>1, ReplacedTyped
  <2>5. \A d \in Batches : d # b => Replaced(d)' = Replaced(d)
    BY <2>1 DEF Replaced, Result, VersionsTypeOK
  <2>6. Bereft' \subseteq Bereft
    BY <2>1, <2>4, <2>5 DEF Bereft, Awaiting
  <2> QED BY <2>1, <2>3, <2>6, SuccessorsStay
<1>2. ASSUME NEW b \in Batches, Persist(b) PROVE VersionsInv'
  BY <1>2, PersistSucceeds
<1>3. ASSUME NEW b \in Batches, Abandon(b) PROVE VersionsInv'
  <2>1. /\ batch' = [batch EXCEPT ![b] = <<>>] /\ orphaned' = orphaned \cup Replaced(b)
        /\ UNCHANGED <<status, supersedes, begun>>
    BY <1>3 DEF Abandon
  <2>2. /\ batch' \in [Batches -> {<<>>} \cup [1 .. Width -> Candidate]]
        /\ Awaiting \subseteq Awaiting' \cup Replaced(b) /\ Replaced(b) \subseteq Id
    BY <2>1, BatchEnds, ReplacedTyped
  <2>3. VersionsTypeOK' /\ Bereft' \subseteq Bereft
    BY <2>1, <2>2 DEF VersionsTypeOK, Bereft
  <2> QED BY <2>1, <2>3, SuccessorsStay
<1>4. ASSUME NEW b \in Batches, NEW k \in 1 .. Width, Decide(b, k) PROVE VersionsInv'
  BY <1>4, DecideSucceeds
<1>5. ASSUME NEW b \in Batches, NEW k \in 1 .. Width,
             WriteCreateNew(b, k) \/ WritePatch(b, k) \/ WriteNewVersion(b, k)
      PROVE  VersionsInv'
  BY <1>5, WriteSucceeds
<1>6. CASE UNCHANGED versionVars
  <2>1. UNCHANGED <<status, supersedes, batch, begun, orphaned>>
    BY <1>6 DEF versionVars
  <2>2. Awaiting' = Awaiting
    BY <2>1 DEF Awaiting, Replaced, Result
  <2> QED BY <2>1, <2>2, SuccessorsStay DEF VersionsTypeOK, Bereft
<1> QED BY <1>1, <1>2, <1>3, <1>4, <1>5, <1>6 DEF VersionsNext

(* The table of procedures, the supersedes edges and the candidates of a   *)
(* batch keep their types, although a batch writes what it decided before. *)
THEOREM VersionsTypeCorrect == VersionsSpec => []VersionsTypeOK
<1>1. VersionsInv => VersionsTypeOK
  BY DEF VersionsInv
<1> QED BY <1>1, InitVersions, StepVersions, PTL DEF VersionsSpec

(* No deprecated procedure is without a way to an active one, unless its   *)
(* new version is under way or was lost: for any batches of any width.     *)
THEOREM DeprecatedAlwaysHasSuccessor == VersionsSpec => []DeprecatedHasSuccessor
<1>1. VersionsInv => DeprecatedHasSuccessor
  BY DEF VersionsInv
<1> QED BY <1>1, InitVersions, StepVersions, PTL DEF VersionsSpec

-----------------------------------------------------------------------------
(* From runs to their subscribers.                                         *)

LEMMA InitEvents == EventsInit => EventsTypeOK
  BY DEF EventsInit, EventsTypeOK, Handler

LEMMA StepEvents == EventsTypeOK /\ [EventsNext]_eventVars => EventsTypeOK'
<1> SUFFICES ASSUME EventsTypeOK, [EventsNext]_eventVars PROVE EventsTypeOK'
  OBVIOUS
<1> USE EventsAssumption DEF EventsTypeOK
<1>1. \A id : On(id) \in SUBSET Clients
  BY DEF On
<1>2. \A id \in RunIds :
          QueueOf(id) \in Seq(Event) /\ (QueueOf(id) # <<>> => queue[id] = QueueOf(id))
  BY DEF QueueOf
<1>3. ASSUME NEW c \in BackgroundCalls, CallStep(c) PROVE EventsTypeOK'
  <2>1. runs[c] \in Seq(Run)
    OBVIOUS
  <2>2. Break(c) => /\ stage' = [stage EXCEPT ![c] = "broken"]
                    /\ runs' \in [BackgroundCalls -> Seq(Run)]
                    /\ disturbed' \subseteq Clients
    <3>1. UNION {On(runs[c][i].id) : i \in DOMAIN runs[c]} \subseteq Clients
      BY <1>1
    <3> QED BY <3>1 DEF Break
  <2>3. CASE BeginBackground(c)
    <3> DEFINE new == [i \in DOMAIN DatasetsOf[c] |-> [id |-> DatasetsOf[c][i], at |-> "asked"]]
    <3>1. DatasetsOf[c] \in Seq(RunIds)
      OBVIOUS
    <3>2. \A i \in DOMAIN DatasetsOf[c] : [id |-> DatasetsOf[c][i], at |-> "asked"] \in Run
      BY <3>1 DEF Run
    <3>3. Len(DatasetsOf[c]) \in Nat /\ DOMAIN DatasetsOf[c] = 1 .. Len(DatasetsOf[c])
      BY <3>1
    <3>4. new \in [1 .. Len(DatasetsOf[c]) -> Run]
      BY <3>2, <3>3
    <3>5. new \in Seq(Run)
      BY <3>3, <3>4
    <3> HIDE DEF new
    <3>6. runs' = [runs EXCEPT ![c] = new]
      BY <2>3 DEF BeginBackground, new
    <3> QED BY <2>3, <3>5, <3>6 DEF BeginBackground
  <2>4. CASE OpenRun(c)
    <3> DEFINE k == CHOOSE k \in Asked(c) : \A j \in Asked(c) : k <= j
    <3>1. CASE Break(c)
      BY <2>2, <2>4, <3>1 DEF OpenRun
    <3>2. CASE ~Break(c)
      <4>1. PICK at \in {"skipped", "announced", "started"} : runs' = [runs EXCEPT ![c][k].at = at]
        BY <2>4, <3>2 DEF OpenRun
      <4>2. UNCHANGED <<stage, disturbed, queue, client>>
        BY <2>4, <3>2 DEF OpenRun
      <4> HIDE DEF k
      <4>3. [runs[c] EXCEPT ![k].at = at] \in Seq(Run)
        <5> DEFINE n == Len(runs[c])
                   new == [runs[c] EXCEPT ![k].at = at]
        <5>1. n \in Nat /\ DOMAIN runs[c] = 1 .. n /\ \A x \in 1 .. n : runs[c][x] \in Run
          BY <2>1
        <5>2. new = [x \in 1 .. n |-> IF x = k THEN [runs[c][x] EXCEPT !.at = at] ELSE runs[c][x]]
          BY <5>1
        <5>3. \A x \in 1 .. n : [runs[c][x] EXCEPT !.at = at] \in Run
          BY <5>1 DEF Run
        <5> HIDE DEF n
        <5>4. new \in [1 .. n -> Run]
          BY <5>1, <5>2, <5>3
        <5> HIDE DEF new
        <5> QED BY <5>1, <5>4 DEF new
      <4>4. runs' = [runs EXCEPT ![c] = [runs[c] EXCEPT ![k].at = at]]
        BY <4>1
      <4> QED BY <4>2, <4>3, <4>4
    <3> QED BY <3>1, <3>2
  <2>5. CASE AnswerCall(c)
    BY <2>5 DEF AnswerCall
  <2>6. ASSUME runs[c] # <<>> PROVE Head(runs[c]) \in Run /\ Tail(runs[c]) \in Seq(Run)
    BY <2>1, <2>6
  <2>7. ASSUME runs[c] # <<>>, NEW event \in Event, PushToQueue(Head(runs[c]).id, event)
        PROVE  queue' \in [RunIds -> {NoQueue} \cup Seq(Event)]
    <3>1. Head(runs[c]).id \in RunIds
      BY <2>6, <2>7 DEF Run
    <3> QED BY <1>2, <2>7, <3>1 DEF PushToQueue
  <2>8. CASE PassSkipped(c)
    BY <2>6, <2>8 DEF PassSkipped, Driven, DropRun
  <2>9. CASE StartDriven(c)
    <3>1. [runs[c] EXCEPT ![1].at = "started"] \in Seq(Run)
      <4> DEFINE n == Len(runs[c])
                 new == [runs[c] EXCEPT ![1].at = "started"]
      <4>1. n \in Nat /\ DOMAIN runs[c] = 1 .. n /\ \A x \in 1 .. n : runs[c][x] \in Run
        BY <2>1
      <4>2. new = [x \in 1 .. n |-> IF x = 1 THEN [runs[c][x] EXCEPT !.at = "started"]
                                   ELSE runs[c][x]]
        BY <4>1
      <4>3. \A x \in 1 .. n : [runs[c][x] EXCEPT !.at = "started"] \in Run
        BY <4>1 DEF Run
      <4> HIDE DEF n
      <4>4. new \in [1 .. n -> Run]
        BY <4>1, <4>2, <4>3
      <4> HIDE DEF new
      <4> QED BY <4>1, <4>4 DEF new
    <3>2. runs' = [runs EXCEPT ![c] = [runs[c] EXCEPT ![1].at = "started"]]
      BY <2>9 DEF StartDriven
    <3> QED BY <2>7, <2>9, <3>1, <3>2 DEF StartDriven, Driven, Event
  <2>10. CASE EndDriven(c)
    <3>1. queue' \in [RunIds -> {NoQueue} \cup Seq(Event)]
      BY <2>7, <2>10 DEF EndDriven, Driven, Event
    <3> QED BY <2>6, <2>10, <3>1 DEF EndDriven, Driven, DropRun
  <2>11. CASE BreakDriving(c)
    BY <2>2, <2>11 DEF BreakDriving
  <2> QED BY <1>3, <2>3, <2>4, <2>5, <2>8, <2>9, <2>10, <2>11 DEF CallStep
<1>4. ASSUME NEW k \in Clients, ClientStep(k) PROVE EventsTypeOK'
  <2>1. client[k] \in Handler
    OBVIOUS
  <2>2. client[k].at \in {"listening", "sending"} => client[k].id \in RunIds
    BY <2>1 DEF Handler
  <2>3. CASE Subscribe(k)
    <3>1. PICK id \in RunIds :
            /\ client' = [client EXCEPT ![k] = [at |-> "listening", id |-> id]]
            /\ InitializeQueue(id)
            /\ disturbed' = IF On(id) = {} THEN disturbed ELSE disturbed \cup On(id) \cup {k}
      BY <2>3 DEF Subscribe
    <3>2. [at |-> "listening", id |-> id] \in Handler
      BY DEF Handler
    <3>3. disturbed' \subseteq Clients
      BY <1>1, <3>1
    <3> QED BY <2>3, <3>1, <3>2, <3>3 DEF Subscribe, InitializeQueue
  <2>4. CASE FindNothing(k)
    BY <2>2, <2>4 DEF FindNothing, InitializeQueue
  <2>5. CASE GetEvent(k)
    <3> DEFINE id == client[k].id
    <3>1. id \in RunIds /\ queue[id] \in Seq(Event) /\ queue[id] # <<>>
      BY <1>2, <2>2, <2>5 DEF GetEvent
    <3>2. Head(queue[id]) \in Event /\ Tail(queue[id]) \in Seq(Event)
      BY <3>1
    <3>3. [at |-> "sending", id |-> id, event |-> Head(queue[id])] \in Handler
      BY <3>1, <3>2 DEF Handler
    <3>4. client' = [client EXCEPT ![k] = [at |-> "sending", id |-> id, event |-> Head(queue[id])]]
          /\ queue' = [queue EXCEPT ![id] = Tail(queue[id])] /\ UNCHANGED <<stage, runs, disturbed>>
      BY <2>5 DEF GetEvent
    <3> HIDE DEF id
    <3> QED BY <3>1, <3>2, <3>3, <3>4
  <2>6. CASE SendEvent(k)
    <3>1. [at |-> "closed"] \in Handler /\ [at |-> "listening", id |-> client[k].id] \in Handler
      BY <2>2, <2>6 DEF SendEvent, Handler
    <3> QED BY <2>2, <2>6, <3>1 DEF SendEvent, RemoveQueue
  <2>7. CASE LoseClient(k)
    <3>1. [at |-> "lost"] \in Handler
      BY DEF Handler
    <3> QED BY <2>2, <2>7, <3>1 DEF LoseClient, RemoveQueue
  <2> QED BY <1>4, <2>3, <2>4, <2>5, <2>6, <2>7 DEF ClientStep
<1>5. CASE UNCHANGED eventVars
  BY <1>5 DEF eventVars
<1> QED BY <1>3, <1>4, <1>5 DEF EventsNext

(* The generators, queues and handlers keep their types, whichever runs    *)
(* and clients share a queue: no handler takes an event from a queue that  *)
(* another has removed.                                                    *)
THEOREM EventsTypeCorrect == EventsSpec => []EventsTypeOK
  BY InitEvents, StepEvents, PTL DEF EventsSpec

-----------------------------------------------------------------------------
(* The services together.                                                  *)
(* The five services share no state, so that a step of one is a stutter of *)
(* the others.                                                             *)
LEMMA ServicesApart ==
  MCNext => \/ CorefNext /\ UNCHANGED <<syncVars, pruneVars, versionVars, eventVars>>
            \/ SyncNext /\ UNCHANGED <<corefVars, pruneVars, versionVars, eventVars>>
            \/ PruneNext /\ UNCHANGED <<corefVars, syncVars, versionVars, eventVars>>
            \/ VersionsNext /\ UNCHANGED <<corefVars, syncVars, pruneVars, eventVars>>
            \/ EventsNext /\ UNCHANGED <<corefVars, syncVars, pruneVars, versionVars>>
<1>1. ASSUME InCoref,
             \/ Tick \/ Clear
             \/ \E s \in SessionIds, u \in Users, l \in Languages :
                   Continue(s, u, l) \/ Create(s, u, l)
             \/ \E s \in SessionIds : Reset(s)
      PROVE  CorefNext /\ UNCHANGED <<syncVars, pruneVars, versionVars, eventVars>>
  BY <1>1 DEF InCoref, CorefNext
<1>2. ASSUME InSync,
             \/ \E r \in Requests :
                   \/ Admit(r) \/ Launch(r) \/ Start(r) \/ Finish(r) \/ MarkFailed(r)
                   \/ \E d \in Datasets : \/ Diff(r, d) \/ Upload(r, d) \/ Download(r, d)
                                          \/ FailDataset(r, d)
             \/ AddItem \/ Crash
      PROVE  SyncNext /\ UNCHANGED <<corefVars, pruneVars, versionVars, eventVars>>
  BY <1>2 DEF InSync, SyncNext, Step
<1>3. ASSUME InPrune,
             \/ \E r \in PruneRequests :
                   CheckCooldown(r) \/ RefusePipelines(r) \/ Enter(r) \/ Leave(r)
             \/ Expire \/ EndCooldown \/ KillWorker \/ TogglePipelines
      PROVE  PruneNext /\ UNCHANGED <<corefVars, syncVars, versionVars, eventVars>>
  BY <1>3 DEF InPrune, PruneNext
<1>4. ASSUME InProcs,
             \E b \in Batches :
                 \/ Route(b) \/ Persist(b) \/ Abandon(b)
                 \/ \E k \in 1 .. Width :
                       \/ Decide(b, k) \/ WriteCreateNew(b, k)
                       \/ WritePatch(b, k) \/ WriteNewVersion(b, k)
      PROVE  VersionsNext /\ UNCHANGED <<corefVars, syncVars, pruneVars, eventVars>>
  BY <1>4 DEF InProcs, VersionsNext
<1>5. ASSUME InEvents, (\E c \in BackgroundCalls : CallStep(c)) \/ (\E k \in Clients : ClientStep(k))
      PROVE  EventsNext /\ UNCHANGED <<corefVars, syncVars, pruneVars, versionVars>>
  BY <1>5 DEF InEvents, EventsNext
<1>6. MCNext =>
        \/ InCoref /\ (\/ Tick \/ Clear
                       \/ \E s \in SessionIds, u \in Users, l \in Languages :
                             Continue(s, u, l) \/ Create(s, u, l)
                       \/ \E s \in SessionIds : Reset(s))
        \/ InSync /\ (\/ \E r \in Requests :
                           \/ Admit(r) \/ Launch(r) \/ Start(r) \/ Finish(r) \/ MarkFailed(r)
                           \/ \E d \in Datasets : \/ Diff(r, d) \/ Upload(r, d) \/ Download(r, d)
                                                  \/ FailDataset(r, d)
                      \/ AddItem \/ Crash)
        \/ InPrune /\ (\/ \E r \in PruneRequests :
                            CheckCooldown(r) \/ RefusePipelines(r) \/ Enter(r) \/ Leave(r)
                       \/ Expire \/ EndCooldown \/ KillWorker \/ TogglePipelines)
        \/ InProcs /\ \E b \in Batches :
                         \/ Route(b) \/ Persist(b) \/ Abandon(b)
                         \/ \E k \in 1 .. Width : \/ Decide(b, k) \/ WriteCreateNew(b, k)
                                                  \/ WritePatch(b, k) \/ WriteNewVersion(b, k)
        \/ InEvents /\ (\/ \E c \in BackgroundCalls : CallStep(c)
                        \/ \E k \in Clients : ClientStep(k))
  BY DEF MCNext, CallStep, ClientStep
<1> QED BY <1>1, <1>2, <1>3, <1>4, <1>5, <1>6

ServicesInv == OrderInv /\ SyncInv /\ PruneInv /\ VersionsInv /\ EventsTypeOK

LEMMA InitServices == MCInit => ServicesInv
<1>1. MCInit => CorefInit /\ SyncInit /\ PruneInit /\ VersionsInit /\ EventsInit
  BY DEF MCInit
<1> QED BY <1>1, InitOrder, InitSync, InitPrune, InitVersions, InitEvents DEF ServicesInv

LEMMA StepServices == ServicesInv /\ [MCNext]_vars => ServicesInv'
<1>1. [MCNext]_vars => /\ [CorefNext]_corefVars /\ [SyncNext]_syncVars /\ [PruneNext]_pruneVars
                       /\ [VersionsNext]_versionVars /\ [EventsNext]_eventVars
  BY ServicesApart DEF vars
<1> QED BY <1>1, StepOrder, StepSync, StepPrune, StepVersions, StepEvents DEF ServicesInv

(* What holds of each service alone holds of them together: the run of the *)
(* services checks an instance of this.                                    *)
THEOREM ServicesTypeCorrect == MCSpec => []ServicesTypeOK
<1>1. ServicesInv => ServicesTypeOK
  <2>1. OrderInv => CorefTypeOK
    BY OrderTypes
  <2>2. SyncInv => SyncTypeOK
    BY SyncTypes
  <2>3. PruneInv => PruneTypeOK
    BY DEF PruneInv
  <2>4. VersionsInv => VersionsTypeOK
    BY DEF VersionsInv
  <2> QED BY <2>1, <2>2, <2>3, <2>4 DEF ServicesInv, ServicesTypeOK
<1> QED BY <1>1, InitServices, StepServices, PTL DEF MCSpec

=============================================================================
