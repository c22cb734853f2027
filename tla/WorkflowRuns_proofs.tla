------------------------ MODULE WorkflowRuns_proofs ------------------------
(***************************************************************************)
(* Safety of WorkflowRuns for any number of calls and items.               *)
(***************************************************************************)
EXTENDS WorkflowRuns, TLAPS

\* Every way of leaving or moving on in a call keeps its locals well typed.
LEMMA LocalsTyped ==
  ASSUME TypeOK, NEW c \in Calls,
         Forget(c) \/ EnterMemorize(c) \/ ReturnFromPipeline(c)
           \/ RaiseFromPipeline(c)
  PROVE  /\ pc' \in [Calls -> Locations]
         /\ req' \in [Calls -> Requests]
         /\ wf' \in [Calls -> Workflows]
         /\ toReset' \in [Calls -> SUBSET Workflows]
         /\ batch' \in [Calls -> SUBSET Items]
         /\ todo' \in [Calls -> SUBSET Items]
         /\ failed' \in [Calls -> BOOLEAN]
         /\ held' \in [Calls -> BOOLEAN]
<1>1. NoRequest \in Requests
  BY DEF NoRequest, Requests, ConflictModes
<1>2. CASE Forget(c)
  BY <1>1, <1>2 DEF TypeOK, Forget, Locations, Workflows, AddWf
<1>3. CASE EnterMemorize(c)
  BY <1>3 DEF TypeOK, EnterMemorize, Locations, Workflows, MemWf
<1>4. CASE ReturnFromPipeline(c)
  BY <1>2, <1>3, <1>4 DEF TypeOK, ReturnFromPipeline, Locations
<1>5. CASE RaiseFromPipeline(c)
  BY <1>2, <1>5 DEF TypeOK, RaiseFromPipeline, Locations
<1> QED BY <1>2, <1>3, <1>4, <1>5

\* An INSERT keeps the tables well typed.
LEMMA TablesTyped ==
  ASSUME TypeOK, NEW w \in Workflows, NEW s \in RunStatus, AppendRow(w, s)
  PROVE  latest' \in [Workflows -> RunStatus] /\ orphaned' \subseteq Workflows
BY DEF TypeOK, AppendRow

LEMMA TypeStep == TypeOK /\ [Next]_vars => TypeOK'
<1> SUFFICES ASSUME TypeOK, [Next]_vars PROVE TypeOK'
  OBVIOUS
<1> USE DEF tables, locals, strays, Locations
<1>a. {"INITIATED", "STARTED", "COMPLETED", "ERRORED"} \subseteq RunStatus
  BY DEF RunStatus
<1>b. ASSUME NEW c \in Calls PROVE wf[c] \in Workflows
  BY DEF TypeOK
<1>1. ASSUME NEW c \in Calls, BeginAdd(c) PROVE TypeOK'
  <2>1. req' \in [Calls -> Requests]
    BY <1>1 DEF BeginAdd, TypeOK, AddRequests
  <2>2. Resettable \subseteq Workflows
    BY DEF Resettable
  <2>3. req'[c].payload \subseteq Items
    BY <2>1 DEF Requests
  <2> QED BY <1>1, <2>1, <2>2, <2>3 DEF BeginAdd, TypeOK
<1>2. ASSUME NEW c \in Calls, BeginMemorize(c) PROVE TypeOK'
  <2>1. req' \in [Calls -> Requests]
    BY <1>2 DEF BeginMemorize, TypeOK, MemorizeRequests
  <2> QED BY <1>2, <2>1 DEF BeginMemorize, TypeOK, Workflows
<1>3. ASSUME NEW c \in Calls, ResetStatus(c) PROVE TypeOK'
  <2> PICK w \in toReset[c] : /\ AppendRow(w, "INITIATED")
                              /\ toReset' = [toReset EXCEPT ![c] = @ \ {w}]
    BY <1>3 DEF ResetStatus
  <2>1. w \in Workflows
    BY DEF TypeOK
  <2> QED BY <1>3, <1>a, <2>1, TablesTyped DEF ResetStatus, TypeOK
<1>4. ASSUME NEW c \in Calls, Register(c) PROVE TypeOK'
  BY <1>4 DEF Register, TypeOK
<1>5. ASSUME NEW c \in Calls, RefuseConflict(c) PROVE TypeOK'
  BY <1>5, LocalsTyped DEF RefuseConflict, TypeOK
<1>6. ASSUME NEW c \in Calls, FetchItems(c) PROVE TypeOK'
  BY <1>6 DEF FetchItems, TypeOK
<1>7. ASSUME NEW c \in Calls, SkipRun(c) PROVE TypeOK'
  BY <1>7, LocalsTyped DEF SkipRun, TypeOK
<1>8. ASSUME NEW c \in Calls, PassGate(c) PROVE TypeOK'
  BY <1>8 DEF PassGate, TypeOK
<1>9. ASSUME NEW c \in Calls, StartRun(c) PROVE TypeOK'
  BY <1>9, <1>a, <1>b, TablesTyped DEF StartRun, TypeOK
<1>10. ASSUME NEW c \in Calls, ReturnInBackground(c) PROVE TypeOK'
  BY <1>10 DEF ReturnInBackground, TypeOK
<1>11. ASSUME NEW c \in Calls, NEW i \in Items, ProcessItem(c, i) PROVE TypeOK'
  BY <1>11 DEF ProcessItem, TypeOK
<1>12. ASSUME NEW c \in Calls, NEW i \in Items, FailItem(c, i) PROVE TypeOK'
  BY <1>12 DEF FailItem, TypeOK
<1>13. ASSUME NEW c \in Calls, FinishRun(c) PROVE TypeOK'
  BY <1>13, <1>a, <1>b, TablesTyped DEF FinishRun, TypeOK
<1>14. ASSUME NEW c \in Calls, FailRun(c) PROVE TypeOK'
  BY <1>14, <1>a, <1>b, TablesTyped, LocalsTyped DEF FailRun, TypeOK
<1>15. ASSUME NEW c \in Calls, FlushRun(c) PROVE TypeOK'
  BY <1>15, LocalsTyped DEF FlushRun, TypeOK
<1>16. ASSUME NEW c \in Calls, AbortRun(c) PROVE TypeOK'
  <2>1. UNION {Leftovers(c)} \subseteq SUBSET (Workflows \X Items)
    BY <1>b DEF Leftovers, TypeOK
  <2>2. stray' \subseteq Workflows \X Items
    BY <1>16, <2>1 DEF AbortRun, TypeOK
  <2> QED
    BY <1>16, <2>2, <1>a, <1>b, TablesTyped, LocalsTyped DEF AbortRun, TypeOK
<1>17. ASSUME NEW c \in Calls, Leave(c) PROVE TypeOK'
  <2>1. req[c].payload \subseteq Items
    BY DEF TypeOK, Requests
  <2> QED BY <1>17, <2>1, LocalsTyped DEF Leave, TypeOK
<1>18. ASSUME NEW c \in Calls, Cancel(c) PROVE TypeOK'
  BY <1>18, LocalsTyped DEF Cancel, TypeOK, LeftOpen
<1>19. ASSUME Crash PROVE TypeOK'
  <2>1. NoRequest \in Requests
    BY DEF NoRequest, Requests, ConflictModes
  <2> QED BY <1>19, <2>1 DEF Crash, TypeOK, LeftOpen, Workflows, AddWf
<1>20. ASSUME NEW w \in Workflows, Dismiss(w) PROVE TypeOK'
  BY <1>20, <1>a, TablesTyped DEF Dismiss, TypeOK
<1>22. ASSUME NEW w \in Workflows, NEW i \in Items, FinishStray(w, i) PROVE TypeOK'
  BY <1>22 DEF FinishStray, TypeOK
<1>23. ASSUME NEW w \in Workflows, NEW i \in Items, LoseStray(w, i) PROVE TypeOK'
  BY <1>23 DEF LoseStray, TypeOK
<1>21. CASE UNCHANGED vars
  BY <1>21 DEF vars, TypeOK
<1> QED
  BY <1>1, <1>2, <1>3, <1>4, <1>5, <1>6, <1>7, <1>8, <1>9, <1>10, <1>11,
     <1>12, <1>13, <1>14, <1>15, <1>16, <1>17, <1>18, <1>19, <1>20, <1>21,
     <1>22, <1>23
  DEF Next, Begin, Step, Straggle, Disruption

\* All variables keep their types in every behaviour.
THEOREM TypeCorrect == Spec => []TypeOK
<1>1. Init => TypeOK
  <2>1. NoRequest \in Requests
    BY DEF NoRequest, Requests, ConflictModes
  <2> QED BY <2>1, ZenonT(40) DEF Init, TypeOK, RunStatus, Workflows, AddWf, Locations
<1> QED BY <1>1, TypeStep, PTL DEF Spec

-----------------------------------------------------------------------------
(* StartedHasOwner is inductive: whoever stops writing leaves a trace. *)

LEMMA OwnerStep == TypeOK /\ StartedHasOwner /\ [Next]_vars => StartedHasOwner'
<1> SUFFICES ASSUME TypeOK, StartedHasOwner, [Next]_vars,
                    NEW w \in Workflows, latest'[w] = "STARTED"
             PROVE  w \in orphaned' \/ \E c \in Calls : pc'[c] = "run" /\ wf'[c] = w
  BY DEF StartedHasOwner
<1> DEFINE Owned == w \in orphaned \/ \E c \in Calls : pc[c] = "run" /\ wf[c] = w
<1> USE DEF tables, locals, strays
\* A step that writes no row and touches no running call keeps the owner.
<1>0. ASSUME latest' = latest PROVE Owned
  BY <1>0 DEF StartedHasOwner
\* A row with another status cannot be the STARTED one.
<1>s. ASSUME NEW v \in Workflows, NEW s, s # "STARTED", AppendRow(v, s)
      PROVE  v # w /\ Owned /\ (w \in orphaned => w \in orphaned')
  BY <1>s DEF AppendRow, TypeOK, StartedHasOwner
<1>1. ASSUME NEW c \in Calls, BeginAdd(c) PROVE Owned'
  BY <1>1, <1>0 DEF BeginAdd, TypeOK
<1>2. ASSUME NEW c \in Calls, BeginMemorize(c) PROVE Owned'
  BY <1>2, <1>0 DEF BeginMemorize, TypeOK
<1>3. ASSUME NEW c \in Calls, ResetStatus(c) PROVE Owned'
  <2> PICK v \in toReset[c] : AppendRow(v, "INITIATED")
    BY <1>3 DEF ResetStatus
  <2>1. v \in Workflows
    BY DEF TypeOK
  <2> QED BY <1>3, <1>s, <2>1 DEF ResetStatus, TypeOK
<1>4. ASSUME NEW c \in Calls, Register(c) PROVE Owned'
  BY <1>4, <1>0 DEF Register, TypeOK
<1>5. ASSUME NEW c \in Calls, RefuseConflict(c) PROVE Owned'
  BY <1>5, <1>0 DEF RefuseConflict, TypeOK, Forget
<1>6. ASSUME NEW c \in Calls, FetchItems(c) PROVE Owned'
  BY <1>6, <1>0 DEF FetchItems, TypeOK
<1>7. ASSUME NEW c \in Calls, SkipRun(c) PROVE Owned'
  BY <1>7, <1>0 DEF SkipRun, TypeOK, ReturnFromPipeline, EnterMemorize, Forget
<1>8. ASSUME NEW c \in Calls, PassGate(c) PROVE Owned'
  BY <1>8, <1>0 DEF PassGate, TypeOK
<1>9. ASSUME NEW c \in Calls, StartRun(c) PROVE Owned'
  <2>1. CASE w = wf[c]
    BY <1>9, <2>1 DEF StartRun, TypeOK
  <2>2. CASE w # wf[c]
    BY <1>9, <2>2 DEF StartRun, AppendRow, TypeOK, StartedHasOwner
  <2> QED BY <2>1, <2>2
<1>10. ASSUME NEW c \in Calls, ReturnInBackground(c) PROVE Owned'
  BY <1>10, <1>0 DEF ReturnInBackground, TypeOK
<1>11. ASSUME NEW c \in Calls, NEW i \in Items, ProcessItem(c, i) PROVE Owned'
  BY <1>11, <1>0 DEF ProcessItem, TypeOK
<1>12. ASSUME NEW c \in Calls, NEW i \in Items, FailItem(c, i) PROVE Owned'
  BY <1>12, <1>0 DEF FailItem, TypeOK
<1>13. ASSUME NEW c \in Calls, FinishRun(c) PROVE Owned'
  BY <1>13, <1>s DEF FinishRun, TypeOK
<1>14. ASSUME NEW c \in Calls, FailRun(c) PROVE Owned'
  BY <1>14, <1>s DEF FailRun, TypeOK, ReturnFromPipeline, EnterMemorize, Forget
<1>15. ASSUME NEW c \in Calls, FlushRun(c) PROVE Owned'
  BY <1>15, <1>0 DEF FlushRun, TypeOK, ReturnFromPipeline, EnterMemorize, Forget
<1>16. ASSUME NEW c \in Calls, AbortRun(c) PROVE Owned'
  BY <1>16, <1>s DEF AbortRun, TypeOK, RaiseFromPipeline, Forget
<1>17. ASSUME NEW c \in Calls, Leave(c) PROVE Owned'
  BY <1>17, <1>0 DEF Leave, TypeOK, Forget
<1>18. ASSUME NEW c \in Calls, Cancel(c) PROVE Owned'
  BY <1>18, <1>0 DEF Cancel, TypeOK, Forget, LeftOpen
<1>19. ASSUME Crash PROVE Owned'
  BY <1>19, <1>0 DEF Crash, TypeOK, LeftOpen
<1>20. ASSUME NEW v \in Workflows, Dismiss(v) PROVE Owned'
  BY <1>20, <1>s DEF Dismiss, TypeOK
<1>22. ASSUME NEW v \in Workflows, NEW i \in Items, FinishStray(v, i) PROVE Owned'
  BY <1>22, <1>0 DEF FinishStray
<1>23. ASSUME NEW v \in Workflows, NEW i \in Items, LoseStray(v, i) PROVE Owned'
  BY <1>23, <1>0 DEF LoseStray
<1>21. CASE UNCHANGED vars
  BY <1>21, <1>0 DEF vars
<1> QED
  BY <1>1, <1>2, <1>3, <1>4, <1>5, <1>6, <1>7, <1>8, <1>9, <1>10, <1>11,
     <1>12, <1>13, <1>14, <1>15, <1>16, <1>17, <1>18, <1>19, <1>20, <1>21,
     <1>22, <1>23
  DEF Next, Begin, Step, Straggle, Disruption

\* A newest row saying STARTED has a live run behind it, or the run that
\* wrote it was cancelled or died.
THEOREM StartedAlwaysHasOwner == Spec => []StartedHasOwner
<1>1. Init => StartedHasOwner
  BY DEF Init, StartedHasOwner
<1> QED BY <1>1, OwnerStep, TypeCorrect, PTL DEF Spec

-----------------------------------------------------------------------------
(* What a run has done so far, and what its COMPLETED row then says. *)

RunInv ==
  \A c \in Calls :
    /\ pc[c] \notin {"run", "leave"} => ~failed[c]
    /\ pc[c] \in {"reset", "gate", "start", "restart"} => todo[c] = batch[c]
    /\ pc[c] = "finished" => todo[c] = {}
    /\ pc[c] \in {"run", "finished"} /\ ~failed[c] =>
         batch[c] \ todo[c] \subseteq IF wf[c] = MemWf THEN memorized ELSE dataset

LEMMA RunStep == TypeOK /\ RunInv /\ [Next]_vars => RunInv'
<1> SUFFICES ASSUME TypeOK, RunInv, [Next]_vars PROVE RunInv'
  OBVIOUS
<1> USE DEF tables, locals, strays
<1>1. ASSUME NEW c \in Calls, BeginAdd(c) PROVE RunInv'
  BY <1>1 DEF BeginAdd, RunInv, TypeOK
<1>2. ASSUME NEW c \in Calls, BeginMemorize(c) PROVE RunInv'
  BY <1>2 DEF BeginMemorize, RunInv, TypeOK
<1>3. ASSUME NEW c \in Calls, ResetStatus(c) PROVE RunInv'
  BY <1>3 DEF ResetStatus, AppendRow, RunInv, TypeOK
<1>4. ASSUME NEW c \in Calls, Register(c) PROVE RunInv'
  BY <1>4 DEF Register, RunInv, TypeOK
<1>5. ASSUME NEW c \in Calls, RefuseConflict(c) PROVE RunInv'
  BY <1>5 DEF RefuseConflict, Forget, RunInv, TypeOK
<1>6. ASSUME NEW c \in Calls, FetchItems(c) PROVE RunInv'
  BY <1>6 DEF FetchItems, RunInv, TypeOK
<1>7. ASSUME NEW c \in Calls, SkipRun(c) PROVE RunInv'
  BY <1>7 DEF SkipRun, ReturnFromPipeline, EnterMemorize, Forget, RunInv, TypeOK
<1>8. ASSUME NEW c \in Calls, PassGate(c) PROVE RunInv'
  BY <1>8 DEF PassGate, RunInv, TypeOK
<1>9. ASSUME NEW c \in Calls, StartRun(c) PROVE RunInv'
  BY <1>9 DEF StartRun, AppendRow, RunInv, TypeOK
<1>10. ASSUME NEW c \in Calls, ReturnInBackground(c) PROVE RunInv'
  BY <1>10 DEF ReturnInBackground, RunInv, TypeOK
<1>11. ASSUME NEW c \in Calls, NEW i \in Items, ProcessItem(c, i) PROVE RunInv'
  <2>1. memorized \subseteq memorized' /\ dataset \subseteq dataset'
    BY <1>11 DEF ProcessItem
  <2>2. i \in IF wf[c] = MemWf THEN memorized' ELSE dataset'
    BY <1>11 DEF ProcessItem, TypeOK, Workflows, AddWf, MemWf
  <2>3. /\ UNCHANGED <<pc, wf, batch, failed>>
        /\ pc[c] = "run"
        /\ todo' = [todo EXCEPT ![c] = @ \ {i}]
    BY <1>11 DEF ProcessItem
  <2> QED BY <2>1, <2>2, <2>3 DEF RunInv, TypeOK
<1>12. ASSUME NEW c \in Calls, NEW i \in Items, FailItem(c, i) PROVE RunInv'
  BY <1>12 DEF FailItem, RunInv, TypeOK
<1>13. ASSUME NEW c \in Calls, FinishRun(c) PROVE RunInv'
  BY <1>13 DEF FinishRun, AppendRow, RunInv, TypeOK
<1>14. ASSUME NEW c \in Calls, FailRun(c) PROVE RunInv'
  BY <1>14 DEF FailRun, AppendRow, ReturnFromPipeline, EnterMemorize, Forget, RunInv, TypeOK
<1>15. ASSUME NEW c \in Calls, FlushRun(c) PROVE RunInv'
  BY <1>15 DEF FlushRun, ReturnFromPipeline, EnterMemorize, Forget, RunInv, TypeOK
<1>16. ASSUME NEW c \in Calls, AbortRun(c) PROVE RunInv'
  BY <1>16 DEF AbortRun, AppendRow, RaiseFromPipeline, Forget, RunInv, TypeOK
<1>17. ASSUME NEW c \in Calls, Leave(c) PROVE RunInv'
  BY <1>17 DEF Leave, Forget, RunInv, TypeOK
<1>18. ASSUME NEW c \in Calls, Cancel(c) PROVE RunInv'
  BY <1>18 DEF Cancel, Forget, RunInv, TypeOK
<1>19. ASSUME Crash PROVE RunInv'
  BY <1>19 DEF Crash, RunInv, TypeOK
<1>20. ASSUME NEW w \in Workflows, Dismiss(w) PROVE RunInv'
  BY <1>20 DEF Dismiss, AppendRow, RunInv, TypeOK
<1>22. ASSUME NEW w \in Workflows, NEW i \in Items, FinishStray(w, i) PROVE RunInv'
  BY <1>22 DEF FinishStray, RunInv
<1>23. ASSUME NEW w \in Workflows, NEW i \in Items, LoseStray(w, i) PROVE RunInv'
  BY <1>23 DEF LoseStray, RunInv
<1>21. CASE UNCHANGED vars
  BY <1>21 DEF vars, RunInv, TypeOK
<1> QED
  BY <1>1, <1>2, <1>3, <1>4, <1>5, <1>6, <1>7, <1>8, <1>9, <1>10, <1>11,
     <1>12, <1>13, <1>14, <1>15, <1>16, <1>17, <1>18, <1>19, <1>20, <1>21,
     <1>22, <1>23
  DEF Next, Begin, Step, Straggle, Disruption

\* COMPLETED is only written over a fully processed batch.
THEOREM CompletedAlwaysCoversBatch == Spec => []CompletedCoversBatch
<1>1. Init => RunInv
  BY DEF Init, RunInv
<1>2. RunInv => CompletedCoversBatch
  BY DEF RunInv, CompletedCoversBatch
<1> QED BY <1>1, <1>2, RunStep, TypeCorrect, PTL DEF Spec


-----------------------------------------------------------------------------
(* The registry in conflict mode "error" without background runs *)

Strict == Modes = {"error"} /\ Backgrounds = {FALSE}

Memorizing(c) == wf[c] = MemWf /\ pc[c] \notin {"idle", "register"}

ExclusiveInv ==
  /\ \A c \in Calls :
       /\ pc[c] \in {"idle", "reset"} => wf[c] = AddWf
       /\ pc[c] = "register" => wf[c] = MemWf
       /\ pc[c] # "idle" /\ (wf[c] = MemWf \/ req[c].op = "ingest") =>
            req[c].mode = "error" /\ ~req[c].background
       /\ held[c] <=> Memorizing(c)
       /\ Memorizing(c) => active
  /\ \A c, d \in Calls : Memorizing(c) /\ Memorizing(d) => c = d

LEMMA ExclusiveStep ==
  ASSUME Strict PROVE TypeOK /\ ExclusiveInv /\ [Next]_vars => ExclusiveInv'
<1> SUFFICES ASSUME TypeOK, ExclusiveInv, [Next]_vars PROVE ExclusiveInv'
  OBVIOUS
<1> USE DEF tables, locals, strays
<1>w. AddWf # MemWf
  BY DEF AddWf, MemWf
<1>1. ASSUME NEW c \in Calls, BeginAdd(c) PROVE ExclusiveInv'
  <2>1. PICK r \in AddRequests : req' = [req EXCEPT ![c] = r]
    BY <1>1 DEF BeginAdd
  <2>2. r.op = "ingest" => r.mode = "error" /\ ~r.background
    BY DEF AddRequests, Requests, Strict
  <2>3. /\ pc[c] = "idle"
        /\ pc'[c] \in {"gate", "reset"}
        /\ \A d \in Calls \ {c} : pc'[d] = pc[d]
        /\ UNCHANGED <<wf, held, active>>
    BY <1>1 DEF BeginAdd, TypeOK
  <2> QED BY <2>1, <2>2, <2>3, <1>w DEF ExclusiveInv, Memorizing, TypeOK
<1>2. ASSUME NEW c \in Calls, BeginMemorize(c) PROVE ExclusiveInv'
  <2>1. PICK r \in MemorizeRequests : req' = [req EXCEPT ![c] = r]
    BY <1>2 DEF BeginMemorize
  <2>2. r.mode = "error" /\ ~r.background
    BY DEF MemorizeRequests, Requests, Strict
  <2> QED BY <1>2, <2>1, <2>2, <1>w DEF BeginMemorize, ExclusiveInv, Memorizing, TypeOK
<1>3. ASSUME NEW c \in Calls, ResetStatus(c) PROVE ExclusiveInv'
  BY <1>3, <1>w DEF ResetStatus, AppendRow, ExclusiveInv, Memorizing, TypeOK
<1>4. ASSUME NEW c \in Calls, Register(c) PROVE ExclusiveInv'
  <2>1. pc[c] = "register" /\ wf[c] = MemWf
    BY <1>4, <1>w DEF Register, ExclusiveInv
  <2>2. req[c].mode = "error" /\ ~active
    BY <1>4, <2>1 DEF Register, ExclusiveInv
  <2>3. /\ pc' = [pc EXCEPT ![c] = "fetch"]
        /\ UNCHANGED <<req, wf>>
        /\ active' /\ held'[c]
        /\ \A d \in Calls \ {c} : held'[d] = held[d]
    BY <1>4, <2>2 DEF Register, TypeOK
  <2>4. \A d \in Calls : ~Memorizing(d)
    BY <2>2 DEF ExclusiveInv
  <2> QED BY <2>1, <2>2, <2>3, <2>4, <1>w DEF ExclusiveInv, Memorizing, TypeOK
<1>5. ASSUME NEW c \in Calls, RefuseConflict(c) PROVE ExclusiveInv'
  BY <1>5, <1>w DEF RefuseConflict, Forget, ExclusiveInv, Memorizing, TypeOK
<1>6. ASSUME NEW c \in Calls, FetchItems(c) PROVE ExclusiveInv'
  BY <1>6 DEF FetchItems, ExclusiveInv, Memorizing, TypeOK
<1>7. ASSUME NEW c \in Calls, SkipRun(c) PROVE ExclusiveInv'
  BY <1>7, <1>w DEF SkipRun, ReturnFromPipeline, EnterMemorize, Forget, ExclusiveInv, Memorizing, TypeOK
<1>8. ASSUME NEW c \in Calls, PassGate(c) PROVE ExclusiveInv'
  BY <1>8 DEF PassGate, ExclusiveInv, Memorizing, TypeOK
<1>9. ASSUME NEW c \in Calls, StartRun(c) PROVE ExclusiveInv'
  BY <1>9 DEF StartRun, AppendRow, ExclusiveInv, Memorizing, TypeOK
<1>10. ASSUME NEW c \in Calls, ReturnInBackground(c) PROVE ExclusiveInv'
  BY <1>10 DEF ReturnInBackground, ExclusiveInv, Memorizing, TypeOK
<1>11. ASSUME NEW c \in Calls, NEW i \in Items, ProcessItem(c, i) PROVE ExclusiveInv'
  BY <1>11 DEF ProcessItem, ExclusiveInv, Memorizing, TypeOK
<1>12. ASSUME NEW c \in Calls, NEW i \in Items, FailItem(c, i) PROVE ExclusiveInv'
  BY <1>12 DEF FailItem, ExclusiveInv, Memorizing, TypeOK
<1>13. ASSUME NEW c \in Calls, FinishRun(c) PROVE ExclusiveInv'
  BY <1>13 DEF FinishRun, AppendRow, ExclusiveInv, Memorizing, TypeOK
<1>14. ASSUME NEW c \in Calls, FailRun(c) PROVE ExclusiveInv'
  BY <1>14, <1>w DEF FailRun, AppendRow, ReturnFromPipeline, EnterMemorize, Forget, ExclusiveInv, Memorizing, TypeOK
<1>15. ASSUME NEW c \in Calls, FlushRun(c) PROVE ExclusiveInv'
  BY <1>15, <1>w DEF FlushRun, ReturnFromPipeline, EnterMemorize, Forget, ExclusiveInv, Memorizing, TypeOK
<1>16. ASSUME NEW c \in Calls, AbortRun(c) PROVE ExclusiveInv'
  <2>1. RaiseFromPipeline(c) /\ active' = active /\ pc[c] \in {"run", "finished"}
    BY <1>16 DEF AbortRun
  <2> QED BY <2>1, <1>w DEF RaiseFromPipeline, Forget, ExclusiveInv, Memorizing, TypeOK
<1>17. ASSUME NEW c \in Calls, Leave(c) PROVE ExclusiveInv'
  BY <1>17, <1>w DEF Leave, Forget, ExclusiveInv, Memorizing, TypeOK
<1>18. ASSUME NEW c \in Calls, Cancel(c) PROVE ExclusiveInv'
  BY <1>18, <1>w DEF Cancel, Forget, ExclusiveInv, Memorizing, TypeOK
<1>19. ASSUME Crash PROVE ExclusiveInv'
  BY <1>19, <1>w DEF Crash, ExclusiveInv, Memorizing, TypeOK
<1>20. ASSUME NEW w \in Workflows, Dismiss(w) PROVE ExclusiveInv'
  BY <1>20 DEF Dismiss, AppendRow, ExclusiveInv, Memorizing, TypeOK
<1>22. ASSUME NEW w \in Workflows, NEW i \in Items, FinishStray(w, i) PROVE ExclusiveInv'
  BY <1>22 DEF FinishStray, ExclusiveInv, Memorizing
<1>23. ASSUME NEW w \in Workflows, NEW i \in Items, LoseStray(w, i) PROVE ExclusiveInv'
  BY <1>23 DEF LoseStray, ExclusiveInv, Memorizing
<1>21. CASE UNCHANGED vars
  BY <1>21 DEF vars, ExclusiveInv, Memorizing, TypeOK
<1> QED
  BY <1>1, <1>2, <1>3, <1>4, <1>5, <1>6, <1>7, <1>8, <1>9, <1>10, <1>11,
     <1>12, <1>13, <1>14, <1>15, <1>16, <1>17, <1>18, <1>19, <1>20, <1>21,
     <1>22, <1>23
  DEF Next, Begin, Step, Straggle, Disruption

\* Conflict mode "error" makes memorize() exclusive when nobody runs in the
\* background or asks for another mode.
THEOREM ErrorModeAlwaysExclusive == Spec => []ErrorModeIsExclusive
<1>1. CASE Strict
  <2>1. Init => ExclusiveInv
    BY DEF Init, ExclusiveInv, Memorizing, AddWf, MemWf
  <2>2. ExclusiveInv => ErrorModeIsExclusive
    BY DEF ExclusiveInv, ErrorModeIsExclusive, Memorizing
  <2>3. TypeOK /\ ExclusiveInv /\ [Next]_vars => ExclusiveInv'
    BY <1>1, ExclusiveStep
  <2> QED BY <2>1, <2>2, <2>3, TypeCorrect, PTL DEF Spec
<1>2. CASE ~Strict
  <2>1. ErrorModeIsExclusive
    BY <1>2 DEF Strict, ErrorModeIsExclusive
  <2> QED BY <2>1, PTL
<1> QED BY <1>1, <1>2

-----------------------------------------------------------------------------
(* Calls that do not overlap *)

\* What holds of the call in flight when there is only one.
AloneInv(c) ==
  /\ pc[c] \in {"idle", "reset"} => wf[c] = AddWf
  /\ pc[c] \in {"register", "fetch"} => wf[c] = MemWf
  \* the cache cannot hit what add() has reset, or is about to reset
  /\ pc[c] = "reset" => \A w \in Workflows : CacheHit(w) => w \in toReset[c]
  /\ wf[c] = AddWf /\ pc[c] = "gate" => ~CacheHit(AddWf) /\ ~CacheHit(MemWf)
  /\ wf[c] = AddWf /\ pc[c] \in {"start", "restart", "run", "finished"} =>
       ~CacheHit(MemWf)
  /\ wf[c] = MemWf /\ req[c].op = "ingest" /\ pc[c] \in {"register", "fetch", "gate"} =>
       ~CacheHit(MemWf)
  \* only a coroutine that outlived its run adds an item behind a run's back
  /\ wf[c] = MemWf /\ pc[c] \in {"gate", "start", "restart", "run", "finished"} =>
       dataset \subseteq batch[c] \cup late
  \* the payload of ingest() is in the dataset once add() returned
  /\ RaiseErrors => (failed[c] => pc[c] = "leave")
  /\ pc[c] # "idle" /\ wf[c] = AddWf => batch[c] = req[c].payload
  /\ pc[c] # "idle" /\ wf[c] = MemWf /\ RaiseErrors => req[c].payload \subseteq dataset
  /\ /\ wf[c] = MemWf /\ RaiseErrors
     /\ pc[c] \in {"gate", "start", "restart", "run", "finished"}
     => req[c].payload \subseteq batch[c]
  /\ pc[c] = "leave" => wf[c] = MemWf
  /\ /\ pc[c] = "leave" /\ req[c].op = "ingest" /\ ~req[c].background
     /\ ~failed[c] /\ RaiseErrors
     => req[c].payload \subseteq memorized

AtMostOne == \A c, d \in Calls : pc[c] # "idle" /\ pc[d] # "idle" => c = d

SeqInv ==
  ~overlapped =>
    /\ AtMostOne
    /\ \A c \in Calls : AloneInv(c)
    /\ latest[MemWf] = "COMPLETED" => dataset \subseteq memorized \cup late
    /\ RaiseErrors => promised \subseteq memorized

\* The three places a pipeline that ended without raising can lead to.
LEMMA ReturnPlaces ==
  ASSUME TypeOK, NEW c \in Calls, ReturnFromPipeline(c)
  PROVE  \/ Forget(c)
         \/ EnterMemorize(c) /\ wf[c] = AddWf /\ req[c].op = "ingest"
         \/ /\ wf[c] = MemWf
            /\ pc' = [pc EXCEPT ![c] = "leave"]
            /\ failed' = [failed EXCEPT ![c] = FALSE]
            /\ UNCHANGED <<req, wf, toReset, batch, todo, held>>
BY DEF TypeOK, Workflows, ReturnFromPipeline

\* A call that is gone satisfies its invariant.
LEMMA ForgetAlone ==
  ASSUME TypeOK, NEW c \in Calls, Forget(c) PROVE AloneInv(c)'
<1>1. pc'[c] = "idle" /\ wf'[c] = AddWf /\ failed'[c] = FALSE
  BY DEF TypeOK, Forget
<1> QED BY <1>1 DEF AloneInv, AddWf, MemWf

\* A step of the one call in flight only has to be checked for that call.
LEMMA SeqFrame ==
  ASSUME TypeOK, SeqInv, ~overlapped, NEW c \in Calls, pc[c] # "idle",
         \A d \in Calls \ {c} :
           pc'[d] = pc[d] /\ wf'[d] = wf[d] /\ failed'[d] = failed[d],
         AloneInv(c)',
         latest'[MemWf] = "COMPLETED" => dataset' \subseteq memorized' \cup late',
         RaiseErrors => promised' \subseteq memorized'
  PROVE  SeqInv'
<1>1. \A d \in Calls \ {c} : pc'[d] = "idle" /\ AloneInv(d)
  BY DEF SeqInv, AtMostOne
<1>2. \A d \in Calls \ {c} : wf'[d] = AddWf /\ (RaiseErrors => ~failed'[d])
  BY <1>1 DEF AloneInv
<1>3. AddWf # MemWf
  BY DEF AddWf, MemWf
<1>4. ASSUME NEW d \in Calls \ {c} PROVE AloneInv(d)'
  BY <1>1, <1>2, <1>3 DEF AloneInv
<1>5. AtMostOne'
  BY <1>1 DEF AtMostOne
<1> QED BY <1>4, <1>5 DEF SeqInv

LEMMA SeqStep == TypeOK /\ RunInv /\ SeqInv /\ [Next]_vars => SeqInv'
<1> SUFFICES ASSUME TypeOK, RunInv, SeqInv, [Next]_vars, ~overlapped' PROVE SeqInv'
  BY DEF SeqInv
<1> USE DEF tables, locals, strays
<1>w. AddWf # MemWf /\ AddWf \in Workflows /\ MemWf \in Workflows
  BY DEF AddWf, MemWf, Workflows
<1>o. ~overlapped
  <2>1. ASSUME NEW c \in Calls, Begin(c) PROVE ~overlapped
    BY <2>1 DEF Begin, BeginAdd, BeginMemorize
  <2>2. ASSUME NEW c \in Calls, Step(c) PROVE UNCHANGED overlapped
    <3>1. ASSUME NEW i \in Items, ProcessItem(c, i) \/ FailItem(c, i)
          PROVE  UNCHANGED overlapped
      BY <3>1 DEF ProcessItem, FailItem
    <3>2. ASSUME \/ ResetStatus(c) \/ Register(c) \/ RefuseConflict(c)
                 \/ FetchItems(c) \/ SkipRun(c) \/ PassGate(c)
          PROVE  UNCHANGED overlapped
      BY <3>2 DEF ResetStatus, Register, RefuseConflict, FetchItems, SkipRun, PassGate
    <3>3. ASSUME \/ StartRun(c) \/ ReturnInBackground(c) \/ FinishRun(c) \/ FailRun(c)
                 \/ FlushRun(c) \/ AbortRun(c) \/ Leave(c)
          PROVE  UNCHANGED overlapped
      BY <3>3 DEF StartRun, ReturnInBackground, FinishRun, FailRun, FlushRun, AbortRun, Leave
    <3> QED BY <2>2, <3>1, <3>2, <3>3 DEF Step
  <2>3. ASSUME Straggle PROVE UNCHANGED overlapped
    BY <2>3 DEF Straggle, FinishStray, LoseStray
  <2>4. ASSUME Disruption PROVE UNCHANGED overlapped
    BY <2>4 DEF Disruption, Cancel, Crash, Dismiss
  <2>5. ASSUME UNCHANGED vars PROVE UNCHANGED overlapped
    BY <2>5 DEF vars
  <2> QED BY <2>1, <2>2, <2>3, <2>4, <2>5 DEF Next
<1>i. /\ AtMostOne
      /\ \A c \in Calls : AloneInv(c)
      /\ latest[MemWf] = "COMPLETED" => dataset \subseteq memorized \cup late
      /\ RaiseErrors => promised \subseteq memorized
  BY <1>o DEF SeqInv
<1>1. ASSUME NEW c \in Calls, BeginAdd(c) PROVE SeqInv'
  <2>1. \A d \in Calls : pc[d] = "idle"
    BY <1>1 DEF BeginAdd, InFlight
  <2>2. PICK r \in AddRequests : req' = [req EXCEPT ![c] = r]
    BY <1>1 DEF BeginAdd
  <2>3. /\ wf' = wf /\ failed' = failed /\ latest' = latest
        /\ dataset' = dataset /\ memorized' = memorized /\ promised' = promised
        /\ late' = late
        /\ batch'[c] = req'[c].payload
        /\ toReset'[c] = Resettable
        /\ pc' = [pc EXCEPT ![c] = IF Resettable = {} THEN "gate" ELSE "reset"]
    BY <1>1 DEF BeginAdd, TypeOK
  <2>4. \A w \in Workflows : CacheHit(w) => w \in Resettable
    BY DEF CacheHit, Resettable
  <2>5. \A w \in Workflows : CacheHit(w)' = CacheHit(w)
    BY <2>3 DEF CacheHit
  <2>6. AloneInv(c)'
    BY <1>w, <1>i, <2>1, <2>3, <2>4, <2>5 DEF AloneInv, TypeOK
  <2>7. \A d \in Calls \ {c} : AloneInv(d)'
    BY <1>w, <1>i, <2>1, <2>3 DEF AloneInv, TypeOK
  <2>8. AtMostOne'
    BY <2>1, <2>3 DEF AtMostOne, TypeOK
  <2> QED BY <1>i, <2>3, <2>6, <2>7, <2>8 DEF SeqInv
<1>2. ASSUME NEW c \in Calls, BeginMemorize(c) PROVE SeqInv'
  <2>1. \A d \in Calls : pc[d] = "idle"
    BY <1>2 DEF BeginMemorize, InFlight
  <2>2. PICK r \in MemorizeRequests : req' = [req EXCEPT ![c] = r]
    BY <1>2 DEF BeginMemorize
  <2>3. /\ r.op = "memorize" /\ r.payload = {}
        /\ req'[c] = r
    BY <2>2 DEF MemorizeRequests, TypeOK
  <2>4. /\ failed' = failed /\ latest' = latest
        /\ dataset' = dataset /\ memorized' = memorized /\ promised' = promised
        /\ late' = late
        /\ pc' = [pc EXCEPT ![c] = "register"]
        /\ wf' = [wf EXCEPT ![c] = MemWf]
    BY <1>2 DEF BeginMemorize
  <2>6. AloneInv(c)'
    BY <1>w, <1>i, <2>1, <2>3, <2>4 DEF AloneInv, TypeOK
  <2>7. \A d \in Calls \ {c} : AloneInv(d)'
    BY <1>w, <1>i, <2>1, <2>4 DEF AloneInv, TypeOK
  <2>8. AtMostOne'
    BY <2>1, <2>4 DEF AtMostOne, TypeOK
  <2> QED BY <1>i, <2>4, <2>6, <2>7, <2>8 DEF SeqInv
<1>3. ASSUME NEW c \in Calls, ResetStatus(c) PROVE SeqInv'
  <2>1. pc[c] # "idle" /\ AloneInv(c)
    BY <1>3, <1>i DEF ResetStatus
  <2>2. \A d \in Calls \ {c} :
          pc'[d] = pc[d] /\ wf'[d] = wf[d] /\ failed'[d] = failed[d]
    BY <1>3 DEF ResetStatus, AppendRow, TypeOK
  <2>3. AloneInv(c)'
    BY <1>3, <1>w, <1>i, <2>1 DEF ResetStatus, AppendRow, AloneInv, CacheHit, TypeOK
  <2>4. latest'[MemWf] = "COMPLETED" => dataset' \subseteq memorized' \cup late'
    BY <1>3, <1>w, <1>i, <2>1 DEF ResetStatus, AppendRow, AloneInv, CacheHit, TypeOK
  <2>5. RaiseErrors => promised' \subseteq memorized'
    BY <1>3, <1>w, <1>i, <2>1 DEF ResetStatus, AppendRow, AloneInv, TypeOK
  <2> QED BY <1>o, <2>1, <2>2, <2>3, <2>4, <2>5, SeqFrame
<1>4. ASSUME NEW c \in Calls, Register(c) PROVE SeqInv'
  <2>1. pc[c] # "idle" /\ AloneInv(c)
    BY <1>4, <1>i DEF Register
  <2>2. \A d \in Calls \ {c} :
          pc'[d] = pc[d] /\ wf'[d] = wf[d] /\ failed'[d] = failed[d]
    BY <1>4 DEF Register, TypeOK
  <2>3. AloneInv(c)'
    BY <1>4, <1>w, <1>i, <2>1 DEF Register, AloneInv, CacheHit, TypeOK
  <2>4. latest'[MemWf] = "COMPLETED" => dataset' \subseteq memorized' \cup late'
    BY <1>4, <1>w, <1>i, <2>1 DEF Register, AloneInv, CacheHit, TypeOK
  <2>5. RaiseErrors => promised' \subseteq memorized'
    BY <1>4, <1>w, <1>i, <2>1 DEF Register, AloneInv, TypeOK
  <2> QED BY <1>o, <2>1, <2>2, <2>3, <2>4, <2>5, SeqFrame
<1>5. ASSUME NEW c \in Calls, RefuseConflict(c) PROVE SeqInv'
  <2>1. pc[c] # "idle" /\ AloneInv(c)
    BY <1>5, <1>i DEF RefuseConflict
  <2>2. \A d \in Calls \ {c} :
          pc'[d] = pc[d] /\ wf'[d] = wf[d] /\ failed'[d] = failed[d]
    BY <1>5 DEF RefuseConflict, Forget, TypeOK
  <2>3. AloneInv(c)'
    BY <1>5, <1>w, <1>i, <2>1 DEF RefuseConflict, Forget, AloneInv, CacheHit, TypeOK
  <2>4. latest'[MemWf] = "COMPLETED" => dataset' \subseteq memorized' \cup late'
    BY <1>5, <1>w, <1>i, <2>1 DEF RefuseConflict, Forget, AloneInv, CacheHit, TypeOK
  <2>5. RaiseErrors => promised' \subseteq memorized'
    BY <1>5, <1>w, <1>i, <2>1 DEF RefuseConflict, Forget, AloneInv, TypeOK
  <2> QED BY <1>o, <2>1, <2>2, <2>3, <2>4, <2>5, SeqFrame
<1>6. ASSUME NEW c \in Calls, FetchItems(c) PROVE SeqInv'
  <2>1. pc[c] # "idle" /\ AloneInv(c)
    BY <1>6, <1>i DEF FetchItems
  <2>2. \A d \in Calls \ {c} :
          pc'[d] = pc[d] /\ wf'[d] = wf[d] /\ failed'[d] = failed[d]
    BY <1>6 DEF FetchItems, TypeOK
  <2>3. AloneInv(c)'
    BY <1>6, <1>w, <1>i, <2>1 DEF FetchItems, AloneInv, CacheHit, TypeOK
  <2>4. latest'[MemWf] = "COMPLETED" => dataset' \subseteq memorized' \cup late'
    BY <1>6, <1>w, <1>i, <2>1 DEF FetchItems, AloneInv, CacheHit, TypeOK
  <2>5. RaiseErrors => promised' \subseteq memorized'
    BY <1>6, <1>w, <1>i, <2>1 DEF FetchItems, AloneInv, TypeOK
  <2> QED BY <1>o, <2>1, <2>2, <2>3, <2>4, <2>5, SeqFrame
<1>7. ASSUME NEW c \in Calls, SkipRun(c) PROVE SeqInv'
  <2>1. pc[c] # "idle" /\ AloneInv(c)
    BY <1>7, <1>i DEF SkipRun
  <2>2. \A d \in Calls \ {c} :
          pc'[d] = pc[d] /\ wf'[d] = wf[d] /\ failed'[d] = failed[d]
    BY <1>7 DEF SkipRun, ReturnFromPipeline, EnterMemorize, Forget, TypeOK
  <2>3. AloneInv(c)'
    <3>1. /\ ReturnFromPipeline(c) /\ pc[c] = "gate" /\ CacheHit(wf[c])
          /\ dataset' = dataset /\ memorized' = memorized
      BY <1>7 DEF SkipRun
    <3>2. \A w \in Workflows : CacheHit(w)' => CacheHit(w)
      BY <1>7 DEF SkipRun, CacheHit, tables
    <3>3. CASE Forget(c)
      BY <3>3, ForgetAlone
    <3>4. CASE EnterMemorize(c) /\ wf[c] = AddWf /\ req[c].op = "ingest"
      <4>1. /\ pc'[c] = "register" /\ wf'[c] = MemWf /\ failed'[c] = FALSE
            /\ req' = req
        BY <3>4 DEF EnterMemorize, TypeOK
      <4>2. ~CacheHit(MemWf)
        BY <2>1, <3>1, <3>4, <1>w DEF AloneInv
      <4>3. RaiseErrors => req[c].payload \subseteq dataset
        BY <2>1, <3>1, <3>4, <1>w DEF AloneInv, RunInv
      <4> QED BY <1>w, <3>1, <3>2, <4>1, <4>2, <4>3 DEF AloneInv
    <3>5. CASE /\ wf[c] = MemWf
               /\ pc' = [pc EXCEPT ![c] = "leave"]
               /\ failed' = [failed EXCEPT ![c] = FALSE]
               /\ UNCHANGED <<req, wf, toReset, batch, todo, held>>
      <4>1. pc'[c] = "leave" /\ wf'[c] = MemWf /\ failed'[c] = FALSE
        BY <3>5 DEF TypeOK
      <4>2. req[c].op = "ingest" /\ RaiseErrors => req[c].payload \subseteq memorized
        BY <2>1, <3>1, <3>5, <1>w DEF AloneInv, RunInv
      <4> QED BY <1>w, <2>1, <3>1, <3>5, <4>1, <4>2 DEF AloneInv
    <3> QED BY <3>1, <3>3, <3>4, <3>5, ReturnPlaces
  <2>4. latest'[MemWf] = "COMPLETED" => dataset' \subseteq memorized' \cup late'
    BY <1>7, <1>w, <1>i, <2>1 DEF SkipRun, ReturnFromPipeline, EnterMemorize, Forget, AloneInv, CacheHit, TypeOK, RunInv
  <2>5. RaiseErrors => promised' \subseteq memorized'
    BY <1>7, <1>w, <1>i, <2>1 DEF SkipRun, ReturnFromPipeline, EnterMemorize, Forget, AloneInv, TypeOK
  <2> QED BY <1>o, <2>1, <2>2, <2>3, <2>4, <2>5, SeqFrame
<1>8. ASSUME NEW c \in Calls, PassGate(c) PROVE SeqInv'
  <2>1. pc[c] # "idle" /\ AloneInv(c)
    BY <1>8, <1>i DEF PassGate
  <2>2. \A d \in Calls \ {c} :
          pc'[d] = pc[d] /\ wf'[d] = wf[d] /\ failed'[d] = failed[d]
    BY <1>8 DEF PassGate, TypeOK
  <2>3. AloneInv(c)'
    BY <1>8, <1>w, <1>i, <2>1 DEF PassGate, AloneInv, CacheHit, TypeOK
  <2>4. latest'[MemWf] = "COMPLETED" => dataset' \subseteq memorized' \cup late'
    BY <1>8, <1>w, <1>i, <2>1 DEF PassGate, AloneInv, CacheHit, TypeOK
  <2>5. RaiseErrors => promised' \subseteq memorized'
    BY <1>8, <1>w, <1>i, <2>1 DEF PassGate, AloneInv, TypeOK
  <2> QED BY <1>o, <2>1, <2>2, <2>3, <2>4, <2>5, SeqFrame
<1>9. ASSUME NEW c \in Calls, StartRun(c) PROVE SeqInv'
  <2>1. pc[c] # "idle" /\ AloneInv(c)
    BY <1>9, <1>i DEF StartRun
  <2>2. \A d \in Calls \ {c} :
          pc'[d] = pc[d] /\ wf'[d] = wf[d] /\ failed'[d] = failed[d]
    BY <1>9 DEF StartRun, AppendRow, TypeOK
  <2>3. AloneInv(c)'
    BY <1>9, <1>w, <1>i, <2>1 DEF StartRun, AppendRow, AloneInv, CacheHit, TypeOK
  <2>4. latest'[MemWf] = "COMPLETED" => dataset' \subseteq memorized' \cup late'
    BY <1>9, <1>w, <1>i, <2>1 DEF StartRun, AppendRow, AloneInv, CacheHit, TypeOK
  <2>5. RaiseErrors => promised' \subseteq memorized'
    BY <1>9, <1>w, <1>i, <2>1 DEF StartRun, AppendRow, AloneInv, TypeOK
  <2> QED BY <1>o, <2>1, <2>2, <2>3, <2>4, <2>5, SeqFrame
<1>10. ASSUME NEW c \in Calls, ReturnInBackground(c) PROVE SeqInv'
  <2>1. pc[c] # "idle" /\ AloneInv(c)
    BY <1>10, <1>i DEF ReturnInBackground
  <2>2. \A d \in Calls \ {c} :
          pc'[d] = pc[d] /\ wf'[d] = wf[d] /\ failed'[d] = failed[d]
    BY <1>10 DEF ReturnInBackground, TypeOK
  <2>3. AloneInv(c)'
    BY <1>10, <1>w, <1>i, <2>1 DEF ReturnInBackground, AloneInv, CacheHit, TypeOK
  <2>4. latest'[MemWf] = "COMPLETED" => dataset' \subseteq memorized' \cup late'
    BY <1>10, <1>w, <1>i, <2>1 DEF ReturnInBackground, AloneInv, CacheHit, TypeOK
  <2>5. RaiseErrors => promised' \subseteq memorized'
    BY <1>10, <1>w, <1>i, <2>1 DEF ReturnInBackground, AloneInv, TypeOK
  <2> QED BY <1>o, <2>1, <2>2, <2>3, <2>4, <2>5, SeqFrame
<1>11. ASSUME NEW c \in Calls, NEW i \in Items, ProcessItem(c, i) PROVE SeqInv'
  <2>1. pc[c] # "idle" /\ AloneInv(c)
    BY <1>11, <1>i DEF ProcessItem
  <2>2. \A d \in Calls \ {c} :
          pc'[d] = pc[d] /\ wf'[d] = wf[d] /\ failed'[d] = failed[d]
    BY <1>11 DEF ProcessItem, TypeOK
  <2>3. AloneInv(c)'
    BY <1>11, <1>w, <1>i, <2>1 DEF ProcessItem, AloneInv, CacheHit, TypeOK
  <2>4. latest'[MemWf] = "COMPLETED" => dataset' \subseteq memorized' \cup late'
    BY <1>11, <1>w, <1>i, <2>1 DEF ProcessItem, AloneInv, CacheHit, TypeOK
  <2>5. RaiseErrors => promised' \subseteq memorized'
    BY <1>11, <1>w, <1>i, <2>1 DEF ProcessItem, AloneInv, TypeOK
  <2> QED BY <1>o, <2>1, <2>2, <2>3, <2>4, <2>5, SeqFrame
<1>12. ASSUME NEW c \in Calls, NEW i \in Items, FailItem(c, i) PROVE SeqInv'
  <2>1. pc[c] # "idle" /\ AloneInv(c)
    BY <1>12, <1>i DEF FailItem
  <2>2. \A d \in Calls \ {c} :
          pc'[d] = pc[d] /\ wf'[d] = wf[d] /\ failed'[d] = failed[d]
    BY <1>12 DEF FailItem, TypeOK
  <2>3. AloneInv(c)'
    BY <1>12, <1>w, <1>i, <2>1 DEF FailItem, AloneInv, CacheHit, TypeOK
  <2>4. latest'[MemWf] = "COMPLETED" => dataset' \subseteq memorized' \cup late'
    BY <1>12, <1>w, <1>i, <2>1 DEF FailItem, AloneInv, CacheHit, TypeOK
  <2>5. RaiseErrors => promised' \subseteq memorized'
    BY <1>12, <1>w, <1>i, <2>1 DEF FailItem, AloneInv, TypeOK
  <2> QED BY <1>o, <2>1, <2>2, <2>3, <2>4, <2>5, SeqFrame
<1>13. ASSUME NEW c \in Calls, FinishRun(c) PROVE SeqInv'
  <2>1. pc[c] # "idle" /\ AloneInv(c)
    BY <1>13, <1>i DEF FinishRun
  <2>2. \A d \in Calls \ {c} :
          pc'[d] = pc[d] /\ wf'[d] = wf[d] /\ failed'[d] = failed[d]
    BY <1>13 DEF FinishRun, AppendRow, TypeOK
  <2>3. AloneInv(c)'
    BY <1>13, <1>w, <1>i, <2>1 DEF FinishRun, AppendRow, AloneInv, CacheHit, TypeOK, RunInv
  <2>4. latest'[MemWf] = "COMPLETED" => dataset' \subseteq memorized' \cup late'
    BY <1>13, <1>w, <1>i, <2>1 DEF FinishRun, AppendRow, AloneInv, CacheHit, TypeOK, RunInv
  <2>5. RaiseErrors => promised' \subseteq memorized'
    BY <1>13, <1>w, <1>i, <2>1 DEF FinishRun, AppendRow, AloneInv, TypeOK
  <2> QED BY <1>o, <2>1, <2>2, <2>3, <2>4, <2>5, SeqFrame
<1>14. ASSUME NEW c \in Calls, FailRun(c) PROVE SeqInv'
  <2>1. pc[c] # "idle" /\ AloneInv(c)
    BY <1>14, <1>i DEF FailRun
  <2>2. \A d \in Calls \ {c} :
          pc'[d] = pc[d] /\ wf'[d] = wf[d] /\ failed'[d] = failed[d]
    BY <1>14 DEF FailRun, AppendRow, ReturnFromPipeline, EnterMemorize, Forget, TypeOK
  <2>3. AloneInv(c)'
    <3>1. /\ ReturnFromPipeline(c) /\ pc[c] = "run" /\ failed[c]
          /\ dataset' = dataset /\ memorized' = memorized
      BY <1>14 DEF FailRun
    <3>2. \A w \in Workflows : CacheHit(w)' => CacheHit(w)
      BY <1>14, <1>w DEF FailRun, AppendRow, CacheHit, TypeOK
    <3>3. CASE Forget(c)
      BY <3>3, ForgetAlone
    <3>4. CASE EnterMemorize(c) /\ wf[c] = AddWf /\ req[c].op = "ingest"
      <4>1. /\ pc'[c] = "register" /\ wf'[c] = MemWf /\ failed'[c] = FALSE
            /\ req' = req
        BY <3>4 DEF EnterMemorize, TypeOK
      <4>2. ~CacheHit(MemWf)
        BY <2>1, <3>1, <3>4, <1>w DEF AloneInv
      <4>3. RaiseErrors => req[c].payload \subseteq dataset
        BY <2>1, <3>1, <3>4, <1>w DEF AloneInv, RunInv
      <4> QED BY <1>w, <3>1, <3>2, <4>1, <4>2, <4>3 DEF AloneInv
    <3>5. CASE /\ wf[c] = MemWf
               /\ pc' = [pc EXCEPT ![c] = "leave"]
               /\ failed' = [failed EXCEPT ![c] = FALSE]
               /\ UNCHANGED <<req, wf, toReset, batch, todo, held>>
      <4>1. pc'[c] = "leave" /\ wf'[c] = MemWf /\ failed'[c] = FALSE
        BY <3>5 DEF TypeOK
      <4>2. req[c].op = "ingest" /\ RaiseErrors => req[c].payload \subseteq memorized
        BY <2>1, <3>1, <3>5, <1>w DEF AloneInv, RunInv
      <4> QED BY <1>w, <2>1, <3>1, <3>5, <4>1, <4>2 DEF AloneInv
    <3> QED BY <3>1, <3>3, <3>4, <3>5, ReturnPlaces
  <2>4. latest'[MemWf] = "COMPLETED" => dataset' \subseteq memorized' \cup late'
    BY <1>14, <1>w, <1>i, <2>1 DEF FailRun, AppendRow, ReturnFromPipeline, EnterMemorize, Forget, AloneInv, CacheHit, TypeOK, RunInv
  <2>5. RaiseErrors => promised' \subseteq memorized'
    BY <1>14, <1>w, <1>i, <2>1 DEF FailRun, AppendRow, ReturnFromPipeline, EnterMemorize, Forget, AloneInv, TypeOK
  <2> QED BY <1>o, <2>1, <2>2, <2>3, <2>4, <2>5, SeqFrame
<1>15. ASSUME NEW c \in Calls, FlushRun(c) PROVE SeqInv'
  <2>1. pc[c] # "idle" /\ AloneInv(c)
    BY <1>15, <1>i DEF FlushRun
  <2>2. \A d \in Calls \ {c} :
          pc'[d] = pc[d] /\ wf'[d] = wf[d] /\ failed'[d] = failed[d]
    BY <1>15 DEF FlushRun, ReturnFromPipeline, EnterMemorize, Forget, TypeOK
  <2>3. AloneInv(c)'
    <3>1. /\ ReturnFromPipeline(c) /\ pc[c] = "finished"
          /\ dataset' = dataset /\ memorized' = memorized
      BY <1>15 DEF FlushRun
    <3>2. \A w \in Workflows : CacheHit(w)' => CacheHit(w)
      BY <1>15 DEF FlushRun, CacheHit, tables
    <3>3. CASE Forget(c)
      BY <3>3, ForgetAlone
    <3>4. CASE EnterMemorize(c) /\ wf[c] = AddWf /\ req[c].op = "ingest"
      <4>1. /\ pc'[c] = "register" /\ wf'[c] = MemWf /\ failed'[c] = FALSE
            /\ req' = req
        BY <3>4 DEF EnterMemorize, TypeOK
      <4>2. ~CacheHit(MemWf)
        BY <2>1, <3>1, <3>4, <1>w DEF AloneInv
      <4>3. RaiseErrors => req[c].payload \subseteq dataset
        BY <2>1, <3>1, <3>4, <1>w DEF AloneInv, RunInv
      <4> QED BY <1>w, <3>1, <3>2, <4>1, <4>2, <4>3 DEF AloneInv
    <3>5. CASE /\ wf[c] = MemWf
               /\ pc' = [pc EXCEPT ![c] = "leave"]
               /\ failed' = [failed EXCEPT ![c] = FALSE]
               /\ UNCHANGED <<req, wf, toReset, batch, todo, held>>
      <4>1. pc'[c] = "leave" /\ wf'[c] = MemWf /\ failed'[c] = FALSE
        BY <3>5 DEF TypeOK
      <4>2. req[c].op = "ingest" /\ RaiseErrors => req[c].payload \subseteq memorized
        BY <2>1, <3>1, <3>5, <1>w DEF AloneInv, RunInv
      <4> QED BY <1>w, <2>1, <3>1, <3>5, <4>1, <4>2 DEF AloneInv
    <3> QED BY <3>1, <3>3, <3>4, <3>5, ReturnPlaces
  <2>4. latest'[MemWf] = "COMPLETED" => dataset' \subseteq memorized' \cup late'
    BY <1>15, <1>w, <1>i, <2>1 DEF FlushRun, ReturnFromPipeline, EnterMemorize, Forget, AloneInv, CacheHit, TypeOK, RunInv
  <2>5. RaiseErrors => promised' \subseteq memorized'
    BY <1>15, <1>w, <1>i, <2>1 DEF FlushRun, ReturnFromPipeline, EnterMemorize, Forget, AloneInv, TypeOK
  <2> QED BY <1>o, <2>1, <2>2, <2>3, <2>4, <2>5, SeqFrame
<1>16. ASSUME NEW c \in Calls, AbortRun(c) PROVE SeqInv'
  <2>1. pc[c] # "idle" /\ AloneInv(c)
    BY <1>16, <1>i DEF AbortRun
  <2>2. \A d \in Calls \ {c} :
          pc'[d] = pc[d] /\ wf'[d] = wf[d] /\ failed'[d] = failed[d]
    BY <1>16 DEF AbortRun, AppendRow, RaiseFromPipeline, Forget, TypeOK
  <2>3. AloneInv(c)'
    BY <1>16, <1>w, <1>i, <2>1 DEF AbortRun, AppendRow, RaiseFromPipeline, Forget, AloneInv, CacheHit, TypeOK
  <2>4. latest'[MemWf] = "COMPLETED" => dataset' \subseteq memorized' \cup late'
    BY <1>16, <1>w, <1>i, <2>1 DEF AbortRun, AppendRow, RaiseFromPipeline, Forget, AloneInv, CacheHit, TypeOK
  <2>5. RaiseErrors => promised' \subseteq memorized'
    BY <1>16, <1>w, <1>i, <2>1 DEF AbortRun, AppendRow, RaiseFromPipeline, Forget, AloneInv, TypeOK
  <2> QED BY <1>o, <2>1, <2>2, <2>3, <2>4, <2>5, SeqFrame
<1>17. ASSUME NEW c \in Calls, Leave(c) PROVE SeqInv'
  <2>1. pc[c] # "idle" /\ AloneInv(c)
    BY <1>17, <1>i DEF Leave
  <2>2. \A d \in Calls \ {c} :
          pc'[d] = pc[d] /\ wf'[d] = wf[d] /\ failed'[d] = failed[d]
    BY <1>17 DEF Leave, Forget, TypeOK
  <2>3. AloneInv(c)'
    BY <1>17, <1>w, <1>i, <2>1 DEF Leave, Forget, AloneInv, CacheHit, TypeOK, RunInv
  <2>4. latest'[MemWf] = "COMPLETED" => dataset' \subseteq memorized' \cup late'
    BY <1>17, <1>w, <1>i, <2>1 DEF Leave, Forget, AloneInv, CacheHit, TypeOK, RunInv
  <2>5. RaiseErrors => promised' \subseteq memorized'
    BY <1>17, <1>w, <1>i, <2>1 DEF Leave, Forget, AloneInv, TypeOK
  <2> QED BY <1>o, <2>1, <2>2, <2>3, <2>4, <2>5, SeqFrame
<1>18. ASSUME NEW c \in Calls, Cancel(c) PROVE SeqInv'
  <2>1. pc[c] # "idle" /\ AloneInv(c)
    BY <1>18, <1>i DEF Cancel
  <2>2. \A d \in Calls \ {c} :
          pc'[d] = pc[d] /\ wf'[d] = wf[d] /\ failed'[d] = failed[d]
    BY <1>18 DEF Cancel, Forget, TypeOK
  <2>3. AloneInv(c)'
    BY <1>18, <1>w, <1>i, <2>1 DEF Cancel, Forget, AloneInv, CacheHit, TypeOK
  <2>4. latest'[MemWf] = "COMPLETED" => dataset' \subseteq memorized' \cup late'
    BY <1>18, <1>w, <1>i, <2>1 DEF Cancel, Forget, AloneInv, CacheHit, TypeOK
  <2>5. RaiseErrors => promised' \subseteq memorized'
    BY <1>18, <1>w, <1>i, <2>1 DEF Cancel, Forget, AloneInv, TypeOK
  <2> QED BY <1>o, <2>1, <2>2, <2>3, <2>4, <2>5, SeqFrame
<1>19. ASSUME Crash PROVE SeqInv'
  <2>1. \A c \in Calls : AloneInv(c)'
    BY <1>19, <1>w DEF Crash, AloneInv, NoRequest
  <2>2. AtMostOne'
    BY <1>19 DEF Crash, AtMostOne
  <2> QED BY <1>19, <1>i, <2>1, <2>2 DEF Crash, SeqInv
<1>20. ASSUME NEW w \in Workflows, Dismiss(w) PROVE SeqInv'
  <2>1. \A v \in Workflows : CacheHit(v)' => CacheHit(v)
    BY <1>20 DEF Dismiss, AppendRow, CacheHit, TypeOK
  <2>2. latest'[MemWf] = "COMPLETED" => latest[MemWf] = "COMPLETED"
    BY <1>20, <1>w DEF Dismiss, AppendRow, TypeOK
  <2>3. \A c \in Calls : AloneInv(c)'
    BY <1>20, <1>i, <1>w, <2>1 DEF Dismiss, AloneInv
  <2>4. AtMostOne'
    BY <1>20, <1>i DEF Dismiss, AtMostOne
  <2> QED BY <1>20, <1>i, <2>2, <2>3, <2>4 DEF Dismiss, SeqInv
<1>22. ASSUME NEW w \in Workflows, NEW i \in Items, FinishStray(w, i) PROVE SeqInv'
  <2>1. /\ UNCHANGED <<locals, latest, promised>>
        /\ memorized \subseteq memorized' /\ dataset \subseteq dataset'
        /\ late \subseteq late'
        /\ dataset' \ dataset \subseteq late'
    BY <1>22 DEF FinishStray
  <2>2. \A v \in Workflows : CacheHit(v)' = CacheHit(v)
    BY <2>1 DEF CacheHit
  <2>3. ASSUME NEW c \in Calls PROVE AloneInv(c)'
    <3>1. AloneInv(c)
      BY <1>i
    <3> QED BY <1>w, <2>1, <2>2, <3>1 DEF AloneInv
  <2>4. AtMostOne'
    BY <1>i, <2>1 DEF AtMostOne
  <2> QED BY <1>i, <2>1, <2>3, <2>4 DEF SeqInv
<1>23. ASSUME NEW w \in Workflows, NEW i \in Items, LoseStray(w, i) PROVE SeqInv'
  <2>1. \A c \in Calls : AloneInv(c)'
    BY <1>23, <1>i DEF LoseStray, AloneInv, CacheHit
  <2>2. AtMostOne'
    BY <1>23, <1>i DEF LoseStray, AtMostOne
  <2> QED BY <1>23, <1>i, <2>1, <2>2 DEF LoseStray, SeqInv
<1>21. CASE UNCHANGED vars
  <2>1. \A c \in Calls : AloneInv(c)'
    BY <1>21, <1>i DEF vars, AloneInv, CacheHit
  <2>2. AtMostOne'
    BY <1>21, <1>i DEF vars, AtMostOne
  <2> QED BY <1>21, <1>i, <2>1, <2>2 DEF vars, SeqInv
<1> QED
  BY <1>1, <1>2, <1>3, <1>4, <1>5, <1>6, <1>7, <1>8, <1>9, <1>10, <1>11,
     <1>12, <1>13, <1>14, <1>15, <1>16, <1>17, <1>18, <1>19, <1>20, <1>21,
     <1>22, <1>23
  DEF Next, Begin, Step, Straggle, Disruption

LEMMA SeqInvariant == Spec => []SeqInv
<1>1. Init => SeqInv
  BY DEF Init, SeqInv, AtMostOne, AloneInv, NoRequest, Workflows, AddWf, MemWf
<1>2. Init => RunInv
  BY DEF Init, RunInv
<1> QED BY <1>1, <1>2, RunStep, SeqStep, TypeCorrect, PTL DEF Spec

\* Without overlapping calls a COMPLETED memorize_pipeline is up to date.
THEOREM CompletedAlwaysCurrent == Spec => []CompletedIsCurrent
<1>1. SeqInv => CompletedIsCurrent
  BY DEF SeqInv, CompletedIsCurrent
<1> QED BY <1>1, SeqInvariant, PTL

\* Without overlapping calls, and with item errors raised, ingest() answers
\* COMPLETED only for items that have been memorized.
THEOREM SequentialIngestAlwaysHonest == Spec => []SequentialIngestIsHonest
<1>1. SeqInv => SequentialIngestIsHonest
  BY DEF SeqInv, SequentialIngestIsHonest
<1> QED BY <1>1, SeqInvariant, PTL
=============================================================================
