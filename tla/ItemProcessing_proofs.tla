----------------------- MODULE ItemProcessing_proofs -----------------------
(***************************************************************************)
(* Theorems about incremental loading: the entries of workflow_state and   *)
(* the COMPLETED runs are honest, whatever overlaps, fails or is deleted.  *)
(***************************************************************************)
EXTENDS ItemProcessing, TLAPS

\* A run, and a coroutine that outlives it, has a dataset.
KeyInv ==
  \A r \in Runs : phase[r] # "idle" \/ Live(r) # {} => ds[r] \in Datasets

\* Every step keeps the types: one leaf per action.
LEMMA TypeStep ==
  ASSUME ConstantsAssumption, TypeOK, KeyInv, [Next]_vars
  PROVE  TypeOK'
<1>1. ASSUME NEW r \in Runs, BeginAdd(r) PROVE TypeOK'
  BY <1>1 DEF BeginAdd, Begin, Workflows, Phases, TypeOK, stored, caches, deletion
<1>2. ASSUME NEW r \in Runs, BeginMemorize(r) PROVE TypeOK'
  BY <1>2
     DEF BeginMemorize, Begin, Linked, Workflows, Phases, TypeOK, stored, caches,
         deletion
<1>3. ASSUME NEW r \in Runs, NextBatch(r) PROVE TypeOK'
  <2>1. PICK b \in SUBSET todo[r] :
          /\ stage' = [stage EXCEPT ![r] =
                         [i \in Items |-> IF i \in b THEN "check" ELSE "none"]]
          /\ todo' = [todo EXCEPT ![r] = @ \ b]
          /\ \/ /\ preread' = [preread EXCEPT ![r] = {i \in b \cap rows : Key(r) \in marks[i]}]
                /\ phase' = [phase EXCEPT ![r] = "preload"]
             \/ /\ phase' = [phase EXCEPT ![r] = "items"]
                /\ UNCHANGED preread
    BY <1>3 DEF NextBatch
  <2>2. b \subseteq Items
    BY DEF TypeOK
  <2>3. [i \in Items |-> IF i \in b THEN "check" ELSE "none"] \in [Items -> Stages]
    BY DEF Stages
  <2>4. stage' \in [Runs -> [Items -> Stages]]
    BY <2>1, <2>3 DEF TypeOK
  <2>5. phase' \in [Runs -> Phases]
    BY <2>1 DEF TypeOK, Phases
  <2>6. todo' \in [Runs -> SUBSET Items]
    BY <2>1 DEF TypeOK
  <2>7. preread' \in [Runs -> SUBSET Items]
    <3>1. {i \in b \cap rows : Key(r) \in marks[i]} \in SUBSET Items
      BY <2>2
    <3> QED
      BY <2>1, <3>1 DEF TypeOK
  <2> QED
    BY <2>4, <2>5, <2>6, <2>7, <1>3
       DEF NextBatch, TypeOK, stored, caches, deletion
<1>4. ASSUME NEW r \in Runs, FillCache(r) PROVE TypeOK'
  BY <1>4 DEF FillCache, Key, Keys, Phases, KeyInv, TypeOK, stored, deletion
<1>5. ASSUME NEW r \in Runs, EndBatch(r) PROVE TypeOK'
  BY <1>5 DEF EndBatch, Idle, Phases, Stages, TypeOK, stored, caches, deletion
<1>6. ASSUME NEW r \in Runs, EndRun(r) PROVE TypeOK'
  BY <1>6 DEF EndRun, Phases, TypeOK, stored, deletion
<1>7. ASSUME NEW r \in Runs, Return(r) PROVE TypeOK'
  BY <1>7
     DEF Return, Forget, Idle, Workflows, Phases, Stages, TypeOK, stored, caches,
         deletion
<1>8. ASSUME NEW r \in Runs, StopRun(r) PROVE TypeOK'
  BY <1>8
     DEF StopRun, Forget, Idle, Workflows, Phases, Stages, TypeOK, stored, caches,
         deletion
<1>9. ASSUME NEW r \in Runs, NEW i \in Items, CheckItem(r, i) PROVE TypeOK'
  BY <1>9
     DEF CheckItem, Move, Stages, Busy, TypeOK, stored, caches, control, deletion
<1>10. ASSUME NEW r \in Runs, NEW i \in Items, MemorizeItem(r, i) PROVE TypeOK'
  BY <1>10
     DEF MemorizeItem, Move, EndTasks, Key, Keys, Stages, Busy, KeyInv, Live,
         TypeOK, caches, control, deletion
<1>11. ASSUME NEW r \in Runs, NEW i \in Items, ListDataset(r, i) PROVE TypeOK'
  BY <1>11
     DEF ListDataset, Move, Stages, Busy, TypeOK, stored, caches, control,
         deletion
<1>12. ASSUME NEW r \in Runs, NEW i \in Items, LookUpRow(r, i) PROVE TypeOK'
  BY <1>12
     DEF LookUpRow, Move, Stages, Busy, TypeOK, stored, caches, control, deletion
<1>13. ASSUME NEW r \in Runs, NEW i \in Items, CommitItem(r, i) PROVE TypeOK'
  <2>1. ds[r] \in Datasets /\ Key(r) \in Keys
    BY <1>13 DEF CommitItem, KeyInv, Live, Busy, Key, Keys, TypeOK
  <2>2. stage' \in [Runs -> [Items -> Stages]] /\ earned' \subseteq Items \X Keys
    BY <2>1, <1>13 DEF CommitItem, EndTasks, Move, Stages, Busy, TypeOK
  <2>3. snap' \in [Runs -> [Items -> SUBSET Keys]]
    BY <1>13 DEF CommitItem, Unload, TypeOK
  <2>4. rows' \subseteq Items /\ links' \subseteq Items \X Datasets
    BY <2>1, <1>13 DEF CommitItem, TypeOK
  <2>5. marks' \in [Items -> SUBSET Keys]
    <3>1. snap[r][i] \in SUBSET Keys
      BY DEF TypeOK
    <3>2. marks' = marks \/ marks' = [marks EXCEPT ![i] = snap[r][i]]
      BY <1>13 DEF CommitItem
    <3> QED
      BY <3>1, <3>2 DEF TypeOK
  <2> QED
    BY <2>2, <2>3, <2>4, <2>5, <1>13
       DEF CommitItem, caches, control, deletion, TypeOK
<1>14. ASSUME NEW r \in Runs, NEW i \in Items, LoadState(r, i) PROVE TypeOK'
  BY <1>14
     DEF LoadState, Move, Stages, Busy, TypeOK, stored, caches, control, deletion
<1>15. ASSUME NEW r \in Runs, NEW i \in Items, WriteState(r, i) PROVE TypeOK'
  BY <1>15
     DEF WriteState, Move, Key, Unload, Keys, Stages, Busy, KeyInv, Live, TypeOK,
         caches, control, deletion
<1>16. ASSUME NEW r \in Runs, NEW i \in Items, FailItem(r, i) PROVE TypeOK'
  <2>1. snap' \in [Runs -> [Items -> SUBSET Keys]]
    BY <1>16 DEF FailItem, Unload, TypeOK
  <2>2. stage' \in [Runs -> [Items -> Stages]]
    <3>1. CASE stage' = [stage EXCEPT ![r] = [j \in Items |->
                 IF ~Serial /\ j \in Live(r) \ {i} THEN stage[r][j] ELSE "none"]]
      <4>1. [j \in Items |-> IF ~Serial /\ j \in Live(r) \ {i} THEN stage[r][j] ELSE "none"]
              \in [Items -> Stages]
        BY DEF Stages, TypeOK
      <4> QED
        BY <3>1, <4>1 DEF TypeOK
    <3>2. CASE Move(r, i, "none")
      BY <3>2 DEF Move, Stages, TypeOK
    <3>3. CASE Move(r, i, "failed")
      BY <3>3 DEF Move, Stages, TypeOK
    <3> QED
      BY <3>1, <3>2, <3>3, <1>16 DEF FailItem
  <2>3. /\ phase' \in [Runs -> Phases]
        /\ todo' \in [Runs -> SUBSET Items]
        /\ failed' \in [Runs -> BOOLEAN]
        /\ UNCHANGED <<wf, ds, incremental, items, preread>>
    BY <1>16 DEF FailItem, control, TypeOK, Phases
  <2> QED
    BY <2>1, <2>2, <2>3, <1>16 DEF FailItem, stored, caches, deletion, TypeOK
<1>17. ASSUME NEW d \in Datasets, DeleteDataset(d) PROVE TypeOK'
  <2>1. Linked(d) \subseteq Items
    BY DEF Linked
  <2>2. dsnap' \in [Items -> SUBSET Keys]
    BY <1>17 DEF DeleteDataset, TypeOK
  <2> QED
    BY <2>1, <2>2, <1>17 DEF DeleteDataset, TypeOK, stored, caches, control
<1>18. ASSUME NEW d \in Datasets, NEW i \in Items, DeleteDocument(i, d) PROVE TypeOK'
  BY <1>18 DEF DeleteDocument, TypeOK, caches, control
<1>19. ASSUME NEW i \in Items, DeleteData(i) PROVE TypeOK'
  BY <1>19 DEF DeleteData, TypeOK, caches, control, deletion
<1>20. ASSUME ClearStates PROVE TypeOK'
  BY <1>20 DEF ClearStates, TypeOK, caches, control
<1>21. ASSUME DropStore PROVE TypeOK'
  BY <1>21 DEF DropStore, TypeOK, caches, control
<1>22. ASSUME DropRow PROVE TypeOK'
  BY <1>22 DEF DropRow, EndDeletion, TypeOK, caches, control
<1>23. ASSUME PurgeDocument PROVE TypeOK'
  BY <1>23 DEF PurgeDocument, EndDeletion, TypeOK, caches, control
<1>24. ASSUME StopDeletion PROVE TypeOK'
  BY <1>24 DEF StopDeletion, EndDeletion, TypeOK, stored, caches, control
<1>25. ASSUME Crash PROVE TypeOK'
  BY <1>25 DEF Crash, EndDeletion, Idle, Workflows, Phases, Stages, TypeOK, stored
<1>26. ASSUME UNCHANGED vars PROVE TypeOK'
  BY <1>26 DEF vars, TypeOK, stored, caches, control, deletion
<1> QED
  BY <1>1, <1>2, <1>3, <1>4, <1>5, <1>6, <1>7, <1>8, <1>9, <1>10, <1>11, <1>12,
     <1>13, <1>14, <1>15, <1>16, <1>17, <1>18, <1>19, <1>20, <1>21, <1>22, <1>23,
     <1>24, <1>25, <1>26
     DEF Next, RunStep, ItemStep, DeletionStep

\* Every step keeps the dataset of a live run.
LEMMA KeyStep ==
  ASSUME ConstantsAssumption, TypeOK, KeyInv, [Next]_vars
  PROVE  KeyInv'
<1>1. ASSUME NEW r \in Runs, BeginAdd(r) PROVE KeyInv'
  BY <1>1 DEF BeginAdd, Begin, KeyInv, Live, TypeOK
<1>2. ASSUME NEW r \in Runs, BeginMemorize(r) PROVE KeyInv'
  BY <1>2 DEF BeginMemorize, Begin, Linked, KeyInv, Live, TypeOK
<1>3. ASSUME NEW r \in Runs, NextBatch(r) PROVE KeyInv'
  <2>1. phase[r] = "batch" /\ UNCHANGED ds
    BY <1>3 DEF NextBatch
  <2>2. \A q \in Runs \ {r} : phase'[q] = phase[q] /\ stage'[q] = stage[q]
    BY <1>3 DEF NextBatch, TypeOK
  <2> QED
    BY <2>1, <2>2 DEF KeyInv, Live
<1>4. ASSUME NEW r \in Runs, FillCache(r) PROVE KeyInv'
  BY <1>4 DEF FillCache, KeyInv, Live
<1>5. ASSUME NEW r \in Runs, EndBatch(r) PROVE KeyInv'
  BY <1>5 DEF EndBatch, Idle, KeyInv, Live
<1>6. ASSUME NEW r \in Runs, EndRun(r) PROVE KeyInv'
  BY <1>6 DEF EndRun, KeyInv, Live
<1>7. ASSUME NEW r \in Runs, Return(r) PROVE KeyInv'
  BY <1>7 DEF Return, Forget, Idle, KeyInv, Live, Busy, TypeOK
<1>8. ASSUME NEW r \in Runs, StopRun(r) PROVE KeyInv'
  BY <1>8 DEF StopRun, Forget, Idle, KeyInv, Live, Busy, TypeOK
<1>9. ASSUME NEW r \in Runs, NEW i \in Items, CheckItem(r, i) PROVE KeyInv'
  BY <1>9 DEF CheckItem, Move, KeyInv, Live, control
<1>10. ASSUME NEW r \in Runs, NEW i \in Items, MemorizeItem(r, i) PROVE KeyInv'
  BY <1>10 DEF MemorizeItem, Move, EndTasks, KeyInv, Live, Busy, control
<1>11. ASSUME NEW r \in Runs, NEW i \in Items, ListDataset(r, i) PROVE KeyInv'
  BY <1>11 DEF ListDataset, Move, KeyInv, Live, Busy, control
<1>12. ASSUME NEW r \in Runs, NEW i \in Items, LookUpRow(r, i) PROVE KeyInv'
  BY <1>12 DEF LookUpRow, Move, KeyInv, Live, Busy, control
<1>13. ASSUME NEW r \in Runs, NEW i \in Items, CommitItem(r, i) PROVE KeyInv'
  BY <1>13 DEF CommitItem, Move, EndTasks, Unload, KeyInv, Live, Busy, control
<1>14. ASSUME NEW r \in Runs, NEW i \in Items, LoadState(r, i) PROVE KeyInv'
  BY <1>14 DEF LoadState, Move, KeyInv, Live, Busy, control
<1>15. ASSUME NEW r \in Runs, NEW i \in Items, WriteState(r, i) PROVE KeyInv'
  BY <1>15 DEF WriteState, Move, Unload, KeyInv, Live, Busy, control
<1>16. ASSUME NEW r \in Runs, NEW i \in Items, FailItem(r, i) PROVE KeyInv'
  BY <1>16, ZenonT(40) DEF FailItem, Move, Unload, KeyInv, Live, TypeOK, control
<1>17. ASSUME NEW d \in Datasets, DeleteDataset(d) PROVE KeyInv'
  BY <1>17 DEF DeleteDataset, KeyInv, Live, control
<1>18. ASSUME NEW d \in Datasets, NEW i \in Items, DeleteDocument(i, d) PROVE KeyInv'
  BY <1>18 DEF DeleteDocument, KeyInv, Live, control
<1>19. ASSUME NEW i \in Items, DeleteData(i) PROVE KeyInv'
  BY <1>19 DEF DeleteData, KeyInv, Live, control
<1>20. ASSUME ClearStates PROVE KeyInv'
  BY <1>20 DEF ClearStates, KeyInv, Live, control
<1>21. ASSUME DropStore PROVE KeyInv'
  BY <1>21 DEF DropStore, KeyInv, Live, control
<1>22. ASSUME DropRow PROVE KeyInv'
  BY <1>22 DEF DropRow, EndDeletion, KeyInv, Live, control
<1>23. ASSUME PurgeDocument PROVE KeyInv'
  BY <1>23 DEF PurgeDocument, EndDeletion, KeyInv, Live, control
<1>24. ASSUME StopDeletion PROVE KeyInv'
  BY <1>24 DEF StopDeletion, EndDeletion, KeyInv, Live, control
<1>25. ASSUME Crash PROVE KeyInv'
  BY <1>25 DEF Crash, EndDeletion, Idle, KeyInv, Live, Busy
<1>26. ASSUME UNCHANGED vars PROVE KeyInv'
  BY <1>26 DEF vars, KeyInv, Live, control
<1> QED
  BY <1>1, <1>2, <1>3, <1>4, <1>5, <1>6, <1>7, <1>8, <1>9, <1>10, <1>11, <1>12,
     <1>13, <1>14, <1>15, <1>16, <1>17, <1>18, <1>19, <1>20, <1>21, <1>22, <1>23,
     <1>24, <1>25, <1>26
     DEF Next, RunStep, ItemStep, DeletionStep

-----------------------------------------------------------------------------
\* The keys a coroutine is about to write, and those it or a deletion has
\* loaded and may write back, are earned.
EarnedInv ==
  /\ MarksAreEarned
  /\ \A r \in Runs, i \in Items, k \in Keys : k \in snap[r][i] => <<i, k>> \in earned
  /\ \A i \in Items, k \in Keys : k \in dsnap[i] => <<i, k>> \in earned
  /\ \A r \in Runs, i \in Items :
       stage[r][i] \in {"mark", "write"} => <<i, Key(r)>> \in earned

\* Whatever found an item processed, the cache, the preload or the row, found
\* it earned; and what a run without errors has behind it is earned.
CacheInv ==
  /\ \A k \in Keys : \A i \in cache[k] : <<i, k>> \in earned
  /\ \A r \in Runs : \A i \in preread[r] : phase[r] = "preload" /\ <<i, Key(r)>> \in earned

Covered(r) ==
  /\ phase[r] \in {"batch", "completed", "errored"} => Live(r) = {}
  /\ phase[r] = "preload" => \A i \in Items : stage[r][i] \in {"none", "check"}
  /\ phase[r] \in {"batch", "preload", "items"} /\ ~failed[r] =>
       \A i \in items[r] \ todo[r] :
         \/ phase[r] # "batch" /\ stage[r][i] \notin {"none", "done"}
         \/ <<i, Key(r)>> \in earned
  /\ phase[r] = "items" =>
       \A i \in Items : stage[r][i] = "done" => <<i, Key(r)>> \in earned
  /\ phase[r] = "completed" => \A i \in items[r] : <<i, Key(r)>> \in earned

CoverInv == \A r \in Runs : Covered(r)

\* Every step keeps what is marked, or about to be marked, earned.
LEMMA EarnedStep ==
  ASSUME ConstantsAssumption, TypeOK, KeyInv, EarnedInv, [Next]_vars
  PROVE  EarnedInv'
<1>1. ASSUME NEW r \in Runs, BeginAdd(r) PROVE EarnedInv'
  BY <1>1
     DEF BeginAdd, Begin, EarnedInv, MarksAreEarned, Key, Live, Busy, stored,
         deletion
<1>2. ASSUME NEW r \in Runs, BeginMemorize(r) PROVE EarnedInv'
  BY <1>2
     DEF BeginMemorize, Begin, Linked, EarnedInv, MarksAreEarned, Key, Live, Busy,
         stored, deletion
<1>3. ASSUME NEW r \in Runs, NextBatch(r) PROVE EarnedInv'
  BY <1>3 DEF NextBatch, Key, EarnedInv, MarksAreEarned, stored, deletion
<1>4. ASSUME NEW r \in Runs, FillCache(r) PROVE EarnedInv'
  BY <1>4 DEF FillCache, Key, EarnedInv, MarksAreEarned, stored, deletion
<1>5. ASSUME NEW r \in Runs, EndBatch(r) PROVE EarnedInv'
  BY <1>5 DEF EndBatch, Idle, EarnedInv, MarksAreEarned, Key, stored, deletion
<1>6. ASSUME NEW r \in Runs, EndRun(r) PROVE EarnedInv'
  BY <1>6 DEF EndRun, EarnedInv, MarksAreEarned, Key, stored, deletion
<1>7. ASSUME NEW r \in Runs, Return(r) PROVE EarnedInv'
  BY <1>7
     DEF Return, Forget, Idle, EarnedInv, MarksAreEarned, Key, TypeOK, stored,
         deletion
<1>8. ASSUME NEW r \in Runs, StopRun(r) PROVE EarnedInv'
  BY <1>8
     DEF StopRun, Forget, Idle, EarnedInv, MarksAreEarned, Key, TypeOK, stored,
         deletion
<1>9. ASSUME NEW r \in Runs, NEW i \in Items, CheckItem(r, i) PROVE EarnedInv'
  BY <1>9
     DEF CheckItem, Move, EarnedInv, MarksAreEarned, Key, stored, control,
         deletion
<1>10. ASSUME NEW r \in Runs, NEW i \in Items, MemorizeItem(r, i) PROVE EarnedInv'
  BY <1>10
     DEF MemorizeItem, Move, EndTasks, Key, EarnedInv, MarksAreEarned, control,
         deletion
<1>11. ASSUME NEW r \in Runs, NEW i \in Items, ListDataset(r, i) PROVE EarnedInv'
  BY <1>11
     DEF ListDataset, Move, EarnedInv, MarksAreEarned, Key, stored, control,
         deletion
<1>12. ASSUME NEW r \in Runs, NEW i \in Items, LookUpRow(r, i) PROVE EarnedInv'
  BY <1>12
     DEF LookUpRow, Move, EarnedInv, MarksAreEarned, Key, stored, control,
         deletion
<1>13. ASSUME NEW r \in Runs, NEW i \in Items, CommitItem(r, i) PROVE EarnedInv'
  BY <1>13
     DEF CommitItem, Move, EndTasks, Key, Unload, EarnedInv, MarksAreEarned,
         TypeOK, control, deletion
<1>14. ASSUME NEW r \in Runs, NEW i \in Items, LoadState(r, i) PROVE EarnedInv'
  BY <1>14
     DEF LoadState, Move, EarnedInv, MarksAreEarned, Key, stored, control,
         deletion
<1>15. ASSUME NEW r \in Runs, NEW i \in Items, WriteState(r, i) PROVE EarnedInv'
  BY <1>15
     DEF WriteState, Move, Key, Unload, EarnedInv, MarksAreEarned, control,
         deletion
<1>16. ASSUME NEW r \in Runs, NEW i \in Items, FailItem(r, i) PROVE EarnedInv'
  <2>1. \A q \in Runs, j \in Items :
          stage'[q][j] \in {"mark", "write"} => stage[q][j] \in {"mark", "write"}
    <3>1. CASE stage' = [stage EXCEPT ![r] = [j \in Items |->
                 IF ~Serial /\ j \in Live(r) \ {i} THEN stage[r][j] ELSE "none"]]
      BY <3>1 DEF TypeOK
    <3>2. CASE Move(r, i, "none")
      BY <3>2 DEF Move, TypeOK
    <3>3. CASE Move(r, i, "failed")
      BY <3>3 DEF Move, TypeOK
    <3> QED
      BY <3>1, <3>2, <3>3, <1>16 DEF FailItem
  <2>2. \A q \in Runs, j \in Items : snap'[q][j] \subseteq snap[q][j]
    BY <1>16 DEF FailItem, Unload, TypeOK
  <2>3. UNCHANGED <<marks, dsnap, earned, wf, ds>>
    BY <1>16 DEF FailItem, control, stored, deletion
  <2> QED
    BY <2>1, <2>2, <2>3 DEF EarnedInv, MarksAreEarned, Key
<1>17. ASSUME NEW d \in Datasets, DeleteDataset(d) PROVE EarnedInv'
  BY <1>17 DEF DeleteDataset, EarnedInv, MarksAreEarned, Key, stored, control
<1>18. ASSUME NEW d \in Datasets, NEW i \in Items, DeleteDocument(i, d) PROVE EarnedInv'
  BY <1>18 DEF DeleteDocument, EarnedInv, MarksAreEarned, Key, control
<1>19. ASSUME NEW i \in Items, DeleteData(i) PROVE EarnedInv'
  BY <1>19 DEF DeleteData, EarnedInv, MarksAreEarned, Key, control, deletion
<1>20. ASSUME ClearStates PROVE EarnedInv'
  BY <1>20 DEF ClearStates, EarnedInv, MarksAreEarned, Key, control
<1>21. ASSUME DropStore PROVE EarnedInv'
  BY <1>21 DEF DropStore, EarnedInv, MarksAreEarned, Key, control
<1>22. ASSUME DropRow PROVE EarnedInv'
  BY <1>22 DEF DropRow, EndDeletion, EarnedInv, MarksAreEarned, Key, control
<1>23. ASSUME PurgeDocument PROVE EarnedInv'
  BY <1>23
     DEF PurgeDocument, EndDeletion, EarnedInv, MarksAreEarned, Key, TypeOK,
         control
<1>24. ASSUME StopDeletion PROVE EarnedInv'
  BY <1>24
     DEF StopDeletion, EndDeletion, EarnedInv, MarksAreEarned, Key, stored,
         control
<1>25. ASSUME Crash PROVE EarnedInv'
  BY <1>25 DEF Crash, EndDeletion, Idle, EarnedInv, MarksAreEarned, stored
<1>26. ASSUME UNCHANGED vars PROVE EarnedInv'
  BY <1>26 DEF vars, EarnedInv, MarksAreEarned, Key, stored, control, deletion
<1> QED
  BY <1>1, <1>2, <1>3, <1>4, <1>5, <1>6, <1>7, <1>8, <1>9, <1>10, <1>11, <1>12,
     <1>13, <1>14, <1>15, <1>16, <1>17, <1>18, <1>19, <1>20, <1>21, <1>22, <1>23,
     <1>24, <1>25, <1>26
     DEF Next, RunStep, ItemStep, DeletionStep

\* Every step keeps the caches honest.
LEMMA CacheStep ==
  ASSUME ConstantsAssumption, TypeOK, KeyInv, EarnedInv, CacheInv, [Next]_vars
  PROVE  CacheInv'
<1>1. ASSUME NEW r \in Runs, BeginAdd(r) PROVE CacheInv'
  <2>1. preread[r] = {}
    BY <1>1 DEF CacheInv, Begin, BeginAdd
  <2>2. \A q \in Runs \ {r} : phase'[q] = phase[q] /\ wf'[q] = wf[q] /\ ds'[q] = ds[q]
    BY <1>1 DEF Begin, BeginAdd, TypeOK
  <2>3. UNCHANGED <<cache, preread, earned>>
    BY <1>1 DEF Begin, BeginAdd, caches
  <2> QED
    BY <2>1, <2>2, <2>3 DEF CacheInv, Key
<1>2. ASSUME NEW r \in Runs, BeginMemorize(r) PROVE CacheInv'
  <2>1. preread[r] = {}
    BY <1>2 DEF CacheInv, Begin, BeginMemorize
  <2>2. \A q \in Runs \ {r} : phase'[q] = phase[q] /\ wf'[q] = wf[q] /\ ds'[q] = ds[q]
    BY <1>2 DEF Begin, BeginMemorize, TypeOK
  <2>3. UNCHANGED <<cache, preread, earned>>
    BY <1>2 DEF Begin, BeginMemorize, caches
  <2> QED
    BY <2>1, <2>2, <2>3 DEF CacheInv, Key
<1>3. ASSUME NEW r \in Runs, NextBatch(r) PROVE CacheInv'
  <2>1. Key(r) \in Keys /\ preread[r] = {}
    BY <1>3 DEF NextBatch, KeyInv, CacheInv, Key, Keys, TypeOK
  <2>2. \/ phase'[r] = "preload" /\ preread'[r] \subseteq {i \in Items : Key(r) \in marks[i]}
        \/ preread'[r] = {}
    BY <2>1, <1>3 DEF NextBatch, TypeOK
  <2>3. \A i \in preread'[r] : phase'[r] = "preload" /\ <<i, Key(r)>> \in earned
    BY <2>1, <2>2 DEF EarnedInv, MarksAreEarned
  <2>4. \A q \in Runs \ {r} : phase'[q] = phase[q] /\ preread'[q] = preread[q]
    BY <1>3 DEF NextBatch, TypeOK
  <2>5. UNCHANGED <<cache, earned, wf, ds>>
    BY <1>3 DEF NextBatch, caches
  <2> QED
    BY <2>3, <2>4, <2>5 DEF CacheInv, Key
<1>4. ASSUME NEW r \in Runs, FillCache(r) PROVE CacheInv'
  BY <1>4 DEF FillCache, Key, CacheInv, TypeOK
<1>5. ASSUME NEW r \in Runs, EndBatch(r) PROVE CacheInv'
  BY <1>5 DEF EndBatch, Idle, CacheInv, Key, caches
<1>6. ASSUME NEW r \in Runs, EndRun(r) PROVE CacheInv'
  BY <1>6 DEF EndRun, CacheInv, Key
<1>7. ASSUME NEW r \in Runs, Return(r) PROVE CacheInv'
  BY <1>7 DEF Return, Forget, Idle, CacheInv, Key, TypeOK, caches
<1>8. ASSUME NEW r \in Runs, StopRun(r) PROVE CacheInv'
  BY <1>8 DEF StopRun, Forget, Idle, CacheInv, Key, TypeOK, caches
<1>9. ASSUME NEW r \in Runs, NEW i \in Items, CheckItem(r, i) PROVE CacheInv'
  BY <1>9 DEF CheckItem, Move, CacheInv, Key, caches, control
<1>10. ASSUME NEW r \in Runs, NEW i \in Items, MemorizeItem(r, i) PROVE CacheInv'
  BY <1>10 DEF MemorizeItem, Move, EndTasks, Key, CacheInv, caches, control
<1>11. ASSUME NEW r \in Runs, NEW i \in Items, ListDataset(r, i) PROVE CacheInv'
  BY <1>11 DEF ListDataset, Move, CacheInv, Key, caches, control
<1>12. ASSUME NEW r \in Runs, NEW i \in Items, LookUpRow(r, i) PROVE CacheInv'
  BY <1>12 DEF LookUpRow, Move, CacheInv, Key, caches, control
<1>13. ASSUME NEW r \in Runs, NEW i \in Items, CommitItem(r, i) PROVE CacheInv'
  BY <1>13 DEF CommitItem, Move, EndTasks, Key, Unload, CacheInv, caches, control
<1>14. ASSUME NEW r \in Runs, NEW i \in Items, LoadState(r, i) PROVE CacheInv'
  BY <1>14 DEF LoadState, Move, CacheInv, Key, caches, control
<1>15. ASSUME NEW r \in Runs, NEW i \in Items, WriteState(r, i) PROVE CacheInv'
  BY <1>15 DEF WriteState, Move, Key, Unload, CacheInv, caches, control
<1>16. ASSUME NEW r \in Runs, NEW i \in Items, FailItem(r, i) PROVE CacheInv'
  BY <1>16 DEF FailItem, Move, Unload, CacheInv, Key, TypeOK, caches, control
<1>17. ASSUME NEW d \in Datasets, DeleteDataset(d) PROVE CacheInv'
  BY <1>17 DEF DeleteDataset, CacheInv, Key, caches, control
<1>18. ASSUME NEW d \in Datasets, NEW i \in Items, DeleteDocument(i, d) PROVE CacheInv'
  BY <1>18 DEF DeleteDocument, CacheInv, Key, caches, control
<1>19. ASSUME NEW i \in Items, DeleteData(i) PROVE CacheInv'
  BY <1>19 DEF DeleteData, CacheInv, Key, caches, control
<1>20. ASSUME ClearStates PROVE CacheInv'
  BY <1>20 DEF ClearStates, CacheInv, Key, caches, control
<1>21. ASSUME DropStore PROVE CacheInv'
  BY <1>21 DEF DropStore, CacheInv, Key, caches, control
<1>22. ASSUME DropRow PROVE CacheInv'
  BY <1>22 DEF DropRow, EndDeletion, CacheInv, Key, caches, control
<1>23. ASSUME PurgeDocument PROVE CacheInv'
  BY <1>23 DEF PurgeDocument, EndDeletion, CacheInv, Key, caches, control
<1>24. ASSUME StopDeletion PROVE CacheInv'
  BY <1>24 DEF StopDeletion, EndDeletion, CacheInv, Key, caches, control
<1>25. ASSUME Crash PROVE CacheInv'
  BY <1>25 DEF Crash, EndDeletion, Idle, CacheInv
<1>26. ASSUME UNCHANGED vars PROVE CacheInv'
  BY <1>26 DEF vars, CacheInv, Key, caches, control
<1> QED
  BY <1>1, <1>2, <1>3, <1>4, <1>5, <1>6, <1>7, <1>8, <1>9, <1>10, <1>11, <1>12,
     <1>13, <1>14, <1>15, <1>16, <1>17, <1>18, <1>19, <1>20, <1>21, <1>22, <1>23,
     <1>24, <1>25, <1>26
     DEF Next, RunStep, ItemStep, DeletionStep

\* Every step keeps what a run without errors has behind it earned.
LEMMA CoverStep ==
  ASSUME ConstantsAssumption, TypeOK, KeyInv, EarnedInv, CacheInv, CoverInv, [Next]_vars
  PROVE  CoverInv'
<1>1. ASSUME NEW r \in Runs, BeginAdd(r) PROVE CoverInv'
  BY <1>1 DEF BeginAdd, Begin, CoverInv, Covered, Key, Live, TypeOK
<1>2. ASSUME NEW r \in Runs, BeginMemorize(r) PROVE CoverInv'
  BY <1>2 DEF BeginMemorize, Begin, Linked, CoverInv, Covered, Key, Live, TypeOK
<1>3. ASSUME NEW r \in Runs, NextBatch(r) PROVE CoverInv'
  BY <1>3 DEF NextBatch, Key, CoverInv, Covered, Live, TypeOK
<1>4. ASSUME NEW r \in Runs, FillCache(r) PROVE CoverInv'
  <2>1. \A q \in Runs \ {r} : Covered(q)'
    BY <1>4
       DEF FillCache, CoverInv, Covered, Live, Key, TypeOK, stored, caches,
           control, deletion
  <2>2. Covered(r)
    BY DEF CoverInv
  <2>3. /\ phase[r] = "preload" /\ phase'[r] = "items"
        /\ UNCHANGED <<stage, items, todo, failed, earned, wf, ds>>
    BY <1>4 DEF FillCache, TypeOK
  <2>4. Covered(r)'
    BY <2>2, <2>3 DEF Covered, Key, TypeOK
  <2> QED
    BY <2>1, <2>4 DEF CoverInv
<1>5. ASSUME NEW r \in Runs, EndBatch(r) PROVE CoverInv'
  <2>1. \A q \in Runs \ {r} : Covered(q)'
    BY <1>5
       DEF EndBatch, Idle, CoverInv, Covered, Live, Key, TypeOK, stored, caches,
           control, deletion
  <2>2. Covered(r)
    BY DEF CoverInv
  <2>3. /\ phase[r] = "items" /\ phase'[r] = "batch"
        /\ \A i \in Items : stage[r][i] \in {"none", "done", "failed"} /\ stage'[r][i] = "none"
        /\ ~failed'[r] => ~failed[r] /\ \A i \in Items : stage[r][i] # "failed"
        /\ UNCHANGED <<items, todo, earned, wf, ds>>
    <3>1. \A i \in Items : stage[r][i] \in Stages \ (Busy \cup {"check"})
      BY <1>5 DEF EndBatch, Live, TypeOK
    <3>2. failed'[r] = (failed[r] \/ \E i \in Items : stage[r][i] = "failed")
      BY <1>5 DEF EndBatch, TypeOK
    <3>3. phase[r] = "items" /\ phase'[r] = "batch" /\ UNCHANGED <<items, todo, earned, wf, ds>>
      BY <1>5 DEF EndBatch, TypeOK
    <3>4. \A i \in Items : stage'[r][i] = "none"
      BY <1>5 DEF EndBatch, Idle, TypeOK
    <3> QED
      BY <3>1, <3>2, <3>3, <3>4 DEF Stages
  <2>4. items[r] \subseteq Items
    BY DEF TypeOK
  <2>5. Covered(r)'
    BY <2>2, <2>3, <2>4 DEF Covered, Key, Live, Busy
  <2> QED
    BY <2>1, <2>5 DEF CoverInv
<1>6. ASSUME NEW r \in Runs, EndRun(r) PROVE CoverInv'
  BY <1>6 DEF EndRun, CoverInv, Covered, Key, Live
<1>7. ASSUME NEW r \in Runs, Return(r) PROVE CoverInv'
  BY <1>7 DEF Return, Forget, Idle, CoverInv, Covered, Key, Live, TypeOK
<1>8. ASSUME NEW r \in Runs, StopRun(r) PROVE CoverInv'
  BY <1>8 DEF StopRun, Forget, Idle, CoverInv, Covered, Key, Live, TypeOK
<1>9. ASSUME NEW r \in Runs, NEW i \in Items, CheckItem(r, i) PROVE CoverInv'
  <2>1. \A q \in Runs \ {r} : Covered(q)'
    BY <1>9
       DEF CheckItem, Move, CoverInv, Covered, Live, Key, TypeOK, stored, caches,
           control, deletion
  <2>2. Covered(r)
    BY DEF CoverInv
  <2>3. phase[r] \in {"idle", "items"}
    BY <2>2, <1>9 DEF CheckItem, Turn, Covered, Live, TypeOK, Phases
  <2>4. /\ stage'[r][i] \in {"done", "tasks"}
        /\ \A j \in Items \ {i} : stage'[r][j] = stage[r][j]
        /\ stage'[r][i] = "done" => FoundProcessed(r, i)
        /\ UNCHANGED <<phase, items, todo, failed, earned, wf, ds>>
    BY <1>9 DEF CheckItem, Move, control, TypeOK
  <2>5. Key(r) \in Keys
    BY <1>9 DEF CheckItem, KeyInv, Live, Key, Keys, TypeOK
  <2>6. stage'[r][i] = "done" => <<i, Key(r)>> \in earned
    BY <2>4, <2>5 DEF FoundProcessed, CacheInv, EarnedInv, MarksAreEarned
  <2>7. items[r] \subseteq Items
    BY DEF TypeOK
  <2>8. Covered(r)'
    <3>1. CASE phase[r] = "items"
      BY <2>2, <2>4, <2>6, <2>7, <3>1, <1>9 DEF Covered, Key, CheckItem
    <3>2. CASE phase[r] = "idle"
      BY <2>4, <3>2 DEF Covered
    <3> QED
      BY <2>3, <3>1, <3>2
  <2> QED
    BY <2>1, <2>8 DEF CoverInv
<1>10. ASSUME NEW r \in Runs, NEW i \in Items, MemorizeItem(r, i) PROVE CoverInv'
  BY <1>10
     DEF MemorizeItem, Move, EndTasks, Key, CoverInv, Covered, Live, Busy, control
<1>11. ASSUME NEW r \in Runs, NEW i \in Items, ListDataset(r, i) PROVE CoverInv'
  BY <1>11 DEF ListDataset, Move, CoverInv, Covered, Key, Live, Busy, control
<1>12. ASSUME NEW r \in Runs, NEW i \in Items, LookUpRow(r, i) PROVE CoverInv'
  BY <1>12 DEF LookUpRow, Move, CoverInv, Covered, Key, Live, Busy, control
<1>13. ASSUME NEW r \in Runs, NEW i \in Items, CommitItem(r, i) PROVE CoverInv'
  BY <1>13
     DEF CommitItem, Move, EndTasks, Key, Unload, CoverInv, Covered, Live, Busy,
         control
<1>14. ASSUME NEW r \in Runs, NEW i \in Items, LoadState(r, i) PROVE CoverInv'
  BY <1>14
     DEF LoadState, Move, CoverInv, Covered, EarnedInv, MarksAreEarned, Key, Live,
         Busy, control
<1>15. ASSUME NEW r \in Runs, NEW i \in Items, WriteState(r, i) PROVE CoverInv'
  BY <1>15
     DEF WriteState, Move, Key, Unload, CoverInv, Covered, EarnedInv,
         MarksAreEarned, Live, Busy, control
<1>16. ASSUME NEW r \in Runs, NEW i \in Items, FailItem(r, i) PROVE CoverInv'
  <2>1. \A q \in Runs \ {r} : Covered(q)'
    BY <1>16
       DEF FailItem, Move, CoverInv, Covered, Live, Key, TypeOK, stored, caches,
           control, deletion
  <2>2. Covered(r)
    BY DEF CoverInv
  <2>3. phase[r] \in {"idle", "items"}
    BY <2>2, <1>16 DEF FailItem, Turn, Covered, Live, Busy, TypeOK, Phases
  <2>4. Covered(r)'
    <3>1. CASE phase'[r] = "idle"
      BY <3>1 DEF Covered
    <3>2. CASE phase[r] = "items" /\ Move(r, i, "failed") /\ UNCHANGED control
      <4>1. UNCHANGED <<phase, items, todo, failed, wf, ds, earned>>
        BY <3>2, <1>16 DEF FailItem, control
      <4>2. /\ stage'[r][i] = "failed"
            /\ \A j \in Items \ {i} : stage'[r][j] = stage[r][j]
        BY <3>2 DEF Move, TypeOK
      <4>3. items[r] \subseteq Items
        BY DEF TypeOK
      <4> QED
        BY <2>2, <3>2, <4>1, <4>2, <4>3 DEF Covered, Key
    <3> QED
      BY <2>3, <3>1, <3>2, <1>16 DEF FailItem, control, TypeOK
  <2> QED
    BY <2>1, <2>4 DEF CoverInv
<1>17. ASSUME NEW d \in Datasets, DeleteDataset(d) PROVE CoverInv'
  BY <1>17 DEF DeleteDataset, CoverInv, Covered, Key, Live, control
<1>18. ASSUME NEW d \in Datasets, NEW i \in Items, DeleteDocument(i, d) PROVE CoverInv'
  BY <1>18 DEF DeleteDocument, CoverInv, Covered, Key, Live, control
<1>19. ASSUME NEW i \in Items, DeleteData(i) PROVE CoverInv'
  BY <1>19 DEF DeleteData, CoverInv, Covered, Key, Live, control
<1>20. ASSUME ClearStates PROVE CoverInv'
  BY <1>20 DEF ClearStates, CoverInv, Covered, Key, Live, control
<1>21. ASSUME DropStore PROVE CoverInv'
  BY <1>21 DEF DropStore, CoverInv, Covered, Key, Live, control
<1>22. ASSUME DropRow PROVE CoverInv'
  BY <1>22 DEF DropRow, EndDeletion, CoverInv, Covered, Key, Live, control
<1>23. ASSUME PurgeDocument PROVE CoverInv'
  BY <1>23 DEF PurgeDocument, EndDeletion, CoverInv, Covered, Key, Live, control
<1>24. ASSUME StopDeletion PROVE CoverInv'
  BY <1>24 DEF StopDeletion, EndDeletion, CoverInv, Covered, Key, Live, control
<1>25. ASSUME Crash PROVE CoverInv'
  BY <1>25 DEF Crash, EndDeletion, Idle, CoverInv, Covered
<1>26. ASSUME UNCHANGED vars PROVE CoverInv'
  BY <1>26 DEF vars, CoverInv, Covered, Key, Live, control
<1> QED
  BY <1>1, <1>2, <1>3, <1>4, <1>5, <1>6, <1>7, <1>8, <1>9, <1>10, <1>11, <1>12,
     <1>13, <1>14, <1>15, <1>16, <1>17, <1>18, <1>19, <1>20, <1>21, <1>22, <1>23,
     <1>24, <1>25, <1>26
     DEF Next, RunStep, ItemStep, DeletionStep

-----------------------------------------------------------------------------
ProcessingInv == TypeOK /\ KeyInv /\ EarnedInv /\ CacheInv /\ CoverInv

\* The strengthened invariant is inductive, for every value of the constants.
LEMMA ProcessingInvariant == Spec => []ProcessingInv
<1>1. ASSUME Init PROVE TypeOK
  BY <1>1 DEF Init, TypeOK, Workflows, Phases, Stages
<1>2. ASSUME Init PROVE KeyInv
  BY <1>2 DEF Init, KeyInv, Live, Busy
<1>3. ASSUME Init PROVE EarnedInv /\ CacheInv
  BY <1>3 DEF Init, EarnedInv, MarksAreEarned, CacheInv
<1>4. ASSUME Init PROVE CoverInv
  BY <1>4 DEF Init, CoverInv, Covered
<1>5. Init => ProcessingInv
  BY <1>1, <1>2, <1>3, <1>4 DEF ProcessingInv
<1>6. ProcessingInv /\ [Next]_vars => ProcessingInv'
  BY ConstantsAssumption, TypeStep, KeyStep, EarnedStep, CacheStep, CoverStep
     DEF ProcessingInv
<1> QED
  BY <1>5, <1>6, PTL DEF Spec

\* The types are kept for any number of runs, items and datasets, any batch
\* size, serial or parallel, with any deletions: the state of ItemProcessing.
THEOREM TypeCorrect == Spec => []TypeOK
BY ProcessingInvariant, PTL DEF ProcessingInv

\* _mark_completed, the cleanup of delete_dataset and the merge of ingest_data
\* write back documents that may be stale, but never an entry of a task chain
\* that did not run to its end.
THEOREM MarksAlwaysEarned == Spec => []MarksAreEarned
<1>1. ProcessingInv => MarksAreEarned
  BY DEF ProcessingInv, EarnedInv
<1> QED
  BY <1>1, ProcessingInvariant, PTL

\* A run whose process_data_items reports no error owes no item of its payload,
\* whatever the shared cache, the preload and concurrent runs did.
THEOREM CompletedRunNeverOwes == Spec => []CompletedRunOwesNothing
<1>1. ProcessingInv => CompletedRunOwesNothing
  BY DEF ProcessingInv, CoverInv, Covered, CompletedRunOwesNothing
<1> QED
  BY <1>1, ProcessingInvariant, PTL

-----------------------------------------------------------------------------
(* Runs and deletions that do not overlap *)

\* A run with work under way, or with coroutines that outlive it.
Active(r) == phase[r] # "idle" \/ Live(r) # {}

\* Links and entries have a row, and so have those a deletion writes back.
RowsInv ==
  /\ \A i \in Items : marks[i] # {} => i \in rows
  /\ \A i \in Items, d \in Datasets : <<i, d>> \in links => i \in rows
  /\ dpc = "clear" => \A i \in Items : dsnap[i] # {} => i \in rows

\* Only runs of memorize_pipeline that load incrementally have a cache.
KindInv ==
  /\ \A k \in cached : k[1] = "memorize_pipeline"
  /\ \A r \in Runs : phase[r] = "preload" => wf[r] = "memorize_pipeline" /\ incremental[r]

\* Unless they have overlapped, one run at most is active, or a deletion is.
AloneInv ==
  ~overlapped =>
    /\ \A q, r \in Runs : Active(q) /\ Active(r) => q = r
    /\ dpc # "idle" => \A r \in Runs : ~Active(r)

\* A run or deletion that begins while another is active is recorded as an overlap.
LEMMA AloneStep ==
  ASSUME ConstantsAssumption, TypeOK, AloneInv, [Next]_vars
  PROVE  AloneInv'
<1>1. ASSUME NEW r \in Runs, BeginAdd(r) PROVE AloneInv'
  <2>1. overlapped' = (overlapped \/ ~Quiet) /\ UNCHANGED <<stage, dpc>>
    BY <1>1 DEF BeginAdd, Begin, deletion
  <2>2. \A q \in Runs \ {r} : phase'[q] = phase[q]
    BY <1>1 DEF BeginAdd, Begin
  <2> QED
    BY <2>1, <2>2 DEF AloneInv, Active, Live, Quiet
<1>2. ASSUME NEW r \in Runs, BeginMemorize(r) PROVE AloneInv'
  <2>1. overlapped' = (overlapped \/ ~Quiet) /\ UNCHANGED <<stage, dpc>>
    BY <1>2 DEF BeginMemorize, Begin, deletion
  <2>2. \A q \in Runs \ {r} : phase'[q] = phase[q]
    BY <1>2 DEF BeginMemorize, Begin
  <2> QED
    BY <2>1, <2>2 DEF AloneInv, Active, Live, Quiet
<1>3. ASSUME NEW r \in Runs, NextBatch(r) PROVE AloneInv'
  <2>1. Active(r) /\ UNCHANGED <<overlapped, dpc>>
    BY <1>3 DEF NextBatch, Active, deletion
  <2>2. \A q \in Runs \ {r} : phase'[q] = phase[q] /\ stage'[q] = stage[q]
    BY <1>3 DEF NextBatch, TypeOK
  <2> QED
    BY <2>1, <2>2 DEF AloneInv, Active, Live
<1>4. ASSUME NEW r \in Runs, FillCache(r) PROVE AloneInv'
  BY <1>4 DEF FillCache, AloneInv, Active, Live, deletion
<1>5. ASSUME NEW r \in Runs, EndBatch(r) PROVE AloneInv'
  BY <1>5 DEF EndBatch, AloneInv, Active, Live, deletion
<1>6. ASSUME NEW r \in Runs, EndRun(r) PROVE AloneInv'
  BY <1>6 DEF EndRun, AloneInv, Active, Live, deletion
<1>7. ASSUME NEW r \in Runs, Return(r) PROVE AloneInv'
  BY <1>7 DEF Return, Forget, AloneInv, Active, Live, deletion
<1>8. ASSUME NEW r \in Runs, StopRun(r) PROVE AloneInv'
  BY <1>8 DEF StopRun, Forget, AloneInv, Active, Live, deletion
<1>9. ASSUME NEW r \in Runs, NEW i \in Items, CheckItem(r, i) PROVE AloneInv'
  BY <1>9 DEF CheckItem, Move, AloneInv, Active, Live, control, deletion
<1>10. ASSUME NEW r \in Runs, NEW i \in Items, MemorizeItem(r, i) PROVE AloneInv'
  BY <1>10
     DEF MemorizeItem, Move, EndTasks, AloneInv, Active, Live, Busy, control,
         deletion
<1>11. ASSUME NEW r \in Runs, NEW i \in Items, ListDataset(r, i) PROVE AloneInv'
  BY <1>11 DEF ListDataset, Move, AloneInv, Active, Live, Busy, control, deletion
<1>12. ASSUME NEW r \in Runs, NEW i \in Items, LookUpRow(r, i) PROVE AloneInv'
  BY <1>12 DEF LookUpRow, Move, AloneInv, Active, Live, Busy, control, deletion
<1>13. ASSUME NEW r \in Runs, NEW i \in Items, CommitItem(r, i) PROVE AloneInv'
  BY <1>13
     DEF CommitItem, Move, EndTasks, AloneInv, Active, Live, Busy, control,
         deletion
<1>14. ASSUME NEW r \in Runs, NEW i \in Items, LoadState(r, i) PROVE AloneInv'
  BY <1>14 DEF LoadState, Move, AloneInv, Active, Live, Busy, control, deletion
<1>15. ASSUME NEW r \in Runs, NEW i \in Items, WriteState(r, i) PROVE AloneInv'
  BY <1>15 DEF WriteState, Move, AloneInv, Active, Live, Busy, control, deletion
<1>16. ASSUME NEW r \in Runs, NEW i \in Items, FailItem(r, i) PROVE AloneInv'
  <2>1. Active(r) /\ UNCHANGED <<overlapped, dpc>>
    BY <1>16 DEF FailItem, Active, Live, deletion
  <2>2. \A q \in Runs \ {r} : phase'[q] = phase[q] /\ stage'[q] = stage[q]
    BY <1>16 DEF FailItem, Move, control, TypeOK
  <2> QED
    BY <2>1, <2>2 DEF AloneInv, Active, Live
<1>17. ASSUME NEW d \in Datasets, DeleteDataset(d) PROVE AloneInv'
  BY <1>17 DEF DeleteDataset, AloneInv, Active, Live, Quiet, control
<1>18. ASSUME NEW d \in Datasets, NEW i \in Items, DeleteDocument(i, d) PROVE AloneInv'
  BY <1>18 DEF DeleteDocument, AloneInv, Active, Live, Quiet, control
<1>19. ASSUME NEW i \in Items, DeleteData(i) PROVE AloneInv'
  BY <1>19 DEF DeleteData, AloneInv, Active, Live, control, deletion
<1>20. ASSUME ClearStates PROVE AloneInv'
  BY <1>20 DEF ClearStates, AloneInv, Active, Live, control
<1>21. ASSUME DropStore PROVE AloneInv'
  BY <1>21 DEF DropStore, AloneInv, Active, Live, control
<1>22. ASSUME DropRow PROVE AloneInv'
  BY <1>22 DEF DropRow, EndDeletion, AloneInv, Active, Live, control
<1>23. ASSUME PurgeDocument PROVE AloneInv'
  BY <1>23 DEF PurgeDocument, EndDeletion, AloneInv, Active, Live, control
<1>24. ASSUME StopDeletion PROVE AloneInv'
  BY <1>24 DEF StopDeletion, EndDeletion, AloneInv, Active, Live, control
<1>25. ASSUME Crash PROVE AloneInv'
  BY <1>25 DEF Crash, EndDeletion, Idle, AloneInv, Active, Live, Busy
<1>26. ASSUME UNCHANGED vars PROVE AloneInv'
  BY <1>26 DEF vars, AloneInv, Active, Live, control, deletion
<1> QED
  BY <1>1, <1>2, <1>3, <1>4, <1>5, <1>6, <1>7, <1>8, <1>9, <1>10, <1>11, <1>12,
     <1>13, <1>14, <1>15, <1>16, <1>17, <1>18, <1>19, <1>20, <1>21, <1>22, <1>23,
     <1>24, <1>25, <1>26
     DEF Next, RunStep, ItemStep, DeletionStep

\* A row goes with its links and its entries.
LEMMA RowsStep ==
  ASSUME ConstantsAssumption, TypeOK, RowsInv, [Next]_vars
  PROVE  RowsInv'
<1>1. ASSUME NEW r \in Runs, BeginAdd(r) PROVE RowsInv'
  BY <1>1 DEF BeginAdd, Begin, RowsInv, stored, deletion
<1>2. ASSUME NEW r \in Runs, BeginMemorize(r) PROVE RowsInv'
  BY <1>2 DEF BeginMemorize, Begin, RowsInv, stored, deletion
<1>3. ASSUME NEW r \in Runs, NextBatch(r) PROVE RowsInv'
  BY <1>3 DEF NextBatch, RowsInv, stored, deletion
<1>4. ASSUME NEW r \in Runs, FillCache(r) PROVE RowsInv'
  BY <1>4 DEF FillCache, RowsInv, stored, deletion
<1>5. ASSUME NEW r \in Runs, EndBatch(r) PROVE RowsInv'
  BY <1>5 DEF EndBatch, RowsInv, stored, deletion
<1>6. ASSUME NEW r \in Runs, EndRun(r) PROVE RowsInv'
  BY <1>6 DEF EndRun, RowsInv, stored, deletion
<1>7. ASSUME NEW r \in Runs, Return(r) PROVE RowsInv'
  BY <1>7 DEF Return, Forget, RowsInv, stored, deletion
<1>8. ASSUME NEW r \in Runs, StopRun(r) PROVE RowsInv'
  BY <1>8 DEF StopRun, Forget, RowsInv, stored, deletion
<1>9. ASSUME NEW r \in Runs, NEW i \in Items, CheckItem(r, i) PROVE RowsInv'
  BY <1>9 DEF CheckItem, RowsInv, stored, deletion
<1>10. ASSUME NEW r \in Runs, NEW i \in Items, MemorizeItem(r, i) PROVE RowsInv'
  BY <1>10 DEF MemorizeItem, RowsInv, deletion
<1>11. ASSUME NEW r \in Runs, NEW i \in Items, ListDataset(r, i) PROVE RowsInv'
  BY <1>11 DEF ListDataset, RowsInv, stored, deletion
<1>12. ASSUME NEW r \in Runs, NEW i \in Items, LookUpRow(r, i) PROVE RowsInv'
  BY <1>12 DEF LookUpRow, RowsInv, stored, deletion
<1>13. ASSUME NEW r \in Runs, NEW i \in Items, CommitItem(r, i) PROVE RowsInv'
  BY <1>13 DEF CommitItem, RowsInv, TypeOK, deletion
<1>14. ASSUME NEW r \in Runs, NEW i \in Items, LoadState(r, i) PROVE RowsInv'
  BY <1>14 DEF LoadState, RowsInv, stored, deletion
<1>15. ASSUME NEW r \in Runs, NEW i \in Items, WriteState(r, i) PROVE RowsInv'
  BY <1>15 DEF WriteState, RowsInv, deletion
<1>16. ASSUME NEW r \in Runs, NEW i \in Items, FailItem(r, i) PROVE RowsInv'
  BY <1>16 DEF FailItem, RowsInv, stored, deletion
<1>17. ASSUME NEW d \in Datasets, DeleteDataset(d) PROVE RowsInv'
  BY <1>17 DEF DeleteDataset, RowsInv, stored
<1>18. ASSUME NEW d \in Datasets, NEW i \in Items, DeleteDocument(i, d) PROVE RowsInv'
  BY <1>18 DEF DeleteDocument, RowsInv
<1>19. ASSUME NEW i \in Items, DeleteData(i) PROVE RowsInv'
  BY <1>19 DEF DeleteData, RowsInv, TypeOK, deletion
<1>20. ASSUME ClearStates PROVE RowsInv'
  BY <1>20 DEF ClearStates, RowsInv
<1>21. ASSUME DropStore PROVE RowsInv'
  BY <1>21 DEF DropStore, RowsInv
<1>22. ASSUME DropRow PROVE RowsInv'
  BY <1>22 DEF DropRow, EndDeletion, RowsInv
<1>23. ASSUME PurgeDocument PROVE RowsInv'
  BY <1>23 DEF PurgeDocument, EndDeletion, RowsInv, TypeOK
<1>24. ASSUME StopDeletion PROVE RowsInv'
  BY <1>24 DEF StopDeletion, EndDeletion, RowsInv, stored
<1>25. ASSUME Crash PROVE RowsInv'
  BY <1>25 DEF Crash, EndDeletion, RowsInv, stored
<1>26. ASSUME UNCHANGED vars PROVE RowsInv'
  BY <1>26 DEF vars, RowsInv, stored, deletion
<1> QED
  BY <1>1, <1>2, <1>3, <1>4, <1>5, <1>6, <1>7, <1>8, <1>9, <1>10, <1>11, <1>12,
     <1>13, <1>14, <1>15, <1>16, <1>17, <1>18, <1>19, <1>20, <1>21, <1>22, <1>23,
     <1>24, <1>25, <1>26
     DEF Next, RunStep, ItemStep, DeletionStep

\* Only the preload of a memorizing run fills a cache.
LEMMA KindStep ==
  ASSUME ConstantsAssumption, TypeOK, KindInv, [Next]_vars
  PROVE  KindInv'
<1>1. ASSUME NEW r \in Runs, BeginAdd(r) PROVE KindInv'
  BY <1>1 DEF BeginAdd, Begin, KindInv, caches
<1>2. ASSUME NEW r \in Runs, BeginMemorize(r) PROVE KindInv'
  BY <1>2 DEF BeginMemorize, Begin, KindInv, caches
<1>3. ASSUME NEW r \in Runs, NextBatch(r) PROVE KindInv'
  BY <1>3 DEF NextBatch, KindInv, TypeOK, caches
<1>4. ASSUME NEW r \in Runs, FillCache(r) PROVE KindInv'
  BY <1>4 DEF FillCache, Key, KindInv
<1>5. ASSUME NEW r \in Runs, EndBatch(r) PROVE KindInv'
  BY <1>5 DEF EndBatch, KindInv, caches
<1>6. ASSUME NEW r \in Runs, EndRun(r) PROVE KindInv'
  BY <1>6 DEF EndRun, KindInv
<1>7. ASSUME NEW r \in Runs, Return(r) PROVE KindInv'
  BY <1>7 DEF Return, Forget, KindInv, caches
<1>8. ASSUME NEW r \in Runs, StopRun(r) PROVE KindInv'
  BY <1>8 DEF StopRun, Forget, KindInv, TypeOK, caches
<1>9. ASSUME NEW r \in Runs, NEW i \in Items, CheckItem(r, i) PROVE KindInv'
  BY <1>9 DEF CheckItem, KindInv, caches, control
<1>10. ASSUME NEW r \in Runs, NEW i \in Items, MemorizeItem(r, i) PROVE KindInv'
  BY <1>10 DEF MemorizeItem, KindInv, caches, control
<1>11. ASSUME NEW r \in Runs, NEW i \in Items, ListDataset(r, i) PROVE KindInv'
  BY <1>11 DEF ListDataset, KindInv, caches, control
<1>12. ASSUME NEW r \in Runs, NEW i \in Items, LookUpRow(r, i) PROVE KindInv'
  BY <1>12 DEF LookUpRow, KindInv, caches, control
<1>13. ASSUME NEW r \in Runs, NEW i \in Items, CommitItem(r, i) PROVE KindInv'
  BY <1>13 DEF CommitItem, KindInv, caches, control
<1>14. ASSUME NEW r \in Runs, NEW i \in Items, LoadState(r, i) PROVE KindInv'
  BY <1>14 DEF LoadState, KindInv, caches, control
<1>15. ASSUME NEW r \in Runs, NEW i \in Items, WriteState(r, i) PROVE KindInv'
  BY <1>15 DEF WriteState, KindInv, caches, control
<1>16. ASSUME NEW r \in Runs, NEW i \in Items, FailItem(r, i) PROVE KindInv'
  BY <1>16 DEF FailItem, KindInv, TypeOK, caches, control
<1>17. ASSUME NEW d \in Datasets, DeleteDataset(d) PROVE KindInv'
  BY <1>17 DEF DeleteDataset, KindInv, caches, control
<1>18. ASSUME NEW d \in Datasets, NEW i \in Items, DeleteDocument(i, d) PROVE KindInv'
  BY <1>18 DEF DeleteDocument, KindInv, caches, control
<1>19. ASSUME NEW i \in Items, DeleteData(i) PROVE KindInv'
  BY <1>19 DEF DeleteData, KindInv, caches, control
<1>20. ASSUME ClearStates PROVE KindInv'
  BY <1>20 DEF ClearStates, KindInv, caches, control
<1>21. ASSUME DropStore PROVE KindInv'
  BY <1>21 DEF DropStore, KindInv, caches, control
<1>22. ASSUME DropRow PROVE KindInv'
  BY <1>22 DEF DropRow, EndDeletion, KindInv, caches, control
<1>23. ASSUME PurgeDocument PROVE KindInv'
  BY <1>23 DEF PurgeDocument, EndDeletion, KindInv, caches, control
<1>24. ASSUME StopDeletion PROVE KindInv'
  BY <1>24 DEF StopDeletion, EndDeletion, KindInv, caches, control
<1>25. ASSUME Crash PROVE KindInv'
  BY <1>25 DEF Crash, EndDeletion, KindInv
<1>26. ASSUME UNCHANGED vars PROVE KindInv'
  BY <1>26 DEF vars, KindInv, caches, control
<1> QED
  BY <1>1, <1>2, <1>3, <1>4, <1>5, <1>6, <1>7, <1>8, <1>9, <1>10, <1>11, <1>12,
     <1>13, <1>14, <1>15, <1>16, <1>17, <1>18, <1>19, <1>20, <1>21, <1>22, <1>23,
     <1>24, <1>25, <1>26
     DEF Next, RunStep, ItemStep, DeletionStep


\* What the entry k of an item promises: the item is in the dataset and, if
\* memorized, in the graph.
Settled(i, k) ==
  /\ <<i, k[2]>> \in links
  /\ k[1] = "memorize_pipeline" => <<i, k[2]>> \in graph

\* The entries keep their promises, also those a deletion is about to remove.
RecordsSettled ==
  /\ \A i \in Items : \A k \in marks[i] : Settled(i, k)
  /\ dpc # "purge"
  /\ dpc = "clear" => ditems = Linked(dds) /\ \A i \in ditems : dsnap[i] = marks[i]
  /\ dpc \in {"store", "row"} => \A i \in Items, w \in Workflows : <<w, dds>> \notin marks[i]

\* What an item of a run has found, and is about to write, is true.
ItemSettled(r, i) ==
  /\ stage[r][i] \in {"update", "write"} => \A k \in snap[r][i] : Settled(i, k)
  /\ stage[r][i] \in {"mark", "write"} => Settled(i, Key(r))
  /\ stage[r][i] \in {"seen", "update"} => <<i, ds[r]>> \in links
  /\ stage[r][i] \in {"seen", "unseen", "update", "join", "new"} => wf[r] = "add_pipeline"
  /\ stage[r][i] # "skip"

\* A run works on its payload, which is in the dataset if it is memorized, and
\* what it has behind it is settled.
RunSettled(r) ==
  /\ wf[r] = "memorize_pipeline" => items[r] \subseteq Linked(ds[r])
  /\ todo[r] \cup Live(r) \subseteq items[r]
  /\ phase[r] \in {"batch", "preload", "items"} /\ ~failed[r] =>
       \A i \in items[r] \ todo[r] :
         \/ phase[r] # "batch" /\ stage[r][i] \notin {"none", "done"}
         \/ Settled(i, Key(r))
  /\ phase[r] = "items" =>
       \A i \in Items : stage[r][i] = "done" => Settled(i, Key(r))
  /\ phase[r] = "completed" => \A i \in items[r] : Settled(i, Key(r))
  /\ \A i \in Items : ItemSettled(r, i)

SettledInv ==
  ~overlapped => RecordsSettled /\ \A r \in Runs : Active(r) => RunSettled(r)

Seen(r, i) == i \in rows /\ Key(r) \in marks[i]

\* A memorizing run finds in its preload, and then in the cache, what the row
\* says of an item that is still to be checked.
Fresh(r, i) ==
  stage[r][i] = "check" /\ incremental[r] /\ wf[r] = "memorize_pipeline" =>
    IF phase[r] = "preload" THEN i \in preread[r] <=> Seen(r, i)
    ELSE Key(r) \in cached /\ (i \in cache[Key(r)] <=> Seen(r, i))

FreshInv == ~overlapped => \A r \in Runs, i \in Items : Fresh(r, i)

\* A step of a run that overlaps nothing.
LEMMA OnlyRun ==
  ASSUME ConstantsAssumption, TypeOK, AloneInv, ~overlapped',
         NEW r \in Runs, RunStep(r) \/ \E i \in Items : ItemStep(r, i)
  PROVE  /\ ~overlapped /\ dpc = "idle" /\ dpc' = "idle"
         /\ \A q \in Runs \ {r} : ~Active(q) /\ ~Active(q)'
<1>1. CASE BeginAdd(r) \/ BeginMemorize(r)
  <2>1. ~overlapped /\ Quiet /\ UNCHANGED <<stage, dpc>>
    BY <1>1 DEF BeginAdd, BeginMemorize, Begin, deletion
  <2>2. \A q \in Runs \ {r} : phase'[q] = phase[q]
    BY <1>1 DEF BeginAdd, BeginMemorize, Begin, TypeOK
  <2> QED
    BY <2>1, <2>2 DEF Active, Live, Quiet
<1>2. CASE ~(BeginAdd(r) \/ BeginMemorize(r))
  <2>1. Active(r) /\ UNCHANGED <<overlapped, dpc>>
    BY <1>2
       DEF RunStep, ItemStep, NextBatch, FillCache, EndBatch, EndRun, Return,
           StopRun,
         CheckItem, MemorizeItem, ListDataset, LookUpRow, CommitItem, LoadState, WriteState,
         FailItem, deletion, Active, Live, Busy
  <2>2. \A q \in Runs \ {r} : phase'[q] = phase[q] /\ stage'[q] = stage[q]
    <3>1. CASE NextBatch(r)
      BY <3>1 DEF NextBatch, TypeOK
    <3>2. CASE FillCache(r) \/ EndBatch(r) \/ EndRun(r) \/ Return(r) \/ StopRun(r)
      BY <3>2 DEF FillCache, EndBatch, EndRun, Return, StopRun, Forget, TypeOK
    <3>3. ASSUME NEW i \in Items, ItemStep(r, i), ~FailItem(r, i)
          PROVE  \A q \in Runs \ {r} : phase'[q] = phase[q] /\ stage'[q] = stage[q]
      BY <3>3
         DEF ItemStep, CheckItem, MemorizeItem, ListDataset, LookUpRow,
             CommitItem,
           LoadState, WriteState, Move, EndTasks, control, TypeOK
    <3>4. ASSUME NEW i \in Items, FailItem(r, i)
          PROVE  \A q \in Runs \ {r} : phase'[q] = phase[q] /\ stage'[q] = stage[q]
      BY <3>4 DEF FailItem, Move, control, TypeOK
    <3> QED
      BY <1>2, <3>1, <3>2, <3>3, <3>4 DEF RunStep
  <2> QED
    BY <2>1, <2>2 DEF AloneInv, Active, Live
<1> QED
  BY <1>1, <1>2

\* Every step keeps the preload and the cache fresh: other runs are not active,
\* and the step of a run leaves the rows of the items to check alone.
LEMMA FreshStep ==
  ASSUME ConstantsAssumption, TypeOK, KeyInv, AloneInv, CoverInv, FreshInv, [Next]_vars
  PROVE  FreshInv'
<1> SUFFICES ASSUME ~overlapped' PROVE \A r \in Runs, i \in Items : Fresh(r, i)'
  BY DEF FreshInv
<1>1. ASSUME NEW r \in Runs, RunStep(r) \/ \E i \in Items : ItemStep(r, i)
      PROVE  \A q \in Runs, j \in Items : Fresh(q, j)'
  <2>1. /\ ~overlapped /\ \A j \in Items : Fresh(r, j)
        /\ \A q \in Runs \ {r} : ~Active(q)'
    BY <1>1, OnlyRun DEF FreshInv
  <2>2. \A q \in Runs \ {r}, j \in Items : Fresh(q, j)'
    BY <2>1 DEF Fresh, Active, Live
  <2> SUFFICES ASSUME NEW j \in Items PROVE Fresh(r, j)'
    BY <2>2
  <2>3. CASE BeginAdd(r) \/ BeginMemorize(r)
    BY <2>3 DEF BeginAdd, BeginMemorize, Begin, Fresh, Live
  <2>4. CASE NextBatch(r)
    <3>1. CASE phase'[r] = "preload"
      <4>1. PICK b \in SUBSET todo[r] :
              /\ stage' = [stage EXCEPT ![r] = [i \in Items |-> IF i \in b THEN "check" ELSE "none"]]
              /\ preread' = [preread EXCEPT ![r] = {i \in b \cap rows : Key(r) \in marks[i]}]
        BY <2>4, <3>1 DEF NextBatch, TypeOK
      <4>2. stage'[r][j] = "check" => j \in b
        BY <4>1 DEF TypeOK
      <4>3. preread'[r] = {i \in b \cap rows : Key(r) \in marks[i]}
        BY <4>1 DEF TypeOK
      <4>4. UNCHANGED <<wf, ds, rows, marks>>
        BY <2>4 DEF NextBatch, stored
      <4> QED
        BY <3>1, <4>2, <4>3, <4>4 DEF Fresh, Seen, Key
    <3>2. CASE phase'[r] # "preload"
      BY <2>4, <3>2 DEF NextBatch, Fresh, TypeOK
    <3> QED
      BY <3>1, <3>2
  <2>5. CASE FillCache(r)
    <3>1. Key(r) \in Keys
      BY <2>5 DEF FillCache, KeyInv, Key, Keys, TypeOK
    <3>2. /\ phase[r] = "preload" /\ phase'[r] = "items"
          /\ Key(r) \in cached' /\ cache'[Key(r)] = preread[r]
          /\ UNCHANGED <<stage, incremental, wf, ds, rows, marks>>
      BY <2>5, <3>1 DEF FillCache, stored, TypeOK
    <3> QED
      BY <2>1, <3>2 DEF Fresh, Seen, Key
  <2>6. CASE EndBatch(r) \/ Return(r) \/ StopRun(r)
    BY <2>6 DEF EndBatch, Return, StopRun, Forget, Idle, Fresh, TypeOK
  <2>7. CASE EndRun(r)
    BY <2>7 DEF EndRun, CoverInv, Covered, Live, Fresh
  <2>8. ASSUME NEW i \in Items, ItemStep(r, i), ~FailItem(r, i)
        PROVE  Fresh(r, j)'
    <3>1. CASE i = j
      BY <2>8, <3>1
         DEF ItemStep, CheckItem, MemorizeItem, ListDataset, LookUpRow,
             CommitItem,
           LoadState, WriteState, Move, EndTasks, Fresh, TypeOK
    <3>2. CASE i # j
      <4>1. /\ stage'[r][j] = stage[r][j] /\ UNCHANGED <<caches, control>>
            /\ marks'[j] = marks[j] /\ (j \in rows' <=> j \in rows)
        BY <2>8, <3>2
           DEF ItemStep, CheckItem, MemorizeItem, ListDataset, LookUpRow,
               CommitItem,
             LoadState, WriteState, Move, EndTasks, stored, TypeOK
      <4> QED
        BY <2>1, <4>1 DEF Fresh, Seen, Key, caches, control
    <3> QED
      BY <3>1, <3>2
  <2>9. ASSUME NEW i \in Items, FailItem(r, i)
        PROVE  Fresh(r, j)'
    <3>1. /\ stage'[r][j] = "check" => stage[r][j] = "check" /\ (phase'[r] = phase[r] \/ phase[r] = "items")
          /\ phase'[r] \in {phase[r], "idle"}
          /\ UNCHANGED <<stored, caches, wf, ds, incremental, preread>>
      BY <2>9 DEF FailItem, Move, control, TypeOK
    <3> QED
      BY <2>1, <3>1 DEF Fresh, Seen, Key, caches, stored
  <2> QED
    BY <1>1, <2>3, <2>4, <2>5, <2>6, <2>7, <2>8, <2>9 DEF RunStep
<1>2. CASE DeletionStep
  <2>1. \A r \in Runs : ~Active(r) /\ UNCHANGED <<stage, phase>>
    BY <1>2
       DEF DeletionStep, DeleteDataset, DeleteDocument, DeleteData, ClearStates,
           DropStore,
         DropRow, PurgeDocument, StopDeletion, AloneInv, Active, Quiet, control
  <2> QED
    BY <2>1 DEF Active, Live, Fresh
<1>3. CASE Crash
  BY <1>3 DEF Crash, Idle, Fresh
<1>4. CASE UNCHANGED vars
  BY <1>4 DEF vars, FreshInv, Fresh, Seen, Key, stored, caches, control
<1> QED
  BY <1>1, <1>2, <1>3, <1>4 DEF Next

\* What a coroutine that finds an item processed has found is settled.
LEMMA FoundIsSettled ==
  ASSUME TypeOK, KindInv, RecordsSettled, NEW r \in Runs, NEW i \in Items,
         stage[r][i] = "check", phase[r] # "preload", incremental[r], Fresh(r, i),
         FoundProcessed(r, i)
  PROVE  Settled(i, Key(r))
<1>1. wf[r] = "memorize_pipeline" => Key(r) \in marks[i]
  BY DEF Fresh, FoundProcessed, Seen
<1>2. wf[r] # "memorize_pipeline" => Key(r) \notin cached
  BY DEF KindInv, Key
<1>3. Key(r) \in marks[i]
  BY <1>1, <1>2 DEF FoundProcessed
<1> QED
  BY <1>3 DEF RecordsSettled

\* A run only adds to the dataset and to the graph.
LEMMA SettledGrows ==
  ASSUME links \subseteq links', graph \subseteq graph', NEW i, NEW k, Settled(i, k)
  PROVE  Settled(i, k)'
BY DEF Settled

\* A step of one item, other than an error, settles what the item claims.
LEMMA SettledItemStep ==
  ASSUME TypeOK, RowsInv, KindInv, RecordsSettled,
         NEW r \in Runs, RunSettled(r), NEW i \in Items, Fresh(r, i), i \in items[r],
         ItemStep(r, i), ~FailItem(r, i)
  PROVE  /\ \A k \in marks'[i] : Settled(i, k)'
         /\ ItemSettled(r, i)'
         /\ phase[r] = "items" /\ stage'[r][i] = "done" => Settled(i, Key(r))'
<1> USE DEF Move, EndTasks, Unload
<1> DEFINE Settles == /\ \A k \in marks'[i] : Settled(i, k)'
                      /\ ItemSettled(r, i)'
                      /\ phase[r] = "items" /\ stage'[r][i] = "done" => Settled(i, Key(r))'
<1> SUFFICES Settles
  OBVIOUS
<1>1. \A k \in marks[i] : Settled(i, k)
  BY DEF RecordsSettled
<1>2. ItemSettled(r, i)
  BY DEF RunSettled
<1>3. CASE CheckItem(r, i)
  <2>1. /\ stage[r][i] = "check" /\ phase[r] # "preload"
        /\ stage'[r][i] = IF incremental[r] /\ FoundProcessed(r, i) THEN "done" ELSE "tasks"
        /\ UNCHANGED <<links, graph, marks, wf, ds>>
    BY <1>3 DEF CheckItem, Turn, stored, control, TypeOK
  <2>2. stage'[r][i] = "done" => Settled(i, Key(r))
    BY <2>1, FoundIsSettled
  <2> QED
    BY <1>1, <2>1, <2>2 DEF ItemSettled, Settled, Key
<1>4. CASE MemorizeItem(r, i)
  <2>1. /\ wf[r] = "memorize_pipeline" /\ stage'[r][i] \in {"mark", "done"}
        /\ graph' = graph \cup {<<i, ds[r]>>}
        /\ UNCHANGED <<links, marks, wf, ds>>
    BY <1>4 DEF MemorizeItem, control, TypeOK
  <2>2. <<i, ds[r]>> \in links
    BY <2>1 DEF RunSettled, Linked
  <2> QED
    BY <1>1, <2>1, <2>2 DEF ItemSettled, Settled, Key
<1>5. CASE ListDataset(r, i)
  <2>1. /\ wf[r] = "add_pipeline"
        /\ stage'[r][i] = IF <<i, ds[r]>> \in links THEN "seen" ELSE "unseen"
        /\ UNCHANGED <<links, graph, marks, wf, ds>>
    BY <1>5 DEF ListDataset, stored, control, TypeOK
  <2> QED
    BY <1>1, <2>1 DEF ItemSettled, Settled
<1>6. CASE LookUpRow(r, i)
  <2>1. stage[r][i] = "seen" => <<i, ds[r]>> \in links /\ i \in rows
    BY <1>2 DEF ItemSettled, RowsInv, TypeOK
  <2>2. /\ stage[r][i] \in {"seen", "unseen"}
        /\ stage'[r][i] = IF i \in rows THEN IF stage[r][i] = "seen" THEN "update" ELSE "join"
                          ELSE IF stage[r][i] = "seen" THEN "skip" ELSE "new"
        /\ snap'[r][i] = marks[i]
        /\ UNCHANGED <<links, graph, marks, wf, ds>>
    BY <1>6 DEF LookUpRow, stored, control, TypeOK
  <2>3. stage'[r][i] \in {"update", "join", "new"} /\ (stage'[r][i] = "update" => stage[r][i] = "seen")
    BY <2>1, <2>2
  <2>4. wf[r] = "add_pipeline"
    BY <1>2, <2>2 DEF ItemSettled
  <2> QED
    BY <1>1, <2>1, <2>2, <2>3, <2>4 DEF ItemSettled, Settled
<1>7. CASE CommitItem(r, i)
  <2>1. /\ stage[r][i] \in {"update", "join", "new"}
        /\ stage[r][i] = "update" \/ <<i, ds[r]>> \in links'
        /\ links \subseteq links'
        /\ marks'[i] \in {marks[i], snap[r][i]} /\ (stage[r][i] # "update" => marks'[i] = marks[i])
        /\ stage'[r][i] \in {"mark", "done"}
        /\ UNCHANGED <<graph, wf, ds>>
    <3>1. stage[r][i] \in {"update", "join", "new"}
      BY <1>2, <1>7 DEF CommitItem, ItemSettled
    <3>2. stage'[r][i] \in {"mark", "done"} /\ UNCHANGED <<graph, wf, ds>>
      BY <1>7 DEF CommitItem, control, TypeOK
    <3>3. CASE stage[r][i] = "update"
      BY <1>7, <3>1, <3>2, <3>3 DEF CommitItem, TypeOK
    <3>4. CASE stage[r][i] # "update"
      BY <1>7, <3>1, <3>2, <3>4 DEF CommitItem
    <3> QED
      BY <3>3, <3>4
  <2>2. wf[r] = "add_pipeline" /\ <<i, ds[r]>> \in links'
    BY <1>2, <2>1 DEF ItemSettled
  <2>3. \A k \in marks'[i] : Settled(i, k)
    BY <1>1, <1>2, <2>1 DEF ItemSettled
  <2> QED
    BY <2>1, <2>2, <2>3, SettledGrows DEF ItemSettled, Settled, Key
<1>8. CASE LoadState(r, i)
  <2>1. /\ stage[r][i] = "mark" /\ stage'[r][i] \in {"write", "done"}
        /\ stage'[r][i] = "write" => snap'[r][i] = marks[i]
        /\ UNCHANGED <<links, graph, marks, wf, ds>>
    BY <1>8 DEF LoadState, stored, control, TypeOK
  <2> QED
    BY <1>1, <1>2, <2>1 DEF ItemSettled, Settled, Key
<1>9. CASE WriteState(r, i)
  <2>1. /\ stage[r][i] = "write" /\ stage'[r][i] = "done"
        /\ marks'[i] = snap[r][i] \cup {Key(r)}
        /\ UNCHANGED <<links, graph, wf, ds>>
    BY <1>9 DEF WriteState, control, TypeOK
  <2> QED
    BY <1>2, <2>1 DEF ItemSettled, Settled, Key
<1> QED
  BY <1>3, <1>4, <1>5, <1>6, <1>7, <1>8, <1>9 DEF ItemStep

\* Every step of a run that overlaps nothing settles what it claims.
LEMMA SettledRunStep ==
  ASSUME ConstantsAssumption, TypeOK, KeyInv, RowsInv, KindInv, AloneInv, CoverInv, FreshInv,
         SettledInv, ~overlapped', NEW r \in Runs, RunStep(r) \/ \E i \in Items : ItemStep(r, i)
  PROVE  RecordsSettled' /\ \A q \in Runs : Active(q)' => RunSettled(q)'
<1>1. /\ ~overlapped /\ dpc = "idle" /\ dpc' = "idle"
      /\ \A q \in Runs \ {r} : ~Active(q) /\ ~Active(q)'
  BY OnlyRun
<1>2. RecordsSettled /\ (Active(r) => RunSettled(r)) /\ \A j \in Items : Fresh(r, j)
  BY <1>1 DEF SettledInv, FreshInv
<1> SUFFICES (\A j \in Items : \A k \in marks'[j] : Settled(j, k)') /\ (Active(r)' => RunSettled(r)')
  BY <1>1 DEF RecordsSettled
<1>3. CASE BeginAdd(r) \/ BeginMemorize(r)
  <2>1. PICK w \in Workflows, d \in Datasets, payload \in SUBSET Items :
          Begin(r, w, d, payload) /\ (w = "memorize_pipeline" => payload = Linked(d))
    BY <1>3 DEF BeginAdd, BeginMemorize, Workflows, Linked
  <2>2. /\ wf'[r] = w /\ ds'[r] = d /\ items'[r] = payload /\ todo'[r] = payload
        /\ phase'[r] = "batch" /\ UNCHANGED <<links, graph, marks, stage>>
    BY <2>1 DEF Begin, stored, TypeOK
  <2>3. Live(r) = {} /\ Live(r)' = {}
    BY <2>1, <2>2 DEF Begin, Live
  <2>4. \A j \in Items : ItemSettled(r, j)'
    BY <2>2, <2>3 DEF ItemSettled, Live, Busy
  <2>5. RunSettled(r)'
    BY <2>1, <2>2, <2>3, <2>4 DEF RunSettled, Linked
  <2> QED
    BY <1>2, <2>2, <2>5 DEF RecordsSettled, Settled
<1>4. CASE NextBatch(r)
  <2>1. PICK b \in SUBSET todo[r] :
          /\ stage' = [stage EXCEPT ![r] = [j \in Items |-> IF j \in b THEN "check" ELSE "none"]]
          /\ todo' = [todo EXCEPT ![r] = @ \ b]
    BY <1>4 DEF NextBatch
  <2>2. /\ todo'[r] = todo[r] \ b
        /\ \A j \in Items : stage'[r][j] = IF j \in b THEN "check" ELSE "none"
    BY <2>1 DEF TypeOK
  <2>3. /\ phase[r] = "batch" /\ phase'[r] \in {"preload", "items"}
        /\ UNCHANGED <<links, graph, marks, wf, ds, items, failed>>
    BY <1>4 DEF NextBatch, stored, TypeOK
  <2>4. RunSettled(r) /\ b \subseteq Items
    BY <1>2, <2>3 DEF Active, TypeOK
  <2>5. \A j \in Items : ItemSettled(r, j)'
    BY <2>2 DEF ItemSettled
  <2>6. RunSettled(r)'
    BY <2>2, <2>3, <2>4, <2>5 DEF RunSettled, Settled, Key, Live, Busy, Linked
  <2> QED
    BY <1>2, <2>3, <2>6 DEF RecordsSettled, Settled
<1>5. CASE FillCache(r)
  <2>1. /\ phase[r] = "preload" /\ phase'[r] = "items"
        /\ UNCHANGED <<links, graph, marks, wf, ds, items, todo, failed, stage, snap>>
    BY <1>5 DEF FillCache, stored, TypeOK
  <2>2. RunSettled(r) /\ \A j \in Items : stage[r][j] \in {"none", "check"}
    BY <1>2, <2>1 DEF Active, CoverInv, Covered
  <2>3. RunSettled(r)'
    BY <2>1, <2>2 DEF RunSettled, ItemSettled, Settled, Key, Live, Busy, Linked
  <2> QED
    BY <1>2, <2>1, <2>3 DEF RecordsSettled, Settled
<1>6. CASE EndBatch(r)
  <2>1. /\ phase[r] = "items" /\ phase'[r] = "batch" /\ Live(r) = {}
        /\ \A j \in Items : stage'[r][j] = "none"
        /\ ~failed'[r] => ~failed[r] /\ \A j \in Items : stage[r][j] # "failed"
        /\ UNCHANGED <<links, graph, marks, wf, ds, items, todo>>
    BY <1>6 DEF EndBatch, Idle, stored, TypeOK
  <2>2. RunSettled(r) /\ \A j \in Items : stage[r][j] \in {"none", "done", "failed"}
    BY <1>2, <2>1 DEF Active, Live, TypeOK, Stages
  <2>3. RunSettled(r)'
    BY <2>1, <2>2
       DEF RunSettled, ItemSettled, Settled, Key, Live, Busy, Linked, TypeOK
  <2> QED
    BY <1>2, <2>1, <2>3 DEF RecordsSettled, Settled
<1>7. CASE EndRun(r)
  <2>1. /\ phase[r] = "batch" /\ phase'[r] = IF failed[r] THEN "errored" ELSE "completed"
        /\ todo[r] = {}
        /\ UNCHANGED <<links, graph, marks, wf, ds, items, todo, failed, stage, snap>>
    BY <1>7 DEF EndRun, stored, TypeOK
  <2>2. RunSettled(r)
    BY <1>2, <2>1 DEF Active
  <2>3. RunSettled(r)'
    BY <2>1, <2>2 DEF RunSettled, ItemSettled, Settled, Key, Live, Linked
  <2> QED
    BY <1>2, <2>1, <2>3 DEF RecordsSettled, Settled
<1>8. CASE Return(r) \/ StopRun(r)
  <2>1. ~Active(r)' /\ UNCHANGED <<links, graph, marks>>
    BY <1>8 DEF Return, StopRun, Forget, Idle, Active, Live, Busy, stored, TypeOK
  <2> QED
    BY <1>2, <2>1 DEF RecordsSettled, Settled
<1>9. ASSUME NEW i \in Items, ItemStep(r, i), ~FailItem(r, i)
      PROVE  (\A j \in Items : \A k \in marks'[j] : Settled(j, k)') /\ RunSettled(r)'
  <2>1. /\ i \in Live(r) /\ RunSettled(r) /\ i \in items[r]
        /\ UNCHANGED <<phase, wf, ds, incremental, items, todo, failed>>
    <3>1. i \in Live(r)
      BY <1>9
         DEF ItemStep, CheckItem, MemorizeItem, ListDataset, LookUpRow,
             CommitItem,
           LoadState, WriteState, Live, Busy
    <3>2. UNCHANGED <<phase, wf, ds, incremental, items, todo, failed>>
      BY <1>9
         DEF ItemStep, CheckItem, MemorizeItem, ListDataset, LookUpRow,
             CommitItem,
           LoadState, WriteState, control
    <3> QED
      BY <1>2, <3>1, <3>2 DEF Active, RunSettled
  <2>2. links \subseteq links' /\ graph \subseteq graph'
    BY <1>9
       DEF ItemStep, CheckItem, MemorizeItem, ListDataset, LookUpRow, CommitItem,
         LoadState, WriteState, stored
  <2>3. \A j \in Items \ {i} : stage'[r][j] = stage[r][j] /\ snap'[r][j] = snap[r][j] /\ marks'[j] = marks[j]
    BY <1>9
       DEF ItemStep, CheckItem, MemorizeItem, ListDataset, LookUpRow, CommitItem,
         LoadState, WriteState, Move, EndTasks, Unload, stored, TypeOK
  <2>4. stage'[r][i] \in Stages \ {"none", "check"}
    BY <1>9
       DEF ItemStep, CheckItem, MemorizeItem, ListDataset, LookUpRow, CommitItem,
         LoadState, WriteState, Move, EndTasks, Stages, Busy, TypeOK
  <2>5. /\ \A k \in marks'[i] : Settled(i, k)'
        /\ ItemSettled(r, i)'
        /\ phase[r] = "items" /\ stage'[r][i] = "done" => Settled(i, Key(r))'
    BY <1>2, <1>9, <2>1, SettledItemStep
  <2>6. \A j \in Items : \A k \in marks'[j] : Settled(j, k)'
    BY <1>2, <2>2, <2>3, <2>5, SettledGrows DEF RecordsSettled
  <2>7. \A j \in Items : ItemSettled(r, j)'
    BY <2>1, <2>2, <2>3, <2>5, SettledGrows DEF RunSettled, ItemSettled, Key
  <2>8. Live(r)' \subseteq Live(r)
    BY <2>1, <2>3 DEF Live
  <2>9. \A j \in Items \ {i} : Settled(j, Key(r)) => Settled(j, Key(r))'
    BY <2>1, <2>2, SettledGrows DEF Key
  <2>10. stage[r][i] \notin {"none", "done", "failed"} /\ phase[r] \notin {"batch", "completed", "preload"}
    BY <1>2, <1>9, <2>1
       DEF ItemStep, CheckItem, MemorizeItem, ListDataset, LookUpRow, CommitItem,
         LoadState, WriteState, Turn, Live, Busy, CoverInv, Covered
  <2>11. stage'[r][i] \in {"none", "done"} => stage'[r][i] = "done"
    BY <2>4
  <2>12. \A j \in items[r] : j \in Items
    BY DEF TypeOK
  <2>13. Linked(ds[r]) \subseteq Linked(ds[r])'
    BY <2>1, <2>2 DEF Linked
  <2>14. \A j \in items[r] \ todo[r] : phase[r] = "items" /\ ~failed[r] =>
           stage'[r][j] \notin {"none", "done"} \/ Settled(j, Key(r))'
    BY <2>1, <2>3, <2>5, <2>9, <2>11, <2>12 DEF RunSettled
  <2>15. \A j \in Items : phase[r] = "items" /\ stage'[r][j] = "done" => Settled(j, Key(r))'
    BY <2>1, <2>3, <2>5, <2>9 DEF RunSettled
  <2>16. RunSettled(r)'
    BY <2>1, <2>7, <2>8, <2>10, <2>13, <2>14, <2>15 DEF RunSettled, Key
  <2> QED
    BY <2>6, <2>16
<1>10. ASSUME NEW i \in Items, FailItem(r, i)
       PROVE  (\A j \in Items : \A k \in marks'[j] : Settled(j, k)') /\ (Active(r)' => RunSettled(r)')
  <2>1. /\ RunSettled(r) /\ phase[r] # "completed"
        /\ phase[r] = "batch" => FALSE
        /\ UNCHANGED <<links, graph, marks, wf, ds, items>>
    <3>1. i \in Live(r)
      BY <1>10 DEF FailItem, Live
    <3>2. UNCHANGED <<links, graph, marks, wf, ds, items>>
      BY <1>10 DEF FailItem, stored, control
    <3> QED
      BY <1>2, <3>1, <3>2 DEF Active, CoverInv, Covered
  <2>2. \A j \in Items : Settled(j, Key(r))' <=> Settled(j, Key(r))
    BY <2>1 DEF Settled, Key
  <2>3. \A j \in Items : stage'[r][j] \in {stage[r][j], "none", "failed"}
    BY <1>10 DEF FailItem, Move, TypeOK
  <2>4. \A j \in Items : snap'[r][j] = snap[r][j] \/ snap'[r][j] = {}
    BY <1>10 DEF FailItem, Unload, TypeOK
  <2>5. \A j \in Items : ItemSettled(r, j)'
    BY <2>1, <2>2, <2>3, <2>4 DEF RunSettled, ItemSettled, Settled, Key
  <2>6. /\ Live(r)' \subseteq Live(r) /\ todo'[r] \subseteq todo[r]
        /\ Linked(ds[r])' = Linked(ds[r])
    <3>1. Live(r)' \subseteq Live(r)
      BY <2>3 DEF Live, Busy
    <3>2. todo'[r] \subseteq todo[r]
      BY <1>10 DEF FailItem, control, TypeOK
    <3> QED
      BY <2>1, <3>1, <3>2 DEF Linked
  <2>7. ASSUME phase'[r] = "idle" PROVE RunSettled(r)'
    BY <2>1, <2>5, <2>6, <2>7 DEF RunSettled
  <2>8. ASSUME phase'[r] # "idle" PROVE RunSettled(r)'
    <3>1. /\ phase[r] = "items" => /\ stage'[r][i] = "failed"
                                   /\ \A j \in Items \ {i} : stage'[r][j] = stage[r][j]
          /\ UNCHANGED <<phase, todo, failed>>
      BY <1>10, <2>8 DEF FailItem, Move, control, TypeOK
    <3>2. phase[r] # "preload" /\ items[r] \subseteq Items
      BY <1>10, <3>1 DEF FailItem, Turn, CoverInv, Covered, Busy, TypeOK
    <3> QED
      BY <2>1, <2>2, <2>5, <2>6, <2>8, <3>1, <3>2 DEF RunSettled
  <2> QED
    BY <1>2, <2>1, <2>7, <2>8 DEF RecordsSettled, Settled
<1> QED
  BY <1>3, <1>4, <1>5, <1>6, <1>7, <1>8, <1>9, <1>10 DEF RunStep

\* A deletion other than delete() of a document takes the entries before what
\* they promise.
LEMMA SettledDeletionStep ==
  ASSUME ConstantsAssumption, TypeOK, "document" \notin Deletions, RecordsSettled,
         DeletionStep
  PROVE  RecordsSettled'
<1>1. \A i \in Items : \A k \in marks[i] :
        /\ k[1] \in Workflows /\ k[2] \in Datasets /\ k = <<k[1], k[2]>>
        /\ Settled(i, k)
  BY DEF TypeOK, Keys, RecordsSettled
<1>2. ASSUME NEW d \in Datasets, DeleteDataset(d) PROVE RecordsSettled'
  <2>1. /\ dpc' = "clear" /\ dds' = d /\ ditems' = Linked(d)
        /\ \A i \in Linked(d) : dsnap'[i] = marks[i]
        /\ UNCHANGED <<links, marks, graph>>
    BY <1>2 DEF DeleteDataset, stored, Linked
  <2> QED
    BY <1>1, <2>1 DEF RecordsSettled, Settled, Linked
<1>3. ASSUME NEW d \in Datasets, NEW i \in Items, DeleteDocument(i, d) PROVE RecordsSettled'
  BY <1>3 DEF DeleteDocument
<1>4. ASSUME NEW i \in Items, DeleteData(i) PROVE RecordsSettled'
  <2>1. /\ dpc = "idle" /\ dpc' = "idle" /\ UNCHANGED graph
        /\ links' = links \ ({i} \X Datasets)
        /\ \A j \in Items : marks'[j] = IF j = i THEN {} ELSE marks[j]
    BY <1>4 DEF DeleteData, deletion, TypeOK
  <2>2. \A j \in Items \ {i} : \A k : <<j, k>> \in links => <<j, k>> \in links'
    BY <2>1
  <2> QED
    BY <1>1, <2>1, <2>2 DEF RecordsSettled, Settled
<1>5. ASSUME ClearStates PROVE RecordsSettled'
  <2> DEFINE entries == Workflows \X {dds}
  <2>1. /\ dpc = "clear" /\ dpc' = "store" /\ UNCHANGED <<links, graph, dds>>
        /\ ditems = Linked(dds) /\ \A i \in ditems : dsnap[i] = marks[i]
    BY <1>5 DEF ClearStates, RecordsSettled
  <2>2. \A i \in Items : marks[i] \cap entries # {} => i \in ditems
    BY <1>1, <2>1 DEF Settled, Linked
  <2>3. marks' = IF \E i \in ditems : dsnap[i] \cap entries # {}
                 THEN [i \in Items |-> IF i \in ditems /\ dsnap[i] # {}
                                       THEN dsnap[i] \ entries ELSE marks[i]]
                 ELSE marks
    BY <1>5 DEF ClearStates
  <2>4. \A i \in Items : marks'[i] = marks[i] \ entries
    <3>1. CASE \E i \in ditems : dsnap[i] \cap entries # {}
      BY <2>1, <2>2, <2>3, <3>1
    <3>2. CASE ~\E i \in ditems : dsnap[i] \cap entries # {}
      <4>1. marks' = marks
        BY <2>3, <3>2
      <4>2. \A i \in Items : marks[i] \cap entries = {}
        BY <2>1, <2>2, <3>2
      <4> QED
        BY <4>1, <4>2
    <3> QED
      BY <3>1, <3>2
  <2>5. \A i \in Items : \A k \in marks'[i] : Settled(i, k)'
    <3>1. \A i \in Items : marks'[i] \subseteq marks[i]
      BY <2>4
    <3> QED
      BY <1>1, <2>1, <3>1 DEF Settled
  <2>6. \A i \in Items, w \in Workflows : <<w, dds>> \notin marks'[i]
    BY <2>4
  <2> QED
    BY <2>1, <2>5, <2>6 DEF RecordsSettled
<1>6. ASSUME DropStore PROVE RecordsSettled'
  <2>1. /\ dpc = "store" /\ dpc' = "row" /\ UNCHANGED <<links, marks, dds>>
        /\ graph \ (Items \X {dds}) \subseteq graph'
    BY <1>6 DEF DropStore
  <2>2. \A i \in Items : \A k \in marks[i] : k[2] # dds
    BY <1>1, <2>1 DEF RecordsSettled
  <2>3. \A i \in Items : \A k \in marks[i] : Settled(i, k)'
    BY <1>1, <2>1, <2>2 DEF Settled
  <2> QED
    BY <2>1, <2>3 DEF RecordsSettled
<1>7. ASSUME DropRow PROVE RecordsSettled'
  <2>1. /\ dpc = "row" /\ dpc' = "idle" /\ UNCHANGED <<graph, marks>>
        /\ links' = links \ (Items \X {dds})
    BY <1>7 DEF DropRow, EndDeletion
  <2>2. \A i \in Items : \A k \in marks[i] : k[2] # dds
    BY <1>1, <2>1 DEF RecordsSettled
  <2>3. \A i \in Items : \A k \in marks[i] : Settled(i, k)'
    BY <1>1, <2>1, <2>2 DEF Settled
  <2> QED
    BY <2>1, <2>3 DEF RecordsSettled
<1>8. ASSUME PurgeDocument PROVE RecordsSettled'
  BY <1>8 DEF PurgeDocument, RecordsSettled
<1>9. ASSUME StopDeletion PROVE RecordsSettled'
  BY <1>1, <1>9 DEF StopDeletion, EndDeletion, stored, RecordsSettled, Settled
<1> QED
  BY <1>2, <1>3, <1>4, <1>5, <1>6, <1>7, <1>8, <1>9 DEF DeletionStep

\* Entries keep their promises while nothing overlaps, if no document is deleted.
LEMMA SettledStep ==
  ASSUME ConstantsAssumption, "document" \notin Deletions, TypeOK, KeyInv, RowsInv, KindInv,
         AloneInv, CoverInv, FreshInv, SettledInv, [Next]_vars
  PROVE  SettledInv'
<1> SUFFICES ASSUME ~overlapped'
             PROVE  RecordsSettled' /\ \A q \in Runs : Active(q)' => RunSettled(q)'
  BY DEF SettledInv
<1>1. ASSUME NEW r \in Runs, RunStep(r) \/ \E i \in Items : ItemStep(r, i)
      PROVE  RecordsSettled' /\ \A q \in Runs : Active(q)' => RunSettled(q)'
  BY <1>1, SettledRunStep
<1>2. CASE DeletionStep
  <2>1. \A r \in Runs : ~Active(r) /\ UNCHANGED <<stage, phase>>
    BY <1>2
       DEF DeletionStep, DeleteDataset, DeleteDocument, DeleteData, ClearStates,
           DropStore,
         DropRow, PurgeDocument, StopDeletion, AloneInv, Active, Quiet, control
  <2>2. ~overlapped
    BY <1>2
       DEF DeletionStep, DeleteDataset, DeleteDocument, DeleteData, ClearStates,
           DropStore,
         DropRow, PurgeDocument, StopDeletion
  <2>3. RecordsSettled'
    BY <1>2, <2>2, SettledDeletionStep DEF SettledInv
  <2> QED
    BY <2>1, <2>3 DEF Active, Live
<1>3. CASE Crash
  <2>1. /\ dpc' = "idle" /\ UNCHANGED <<links, marks, graph>> /\ ~overlapped
        /\ \A r \in Runs : ~Active(r)'
    BY <1>3 DEF Crash, EndDeletion, Idle, Active, Live, Busy, stored
  <2> QED
    BY <2>1 DEF SettledInv, RecordsSettled, Settled
<1>4. CASE UNCHANGED vars
  <2>1. RecordsSettled /\ \A q \in Runs : Active(q) => RunSettled(q)
    BY <1>4 DEF vars, SettledInv
  <2>2. RecordsSettled'
    BY <1>4, <2>1 DEF vars, stored, deletion, RecordsSettled, Settled, Linked
  <2>3. \A q \in Runs : Active(q)' => RunSettled(q)'
    BY <1>4, <2>1
       DEF vars, stored, control, RunSettled, ItemSettled, Settled, Linked, Key,
           Live, Active
  <2> QED
    BY <2>2, <2>3
<1> QED
  BY <1>1, <1>2, <1>3, <1>4 DEF Next

-----------------------------------------------------------------------------
\* What runs and deletions that never overlap keep besides.
AloneRunsInv == ProcessingInv /\ RowsInv /\ KindInv /\ AloneInv /\ FreshInv

\* It is inductive, whatever is deleted.
LEMMA AloneRunsInvariant == Spec => []AloneRunsInv
<1>1. Init => RowsInv /\ KindInv /\ AloneInv /\ FreshInv
  BY DEF Init, RowsInv, KindInv, AloneInv, FreshInv, Fresh, Active, Live, Busy
<1>2. ProcessingInv /\ AloneRunsInv /\ [Next]_vars /\ ProcessingInv' => AloneRunsInv'
  BY ConstantsAssumption, RowsStep, KindStep, AloneStep, FreshStep
     DEF AloneRunsInv, ProcessingInv
<1>3. ProcessingInv /\ Init => AloneRunsInv
  BY <1>1 DEF AloneRunsInv
<1> QED
  BY <1>2, <1>3, ProcessingInvariant, PTL DEF Spec

\* So is the truth of entries, for callers that do not use delete() of a document.
LEMMA SettledInvariant ==
  ASSUME "document" \notin Deletions
  PROVE  Spec => []SettledInv
<1>1. Init => SettledInv
  BY DEF Init, SettledInv, RecordsSettled, Active, Live, Busy
<1>2. AloneRunsInv /\ SettledInv /\ [Next]_vars => SettledInv'
  BY ConstantsAssumption, SettledStep DEF AloneRunsInv, ProcessingInv
<1> QED
  BY <1>1, <1>2, AloneRunsInvariant, PTL DEF Spec

\* A completed add_pipeline run that overlapped nothing leaves its payload in the
\* dataset: the entries it skips on, and the rows ingest_data finds, are true
\* unless delete() of a document left them behind (delete.py).
THEOREM SequentialAddAlwaysLinks ==
  ASSUME "document" \notin Deletions
  PROVE  Spec => []SequentialAddLinks
<1>1. AloneRunsInv /\ SettledInv => SequentialAddLinks
  BY DEF AloneRunsInv, ProcessingInv, TypeOK, SettledInv, RunSettled, Settled,
     Key, Active,
       Linked, SequentialAddLinks
<1> QED
  BY <1>1, AloneRunsInvariant, SettledInvariant, PTL

\* A completed memorize_pipeline run that overlapped nothing leaves every item of
\* its dataset in the graph, under the same condition.
THEOREM SequentialMemorizeAlwaysCovers ==
  ASSUME "document" \notin Deletions
  PROVE  Spec => []SequentialMemorizeCovers
<1>1. SettledInv => SequentialMemorizeCovers
  BY DEF SettledInv, RunSettled, Settled, Key, Active, SequentialMemorizeCovers
<1> QED
  BY <1>1, SettledInvariant, PTL

\* Nothing but CheckItem takes an item from "check" to its tasks.
LEMMA OnlyCheckBegins ==
  ASSUME TypeOK, Next, NEW r \in Runs, NEW i \in Items,
         stage[r][i] = "check", stage'[r][i] = "tasks"
  PROVE  CheckItem(r, i)
<1>0. stage \in [Runs -> [Items -> Stages]]
  BY DEF TypeOK
<1>1. ASSUME NEW q \in Runs, RunStep(q) PROVE FALSE
  <2>1. CASE NextBatch(q)
    BY <2>1 DEF NextBatch, TypeOK
  <2>2. CASE BeginAdd(q) \/ BeginMemorize(q) \/ FillCache(q) \/ EndRun(q)
    BY <2>2 DEF BeginAdd, BeginMemorize, Begin, FillCache, EndRun
  <2>3. CASE EndBatch(q) \/ Return(q) \/ StopRun(q)
    <3>1. stage' = [stage EXCEPT ![q] = Idle]
      BY <2>3 DEF EndBatch, Return, StopRun, Forget
    <3> QED
      BY <1>0, <3>1 DEF Idle
  <2> QED
    BY <1>1, <2>1, <2>2, <2>3 DEF RunStep
<1>2. ASSUME NEW q \in Runs, NEW j \in Items, ItemStep(q, j), ~CheckItem(r, i) PROVE FALSE
  <2>1. CASE FailItem(q, j)
    <3>1. CASE phase[q] # "items" \/ ~(RaiseErrors \/ stage[q][j] = "check")
      BY <1>0, <2>1, <3>1 DEF FailItem, Move
    <3>2. CASE phase[q] = "items" /\ (RaiseErrors \/ stage[q][j] = "check")
      BY <1>0, <2>1, <3>2 DEF FailItem
    <3> QED
      BY <3>1, <3>2
  <2>2. CASE q = r /\ j = i /\ ~FailItem(q, j)
    BY <1>2, <2>2
       DEF ItemStep, MemorizeItem, ListDataset, LookUpRow, CommitItem, LoadState,
         WriteState
  <2>3. CASE ~(q = r /\ j = i) /\ ~FailItem(q, j)
    BY <1>2, <2>3
       DEF ItemStep, CheckItem, MemorizeItem, ListDataset, LookUpRow, CommitItem,
         LoadState, WriteState, Move, EndTasks, TypeOK
  <2> QED
    BY <2>1, <2>2, <2>3
<1>3. ASSUME DeletionStep PROVE FALSE
  BY <1>3
     DEF DeletionStep, DeleteDataset, DeleteDocument, DeleteData, ClearStates,
         DropStore,
       DropRow, PurgeDocument, StopDeletion
<1>4. ASSUME Crash PROVE FALSE
  BY <1>4 DEF Crash, Idle
<1> QED
  BY <1>1, <1>2, <1>3, <1>4 DEF Next

\* _is_already_processed never misses an entry unless runs or deletions overlap,
\* through crashes and cancellations: a cache they leave behind is refilled by the
\* preload of the next batch.
THEOREM MarkedAlwaysSkipped == Spec => MarkedIsSkipped
<1> DEFINE Skips(r, i) ==
      /\ ~overlapped /\ incremental[r]
      /\ stage[r][i] = "check" /\ stage'[r][i] = "tasks"
      => Key(r) \notin marks[i]
<1>1. AloneRunsInv /\ [Next]_vars => [\A r \in Runs, i \in Items : Skips(r, i)]_vars
  <2> SUFFICES ASSUME AloneRunsInv, Next, NEW r \in Runs, NEW i \in Items,
                      ~overlapped, incremental[r], stage[r][i] = "check", stage'[r][i] = "tasks"
               PROVE  Key(r) \notin marks[i]
    BY DEF vars
  <2>1. CheckItem(r, i)
    BY OnlyCheckBegins DEF AloneRunsInv, ProcessingInv
  <2>2. ~FoundProcessed(r, i) /\ Fresh(r, i) /\ phase[r] # "preload"
    BY <2>1
       DEF CheckItem, Turn, Move, AloneRunsInv, ProcessingInv, TypeOK, FreshInv
  <2>3. Key(r) \in marks[i] => i \in rows
    BY DEF AloneRunsInv, RowsInv
  <2>4. CASE wf[r] = "memorize_pipeline"
    BY <2>2, <2>3, <2>4 DEF Fresh, Seen, FoundProcessed
  <2>5. CASE wf[r] # "memorize_pipeline"
    <3>1. Key(r) \notin cached
      BY <2>5 DEF AloneRunsInv, KindInv, Key
    <3> QED
      BY <2>2, <2>3, <3>1 DEF FoundProcessed
  <2> QED
    BY <2>4, <2>5
<1> QED
  BY <1>1, AloneRunsInvariant, PTL DEF Spec, MarkedIsSkipped
=============================================================================
