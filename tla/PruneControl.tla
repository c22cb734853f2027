---------------------------- MODULE PruneControl ----------------------------
(***************************************************************************)
(* Who may prune (api/v1/prune/routers/get_prune_router.py).  The three    *)
(* endpoints share one course: cooldown of the worker process, active      *)
(* pipelines, a Redis lock that expires, the asyncio lock of the worker,   *)
(* the deletion itself, release.  Everything between two awaits is one     *)
(* step; the wait for the Redis lock blocks the whole worker, so the step  *)
(* that takes it goes on to the deletion.  Redis, or the query for the     *)
(* pipelines, may fail at any time, and a worker may die.                  *)
(***************************************************************************)
EXTENDS FiniteSets

CONSTANTS PruneRequests,  \* requests to prune, all confirmed and allowed
          Workers,        \* server processes
          WorkerOf,       \* WorkerOf[r]: the worker that serves a request
          Free            \* nobody holds the lock

ASSUME PruneAssumption ==
    /\ WorkerOf \in [PruneRequests -> Workers]
    /\ Free \notin PruneRequests

VARIABLES place,      \* place[r]: where a request is
          grip,       \* grip[r]: what became of its Redis lock (for properties)
          redis,      \* the request whose token is in mflow_prune_operation
          guard,      \* guard[w]: who holds _prune_lock of the worker
          cooling,    \* workers whose last prune is less than COOLDOWN_SECONDS ago
          pipelines   \* whether a pipeline is active

pruneVars == <<place, grip, redis, guard, cooling, pipelines>>

Places == {"new", "checking", "pruning", "refused", "completed", "failed", "killed"}

PruneInit ==
    /\ place = [r \in PruneRequests |-> "new"]
    /\ grip = [r \in PruneRequests |-> "none"]
    /\ redis = Free
    /\ guard = [w \in Workers |-> Free]
    /\ cooling = {}
    /\ pipelines \in BOOLEAN

Move(r, p) == place' = [place EXCEPT ![r] = p]

\* Up to the await of the pipeline check.
CheckCooldown(r) ==
    /\ place[r] = "new"
    /\ Move(r, IF WorkerOf[r] \in cooling THEN "refused" ELSE "checking")
    /\ UNCHANGED <<grip, redis, guard, cooling, pipelines>>

\* The query answers that a pipeline is active (409).
RefusePipelines(r) ==
    /\ place[r] = "checking"
    /\ pipelines
    /\ Move(r, "refused")
    /\ UNCHANGED <<grip, redis, guard, cooling, pipelines>>

\* No pipeline is active, or the query failed, which is only a warning.  The
\* Redis lock is taken if it is free; if it is not, or Redis fails, the
\* request goes on without it.  A worker that prunes already refuses (409)
\* before the try block: a lock just taken is not given back.
Enter(r) ==
    /\ place[r] = "checking"
    /\ \/ redis = Free /\ redis' = r /\ grip' = [grip EXCEPT ![r] = "held"]
       \/ UNCHANGED <<redis, grip>>
    /\ IF guard[WorkerOf[r]] # Free
       THEN Move(r, "refused") /\ UNCHANGED guard
       ELSE Move(r, "pruning") /\ guard' = [guard EXCEPT ![WorkerOf[r]] = r]
    /\ UNCHANGED <<cooling, pipelines>>

\* Mutant of Released: the key is deleted whoever holds it.
ReleasedBlindly(r) == {redis, Free}

\* The release deletes the key only if it still holds the token of this
\* request; an error of it is swallowed.
Released(r) == IF redis = r THEN {Free, r} ELSE {redis}

\* prune.all(), prune_data() or prune_system() returns, or raises somewhere:
\* only a success starts the cooldown.
Leave(r) ==
    /\ place[r] = "pruning"
    /\ \/ Move(r, "completed") /\ cooling' = cooling \cup {WorkerOf[r]}
       \/ Move(r, "failed") /\ UNCHANGED cooling
    /\ guard' = [guard EXCEPT ![WorkerOf[r]] = Free]
    /\ redis' \in Released(r)
    /\ UNCHANGED <<grip, pipelines>>

\* timeout=300 has passed since the lock was taken.
Expire ==
    /\ redis # Free
    /\ redis' = Free
    /\ grip' = [grip EXCEPT ![redis] = "expired"]
    /\ UNCHANGED <<place, guard, cooling, pipelines>>

EndCooldown ==
    /\ \E w \in cooling : cooling' = cooling \ {w}
    /\ UNCHANGED <<place, grip, redis, guard, pipelines>>

\* A worker dies: its lock and its cooldown are gone, the Redis key is not.
KillWorker ==
    /\ \E w \in Workers :
        /\ place' = [r \in PruneRequests |->
                IF WorkerOf[r] = w /\ place[r] \in {"checking", "pruning"} THEN "killed"
                ELSE place[r]]
        /\ guard' = [guard EXCEPT ![w] = Free]
        /\ cooling' = cooling \ {w}
    /\ UNCHANGED <<grip, redis, pipelines>>

\* Pipelines come and go.
TogglePipelines ==
    /\ pipelines' = ~pipelines
    /\ UNCHANGED <<place, grip, redis, guard, cooling>>

PruneNext ==
    \/ \E r \in PruneRequests : CheckCooldown(r) \/ RefusePipelines(r) \/ Enter(r) \/ Leave(r)
    \/ Expire \/ EndCooldown \/ KillWorker \/ TogglePipelines

PruneSpec == PruneInit /\ [][PruneNext]_pruneVars

-----------------------------------------------------------------------------
(* Type correctness; the lock of a worker is held by the request that      *)
(* prunes in it and by no other, so that no 409, failure or kill can leave *)
(* a worker locked (get_prune_router.py:387-429).                          *)
PruneTypeOK ==
    /\ place \in [PruneRequests -> Places]
    /\ grip \in [PruneRequests -> {"none", "held", "expired"}]
    /\ redis \in PruneRequests \cup {Free}
    /\ cooling \subseteq Workers /\ pipelines \in BOOLEAN
    /\ guard \in [Workers -> PruneRequests \cup {Free}]
    /\ \A r \in PruneRequests, w \in Workers :
            guard[w] = r <=> place[r] = "pruning" /\ WorkerOf[r] = w

(* Two prunes overlap only in different workers, and only when one of them *)
(* went without the Redis lock or outlived it: a release that comes late   *)
(* never takes the lock from its new holder (get_prune_router.py:274-306). *)
OverlapNeedsALostLock ==
    \A r, q \in PruneRequests :
        r # q /\ place[r] = "pruning" /\ place[q] = "pruning" =>
            WorkerOf[r] # WorkerOf[q] /\ (grip[r] # "held" \/ grip[q] # "held")
=============================================================================
