----------------------------- MODULE MCServices -----------------------------
(* The five services keep separate state, so one of them runs in a        *)
(* behaviour.                                                              *)
EXTENDS CorefSessions, CloudSync, PruneControl, ProcedureVersions, RunEvents, TLC

VARIABLE service

MCWorkerOf == ("p1" :> "w1") @@ ("p2" :> "w1") @@ ("p3" :> "w2")
MCDatasetsOf == ("c1" :> <<"d1", "d2">>) @@ ("c2" :> <<"d2">>)

vars == <<service, corefVars, syncVars, pruneVars, versionVars, eventVars>>

MCInit ==
    /\ service \in {"coref", "sync", "prune", "procedures", "events"}
    /\ CorefInit
    /\ IF service = "sync" THEN SyncInit
       ELSE SyncInit /\ local = [d \in Datasets |-> {}] /\ remote = local
    /\ PruneInit /\ (service # "prune" => ~pipelines)
    /\ VersionsInit
    /\ EventsInit

InCoref  == service = "coref"  /\ UNCHANGED <<service, syncVars, pruneVars, versionVars, eventVars>>
InSync   == service = "sync"   /\ UNCHANGED <<service, corefVars, pruneVars, versionVars, eventVars>>
InPrune  == service = "prune"  /\ UNCHANGED <<service, corefVars, syncVars, versionVars, eventVars>>
InProcs  == service = "procedures" /\ UNCHANGED <<service, corefVars, syncVars, pruneVars, eventVars>>
InEvents == service = "events" /\ UNCHANGED <<service, corefVars, syncVars, pruneVars, versionVars>>

MCNext ==
    \/ InCoref /\ Tick
    \/ InCoref /\ \E s \in SessionIds, u \in Users, l \in Languages : Continue(s, u, l)
    \/ InCoref /\ \E s \in SessionIds, u \in Users, l \in Languages : Create(s, u, l)
    \/ InCoref /\ \E s \in SessionIds : Reset(s)
    \/ InCoref /\ Clear
    \/ InSync /\ \E r \in Requests : Admit(r)
    \/ InSync /\ \E r \in Requests : Launch(r)
    \/ InSync /\ \E r \in Requests : Start(r)
    \/ InSync /\ \E r \in Requests, d \in Datasets : Diff(r, d)
    \/ InSync /\ \E r \in Requests, d \in Datasets : Upload(r, d)
    \/ InSync /\ \E r \in Requests, d \in Datasets : Download(r, d)
    \/ InSync /\ \E r \in Requests, d \in Datasets : FailDataset(r, d)
    \/ InSync /\ \E r \in Requests : Finish(r)
    \/ InSync /\ \E r \in Requests : MarkFailed(r)
    \/ InSync /\ AddItem
    \/ InSync /\ Crash
    \/ InPrune /\ \E r \in PruneRequests : CheckCooldown(r)
    \/ InPrune /\ \E r \in PruneRequests : RefusePipelines(r)
    \/ InPrune /\ \E r \in PruneRequests : Enter(r)
    \/ InPrune /\ \E r \in PruneRequests : Leave(r)
    \/ InPrune /\ Expire
    \/ InPrune /\ EndCooldown
    \/ InPrune /\ KillWorker
    \/ InPrune /\ TogglePipelines
    \/ InProcs /\ \E b \in Batches : Route(b)
    \/ InProcs /\ \E b \in Batches, k \in 1 .. Width : Decide(b, k)
    \/ InProcs /\ \E b \in Batches, k \in 1 .. Width : WriteCreateNew(b, k)
    \/ InProcs /\ \E b \in Batches, k \in 1 .. Width : WritePatch(b, k)
    \/ InProcs /\ \E b \in Batches, k \in 1 .. Width : WriteNewVersion(b, k)
    \/ InProcs /\ \E b \in Batches : Persist(b)
    \/ InProcs /\ \E b \in Batches : Abandon(b)
    \/ InEvents /\ \E c \in BackgroundCalls : BeginBackground(c)
    \/ InEvents /\ \E c \in BackgroundCalls : OpenRun(c)
    \/ InEvents /\ \E c \in BackgroundCalls : AnswerCall(c)
    \/ InEvents /\ \E c \in BackgroundCalls : PassSkipped(c)
    \/ InEvents /\ \E c \in BackgroundCalls : StartDriven(c)
    \/ InEvents /\ \E c \in BackgroundCalls : EndDriven(c)
    \/ InEvents /\ \E c \in BackgroundCalls : BreakDriving(c)
    \/ InEvents /\ \E k \in Clients : Subscribe(k)
    \/ InEvents /\ \E k \in Clients : FindNothing(k)
    \/ InEvents /\ \E k \in Clients : GetEvent(k)
    \/ InEvents /\ \E k \in Clients : SendEvent(k)
    \/ InEvents /\ \E k \in Clients : LoseClient(k)

(* The type correctness of the five services, with what it says of the     *)
(* order of coreference sessions and of the lock of each worker: it names  *)
(* every open session once, and it is held by the request that prunes.     *)
ServicesTypeOK == CorefTypeOK /\ SyncTypeOK /\ PruneTypeOK /\ VersionsTypeOK /\ EventsTypeOK

MCSpec == MCInit /\ [][MCNext]_vars /\ EventsFairness
=============================================================================
