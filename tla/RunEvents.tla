------------------------------ MODULE RunEvents ------------------------------
(***************************************************************************)
(* From a background run to its subscribers.  A background call over       *)
(* several datasets starts a generator for each, answers, and drives them  *)
(* one after the other, pushing what they yield into a queue by run id     *)
(* (pipeline_execution_mode.py, workflow_run_info_queues.py); a handler    *)
(* per websocket polls that queue (get_memorize_router.py).  A run id is   *)
(* its dataset, as it is derived from dataset and workflow: runs of        *)
(* different calls share a queue, and so do handlers.  Whether the gate    *)
(* lets a run pass is any choice (WorkflowRuns has the gate).              *)
(***************************************************************************)
EXTENDS Naturals, Sequences

CONSTANTS BackgroundCalls,  \* calls with run_in_background
          RunIds,           \* run ids, one per dataset
          DatasetsOf,       \* DatasetsOf[c]: the datasets of a call, in its order
          Clients,          \* websocket connections
          NoQueue           \* a run id without a queue

ASSUME EventsAssumption ==
    /\ DatasetsOf \in [BackgroundCalls -> Seq(RunIds)]
    /\ NoQueue \notin Seq({"progress", "end"})

\* RunStarted is progress; RunCompleted and RunFailed are the end.
Event == {"progress", "end"}

VARIABLES stage,     \* stage[c]: where the call is
          runs,      \* runs[c]: its generators, those still to drive when it drives
          queue,     \* _queues
          client,    \* client[k]: where the handler is, its run id and the event in its hands
          disturbed  \* clients that shared a run id with another, or whose run
                     \* was left by its task (for properties)

eventVars == <<stage, runs, queue, client, disturbed>>

Run == [id : RunIds, at : {"asked", "skipped", "announced", "started"}]
Handler ==
    [at : {"away", "closed", "lost"}] \cup [at : {"listening"}, id : RunIds]
        \cup [at : {"sending"}, id : RunIds, event : Event]

EventsTypeOK ==
    /\ stage \in [BackgroundCalls -> {"idle", "opening", "driving", "broken"}]
    /\ runs \in [BackgroundCalls -> Seq(Run)]
    /\ queue \in [RunIds -> {NoQueue} \cup Seq(Event)]
    /\ client \in [Clients -> Handler]
    /\ disturbed \subseteq Clients

EventsInit ==
    /\ stage = [c \in BackgroundCalls |-> "idle"]
    /\ runs = [c \in BackgroundCalls |-> <<>>]
    /\ queue = [id \in RunIds |-> NoQueue]
    /\ client = [k \in Clients |-> [at |-> "away"]]
    /\ disturbed = {}

-----------------------------------------------------------------------------

\* get_queue: the queue of a run id, made when there is none.
QueueOf(id) == IF queue[id] = NoQueue THEN <<>> ELSE queue[id]

PushToQueue(id, event) == queue' = [queue EXCEPT ![id] = Append(QueueOf(id), event)]

InitializeQueue(id) == queue' = [queue EXCEPT ![id] = <<>>]

RemoveQueue(id) == queue' = [queue EXCEPT ![id] = NoQueue]

BeginBackground(c) ==
    /\ stage[c] = "idle"
    /\ runs' = [runs EXCEPT ![c] =
                   [i \in DOMAIN DatasetsOf[c] |-> [id |-> DatasetsOf[c][i], at |-> "asked"]]]
    /\ stage' = [stage EXCEPT ![c] = "opening"]
    /\ UNCHANGED <<queue, client, disturbed>>

Asked(c) == {i \in DOMAIN runs[c] : runs[c][i].at = "asked"}

\* Clients whose handler has not ended, by run id.
On(id) == {k \in Clients : client[k].at \in {"listening", "sending"} /\ client[k].id = id}

Break(c) ==
    /\ stage' = [stage EXCEPT ![c] = "broken"]
    /\ runs' = [runs EXCEPT ![c] = <<>>]
    /\ disturbed' = disturbed \cup UNION {On(runs[c][i].id) : i \in DOMAIN runs[c]}

\* The first event of the next generator is the answer of the call: the
\* gate's, after which there is no other (skipped) or, without caching, the
\* run's own (announced); or the run has started.  An exception ends the
\* call, and nobody drives what it has started.
OpenRun(c) ==
    /\ stage[c] = "opening" /\ Asked(c) # {}
    /\ LET i == CHOOSE i \in Asked(c) : \A j \in Asked(c) : i <= j
       IN \/ /\ \E at \in {"skipped", "announced", "started"} :
                   runs' = [runs EXCEPT ![c][i].at = at]
             /\ UNCHANGED <<stage, disturbed>>
          \/ Break(c)
    /\ UNCHANGED <<queue, client>>

AnswerCall(c) ==
    /\ stage[c] = "opening" /\ Asked(c) = {}
    /\ stage' = [stage EXCEPT ![c] = "driving"]
    /\ UNCHANGED <<runs, queue, client, disturbed>>

Driven(c, at) == stage[c] = "driving" /\ runs[c] # <<>> /\ Head(runs[c]).at = at

DropRun(c) == runs' = [runs EXCEPT ![c] = Tail(@)]

\* StopAsyncIteration: its only event was the answer.
PassSkipped(c) ==
    /\ Driven(c, "skipped")
    /\ DropRun(c)
    /\ UNCHANGED <<stage, queue, client, disturbed>>

\* Without caching run_tasks yields RunStarted again.
StartDriven(c) ==
    /\ Driven(c, "announced")
    /\ runs' = [runs EXCEPT ![c][1].at = "started"]
    /\ PushToQueue(Head(runs[c]).id, "progress")
    /\ UNCHANGED <<stage, client, disturbed>>

\* Mutant of EndDriven: the loop breaks before it pushes.
EndDrivenSilently(c) ==
    /\ Driven(c, "started")
    /\ DropRun(c)
    /\ UNCHANGED <<stage, queue, client, disturbed>>

\* RunCompleted or RunFailed is pushed and ends the loop over the generator,
\* before a run that failed by an exception could raise it.
EndDriven(c) ==
    /\ Driven(c, "started")
    /\ DropRun(c)
    /\ PushToQueue(Head(runs[c]).id, "end")
    /\ UNCHANGED <<stage, client, disturbed>>

\* A run that cannot write its row raises without an event, or the process
\* cancels the task: nobody drives the other runs.
BreakDriving(c) ==
    /\ Driven(c, "announced") \/ Driven(c, "started")
    /\ Break(c)
    /\ UNCHANGED <<queue, client>>

-----------------------------------------------------------------------------

\* A new handler replaces the queue of its run, whoever polls it.
Subscribe(k) ==
    /\ client[k].at = "away"
    /\ \E id \in RunIds :
          /\ client' = [client EXCEPT ![k] = [at |-> "listening", id |-> id]]
          /\ InitializeQueue(id)
          /\ disturbed' = IF On(id) = {} THEN disturbed ELSE disturbed \cup On(id) \cup {k}
    /\ UNCHANGED <<stage, runs>>

\* A handler that finds no event sleeps; looking makes the queue.
FindNothing(k) ==
    /\ client[k].at = "listening" /\ queue[client[k].id] = NoQueue
    /\ InitializeQueue(client[k].id)
    /\ UNCHANGED <<stage, runs, client, disturbed>>

GetEvent(k) ==
    /\ client[k].at = "listening" /\ QueueOf(client[k].id) # <<>>
    /\ client' = [client EXCEPT ![k] = [at |-> "sending", id |-> client[k].id,
                                       event |-> Head(queue[client[k].id])]]
    /\ queue' = [queue EXCEPT ![client[k].id] = Tail(@)]
    /\ UNCHANGED <<stage, runs, disturbed>>

\* The graph is read and sent while others run.
SendEvent(k) ==
    /\ client[k].at = "sending"
    /\ IF client[k].event = "end"
       THEN /\ client' = [client EXCEPT ![k] = [at |-> "closed"]]
            /\ RemoveQueue(client[k].id)
       ELSE /\ client' = [client EXCEPT ![k] = [at |-> "listening", id |-> client[k].id]]
            /\ UNCHANGED queue
    /\ UNCHANGED <<stage, runs, disturbed>>

\* The client has gone, which removes the queue, or the graph cannot be
\* read (or the run has no row), which does not.
LoseClient(k) ==
    /\ client[k].at = "sending"
    /\ client' = [client EXCEPT ![k] = [at |-> "lost"]]
    /\ RemoveQueue(client[k].id) \/ UNCHANGED queue
    /\ UNCHANGED <<stage, runs, disturbed>>

CallStep(c) ==
    BeginBackground(c) \/ OpenRun(c) \/ AnswerCall(c) \/ PassSkipped(c)
        \/ StartDriven(c) \/ EndDriven(c) \/ BreakDriving(c)

ClientStep(k) == Subscribe(k) \/ FindNothing(k) \/ GetEvent(k) \/ SendEvent(k) \/ LoseClient(k)

EventsNext == (\E c \in BackgroundCalls : CallStep(c)) \/ (\E k \in Clients : ClientStep(k))

\* The event loop resumes generators and handlers; callers and clients need
\* not come.
EventsFairness ==
    /\ \A c \in BackgroundCalls :
          WF_eventVars(OpenRun(c) \/ AnswerCall(c) \/ PassSkipped(c)
                         \/ StartDriven(c) \/ EndDriven(c) \/ BreakDriving(c))
    /\ \A k \in Clients : WF_eventVars(GetEvent(k) \/ SendEvent(k) \/ LoseClient(k))

EventsSpec == EventsInit /\ [][EventsNext]_eventVars /\ EventsFairness

-----------------------------------------------------------------------------

UnderWay(c, id) ==
    /\ stage[c] \in {"opening", "driving"}
    /\ \E i \in DOMAIN runs[c] : runs[c][i].id = id /\ runs[c][i].at \in {"announced", "started"}

(* A client that subscribes while a run is under way, and is the only one  *)
(* on its run id since, gets to hear of its end and is closed, unless the  *)
(* task that drives the run or the connection breaks: whatever other calls *)
(* do, and although queues are replaced, shared by runs, removed and made  *)
(* again (pipeline_execution_mode.py:130-139, get_memorize_router.py:298). *)
SubscriberHearsTheEnd ==
    \A k \in Clients :
        (\E id \in RunIds, c \in BackgroundCalls : k \in On(id) \ disturbed /\ UnderWay(c, id))
            ~> (client[k].at \in {"closed", "lost"} \/ k \in disturbed)
=============================================================================
