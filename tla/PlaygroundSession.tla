-------------------------- MODULE PlaygroundSession --------------------------
(***************************************************************************)
(* One playground session: the conversation it buffers in memory and the   *)
(* flush that packs the buffer into an episode, add()s it to every dataset *)
(* of the faces seen, moves the buffer and memorizes the datasets in the   *)
(* background.  Chats, manual flushes and flush retries are coroutines of  *)
(* one process; a step is what one does between two awaits.                *)
(*                                                                         *)
(* A message is its role, and counts for one token.  An episode is the     *)
(* dataset it goes to and the messages first..last of its transcript.      *)
(* add() and memorize() have modules of their own (WorkflowRuns and        *)
(* ItemProcessing); here they are what the session sees of them.  add()    *)
(* opens the gate of the dataset's memorize_pipeline, and may raise or not *)
(* and have stored the episode or not.  memorize() takes its datasets one  *)
(* by one: it reads what the dataset holds, passes the gate or is skipped  *)
(* there, and covers what it has read or fails.  Other callers add to and  *)
(* memorize the datasets too.                                              *)
(***************************************************************************)
EXTENDS Naturals, Sequences, FiniteSets

CONSTANTS
  Faces,           \* registered faces a camera may recognise
  Anonymous,       \* the face id -1
  Datasets,
  Tasks,           \* slots for background memorize tasks
  TurnThreshold,   \* flush_turn_threshold
  TokenThreshold,  \* flush_token_threshold
  MaxRetries,      \* _max_flush_retries
  Shared,          \* other callers memorize the datasets as well
  MaxMessages      \* bound of the model: messages of the session

ASSUME ConstantsAssumption ==
  /\ Anonymous \notin Faces
  /\ {TurnThreshold, TokenThreshold, MaxRetries} \subseteq Nat
  /\ Shared \in BOOLEAN
  /\ MaxMessages \in Nat \ {0}

Origins == {"chat", "manual", "retry"}
Episodes == [ds: Datasets, first: 1..MaxMessages, last: 1..MaxMessages]
\* The locals of flush_to_long_term across its awaits.
Flushes == [origin: Origins, first: 1..MaxMessages, last: 1..MaxMessages,
            left: SUBSET Datasets, at: SUBSET Datasets, added: SUBSET Datasets]
NoFlush == [origin |-> "manual", first |-> 1, last |-> 1,
            left |-> {}, at |-> {}, added |-> {}]

\* Where memorize() is with the dataset whose turn it is.
Steps == {"next", "fetched", "running"}

VARIABLES
  messages,    \* the roles of the messages, oldest first
  start,       \* _buffer_start_idx
  turns,       \* buffer_turns
  tokens,      \* buffer_tokens
  mapping,     \* face_dataset_mapping
  seen,        \* all_seen_faces
  replying,    \* chats whose reply is awaited
  flushing,    \* _flush_in_progress
  flush,       \* the flush under way
  retries,     \* _flush_retry_count
  sleeping,    \* retries waiting for their delay
  memorizing,  \* _memorizing_datasets
  tasks,       \* the datasets each background task memorizes
  left,        \* those whose turn is to come
  turn,        \* the one whose turn it is
  step,        \* where memorize() is with it
  read,        \* what memorize() has read of it
  closed,      \* datasets whose newest memorize_pipeline row says STARTED or
               \* COMPLETED: the gate skips their next run
  stored,      \* episodes the datasets hold
  memorized,   \* episodes that are searchable
  done,        \* history: episodes a flush reported as added
  late,        \* history: messages added while a flush awaited add()
  rerun,       \* history: datasets of which some run wrote such a row since
               \* the last add(), or a failed run, opened the gate
  excused      \* history: episodes of datasets that were being memorized, and
               \* those left out by a failed memorize or by a skipped one whose
               \* dataset was in rerun

buffer == <<messages, start, turns, tokens, late>>
people == <<mapping, seen>>
retrying == <<retries, sleeping>>
gate == <<closed, rerun>>
working == <<left, turn, step, read>>
memory == <<memorizing, tasks, working, memorized, excused>>
session == <<buffer, people, replying, flushing, flush, retrying>>
vars == <<session, memory, gate, stored, done>>

TypeOK ==
  /\ messages \in Seq({"user", "assistant"}) /\ Len(messages) <= MaxMessages
  /\ start \in 0..Len(messages)
  /\ turns \in Nat /\ tokens \in Nat
  /\ mapping \in [Faces \cup {Anonymous} -> SUBSET Datasets]
  /\ seen \subseteq Faces
  /\ replying \in Nat
  /\ flushing \in BOOLEAN /\ flush \in Flushes
  /\ retries \in 0..MaxRetries /\ sleeping \in Nat
  /\ memorizing \subseteq Datasets
  /\ tasks \in [Tasks -> SUBSET Datasets]
  /\ left \in [Tasks -> SUBSET Datasets] /\ turn \in [Tasks -> SUBSET Datasets]
  /\ step \in [Tasks -> Steps]
  /\ closed \subseteq Datasets /\ rerun \subseteq Datasets
  /\ read \in [Tasks -> SUBSET Episodes]
  /\ stored \subseteq Episodes /\ memorized \subseteq Episodes /\ done \subseteq Episodes
  /\ late \subseteq 1..MaxMessages
  /\ excused \subseteq Episodes

Init ==
  /\ messages = <<>> /\ start = 0 /\ turns = 0 /\ tokens = 0
  /\ mapping = [f \in Faces \cup {Anonymous} |-> {}] /\ seen = {}
  /\ replying = 0
  /\ flushing = FALSE /\ flush = NoFlush
  /\ retries = 0 /\ sleeping = 0
  /\ memorizing = {}
  /\ tasks = [t \in Tasks |-> {}] /\ left = [t \in Tasks |-> {}]
  /\ turn = [t \in Tasks |-> {}] /\ step = [t \in Tasks |-> "next"]
  /\ read = [t \in Tasks |-> {}]
  /\ closed \in (IF Shared THEN SUBSET Datasets ELSE {{}}) /\ rerun = closed
  /\ stored = {} /\ memorized = {} /\ done = {}
  /\ late = {} /\ excused = {}

-----------------------------------------------------------------------------
\* flush_to_long_term up to its first await.

\* The datasets of all faces seen and of anonymous speakers; any if they have none.
Targets ==
  LET Mapped(fs) == UNION {mapping[f] : f \in fs}
      known == Mapped(seen \cup {Anonymous})
  IN IF known # {} THEN known ELSE Mapped(Faces)

\* Another flush is under way, the buffer is empty or no dataset is mapped.
RefuseFlush(size) ==
  /\ flushing \/ size = start \/ Targets = {}
  /\ UNCHANGED <<flushing, flush>>

StartFlush(origin, size) ==
  /\ ~flushing /\ size > start /\ Targets # {}
  /\ flushing' = TRUE
  /\ flush' = [origin |-> origin, first |-> start + 1, last |-> size,
               left |-> Targets, at |-> {}, added |-> {}]

\* Mutant: the retry count is checked after it is raised.
BreakFlushOnceMore(size, asleep) ==
  /\ ~flushing /\ size > start
  /\ retries' = retries + 1
  /\ sleeping' = IF retries <= MaxRetries THEN asleep + 1 ELSE asleep
  /\ UNCHANGED <<flushing, flush>>

\* What is raised before the first add() ends the flush and schedules a retry.
BreakFlush(size, asleep) ==
  /\ ~flushing /\ size > start
  /\ IF retries < MaxRetries
     THEN retries' = retries + 1 /\ sleeping' = asleep + 1
     ELSE retries' = retries /\ sleeping' = asleep
  /\ UNCHANGED <<flushing, flush>>

\* A flush of a session with that many messages; asleep retries remain.
CallFlush(origin, size, asleep) ==
  \/ /\ RefuseFlush(size) \/ StartFlush(origin, size)
     /\ sleeping' = asleep
     /\ UNCHANGED retries
  \/ BreakFlush(size, asleep)

-----------------------------------------------------------------------------
\* The handlers of the router.

\* A chat sees a face, and creates a dataset for it if it has none.
Meet(f) ==
  /\ seen' = seen \cup {f}
  /\ \/ UNCHANGED mapping
     \/ mapping[f] = {} /\ \E d \in Datasets : mapping' = [mapping EXCEPT ![f] = {d}]
  /\ UNCHANGED <<buffer, replying, flushing, flush, retrying, memory, gate, stored, done>>

LinkFace(f, d) ==
  /\ mapping' = [mapping EXCEPT ![f] = @ \cup {d}]
  /\ UNCHANGED <<seen, buffer, replying, flushing, flush, retrying, memory, gate, stored, done>>

AddMessage(role) ==
  /\ Len(messages) < MaxMessages
  /\ messages' = Append(messages, role)
  /\ turns' = IF role = "user" THEN turns + 1 ELSE turns
  /\ tokens' = tokens + 1
  /\ late' = IF flushing THEN late \cup {Len(messages) + 1} ELSE late
  /\ UNCHANGED start

\* A chat adds the message and calls the model.
Ask ==
  /\ AddMessage("user")
  /\ replying' = replying + 1
  /\ UNCHANGED <<people, flushing, flush, retrying, memory, gate, stored, done>>

\* The reply has been streamed: it is added, and a full buffer is flushed.
Reply ==
  /\ replying > 0
  /\ AddMessage("assistant")
  /\ replying' = replying - 1
  /\ IF ~flushing /\ (tokens' >= TokenThreshold \/ turns' >= TurnThreshold)
     THEN CallFlush("chat", Len(messages) + 1, sleeping)
     ELSE UNCHANGED <<flushing, flush, retrying>>
  /\ UNCHANGED <<people, memory, gate, stored, done>>

\* The client goes away while the reply is streamed.
Disconnect ==
  /\ replying > 0
  /\ replying' = replying - 1
  /\ UNCHANGED <<buffer, people, flushing, flush, retrying, memory, gate, stored, done>>

ManualFlush ==
  /\ CallFlush("manual", Len(messages), sleeping)
  /\ UNCHANGED <<buffer, people, replying, memory, gate, stored, done>>

RetryFlush ==
  /\ sleeping > 0
  /\ CallFlush("retry", Len(messages), sleeping - 1)
  /\ UNCHANGED <<buffer, people, replying, memory, gate, stored, done>>

-----------------------------------------------------------------------------
\* The add() of a flush begins, and returns or raises.

Episode(d) == [ds |-> d, first |-> flush.first, last |-> flush.last]

\* Mutant: an add() does not open the gate of memorize_pipeline.
AddBeginsKeepingStatus(d) ==
  /\ flushing /\ flush.at = {} /\ d \in flush.left
  /\ flush' = [flush EXCEPT !.at = {d}]
  /\ rerun' = rerun \ {d}
  /\ UNCHANGED <<buffer, people, replying, flushing, retrying, memory, closed,
                 stored, done>>

\* The next dataset: add() resets the status of its pipelines first.
AddBegins(d) ==
  /\ flushing /\ flush.at = {} /\ d \in flush.left
  /\ flush' = [flush EXCEPT !.at = {d}]
  /\ closed' = closed \ {d} /\ rerun' = rerun \ {d}
  /\ UNCHANGED <<buffer, people, replying, flushing, retrying, memory, stored, done>>

\* Mutant: no dataset is memorized while one of them is.
LaunchIfNoneBusy(added) ==
  /\ excused' = excused \cup {Episode(d) : d \in added \cap memorizing}
  /\ IF added \cap memorizing # {} THEN UNCHANGED <<memorizing, tasks, left>>
     ELSE /\ memorizing' = memorizing \cup added
          /\ \E t \in Tasks : /\ tasks[t] = {}
                              /\ tasks' = [tasks EXCEPT ![t] = added]
                              /\ left' = [left EXCEPT ![t] = added]

\* The datasets that are not yet being memorized are, in one new task.
Launch(added) ==
  LET pending == added \ memorizing
  IN /\ memorizing' = memorizing \cup pending
     /\ IF pending = {} THEN UNCHANGED <<tasks, left>>
        ELSE \E t \in Tasks : /\ tasks[t] = {}
                              /\ tasks' = [tasks EXCEPT ![t] = pending]
                              /\ left' = [left EXCEPT ![t] = pending]
     /\ excused' = excused \cup {Episode(d) : d \in added \cap memorizing}

\* Mutant: a flush that failed for some dataset keeps the buffer for a retry.
EndFlushIfComplete(added) ==
  /\ flushing' = FALSE /\ flush' = NoFlush
  /\ IF added # Targets
     THEN UNCHANGED <<start, turns, tokens, retries>>
     ELSE /\ start' = Len(messages) /\ turns' = 0 /\ tokens' = 0
          /\ retries' = IF flush.origin = "retry" THEN 0 ELSE retries
  /\ done' = done \cup {Episode(d) : d \in added}
  /\ IF added = {} THEN UNCHANGED <<memorizing, tasks, left, excused>> ELSE Launch(added)

\* Mutant: the counters lose what they were when the flush began.
EndFlushSubtracting(added) ==
  /\ flushing' = FALSE /\ flush' = NoFlush
  /\ IF added = {}
     THEN UNCHANGED <<start, turns, tokens, done, retries, memorizing, tasks, left,
                      excused>>
     ELSE /\ start' = Len(messages) /\ turns' = 0
          /\ tokens' = tokens - (flush.last + 1 - flush.first)
          /\ done' = done \cup {Episode(d) : d \in added}
          /\ retries' = IF flush.origin = "retry" THEN 0 ELSE retries
          /\ Launch(added)

\* The flush has tried every dataset: it keeps the buffer if all failed.
EndFlush(added) ==
  /\ flushing' = FALSE /\ flush' = NoFlush
  /\ IF added = {}
     THEN UNCHANGED <<start, turns, tokens, done, retries, memorizing, tasks, left,
                      excused>>
     ELSE /\ start' = Len(messages) /\ turns' = 0 /\ tokens' = 0
          /\ done' = done \cup {Episode(d) : d \in added}
          /\ retries' = IF flush.origin = "retry" THEN 0 ELSE retries
          /\ Launch(added)

\* The add() to a dataset returns, or raises and is logged. It may return
\* without having stored the episode: its own run was skipped beside another
\* add() to the dataset, or failed with item errors collected.
AddReturns(d) ==
  /\ flushing /\ flush.at = {d}
  /\ \E raised \in BOOLEAN, kept \in BOOLEAN :
       /\ stored' = IF kept THEN stored \cup {Episode(d)} ELSE stored
       /\ LET added == IF raised THEN flush.added ELSE flush.added \cup {d}
          IN IF flush.left = {d} THEN EndFlush(added)
             ELSE /\ flush' = [origin |-> flush.origin, first |-> flush.first, last |-> flush.last,
                              left |-> flush.left \ {d}, at |-> {}, added |-> added]
                  /\ UNCHANGED <<flushing, start, turns, tokens, done, retries,
                                 memorizing, tasks, left, excused>>
  /\ UNCHANGED <<messages, late, people, replying, sleeping, turn, step, read,
                 memorized, gate>>

\* Mutant: the buffer is moved in the finally clause.
CancelFlushClearing(d) ==
  /\ flushing /\ flush.origin = "chat" /\ d \in flush.left
  /\ start' = Len(messages) /\ turns' = 0 /\ tokens' = 0
  /\ flushing' = FALSE /\ flush' = NoFlush
  /\ UNCHANGED <<messages, late, people, replying, retrying, memory, gate, stored, done>>

\* Mutant: the flag is given back only on return.
CancelFlushKeepingFlag(d) ==
  /\ flushing /\ flush.origin = "chat" /\ d \in flush.left
  /\ flush' = NoFlush
  /\ UNCHANGED <<buffer, people, replying, flushing, retrying, memory, gate, stored, done>>

\* The client goes away while the flush of its chat awaits add().
CancelFlush(d) ==
  /\ flushing /\ flush.origin = "chat" /\ flush.at \subseteq {d} /\ d \in flush.left
  /\ \E kept \in BOOLEAN :
       stored' = IF kept /\ flush.at = {d} THEN stored \cup {Episode(d)} ELSE stored
  /\ flushing' = FALSE /\ flush' = NoFlush
  /\ UNCHANGED <<buffer, people, replying, retrying, memory, gate, done>>

-----------------------------------------------------------------------------
\* _memorize_then_clear, and what memorize() does for it.

Of(ds) == {e \in stored : e.ds \in ds}

\* The next dataset: memorize() reads its items ...
ReadDataset(t, d) ==
  /\ step[t] = "next" /\ d \in left[t]
  /\ left' = [left EXCEPT ![t] = @ \ {d}]
  /\ turn' = [turn EXCEPT ![t] = {d}]
  /\ step' = [step EXCEPT ![t] = "fetched"]
  /\ read' = [read EXCEPT ![t] = Of({d})]
  /\ UNCHANGED <<session, memorizing, tasks, memorized, excused, gate, stored, done>>

EndTurn(t) ==
  /\ turn' = [turn EXCEPT ![t] = {}]
  /\ step' = [step EXCEPT ![t] = "next"]
  /\ read' = [read EXCEPT ![t] = {}]
  /\ UNCHANGED <<left, memorizing, tasks>>

\* ... and is skipped at the gate: in progress or done already ...
SkipDataset(t) ==
  /\ step[t] = "fetched" /\ turn[t] \subseteq closed
  /\ excused' = IF turn[t] \subseteq rerun THEN excused \cup Of(turn[t]) ELSE excused
  /\ EndTurn(t)
  /\ UNCHANGED <<session, memorized, gate, stored, done>>

\* ... or writes its STARTED row ...
StartDataset(t) ==
  /\ step[t] = "fetched" /\ turn[t] \cap closed = {}
  /\ closed' = closed \cup turn[t] /\ rerun' = rerun \cup turn[t]
  /\ step' = [step EXCEPT ![t] = "running"]
  /\ UNCHANGED <<session, memorizing, tasks, left, turn, read, memorized, excused,
                 stored, done>>

\* ... and its COMPLETED row, over what it has read ...
EndDataset(t) ==
  /\ step[t] = "running"
  /\ memorized' = memorized \cup read[t]
  /\ closed' = closed \cup turn[t] /\ rerun' = rerun \cup turn[t]
  /\ EndTurn(t)
  /\ UNCHANGED <<session, excused, stored, done>>

\* ... or, with collected item errors, its ERRORED row, and does not raise.
FailDataset(t) ==
  /\ step[t] = "running"
  /\ excused' = excused \cup Of(turn[t])
  /\ closed' = closed \ turn[t] /\ rerun' = rerun \ turn[t]
  /\ EndTurn(t)
  /\ UNCHANGED <<session, memorized, stored, done>>

\* The finally clause: the datasets of the task may be memorized again.
Release(t) ==
  /\ memorizing' = memorizing \ tasks[t]
  /\ tasks' = [tasks EXCEPT ![t] = {}]
  /\ left' = [left EXCEPT ![t] = {}]
  /\ turn' = [turn EXCEPT ![t] = {}]
  /\ step' = [step EXCEPT ![t] = "next"]
  /\ read' = [read EXCEPT ![t] = {}]

MemorizeReturns(t) ==
  /\ tasks[t] # {} /\ left[t] = {} /\ step[t] = "next"
  /\ Release(t)
  /\ UNCHANGED <<session, memorized, excused, gate, stored, done>>

\* Mutant: the datasets are released only when memorize() returns.
MemorizeFailsHolding(t) ==
  /\ tasks[t] # {}
  /\ tasks' = [tasks EXCEPT ![t] = {}]
  /\ left' = [left EXCEPT ![t] = {}]
  /\ turn' = [turn EXCEPT ![t] = {}]
  /\ step' = [step EXCEPT ![t] = "next"]
  /\ read' = [read EXCEPT ![t] = {}]
  /\ UNCHANGED <<session, memorizing, memorized, excused, gate, stored, done>>

\* memorize() raises: the run under way, which writes its ERRORED row, or
\* something outside a run; the datasets to come are not looked at.
MemorizeFails(t) ==
  /\ tasks[t] # {}
  /\ excused' = excused \cup Of(left[t] \cup turn[t])
  /\ IF step[t] = "running"
     THEN closed' = closed \ turn[t] /\ rerun' = rerun \ turn[t]
     ELSE UNCHANGED gate
  /\ Release(t)
  /\ UNCHANGED <<session, memorized, stored, done>>

-----------------------------------------------------------------------------
\* Other callers of the API. What their runs cover is left out.

\* A memorize() of theirs writes its STARTED or COMPLETED row.
OtherRuns(d) ==
  /\ Shared
  /\ closed' = closed \cup {d} /\ rerun' = rerun \cup {d}
  /\ UNCHANGED <<session, memory, stored, done>>

\* It writes its ERRORED row, or an add() of theirs resets the status.
OtherOpens(d) ==
  /\ Shared
  /\ closed' = closed \ {d} /\ rerun' = rerun \ {d}
  /\ UNCHANGED <<session, memory, stored, done>>

-----------------------------------------------------------------------------
MemorizeStep(t) ==
  \/ \E d \in Datasets : ReadDataset(t, d)
  \/ SkipDataset(t) \/ StartDataset(t) \/ EndDataset(t) \/ FailDataset(t)
  \/ MemorizeReturns(t) \/ MemorizeFails(t)

Next ==
  \/ Ask \/ Reply \/ Disconnect \/ ManualFlush \/ RetryFlush
  \/ \E f \in Faces : Meet(f)
  \/ \E f \in Faces \cup {Anonymous}, d \in Datasets : LinkFace(f, d)
  \/ \E d \in Datasets : \/ AddBegins(d) \/ AddReturns(d) \/ CancelFlush(d)
                         \/ OtherRuns(d) \/ OtherOpens(d)
  \/ \E t \in Tasks : MemorizeStep(t)

Spec == Init /\ [][Next]_vars

\* add() and memorize() return or raise: neither awaits a caller.
Fairness ==
  /\ WF_vars(\E d \in Datasets : AddBegins(d) \/ AddReturns(d))
  /\ \A t \in Tasks : WF_vars(MemorizeStep(t))
FairSpec == Spec /\ Fairness

-----------------------------------------------------------------------------
\* The counters that trigger a flush count the messages of the buffer, however
\* messages and flushes interleave (session.py:92, 217).
CountersMatchBuffer ==
  /\ tokens = Len(messages) - start
  /\ turns = Cardinality({m \in (start + 1)..Len(messages) : messages[m] = "user"})

\* Flushes that report success never add a message twice to one dataset: the
\* buffer has moved before another flush can begin (session.py:214).
FlushedOnce ==
  \A e, g \in done :
    e.ds = g.ds /\ e # g => e.last < g.first \/ g.last < e.first

\* A message the buffer has left behind was added to some dataset, unless it
\* came while a flush was awaiting add() (session.py:196, 217).
QuietMessagesReachMemory ==
  \A m \in 1..start : m \in late \/ \E e \in done : m \in e.first..e.last

\* A dataset is memorized by one background task at a time, and it is in
\* _memorizing_datasets exactly as long (session.py:78, 224, 274).
OneMemorizePerDataset ==
  /\ \A s, t \in Tasks : s # t => tasks[s] \cap tasks[t] = {}
  /\ memorizing = UNION {tasks[t] : t \in Tasks}

\* What a flush added and add() stored becomes searchable, unless its memorize
\* failed, its dataset, and not another of the flush, was being memorized
\* (session.py:224), or memorize() was skipped at the gate because another run
\* of the dataset, of this session or of another caller, had closed it after
\* the last add() opened it (pipeline.py:112).
MemorizedOrExcused ==
  \A e \in done \cap stored : e \in memorized \cup excused \/ e.ds \in memorizing

\* A flush always gives the flag back (session.py:255).
FlushEnds == flushing ~> ~flushing

\* A dataset never stays in _memorizing_datasets, where it would be skipped by
\* every later flush (session.py:272).
DatasetsAreReleased == \A d \in Datasets : d \in memorizing ~> d \notin memorizing
=============================================================================
