---------------------- MODULE PlaygroundSession_proofs ----------------------
(***************************************************************************)
(* Proofs about PlaygroundSession for every number of faces, datasets,     *)
(* tasks and messages: what a flush adds is added once, messages leave the *)
(* buffer for a dataset, and no dataset is memorized twice at a time or    *)
(* forgotten.                                                              *)
(***************************************************************************)
EXTENDS PlaygroundSession, FiniteSetTheorems, TLAPS

\* The episode of the flush under way is the buffer as it was when the flush
\* began.
FlushInv ==
  flushing =>
    /\ flush.first = start + 1
    /\ flush.first <= flush.last /\ flush.last <= Len(messages)
    /\ \A m \in (flush.last + 1)..Len(messages) : m \in late

\* Episodes reported as added end before the buffer begins.
DoneInv == \A e \in done : e.first <= e.last /\ e.last <= start

\* Between two turns there is no dataset at hand, and an episode that a dataset
\* of a task holds is accounted for, or its turn is to come, or memorize() has
\* read it.
ReadInv ==
  \A t \in Tasks :
    /\ step[t] = "next" => turn[t] = {}
    /\ \A e \in done \cap stored :
         e.ds \in tasks[t] =>
           \/ e \in memorized \cup excused
           \/ e.ds \in left[t]
           \/ e.ds \in turn[t] /\ e \in read[t]

\* The gate is shut by runs of the dataset, and by nothing else.
GateInv == rerun = closed

\* What is said of the buffer, and of the background tasks.
BufferInv == DoneInv /\ FlushedOnce /\ QuietMessagesReachMemory
MemoryInv == OneMemorizePerDataset /\ ReadInv /\ MemorizedOrExcused /\ GateInv
SessionInv == TypeOK /\ FlushInv /\ BufferInv /\ MemoryInv

-----------------------------------------------------------------------------
\* The record of no flush is a flush record.
LEMMA NoFlushType ==
  ASSUME ConstantsAssumption
  PROVE  NoFlush \in Flushes
<1>1. 1 \in 1..MaxMessages
  BY DEF ConstantsAssumption
<1> QED
  BY <1>1 DEF NoFlush, Flushes, Origins

\* What add_message leaves behind has its type.
LEMMA MessageType ==
  ASSUME ConstantsAssumption, TypeOK, NEW role \in {"user", "assistant"}, AddMessage(role)
  PROVE  /\ messages' \in Seq({"user", "assistant"}) /\ Len(messages') = Len(messages) + 1
         /\ Len(messages') <= MaxMessages /\ start' \in 0..Len(messages')
         /\ turns' \in Nat /\ tokens' \in Nat /\ late' \subseteq 1..MaxMessages
<1>1. Len(messages) \in Nat /\ MaxMessages \in Nat
  BY DEF TypeOK, ConstantsAssumption
<1>2. messages' \in Seq({"user", "assistant"}) /\ Len(messages') = Len(messages) + 1
  BY DEF AddMessage, TypeOK
<1>3. Len(messages) + 1 \in 1..MaxMessages
  BY <1>1 DEF AddMessage
<1>4. late' \subseteq 1..MaxMessages
  BY <1>3 DEF AddMessage, TypeOK
<1>5. turns' \in Nat /\ tokens' \in Nat /\ start' \in 0..Len(messages')
  BY <1>1, <1>2 DEF AddMessage, TypeOK
<1> QED
  BY <1>1, <1>2, <1>3, <1>4, <1>5

\* What a call of flush_to_long_term leaves behind has its type.
LEMMA CallType ==
  ASSUME ConstantsAssumption, TypeOK, NEW origin \in Origins, NEW size \in 0..MaxMessages,
         NEW asleep \in Nat, CallFlush(origin, size, asleep)
  PROVE  /\ flushing' \in BOOLEAN /\ flush' \in Flushes
         /\ retries' \in 0..MaxRetries /\ sleeping' \in Nat
<1>1. CASE RefuseFlush(size) /\ sleeping' = asleep /\ UNCHANGED retries
  BY <1>1 DEF RefuseFlush, TypeOK
<1>2. CASE StartFlush(origin, size) /\ sleeping' = asleep /\ UNCHANGED retries
  <2>1. Targets \subseteq Datasets
    BY DEF Targets, TypeOK
  <2>2. start + 1 \in 1..MaxMessages /\ size \in 1..MaxMessages
    BY <1>2 DEF StartFlush, TypeOK, ConstantsAssumption
  <2> QED
    BY <1>2, <2>1, <2>2 DEF StartFlush, Flushes, TypeOK
<1>3. CASE BreakFlush(size, asleep)
  BY <1>3 DEF BreakFlush, TypeOK, ConstantsAssumption
<1> QED
  BY <1>1, <1>2, <1>3 DEF CallFlush

\* Every step keeps every variable in its type.
LEMMA TypeStep ==
  ASSUME ConstantsAssumption, TypeOK, [Next]_vars
  PROVE  TypeOK'
<1>1. CASE Ask
  BY <1>1, MessageType, SMTT(30) DEF Ask, TypeOK, buffer, people, retrying, memory, working, gate, session
<1>2. CASE Reply
  <2>1. /\ messages' \in Seq({"user", "assistant"})
        /\ Len(messages') = Len(messages) + 1 /\ Len(messages') <= MaxMessages
    BY <1>2 DEF Reply, AddMessage, TypeOK, ConstantsAssumption
  <2>2. /\ flushing' \in BOOLEAN /\ flush' \in Flushes
        /\ retries' \in 0..MaxRetries /\ sleeping' \in Nat
    <3>1. CASE CallFlush("chat", Len(messages) + 1, sleeping)
      BY <3>1, <2>1, CallType, Len(messages) + 1 \in 0..MaxMessages,
         sleeping \in Nat
         DEF TypeOK, Origins
    <3>2. CASE UNCHANGED <<flushing, flush, retrying>>
      BY <3>2 DEF TypeOK, retrying
    <3> QED
      BY <3>1, <3>2, <1>2 DEF Reply
  <2>3. /\ turns' \in Nat /\ tokens' \in Nat /\ replying' \in Nat
        /\ start' \in 0..Len(messages') /\ late' \subseteq 1..MaxMessages
    BY <1>2, MessageType DEF Reply, TypeOK
  <2> QED
    BY <1>2, <2>1, <2>2, <2>3 DEF Reply, TypeOK, buffer, people, retrying, memory, working, gate, session
<1>3. CASE Disconnect
  BY <1>3 DEF Disconnect, TypeOK, buffer, people, retrying, memory, working, gate, session
<1>4. CASE ManualFlush
  BY <1>4, CallType, Len(messages) \in 0..MaxMessages
     DEF ManualFlush, Origins, TypeOK, buffer, people, retrying, memory, working, gate, session
<1>5. CASE RetryFlush
  BY <1>5, CallType, Len(messages) \in 0..MaxMessages, sleeping - 1 \in Nat
     DEF RetryFlush, Origins, TypeOK, buffer, people, retrying, memory, working, gate, session
<1>6. ASSUME NEW f \in Faces, Meet(f) PROVE TypeOK'
  BY <1>6 DEF Meet, TypeOK, buffer, people, retrying, memory, working, gate, session
<1>7. ASSUME NEW f \in Faces \cup {Anonymous}, NEW d \in Datasets, LinkFace(f, d) PROVE TypeOK'
  BY <1>7 DEF LinkFace, TypeOK, buffer, people, retrying, memory, working, gate, session
<1>8. ASSUME NEW d \in Datasets, AddReturns(d) PROVE TypeOK'
  <2>1. \A e \in Datasets : Episode(e) \in Episodes
    BY DEF Episode, Episodes, Flushes, TypeOK
  <2>2. PICK raised \in BOOLEAN, kept \in BOOLEAN : AddReturns(d)!2!(raised, kept)
    BY <1>8 DEF AddReturns
  <2> DEFINE added == IF raised THEN flush.added ELSE flush.added \cup {d}
  <2>3. added \subseteq Datasets
    BY DEF Flushes, TypeOK
  <2>4. stored' \subseteq Episodes
    BY <2>1, <2>2 DEF TypeOK
  <2>5. CASE flush.left = {d}
    <3>1. EndFlush(added)
      BY <2>2, <2>5
    <3> HIDE DEF added
    <3>2. CASE added = {}
      BY <3>1, <3>2, <2>4, <1>8, NoFlushType
         DEF EndFlush, AddReturns, TypeOK, buffer, people, retrying, memory, working, gate, session
    <3>3. CASE added # {}
      <4>1. done' \subseteq Episodes /\ excused' \subseteq Episodes
        BY <2>1, <2>3, <3>1, <3>3 DEF EndFlush, Launch, TypeOK
      <4>2. /\ memorizing' \subseteq Datasets /\ tasks' \in [Tasks -> SUBSET Datasets]
            /\ left' \in [Tasks -> SUBSET Datasets]
        <5> DEFINE pending == added \ memorizing
        <5>1. pending \subseteq Datasets /\ memorizing' = memorizing \cup pending
          BY <2>3, <3>1, <3>3 DEF EndFlush, Launch
        <5>2. UNCHANGED <<tasks, left>>
                \/ \E t \in Tasks : /\ tasks' = [tasks EXCEPT ![t] = pending]
                                   /\ left' = [left EXCEPT ![t] = pending]
          BY <3>1, <3>3 DEF EndFlush, Launch
        <5> HIDE DEF pending
        <5> QED
          BY <5>1, <5>2 DEF TypeOK
      <4>3. flushing' \in BOOLEAN /\ flush' \in Flushes
        BY <3>1, NoFlushType DEF EndFlush
      <4>4. /\ start' \in 0..Len(messages') /\ turns' \in Nat /\ tokens' \in Nat
            /\ retries' \in 0..MaxRetries
        BY <3>1, <3>3, <1>8 DEF EndFlush, AddReturns, TypeOK, ConstantsAssumption
      <4> QED
        BY <2>4, <4>1, <4>2, <4>3, <4>4, <1>8
           DEF AddReturns, TypeOK, buffer, people, retrying, memory, working, gate, session
    <3> QED
      BY <3>2, <3>3
  <2>6. CASE flush.left # {d}
    BY <2>2, <2>3, <2>4, <2>6, <1>8
       DEF AddReturns, Flushes, TypeOK, buffer, people, retrying, memory, working, gate, session
  <2> QED
    BY <2>5, <2>6
<1>9. ASSUME NEW d \in Datasets, CancelFlush(d) PROVE TypeOK'
  <2>1. Episode(d) \in Episodes
    BY DEF Episode, Episodes, Flushes, TypeOK
  <2> QED
    BY <2>1, <1>9, NoFlushType
       DEF CancelFlush, TypeOK, buffer, people, retrying, memory, working, gate, session
<1>10. ASSUME NEW d \in Datasets, AddBegins(d) PROVE TypeOK'
  <2>1. flush' \in Flushes
    BY <1>10 DEF AddBegins, Flushes, TypeOK
  <2> QED
    BY <1>10, <2>1 DEF AddBegins, TypeOK, buffer, people, retrying, memory, working, gate, session
<1>11. ASSUME NEW t \in Tasks, MemorizeStep(t) PROVE TypeOK'
  <2>1. \A ds : Of(ds) \subseteq Episodes
    BY DEF Of, TypeOK
  <2>2. ASSUME NEW d \in Datasets, ReadDataset(t, d) PROVE TypeOK'
    BY <2>1, <2>2 DEF ReadDataset, TypeOK, Steps, buffer, people, retrying, memory, working, gate, session
  <2>3. CASE SkipDataset(t)
    BY <2>1, <2>3 DEF SkipDataset, EndTurn, TypeOK, Steps, buffer, people, retrying, memory, working, gate, session
  <2>4. CASE StartDataset(t)
    BY <2>4 DEF StartDataset, TypeOK, Steps, buffer, people, retrying, memory, working, gate, session
  <2>5. CASE EndDataset(t)
    BY <2>5 DEF EndDataset, EndTurn, TypeOK, Steps, buffer, people, retrying, memory, working, gate, session
  <2>6. CASE FailDataset(t)
    BY <2>1, <2>6 DEF FailDataset, EndTurn, TypeOK, Steps, buffer, people, retrying, memory, working, gate, session
  <2>7. CASE MemorizeReturns(t)
    BY <2>7 DEF MemorizeReturns, Release, TypeOK, Steps, buffer, people, retrying, memory, working, gate, session
  <2>8. CASE MemorizeFails(t)
    BY <2>1, <2>8 DEF MemorizeFails, Release, TypeOK, Steps, buffer, people, retrying, memory, working, gate, session
  <2> QED
    BY <1>11, <2>2, <2>3, <2>4, <2>5, <2>6, <2>7, <2>8 DEF MemorizeStep
<1>12. ASSUME NEW d \in Datasets, OtherRuns(d) \/ OtherOpens(d) PROVE TypeOK'
  BY <1>12 DEF OtherRuns, OtherOpens, TypeOK, buffer, people, retrying, memory, working, gate, session
<1>13. CASE UNCHANGED vars
  BY <1>13 DEF vars, TypeOK, buffer, people, retrying, memory, working, gate, session
<1> QED
  BY <1>1, <1>2, <1>3, <1>4, <1>5, <1>6, <1>7, <1>8, <1>9, <1>10, <1>11, <1>12,
     <1>13
     DEF Next

-----------------------------------------------------------------------------
\* A call of flush_to_long_term with the messages there are keeps FlushInv.
LEMMA CallKeepsFlush ==
  ASSUME TypeOK, TypeOK', FlushInv, NEW origin, NEW asleep,
         CallFlush(origin, Len(messages'), asleep), UNCHANGED <<start, late>>,
         flushing => messages' = messages
  PROVE  FlushInv'
<1>1. CASE UNCHANGED <<flushing, flush>>
  BY <1>1 DEF FlushInv
<1>2. CASE StartFlush(origin, Len(messages'))
  <2>1. start \in Nat /\ Len(messages') \in Nat
    BY DEF TypeOK
  <2>2. flush'.first = start + 1 /\ flush'.last = Len(messages')
    BY <1>2 DEF StartFlush
  <2>3. Len(messages') > start
    BY <1>2 DEF StartFlush
  <2> QED
    BY <2>1, <2>2, <2>3 DEF FlushInv
<1> QED
  BY <1>1, <1>2 DEF CallFlush, RefuseFlush, BreakFlush

\* A message added while a flush awaits add() is late.
LEMMA MessageKeepsFlush ==
  ASSUME TypeOK, FlushInv, NEW role \in {"user", "assistant"}, AddMessage(role),
         UNCHANGED <<flushing, flush>>
  PROVE  FlushInv'
<1> SUFFICES ASSUME flushing
             PROVE  FlushInv'
  BY DEF FlushInv
<1>1. Len(messages) \in Nat /\ flush.last \in Nat
  BY DEF TypeOK, Flushes
<1>2. Len(messages') = Len(messages) + 1 /\ late' = late \cup {Len(messages) + 1}
  BY DEF AddMessage, TypeOK
<1>3. start' = start
  BY DEF AddMessage
<1>4. flush.last <= Len(messages) /\ \A m \in (flush.last + 1)..Len(messages) : m \in late
  BY DEF FlushInv
<1>5. \A m \in (flush.last + 1)..Len(messages') : m \in late'
  BY <1>1, <1>2, <1>4
<1> QED
  BY <1>1, <1>2, <1>3, <1>4, <1>5 DEF FlushInv

\* While the buffer stays where it is, BufferInv does.
LEMMA BufferKept ==
  ASSUME BufferInv, UNCHANGED <<start, done>>, late \subseteq late'
  PROVE  BufferInv'
BY DEF BufferInv, DoneInv, FlushedOnce, QuietMessagesReachMemory

\* Steps that leave the background tasks and the gate alone, and store no
\* episode that was reported before, keep MemoryInv.
LEMMA MemoryKept ==
  ASSUME MemoryInv, UNCHANGED <<memory, done>>, GateInv', done \cap stored' \subseteq stored
  PROVE  MemoryInv'
BY DEF MemoryInv, OneMemorizePerDataset, ReadInv, MemorizedOrExcused, memory, working

\* Steps that leave the gate alone keep what is said of it.
LEMMA GateKept ==
  ASSUME MemoryInv, UNCHANGED gate
  PROVE  GateInv'
BY DEF MemoryInv, GateInv, gate

\* The episode of the flush under way has not been reported.
LEMMA EpisodeIsNew ==
  ASSUME TypeOK, FlushInv, DoneInv, flushing, NEW d \in Datasets
  PROVE  Episode(d) \notin done
<1>1. Episode(d).last = flush.last /\ flush.last > start
  BY DEF Episode, FlushInv, TypeOK, Flushes
<1>2. \A e \in done : e.last <= start /\ e.last \in Nat /\ start \in Nat
  BY DEF DoneInv, TypeOK, Episodes
<1> QED
  BY <1>1, <1>2

\* A flush that ends with success moves the buffer over its episode and what
\* came late.
LEMMA EndKeepsBuffer ==
  ASSUME ConstantsAssumption, TypeOK, FlushInv, BufferInv, flushing,
         NEW added \in SUBSET Datasets, added # {}, EndFlush(added), late' = late
  PROVE  BufferInv'
<1>1. start \in Nat /\ Len(messages) \in Nat /\ start <= Len(messages)
  BY DEF TypeOK
<1>2. /\ flush.first = start + 1 /\ flush.first <= flush.last
      /\ flush.last \in Nat /\ flush.last <= Len(messages)
  BY DEF FlushInv, TypeOK, Flushes
<1>3. start' = Len(messages) /\ done' = done \cup {Episode(x) : x \in added}
  BY DEF EndFlush
<1>4. \A x \in added : /\ Episode(x).ds = x
                        /\ Episode(x).first = flush.first /\ Episode(x).last = flush.last
  BY DEF Episode
<1>5. \A e \in done : e.first \in Nat /\ e.last \in Nat
  BY DEF TypeOK, Episodes
<1>6. DoneInv'
  BY <1>1, <1>2, <1>3, <1>4, <1>5 DEF BufferInv, DoneInv
<1>7. FlushedOnce'
  <2>1. \A e \in done, x \in added : e.last < Episode(x).first
    BY <1>1, <1>2, <1>4, <1>5 DEF BufferInv, DoneInv
  <2>2. \A x, y \in added : Episode(x).ds = Episode(y).ds => Episode(x) = Episode(y)
    BY <1>4
  <2> QED
    BY <1>3, <2>1, <2>2 DEF BufferInv, FlushedOnce
<1>8. QuietMessagesReachMemory'
  <2> SUFFICES ASSUME NEW m \in 1..Len(messages)
               PROVE  m \in late \/ \E e \in done' : m \in e.first..e.last
    BY <1>3 DEF QuietMessagesReachMemory
  <2>1. CASE m <= start
    BY <1>1, <1>3, <2>1 DEF BufferInv, QuietMessagesReachMemory
  <2>2. CASE start < m /\ m <= flush.last
    <3>1. PICK x \in added : TRUE
      OBVIOUS
    <3>2. m \in Episode(x).first..Episode(x).last
      BY <1>1, <1>2, <1>4, <2>2
    <3> QED
      BY <1>3, <3>1, <3>2
  <2>3. CASE flush.last < m
    BY <1>1, <1>2, <2>3 DEF FlushInv
  <2> QED
    BY <1>1, <1>2, <2>1, <2>2, <2>3
<1> QED
  BY <1>6, <1>7, <1>8 DEF BufferInv

\* It launches a task for the datasets that no task memorizes.
LEMMA EndKeepsMemory ==
  ASSUME TypeOK, MemoryInv, NEW added \in SUBSET Datasets, added # {}, EndFlush(added),
         UNCHANGED <<turn, step, read, memorized>>, GateInv', done \cap stored' \subseteq stored
  PROVE  MemoryInv'
<1> DEFINE pending == added \ memorizing
<1>1. /\ memorizing' = memorizing \cup pending
      /\ excused' = excused \cup {Episode(x) : x \in added \cap memorizing}
      /\ done' = done \cup {Episode(x) : x \in added}
  BY DEF EndFlush, Launch
<1>2. \A x \in added : Episode(x).ds = x
  BY DEF Episode
<1>3. MemorizedOrExcused'
  BY <1>1, <1>2 DEF MemoryInv, MemorizedOrExcused
<1>4. CASE pending = {}
  <2>1. UNCHANGED <<tasks, left>>
    BY <1>4 DEF EndFlush, Launch
  <2>2. OneMemorizePerDataset'
    BY <1>1, <1>4, <2>1 DEF MemoryInv, OneMemorizePerDataset
  <2>3. ReadInv'
    <3>1. \A x \in added : Episode(x) \in excused'
      BY <1>1, <1>4
    <3> QED
      BY <1>1, <2>1, <3>1 DEF MemoryInv, ReadInv
  <2> QED
    BY <1>3, <2>2, <2>3 DEF MemoryInv
<1>5. CASE pending # {}
  <2>1. PICK t \in Tasks : /\ tasks[t] = {} /\ tasks' = [tasks EXCEPT ![t] = pending]
                          /\ left' = [left EXCEPT ![t] = pending]
    BY <1>5 DEF EndFlush, Launch
  <2> HIDE DEF pending
  <2>2. pending \cap memorizing = {}
    BY DEF pending
  <2>3. \A s \in Tasks : /\ tasks'[s] = IF s = t THEN pending ELSE tasks[s]
                         /\ left'[s] = IF s = t THEN pending ELSE left[s]
    BY <2>1 DEF TypeOK
  <2>4. OneMemorizePerDataset'
    <3>1. \A s \in Tasks : tasks[s] \cap pending = {}
      BY <2>2 DEF MemoryInv, OneMemorizePerDataset
    <3>2. memorizing' = UNION {tasks'[s] : s \in Tasks}
      BY <1>1, <2>1, <2>3 DEF MemoryInv, OneMemorizePerDataset
    <3> QED
      BY <2>3, <3>1, <3>2 DEF MemoryInv, OneMemorizePerDataset
  <2>5. ReadInv'
    <3>1. \A x \in added, s \in Tasks \ {t} : x \in tasks[s] => Episode(x) \in excused'
      BY <1>1 DEF MemoryInv, OneMemorizePerDataset
    <3>2. \A s \in Tasks : step'[s] = "next" => turn'[s] = {}
      BY DEF MemoryInv, ReadInv
    <3> QED
      BY <1>1, <1>2, <2>3, <3>1, <3>2 DEF MemoryInv, ReadInv
  <2> QED
    BY <1>3, <2>4, <2>5 DEF MemoryInv
<1> QED
  BY <1>4, <1>5

\* A step of a background task accounts for the dataset it leaves.
LEMMA MemorizeKeeps ==
  ASSUME TypeOK, MemoryInv, NEW t \in Tasks, MemorizeStep(t)
  PROVE  UNCHANGED <<session, stored, done>> /\ MemoryInv'
<1> USE DEF MemoryInv
<1> DEFINE Mine == {e \in done \cap stored : e.ds \in tasks[t]}
           Covered(e) == \/ e \in memorized' \cup excused'
                         \/ e.ds \in left'[t]
                         \/ e.ds \in turn'[t] /\ e \in read'[t]
\* What a step owes that keeps its task.
<1>1. ASSUME UNCHANGED <<session, stored, done, memorizing, tasks>>, GateInv',
             memorized \subseteq memorized', excused \subseteq excused',
             \A s \in Tasks \ {t} : /\ left'[s] = left[s] /\ turn'[s] = turn[s]
                                   /\ step'[s] = step[s] /\ read'[s] = read[s],
             step'[t] = "next" => turn'[t] = {},
             \A e \in Mine : Covered(e)
      PROVE  UNCHANGED <<session, stored, done>> /\ MemoryInv'
  <2>1. OneMemorizePerDataset' /\ MemorizedOrExcused'
    BY <1>1 DEF OneMemorizePerDataset, MemorizedOrExcused
  <2>2. ReadInv'
    BY <1>1 DEF ReadInv
  <2> QED
    BY <1>1, <2>1, <2>2
\* What a step owes that ends its task.
<1>2. ASSUME UNCHANGED <<session, stored, done>>, GateInv', Release(t),
             memorized \subseteq memorized', excused \subseteq excused',
             \A e \in Mine : e \in memorized' \cup excused'
      PROVE  UNCHANGED <<session, stored, done>> /\ MemoryInv'
  <2>1. \A s \in Tasks : /\ tasks'[s] = IF s = t THEN {} ELSE tasks[s]
                         /\ left'[s] = IF s = t THEN {} ELSE left[s]
                         /\ turn'[s] = IF s = t THEN {} ELSE turn[s]
                         /\ step'[s] = IF s = t THEN "next" ELSE step[s]
                         /\ read'[s] = IF s = t THEN {} ELSE read[s]
    BY <1>2 DEF Release, TypeOK
  <2>2. memorizing' = memorizing \ tasks[t]
    BY <1>2 DEF Release
  <2>3. OneMemorizePerDataset'
    BY <2>1, <2>2 DEF OneMemorizePerDataset
  <2>4. MemorizedOrExcused'
    BY <1>2, <2>2 DEF MemorizedOrExcused
  <2>5. ReadInv'
    BY <1>2, <2>1 DEF ReadInv
  <2> QED
    BY <1>2, <2>3, <2>4, <2>5
<1>3. \A e \in Mine : \/ e \in memorized \cup excused
                      \/ e.ds \in left[t]
                      \/ e.ds \in turn[t] /\ e \in read[t]
  BY DEF ReadInv
<1>4. \A ds : \A e \in Mine : e.ds \in ds => e \in Of(ds)
  BY DEF Of
<1>5. rerun = closed
  BY DEF GateInv
<1>6. CASE \E d \in Datasets : ReadDataset(t, d)
  <2>1. PICK d \in Datasets : ReadDataset(t, d)
    BY <1>6
  <2>2. /\ left'[t] = left[t] \ {d} /\ turn'[t] = {d} /\ step'[t] = "fetched"
        /\ read'[t] = Of({d}) /\ turn[t] = {}
        /\ \A s \in Tasks \ {t} : /\ left'[s] = left[s] /\ turn'[s] = turn[s]
                                  /\ step'[s] = step[s] /\ read'[s] = read[s]
        /\ UNCHANGED <<session, stored, done, memorizing, tasks, memorized, excused, closed, rerun>>
    BY <2>1 DEF ReadDataset, TypeOK, ReadInv, gate
  <2>3. \A e \in Mine : Covered(e)
    BY <1>3, <1>4, <2>2
  <2> QED
    BY <1>1, <1>5, <2>2, <2>3 DEF GateInv
<1>7. CASE StartDataset(t)
  <2>1. /\ step'[t] = "running"
        /\ \A s \in Tasks \ {t} : step'[s] = step[s]
        /\ closed' = closed \cup turn[t] /\ rerun' = rerun \cup turn[t]
        /\ UNCHANGED <<session, stored, done, memorizing, tasks, left, turn, read, memorized, excused>>
    BY <1>7 DEF StartDataset, TypeOK
  <2> QED
    BY <1>1, <1>3, <1>5, <2>1 DEF GateInv
<1>8. CASE SkipDataset(t) \/ EndDataset(t) \/ FailDataset(t)
  <2>1. EndTurn(t) /\ UNCHANGED <<session, stored, done>>
    BY <1>8 DEF SkipDataset, EndDataset, FailDataset
  <2>2. /\ turn'[t] = {} /\ step'[t] = "next"
        /\ \A s \in Tasks \ {t} : turn'[s] = turn[s] /\ step'[s] = step[s] /\ read'[s] = read[s]
        /\ UNCHANGED <<left, memorizing, tasks>>
    BY <2>1 DEF EndTurn, TypeOK
  <2>3. /\ memorized \subseteq memorized' /\ excused \subseteq excused' /\ GateInv'
        /\ read[t] \subseteq memorized' \/ Of(turn[t]) \subseteq excused'
    <3>1. CASE SkipDataset(t)
      BY <1>5, <3>1 DEF SkipDataset, GateInv, gate
    <3>2. CASE EndDataset(t)
      BY <1>5, <3>2 DEF EndDataset, GateInv
    <3>3. CASE FailDataset(t)
      BY <1>5, <3>3 DEF FailDataset, GateInv
    <3> QED
      BY <1>8, <3>1, <3>2, <3>3
  <2>4. \A e \in Mine : Covered(e)
    BY <1>3, <1>4, <2>2, <2>3
  <2> QED
    BY <1>1, <2>1, <2>2, <2>3, <2>4
<1>9. CASE MemorizeReturns(t)
  <2>1. /\ left[t] = {} /\ turn[t] = {} /\ Release(t)
        /\ UNCHANGED <<session, memorized, excused, closed, rerun, stored, done>>
    BY <1>9 DEF MemorizeReturns, ReadInv, gate
  <2> QED
    BY <1>2, <1>3, <1>5, <2>1 DEF GateInv
<1>10. CASE MemorizeFails(t)
  <2>1. /\ Release(t) /\ UNCHANGED <<session, memorized, stored, done>>
        /\ excused' = excused \cup Of(left[t] \cup turn[t])
    BY <1>10 DEF MemorizeFails
  <2>2. GateInv'
    BY <1>5, <1>10 DEF MemorizeFails, GateInv, gate
  <2>3. \A e \in Mine : e \in memorized' \cup excused'
    BY <1>3, <1>4, <2>1
  <2> QED
    BY <1>2, <2>1, <2>2, <2>3
<1> QED
  BY <1>6, <1>7, <1>8, <1>9, <1>10 DEF MemorizeStep

\* Every step keeps all invariants.
LEMMA SessionStep ==
  ASSUME ConstantsAssumption, SessionInv, [Next]_vars
  PROVE  SessionInv'
<1> USE DEF SessionInv
<1>0. TypeOK'
  BY TypeStep
<1>1. CASE Ask
  <2>1. AddMessage("user") /\ UNCHANGED <<flushing, flush, stored, done, memory, gate>>
    BY <1>1 DEF Ask
  <2>2. start' = start /\ late \subseteq late'
    BY <2>1 DEF AddMessage
  <2> QED
    BY <1>0, <2>1, <2>2, MessageKeepsFlush, BufferKept, GateKept, MemoryKept
<1>2. CASE Reply
  <2>1. AddMessage("assistant") /\ UNCHANGED <<stored, done, memory, gate>>
    BY <1>2 DEF Reply
  <2>2. start' = start /\ late \subseteq late'
    BY <2>1 DEF AddMessage
  <2>3. FlushInv'
    <3>1. CASE UNCHANGED <<flushing, flush>>
      BY <2>1, <3>1, MessageKeepsFlush
    <3>2. CASE ~flushing /\ CallFlush("chat", Len(messages) + 1, sleeping)
      <4>1. Len(messages') = Len(messages) + 1 /\ late' = late
        BY <2>1, <3>2 DEF AddMessage, TypeOK
      <4> QED
        BY <1>0, <2>1, <2>2, <3>2, <4>1, CallKeepsFlush
    <3> QED
      BY <1>2, <3>1, <3>2 DEF Reply
  <2> QED
    BY <1>0, <2>1, <2>2, <2>3, BufferKept, GateKept, MemoryKept
<1>3. CASE ManualFlush
  <2>1. /\ CallFlush("manual", Len(messages'), sleeping)
        /\ UNCHANGED <<messages, start, late, stored, done, memory, gate>>
    BY <1>3 DEF ManualFlush, buffer
  <2> QED
    BY <1>0, <2>1, CallKeepsFlush, BufferKept, GateKept, MemoryKept
<1>4. CASE RetryFlush
  <2>1. /\ CallFlush("retry", Len(messages'), sleeping - 1)
        /\ UNCHANGED <<messages, start, late, stored, done, memory, gate>>
    BY <1>4 DEF RetryFlush, buffer
  <2> QED
    BY <1>0, <2>1, CallKeepsFlush, BufferKept, GateKept, MemoryKept
<1>5. ASSUME NEW d \in Datasets, AddReturns(d) PROVE SessionInv'
  <2>1. PICK raised \in BOOLEAN, kept \in BOOLEAN : AddReturns(d)!2!(raised, kept)
    BY <1>5 DEF AddReturns
  <2> DEFINE added == IF raised THEN flush.added ELSE flush.added \cup {d}
  <2>2. /\ flushing /\ UNCHANGED <<messages, late, turn, step, read, memorized>>
        /\ UNCHANGED gate
    BY <1>5 DEF AddReturns
  <2>3. added \subseteq Datasets
    BY DEF TypeOK, Flushes
  <2>4. done \cap stored' \subseteq stored /\ GateInv'
    BY <2>1, <2>2, EpisodeIsNew, GateKept DEF BufferInv
  <2>5. CASE flush.left = {d}
    <3>1. EndFlush(added)
      BY <2>1, <2>5
    <3> HIDE DEF added
    <3>2. FlushInv'
      BY <3>1 DEF EndFlush, FlushInv
    <3>3. CASE added = {}
      <4>1. UNCHANGED <<start, done, memory>>
        BY <2>2, <3>1, <3>3 DEF EndFlush, memory, working
      <4> QED
        BY <1>0, <2>2, <2>4, <3>2, <4>1, BufferKept, MemoryKept
    <3>4. CASE added # {}
      BY <1>0, <2>2, <2>3, <2>4, <3>1, <3>2, <3>4, EndKeepsBuffer, EndKeepsMemory
    <3> QED
      BY <3>3, <3>4
  <2>6. CASE flush.left # {d}
    <3>1. /\ UNCHANGED <<flushing, start, done, memory>>
          /\ flush'.first = flush.first /\ flush'.last = flush.last
      BY <2>1, <2>2, <2>6 DEF memory, working
    <3> HIDE DEF added
    <3>2. FlushInv'
      BY <2>2, <3>1 DEF FlushInv
    <3> QED
      BY <1>0, <2>2, <2>4, <3>1, <3>2, BufferKept, MemoryKept
  <2> QED
    BY <2>5, <2>6
<1>6. ASSUME NEW d \in Datasets, CancelFlush(d) PROVE SessionInv'
  <2>1. flushing /\ ~flushing' /\ UNCHANGED <<start, late, done, memory, gate>>
    BY <1>6 DEF CancelFlush, buffer
  <2>2. FlushInv'
    BY <2>1 DEF FlushInv
  <2>3. done \cap stored' \subseteq stored
    BY <1>6, <2>1, EpisodeIsNew DEF BufferInv, CancelFlush
  <2> QED
    BY <1>0, <2>1, <2>2, <2>3, BufferKept, GateKept, MemoryKept
<1>7. ASSUME NEW t \in Tasks, MemorizeStep(t) PROVE SessionInv'
  <2>1. UNCHANGED <<session, stored, done>> /\ MemoryInv'
    BY <1>7, MemorizeKeeps
  <2>2. UNCHANGED <<messages, start, late, flushing, flush, done>>
    BY <2>1 DEF session, buffer
  <2>3. FlushInv'
    BY <2>2 DEF FlushInv
  <2> QED
    BY <1>0, <2>1, <2>2, <2>3, BufferKept
<1>8. ASSUME NEW d \in Datasets, AddBegins(d) PROVE SessionInv'
  <2>1. /\ UNCHANGED <<messages, start, late, flushing, stored, done, memory>>
        /\ flush'.first = flush.first /\ flush'.last = flush.last
        /\ closed' = closed \ {d} /\ rerun' = rerun \ {d}
    BY <1>8 DEF AddBegins, buffer, TypeOK, Flushes
  <2>2. FlushInv' /\ GateInv'
    BY <2>1 DEF FlushInv, MemoryInv, GateInv
  <2> QED
    BY <1>0, <2>1, <2>2, BufferKept, MemoryKept
<1>9. ASSUME NEW d \in Datasets, OtherRuns(d) \/ OtherOpens(d) PROVE SessionInv'
  <2>1. UNCHANGED <<messages, start, late, flushing, flush, stored, done, memory>>
    BY <1>9 DEF OtherRuns, OtherOpens, session, buffer
  <2>2. FlushInv' /\ GateInv'
    BY <1>9, <2>1 DEF OtherRuns, OtherOpens, FlushInv, MemoryInv, GateInv
  <2> QED
    BY <1>0, <2>1, <2>2, BufferKept, MemoryKept
<1>10. CASE UNCHANGED <<messages, start, late, flushing, flush, stored, done, memory, gate>>
  <2>1. FlushInv'
    BY <1>10 DEF FlushInv
  <2> QED
    BY <1>0, <1>10, <2>1, BufferKept, GateKept, MemoryKept
<1>11. CASE Disconnect \/ (\E f \in Faces : Meet(f))
            \/ (\E f \in Faces \cup {Anonymous}, d \in Datasets : LinkFace(f, d))
            \/ UNCHANGED vars
  BY <1>10, <1>11 DEF Disconnect, Meet, LinkFace, vars, session, buffer
<1> QED
  BY <1>1, <1>2, <1>3, <1>4, <1>5, <1>6, <1>7, <1>8, <1>9, <1>11 DEF Next

\* The inductive invariant holds of every behaviour.
LEMMA SessionInvariant == Spec => []SessionInv
<1>1. ConstantsAssumption
  BY ConstantsAssumption
<1>2. Init => SessionInv
  <2> SUFFICES ASSUME Init
               PROVE  SessionInv
    OBVIOUS
  <2>1. /\ messages = <<>> /\ messages \in Seq({"user", "assistant"})
        /\ Len(messages) = 0 /\ start = 0
    BY DEF Init
  <2>2. MaxMessages \in Nat /\ MaxRetries \in Nat
    BY <1>1 DEF ConstantsAssumption
  <2>3. flush \in Flushes
    BY <1>1, NoFlushType DEF Init
  <2>4. TypeOK
    <3>1. start \in 0..Len(messages) /\ Len(messages) <= MaxMessages /\ retries \in 0..MaxRetries
      BY <2>1, <2>2 DEF Init
    <3>2. /\ mapping \in [Faces \cup {Anonymous} -> SUBSET Datasets]
          /\ tasks \in [Tasks -> SUBSET Datasets] /\ read \in [Tasks -> SUBSET Episodes]
          /\ left \in [Tasks -> SUBSET Datasets] /\ turn \in [Tasks -> SUBSET Datasets]
          /\ step \in [Tasks -> Steps]
      BY DEF Init, Steps
    <3>3. /\ turns \in Nat /\ tokens \in Nat /\ replying \in Nat /\ sleeping \in Nat
          /\ flushing \in BOOLEAN
      BY DEF Init
    <3>4. /\ seen \subseteq Faces /\ memorizing \subseteq Datasets /\ late \subseteq 1..MaxMessages
          /\ stored \subseteq Episodes /\ memorized \subseteq Episodes
          /\ done \subseteq Episodes /\ excused \subseteq Episodes
          /\ closed \subseteq Datasets /\ rerun \subseteq Datasets
      BY DEF Init
    <3> QED
      BY <2>1, <2>3, <3>1, <3>2, <3>3, <3>4 DEF TypeOK
  <2>5. FlushInv
    BY DEF Init, FlushInv
  <2>6. BufferInv
    BY <2>1 DEF Init, BufferInv, DoneInv, FlushedOnce, QuietMessagesReachMemory
  <2>7. MemoryInv
    BY DEF Init, MemoryInv, OneMemorizePerDataset, ReadInv, MemorizedOrExcused, GateInv
  <2> QED
    BY <2>4, <2>5, <2>6, <2>7 DEF SessionInv
<1>3. SessionInv /\ [Next]_vars => SessionInv'
  BY <1>1, SessionStep
<1> QED
  BY <1>2, <1>3, PTL DEF Spec

-----------------------------------------------------------------------------
\* Every variable keeps its type.
THEOREM TypeCorrect == Spec => []TypeOK
<1>1. SessionInv => TypeOK
  BY DEF SessionInv
<1> QED
  BY <1>1, SessionInvariant, PTL

\* No dataset gets a message twice from flushes that report success
\* (flush_to_long_term), for every number of datasets and messages.
THEOREM NothingFlushedTwice == Spec => []FlushedOnce
<1>1. SessionInv => FlushedOnce
  BY DEF SessionInv, BufferInv
<1> QED
  BY <1>1, SessionInvariant, PTL

\* Only messages that came while a flush awaited add() leave the buffer without
\* having been added to a dataset (flush_to_long_term).
THEOREM OnlyLateMessagesLost == Spec => []QuietMessagesReachMemory
<1>1. SessionInv => QuietMessagesReachMemory
  BY DEF SessionInv, BufferInv
<1> QED
  BY <1>1, SessionInvariant, PTL

\* The background tasks and _memorizing_datasets agree, and no two tasks share a
\* dataset (_memorize_then_clear).
THEOREM MemorizeExclusive == Spec => []OneMemorizePerDataset
<1>1. SessionInv => OneMemorizePerDataset
  BY DEF SessionInv, MemoryInv
<1> QED
  BY <1>1, SessionInvariant, PTL

\* An episode that was added and stored, and is not searchable when its dataset
\* is released, was flushed while the dataset was being memorized, or its
\* memorize failed, or was skipped because another run had shut the gate
\* (_memorize_then_clear, run_pipeline_per_dataset).
THEOREM NothingForgotten == Spec => []MemorizedOrExcused
<1>1. SessionInv => MemorizedOrExcused
  BY DEF SessionInv, MemoryInv
<1> QED
  BY <1>1, SessionInvariant, PTL
-----------------------------------------------------------------------------
\* The counters.  A new message is the last one of the buffer.
LEMMA MessageKeepsCounters ==
  ASSUME TypeOK, CountersMatchBuffer, NEW role \in {"user", "assistant"}, AddMessage(role)
  PROVE  CountersMatchBuffer'
<1> DEFINE n == Len(messages)
           Users == {m \in (start + 1)..n : messages[m] = "user"}
<1>1. /\ messages \in Seq({"user", "assistant"}) /\ n \in Nat /\ start \in Nat /\ start <= n
      /\ tokens = n - start /\ turns = Cardinality(Users)
  BY DEF TypeOK, CountersMatchBuffer
<1>2. /\ messages' = Append(messages, role) /\ start' = start /\ tokens' = tokens + 1
      /\ turns' = IF role = "user" THEN turns + 1 ELSE turns
  BY DEF AddMessage
<1>3. /\ Len(messages') = n + 1 /\ messages'[n + 1] = role
      /\ \A m \in 1..n : messages'[m] = messages[m]
  BY <1>1, <1>2
<1>4. {m \in (start' + 1)..Len(messages') : messages'[m] = "user"}
        = IF role = "user" THEN Users \cup {n + 1} ELSE Users
  <2>1. \A m : m \in (start + 1)..(n + 1) <=> m \in (start + 1)..n \/ m = n + 1
    BY <1>1
  <2>2. \A m \in (start + 1)..n : m \in 1..n /\ m # n + 1
    BY <1>1
  <2>3. start' = start /\ Len(messages') = n + 1
    BY <1>2, <1>3
  <2> HIDE DEF n
  <2>4. \A m : m \in {k \in (start' + 1)..Len(messages') : messages'[k] = "user"}
                 <=> m \in Users \/ (m = n + 1 /\ role = "user")
    BY <1>3, <2>1, <2>2, <2>3
  <2> QED BY <2>4
<1>5. IsFiniteSet(Users) /\ n + 1 \notin Users
  <2>1. IsFiniteSet((start + 1)..n)
    BY <1>1, FS_Interval
  <2>2. Users \subseteq (start + 1)..n
    OBVIOUS
  <2> HIDE DEF Users
  <2>3. IsFiniteSet(Users)
    BY <2>1, <2>2, FS_Subset
  <2>4. n + 1 \notin (start + 1)..n
    BY <1>1
  <2> QED
    BY <2>2, <2>3, <2>4
<1> HIDE DEF Users
<1>6. Cardinality(Users \cup {n + 1}) = Cardinality(Users) + 1
  BY <1>5, FS_AddElement
<1>7. turns' = Cardinality({m \in (start' + 1)..Len(messages') : messages'[m] = "user"})
  BY <1>1, <1>2, <1>4, <1>6
<1>8. tokens' = Len(messages') - start'
  BY <1>1, <1>2, <1>3
<1> QED
  BY <1>7, <1>8 DEF CountersMatchBuffer

\* A flush that ends with success empties the buffer and the counters at once.
LEMMA EndKeepsCounters ==
  ASSUME TypeOK, CountersMatchBuffer, NEW added, EndFlush(added), UNCHANGED messages
  PROVE  CountersMatchBuffer'
<1>1. CASE added = {}
  BY <1>1 DEF EndFlush, CountersMatchBuffer
<1>2. CASE added # {}
  <2>1. start' = Len(messages') /\ tokens' = 0 /\ turns' = 0 /\ Len(messages') \in Nat
    BY <1>2 DEF EndFlush, TypeOK
  <2>2. {m \in (start' + 1)..Len(messages') : messages'[m] = "user"} = {}
    BY <2>1
  <2>3. turns' = Cardinality({m \in (start' + 1)..Len(messages') : messages'[m] = "user"})
    BY <2>1, <2>2, FS_EmptySet
  <2>4. tokens' = Len(messages') - start'
    BY <2>1
  <2> QED
    BY <2>3, <2>4 DEF CountersMatchBuffer
<1> QED
  BY <1>1, <1>2

LEMMA CountersStep ==
  ASSUME TypeOK, CountersMatchBuffer, [Next]_vars
  PROVE  CountersMatchBuffer'
<1>1. CASE Ask \/ Reply
  BY <1>1, MessageKeepsCounters DEF Ask, Reply
<1>2. CASE \E d \in Datasets : AddReturns(d)
  <2>1. UNCHANGED messages
    BY <1>2 DEF AddReturns
  <2>2. UNCHANGED <<start, turns, tokens>> \/ \E added : EndFlush(added)
    BY <1>2 DEF AddReturns
  <2> QED
    BY <2>1, <2>2, EndKeepsCounters DEF CountersMatchBuffer
<1>3. CASE UNCHANGED <<messages, start, turns, tokens>>
  BY <1>3 DEF CountersMatchBuffer
<1>4. CASE Disconnect \/ ManualFlush \/ RetryFlush \/ (\E f \in Faces : Meet(f))
            \/ (\E f \in Faces \cup {Anonymous}, d \in Datasets : LinkFace(f, d))
            \/ (\E d \in Datasets : AddBegins(d) \/ CancelFlush(d)) \/ UNCHANGED vars
  BY <1>3, <1>4 DEF Disconnect, ManualFlush, RetryFlush, Meet, LinkFace, AddBegins, CancelFlush,
       vars, session, buffer
<1>5. CASE \/ \E t \in Tasks : MemorizeStep(t)
           \/ \E d \in Datasets : OtherRuns(d) \/ OtherOpens(d)
  <2>1. UNCHANGED session
    BY <1>5 DEF MemorizeStep, ReadDataset, SkipDataset, StartDataset, EndDataset, FailDataset,
         MemorizeReturns, MemorizeFails, OtherRuns, OtherOpens
  <2> QED
    BY <1>3, <2>1 DEF session, buffer
<1> QED
  BY <1>1, <1>2, <1>4, <1>5 DEF Next

\* The counters that trigger a flush count exactly the messages of the buffer
\* (add_message, flush_to_long_term).
THEOREM CountersAlwaysMatch == Spec => []CountersMatchBuffer
<1>1. Init => CountersMatchBuffer
  <2> SUFFICES ASSUME Init PROVE CountersMatchBuffer
    OBVIOUS
  <2>1. Len(messages) = 0 /\ start = 0 /\ tokens = 0 /\ turns = 0
    BY DEF Init
  <2>2. {m \in (start + 1)..Len(messages) : messages[m] = "user"} = {}
    BY <2>1
  <2> QED
    BY <2>1, <2>2, FS_EmptySet DEF CountersMatchBuffer
<1>2. TypeOK /\ CountersMatchBuffer /\ [Next]_vars => CountersMatchBuffer'
  BY CountersStep
<1> QED
  BY <1>1, <1>2, TypeCorrect, PTL DEF Spec
=============================================================================
