---------------------------- MODULE CorefSessions ----------------------------
(***************************************************************************)
(* The coreference session manager                                         *)
(* (preprocessing/coreference/session_manager.py).  A session keeps the    *)
(* sentences one user has sent in one language, so that a pronoun of the   *)
(* next sentence can be resolved.  Sessions expire, are evicted when the   *)
(* manager is full, and are replaced when another user names them.  Every  *)
(* operation holds the manager's lock from start to end, so that it is one *)
(* step.                                                                   *)
(***************************************************************************)
EXTENDS Integers, FiniteSets, Sequences, SequencesExt

CONSTANTS SessionIds,   \* session names, chosen by the callers
          Users,
          Languages,
          Installed,    \* languages whose coreference module can be imported
          Closed,       \* no session under this name
          Ttl,          \* ttl_seconds
          MaxSessions,  \* max_sessions
          MaxTime       \* bound: clock ticks

ASSUME CorefAssumption ==
    /\ IsFiniteSet(SessionIds)
    /\ Installed \subseteq Languages
    /\ Ttl \in Nat /\ MaxSessions \in Nat \ {0}
    /\ MaxTime \in Nat

\* `context` is what the stream session remembers: who said something in
\* which language since its last reset.  `used` is when a sentence last came.
\* The count of turns is only reported, and is left out.
Session == [user : Users, language : Languages, active : 0 .. MaxTime, used : 0 .. MaxTime,
            context : SUBSET (Users \X Languages)]

ASSUME ClosedAssumption == Closed \notin Session

VARIABLES now,          \* the clock
          sessions,     \* _sessions: Session or Closed
          order         \* _session_order: names, the least recent first

corefVars == <<now, sessions, order>>

Names(ss) == {s \in SessionIds : ss[s] # Closed}
Drop(ss, names) == [s \in SessionIds |-> IF s \in names THEN Closed ELSE ss[s]]

\* A sequence without the names that are dropped.
Forget(seq, names) ==
    LET kept[k \in 0 .. Len(seq)] ==
            IF k = 0 THEN <<>>
            ELSE IF seq[k] \in names THEN kept[k-1] ELSE Append(kept[k-1], seq[k])
    IN  kept[Len(seq)]

CorefInit == now = 0 /\ sessions = [s \in SessionIds |-> Closed] /\ order = <<>>

Tick ==
    /\ now < MaxTime
    /\ now' = now + 1
    /\ UNCHANGED <<sessions, order>>

Expired == {s \in Names(sessions) : now - sessions[s].active > Ttl}

\* _enforce_max_sessions: names leave the front of the order until fewer than
\* the maximum are open, or no name is left.
EvictedCount(open, ord) ==
    LET enough(k) == k = Len(ord) \/ Cardinality(open \ ToSet(SubSeq(ord, 1, k))) < MaxSessions
    IN  CHOOSE k \in 0 .. Len(ord) : enough(k) /\ (k > 0 => ~enough(k - 1))

\* Mutant of Cleaned: an expired session stays in the order.
CleanedKeepsNames ==
    LET old  == Expired
        k    == EvictedCount(Names(sessions) \ old, order)
        gone == old \cup ToSet(SubSeq(order, 1, k))
    IN  [open |-> Drop(sessions, gone), ord |-> SubSeq(order, k + 1, Len(order))]

\* What an operation finds after the two clean-ups: the open sessions and the order.
Cleaned ==
    LET old  == Expired
        ord  == Forget(order, old)
        k    == EvictedCount(Names(sessions) \ old, ord)
        gone == old \cup ToSet(SubSeq(ord, 1, k))
    IN  [open |-> Drop(sessions, gone), ord |-> SubSeq(ord, k + 1, Len(ord))]

\* A sentence, which the stream session may refuse with an exception.
Turn(ses, user, lang, said) ==
    [ses EXCEPT !.active = now, !.used = now,
                !.context = IF said THEN @ \cup {<<user, lang>>} ELSE @]

NewSession(user, lang) ==
    [user |-> user, language |-> lang, active |-> now, used |-> now, context |-> {}]

Owns(user, ses) == ses # Closed /\ ses.user = user

\* Mutants of Continue: the context survives a change of language; the
\* session keeps its place in the order.
ContinueKeepsContext(s, user, lang) ==
    LET found == Cleaned IN
    /\ Owns(user, found.open[s])
    /\ \E said \in BOOLEAN :
        sessions' = [found.open EXCEPT ![s] = Turn([@ EXCEPT !.language = lang], user, lang, said)]
    /\ order' = Append(Forget(found.ord, {s}), s)
    /\ UNCHANGED now

ContinueInPlace(s, user, lang) ==
    LET found == Cleaned IN
    /\ Owns(user, found.open[s])
    /\ LET kept == IF found.open[s].language = lang THEN found.open[s]
                   ELSE [found.open[s] EXCEPT !.language = lang, !.context = {}]
       IN  \E said \in BOOLEAN :
                sessions' = [found.open EXCEPT ![s] = Turn(kept, user, lang, said)]
    /\ order' = found.ord
    /\ UNCHANGED now

\* resolve_query: a session of this user goes on, its context emptied when
\* the language changes (the stream session stays the one it was made with).
Continue(s, user, lang) ==
    LET found == Cleaned IN
    /\ Owns(user, found.open[s])
    /\ LET kept == IF found.open[s].language = lang THEN found.open[s]
                   ELSE [found.open[s] EXCEPT !.language = lang, !.context = {}]
       IN  \E said \in BOOLEAN :
                sessions' = [found.open EXCEPT ![s] = Turn(kept, user, lang, said)]
    /\ order' = Append(Forget(found.ord, {s}), s)
    /\ UNCHANGED now

\* resolve_query: no session of this user; one of another user is deleted
\* first.  A language module that is not installed raises after that.
Create(s, user, lang) ==
    LET found == Cleaned IN
    /\ ~Owns(user, found.open[s])
    /\ IF lang \in Installed
       THEN /\ \E said \in BOOLEAN :
                    sessions' = [found.open EXCEPT
                                    ![s] = Turn(NewSession(user, lang), user, lang, said)]
            /\ order' = Append(Forget(found.ord, {s}), s)
       ELSE /\ sessions' = [found.open EXCEPT ![s] = Closed]
            /\ order' = Forget(found.ord, {s})
    /\ UNCHANGED now

\* reset_session; user_id is optional.  The order is not touched.
Reset(s) ==
    /\ sessions[s] # Closed
    /\ sessions' = [sessions EXCEPT ![s].context = {}, ![s].active = now]
    /\ UNCHANGED <<now, order>>

\* clear_session_manager: the next call makes an empty manager.
Clear ==
    /\ sessions' = [s \in SessionIds |-> Closed]
    /\ order' = <<>>
    /\ UNCHANGED now

CorefNext ==
    \/ Tick
    \/ \E s \in SessionIds, u \in Users, l \in Languages : Continue(s, u, l) \/ Create(s, u, l)
    \/ \E s \in SessionIds : Reset(s)
    \/ Clear

CorefSpec == CorefInit /\ [][CorefNext]_corefVars

-----------------------------------------------------------------------------
(* Type correctness, and that the order names every open session once and  *)
(* nothing else: without that the limit below could not be kept, and a     *)
(* name left over would evict a later session of the same name early.      *)
CorefTypeOK ==
    /\ now \in 0 .. MaxTime
    /\ sessions \in [SessionIds -> Session \cup {Closed}]
    /\ order \in Seq(SessionIds) /\ IsInjective(order) /\ ToSet(order) = Names(sessions)
    /\ Cardinality(Names(sessions)) <= MaxSessions

(* A session never answers from what another user said, nor from what was  *)
(* said in another language (session_manager.py:148-175).                  *)
ContextIsOneSpeaker ==
    \A s \in Names(sessions) : \A c \in sessions[s].context :
        c = <<sessions[s].user, sessions[s].language>>

(* The order is that of the last sentences, so that a session is evicted   *)
(* for room only when no open session has been silent for longer; a reset  *)
(* does not count as a use (session_manager.py:159-163, 312-325).          *)
OrderIsByUse ==
    \A i, j \in DOMAIN order : i < j => sessions[order[i]].used <= sessions[order[j]].used
=============================================================================
