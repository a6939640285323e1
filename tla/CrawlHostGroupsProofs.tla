----------------------- MODULE CrawlHostGroupsProofs -----------------------
(***************************************************************************)
(* Theorems about CrawlHostGroups, for every number of groups, URIs,       *)
(* executions, sessions and threads and every retry limit.                 *)
(*                                                                         *)
(* For every choice of faults: the types, with the retry limit as long as  *)
(* no database call throws, that no URI is ever queued twice, and that one *)
(* that has left the queue does not come back.                             *)
(*                                                                         *)
(* Who works on what: a group is in one place, a stream that was let in has*)
(* the group, and no two actors work on one URI.  These theorems are about *)
(* the faults of Survived: database calls that fail and broken streams.    *)
(* They do not hold for the others.  A crash or a lost write leaves a      *)
(* half-moved URI whose repair releases its group twice, a stalled thread  *)
(* or slow post-processing goes on without the group that timed out, and   *)
(* the cleanup of an aborted execution takes a group away from the thread  *)
(* that has it.                                                            *)
(***************************************************************************)
EXTENDS CrawlHostGroups, FiniteSetTheorems, SequenceTheorems, TLAPS

(***************************************************************************)
(* A URI is queued once                                                    *)
(***************************************************************************)

\* A URI that is still to be added is in no queue, and is to be added once.
NotYetQueued ==
    /\ fresh \cap admitted = {}
    /\ \A m \in members : m[2] \notin fresh \cup admitted

QueuedInv == UriQueuedOnce /\ NotYetQueued

\* The step brings back no URI that has left the queue.
LeftStay == \A u \in Uris : HasLeft(u) => HasLeft(u)'

\* Steps that leave the queue members and the URIs to be added alone.
LEMMA QueuedStutter ==
    ASSUME QueuedInv, UNCHANGED <<members, fresh, admitted>>
    PROVE  QueuedInv' /\ LeftStay
BY DEF QueuedInv, UriQueuedOnce, NotYetQueued, LeftStay, HasLeft

\* Steps that only take members out of the queues.
LEMMA QueuedRemove ==
    ASSUME QueuedInv, members' \subseteq members, UNCHANGED <<fresh, admitted>>
    PROVE  QueuedInv' /\ LeftStay
BY DEF QueuedInv, UriQueuedOnce, NotYetQueued, LeftStay, HasLeft

\* Steps that put a member in the place of one of the same URI.
LEMMA QueuedReplace ==
    ASSUME QueuedInv, UNCHANGED <<fresh, admitted>>,
           NEW m \in members, NEW g, NEW v,
           members' = (members \ {m}) \cup {<<g, m[2], v>>}
    PROVE  QueuedInv' /\ LeftStay
BY DEF QueuedInv, UriQueuedOnce, NotYetQueued, LeftStay, HasLeft

LEMMA QueuedUriRemove ==
    ASSUME QueuedInv, UNCHANGED <<fresh, admitted>>, NEW m, NEW d, UriRemove(m, d)
    PROVE  QueuedInv' /\ LeftStay
BY QueuedRemove DEF UriRemove, queues

LEMMA QueuedUriMove ==
    ASSUME QueuedInv, UNCHANGED <<fresh, admitted>>, NEW m, NEW g, NEW v, UriMove(m, g, v)
    PROVE  QueuedInv' /\ LeftStay
<1>1. CASE UNCHANGED members
  BY <1>1, QueuedStutter
<1>2. CASE m \in members /\ members' = (members \ {m}) \cup {<<g, m[2], v>>}
  BY <1>2, QueuedReplace
<1>3. QED
  BY <1>1, <1>2 DEF UriMove, queues

LEMMA QueuedInit == Init => QueuedInv
BY DEF Init, QueuedInv, UriQueuedOnce, NotYetQueued

LEMMA QueuedStep == QueuedInv /\ [Next]_vars => QueuedInv' /\ LeftStay
<1> SUFFICES ASSUME QueuedInv, [Next]_vars PROVE QueuedInv' /\ LeftStay
  OBVIOUS
<1>1. ASSUME NEW u \in Uris, EnsureExecutionActive(u) PROVE QueuedInv' /\ LeftStay
  BY <1>1 DEF EnsureExecutionActive, queues, QueuedInv, UriQueuedOnce, NotYetQueued, LeftStay, HasLeft
<1>2. ASSUME NEW u \in Uris, NEW c \in Chgs, UriAdd(u, c) PROVE QueuedInv' /\ LeftStay
  <2>1. \A m \in members : m[2] # u
    BY <1>2 DEF UriAdd, QueuedInv, NotYetQueued
  <2>2. members' = members \cup {<<c, u, 0>>} /\ u \in admitted /\ u \notin fresh
    BY <1>2 DEF UriAdd, QueuedInv, NotYetQueued
  <2>3. UriQueuedOnce'
    BY <2>1, <2>2 DEF QueuedInv, UriQueuedOnce
  <2>4. NotYetQueued'
    BY <1>2, <2>2 DEF UriAdd, QueuedInv, NotYetQueued
  <2>5. LeftStay
    BY <1>2, <2>2 DEF UriAdd, LeftStay, HasLeft
  <2>6. QED
    BY <2>3, <2>4, <2>5 DEF QueuedInv
<1>3. ASSUME NEW u \in Uris, NEW c \in Chgs, ChgAdd(u, c) PROVE QueuedInv' /\ LeftStay
  BY <1>3, QueuedStutter DEF ChgAdd, queues
<1>4. ASSUME QueueWorkers PROVE QueuedInv' /\ LeftStay
  BY <1>4, QueuedStutter
     DEF QueueWorkers, MoveWaitToReady, MoveBusyToTimeout, RemoveFromUriQueue, queues, others
<1>5. ASSUME NEW h \in Handlers, Prefetch(h) PROVE QueuedInv' /\ LeftStay
  <2>1. CASE RemoveOrphan(h)
    BY <2>1, QueuedUriRemove DEF RemoveOrphan, others
  <2>2. CASE RepairMove(h)
    BY <2>2, QueuedUriMove DEF RepairMove, others
  <2>3. CASE \/ BlPop(h) \/ ChgNext(h) \/ NextUriNone(h) \/ NextUri(h) \/ NextUriFails(h)
             \/ ClaimFails(h) \/ RepairRelease(h)
    BY <2>3, QueuedStutter
       DEF BlPop, ChgNext, NextUriNone, NextUri, NextUriFails, ClaimFails, RepairRelease, GiveUp,
           queues, others
  <2>4. CASE \/ PreFetchFails(h) \/ PreFetch(h) \/ Expire(h) \/ Claim(h) \/ Grant(h)
             \/ \E t \in Tokens : SetSession(h, t)
    BY <2>4, QueuedStutter
       DEF PreFetchFails, PreFetch, Expire, Claim, Grant, SetSession, GiveUp, queues, others
  <2>5. QED
    BY <1>5, <2>1, <2>2, <2>3, <2>4 DEF Prefetch
<1>6. ASSUME NEW t \in Tokens, PageCompleted(t) PROVE QueuedInv' /\ LeftStay
  BY <1>6, QueuedStutter
     DEF PageCompleted, Lookup, Refresh, RefreshFails, OnCompleted, PostFetchFailureFails, OnError,
         OnCancelled, GiveUp, queues, others
<1>7. ASSUME NEW a \in Actors, Finish(a) PROVE QueuedInv' /\ LeftStay
  <2>1. CASE CompleteLease(a)
    BY <2>1, QueuedUriRemove DEF CompleteLease
  <2>2. CASE MoveLease(a)
    BY <2>2, QueuedUriMove DEF MoveLease, others
  <2>3. CASE UriUpdate(a)
    <3> DEFINE before == <<tgt[a], lease[a][2], old[a]>>
    <3>1. CASE before \in members
      <4>1. before[2] = lease[a][2]
        OBVIOUS
      <4>2. members' = (members \ {before}) \cup {<<tgt[a], before[2], time[a]>>}
        BY <2>3, <3>1, <4>1 DEF UriUpdate
      <4>3. UNCHANGED <<fresh, admitted>>
        BY <2>3 DEF UriUpdate, others
      <4>4. QED
        BY <3>1, <4>2, <4>3, QueuedReplace
    <3>2. CASE before \notin members
      BY <2>3, <3>2, QueuedStutter DEF UriUpdate, others
    <3>3. QED
      BY <3>1, <3>2
  <2>4. CASE FinishFails(a) \/ Save(a) \/ Release(a)
    BY <2>4, QueuedStutter DEF FinishFails, Save, Release, queues, others
  <2>5. QED
    BY <1>7, <2>1, <2>2, <2>3, <2>4 DEF Finish
<1>8. ASSUME FetchTimeoutWorker PROVE QueuedInv' /\ LeftStay
  BY <1>8, QueuedStutter
     DEF FetchTimeoutWorker, LPopTimeout, ProcessTimedOutChg, ProcessTimedOutChgFails, GiveUp,
         queues, others
<1>9. ASSUME Reconcile PROVE QueuedInv' /\ LeftStay
  <2>1. ASSUME NEW m \in members, DeleteQueuedUri(m) PROVE QueuedInv' /\ LeftStay
    BY <2>1, QueuedUriRemove, QueuedStutter DEF DeleteQueuedUri, queues
  <2>2. ASSUME NEW e \in Executions, Abort(e) \/ Terminate(e) \/ EndAborted(e) PROVE QueuedInv' /\ LeftStay
    BY <2>2, QueuedStutter DEF Abort, Terminate, EndAborted, queues
  <2>3. ASSUME NEW c \in Chgs, CleanupIfEmpty(c) PROVE QueuedInv' /\ LeftStay
    BY <2>3, QueuedStutter DEF CleanupIfEmpty
  <2>4. QED
    BY <1>9, <2>1, <2>2, <2>3 DEF Reconcile
<1>10. ASSUME Crash PROVE QueuedInv' /\ LeftStay
  BY <1>10 DEF Crash, queues, QueuedInv, UriQueuedOnce, NotYetQueued, LeftStay, HasLeft
<1>11. ASSUME NEW u \in Uris, Flush(u) \/ LoseWrite(u) PROVE QueuedInv' /\ LeftStay
  BY <1>11, QueuedStutter DEF Flush, LoseWrite, queues, others
<1>12. CASE UNCHANGED vars
  BY <1>12, QueuedStutter DEF vars, queues, others
<1>13. QED
  BY <1>1, <1>2, <1>3, <1>4, <1>5, <1>6, <1>7, <1>8, <1>9, <1>10, <1>11, <1>12 DEF Next

\* Whatever crashes, timeouts, retries, moves, repairs and aborts happen, and however many
\* threads take part, a URI has at most one member in the queues of all groups.
THEOREM UriIsQueuedOnce == Spec => []UriQueuedOnce
<1>1. Spec => []QueuedInv
  BY QueuedInit, QueuedStep, PTL DEF Spec
<1>2. QueuedInv => UriQueuedOnce
  BY DEF QueuedInv
<1>3. QED
  BY <1>1, <1>2, PTL

\* What abort cleanup, a completion or the removal of an orphan has taken out of the queue stays
\* out, whatever the faults: uri_update and uri_move look for the member that they replace, so an
\* actor that goes on with a stale lease, or with a document that came back, adds nothing.
THEOREM RemovedUrisStayRemoved == Spec => RemovedStaysRemoved
<1>1. QueuedInv /\ [Next]_vars => [\A u \in Uris : HasLeft(u) => HasLeft(u)']_vars
  BY QueuedStep DEF LeftStay
<1>2. QED
  BY <1>1, QueuedInit, QueuedStep, PTL DEF Spec, RemovedStaysRemoved

(***************************************************************************)
(* Types                                                                   *)
(***************************************************************************)

\* What a thread holds where its code relies on it: a group after a pop, a lease from the
\* choice of a URI on, and a target group for a move.  Until a retry is decided, and when it
\* is not, the fetch time is the one that was read.
LocalFacts ==
    \A a \in Actors :
        /\ pc[a] = "popped" => chg[a] # NoChg
        /\ pc[a] \in {"prefetch", "buffered", "claimed", "posting", "finish"} => lease[a] # NoLease
        /\ pc[a] \in {"repair", "move"} => tgt[a] # NoChg
        /\ pc[a] = "finish" /\ out[a] = "MOVE" => tgt[a] # NoChg
        /\ pc[a] \in {"posting", "move"} => time[a] = old[a]
        /\ pc[a] = "finish" /\ out[a] \in {"SAME", "MOVE"} => time[a] = old[a]

LocalInv == LocalsOK /\ LocalFacts

TypeInv == GroupsOK /\ QueuesOK /\ DocsOK /\ OthersOK /\ LocalInv

LEMMA GroupsKept == GroupsOK /\ UNCHANGED groups => GroupsOK'
BY DEF GroupsOK, groups

LEMMA QueuesKept == QueuesOK /\ UNCHANGED queues => QueuesOK'
BY DEF QueuesOK, queues

LEMMA DocsKept == DocsOK /\ UNCHANGED docs => DocsOK'
BY DEF DocsOK, docs

LEMMA OthersKept == OthersOK /\ UNCHANGED others => OthersOK'
BY DEF OthersOK, others

LEMMA LocalKept == LocalInv /\ UNCHANGED <<pc, locals>> => LocalInv'
BY DEF LocalInv, LocalsOK, LocalFacts, locals, document

LEMMA BoundFacts == 0 \in Counts /\ 0 \in Times
BY MaxRetriesAssumption, BoundsAssumption DEF Counts, Times

\* What may become of a document.  A retry is counted while there is room for one below the
\* retry limit, or, if database calls may throw, below the bound of the counter.
LEMMA EffectFacts ==
    ASSUME NEW r \in Counts, NEW v \in Times,
           NEW effect \in FetchFailure(r, v) \cup FetchFailureFails(r, v)
                            \cup {Effect("COMPLETE", r, v), Effect("SAME", r, v), Effect("MOVE", r, v)}
    PROVE  /\ effect.out \in Outcomes /\ effect.retries \in Counts /\ effect.time \in Times
           /\ effect.out \in {"SAME", "MOVE"} => effect.time = v
           /\ effect \in FetchFailure(r, v) => effect.out \notin {"SAME", "MOVE"}
           /\ effect.out = "MOVE" => effect = Effect("MOVE", r, v)
<1>1. r \in Nat /\ (r + 1 < MaxRetries => r + 1 \in Counts)
  BY MaxRetriesAssumption, BoundsAssumption DEF Counts
<1>2. ASSUME effect \in FetchFailure(r, v)
      PROVE  effect.out \in {"RETRY", "COMPLETE"} /\ effect.retries \in Counts /\ effect.time \in Times
  <2>1. CASE r + 1 < MaxRetries
    <3>1. PICK w \in Later(v) : effect = Effect("RETRY", r + 1, w)
      BY <1>2, <2>1 DEF FetchFailure
    <3>2. QED
      BY <1>1, <2>1, <3>1 DEF Effect, Later
  <2>2. CASE ~(r + 1 < MaxRetries)
    BY <1>2, <2>2 DEF FetchFailure, Effect
  <2>3. QED
    BY <2>1, <2>2
<1>3. ASSUME effect \in FetchFailureFails(r, v)
      PROVE  effect.out = "SAME" /\ effect.retries \in Counts /\ effect.time = v
  <2>1. "dbError" \in Faults /\ r < MaxCount /\ effect = Effect("SAME", r + 1, v)
    BY <1>3 DEF FetchFailureFails
  <2>2. r + 1 \in Counts
    BY <1>1, <2>1, BoundsAssumption DEF Counts
  <2>3. QED
    BY <2>1, <2>2 DEF Effect
<1>4. ASSUME effect \in {Effect("COMPLETE", r, v), Effect("SAME", r, v), Effect("MOVE", r, v)}
      PROVE  /\ effect.out \in Outcomes /\ effect.retries \in Counts /\ effect.time = v
             /\ effect.out = "MOVE" => effect = Effect("MOVE", r, v)
  BY <1>4 DEF Effect, Outcomes
<1>5. QED
  BY <1>2, <1>3, <1>4 DEF Outcomes

\* The documents that RethinkDB has on disk.
DiskRecords == [chg : Chgs \cup {NoChg}, retries : Counts, time : Times, unresolved : BOOLEAN]

LEMMA StoredOK == ASSUME DocsOK, NEW u \in Uris PROVE Stored(u) \in DiskRecords
BY DEF DocsOK, Stored, DiskRecords

LEMMA MemberFacts == \A m \in Members : m[1] \in Chgs /\ m[2] \in Uris /\ m[3] \in Times
BY DEF Members

LEMMA ChgReleaseOK ==
    ASSUME GroupsOK, NEW c, NEW t, NEW isTimeout, ChgRelease(c, t, isTimeout)
    PROVE  GroupsOK'
<1>1. CASE ChgReleaseAccepts(c, t, isTimeout)
  <2>1. busy' \subseteq Chgs /\ wait' \subseteq Chgs /\ counted' \subseteq Chgs
    BY <1>1 DEF ChgRelease, GroupsOK
  <2>2. cur' \in [Chgs -> Uris \cup {NoUri}] /\ st' \in [Chgs -> Tokens \cup {NoToken}]
    BY <1>1 DEF ChgRelease, GroupsOK
  <2>3. session' \in [Tokens -> Chgs \cup {NoChg}]
    BY <1>1 DEF ChgRelease, GroupsOK
  <2>4. qc' \in [Chgs -> Int]
    BY <1>1 DEF ChgRelease, GroupsOK
  <2>5. UNCHANGED <<ready, timeout>>
    BY <1>1 DEF ChgRelease
  <2>6. QED
    BY <2>1, <2>2, <2>3, <2>4, <2>5 DEF GroupsOK
<1>2. CASE ~ChgReleaseAccepts(c, t, isTimeout)
  BY <1>2, GroupsKept DEF ChgRelease
<1>3. QED
  BY <1>1, <1>2

LEMMA WeightsWithoutOK ==
    ASSUME QueuesOK, NEW m PROVE WeightsWithout(m) \subseteq weights
BY DEF WeightsWithout

LEMMA UriRemoveOK ==
    ASSUME GroupsOK, QueuesOK, NEW m, NEW d, UriRemove(m, d)
    PROVE  GroupsOK' /\ QueuesOK'
<1>1. CASE m \in members
  <2>1. m[1] \in Chgs /\ m[2] \in Uris
    BY <1>1, MemberFacts DEF QueuesOK
  <2>2. GroupsOK'
    BY <1>1, <2>1 DEF UriRemove, GroupsOK
  <2>3. QueuesOK'
    BY <1>1, <2>1, WeightsWithoutOK DEF UriRemove, QueuesOK
  <2>4. QED
    BY <2>2, <2>3
<1>2. CASE m \notin members
  BY <1>2, GroupsKept, QueuesKept DEF UriRemove
<1>3. QED
  BY <1>1, <1>2

LEMMA UriMoveOK ==
    ASSUME GroupsOK, QueuesOK, NEW m, NEW g \in Chgs, NEW v \in Times, UriMove(m, g, v)
    PROVE  GroupsOK' /\ QueuesOK'
<1>1. CASE g # m[1] /\ <<g, m[2], v>> \notin members /\ m \in members
  <2>1. m[1] \in Chgs /\ m[2] \in Uris
    BY <1>1, MemberFacts DEF QueuesOK
  <2>2. GroupsOK'
    <3>1. counted' \subseteq Chgs /\ wait' \subseteq Chgs
      BY <1>1, <2>1 DEF UriMove, GroupsOK
    <3>2. qc' = [qc EXCEPT ![m[1]] = @ - 1, ![g] = @ + 1]
      BY <1>1 DEF UriMove
    <3>3. qc' \in [Chgs -> Int]
      BY <2>1, <3>2 DEF GroupsOK
    <3>4. UNCHANGED <<ready, busy, timeout, cur, st, session>>
      BY <1>1 DEF UriMove
    <3>5. QED
      BY <3>1, <3>3, <3>4 DEF GroupsOK
  <2>3. <<g, m[2], v>> \in Members /\ <<g, Execution[m[2]]>> \in Chgs \X Executions
    BY <2>1, ExecutionAssumption DEF Members
  <2>4. /\ members' = (members \ {m}) \cup {<<g, m[2], v>>}
        /\ weights' = WeightsWithout(m) \cup {<<g, Execution[m[2]]>>}
        /\ remuri' = remuri
    BY <1>1 DEF UriMove
  <2>5. QueuesOK'
    BY <2>3, <2>4, WeightsWithoutOK DEF QueuesOK
  <2>6. QED
    BY <2>2, <2>5
<1>2. CASE ~(g # m[1] /\ <<g, m[2], v>> \notin members /\ m \in members)
  BY <1>2, GroupsKept, QueuesKept DEF UriMove
<1>3. QED
  BY <1>1, <1>2

LEMMA RestOK == ASSUME LocalInv, NEW a \in Actors, Rest(a) PROVE LocalInv'
<1>1. LocalsOK'
  BY BoundFacts DEF LocalInv, LocalsOK, Rest, Goto, Resting, HandlerPc, SessionPc, Outcomes
<1>2. LocalFacts'
  BY DEF LocalInv, LocalFacts, LocalsOK, Rest, Goto, Resting
<1>3. QED
  BY <1>1, <1>2 DEF LocalInv

\* A thread goes on, with what it holds, to a place that relies on nothing.
LEMMA GotoOK ==
    ASSUME LocalInv, NEW a \in Actors, NEW there \in {"selecting", "release", "release2"},
           Goto(a, there), UNCHANGED locals
    PROVE  LocalInv'
BY DEF LocalInv, LocalsOK, LocalFacts, Goto, locals, document, HandlerPc, FinishPc

LEMMA TypeInit == Init => TypeInv
<1> SUFFICES ASSUME Init PROVE TypeInv
  OBVIOUS
<1>1. GroupsOK /\ QueuesOK
  BY DEF Init, GroupsOK, QueuesOK
<1>2. DocsOK /\ OthersOK
  BY BoundFacts DEF Init, Stored, DocsOK, OthersOK
<1>3. LocalsOK
  BY BoundFacts DEF Init, LocalsOK, HandlerPc, SessionPc, Outcomes
<1>4. LocalFacts
  BY DEF Init, LocalFacts
<1>5. QED
  BY <1>1, <1>2, <1>3, <1>4 DEF TypeInv, LocalInv

\* Adding URIs, and the queue workers.
LEMMA TypeAdd ==
    ASSUME TypeInv, NEW u \in Uris, NEW c \in Chgs,
           EnsureExecutionActive(u) \/ UriAdd(u, c) \/ ChgAdd(u, c)
    PROVE  TypeInv'
<1>1. LocalInv'
  BY LocalKept DEF TypeInv, EnsureExecutionActive, UriAdd, ChgAdd
<1>2. CASE EnsureExecutionActive(u)
  BY <1>1, <1>2, GroupsKept, QueuesKept, DocsKept DEF TypeInv, EnsureExecutionActive, OthersOK
<1>3. CASE UriAdd(u, c)
  <2>1. <<c, u, 0>> \in Members /\ <<c, Execution[u]>> \in Chgs \X Executions
    BY BoundFacts, ExecutionAssumption DEF Members
  <2>2. QueuesOK'
    BY <1>3, <2>1 DEF TypeInv, UriAdd, QueuesOK
  <2>3. DocsOK' /\ OthersOK'
    BY <1>3 DEF TypeInv, UriAdd, DocsOK, OthersOK
  <2>4. QED
    BY <1>1, <1>3, <2>2, <2>3, GroupsKept DEF TypeInv, UriAdd
<1>4. CASE ChgAdd(u, c)
  <2>1. GroupsOK'
    BY <1>4 DEF TypeInv, ChgAdd, GroupsOK
  <2>2. OthersOK'
    BY <1>4 DEF TypeInv, ChgAdd, OthersOK
  <2>3. QED
    BY <1>1, <1>4, <2>1, <2>2, QueuesKept, DocsKept DEF TypeInv, ChgAdd
<1>5. QED
  BY <1>2, <1>3, <1>4

LEMMA TypeQueueWorkers == ASSUME TypeInv, QueueWorkers PROVE TypeInv'
<1>1. LocalInv' /\ OthersOK'
  BY LocalKept, OthersKept
     DEF TypeInv, QueueWorkers, MoveWaitToReady, MoveBusyToTimeout, RemoveFromUriQueue
<1>2. ASSUME NEW c \in Chgs, MoveWaitToReady(c) PROVE TypeInv'
  BY <1>1, <1>2, QueuesKept, DocsKept, AppendProperties DEF TypeInv, MoveWaitToReady, GroupsOK
<1>3. ASSUME NEW c \in Chgs, MoveBusyToTimeout(c) PROVE TypeInv'
  BY <1>1, <1>3, QueuesKept, DocsKept, AppendProperties DEF TypeInv, MoveBusyToTimeout, GroupsOK
<1>4. ASSUME RemoveFromUriQueue PROVE TypeInv'
  BY <1>1, <1>4, GroupsKept, BoundFacts DEF TypeInv, RemoveFromUriQueue, QueuesOK, DocsOK
<1>5. QED
  BY <1>2, <1>3, <1>4 DEF QueueWorkers

\* Steps of a thread that change nothing but what the threads hold.
LEMMA TypeLocal ==
    ASSUME TypeInv, UNCHANGED <<groups, queues, docs, others>>, LocalInv'
    PROVE  TypeInv'
BY GroupsKept, QueuesKept, DocsKept, OthersKept DEF TypeInv

LEMMA TypeGiveUp == ASSUME TypeInv, NEW a \in Actors, GiveUp(a) PROVE TypeInv'
BY RestOK, TypeLocal DEF TypeInv, GiveUp

LEMMA TypeNextUri == ASSUME TypeInv, NEW h \in Handlers, NextUri(h) PROVE TypeInv'
<1>1. PICK e \in Executions : \E m \in Heads(chg[h], e) :
          /\ lease' = [lease EXCEPT ![h] = m]
          /\ ReadDocument(h, m[2])
          /\ old' = [old EXCEPT ![h] = fetchTime[m[2]]]
          /\ Goto(h, IF docChg[m[2]] = NoChg THEN "orphan"
                     ELSE IF docChg[m[2]] # chg[h] THEN "repair" ELSE "prefetch")
  BY DEF NextUri
<1>2. PICK m \in Heads(chg[h], e) :
          /\ lease' = [lease EXCEPT ![h] = m]
          /\ ReadDocument(h, m[2])
          /\ old' = [old EXCEPT ![h] = fetchTime[m[2]]]
          /\ Goto(h, IF docChg[m[2]] = NoChg THEN "orphan"
                     ELSE IF docChg[m[2]] # chg[h] THEN "repair" ELSE "prefetch")
  BY <1>1
<1>3. m \in Members
  BY DEF Heads, QueueOf, TypeInv, QueuesOK
<1>4. /\ m # NoLease
      /\ docChg[m[2]] \in Chgs \cup {NoChg}
      /\ retries[m[2]] \in Counts
      /\ fetchTime[m[2]] \in Times
      /\ h \in Actors
  BY <1>3, MemberFacts, NullsAssumption DEF TypeInv, DocsOK, Actors
<1>5. LocalsOK'
  BY <1>2, <1>3, <1>4 DEF NextUri, ReadDocument, TypeInv, LocalInv, LocalsOK, Goto, HandlerPc
<1>6. LocalFacts'
  BY <1>2, <1>4 DEF NextUri, ReadDocument, TypeInv, LocalInv, LocalsOK, LocalFacts, Goto
<1>7. QED
  BY <1>5, <1>6, TypeLocal DEF NextUri, LocalInv

LEMMA TypePreFetch == ASSUME TypeInv, NEW h \in Handlers, PreFetch(h) PROVE TypeInv'
<1> DEFINE u == lease[h][2]
           g == docChg[u]
<1>1. h \in Actors /\ u \in Uris
  BY MemberFacts DEF PreFetch, TypeInv, LocalInv, LocalsOK, LocalFacts, Actors
<1>2. g \in Chgs /\ retries[u] \in Counts /\ fetchTime[u] \in Times
  BY <1>1 DEF PreFetch, TypeInv, DocsOK
<1>3. /\ chg' = [chg EXCEPT ![h] = g]
      /\ old' = [old EXCEPT ![h] = fetchTime[u]]
      /\ UNCHANGED <<tok, lease, late>>
  BY DEF PreFetch
<1>4. PICK there \in {"finish", "buffered"}, d \in Chgs, o \in Outcomes, r \in Counts, v \in Times :
          /\ Goto(h, there)
          /\ tgt' = [tgt EXCEPT ![h] = d]
          /\ out' = [out EXCEPT ![h] = o]
          /\ mem' = [mem EXCEPT ![h] = r]
          /\ time' = [time EXCEPT ![h] = v]
          /\ dns' \subseteq dns \cup {h}
          /\ there = "finish" /\ o \in {"SAME", "MOVE"} => v = fetchTime[u]
  <2>1. CASE Preclude(h, u, g)
    BY <1>2, <2>1 DEF Preclude, Conclude, Effect, Outcomes
  <2>2. CASE /\ \E effect \in FetchFailure(retries[u], fetchTime[u]) : Conclude(h, effect)
             /\ tgt' = [tgt EXCEPT ![h] = g]
             /\ dns' = dns \cup {h}
    <3>1. PICK effect \in FetchFailure(retries[u], fetchTime[u]) : Conclude(h, effect)
      BY <2>2
    <3>2. /\ effect.out \in Outcomes /\ effect.retries \in Counts /\ effect.time \in Times
          /\ effect.out \notin {"SAME", "MOVE"}
      BY <1>2, EffectFacts
    <3>3. QED
      BY <1>2, <2>2, <3>1, <3>2 DEF Conclude
  <2>3. CASE /\ Conclude(h, Effect("MOVE", retries[u], fetchTime[u]))
             /\ \E d \in Chgs : tgt' = [tgt EXCEPT ![h] = d]
             /\ dns' = dns \ {h}
    BY <1>2, <2>3 DEF Conclude, Effect, Outcomes
  <2>4. CASE Goto(h, "buffered") /\ ReadDocument(h, u) /\ UNCHANGED out
    <3>1. out' = [out EXCEPT ![h] = out[h]] /\ out[h] \in Outcomes
      BY <1>1, <2>4 DEF TypeInv, LocalInv, LocalsOK
    <3>2. QED
      BY <1>2, <2>4, <3>1 DEF ReadDocument
  <2>5. QED
    BY <2>1, <2>2, <2>3, <2>4 DEF PreFetch, ResolveDns
<1>5. LocalsOK'
  BY <1>1, <1>2, <1>3, <1>4 DEF TypeInv, LocalInv, LocalsOK, Goto, HandlerPc, FinishPc
<1>6. lease[h] # NoLease
  BY <1>1 DEF PreFetch, TypeInv, LocalInv, LocalFacts
<1>7. LocalFacts'
  BY <1>1, <1>2, <1>3, <1>4, <1>6, NullsAssumption DEF TypeInv, LocalInv, LocalsOK, LocalFacts, Goto
<1>8. OthersOK'
  BY DEF PreFetch, LimitReached, TypeInv, OthersOK
<1>9. QED
  BY <1>5, <1>7, <1>8, GroupsKept, QueuesKept, DocsKept DEF PreFetch, TypeInv, LocalInv

LEMMA TypeGrant ==
    ASSUME TypeInv, NEW h \in Handlers, Grant(h) \/ \E t \in Tokens : SetSession(h, t)
    PROVE  TypeInv'
<1>1. h \in Actors /\ Tokens \subseteq Actors
  BY DEF Actors
<1>2. ASSUME NEW t \in Tokens, SetSession(h, t) PROVE TypeInv'
  <2>1. lease[h][2] \in Uris
    BY <1>1, <1>2, MemberFacts DEF SetSession, TypeInv, LocalInv, LocalsOK, LocalFacts
  <2>2. GroupsOK'
    BY <1>2, <2>1 DEF SetSession, TypeInv, GroupsOK
  <2>3. LocalsOK'
    BY <1>1, <1>2 DEF SetSession, TypeInv, LocalInv, LocalsOK, HandlerPc, SessionPc, document
  <2>4. LocalFacts'
    BY <1>1, <1>2 DEF SetSession, TypeInv, LocalInv, LocalsOK, LocalFacts, document
  <2>5. QED
    BY <1>2, <2>2, <2>3, <2>4, QueuesKept, DocsKept, OthersKept DEF SetSession, TypeInv, LocalInv
<1>3. CASE Grant(h)
  <2>1. GroupsOK'
    BY <1>1, <1>3 DEF Grant, TypeInv, GroupsOK, LocalInv, LocalsOK
  <2>2. PICK saved \in BOOLEAN :
            pc' = [pc EXCEPT ![h] = "idle", ![tok[h]] = IF saved THEN "fetching" ELSE @]
    BY <1>3 DEF Grant
  <2>3. LocalsOK'
    <3>1. pc' \in [Actors -> HandlerPc \cup SessionPc \cup WorkerPc \cup FinishPc]
      BY <1>1, <2>2 DEF TypeInv, LocalInv, LocalsOK, HandlerPc, SessionPc
    <3>2. QED
      BY <1>1, <1>3, <3>1, BoundFacts DEF Grant, TypeInv, LocalInv, LocalsOK
  <2>4. LocalFacts'
    BY <1>1, <1>3, <2>2 DEF Grant, TypeInv, LocalInv, LocalsOK, LocalFacts
  <2>5. QED
    BY <1>3, <2>1, <2>3, <2>4, QueuesKept, DocsKept, OthersKept DEF Grant, TypeInv, LocalInv
<1>4. QED
  BY <1>2, <1>3

LEMMA TypePrefetchThread == ASSUME TypeInv, NEW h \in Handlers, Prefetch(h) PROVE TypeInv'
<1>1. h \in Actors
  BY DEF Actors
<1>2. CASE BlPop(h)
  <2>1. GroupsOK'
    BY <1>2, HeadTailProperties DEF BlPop, TypeInv, GroupsOK
  <2>2. Head(ready) \in Chgs
    BY <1>2, HeadTailProperties DEF BlPop, TypeInv, GroupsOK
  <2>3. LocalInv'
    BY <1>1, <1>2, <2>2, NullsAssumption
       DEF BlPop, TypeInv, LocalInv, LocalsOK, LocalFacts, Goto, HandlerPc, document
  <2>4. QED
    BY <1>2, <2>1, <2>3, QueuesKept, DocsKept, OthersKept DEF BlPop, TypeInv
<1>3. CASE ChgNext(h)
  <2>1. chg[h] \in Chgs
    BY <1>1, <1>3 DEF ChgNext, TypeInv, LocalInv, LocalsOK, LocalFacts
  <2>2. GroupsOK'
    BY <1>3, <2>1 DEF ChgNext, TypeInv, GroupsOK
  <2>3. LocalInv'
    BY <1>1, <1>3, RestOK, GotoOK DEF ChgNext, TypeInv
  <2>4. QED
    BY <1>3, <2>2, <2>3, QueuesKept, DocsKept, OthersKept DEF ChgNext, TypeInv
<1>4. CASE NextUriNone(h) \/ Expire(h)
  BY <1>1, <1>4, GotoOK, TypeLocal DEF NextUriNone, Expire, TypeInv
<1>5. CASE RemoveOrphan(h)
  BY <1>1, <1>5, UriRemoveOK, GotoOK, DocsKept, OthersKept DEF RemoveOrphan, TypeInv
<1>6. CASE RepairMove(h)
  <2>1. tgt[h] \in Chgs /\ time[h] \in Times
    BY <1>1, <1>6 DEF RepairMove, TypeInv, LocalInv, LocalsOK, LocalFacts
  <2>2. QED
    BY <1>1, <1>6, <2>1, UriMoveOK, GotoOK, DocsKept, OthersKept DEF RepairMove, TypeInv
<1>7. CASE RepairRelease(h)
  BY <1>1, <1>7, ChgReleaseOK, GotoOK, QueuesKept, DocsKept, OthersKept DEF RepairRelease, TypeInv
<1>8. CASE NextUriFails(h) \/ PreFetchFails(h) \/ ClaimFails(h)
  BY <1>1, <1>8, TypeGiveUp DEF NextUriFails, PreFetchFails, ClaimFails
<1>9. CASE Claim(h)
  <2>1. LocalInv'
    BY <1>1, <1>9
       DEF Claim, TypeInv, LocalInv, LocalsOK, LocalFacts, Goto, HandlerPc, FinishPc, locals, document
  <2>2. QED
    BY <1>9, <2>1, TypeLocal DEF Claim
<1>10. QED
  BY <1>2, <1>3, <1>4, <1>5, <1>6, <1>7, <1>8, <1>9, TypeNextUri, TypePreFetch, TypeGrant DEF Prefetch

LEMMA LoadDocumentFacts ==
    ASSUME TypeInv, NEW u \in Uris, docChg[u] # NoChg
    PROVE  /\ <<docChg[u], u, fetchTime[u]>> \in Members
           /\ <<docChg[u], u, fetchTime[u]>> # NoLease
           /\ docChg[u] \in Chgs
           /\ retries[u] \in Counts
           /\ fetchTime[u] \in Times
BY NullsAssumption DEF TypeInv, DocsOK, Members

LEMMA TypePageCompleted == ASSUME TypeInv, NEW t \in Tokens, PageCompleted(t) PROVE TypeInv'
<1>1. t \in Actors
  BY DEF Actors
<1>2. CASE Lookup(t)
  <2>1. CASE session[t] = NoChg
    BY <1>1, <1>2, <2>1, RestOK, TypeLocal DEF Lookup, TypeInv
  <2>2. CASE session[t] # NoChg
    <3>1. session[t] \in Chgs /\ st[session[t]] \in Tokens \cup {NoToken}
      BY <2>2 DEF TypeInv, GroupsOK
    <3>2. LocalsOK'
      BY <1>1, <1>2, <2>2, <3>1 DEF Lookup, TypeInv, LocalInv, LocalsOK, Goto, SessionPc, document
    <3>3. LocalFacts'
      BY <1>1, <1>2, <2>2, <3>1 DEF Lookup, TypeInv, LocalInv, LocalsOK, LocalFacts, Goto, document
    <3>4. QED
      BY <1>2, <3>2, <3>3, TypeLocal DEF Lookup, LocalInv
  <2>3. QED
    BY <2>1, <2>2
<1>3. CASE Refresh(t)
  <2> DEFINE u == cur[chg[t]]
  <2>1. u \in Uris /\ docChg[u] # NoChg
    BY <1>3 DEF Refresh, SessionIsValid, TypeInv, GroupsOK
  <2>2. /\ lease' = [lease EXCEPT ![t] = <<docChg[u], u, fetchTime[u]>>]
        /\ tgt' = [tgt EXCEPT ![t] = docChg[u]]
        /\ mem' = [mem EXCEPT ![t] = retries[u]]
        /\ time' = [time EXCEPT ![t] = fetchTime[u]]
        /\ dns' \subseteq dns \cup {t}
        /\ old' = [old EXCEPT ![t] = fetchTime[u]]
        /\ pc' = [pc EXCEPT ![t] = "posting"]
        /\ UNCHANGED <<chg, tok, out, late>>
    BY <1>3 DEF Refresh, LoadDocument, ReadDocument, Goto
  <2>3. LocalsOK'
    BY <1>1, <2>1, <2>2, LoadDocumentFacts DEF TypeInv, LocalInv, LocalsOK, SessionPc
  <2>4. LocalFacts'
    BY <1>1, <2>1, <2>2, LoadDocumentFacts DEF TypeInv, LocalInv, LocalsOK, LocalFacts
  <2>5. QED
    BY <1>3, <2>3, <2>4, TypeLocal DEF Refresh, LocalInv
<1>4. CASE RefreshFails(t) \/ OnCancelled(t)
  BY <1>1, <1>4, TypeGiveUp DEF RefreshFails, OnCancelled
<1>5. CASE OnCompleted(t) \/ PostFetchFailureFails(t) \/ OnError(t)
  <2>1. mem[t] \in Counts /\ time[t] \in Times
    BY <1>1 DEF TypeInv, LocalInv, LocalsOK
  <2>2. PICK effect \in FetchFailure(mem[t], time[t]) \cup FetchFailureFails(mem[t], time[t])
                         \cup {Effect("COMPLETE", mem[t], time[t]), Effect("SAME", mem[t], time[t])} :
            Conclude(t, effect) /\ late' \subseteq late \cup {t}
    BY <1>5 DEF OnCompleted, PostFetchFailureFails, OnError, Finalize
  <2>3. /\ effect.out \in Outcomes /\ effect.retries \in Counts /\ effect.time \in Times
        /\ effect.out \in {"SAME", "MOVE"} => effect.time = time[t]
    BY <2>1, EffectFacts
  <2>4. UNCHANGED <<chg, tok, lease, tgt, dns, old>> /\ pc[t] = "posting"
    BY <1>5 DEF OnCompleted, PostFetchFailureFails, OnError
  <2>5. effect.out # "MOVE"
    BY <2>2 DEF FetchFailure, FetchFailureFails, Effect
  <2>6. LocalsOK'
    BY <1>1, <2>2, <2>3, <2>4 DEF Conclude, Goto, TypeInv, LocalInv, LocalsOK, FinishPc
  <2>7. LocalFacts'
    BY <1>1, <2>2, <2>3, <2>4, <2>5 DEF Conclude, Goto, TypeInv, LocalInv, LocalsOK, LocalFacts
  <2>8. QED
    BY <1>5, <2>6, <2>7, TypeLocal DEF OnCompleted, PostFetchFailureFails, OnError, LocalInv
<1>6. QED
  BY <1>2, <1>3, <1>4, <1>5 DEF PageCompleted

LEMMA TypeFinish == ASSUME TypeInv, NEW a \in Actors, Finish(a) PROVE TypeInv'
<1>1. CASE FinishFails(a)
  BY <1>1, GotoOK, TypeLocal DEF FinishFails, TypeInv
<1>2. CASE CompleteLease(a)
  <2>1. OthersOK'
    BY <1>2 DEF CompleteLease, TypeInv, OthersOK
  <2>2. QED
    BY <1>2, <2>1, UriRemoveOK, GotoOK, DocsKept DEF CompleteLease, TypeInv
<1>3. CASE Save(a)
  <2> DEFINE u == lease[a][2]
  <2>1. u \in Uris
    BY <1>3, MemberFacts DEF Save, TypeInv, LocalInv, LocalsOK, LocalFacts
  <2>2. mem[a] \in Counts /\ time[a] \in Times /\ tgt[a] \in Chgs \cup {NoChg}
    BY DEF TypeInv, LocalInv, LocalsOK
  <2>3. DocsOK'
    <3>1. /\ docChg' = [docChg EXCEPT ![u] = tgt[a]]
          /\ retries' = [retries EXCEPT ![u] = mem[a]]
          /\ fetchTime' = [fetchTime EXCEPT ![u] = time[a]]
          /\ unresolved' \subseteq unresolved \cup {u}
          /\ UNCHANGED disk
      BY <1>3 DEF Save
    <3>2. QED
      BY <2>1, <2>2, <3>1 DEF TypeInv, DocsOK
  <2>4. LocalsOK'
    BY <1>3 DEF Save, TypeInv, LocalInv, LocalsOK, Goto, AfterSave, FinishPc, locals, document
  <2>5. LocalFacts'
    BY <1>3 DEF Save, TypeInv, LocalInv, LocalsOK, LocalFacts, Goto, AfterSave, locals, document
  <2>6. QED
    BY <1>3, <2>3, <2>4, <2>5, GroupsKept, QueuesKept, OthersKept DEF Save, TypeInv, LocalInv
<1>4. CASE UriUpdate(a)
  <2> DEFINE before == <<tgt[a], lease[a][2], old[a]>>
             after == <<tgt[a], lease[a][2], time[a]>>
  <2>1. members' = IF before \in members THEN (members \ {before}) \cup {after} ELSE members
    BY <1>4 DEF UriUpdate
  <2>2. time[a] \in Times
    BY DEF TypeInv, LocalInv, LocalsOK
  <2>3. ASSUME before \in members PROVE after \in Members
    <3>1. before \in Members
      BY <2>3 DEF TypeInv, QueuesOK
    <3>2. tgt[a] \in Chgs /\ lease[a][2] \in Uris
      BY <3>1 DEF Members
    <3>3. QED
      BY <2>2, <3>2 DEF Members
  <2>4. QueuesOK'
    BY <1>4, <2>1, <2>3 DEF UriUpdate, TypeInv, QueuesOK
  <2>5. QED
    BY <1>4, <2>4, GotoOK, GroupsKept, DocsKept, OthersKept DEF UriUpdate, TypeInv
<1>5. CASE MoveLease(a)
  <2>1. tgt[a] \in Chgs /\ time[a] \in Times
    BY <1>5 DEF MoveLease, TypeInv, LocalInv, LocalsOK, LocalFacts
  <2>2. QED
    BY <1>5, <2>1, UriMoveOK, GotoOK, DocsKept, OthersKept DEF MoveLease, TypeInv
<1>6. CASE Release(a)
  BY <1>6, ChgReleaseOK, RestOK, QueuesKept, DocsKept, OthersKept DEF Release, TypeInv
<1>7. QED
  BY <1>1, <1>2, <1>3, <1>4, <1>5, <1>6 DEF Finish

LEMMA TypeTimeoutWorker == ASSUME TypeInv, FetchTimeoutWorker PROVE TypeInv'
<1>1. Worker \in Actors
  BY DEF Actors
<1>2. CASE LPopTimeout
  <2>1. Head(timeout) \in Chgs /\ GroupsOK'
    BY <1>2, HeadTailProperties DEF LPopTimeout, TypeInv, GroupsOK
  <2>2. LocalInv'
    BY <1>1, <1>2, <2>1, NullsAssumption
       DEF LPopTimeout, TypeInv, LocalInv, LocalsOK, LocalFacts, Goto, WorkerPc, document
  <2>3. QED
    BY <1>2, <2>1, <2>2, QueuesKept, DocsKept, OthersKept DEF LPopTimeout, TypeInv
<1>3. CASE ProcessTimedOutChg
  <2> DEFINE c == chg[Worker]
             u == cur[c]
  <2>1. c \in Chgs
    BY <1>1, <1>3 DEF ProcessTimedOutChg, TypeInv, LocalInv, LocalsOK, LocalFacts
  <2>2. /\ tok' = [tok EXCEPT ![Worker] = st[c]] /\ st[c] \in Tokens \cup {NoToken}
        /\ UNCHANGED chg
    BY <1>3, <2>1 DEF ProcessTimedOutChg, TypeInv, GroupsOK
  <2>3. CASE u = NoUri
    <3>1. /\ pc' = [pc EXCEPT ![Worker] = "release"] /\ late' = late \cup {Worker}
          /\ UNCHANGED <<lease, document, out>>
      BY <1>3, <2>3 DEF ProcessTimedOutChg, Goto
    <3>2. LocalsOK'
      BY <1>1, <2>2, <3>1 DEF TypeInv, LocalInv, LocalsOK, FinishPc, document
    <3>3. LocalFacts'
      BY <1>1, <2>2, <3>1 DEF TypeInv, LocalInv, LocalsOK, LocalFacts, document
    <3>4. QED
      BY <1>3, <3>2, <3>3, TypeLocal DEF ProcessTimedOutChg, LocalInv
  <2>4. CASE u # NoUri
    <3>1. u \in Uris /\ docChg[u] # NoChg
      BY <1>3, <2>1, <2>4 DEF ProcessTimedOutChg, TypeInv, GroupsOK
    <3>2. /\ lease' = [lease EXCEPT ![Worker] = <<docChg[u], u, fetchTime[u]>>]
          /\ tgt' = [tgt EXCEPT ![Worker] = docChg[u]]
          /\ dns' \subseteq dns \cup {Worker}
          /\ old' = [old EXCEPT ![Worker] = fetchTime[u]]
          /\ late' = late \cup {Worker}
      BY <1>3, <2>4 DEF ProcessTimedOutChg, Finalize
    <3>3. PICK effect \in FetchFailure(retries[u], fetchTime[u])
                           \cup FetchFailureFails(retries[u], fetchTime[u]) : Conclude(Worker, effect)
      BY <1>3, <2>4 DEF ProcessTimedOutChg, Finalize
    <3>4. /\ effect.out \in Outcomes /\ effect.retries \in Counts /\ effect.time \in Times
          /\ effect.out \in {"SAME", "MOVE"} => effect.time = fetchTime[u]
      BY <3>1, LoadDocumentFacts, EffectFacts
    <3>5. LocalsOK'
      BY <1>1, <2>2, <3>1, <3>2, <3>3, <3>4, LoadDocumentFacts
         DEF Conclude, Goto, TypeInv, LocalInv, LocalsOK, FinishPc
    <3>6. LocalFacts'
      BY <1>1, <2>2, <3>1, <3>2, <3>3, <3>4, LoadDocumentFacts, NullsAssumption
         DEF Conclude, Goto, TypeInv, LocalInv, LocalsOK, LocalFacts
    <3>7. QED
      BY <1>3, <3>5, <3>6, TypeLocal DEF ProcessTimedOutChg, LocalInv
  <2>5. QED
    BY <2>3, <2>4
<1>4. CASE ProcessTimedOutChgFails
  BY <1>1, <1>4, TypeGiveUp DEF ProcessTimedOutChgFails
<1>5. QED
  BY <1>2, <1>3, <1>4 DEF FetchTimeoutWorker

LEMMA TypeReconcile == ASSUME TypeInv, Reconcile PROVE TypeInv'
<1>1. LocalInv' /\ DocsOK'
  BY LocalKept, DocsKept
     DEF TypeInv, Reconcile, Abort, Terminate, EndAborted, DeleteQueuedUri, CleanupIfEmpty
<1>2. ASSUME NEW e \in Executions, Abort(e) \/ Terminate(e) \/ EndAborted(e) PROVE TypeInv'
  BY <1>1, <1>2, GroupsKept, QueuesKept DEF TypeInv, Abort, Terminate, EndAborted, OthersOK
<1>3. ASSUME NEW m \in members, DeleteQueuedUri(m) PROVE TypeInv'
  <2>1. GroupsOK' /\ QueuesOK'
    BY <1>3, UriRemoveOK, GroupsKept, QueuesKept DEF DeleteQueuedUri, TypeInv
  <2>2. m[1] \in Chgs
    BY MemberFacts DEF TypeInv, QueuesOK
  <2>3. OthersOK'
    BY <1>3, <2>2 DEF DeleteQueuedUri, TypeInv, OthersOK
  <2>4. QED
    BY <1>1, <2>1, <2>3 DEF TypeInv
<1>4. ASSUME NEW c \in Chgs, CleanupIfEmpty(c) PROVE TypeInv'
  <2>1. OthersOK'
    BY <1>4 DEF CleanupIfEmpty, TypeInv, OthersOK
  <2>2. CASE c \in counted /\ qc[c] > 0
    BY <1>1, <1>4, <2>1, <2>2, GroupsKept DEF CleanupIfEmpty, TypeInv, QueuesOK
  <2>3. CASE ~(c \in counted /\ qc[c] > 0)
    <3>1. QueuesOK'
      BY <1>4, <2>3 DEF CleanupIfEmpty, TypeInv, QueuesOK
    <3>2. ready' \in Seq(Chgs) /\ timeout' \in Seq(Chgs)
      BY <1>4, <2>3 DEF CleanupIfEmpty
    <3>3. wait' \subseteq Chgs /\ busy' \subseteq Chgs /\ counted' \subseteq Chgs
      BY <1>4, <2>3 DEF CleanupIfEmpty, TypeInv, GroupsOK
    <3>4. session' \in [Tokens -> Chgs \cup {NoChg}] /\ qc' \in [Chgs -> Int]
      BY <1>4, <2>3 DEF CleanupIfEmpty, TypeInv, GroupsOK
    <3>5. cur' \in [Chgs -> Uris \cup {NoUri}] /\ st' \in [Chgs -> Tokens \cup {NoToken}]
      BY <1>4, <2>3 DEF CleanupIfEmpty, TypeInv, GroupsOK
    <3>6. QED
      BY <1>1, <2>1, <3>1, <3>2, <3>3, <3>4, <3>5 DEF TypeInv, GroupsOK
  <2>4. QED
    BY <2>2, <2>3
<1>5. QED
  BY <1>2, <1>3, <1>4 DEF Reconcile

LEMMA TypeFaults ==
    ASSUME TypeInv, Crash \/ \E u \in Uris : Flush(u) \/ LoseWrite(u)
    PROVE  TypeInv'
<1>1. CASE Crash
  <2>1. LocalsOK'
    BY <1>1, BoundFacts DEF Crash, TypeInv, LocalInv, LocalsOK, Resting, HandlerPc, SessionPc, Outcomes
  <2>2. LocalFacts'
    BY <1>1 DEF Crash, LocalFacts, Resting
  <2>3. OthersOK'
    BY <1>1 DEF Crash, TypeInv, OthersOK
  <2>4. QED
    BY <1>1, <2>1, <2>2, <2>3, GroupsKept, QueuesKept, DocsKept DEF Crash, TypeInv, LocalInv
<1>2. ASSUME NEW u \in Uris, Flush(u) PROVE TypeInv'
  <2>1. Stored(u) \in DiskRecords
    BY StoredOK DEF TypeInv
  <2>2. DocsOK'
    BY <1>2, <2>1 DEF Flush, TypeInv, DocsOK, DiskRecords
  <2>3. QED
    BY <1>2, <2>2, GroupsKept, QueuesKept, OthersKept, LocalKept DEF Flush, TypeInv
<1>3. ASSUME NEW u \in Uris, LoseWrite(u) PROVE TypeInv'
  <2>1. disk[u] \in DiskRecords
    BY DEF TypeInv, DocsOK, DiskRecords
  <2>2. DocsOK'
    BY <1>3, <2>1 DEF LoseWrite, TypeInv, DocsOK, DiskRecords
  <2>3. QED
    BY <1>3, <2>2, GroupsKept, QueuesKept, OthersKept, LocalKept DEF LoseWrite, TypeInv
<1>4. QED
  BY <1>1, <1>2, <1>3

LEMMA TypeStep == TypeInv /\ [Next]_vars => TypeInv'
<1> SUFFICES ASSUME TypeInv, [Next]_vars PROVE TypeInv'
  OBVIOUS
<1>1. ASSUME NEW u \in Uris, EnsureExecutionActive(u) PROVE TypeInv'
  BY <1>1, GroupsKept, QueuesKept, DocsKept, LocalKept DEF EnsureExecutionActive, TypeInv, OthersOK
<1>2. CASE UNCHANGED vars
  BY <1>2, LocalKept, TypeLocal DEF vars, TypeInv
<1>3. QED
  BY <1>1, <1>2, TypeAdd, TypeQueueWorkers, TypePrefetchThread, TypePageCompleted, TypeFinish,
     TypeTimeoutWorker, TypeReconcile, TypeFaults DEF Next

\* In every reachable state, whatever the faults, the state has its types.  As long as no
\* database call throws, no document, in memory, in the database or on its disk, has counted
\* MaxRetries retries; if calls throw, nothing but the bound of the model keeps the counter.
THEOREM GroupsAreTyped == Spec => []TypeOK
<1>1. Spec => []TypeInv
  BY TypeInit, TypeStep, PTL DEF Spec
<1>2. TypeInv => TypeOK
  BY DEF TypeInv, LocalInv, TypeOK
<1>3. QED
  BY <1>1, <1>2, PTL

(***************************************************************************)
(* The inductive invariant of ownership                                    *)
(***************************************************************************)

\* The faults after which no thread works on without the group it took.
Survived == {"dbError", "streamError"}

\* Where a prefetch thread, a completion stream and the timeout worker have work to do on
\* the group they hold.
HandlerWork == {"selecting", "orphan", "prefetch", "buffered", "claimed", "granting",
                "finish", "update", "move", "release"}
SessionWork == {"posting", "finish", "update", "release"}
WorkerWork == {"finish", "update", "release"}

Distinct(s) == \A i, j \in DOMAIN s : s[i] = s[j] => i = j
Placed == wait \cup busy \cup Elems(ready) \cup Elems(timeout)

\* A group is in one of the queues of groups, and then its hash has a queue count.  Its
\* current URI came with a token, and a token is given to one group only.
GroupsInv ==
    /\ Distinct(ready) /\ Distinct(timeout)
    /\ Placed \subseteq counted
    /\ wait \cap busy = {}
    /\ Elems(ready) \cap (wait \cup busy) = {}
    /\ Elems(timeout) \cap (wait \cup busy \cup Elems(ready)) = {}
    /\ \A c \in wait \cup Elems(ready) : st[c] = NoToken
    /\ \A c \in Chgs : st[c] = NoToken => cur[c] = NoUri
    /\ \A c \in Chgs : st[c] # NoToken => pc[st[c]] # "unused"
    /\ \A c, d \in Chgs : st[c] = st[d] /\ st[c] # NoToken => c = d

\* The current URI of a group is queued for that group, if it is still queued.
CurrentInv ==
    /\ \A c \in Chgs : cur[c] # NoUri =>
           /\ cur[c] \notin fresh \cup admitted
           /\ docChg[cur[c]] \in {c, NoChg}
           /\ \A m \in members : m[2] = cur[c] => m[1] = c
    /\ \A c, d \in Chgs : cur[c] = cur[d] /\ cur[c] # NoUri => c = d

HandlerInv(h) ==
    /\ pc[h] \in {"idle", "popped"} \cup HandlerWork
    /\ h \notin late
    /\ tok[h] # NoToken <=> pc[h] = "granting"
    /\ pc[h] = "popped" => chg[h] \in counted \ Placed /\ chg[h] # chg[Worker]
    /\ pc[h] \in HandlerWork => chg[h] \in busy
    /\ pc[h] # "idle" => st[chg[h]] = tok[h]
    /\ pc[h] = "granting" => pc[tok[h]] = "issued"
    /\ Owns(h) => lease[h] \in members /\ lease[h][1] = chg[h]
    /\ pc[h] \in {"finish", "update", "move"} => old[h] = lease[h][3]
    /\ pc[h] = "finish" /\ out[h] # "MOVE" => tgt[h] = chg[h]
    /\ pc[h] = "update" => tgt[h] = chg[h]

HandlersApart ==
    \A h, k \in Handlers : pc[h] # "idle" /\ pc[k] # "idle" /\ chg[h] = chg[k] => h = k

\* The URI in the hands of a stream or of the timeout worker is the current one of the
\* group, and its member, if it is still queued, is the one the lease names.
HoldsCurrent(a) ==
    /\ cur[chg[a]] # NoUri
    /\ lease[a] = <<chg[a], cur[chg[a]], old[a]>>
    /\ tgt[a] = chg[a]
    /\ \A m \in members : m[2] = lease[a][2] => m = lease[a]

SessionInv(t) ==
    /\ pc[t] \in SessionPc \cup SessionWork
    /\ out[t] # "MOVE"
    /\ pc[t] \in SessionWork => chg[t] \in busy /\ tok[t] = t /\ st[chg[t]] = t
    /\ Owns(t) => HoldsCurrent(t)
    /\ Faults \cap {"dbError", "streamError"} = {} => t \notin late
    /\ t \in late => \/ "streamError" \in Faults
                     \/ pc[t] = "release"
                     \/ pc[t] = "finish" /\ out[t] = "SAME"

WorkerInv ==
    /\ pc[Worker] \in WorkerPc \cup WorkerWork
    /\ out[Worker] # "MOVE"
    /\ pc[Worker] = "idle" <=> chg[Worker] = NoChg
    /\ chg[Worker] # NoChg => chg[Worker] \in counted \ Placed
    /\ pc[Worker] \in WorkerWork => Worker \in late /\ tok[Worker] = st[chg[Worker]]
    /\ Owns(Worker) => HoldsCurrent(Worker)

Rewriting(a) == pc[a] \in {"update", "move"}

\* A document and the member of its URI agree, but while an actor that has written the one
\* is still to write the other.
DocumentInv ==
    /\ \A u \in fresh \cup admitted : docChg[u] = NoChg /\ fetchTime[u] = 0
    /\ \A m \in members :
           \/ docChg[m[2]] = NoChg
           \/ docChg[m[2]] = m[1] /\ fetchTime[m[2]] = m[3]
           \/ \E a \in Actors : Rewriting(a) /\ lease[a][2] = m[2]
    /\ \A a \in Actors : Rewriting(a) /\ docChg[lease[a][2]] # NoChg =>
           /\ docChg[lease[a][2]] = tgt[a]
           /\ fetchTime[lease[a][2]] = time[a]

NothingAborted == affected = {} /\ \A e \in Executions : status[e] = "active"

ThreadsInv ==
    /\ \A h \in Handlers : HandlerInv(h)
    /\ HandlersApart
    /\ \A t \in Tokens : SessionInv(t)
    /\ WorkerInv

OwnInv ==
    /\ TypeInv /\ QueuedInv /\ NothingAborted
    /\ GroupsInv /\ CurrentInv /\ DocumentInv /\ ThreadsInv

\* Before anything is queued no actor holds anything.
LEMMA OwnInit == Init => OwnInv
<1> SUFFICES ASSUME Init PROVE OwnInv
  OBVIOUS
<1>1. TypeInv /\ QueuedInv
  BY TypeInit, QueuedInit
<1>2. NothingAborted /\ CurrentInv
  BY DEF Init, NothingAborted, CurrentInv
<1>3. GroupsInv
  BY DEF Init, GroupsInv, Placed, Distinct, Elems
<1>4. DocumentInv
  BY DEF Init, DocumentInv, Rewriting
<1>5. \A h \in Handlers : HandlerInv(h)
  BY ActorsAssumption DEF Init, HandlerInv, HandlerWork, Actors, Owns
<1>6. HandlersApart
  BY ActorsAssumption DEF Init, HandlersApart, Actors
<1>7. \A t \in Tokens : SessionInv(t)
  BY DEF Init, SessionInv, SessionPc, SessionWork, Actors, Owns
<1>8. WorkerInv
  BY ActorsAssumption DEF Init, WorkerInv, WorkerPc, WorkerWork, Actors, Owns
<1>9. QED
  BY <1>1, <1>2, <1>3, <1>4, <1>5, <1>6, <1>7, <1>8 DEF OwnInv, ThreadsInv

(***************************************************************************)
(* Sequences of groups                                                     *)
(***************************************************************************)

\* What is appended to a sequence of distinct groups, and what is popped from one.
LEMMA AppendDistinct ==
    ASSUME NEW s \in Seq(Chgs), NEW c \in Chgs, Distinct(s), c \notin Elems(s)
    PROVE  Distinct(Append(s, c)) /\ Elems(Append(s, c)) = Elems(s) \cup {c}
BY AppendProperties DEF Distinct, Elems

\* LPOP and BLPOP take the head of a list of groups, which is then nowhere else in it.
LEMMA PopDistinct ==
    ASSUME NEW s \in Seq(Chgs), s # <<>>, Distinct(s)
    PROVE  /\ Distinct(Tail(s)) /\ Elems(s) = Elems(Tail(s)) \cup {Head(s)}
           /\ Head(s) \notin Elems(Tail(s))
           /\ Head(s) \in Chgs
<1>1. /\ Tail(s) \in Seq(Chgs) /\ Len(Tail(s)) = Len(s) - 1 /\ Len(s) \in Nat \ {0}
      /\ \A i \in 1..Len(Tail(s)) : Tail(s)[i] = s[i + 1]
      /\ Head(s) = s[1]
  BY HeadTailProperties, EmptySeq, LenProperties
<1>2. DOMAIN s = 1..Len(s) /\ DOMAIN Tail(s) = 1..(Len(s) - 1)
  BY <1>1
<1>3. Distinct(Tail(s)) /\ Head(s) \notin Elems(Tail(s))
  BY <1>1, <1>2 DEF Distinct, Elems
<1>4. \A i \in DOMAIN s : i = 1 \/ (i - 1 \in DOMAIN Tail(s) /\ Tail(s)[i - 1] = s[i])
  BY <1>1, <1>2
<1>5. Elems(s) \subseteq Elems(Tail(s)) \cup {Head(s)}
  BY <1>1, <1>4 DEF Elems
<1>6. Elems(Tail(s)) \cup {Head(s)} \subseteq Elems(s)
  BY <1>1, <1>2 DEF Elems
<1>7. QED
  BY <1>1, <1>2, <1>3, <1>5, <1>6

\* In a list without repetitions a group is once or not at all.
LEMMA CountDistinct ==
    ASSUME NEW s \in Seq(Chgs), NEW c, Distinct(s)
    PROVE  Count(s, c) = One(c \in Elems(s))
<1> DEFINE I == {i \in DOMAIN s : s[i] = c}
<1>1. CASE c \in Elems(s)
  <2>1. PICK i \in DOMAIN s : s[i] = c
    BY <1>1 DEF Elems
  <2>2. I = {i}
    BY <2>1 DEF Distinct
  <2>3. QED
    BY <1>1, <2>2, FS_Singleton DEF Count, One
<1>2. CASE c \notin Elems(s)
  <2>1. I = {}
    BY <1>2 DEF Elems
  <2>2. QED
    BY <1>2, <2>1, FS_EmptySet DEF Count, One
<1>3. QED
  BY <1>1, <1>2

(***************************************************************************)
(* What the invariant says about the actors                                *)
(***************************************************************************)

\* Who owns a URI, and the group it holds with it.
LEMMA OwnerFacts ==
    ASSUME OwnInv
    PROVE  /\ \A h \in Handlers : Owns(h) =>
                  /\ chg[h] \in busy /\ st[chg[h]] = tok[h]
                  /\ lease[h] \in members /\ lease[h][1] = chg[h]
           /\ \A t \in Tokens : Owns(t) => chg[t] \in busy /\ st[chg[t]] = t /\ HoldsCurrent(t)
           /\ Owns(Worker) => chg[Worker] \in Chgs \ busy /\ HoldsCurrent(Worker)
<1>1. \A h \in Handlers : Owns(h) => pc[h] \in HandlerWork /\ pc[h] # "idle"
  BY DEF OwnInv, ThreadsInv, HandlerInv, Owns, HandlerWork
<1>2. \A t \in Tokens : Owns(t) => pc[t] \in SessionWork
  BY DEF OwnInv, ThreadsInv, SessionInv, Owns, SessionPc, SessionWork
<1>3. Owns(Worker) => chg[Worker] \in Chgs \ busy /\ HoldsCurrent(Worker)
  BY DEF OwnInv, ThreadsInv, WorkerInv, Owns, WorkerPc, WorkerWork, Placed, TypeInv, GroupsOK
<1>4. QED
  BY <1>1, <1>2, <1>3 DEF OwnInv, ThreadsInv, HandlerInv, SessionInv

\* Whatever is leased is a URI of the group that the owner holds.
LEMMA LeaseFacts ==
    ASSUME OwnInv, NEW a \in Actors, Owns(a)
    PROVE  chg[a] \in Chgs /\ chg[a] \in counted /\ lease[a][1] = chg[a] /\ lease[a][2] \in Uris
<1>1. CASE a \in Handlers
  BY <1>1, OwnerFacts, MemberFacts DEF OwnInv, TypeInv, QueuesOK, GroupsOK, GroupsInv, Placed
<1>2. CASE a \in Actors \ Handlers
  <2>1. chg[a] \in Chgs /\ chg[a] \in counted /\ HoldsCurrent(a)
    BY <1>2, OwnerFacts, NullsAssumption
       DEF Actors, OwnInv, TypeInv, GroupsOK, GroupsInv, Placed, ThreadsInv, WorkerInv
  <2>2. cur[chg[a]] \in Uris \cup {NoUri}
    BY <2>1 DEF OwnInv, TypeInv, GroupsOK
  <2>3. QED
    BY <2>1, <2>2 DEF HoldsCurrent
<1>3. QED
  BY <1>1, <1>2

\* No stream has a token that a prefetch thread is just handing out.
LEMMA HandlerApartFromSession ==
    ASSUME OwnInv, NEW h \in Handlers, NEW t \in Tokens,
           pc[h] \in HandlerWork, pc[t] \in SessionWork
    PROVE  chg[h] # chg[t]
BY NullsAssumption DEF OwnInv, ThreadsInv, HandlerInv, SessionInv, SessionWork, HandlerWork

\* No two actors own one URI: two prefetch threads have different groups, so do two streams
\* or a stream and the timeout worker, and a URI is queued in one group only.
LEMMA OwnersApart == OwnInv => ExclusiveOwnership
<1> SUFFICES ASSUME OwnInv, NEW a \in Actors, NEW b \in Actors, Owns(a), Owns(b), a # b
             PROVE  lease[a][2] # lease[b][2]
  BY DEF ExclusiveOwnership
<1>1. ASSUME NEW h \in Handlers, NEW k \in Handlers, Owns(h), Owns(k), h # k
      PROVE  lease[h][2] # lease[k][2]
  BY <1>1, OwnerFacts DEF OwnInv, ThreadsInv, HandlersApart, QueuedInv, UriQueuedOnce, Owns
<1>2. ASSUME NEW x \in Actors \ Handlers, NEW y \in Actors \ Handlers, Owns(x), Owns(y), x # y
      PROVE  lease[x][2] # lease[y][2]
  <2>1. /\ lease[x][2] = cur[chg[x]] /\ lease[y][2] = cur[chg[y]]
        /\ cur[chg[x]] # NoUri
    BY <1>2, OwnerFacts DEF HoldsCurrent, Actors
  <2>2. chg[x] # chg[y] /\ chg[x] \in Chgs /\ chg[y] \in Chgs
    BY <1>2, OwnerFacts DEF OwnInv, TypeInv, GroupsOK, Actors
  <2>3. QED
    BY <2>1, <2>2 DEF OwnInv, CurrentInv
<1>3. ASSUME NEW h \in Handlers, NEW x \in Actors \ Handlers, Owns(h), Owns(x)
      PROVE  lease[h][2] # lease[x][2]
  <2>1. lease[h] \in members /\ lease[h][1] = chg[h] /\ chg[h] \in busy
    BY <1>3, OwnerFacts
  <2>2. lease[h][2] = lease[x][2] => lease[h][1] = chg[x]
    BY <1>3, <2>1, OwnerFacts DEF HoldsCurrent, Actors
  <2>3. chg[x] # chg[h]
    <3>1. CASE x \in Tokens
      BY <1>3, <3>1, HandlerApartFromSession
         DEF OwnInv, ThreadsInv, HandlerInv, SessionInv, Owns, HandlerWork, SessionWork, SessionPc
    <3>2. CASE x = Worker
      BY <1>3, <2>1, <3>2, OwnerFacts
    <3>3. QED
      BY <3>1, <3>2 DEF Actors
  <2>4. QED
    BY <2>1, <2>2, <2>3
<1>4. Handlers \subseteq Actors
  BY DEF Actors
<1>5. QED
  BY <1>1, <1>2, <1>3, <1>4

\* A completion stream that owns a URI has the group, busy, under its own token.
LEMMA SessionsHold == OwnInv => SessionHoldsGroup
BY OwnerFacts DEF SessionHoldsGroup

\* A group is in one place: the parts of the invariant that name two places exclude each other.
LEMMA OnePlace == OwnInv => GroupInOnePlace
<1> SUFFICES ASSUME OwnInv, NEW c \in Chgs
             PROVE  One(c \in wait) + One(c \in busy) + Count(ready, c) + Count(timeout, c)
                      + Cardinality({h \in Handlers : pc[h] = "popped" /\ chg[h] = c})
                      + One(chg[Worker] = c) <= 1
  BY DEF GroupInOnePlace
<1> DEFINE P == {h \in Handlers : pc[h] = "popped" /\ chg[h] = c}
<1>1. Count(ready, c) = One(c \in Elems(ready)) /\ Count(timeout, c) = One(c \in Elems(timeout))
  BY CountDistinct DEF OwnInv, TypeInv, GroupsOK, GroupsInv
<1>2. CASE P = {}
  <2>1. Cardinality(P) = 0
    BY <1>2, FS_EmptySet
  <2>2. chg[Worker] = c => c \notin Placed
    BY NullsAssumption DEF OwnInv, ThreadsInv, WorkerInv
  <2>3. QED
    BY <1>1, <2>1, <2>2 DEF OwnInv, GroupsInv, One, Placed
<1>3. CASE P # {}
  <2>1. PICK h \in P : TRUE
    BY <1>3
  <2>2. P = {h}
    BY <2>1 DEF OwnInv, ThreadsInv, HandlersApart
  <2>3. Cardinality(P) = 1
    BY <2>2, FS_Singleton
  <2>4. c \notin Placed /\ chg[Worker] # c
    BY <2>1 DEF OwnInv, ThreadsInv, HandlerInv
  <2>5. QED
    BY <1>1, <2>3, <2>4 DEF One, Placed
<1>4. QED
  BY <1>2, <1>3

(***************************************************************************)
(* Steps of one actor that change only what the actor holds                *)
(***************************************************************************)

\* What the other actors hold stays as it is.
AloneMoves(a) ==
    \A b \in Actors \ {a} :
        /\ pc'[b] = pc[b] /\ chg'[b] = chg[b] /\ tok'[b] = tok[b] /\ lease'[b] = lease[b]
        /\ tgt'[b] = tgt[b] /\ old'[b] = old[b] /\ time'[b] = time[b] /\ out'[b] = out[b]
        /\ b \in late' <=> b \in late

\* A step to another place in the code leaves what the actor holds as it is.
LEMMA GotoMoves ==
    ASSUME LocalsOK, NEW a \in Actors, NEW there, Goto(a, there), UNCHANGED locals
    PROVE  /\ AloneMoves(a) /\ pc'[a] = there
           /\ chg'[a] = chg[a] /\ tok'[a] = tok[a] /\ lease'[a] = lease[a] /\ tgt'[a] = tgt[a]
           /\ old'[a] = old[a] /\ time'[a] = time[a] /\ out'[a] = out[a]
           /\ (a \in late' <=> a \in late)
BY DEF LocalsOK, Goto, locals, document, AloneMoves

\* An actor that comes to rest holds nothing.
LEMMA RestMoves ==
    ASSUME LocalsOK, NEW a \in Actors, Rest(a)
    PROVE  /\ AloneMoves(a) /\ pc'[a] = Resting(a) /\ chg'[a] = NoChg /\ tok'[a] = NoToken
           /\ out'[a] = "none" /\ a \notin late'
BY DEF LocalsOK, Goto, Rest, AloneMoves

\* The groups, the queues and the documents stay as they are.
DataKept == UNCHANGED <<groups, queues, docs, fresh, admitted, status, affected>>

\* The parts of the invariant about groups and documents outlast a step of an actor that
\* neither begins nor ends to rewrite a URI.
LEMMA DataKeptFacts ==
    ASSUME OwnInv, DataKept, TypeInv', NEW a \in Actors, AloneMoves(a), ~Rewriting(a), ~Rewriting(a)',
           a \in Tokens => pc'[a] # "unused"
    PROVE  QueuedInv' /\ NothingAborted' /\ GroupsInv' /\ CurrentInv' /\ DocumentInv'
<1>1. QueuedInv' /\ NothingAborted' /\ CurrentInv'
  BY QueuedStutter DEF OwnInv, DataKept, groups, queues, docs, NothingAborted, CurrentInv
<1>2. GroupsInv'
  <2>1. \A t \in Tokens : pc'[t] = "unused" => pc[t] = "unused"
    BY DEF AloneMoves, Actors
  <2>2. UNCHANGED <<wait, ready, busy, timeout, counted, cur, st>>
    BY DEF DataKept, groups
  <2>3. \A c \in Chgs : st'[c] # NoToken => pc'[st'[c]] # "unused"
    BY <2>1, <2>2 DEF OwnInv, GroupsInv, TypeInv, GroupsOK
  <2>4. QED
    BY <2>2, <2>3 DEF OwnInv, GroupsInv, Placed, Elems, Distinct
<1>3. DocumentInv'
  BY DEF OwnInv, DataKept, queues, docs, DocumentInv, Rewriting, AloneMoves
<1>4. QED
  BY <1>1, <1>2, <1>3

\* The prefetch threads that do not move keep their invariant,
LEMMA HandlerKept ==
    ASSUME LocalsOK, UNCHANGED <<groups, queues>>, NEW a \in Actors, AloneMoves(a), NEW h \in Handlers \ {a},
           HandlerInv(h), pc[h] = "granting" => a # tok[h],
           a = Worker => pc[h] # "popped" \/ chg[h] # chg'[Worker]
    PROVE  HandlerInv(h)'
<1>1. h \in Actors \ {a} /\ (a # Worker => Worker \in Actors \ {a})
  BY DEF Actors
<1>2. /\ pc'[h] = pc[h] /\ chg'[h] = chg[h] /\ tok'[h] = tok[h] /\ lease'[h] = lease[h]
      /\ tgt'[h] = tgt[h] /\ old'[h] = old[h] /\ time'[h] = time[h] /\ out'[h] = out[h]
      /\ (h \in late' <=> h \in late)
      /\ Owns(h)' <=> Owns(h)
  BY <1>1 DEF AloneMoves, Owns
<1>3. UNCHANGED <<counted, busy, st, members>> /\ Placed' = Placed
  BY DEF groups, queues, Placed, Elems
<1>4. pc[h] = "granting" => pc'[tok[h]] = pc[tok[h]]
  BY <1>1 DEF HandlerInv, LocalsOK, Actors, AloneMoves
<1>5. a # Worker => chg'[Worker] = chg[Worker]
  BY <1>1 DEF AloneMoves
<1>6. QED
  BY <1>2, <1>3, <1>4, <1>5 DEF HandlerInv

\* and so do the completion streams,
LEMMA SessionKept ==
    ASSUME LocalsOK, UNCHANGED <<groups, queues>>, NEW a \in Actors, AloneMoves(a),
           NEW t \in Tokens \ {a}, SessionInv(t)
    PROVE  SessionInv(t)'
<1>1. /\ pc'[t] = pc[t] /\ chg'[t] = chg[t] /\ tok'[t] = tok[t] /\ lease'[t] = lease[t]
      /\ tgt'[t] = tgt[t] /\ old'[t] = old[t] /\ time'[t] = time[t] /\ out'[t] = out[t]
      /\ (t \in late' <=> t \in late)
  BY DEF AloneMoves, Actors
<1>2. UNCHANGED <<busy, st, cur, members>>
  BY DEF groups, queues
<1>3. QED
  BY <1>1, <1>2 DEF SessionInv, Owns, HoldsCurrent

\* and the timeout worker.
LEMMA WorkerKept ==
    ASSUME LocalsOK, UNCHANGED <<groups, queues>>, NEW a \in Actors \ {Worker}, AloneMoves(a), WorkerInv
    PROVE  WorkerInv'
<1>1. /\ pc'[Worker] = pc[Worker] /\ chg'[Worker] = chg[Worker] /\ tok'[Worker] = tok[Worker]
      /\ lease'[Worker] = lease[Worker] /\ tgt'[Worker] = tgt[Worker]
      /\ old'[Worker] = old[Worker] /\ time'[Worker] = time[Worker]
      /\ out'[Worker] = out[Worker] /\ (Worker \in late' <=> Worker \in late)
  BY DEF AloneMoves, Actors
<1>2. UNCHANGED <<counted, st, cur, members>> /\ Placed' = Placed
  BY DEF groups, queues, Placed, Elems
<1>3. QED
  BY <1>1, <1>2 DEF WorkerInv, Owns, HoldsCurrent

\* A step of a prefetch thread that keeps the group, or lets it go.
LEMMA HandlerMoves ==
    ASSUME OwnInv, TypeInv', DataKept, NEW h \in Handlers, AloneMoves(h), HandlerInv(h)',
           ~Rewriting(h), ~Rewriting(h)',
           (pc[h] # "idle" /\ chg'[h] = chg[h]) \/ pc'[h] = "idle"
    PROVE  OwnInv'
<1>1. h \in Actors /\ h \notin Tokens /\ h # Worker /\ LocalsOK /\ UNCHANGED <<groups, queues>>
  BY ActorsAssumption DEF Actors, OwnInv, TypeInv, LocalInv, DataKept
<1>2. QueuedInv' /\ NothingAborted' /\ GroupsInv' /\ CurrentInv' /\ DocumentInv'
  BY <1>1, DataKeptFacts
<1>3. ASSUME NEW k \in Handlers PROVE HandlerInv(k)'
  <2>1. pc[k] = "granting" => h # tok[k]
    BY <1>1 DEF OwnInv, ThreadsInv, HandlerInv, LocalsOK, Actors
  <2>2. QED
    BY <1>1, <2>1, HandlerKept DEF OwnInv, ThreadsInv
<1>4. HandlersApart'
  BY DEF OwnInv, ThreadsInv, HandlersApart, AloneMoves, Actors
<1>5. \A t \in Tokens : SessionInv(t)'
  BY <1>1, SessionKept DEF OwnInv, ThreadsInv
<1>6. WorkerInv'
  BY <1>1, WorkerKept DEF OwnInv, ThreadsInv
<1>7. QED
  BY <1>2, <1>3, <1>4, <1>5, <1>6 DEF OwnInv, ThreadsInv

\* A step of a completion stream.
LEMMA SessionMoves ==
    ASSUME OwnInv, TypeInv', DataKept, NEW t \in Tokens, AloneMoves(t), SessionInv(t)',
           ~Rewriting(t), ~Rewriting(t)', pc[t] # "issued", pc'[t] # "unused"
    PROVE  OwnInv'
<1>1. t \in Actors /\ t \notin Handlers /\ t # Worker /\ LocalsOK /\ UNCHANGED <<groups, queues>>
  BY ActorsAssumption DEF Actors, OwnInv, TypeInv, LocalInv, DataKept
<1>2. QueuedInv' /\ NothingAborted' /\ GroupsInv' /\ CurrentInv' /\ DocumentInv'
  BY <1>1, DataKeptFacts
<1>3. ASSUME NEW k \in Handlers PROVE HandlerInv(k)'
  <2>1. pc[k] = "granting" => t # tok[k]
    BY <1>1 DEF OwnInv, ThreadsInv, HandlerInv
  <2>2. QED
    BY <1>1, <2>1, HandlerKept DEF OwnInv, ThreadsInv
<1>4. HandlersApart'
  BY <1>1 DEF OwnInv, ThreadsInv, HandlersApart, AloneMoves, Actors
<1>5. \A s \in Tokens : SessionInv(s)'
  BY <1>1, SessionKept DEF OwnInv, ThreadsInv
<1>6. WorkerInv'
  BY <1>1, WorkerKept DEF OwnInv, ThreadsInv
<1>7. QED
  BY <1>2, <1>3, <1>4, <1>5, <1>6 DEF OwnInv, ThreadsInv

\* A step of the timeout worker, with its group or letting it go.
LEMMA WorkerMoves ==
    ASSUME OwnInv, TypeInv', DataKept, AloneMoves(Worker), WorkerInv',
           ~Rewriting(Worker), ~Rewriting(Worker)', chg'[Worker] \in {chg[Worker], NoChg}
    PROVE  OwnInv'
<1>1. /\ Worker \in Actors /\ Worker \notin Handlers \cup Tokens /\ LocalsOK
      /\ UNCHANGED <<groups, queues>>
  BY ActorsAssumption DEF Actors, OwnInv, TypeInv, LocalInv, DataKept
<1>2. QueuedInv' /\ NothingAborted' /\ GroupsInv' /\ CurrentInv' /\ DocumentInv'
  BY <1>1, DataKeptFacts
<1>3. ASSUME NEW k \in Handlers PROVE HandlerInv(k)'
  <2>1. pc[k] = "granting" => Worker # tok[k]
    BY <1>1, NullsAssumption DEF OwnInv, ThreadsInv, HandlerInv, LocalsOK, Actors
  <2>2. pc[k] # "popped" \/ chg[k] # chg'[Worker]
    BY <1>1, NullsAssumption DEF OwnInv, ThreadsInv, HandlerInv, TypeInv, GroupsOK
  <2>3. QED
    BY <1>1, <2>1, <2>2, HandlerKept DEF OwnInv, ThreadsInv
<1>4. HandlersApart'
  BY <1>1 DEF OwnInv, ThreadsInv, HandlersApart, AloneMoves, Actors
<1>5. \A s \in Tokens : SessionInv(s)'
  BY <1>1, SessionKept DEF OwnInv, ThreadsInv
<1>6. QED
  BY <1>2, <1>3, <1>4, <1>5 DEF OwnInv, ThreadsInv

\* The three kinds of actors are apart.
LEMMA HandlerFacts ==
    ASSUME NEW h \in Handlers PROVE h \in Actors /\ h \notin Tokens /\ h # Worker /\ Resting(h) = "idle"
BY ActorsAssumption DEF Actors, Resting

LEMMA TokenFacts ==
    ASSUME NEW t \in Tokens PROVE t \in Actors /\ t \notin Handlers /\ t # Worker /\ Resting(t) = "over"
BY ActorsAssumption DEF Actors, Resting

LEMMA WorkerFacts ==
    Worker \in Actors /\ Worker \notin Handlers /\ Worker \notin Tokens /\ Resting(Worker) = "idle"
BY ActorsAssumption DEF Actors, Resting

\* No other actor owns a URI that is queued for the group of a prefetch thread.
LEMMA QueuedForHandler ==
    ASSUME OwnInv, NEW h \in Handlers, pc[h] \in HandlerWork, NEW m \in members, m[1] = chg[h],
           NEW a \in Actors \ {h}, Owns(a)
    PROVE  lease[a][2] # m[2]
<1>1. chg[h] \in busy /\ pc[h] # "idle"
  BY DEF OwnInv, ThreadsInv, HandlerInv, HandlerWork
<1>2. CASE a \in Handlers
  BY <1>1, <1>2, OwnerFacts DEF OwnInv, ThreadsInv, HandlersApart, QueuedInv, UriQueuedOnce, Owns
<1>3. CASE a \in Tokens
  <2>1. pc[a] \in SessionWork /\ HoldsCurrent(a)
    BY <1>3 DEF OwnInv, ThreadsInv, SessionInv, Owns, SessionPc, SessionWork
  <2>2. QED
    BY <1>3, <2>1, HandlerApartFromSession DEF HoldsCurrent
<1>4. CASE a = Worker
  BY <1>1, <1>4, OwnerFacts DEF HoldsCurrent
<1>5. QED
  BY <1>2, <1>3, <1>4 DEF Actors

\* The document of such a URI, if there is one, names the group and the version.
LEMMA DocumentForHandler ==
    ASSUME OwnInv, NEW h \in Handlers, pc[h] \in HandlerWork \ {"update", "move"},
           NEW m \in members, m[1] = chg[h], docChg[m[2]] # NoChg
    PROVE  docChg[m[2]] = chg[h] /\ fetchTime[m[2]] = m[3]
<1>1. \A a \in Actors : Rewriting(a) => lease[a][2] # m[2]
  BY QueuedForHandler, HandlerFacts DEF Rewriting, Owns
<1>2. QED
  BY <1>1 DEF OwnInv, DocumentInv

\* A prefetch thread that gives up leaves its group busy.
LEMMA OwnGiveUp == ASSUME OwnInv, TypeInv', NEW h \in Handlers, ~Rewriting(h), GiveUp(h) PROVE OwnInv'
<1>1. AloneMoves(h) /\ pc'[h] = "idle" /\ tok'[h] = NoToken /\ h \notin late'
  BY HandlerFacts, RestMoves DEF GiveUp, OwnInv, TypeInv, LocalInv
<1>2. HandlerInv(h)'
  BY <1>1 DEF HandlerInv, HandlerWork, Owns
<1>3. QED
  BY <1>1, <1>2, HandlerMoves DEF GiveUp, DataKept, others, Rewriting

\* A prefetch thread that goes on to release its group.
LEMMA OwnToRelease ==
    ASSUME OwnInv, TypeInv', NEW h \in Handlers, DataKept, UNCHANGED locals,
           pc[h] \in {"selecting", "buffered", "finish"}, Goto(h, "release")
    PROVE  OwnInv'
<1>1. /\ AloneMoves(h) /\ pc'[h] = "release" /\ tok'[h] = tok[h] /\ chg'[h] = chg[h]
      /\ (h \in late' <=> h \in late)
  BY HandlerFacts, GotoMoves DEF OwnInv, TypeInv, LocalInv
<1>2. UNCHANGED <<busy, st>>
  BY DEF DataKept, groups
<1>3. HandlerInv(h)'
  BY <1>1, <1>2 DEF OwnInv, ThreadsInv, HandlerInv, HandlerWork, Owns
<1>4. QED
  BY <1>1, <1>3, HandlerMoves DEF Rewriting

\* The URI that next_uri leases has the group of the thread that leases it; the document
\* never names another group, so no repair begins.
LEMMA OwnNextUri == ASSUME OwnInv, TypeInv', NEW h \in Handlers, NextUri(h) PROVE OwnInv'
<1>1. PICK m \in members :
          /\ m[1] = chg[h]
          /\ lease' = [lease EXCEPT ![h] = m]
          /\ ReadDocument(h, m[2])
          /\ old' = [old EXCEPT ![h] = fetchTime[m[2]]]
          /\ Goto(h, IF docChg[m[2]] = NoChg THEN "orphan"
                     ELSE IF docChg[m[2]] # chg[h] THEN "repair" ELSE "prefetch")
  BY DEF NextUri, Heads, QueueOf
<1>2. pc[h] = "selecting" /\ UNCHANGED <<groups, queues, docs, others, chg, tok, out, late>>
  BY DEF NextUri
<1>3. docChg[m[2]] # NoChg => docChg[m[2]] = chg[h]
  BY <1>1, <1>2, DocumentForHandler DEF HandlerWork
<1>4. AloneMoves(h) /\ lease'[h] = m
  BY <1>1, <1>2, HandlerFacts DEF ReadDocument, OwnInv, TypeInv, LocalInv, LocalsOK, Goto, AloneMoves
<1>5. pc'[h] \in {"orphan", "prefetch"}
  BY <1>1, <1>3, HandlerFacts DEF OwnInv, TypeInv, LocalInv, LocalsOK, Goto
<1>6. HandlerInv(h)'
  BY <1>1, <1>2, <1>4, <1>5
     DEF OwnInv, ThreadsInv, HandlerInv, HandlerWork, Owns, groups, queues
<1>7. QED
  BY <1>2, <1>4, <1>5, <1>6, HandlerMoves DEF DataKept, others, Rewriting

\* No outcome but that of a DNS answer moves a URI.
LEMMA EffectStays ==
    ASSUME NEW r, NEW v,
           NEW effect \in FetchFailure(r, v) \cup FetchFailureFails(r, v)
                            \cup {Effect("COMPLETE", r, v), Effect("SAME", r, v)}
    PROVE  effect.out \in Outcomes \ {"MOVE"}
<1>1. CASE effect \in FetchFailure(r, v)
  <2>1. (\E w \in Later(v) : effect = Effect("RETRY", r + 1, w)) \/ effect = Effect("COMPLETE", r, v)
    BY <1>1 DEF FetchFailure
  <2>2. QED
    BY <2>1 DEF Effect, Outcomes
<1>2. CASE effect \in FetchFailureFails(r, v)
  BY <1>2 DEF FetchFailureFails, Effect, Outcomes
<1>3. CASE effect \in {Effect("COMPLETE", r, v), Effect("SAME", r, v)}
  BY <1>3 DEF Effect, Outcomes
<1>4. QED
  BY <1>1, <1>2, <1>3

\* The preconditions read the document once more: it is still the one of the lease.
LEMMA OwnPreFetch ==
    ASSUME Faults \subseteq Survived, OwnInv, TypeInv', NEW h \in Handlers, PreFetch(h)
    PROVE  OwnInv'
<1> DEFINE m == lease[h]
           g == docChg[m[2]]
<1>1. pc[h] = "prefetch" /\ g # NoChg
  BY DEF PreFetch
<1>2. m \in members /\ m[1] = chg[h]
  BY <1>1, OwnerFacts DEF Owns
<1>3. g = chg[h] /\ fetchTime[m[2]] = m[3]
  BY <1>1, <1>2, DocumentForHandler DEF HandlerWork
<1>4. /\ chg' = [chg EXCEPT ![h] = g]
      /\ old' = [old EXCEPT ![h] = fetchTime[m[2]]]
      /\ UNCHANGED <<groups, queues, docs, fresh, admitted, affected, tok, lease, late>>
  BY DEF PreFetch
<1>5. \/ /\ \E effect \in FetchFailure(retries[m[2]], fetchTime[m[2]])
                           \cup {Effect("COMPLETE", retries[m[2]], fetchTime[m[2]])} : Conclude(h, effect)
         /\ tgt' = [tgt EXCEPT ![h] = g]
      \/ /\ Conclude(h, Effect("MOVE", retries[m[2]], fetchTime[m[2]]))
         /\ \E d \in Chgs : tgt' = [tgt EXCEPT ![h] = d]
      \/ Goto(h, "buffered") /\ ReadDocument(h, m[2]) /\ UNCHANGED out
  BY DEF PreFetch, Preclude, ResolveDns
<1>6. UNCHANGED status
  BY DEF PreFetch, LimitReached, Survived
<1>7. AloneMoves(h)
  BY <1>4, <1>5, HandlerFacts
     DEF Conclude, ReadDocument, Goto, OwnInv, TypeInv, LocalInv, LocalsOK, AloneMoves
<1>8. /\ chg'[h] = chg[h] /\ old'[h] = lease[h][3] /\ pc'[h] \in {"finish", "buffered"}
      /\ pc'[h] = "finish" /\ out'[h] # "MOVE" => tgt'[h] = chg[h]
  <2>1. chg'[h] = chg[h] /\ old'[h] = lease[h][3]
    BY <1>3, <1>4, HandlerFacts DEF OwnInv, TypeInv, LocalInv, LocalsOK
  <2>2. /\ pc'[h] \in {"finish", "buffered"}
        /\ pc'[h] = "buffered" \/ out'[h] = "MOVE" \/ tgt'[h] = g
    BY <1>5, HandlerFacts DEF Conclude, Goto, ReadDocument, Effect, OwnInv, TypeInv, LocalInv, LocalsOK
  <2>3. QED
    BY <1>3, <2>1, <2>2
<1>9. HandlerInv(h)'
  BY <1>1, <1>2, <1>4, <1>8
     DEF OwnInv, ThreadsInv, HandlerInv, HandlerWork, Owns, groups, queues
<1>10. QED
  BY <1>1, <1>4, <1>6, <1>7, <1>8, <1>9, HandlerMoves DEF DataKept, Rewriting

\* A harvester claims the handler, or the execution is no longer active.
LEMMA OwnClaim == ASSUME OwnInv, TypeInv', NEW h \in Handlers, Claim(h) PROVE OwnInv'
<1>1. /\ pc[h] = "buffered" /\ UNCHANGED <<groups, queues, docs, others, locals>>
      /\ Goto(h, "claimed") \/ Goto(h, "release")
  BY DEF Claim
<1>2. CASE Goto(h, "claimed")
  <2>1. /\ AloneMoves(h) /\ pc'[h] = "claimed" /\ tok'[h] = tok[h] /\ chg'[h] = chg[h]
        /\ lease'[h] = lease[h] /\ (h \in late' <=> h \in late)
    BY <1>1, <1>2, HandlerFacts, GotoMoves DEF OwnInv, TypeInv, LocalInv
  <2>2. HandlerInv(h)'
    BY <1>1, <2>1 DEF OwnInv, ThreadsInv, HandlerInv, HandlerWork, Owns, groups, queues
  <2>3. QED
    BY <1>1, <2>1, <2>2, HandlerMoves DEF Rewriting, DataKept, others
<1>3. QED
  BY <1>1, <1>2, OwnToRelease DEF DataKept, others

(***************************************************************************)
(* Steps of completion streams and of the timeout worker                   *)
(***************************************************************************)

\* Whoever owns the current URI of a group holds that group.
LEMMA OwnerOfCurrent ==
    ASSUME OwnInv, NEW c \in Chgs, cur[c] # NoUri, NEW a \in Actors, Owns(a), lease[a][2] = cur[c]
    PROVE  chg[a] = c
<1>1. CASE a \in Handlers
  BY <1>1, OwnerFacts DEF OwnInv, CurrentInv
<1>2. CASE a \in Actors \ Handlers
  <2>1. HoldsCurrent(a)
    BY <1>2, OwnerFacts DEF Actors
  <2>2. cur[chg[a]] = cur[c] /\ chg[a] \in Chgs
    BY <1>2, <2>1, OwnerFacts DEF HoldsCurrent, Actors, OwnInv, TypeInv, GroupsOK
  <2>3. QED
    BY <2>2 DEF OwnInv, CurrentInv
<1>3. QED
  BY <1>1, <1>2

\* The document of a current URI that nobody owns tells which member it has.
LEMMA DocumentOfCurrent ==
    ASSUME OwnInv, NEW c \in Chgs, cur[c] # NoUri, docChg[cur[c]] # NoChg,
           \A a \in Actors : Owns(a) => chg[a] # c
    PROVE  /\ docChg[cur[c]] = c
           /\ \A m \in members : m[2] = cur[c] => m = <<c, cur[c], fetchTime[cur[c]]>>
<1>1. docChg[cur[c]] = c
  BY DEF OwnInv, CurrentInv
<1>2. \A a \in Actors : Rewriting(a) => lease[a][2] # cur[c]
  BY OwnerOfCurrent DEF Rewriting, Owns
<1>3. ASSUME NEW m \in members, m[2] = cur[c] PROVE m = <<c, cur[c], fetchTime[cur[c]]>>
  <2>1. m[1] = c /\ m[3] = fetchTime[cur[c]]
    BY <1>1, <1>2, <1>3 DEF OwnInv, CurrentInv, DocumentInv
  <2>2. m = <<m[1], m[2], m[3]>>
    BY DEF OwnInv, TypeInv, QueuesOK, Members
  <2>3. QED
    BY <1>3, <2>1, <2>2
<1>4. QED
  BY <1>1, <1>3

\* A stream that gives up leaves its group busy.
LEMMA OwnSessionGiveUp ==
    ASSUME OwnInv, TypeInv', NEW t \in Tokens, ~Rewriting(t), pc[t] # "issued", DataKept, Rest(t)
    PROVE  OwnInv'
<1>1. AloneMoves(t) /\ pc'[t] = "over" /\ out'[t] = "none" /\ t \notin late'
  BY TokenFacts, RestMoves DEF OwnInv, TypeInv, LocalInv
<1>2. SessionInv(t)'
  BY <1>1 DEF SessionInv, SessionPc, SessionWork, Owns
<1>3. QED
  BY <1>1, <1>2, SessionMoves DEF Rewriting

\* PageCompletedHandler reads the session map: it holds nothing yet.
LEMMA OwnLookup == ASSUME OwnInv, TypeInv', NEW t \in Tokens, Lookup(t) PROVE OwnInv'
<1>1. pc[t] = "fetching" /\ DataKept
  BY DEF Lookup, DataKept, others
<1>2. CASE session[t] = NoChg
  BY <1>1, <1>2, OwnSessionGiveUp DEF Lookup, Rewriting
<1>3. CASE session[t] # NoChg
  <2>1. /\ AloneMoves(t) /\ pc'[t] = "looked" /\ out'[t] = out[t]
      /\ (t \in late' <=> t \in late)
    BY <1>3, TokenFacts DEF Lookup, document, OwnInv, TypeInv, LocalInv, LocalsOK, Goto, AloneMoves
  <2>2. SessionInv(t)'
    BY <1>1, <2>1 DEF OwnInv, ThreadsInv, SessionInv, SessionPc, SessionWork, Owns
  <2>3. QED
    BY <1>1, <2>1, <2>2, SessionMoves DEF Rewriting
<1>4. QED
  BY <1>2, <1>3

\* updateBusyTimeout lets in only the stream whose token the busy group carries, and the
\* lease it makes of the document is the member that is queued.
LEMMA OwnRefresh == ASSUME OwnInv, TypeInv', NEW t \in Tokens, Refresh(t) PROVE OwnInv'
<1> DEFINE c == chg[t]
           u == cur[c]
<1>1. /\ pc[t] = "looked" /\ c \in busy /\ st[c] = tok[t] /\ u # NoUri /\ docChg[u] # NoChg
      /\ st[docChg[u]] = t
  BY DEF Refresh, SessionIsValid
<1>2. c \in Chgs
  BY <1>1 DEF OwnInv, TypeInv, GroupsOK
<1>3. docChg[u] = c /\ st[c] = t
  BY <1>1, <1>2 DEF OwnInv, CurrentInv
<1>4. ASSUME NEW a \in Actors, Owns(a) PROVE chg[a] # c
  <2>1. CASE a \in Handlers
    BY <1>1, <1>3, <1>4, <2>1, OwnerFacts, NullsAssumption DEF OwnInv, ThreadsInv, HandlerInv
  <2>2. CASE a \in Tokens
    BY <1>1, <1>3, <1>4, <2>2, OwnerFacts DEF Owns
  <2>3. CASE a = Worker
    BY <1>1, <1>4, <2>3, OwnerFacts
  <2>4. QED
    BY <2>1, <2>2, <2>3 DEF Actors
<1>5. \A m \in members : m[2] = u => m = <<c, u, fetchTime[u]>>
  BY <1>1, <1>2, <1>4, DocumentOfCurrent
<1>6. /\ AloneMoves(t) /\ pc'[t] = "posting" /\ chg'[t] = c /\ tok'[t] = tok[t] /\ out'[t] = out[t]
      /\ lease'[t] = <<c, u, fetchTime[u]>> /\ tgt'[t] = c /\ old'[t] = fetchTime[u]
      /\ (t \in late' <=> t \in late)
  BY <1>3, TokenFacts
     DEF Refresh, LoadDocument, ReadDocument, OwnInv, TypeInv, LocalInv, LocalsOK, Goto, AloneMoves
<1>7. DataKept /\ UNCHANGED <<busy, st, cur, members>>
  BY DEF Refresh, DataKept, others, groups, queues
<1>8. SessionInv(t)'
  <2>1. HoldsCurrent(t)'
    BY <1>1, <1>5, <1>6, <1>7 DEF HoldsCurrent
  <2>2. /\ out[t] # "MOVE" /\ (Faults \cap {"dbError", "streamError"} = {} => t \notin late)
        /\ t \in late => "streamError" \in Faults
    BY <1>1 DEF OwnInv, ThreadsInv, SessionInv
  <2>3. QED
    BY <1>1, <1>3, <1>6, <1>7, <2>1, <2>2 DEF SessionInv, SessionWork
<1>9. QED
  BY <1>1, <1>6, <1>7, <1>8, SessionMoves DEF Rewriting

\* The stream ends, and its outcome is finalized.
LEMMA OwnStreamEnds ==
    ASSUME OwnInv, TypeInv', NEW t \in Tokens,
           OnCompleted(t) \/ PostFetchFailureFails(t) \/ OnError(t)
    PROVE  OwnInv'
<1>1. /\ pc[t] = "posting" /\ DataKept /\ UNCHANGED <<busy, st, cur, members>>
      /\ UNCHANGED <<chg, tok, lease, tgt, old>>
  BY DEF OnCompleted, PostFetchFailureFails, OnError, DataKept, others, groups, queues
<1>2. PICK effect \in FetchFailure(mem[t], time[t]) \cup FetchFailureFails(mem[t], time[t])
                        \cup {Effect("COMPLETE", mem[t], time[t]), Effect("SAME", mem[t], time[t])} :
          /\ Conclude(t, effect)
          /\ \/ late' = late
             \/ /\ Faults \cap {"dbError", "streamError"} # {} /\ late' = late \cup {t}
                /\ "streamError" \in Faults \/ effect.out = "SAME"
  BY DEF Effect, OnCompleted, PostFetchFailureFails, OnError, Finalize, FetchFailureFails
<1>3. effect.out # "MOVE"
  BY EffectStays
<1>4. AloneMoves(t) /\ pc'[t] = "finish" /\ out'[t] = effect.out
  BY <1>1, <1>2, TokenFacts
     DEF Conclude, Goto, OwnInv, TypeInv, LocalInv, LocalsOK, AloneMoves
<1>5. SessionInv(t)'
  BY <1>1, <1>2, <1>3, <1>4
     DEF OwnInv, ThreadsInv, SessionInv, HoldsCurrent, SessionPc, SessionWork, Owns
<1>6. QED
  BY <1>1, <1>4, <1>5, SessionMoves DEF Rewriting

\* The status cannot be saved: the group is released nevertheless.
LEMMA OwnFinishFails ==
    ASSUME OwnInv, TypeInv', NEW a \in Actors, FinishFails(a)
    PROVE  OwnInv'
<1>1. pc[a] = "finish" /\ Goto(a, "release") /\ UNCHANGED locals /\ DataKept
  BY DEF FinishFails, DataKept, others
<1>2. CASE a \in Handlers
  BY <1>1, <1>2, OwnToRelease
<1>3. /\ AloneMoves(a) /\ pc'[a] = "release" /\ chg'[a] = chg[a] /\ tok'[a] = tok[a]
      /\ out'[a] = out[a] /\ (a \in late' <=> a \in late)
  BY <1>1, GotoMoves DEF OwnInv, TypeInv, LocalInv
<1>4. UNCHANGED <<busy, st, counted>> /\ Placed' = Placed
  BY <1>1 DEF DataKept, groups, Placed, Elems
<1>5. CASE a \in Tokens
  <2>1. SessionInv(a)'
    BY <1>1, <1>3, <1>4, <1>5 DEF OwnInv, ThreadsInv, SessionInv, SessionWork, Owns
  <2>2. QED
    BY <1>1, <1>3, <1>5, <2>1, SessionMoves DEF Rewriting
<1>6. CASE a = Worker
  <2>1. WorkerInv'
    BY <1>1, <1>3, <1>4, <1>6 DEF OwnInv, ThreadsInv, WorkerInv, WorkerWork, Owns
  <2>2. QED
    BY <1>1, <1>3, <1>6, <2>1, WorkerMoves DEF Rewriting
<1>7. QED
  BY <1>2, <1>5, <1>6 DEF Actors

\* The timeout worker takes over the current URI of a group that it popped.
LEMMA OwnTimedOut ==
    ASSUME OwnInv, TypeInv', ProcessTimedOutChg \/ ProcessTimedOutChgFails
    PROVE  OwnInv'
<1> DEFINE c == chg[Worker]
           u == cur[c]
<1>1. /\ pc[Worker] = "popped" /\ DataKept /\ UNCHANGED <<counted, busy, st, cur, members>>
      /\ Placed' = Placed
  BY DEF ProcessTimedOutChg, ProcessTimedOutChgFails, GiveUp, DataKept, others, groups, queues,
         Placed, Elems
<1>2. c \in Chgs /\ c \in counted \ Placed /\ c # NoChg
  BY <1>1, NullsAssumption DEF OwnInv, ThreadsInv, WorkerInv, TypeInv, GroupsOK
<1>3. CASE ProcessTimedOutChgFails
  <2>1. /\ AloneMoves(Worker) /\ pc'[Worker] = "idle" /\ chg'[Worker] = NoChg
        /\ out'[Worker] = "none"
    BY <1>3, WorkerFacts, RestMoves DEF ProcessTimedOutChgFails, GiveUp, OwnInv, TypeInv, LocalInv
  <2>2. WorkerInv'
    BY <2>1 DEF WorkerInv, WorkerPc, WorkerWork, Owns
  <2>3. QED
    BY <1>1, <2>1, <2>2, WorkerMoves DEF Rewriting
<1>4. CASE ProcessTimedOutChg /\ u = NoUri
  <2>1. /\ AloneMoves(Worker) /\ pc'[Worker] = "release" /\ chg'[Worker] = c
        /\ tok'[Worker] = st[c] /\ out'[Worker] = out[Worker] /\ Worker \in late'
    BY <1>4, WorkerFacts
       DEF ProcessTimedOutChg, Goto, document, OwnInv, TypeInv, LocalInv, LocalsOK, AloneMoves
  <2>2. WorkerInv'
    BY <1>1, <1>2, <2>1 DEF OwnInv, ThreadsInv, WorkerInv, WorkerPc, WorkerWork, Owns
  <2>3. QED
    BY <1>1, <2>1, <2>2, WorkerMoves DEF Rewriting
<1>5. CASE ProcessTimedOutChg /\ u # NoUri
  <2>1. docChg[u] # NoChg
    BY <1>5 DEF ProcessTimedOutChg
  <2>2. \A a \in Actors : Owns(a) => chg[a] # c
    BY <1>1, <1>2, OwnerFacts DEF Actors, Owns, Placed
  <2>3. docChg[u] = c /\ \A m \in members : m[2] = u => m = <<c, u, fetchTime[u]>>
    BY <1>2, <1>5, <2>1, <2>2, DocumentOfCurrent
  <2>4. /\ lease' = [lease EXCEPT ![Worker] = <<docChg[u], u, fetchTime[u]>>]
        /\ tgt' = [tgt EXCEPT ![Worker] = docChg[u]]
        /\ old' = [old EXCEPT ![Worker] = fetchTime[u]]
        /\ tok' = [tok EXCEPT ![Worker] = st[c]] /\ UNCHANGED chg
    BY <1>5 DEF ProcessTimedOutChg
  <2>5. PICK effect \in FetchFailure(retries[u], fetchTime[u])
                          \cup FetchFailureFails(retries[u], fetchTime[u]) :
            Conclude(Worker, effect) /\ late' = late \cup {Worker}
    BY <1>5 DEF ProcessTimedOutChg, Finalize
  <2>6. effect.out # "MOVE"
    BY EffectStays
  <2>7. /\ AloneMoves(Worker) /\ pc'[Worker] = "finish" /\ chg'[Worker] = c
        /\ tok'[Worker] = st[c] /\ out'[Worker] # "MOVE" /\ Worker \in late'
        /\ lease'[Worker] = <<c, u, fetchTime[u]>> /\ tgt'[Worker] = c /\ old'[Worker] = fetchTime[u]
    BY <2>3, <2>4, <2>5, <2>6, WorkerFacts
       DEF Conclude, Goto, OwnInv, TypeInv, LocalInv, LocalsOK, AloneMoves
  <2>8. WorkerInv'
    BY <1>1, <1>2, <1>5, <2>3, <2>7
       DEF OwnInv, ThreadsInv, WorkerInv, HoldsCurrent, WorkerPc, WorkerWork, Owns
  <2>9. QED
    BY <1>1, <2>7, <2>8, WorkerMoves DEF Rewriting
<1>6. QED
  BY <1>3, <1>4, <1>5

(***************************************************************************)
(* The queues of groups                                                    *)
(***************************************************************************)

\* Steps that change the groups and leave the queues, the documents and the actors alone.
LEMMA GroupsMove ==
    ASSUME OwnInv, TypeInv', GroupsInv', WorkerInv', \A h \in Handlers : HandlerInv(h)',
           \A t \in Tokens : SessionInv(t)',
           UNCHANGED <<cur, queues, docs, fresh, admitted, status, affected, pc, locals>>
    PROVE  OwnInv'
<1>1. QueuedInv' /\ NothingAborted' /\ CurrentInv'
  BY QueuedStutter DEF OwnInv, queues, docs, NothingAborted, CurrentInv
<1>2. DocumentInv' /\ HandlersApart'
  BY DEF OwnInv, ThreadsInv, queues, docs, locals, document, DocumentInv, Rewriting, HandlersApart
<1>3. QED
  BY <1>1, <1>2 DEF OwnInv, ThreadsInv

\* A group gets its first queue count and, if it has no hash, a place in the wait queue.
Counting(D) ==
    \E c \in D :
        /\ counted' = counted \cup D
        /\ wait' = IF HashExists(c) THEN wait ELSE wait \cup {c}
        /\ UNCHANGED <<ready, busy, timeout, cur, st>>

\* chg_add.lua and the scripts that count leave every queue of groups where it is, or put a
\* group in wait that had no hash and was therefore in no place.
LEMMA CountsFacts ==
    ASSUME OwnInv, NEW D \in SUBSET Chgs, Counting(D)
    PROVE  /\ counted \subseteq counted' /\ Placed \subseteq Placed'
           /\ Placed' \cap counted \subseteq Placed
           /\ Placed' \subseteq counted'
           /\ \A c \in wait' \ wait : c \notin Placed /\ st[c] = NoToken
<1>1. PICK c \in D :
        /\ counted' = counted \cup D
        /\ wait' = IF HashExists(c) THEN wait ELSE wait \cup {c}
        /\ UNCHANGED <<ready, busy, timeout, cur, st>>
  BY DEF Counting
<1>2. Placed' = wait' \cup busy \cup Elems(ready) \cup Elems(timeout)
  BY <1>1 DEF Placed, Elems
<1>3. QED
  BY <1>1, <1>2 DEF HashExists, Placed, OwnInv, GroupsInv

\* The queues of groups stay apart when a group is counted.
LEMMA CountsGroups ==
    ASSUME OwnInv, NEW D \in SUBSET Chgs, Counting(D), \A t \in Tokens : pc'[t] = pc[t]
    PROVE  GroupsInv'
<1>1. UNCHANGED <<ready, busy, timeout, cur, st>> /\ wait \subseteq wait'
  BY DEF Counting
<1>2. Elems(ready)' = Elems(ready) /\ Elems(timeout)' = Elems(timeout)
  BY <1>1 DEF Elems
<1>3. /\ Distinct(ready)' /\ Distinct(timeout)'
      /\ \A c \in Chgs : st'[c] # NoToken => pc'[st'[c]] # "unused"
  BY <1>1 DEF OwnInv, GroupsInv, Distinct, TypeInv, GroupsOK
<1>4. QED
  BY <1>1, <1>2, <1>3, CountsFacts DEF OwnInv, GroupsInv, Placed

\* chg_add puts a group in wait only when nobody else has it.
LEMMA OwnChgAdd ==
    ASSUME OwnInv, TypeInv', NEW u \in Uris, NEW c \in Chgs, ChgAdd(u, c)
    PROVE  OwnInv'
<1>1. /\ Counting({c}) /\ UNCHANGED <<queues, docs, fresh, admitted, status, affected>>
      /\ UNCHANGED <<pc, locals, cur, busy, st>>
  BY DEF ChgAdd, Counting
<1>2. GroupsInv'
  BY <1>1, CountsGroups
<1>3. UNCHANGED <<pc, chg, tok, lease, tgt, time, old, out, late, members>>
  BY <1>1 DEF locals, document, queues
<1>4. WorkerInv'
  BY <1>1, <1>3, CountsFacts DEF OwnInv, ThreadsInv, WorkerInv, Owns, HoldsCurrent
<1>5. \A h \in Handlers : HandlerInv(h)'
  BY <1>1, <1>3, CountsFacts DEF OwnInv, ThreadsInv, HandlerInv, Owns
<1>6. \A t \in Tokens : SessionInv(t)'
  BY <1>1, <1>3 DEF OwnInv, ThreadsInv, SessionInv, Owns, HoldsCurrent
<1>7. QED
  BY <1>1, <1>2, <1>4, <1>5, <1>6, GroupsMove

\* A group whose time has come moves from wait to ready.
LEMMA OwnMoveWaitToReady ==
    ASSUME OwnInv, TypeInv', NEW c \in Chgs, MoveWaitToReady(c)
    PROVE  OwnInv'
<1>1. c \in wait /\ wait' = wait \ {c} /\ ready' = Append(ready, c)
      /\ UNCHANGED <<busy, timeout, counted, cur, st, queues, docs, others, pc, locals>>
  BY DEF MoveWaitToReady
<1>2. Distinct(ready') /\ Elems(ready') = Elems(ready) \cup {c}
  BY <1>1, AppendDistinct DEF OwnInv, GroupsInv, TypeInv, GroupsOK
<1>3. Placed' = Placed /\ Elems(timeout)' = Elems(timeout) /\ Distinct(timeout)'
  BY <1>1, <1>2 DEF Placed, Elems, OwnInv, GroupsInv, Distinct
<1>4. GroupsInv'
  BY <1>1, <1>2, <1>3 DEF OwnInv, GroupsInv
<1>5. /\ UNCHANGED <<pc, chg, tok, lease, tgt, time, old, out, late>>
      /\ UNCHANGED <<members, fresh, admitted, status, affected>>
  BY <1>1 DEF locals, document, queues, others
<1>6. WorkerInv' /\ \A h \in Handlers : HandlerInv(h)'
  BY <1>1, <1>3, <1>5 DEF OwnInv, ThreadsInv, WorkerInv, HandlerInv, Owns, HoldsCurrent
<1>7. \A t \in Tokens : SessionInv(t)'
  BY <1>1, <1>5 DEF OwnInv, ThreadsInv, SessionInv, Owns, HoldsCurrent
<1>8. QED
  BY <1>1, <1>4, <1>5, <1>6, <1>7, GroupsMove

\* A busy group whose timeout has come moves to the timeout list; nobody is at work on it.
LEMMA OwnMoveBusyToTimeout ==
    ASSUME Faults \subseteq Survived, OwnInv, TypeInv', NEW c \in Chgs, MoveBusyToTimeout(c)
    PROVE  OwnInv'
<1>1. c \in busy /\ busy' = busy \ {c} /\ timeout' = Append(timeout, c)
      /\ UNCHANGED <<wait, ready, counted, cur, st, queues, docs, others, pc, locals>>
  BY DEF MoveBusyToTimeout
<1>2. Distinct(timeout') /\ Elems(timeout') = Elems(timeout) \cup {c}
  BY <1>1, AppendDistinct DEF OwnInv, GroupsInv, TypeInv, GroupsOK
<1>3. Placed' = Placed /\ Elems(ready)' = Elems(ready) /\ Distinct(ready)'
  BY <1>1, <1>2 DEF Placed, Elems, OwnInv, GroupsInv, Distinct
<1>4. GroupsInv'
  BY <1>1, <1>2, <1>3 DEF OwnInv, GroupsInv
<1>5. /\ UNCHANGED <<pc, chg, tok, lease, tgt, time, old, out, late>>
      /\ UNCHANGED <<members, fresh, admitted, status, affected>>
  BY <1>1 DEF locals, document, queues, others
<1>6. WorkerInv'
  BY <1>1, <1>3, <1>5 DEF OwnInv, ThreadsInv, WorkerInv, Owns, HoldsCurrent
<1>7. /\ \A h \in Handlers : pc[h] \in HandlerWork => chg[h] # c
      /\ \A t \in Tokens : pc[t] \in SessionWork => chg[t] # c
  BY DEF MoveBusyToTimeout, WithinTimeout, Survived, HandlerWork, SessionWork, SessionPc
<1>8. \A h \in Handlers : HandlerInv(h)'
  BY <1>1, <1>3, <1>5, <1>7 DEF OwnInv, ThreadsInv, HandlerInv, Owns
<1>9. \A t \in Tokens : SessionInv(t)'
  BY <1>1, <1>5, <1>7 DEF OwnInv, ThreadsInv, SessionInv, Owns, HoldsCurrent
<1>10. QED
  BY <1>1, <1>4, <1>5, <1>6, <1>8, <1>9, GroupsMove

\* Steps of an actor that change the groups, and leave the queues and the documents alone.
LEMMA ActorMoves ==
    ASSUME OwnInv, TypeInv', NEW a \in Actors, AloneMoves(a), ~Rewriting(a), ~Rewriting(a)',
           GroupsInv', CurrentInv', ThreadsInv',
           UNCHANGED <<queues, docs, fresh, admitted, status, affected>>
    PROVE  OwnInv'
<1>1. QueuedInv' /\ NothingAborted'
  BY QueuedStutter DEF OwnInv, queues, NothingAborted
<1>2. DocumentInv'
  BY DEF OwnInv, queues, docs, DocumentInv, Rewriting, AloneMoves
<1>3. QED
  BY <1>1, <1>2 DEF OwnInv

\* The current URIs stay what they are when neither they nor the queues change.
LEMMA CurrentKept ==
    ASSUME OwnInv, UNCHANGED <<cur, fresh, admitted, docChg, members>>
    PROVE  CurrentInv'
BY DEF OwnInv, CurrentInv

\* A prefetch thread pops a group, and is then the only one to have it.
LEMMA OwnBlPop == ASSUME OwnInv, TypeInv', NEW h \in Handlers, BlPop(h) PROVE OwnInv'
<1> DEFINE c == Head(ready)
<1>1. /\ pc[h] = "idle" /\ ready # <<>> /\ ready' = Tail(ready)
      /\ UNCHANGED <<wait, busy, timeout, counted, cur, st, queues, docs, others>>
  BY DEF BlPop
<1>2. /\ AloneMoves(h) /\ pc'[h] = "popped" /\ chg'[h] = c /\ tok'[h] = tok[h]
      /\ (h \in late' <=> h \in late)
  BY HandlerFacts DEF BlPop, document, Goto, AloneMoves, OwnInv, TypeInv, LocalInv, LocalsOK
<1>3. /\ Distinct(ready') /\ Elems(ready) = Elems(ready') \cup {c}
      /\ c \notin Elems(ready') /\ c \in Chgs
  BY <1>1, PopDistinct DEF OwnInv, TypeInv, GroupsOK, GroupsInv
<1>4. Distinct(timeout)' /\ Elems(timeout)' = Elems(timeout)
  BY <1>1 DEF OwnInv, GroupsInv, Distinct, Elems
<1>5. Placed' = Placed \ {c} /\ c \in Placed
  BY <1>1, <1>3, <1>4 DEF Placed, OwnInv, GroupsInv
<1>6. UNCHANGED <<members, docChg, fresh, admitted, status, affected>>
  BY <1>1 DEF queues, docs, others
<1>7. \A t \in Tokens : pc'[t] = pc[t]
  BY <1>2, TokenFacts, HandlerFacts DEF AloneMoves
<1>8. GroupsInv'
  <2>1. \A d \in Chgs : st'[d] # NoToken => pc'[st'[d]] # "unused"
    BY <1>1, <1>7 DEF OwnInv, TypeInv, GroupsOK, GroupsInv
  <2>2. QED
    BY <1>1, <1>3, <1>4, <1>5, <2>1 DEF OwnInv, GroupsInv, Placed
<1>9. WorkerInv'
  BY <1>1, <1>2, <1>5, <1>6, WorkerFacts, HandlerFacts
     DEF OwnInv, ThreadsInv, WorkerInv, Owns, HoldsCurrent, AloneMoves
<1>10. \A t \in Tokens : SessionInv(t)'
  BY <1>1, <1>2, <1>6, TokenFacts, HandlerFacts
     DEF OwnInv, ThreadsInv, SessionInv, Owns, HoldsCurrent, AloneMoves
<1>11. HandlerInv(h)'
  <2>1. chg'[Worker] = chg[Worker] /\ chg[Worker] # c
    BY <1>2, <1>3, <1>5, WorkerFacts, HandlerFacts, NullsAssumption
       DEF AloneMoves, OwnInv, ThreadsInv, WorkerInv
  <2>2. c \in counted /\ st[c] = NoToken
    BY <1>3, <1>5 DEF OwnInv, GroupsInv
  <2>3. QED
    BY <1>1, <1>2, <1>5, <2>1, <2>2 DEF OwnInv, ThreadsInv, HandlerInv, HandlerWork, Owns
<1>12. ASSUME NEW k \in Handlers \ {h} PROVE HandlerInv(k)' /\ (pc[k] # "idle" => chg[k] # c)
  <2>1. /\ pc'[k] = pc[k] /\ chg'[k] = chg[k] /\ tok'[k] = tok[k] /\ lease'[k] = lease[k]
        /\ tgt'[k] = tgt[k] /\ old'[k] = old[k] /\ time'[k] = time[k] /\ out'[k] = out[k]
        /\ (k \in late' <=> k \in late)
        /\ chg'[Worker] = chg[Worker]
    BY <1>2, HandlerFacts, WorkerFacts DEF AloneMoves
  <2>2. pc[k] = "granting" => pc'[tok[k]] = pc[tok[k]]
    BY <1>7, HandlerFacts DEF OwnInv, ThreadsInv, HandlerInv, TypeInv, LocalInv, LocalsOK
  <2>3. HandlerInv(k)'
    BY <1>1, <1>5, <1>6, <2>1, <2>2 DEF OwnInv, ThreadsInv, HandlerInv, Owns
  <2>4. pc[k] # "idle" => chg[k] # c
    BY <1>3, <1>5 DEF OwnInv, ThreadsInv, HandlerInv, GroupsInv
  <2>5. QED
    BY <2>3, <2>4
<1>13. HandlersApart'
  BY <1>2, <1>12, HandlerFacts DEF OwnInv, ThreadsInv, HandlersApart, AloneMoves
<1>14. ThreadsInv'
  BY <1>9, <1>10, <1>11, <1>12, <1>13 DEF ThreadsInv
<1>15. QED
  BY <1>1, <1>2, <1>6, <1>8, <1>14, CurrentKept, ActorMoves, HandlerFacts DEF Rewriting

\* The timeout worker pops a group, and is then the only one to have it.
LEMMA OwnLPopTimeout == ASSUME OwnInv, TypeInv', LPopTimeout PROVE OwnInv'
<1> DEFINE c == Head(timeout)
<1>1. /\ pc[Worker] = "idle" /\ timeout # <<>> /\ timeout' = Tail(timeout)
      /\ UNCHANGED <<wait, ready, busy, counted, cur, st, queues, docs, others>>
  BY DEF LPopTimeout
<1>2. /\ AloneMoves(Worker) /\ pc'[Worker] = "popped" /\ chg'[Worker] = c
      /\ out'[Worker] = out[Worker]
  BY WorkerFacts DEF LPopTimeout, document, Goto, AloneMoves, OwnInv, TypeInv, LocalInv, LocalsOK
<1>3. /\ Distinct(timeout') /\ Elems(timeout) = Elems(timeout') \cup {c}
      /\ c \notin Elems(timeout') /\ c \in Chgs
  BY <1>1, PopDistinct DEF OwnInv, TypeInv, GroupsOK, GroupsInv
<1>4. Distinct(ready)' /\ Elems(ready)' = Elems(ready)
  BY <1>1 DEF OwnInv, GroupsInv, Distinct, Elems
<1>5. Placed' = Placed \ {c} /\ c \in Placed
  BY <1>1, <1>3, <1>4 DEF Placed, OwnInv, GroupsInv
<1>6. UNCHANGED <<members, docChg, fresh, admitted, status, affected>>
  BY <1>1 DEF queues, docs, others
<1>7. \A t \in Tokens : pc'[t] = pc[t]
  BY <1>2, TokenFacts, WorkerFacts DEF AloneMoves
<1>8. GroupsInv'
  <2>1. \A d \in Chgs : st'[d] # NoToken => pc'[st'[d]] # "unused"
    BY <1>1, <1>7 DEF OwnInv, TypeInv, GroupsOK, GroupsInv
  <2>2. QED
    BY <1>1, <1>3, <1>4, <1>5, <2>1 DEF OwnInv, GroupsInv, Placed
<1>9. WorkerInv'
  BY <1>1, <1>2, <1>3, <1>5, NullsAssumption
     DEF OwnInv, GroupsInv, ThreadsInv, WorkerInv, WorkerPc, WorkerWork, Owns
<1>10. \A t \in Tokens : SessionInv(t)'
  BY <1>1, <1>2, <1>6, TokenFacts
     DEF OwnInv, ThreadsInv, SessionInv, Owns, HoldsCurrent, AloneMoves
<1>11. ASSUME NEW k \in Handlers PROVE HandlerInv(k)'
  <2>1. /\ pc'[k] = pc[k] /\ chg'[k] = chg[k] /\ tok'[k] = tok[k] /\ lease'[k] = lease[k]
        /\ tgt'[k] = tgt[k] /\ old'[k] = old[k] /\ time'[k] = time[k] /\ out'[k] = out[k]
        /\ (k \in late' <=> k \in late)
    BY <1>2, HandlerFacts DEF AloneMoves
  <2>2. pc[k] = "granting" => pc'[tok[k]] = pc[tok[k]]
    BY <1>7, HandlerFacts DEF OwnInv, ThreadsInv, HandlerInv, TypeInv, LocalInv, LocalsOK
  <2>3. QED
    BY <1>1, <1>2, <1>5, <1>6, <2>1, <2>2 DEF OwnInv, ThreadsInv, HandlerInv, Owns
<1>12. HandlersApart'
  BY <1>2, WorkerFacts, HandlerFacts DEF OwnInv, ThreadsInv, HandlersApart, AloneMoves
<1>13. ThreadsInv'
  BY <1>9, <1>10, <1>11, <1>12 DEF ThreadsInv
<1>14. QED
  BY <1>1, <1>2, <1>6, <1>8, <1>13, CurrentKept, ActorMoves, WorkerFacts DEF Rewriting

\* chg_next makes the popped group busy.
LEMMA OwnChgNext == ASSUME OwnInv, TypeInv', NEW h \in Handlers, ChgNext(h) PROVE OwnInv'
<1> DEFINE c == chg[h]
<1>1. /\ pc[h] = "popped" /\ busy' = busy \cup {c}
      /\ UNCHANGED <<wait, ready, timeout, counted, cur, st, queues, docs, others>>
  BY DEF ChgNext
<1>2. c \in counted /\ c \notin Placed /\ c # chg[Worker] /\ c \in Chgs /\ st[c] = NoToken
  BY <1>1 DEF OwnInv, ThreadsInv, HandlerInv, TypeInv, GroupsOK
<1>3. Goto(h, "selecting") /\ UNCHANGED locals
  BY <1>2 DEF ChgNext, Placed
<1>4. /\ AloneMoves(h) /\ pc'[h] = "selecting" /\ chg'[h] = c /\ tok'[h] = tok[h]
      /\ (h \in late' <=> h \in late)
  BY <1>3, HandlerFacts, GotoMoves DEF OwnInv, TypeInv, LocalInv
<1>5. /\ Elems(ready)' = Elems(ready) /\ Elems(timeout)' = Elems(timeout)
      /\ Distinct(ready)' /\ Distinct(timeout)' /\ Placed' = Placed \cup {c}
  BY <1>1 DEF OwnInv, GroupsInv, Distinct, Elems, Placed
<1>6. UNCHANGED <<members, docChg, fresh, admitted, status, affected>>
  BY <1>1 DEF queues, docs, others
<1>7. \A t \in Tokens : pc'[t] = pc[t]
  BY <1>4, TokenFacts, HandlerFacts DEF AloneMoves
<1>8. GroupsInv'
  <2>1. \A d \in Chgs : st'[d] # NoToken => pc'[st'[d]] # "unused"
    BY <1>1, <1>7 DEF OwnInv, TypeInv, GroupsOK, GroupsInv
  <2>2. QED
    BY <1>1, <1>2, <1>5, <2>1 DEF OwnInv, GroupsInv, Placed
<1>9. WorkerInv'
  BY <1>1, <1>2, <1>4, <1>5, <1>6, WorkerFacts, HandlerFacts
     DEF OwnInv, ThreadsInv, WorkerInv, Owns, HoldsCurrent, AloneMoves
<1>10. \A t \in Tokens : SessionInv(t)'
  BY <1>1, <1>4, <1>6, TokenFacts, HandlerFacts
     DEF OwnInv, ThreadsInv, SessionInv, Owns, HoldsCurrent, AloneMoves
<1>11. HandlerInv(h)'
  BY <1>1, <1>2, <1>4 DEF OwnInv, ThreadsInv, HandlerInv, HandlerWork, Owns
<1>12. ASSUME NEW k \in Handlers \ {h} PROVE HandlerInv(k)'
  <2>1. /\ pc'[k] = pc[k] /\ chg'[k] = chg[k] /\ tok'[k] = tok[k] /\ lease'[k] = lease[k]
        /\ tgt'[k] = tgt[k] /\ old'[k] = old[k] /\ time'[k] = time[k] /\ out'[k] = out[k]
        /\ (k \in late' <=> k \in late)
        /\ chg'[Worker] = chg[Worker]
    BY <1>4, HandlerFacts, WorkerFacts DEF AloneMoves
  <2>2. pc[k] = "granting" => pc'[tok[k]] = pc[tok[k]]
    BY <1>7, HandlerFacts DEF OwnInv, ThreadsInv, HandlerInv, TypeInv, LocalInv, LocalsOK
  <2>3. pc[k] = "popped" => chg[k] # c
    BY <1>1 DEF OwnInv, ThreadsInv, HandlersApart
  <2>4. QED
    BY <1>1, <1>5, <1>6, <2>1, <2>2, <2>3 DEF OwnInv, ThreadsInv, HandlerInv, Owns
<1>13. HandlersApart'
  BY <1>1, <1>4, HandlerFacts DEF OwnInv, ThreadsInv, HandlersApart, AloneMoves
<1>14. ThreadsInv'
  BY <1>9, <1>10, <1>11, <1>12, <1>13 DEF ThreadsInv
<1>15. QED
  BY <1>1, <1>4, <1>6, <1>8, <1>14, CurrentKept, ActorMoves, HandlerFacts DEF Rewriting

\* The first write of chg_update: the token is new, and the leased URI becomes current.
LEMMA OwnSetSession ==
    ASSUME OwnInv, TypeInv', NEW h \in Handlers, NEW t \in Tokens, SetSession(h, t)
    PROVE  OwnInv'
<1> DEFINE c == chg[h]
           u == lease[h][2]
<1>1. /\ pc[h] = "claimed" /\ pc[t] = "unused"
      /\ cur' = [cur EXCEPT ![c] = u] /\ st' = [st EXCEPT ![c] = t]
      /\ tok' = [tok EXCEPT ![h] = t] /\ pc' = [pc EXCEPT ![h] = "granting", ![t] = "issued"]
      /\ UNCHANGED <<wait, ready, busy, timeout, counted, queues, docs, others>>
      /\ UNCHANGED <<chg, lease, tgt, time, old, out, late>>
  BY DEF SetSession, document
<1>2. UNCHANGED <<members, docChg, fetchTime, fresh, admitted, status, affected>>
  BY <1>1 DEF queues, docs, others
<1>3. h \in Actors /\ t \in Actors /\ h # t /\ h # Worker /\ t # Worker /\ Worker \in Actors
  BY HandlerFacts, TokenFacts, WorkerFacts
<1>4. /\ pc'[h] = "granting" /\ pc'[t] = "issued" /\ tok'[h] = t
      /\ \A b \in Actors \ {h, t} : pc'[b] = pc[b]
      /\ \A b \in Actors \ {h} : tok'[b] = tok[b]
  BY <1>1, <1>3 DEF OwnInv, TypeInv, LocalInv, LocalsOK
<1>5. c \in busy /\ c \in Chgs /\ lease[h] \in members /\ lease[h][1] = c
  BY <1>1, OwnerFacts DEF Owns, OwnInv, TypeInv, GroupsOK
<1>6. /\ cur'[c] = u /\ st'[c] = t
      /\ \A d \in Chgs \ {c} : cur'[d] = cur[d] /\ st'[d] = st[d]
  BY <1>1, <1>5 DEF OwnInv, TypeInv, GroupsOK
<1>7. u \in Uris /\ u # NoUri /\ u \notin fresh \cup admitted /\ t # NoToken
  BY <1>5, MemberFacts, NullsAssumption DEF OwnInv, QueuedInv, NotYetQueued, TypeInv, QueuesOK
<1>8. CurrentInv'
  <2>1. docChg[u] \in {c, NoChg}
    BY <1>1, <1>5, DocumentForHandler DEF HandlerWork
  <2>2. \A m \in members : m[2] = u => m[1] = c
    BY <1>5 DEF OwnInv, QueuedInv, UriQueuedOnce
  <2>3. \A d \in Chgs : cur[d] = u => d = c
    BY <1>5, <1>7 DEF OwnInv, CurrentInv
  <2>4. QED
    BY <1>2, <1>6, <1>7, <2>1, <2>2, <2>3 DEF OwnInv, CurrentInv
<1>9. /\ Elems(ready)' = Elems(ready) /\ Elems(timeout)' = Elems(timeout)
      /\ Distinct(ready)' /\ Distinct(timeout)' /\ Placed' = Placed
  BY <1>1 DEF OwnInv, GroupsInv, Distinct, Elems, Placed
<1>10. \A d \in Chgs : st[d] # t
  BY <1>1, <1>7 DEF OwnInv, GroupsInv
<1>11. GroupsInv'
  <2>1. \A d \in wait \cup Elems(ready) : d # c /\ st'[d] = NoToken
    BY <1>1, <1>5, <1>6, <1>9 DEF OwnInv, GroupsInv, TypeInv, GroupsOK, Placed
  <2>2. \A d \in Chgs : st'[d] # NoToken => pc'[st'[d]] # "unused"
    BY <1>3, <1>4, <1>6, TokenFacts DEF OwnInv, GroupsInv, TypeInv, GroupsOK
  <2>3. /\ \A d \in Chgs : st'[d] = NoToken => cur'[d] = NoUri
        /\ \A d, e \in Chgs : st'[d] = st'[e] /\ st'[d] # NoToken => d = e
    BY <1>6, <1>7, <1>10 DEF OwnInv, GroupsInv
  <2>4. QED
    BY <1>1, <1>9, <2>1, <2>2, <2>3 DEF OwnInv, GroupsInv
<1>12. WorkerInv'
  <2>1. chg[Worker] # c /\ chg[Worker] \in Chgs \cup {NoChg}
    BY <1>3, <1>5, NullsAssumption DEF OwnInv, ThreadsInv, WorkerInv, Placed, TypeInv, LocalInv, LocalsOK
  <2>2. pc[Worker] # "idle" => cur'[chg[Worker]] = cur[chg[Worker]] /\ st'[chg[Worker]] = st[chg[Worker]]
    BY <1>6, <2>1 DEF OwnInv, ThreadsInv, WorkerInv
  <2>3. QED
    BY <1>1, <1>2, <1>3, <1>4, <1>9, <2>2
       DEF OwnInv, ThreadsInv, WorkerInv, WorkerWork, Owns, HoldsCurrent
<1>13. ASSUME NEW s \in Tokens PROVE SessionInv(s)'
  <2>1. CASE s = t
    BY <1>1, <1>4, <2>1 DEF OwnInv, ThreadsInv, SessionInv, SessionPc, SessionWork, Owns
  <2>2. CASE s # t
    <3>1. pc'[s] = pc[s] /\ tok'[s] = tok[s]
      BY <1>3, <1>4, <2>2, TokenFacts
    <3>2. pc[s] \in SessionWork => chg[s] # c /\ chg[s] \in Chgs
      BY <1>1, HandlerApartFromSession DEF HandlerWork, OwnInv, ThreadsInv, SessionInv, TypeInv, GroupsOK
    <3>3. Owns(s) => pc[s] \in SessionWork
      BY DEF OwnInv, ThreadsInv, SessionInv, SessionPc, SessionWork, Owns
    <3>4. QED
      BY <1>1, <1>2, <1>6, <3>1, <3>2, <3>3 DEF OwnInv, ThreadsInv, SessionInv, Owns, HoldsCurrent
  <2>3. QED
    BY <2>1, <2>2
<1>14. HandlerInv(h)'
  BY <1>1, <1>2, <1>4, <1>5, <1>6, <1>7 DEF OwnInv, ThreadsInv, HandlerInv, HandlerWork, Owns
<1>15. ASSUME NEW k \in Handlers \ {h} PROVE HandlerInv(k)'
  <2>1. pc'[k] = pc[k] /\ tok'[k] = tok[k]
    BY <1>4, HandlerFacts
  <2>2. pc[k] # "idle" => chg[k] # c /\ chg[k] \in Chgs
    BY <1>1 DEF OwnInv, ThreadsInv, HandlersApart, HandlerInv, TypeInv, GroupsOK
  <2>3. pc[k] = "granting" => pc'[tok[k]] = "issued"
    <3>1. pc[k] = "granting" => tok[k] \in Tokens
      BY HandlerFacts DEF OwnInv, ThreadsInv, HandlerInv, TypeInv, LocalInv, LocalsOK
    <3>2. QED
      BY <1>3, <1>4, <3>1, TokenFacts, HandlerFacts DEF OwnInv, ThreadsInv, HandlerInv
  <2>4. QED
    BY <1>1, <1>2, <1>6, <1>9, <2>1, <2>2, <2>3 DEF OwnInv, ThreadsInv, HandlerInv, Owns
<1>16. HandlersApart'
  BY <1>1, <1>3, <1>4, HandlerFacts DEF OwnInv, ThreadsInv, HandlersApart
<1>17. DocumentInv'
  BY <1>1, <1>2, <1>4 DEF OwnInv, DocumentInv, Rewriting
<1>18. QueuedInv' /\ NothingAborted'
  BY <1>2, QueuedStutter DEF OwnInv, NothingAborted
<1>19. QED
  BY <1>8, <1>11, <1>12, <1>13, <1>14, <1>15, <1>16, <1>17, <1>18 DEF OwnInv, ThreadsInv

\* The second write of chg_update: the harvester may now look the session up.
LEMMA OwnGrant == ASSUME OwnInv, TypeInv', NEW h \in Handlers, Grant(h) PROVE OwnInv'
<1> DEFINE t == tok[h]
<1>1. /\ pc[h] = "granting"
      /\ \E there \in {"fetching", pc[t]} : pc' = [pc EXCEPT ![h] = "idle", ![t] = there]
      /\ chg' = [chg EXCEPT ![h] = NoChg] /\ tok' = [tok EXCEPT ![h] = NoToken]
      /\ lease' = [lease EXCEPT ![h] = NoLease] /\ tgt' = [tgt EXCEPT ![h] = NoChg]
      /\ time' = [time EXCEPT ![h] = 0] /\ old' = [old EXCEPT ![h] = 0]
      /\ UNCHANGED <<wait, ready, busy, timeout, counted, cur, st, queues, docs, others, out, late>>
  <2>1. t \in Actors /\ h # t
    BY HandlerFacts, NullsAssumption
       DEF Grant, OwnInv, ThreadsInv, HandlerInv, TypeInv, LocalInv, LocalsOK, Actors
  <2>2. QED
    BY <2>1, HandlerFacts DEF Grant, OwnInv, TypeInv, LocalInv, LocalsOK
<1>2. /\ UNCHANGED <<members, docChg, fetchTime, fresh, admitted, status, affected>>
      /\ UNCHANGED <<wait, ready, busy, timeout, counted, cur, st, out, late>>
      /\ pc[h] = "granting"
  BY <1>1 DEF queues, docs, others
<1>3. t \in Tokens /\ pc[t] = "issued" /\ st[chg[h]] = t /\ chg[h] \in Chgs
  BY <1>2, HandlerFacts
     DEF OwnInv, ThreadsInv, HandlerInv, HandlerWork, TypeInv, LocalInv, LocalsOK, GroupsOK
<1>4. h \in Actors /\ t \in Actors /\ h # t /\ h # Worker /\ t # Worker /\ Worker \in Actors
  BY <1>3, HandlerFacts, TokenFacts, WorkerFacts
<1>5. /\ pc'[h] = "idle" /\ pc'[t] \in {"fetching", "issued"} /\ tok'[h] = NoToken
      /\ \A b \in Actors \ {h, t} : pc'[b] = pc[b]
      /\ \A b \in Actors \ {h} : /\ chg'[b] = chg[b] /\ tok'[b] = tok[b] /\ lease'[b] = lease[b]
                                 /\ tgt'[b] = tgt[b] /\ old'[b] = old[b] /\ time'[b] = time[b]
  BY <1>1, <1>3, <1>4 DEF OwnInv, TypeInv, LocalInv, LocalsOK
<1>6. QueuedInv' /\ NothingAborted' /\ CurrentInv'
  BY <1>2, QueuedStutter, CurrentKept DEF OwnInv, NothingAborted
<1>7. DocumentInv'
  BY <1>2, <1>3, <1>4, <1>5 DEF OwnInv, DocumentInv, Rewriting
<1>8. /\ Elems(ready)' = Elems(ready) /\ Elems(timeout)' = Elems(timeout)
      /\ Distinct(ready)' /\ Distinct(timeout)' /\ Placed' = Placed
  BY <1>2 DEF OwnInv, GroupsInv, Distinct, Elems, Placed
<1>9. GroupsInv'
  <2>1. \A d \in Chgs : st'[d] # NoToken => pc'[st'[d]] # "unused"
    BY <1>2, <1>4, <1>5, TokenFacts, HandlerFacts DEF OwnInv, GroupsInv, TypeInv, GroupsOK
  <2>2. QED
    BY <1>2, <1>8, <2>1 DEF OwnInv, GroupsInv
<1>10. WorkerInv'
  BY <1>2, <1>4, <1>5, <1>8 DEF OwnInv, ThreadsInv, WorkerInv, Owns, HoldsCurrent
<1>11. ASSUME NEW s \in Tokens PROVE SessionInv(s)'
  <2>1. CASE s = t
    BY <1>2, <1>3, <1>5, <2>1 DEF OwnInv, ThreadsInv, SessionInv, SessionPc, SessionWork, Owns
  <2>2. CASE s # t
    BY <1>2, <1>4, <1>5, <2>2, TokenFacts, HandlerFacts
       DEF OwnInv, ThreadsInv, SessionInv, Owns, HoldsCurrent
  <2>3. QED
    BY <2>1, <2>2
<1>12. HandlerInv(h)'
  BY <1>2, <1>5 DEF OwnInv, ThreadsInv, HandlerInv, HandlerWork, Owns
<1>13. ASSUME NEW k \in Handlers \ {h} PROVE HandlerInv(k)'
  <2>1. /\ pc'[k] = pc[k] /\ tok'[k] = tok[k] /\ chg'[k] = chg[k] /\ lease'[k] = lease[k]
        /\ tgt'[k] = tgt[k] /\ old'[k] = old[k] /\ time'[k] = time[k] /\ chg'[Worker] = chg[Worker]
    BY <1>3, <1>4, <1>5, HandlerFacts, TokenFacts
  <2>2. pc[k] = "granting" => pc'[tok[k]] = "issued"
    <3>1. ASSUME pc[k] = "granting" PROVE tok[k] \in Tokens /\ tok[k] # t /\ pc[tok[k]] = "issued"
      <4>1. tok[k] \in Tokens /\ pc[tok[k]] = "issued" /\ st[chg[k]] = tok[k] /\ chg[k] \in Chgs
        BY <3>1, HandlerFacts
           DEF OwnInv, ThreadsInv, HandlerInv, HandlerWork, TypeInv, LocalInv, LocalsOK, GroupsOK
      <4>2. chg[k] # chg[h]
        BY <1>2, <3>1 DEF OwnInv, ThreadsInv, HandlersApart
      <4>3. QED
        BY <1>3, <4>1, <4>2, NullsAssumption DEF OwnInv, GroupsInv
    <3>2. QED
      BY <1>5, <3>1, TokenFacts, HandlerFacts
  <2>3. QED
    BY <1>2, <1>8, <2>1, <2>2 DEF OwnInv, ThreadsInv, HandlerInv, Owns
<1>14. HandlersApart'
  BY <1>3, <1>4, <1>5, HandlerFacts, TokenFacts DEF OwnInv, ThreadsInv, HandlersApart
<1>15. QED
  BY <1>6, <1>7, <1>9, <1>10, <1>11, <1>12, <1>13, <1>14 DEF OwnInv, ThreadsInv

\* chg_release.lua: a release that is accepted comes from the one actor that has the group.
LEMMA ReleaseIsAlone ==
    ASSUME OwnInv, NEW a \in Actors, pc[a] = "release", ChgReleaseAccepts(chg[a], tok[a], a \in late)
    PROVE  /\ chg[a] \in Chgs /\ chg[a] \in counted
           /\ \A h \in Handlers \ {a} : pc[h] # "idle" => chg[h] # chg[a]
           /\ \A t \in Tokens \ {a} : pc[t] \in SessionWork => chg[t] # chg[a]
           /\ a # Worker => chg[Worker] # chg[a]
           /\ chg[a] \notin wait \cup Elems(ready) \cup Elems(timeout)
<1>1. CASE a \in Handlers
  <2>1. chg[a] \in busy /\ pc[a] \in HandlerWork /\ pc[a] # "idle"
    BY <1>1 DEF OwnInv, ThreadsInv, HandlerInv, HandlerWork
  <2>2. chg[a] \in Chgs /\ chg[a] \in counted /\ chg[a] \in Placed
    BY <2>1 DEF OwnInv, TypeInv, GroupsOK, GroupsInv, Placed
  <2>3. QED
    BY <1>1, <2>1, <2>2, HandlerApartFromSession, NullsAssumption
       DEF OwnInv, ThreadsInv, HandlersApart, WorkerInv, GroupsInv
<1>2. CASE a \in Tokens
  <2>1. chg[a] \in busy /\ pc[a] \in SessionWork /\ st[chg[a]] = a
    BY <1>2 DEF OwnInv, ThreadsInv, SessionInv, SessionWork
  <2>2. chg[a] \in Chgs /\ chg[a] \in counted /\ chg[a] \in Placed
    BY <2>1 DEF OwnInv, TypeInv, GroupsOK, GroupsInv, Placed
  <2>3. \A h \in Handlers : pc[h] # "idle" => chg[h] # chg[a]
    BY <1>2, <2>1, <2>2, HandlerApartFromSession DEF OwnInv, ThreadsInv, HandlerInv
  <2>4. QED
    BY <1>2, <2>1, <2>2, <2>3, NullsAssumption
       DEF OwnInv, ThreadsInv, SessionInv, WorkerInv, GroupsInv
<1>3. CASE a = Worker
  <2>1. chg[a] \in Chgs /\ chg[a] \in counted \ Placed
    BY <1>3 DEF OwnInv, ThreadsInv, WorkerInv, TypeInv, GroupsOK
  <2>2. \A h \in Handlers : pc[h] # "idle" => chg[h] # chg[a]
    BY <1>3, <2>1 DEF OwnInv, ThreadsInv, HandlerInv, Placed
  <2>3. QED
    BY <1>3, <2>1, <2>2 DEF OwnInv, ThreadsInv, SessionInv, Placed
<1>4. QED
  BY <1>1, <1>2, <1>3 DEF Actors

\* The release puts the group in wait or forgets it; one that is refused changes nothing.
LEMMA OwnRelease == ASSUME OwnInv, TypeInv', NEW a \in Actors, Release(a) PROVE OwnInv'
<1> DEFINE c == chg[a]
<1>1. /\ pc[a] = "release" /\ Rest(a) /\ ChgRelease(c, tok[a], a \in late)
      /\ UNCHANGED <<queues, docs, others>>
  BY DEF Release
<1>2. AloneMoves(a) /\ pc'[a] = Resting(a) /\ chg'[a] = NoChg /\ tok'[a] = NoToken
      /\ out'[a] = "none" /\ a \notin late'
  BY <1>1, RestMoves DEF OwnInv, TypeInv, LocalInv
<1>3. UNCHANGED <<members, docChg, fresh, admitted, status, affected>>
  BY <1>1 DEF queues, docs, others
<1>4. /\ a \in Handlers => HandlerInv(a)'
      /\ a \in Tokens => SessionInv(a)'
      /\ a = Worker => WorkerInv'
  <2>1. a \in Handlers => HandlerInv(a)'
    BY <1>2, HandlerFacts DEF HandlerInv, HandlerWork, Owns
  <2>2. a \in Tokens => SessionInv(a)'
    BY <1>2, TokenFacts DEF SessionInv, SessionPc, SessionWork, Owns
  <2>3. a = Worker => WorkerInv'
    BY <1>2, WorkerFacts DEF WorkerInv, WorkerPc, WorkerWork, Owns
  <2>4. QED
    BY <2>1, <2>2, <2>3
<1>5. ~Rewriting(a) /\ ~Rewriting(a)' /\ pc'[a] # "unused"
  BY <1>1, <1>2 DEF Rewriting, Resting
<1>6. CASE ~ChgReleaseAccepts(c, tok[a], a \in late)
  <2>1. DataKept
    BY <1>1, <1>3, <1>6 DEF ChgRelease, DataKept
  <2>2. CASE a \in Handlers
    BY <1>2, <1>4, <1>5, <2>1, <2>2, HandlerMoves, HandlerFacts
  <2>3. CASE a \in Tokens
    BY <1>1, <1>2, <1>4, <1>5, <2>1, <2>3, SessionMoves
  <2>4. CASE a = Worker
    BY <1>2, <1>4, <1>5, <2>1, <2>4, WorkerMoves
  <2>5. QED
    BY <2>2, <2>3, <2>4 DEF Actors
<1>7. CASE ChgReleaseAccepts(c, tok[a], a \in late)
  <2>1. /\ c \in Chgs
        /\ \A h \in Handlers \ {a} : pc[h] # "idle" => chg[h] # c
        /\ \A t \in Tokens \ {a} : pc[t] \in SessionWork => chg[t] # c
        /\ a # Worker => chg[Worker] # c
        /\ c \notin wait \cup Elems(ready) \cup Elems(timeout)
    BY <1>1, <1>7, ReleaseIsAlone
  <2>2. /\ busy' = busy \ {c} /\ UNCHANGED <<ready, timeout>>
        /\ cur' = [cur EXCEPT ![c] = NoUri] /\ st' = [st EXCEPT ![c] = NoToken]
        /\ \/ wait' = wait \cup {c} /\ UNCHANGED counted
           \/ UNCHANGED wait /\ counted' = counted \ {c}
    BY <1>1, <1>7 DEF ChgRelease
  <2>3. /\ cur'[c] = NoUri /\ st'[c] = NoToken
        /\ \A d \in Chgs \ {c} : cur'[d] = cur[d] /\ st'[d] = st[d]
    BY <2>1, <2>2 DEF OwnInv, TypeInv, GroupsOK
  <2>4. c \in counted
    BY <1>1, <1>7, ReleaseIsAlone
  <2>5. /\ Elems(ready)' = Elems(ready) /\ Elems(timeout)' = Elems(timeout)
        /\ Distinct(ready)' /\ Distinct(timeout)'
    BY <2>2 DEF OwnInv, GroupsInv, Distinct, Elems
  <2>6. Placed' \ {c} = Placed \ {c} /\ counted' \ {c} = counted \ {c} /\ (c \in Placed' => c \in counted')
    BY <2>1, <2>2, <2>4, <2>5 DEF Placed
  <2>7. CurrentInv'
    BY <1>3, <2>3 DEF OwnInv, CurrentInv
  <2>8. \A t \in Tokens : pc'[t] = "unused" => pc[t] = "unused"
    BY <1>2, <1>5, TokenFacts DEF AloneMoves
  <2>9. GroupsInv'
    <3>1. \A d \in Chgs : st'[d] # NoToken => pc'[st'[d]] # "unused"
      <4>1. \A d \in Chgs : st[d] # NoToken => st[d] \in Tokens /\ pc[st[d]] # "unused"
        BY DEF OwnInv, GroupsInv, TypeInv, GroupsOK
      <4>2. QED
        BY <2>3, <2>8, <4>1
    <3>2. /\ \A d \in Chgs : st'[d] = NoToken => cur'[d] = NoUri
          /\ \A d, e \in Chgs : st'[d] = st'[e] /\ st'[d] # NoToken => d = e
      BY <2>3 DEF OwnInv, GroupsInv
    <3>3. \A d \in wait' \cup Elems(ready)' : st'[d] = NoToken
      <4>1. wait' \cup Elems(ready)' \subseteq wait \cup Elems(ready) \cup {c}
        BY <2>2, <2>5
      <4>2. wait \cup Elems(ready) \subseteq Chgs
        BY DEF OwnInv, GroupsInv, TypeInv, GroupsOK, Placed
      <4>3. QED
        BY <2>3, <4>1, <4>2 DEF OwnInv, GroupsInv
    <3>4. Placed' \subseteq counted'
      BY <2>6 DEF OwnInv, GroupsInv
    <3>5. wait' \cap busy' = {} /\ Elems(ready)' \cap (wait' \cup busy') = {}
          /\ Elems(timeout)' \cap (wait' \cup busy' \cup Elems(ready)') = {}
      BY <2>1, <2>2, <2>5 DEF OwnInv, GroupsInv
    <3>6. QED
      BY <2>5, <3>1, <3>2, <3>3, <3>4, <3>5 DEF GroupsInv
  <2>10. ASSUME a # Worker PROVE WorkerInv'
    <3>1. /\ pc'[Worker] = pc[Worker] /\ chg'[Worker] = chg[Worker] /\ tok'[Worker] = tok[Worker]
          /\ lease'[Worker] = lease[Worker] /\ tgt'[Worker] = tgt[Worker]
          /\ old'[Worker] = old[Worker] /\ time'[Worker] = time[Worker]
          /\ out'[Worker] = out[Worker] /\ (Worker \in late' <=> Worker \in late)
      BY <1>2, <2>10, WorkerFacts DEF AloneMoves
    <3>2. pc[Worker] # "idle" => chg[Worker] \in Chgs \ {c}
      BY <2>1, <2>10 DEF OwnInv, ThreadsInv, WorkerInv, TypeInv, GroupsOK
    <3>3. chg[Worker] # NoChg => pc[Worker] # "idle"
      BY DEF OwnInv, ThreadsInv, WorkerInv
    <3>4. QED
      BY <1>3, <2>3, <2>6, <3>1, <3>2, <3>3
         DEF OwnInv, ThreadsInv, WorkerInv, WorkerWork, Owns, HoldsCurrent
  <2>11. ASSUME NEW t \in Tokens \ {a} PROVE SessionInv(t)'
    <3>1. /\ pc'[t] = pc[t] /\ chg'[t] = chg[t] /\ tok'[t] = tok[t] /\ lease'[t] = lease[t]
          /\ tgt'[t] = tgt[t] /\ old'[t] = old[t] /\ time'[t] = time[t] /\ out'[t] = out[t]
      /\ (t \in late' <=> t \in late)
      BY <1>2, TokenFacts DEF AloneMoves
    <3>2. pc[t] \in SessionWork => chg[t] \in Chgs \ {c}
      BY <2>1 DEF OwnInv, ThreadsInv, SessionInv, TypeInv, GroupsOK
    <3>3. Owns(t) => pc[t] \in SessionWork
      BY DEF OwnInv, ThreadsInv, SessionInv, SessionPc, SessionWork, Owns
    <3>4. QED
      BY <1>3, <2>2, <2>3, <3>1, <3>2, <3>3 DEF OwnInv, ThreadsInv, SessionInv, Owns, HoldsCurrent
  <2>12. ASSUME NEW k \in Handlers \ {a} PROVE HandlerInv(k)'
    <3>1. /\ pc'[k] = pc[k] /\ chg'[k] = chg[k] /\ tok'[k] = tok[k] /\ lease'[k] = lease[k]
          /\ tgt'[k] = tgt[k] /\ old'[k] = old[k] /\ time'[k] = time[k] /\ out'[k] = out[k]
          /\ (k \in late' <=> k \in late)
      BY <1>2, HandlerFacts DEF AloneMoves
    <3>2. chg'[Worker] \in {chg[Worker], NoChg}
      BY <1>2, WorkerFacts DEF AloneMoves
    <3>3. pc[k] = "granting" => pc'[tok[k]] = pc[tok[k]]
      BY <1>1, <1>2, HandlerFacts, TokenFacts
         DEF AloneMoves, OwnInv, ThreadsInv, HandlerInv, TypeInv, LocalInv, LocalsOK
    <3>4. pc[k] # "idle" => chg[k] \in Chgs \ {c} /\ chg[k] # NoChg
      BY <2>1, NullsAssumption DEF OwnInv, ThreadsInv, HandlerInv, TypeInv, GroupsOK
    <3>5. pc[k] \in HandlerWork => pc[k] # "idle"
      BY DEF HandlerWork
    <3>6. QED
      BY <1>3, <2>2, <2>3, <2>6, <3>1, <3>2, <3>3, <3>4, <3>5 DEF OwnInv, ThreadsInv, HandlerInv, Owns
  <2>13. HandlersApart'
    BY <1>2, HandlerFacts DEF OwnInv, ThreadsInv, HandlersApart, AloneMoves
  <2>14. ThreadsInv'
    BY <1>4, <2>10, <2>11, <2>12, <2>13 DEF ThreadsInv
  <2>15. QED
    BY <1>1, <1>2, <1>3, <1>5, <2>7, <2>9, <2>14, ActorMoves
<1>8. QED
  BY <1>6, <1>7

(***************************************************************************)
(* The queues of URIs and the documents                                    *)
(***************************************************************************)

\* Steps that change neither the groups nor the actors.
LEMMA DataMoves ==
    ASSUME OwnInv, TypeInv', QueuedInv', CurrentInv', DocumentInv',
           UNCHANGED <<groups, status, affected, pc, locals>>, members \subseteq members',
           \A a \in Actors \ Handlers : Owns(a) => HoldsCurrent(a)'
    PROVE  OwnInv'
<1>1. /\ UNCHANGED <<wait, ready, busy, timeout, counted, cur, st>>
      /\ UNCHANGED <<pc, chg, tok, lease, tgt, time, old, out, late>>
  BY DEF groups, locals, document
<1>2. Placed' = Placed /\ GroupsInv' /\ NothingAborted'
  BY <1>1 DEF OwnInv, GroupsInv, NothingAborted, Placed, Elems, Distinct
<1>3. \A a \in Actors : Owns(a)' <=> Owns(a)
  BY <1>1 DEF Owns
<1>4. \A h \in Handlers : HandlerInv(h)'
  BY <1>1, <1>2, <1>3, HandlerFacts DEF OwnInv, ThreadsInv, HandlerInv
<1>5. HandlersApart'
  BY <1>1 DEF OwnInv, ThreadsInv, HandlersApart
<1>6. \A t \in Tokens : SessionInv(t)'
  BY <1>1, <1>3, TokenFacts DEF OwnInv, ThreadsInv, SessionInv
<1>7. WorkerInv'
  BY <1>1, <1>2, <1>3, WorkerFacts DEF OwnInv, ThreadsInv, WorkerInv
<1>8. QED
  BY <1>2, <1>4, <1>5, <1>6, <1>7 DEF OwnInv, ThreadsInv

\* A stream or the worker keeps its URI while the current URI and its member stay.
LEMMA HoldsCurrentKept ==
    ASSUME UNCHANGED <<cur, members, chg, lease, time, old, tgt>>, NEW a, HoldsCurrent(a)
    PROVE  HoldsCurrent(a)'
BY DEF HoldsCurrent

\* A URI is admitted.
LEMMA OwnEnsureActive == ASSUME OwnInv, TypeInv', NEW u \in Uris, EnsureExecutionActive(u) PROVE OwnInv'
<1>1. /\ UNCHANGED <<groups, queues, docs, status, affected, pc, locals>>
      /\ fresh' \cup admitted' = fresh \cup admitted
      /\ u \in fresh /\ fresh' = fresh \ {u} /\ admitted' = admitted \cup {u}
  BY DEF EnsureExecutionActive
<1>2. UNCHANGED <<cur, members, docChg, fetchTime, pc, chg, lease, tgt, time, old>>
  BY <1>1 DEF groups, queues, docs, locals, document
<1>3. QueuedInv' /\ CurrentInv' /\ DocumentInv'
  BY <1>1, <1>2 DEF OwnInv, QueuedInv, UriQueuedOnce, NotYetQueued, CurrentInv, DocumentInv, Rewriting
<1>4. \A a \in Actors \ Handlers : Owns(a) => HoldsCurrent(a)'
  BY <1>2, OwnerFacts, HoldsCurrentKept DEF Actors
<1>5. QED
  BY <1>1, <1>2, <1>3, <1>4, DataMoves

\* uri_add queues a URI that nobody can have leased.
LEMMA OwnUriAdd ==
    ASSUME OwnInv, TypeInv', QueuedInv', NEW u \in Uris, NEW c \in Chgs, UriAdd(u, c)
    PROVE  OwnInv'
<1>1. /\ u \in admitted /\ admitted' = admitted \ {u} /\ docChg' = [docChg EXCEPT ![u] = c]
      /\ members' = members \cup {<<c, u, 0>>}
      /\ UNCHANGED <<groups, fetchTime, status, fresh, affected, pc, locals>>
  BY DEF UriAdd
<1>2. UNCHANGED <<cur, pc, chg, lease, tgt, time, old>>
  BY <1>1 DEF groups, locals, document
<1>3. \A m \in members : m[2] # u
  BY <1>1 DEF OwnInv, QueuedInv, NotYetQueued
<1>4. /\ docChg'[u] = c /\ fetchTime[u] = 0 /\ u \notin fresh
      /\ \A v \in Uris \ {u} : docChg'[v] = docChg[v]
  BY <1>1 DEF OwnInv, TypeInv, DocsOK, DocumentInv, QueuedInv, NotYetQueued
<1>5. \A d \in Chgs : cur[d] # NoUri => cur[d] # u /\ cur[d] \in Uris
  BY <1>1 DEF OwnInv, CurrentInv, TypeInv, GroupsOK
<1>6. CurrentInv'
  BY <1>1, <1>2, <1>4, <1>5 DEF OwnInv, CurrentInv
<1>7. \A a \in Actors : Owns(a) => lease[a][2] # u /\ lease[a][2] \in Uris
  <2>1. \A h \in Handlers : Owns(h) => lease[h][2] # u /\ lease[h][2] \in Uris
    BY <1>3, OwnerFacts, MemberFacts DEF OwnInv, TypeInv, QueuesOK
  <2>2. \A a \in Actors \ Handlers : Owns(a) => HoldsCurrent(a) /\ chg[a] \in Chgs
    BY OwnerFacts DEF Actors, OwnInv, TypeInv, GroupsOK
  <2>3. QED
    BY <1>5, <2>1, <2>2 DEF HoldsCurrent
<1>8. DocumentInv'
  <2>1. \A v \in fresh' \cup admitted' : docChg'[v] = NoChg /\ fetchTime'[v] = 0
    BY <1>1, <1>4 DEF OwnInv, DocumentInv, TypeInv, OthersOK
  <2>2. \A a \in Actors : Rewriting(a) => Owns(a)
    BY DEF Rewriting, Owns
  <2>3. ASSUME NEW m \in members'
        PROVE  \/ docChg'[m[2]] = NoChg
               \/ docChg'[m[2]] = m[1] /\ fetchTime'[m[2]] = m[3]
               \/ \E a \in Actors : Rewriting(a)' /\ lease'[a][2] = m[2]
    <3>1. CASE m \in members
      <4>1. docChg'[m[2]] = docChg[m[2]]
        BY <1>3, <1>4, <3>1, MemberFacts DEF OwnInv, TypeInv, QueuesOK
      <4>2. QED
        BY <1>1, <1>2, <3>1, <4>1 DEF OwnInv, DocumentInv, Rewriting
    <3>2. CASE m = <<c, u, 0>>
      BY <1>1, <1>4, <3>2
    <3>3. QED
      BY <1>1, <3>1, <3>2
  <2>4. QED
    BY <1>1, <1>2, <1>4, <1>7, <2>1, <2>2, <2>3 DEF OwnInv, DocumentInv, Rewriting
<1>9. ASSUME NEW a \in Actors \ Handlers, Owns(a) PROVE HoldsCurrent(a)'
  <2>1. HoldsCurrent(a)
    BY <1>9, OwnerFacts DEF Actors
  <2>2. QED
    BY <1>1, <1>2, <1>7, <1>9, <2>1 DEF HoldsCurrent
<1>10. QED
  BY <1>1, <1>6, <1>8, <1>9, DataMoves

\* Documents that are deleted: those of the set D.
LEMMA OwnForget ==
    ASSUME OwnInv, TypeInv', NEW D,
           docChg' = [u \in Uris |-> IF u \in D THEN NoChg ELSE docChg[u]],
           fetchTime' = [u \in Uris |-> IF u \in D THEN 0 ELSE fetchTime[u]],
           UNCHANGED <<groups, members, fresh, admitted, status, affected, pc, locals>>
    PROVE  OwnInv'
<1>1. UNCHANGED <<cur, chg, lease, tgt, time, old>>
  BY DEF groups, locals, document
<1>2. \A u \in Uris : \/ docChg'[u] = NoChg /\ fetchTime'[u] = 0
                      \/ docChg'[u] = docChg[u] /\ fetchTime'[u] = fetchTime[u]
  OBVIOUS
<1>3. QueuedInv'
  BY QueuedStutter DEF OwnInv
<1>4. CurrentInv'
  BY <1>1, <1>2 DEF OwnInv, CurrentInv, TypeInv, GroupsOK
<1>5. \A a \in Actors : Rewriting(a) => lease[a][2] \in Uris
  BY LeaseFacts DEF Rewriting, Owns
<1>6. DocumentInv'
  <2>1. \A u \in fresh \cup admitted : docChg'[u] = NoChg /\ fetchTime'[u] = 0
    BY <1>2 DEF OwnInv, DocumentInv, TypeInv, OthersOK
  <2>2. \A m \in members : m[2] \in Uris
    BY MemberFacts DEF OwnInv, TypeInv, QueuesOK
  <2>3. QED
    BY <1>1, <1>2, <1>5, <2>1, <2>2 DEF OwnInv, DocumentInv, Rewriting
<1>7. \A a \in Actors \ Handlers : Owns(a) => HoldsCurrent(a)'
  BY <1>1, OwnerFacts, HoldsCurrentKept DEF Actors
<1>8. QED
  BY <1>3, <1>4, <1>6, <1>7, DataMoves

\* The queue workers delete the documents of completed URIs.
LEMMA OwnRemoveFromUriQueue == ASSUME OwnInv, TypeInv', RemoveFromUriQueue PROVE OwnInv'
BY OwnForget DEF RemoveFromUriQueue, others

(***************************************************************************)
(* The owner of a URI writes its document or its queue member              *)
(***************************************************************************)

\* Only the members and the document of the owned URI change, and the groups only by
\* counting; the owner goes on to write the other half, or to release the group.
OwnerWrites(a, there) ==
    /\ Owns(a) /\ Goto(a, there) /\ UNCHANGED locals
    /\ there \in {"update", "move", "release"}
    /\ UNCHANGED <<ready, busy, timeout, cur, st, fresh, admitted, status, affected>>
    /\ UNCHANGED <<wait, counted>> \/ \E D \in SUBSET Chgs : Counting(D)
    /\ \A m \in Members : m[2] # lease[a][2] => (m \in members' <=> m \in members)
    /\ \A v \in Uris \ {lease[a][2]} : docChg'[v] = docChg[v] /\ fetchTime'[v] = fetchTime[v]

\* The document is written first, and the member is still to follow.
HalfWritten(a, there) ==
    /\ pc[a] = "finish" /\ UNCHANGED members
    /\ docChg'[lease[a][2]] = tgt[a]
    /\ fetchTime'[lease[a][2]] = time[a]
    /\ there = "update" => tgt[a] = chg[a]
    /\ out[a] # "SAME"

\* Steps by which the owner of a URI writes its document or its member: no other actor can
\* tell, for nobody else owns that URI.
LEMMA OwnOwnerWrites ==
    ASSUME OwnInv, TypeInv', QueuedInv', NEW a \in Actors, NEW there, OwnerWrites(a, there),
           there # "release" => HalfWritten(a, there),
           there = "release" => \A m \in members' : m[2] = lease[a][2] =>
               docChg'[m[2]] = NoChg \/ (docChg'[m[2]] = m[1] /\ fetchTime'[m[2]] = m[3]),
           a \in Handlers => pc[a] # "granting",
           a \notin Handlers => /\ there # "move"
                                /\ docChg'[lease[a][2]] \in {chg[a], NoChg}
                                /\ \A m \in members' : m[2] = lease[a][2] => m[1] = chg[a]
    PROVE  OwnInv'
<1> DEFINE u == lease[a][2]
<1>1. /\ Owns(a) /\ there \in {"update", "move", "release"}
      /\ UNCHANGED <<ready, busy, timeout, cur, st, fresh, admitted, status, affected>>
      /\ UNCHANGED <<chg, tok, lease, tgt, time, old, out, late>>
      /\ \A m \in Members : m[2] # u => (m \in members' <=> m \in members)
      /\ \A v \in Uris \ {u} : docChg'[v] = docChg[v] /\ fetchTime'[v] = fetchTime[v]
  BY DEF OwnerWrites, locals, document
<1>2. pc'[a] = there /\ \A b \in Actors \ {a} : pc'[b] = pc[b]
  BY DEF OwnerWrites, Goto, OwnInv, TypeInv, LocalInv, LocalsOK
<1>3. u \in Uris /\ chg[a] \in Chgs /\ lease[a][1] = chg[a]
  BY <1>1, LeaseFacts
<1>4. \A b \in Actors \ {a} : Owns(b) => lease[b][2] # u
  BY <1>1, OwnersApart DEF ExclusiveOwnership
<1>5. \A d \in Chgs : cur[d] = u => d = chg[a]
  BY <1>1, <1>3, OwnerOfCurrent, NullsAssumption
<1>6. a \in Handlers => cur[chg[a]] = NoUri
  BY <1>1, <1>3, OwnerFacts DEF OwnInv, ThreadsInv, HandlerInv, GroupsInv
<1>7. \A m \in members \cup members' : m \in Members /\ m[2] \in Uris
  BY MemberFacts DEF OwnInv, TypeInv, QueuesOK
<1>8. CurrentInv'
  <2>1. ASSUME NEW d \in Chgs, cur[d] # NoUri
        PROVE  /\ docChg'[cur[d]] \in {d, NoChg}
               /\ \A m \in members' : m[2] = cur[d] => m[1] = d
    <3>1. CASE cur[d] = u
      BY <1>3, <1>5, <1>6, <2>1, <3>1
    <3>2. CASE cur[d] # u
      BY <1>1, <1>7, <2>1, <3>2 DEF OwnInv, CurrentInv, TypeInv, GroupsOK
    <3>3. QED
      BY <3>1, <3>2
  <2>2. QED
    BY <1>1, <2>1 DEF OwnInv, CurrentInv
<1>9. DocumentInv'
  <2>1. \A v \in fresh \cup admitted : v # u /\ v \in Uris
    <3>1. CASE a \in Handlers
      BY <1>1, <3>1, OwnerFacts DEF OwnInv, QueuedInv, NotYetQueued, TypeInv, OthersOK
    <3>2. CASE a \notin Handlers
      BY <1>1, <1>3, <3>2, OwnerFacts DEF Actors, HoldsCurrent, OwnInv, CurrentInv, TypeInv, OthersOK
    <3>3. QED
      BY <3>1, <3>2
  <2>2. \A b \in Actors \ {a} : Rewriting(b)' <=> Rewriting(b)
    BY <1>2 DEF Rewriting
  <2>3. Rewriting(a)' <=> there # "release"
    BY <1>1, <1>2 DEF Rewriting
  <2>4. ASSUME NEW m \in members'
        PROVE  \/ docChg'[m[2]] = NoChg
               \/ docChg'[m[2]] = m[1] /\ fetchTime'[m[2]] = m[3]
               \/ \E b \in Actors : Rewriting(b)' /\ lease'[b][2] = m[2]
    <3>1. CASE m[2] = u
      BY <1>1, <2>3, <3>1
    <3>2. CASE m[2] # u
      <4>1. m \in members /\ docChg'[m[2]] = docChg[m[2]] /\ fetchTime'[m[2]] = fetchTime[m[2]]
        BY <1>1, <1>7, <3>2
      <4>2. \/ docChg[m[2]] = NoChg
            \/ docChg[m[2]] = m[1] /\ fetchTime[m[2]] = m[3]
            \/ \E b \in Actors \ {a} : Rewriting(b) /\ lease[b][2] = m[2]
        BY <3>2, <4>1 DEF OwnInv, DocumentInv
      <4>3. QED
        BY <1>1, <2>2, <4>1, <4>2
    <3>3. QED
      BY <3>1, <3>2
  <2>5. ASSUME NEW b \in Actors, Rewriting(b)', docChg'[lease'[b][2]] # NoChg
        PROVE  /\ docChg'[lease'[b][2]] = tgt'[b]
               /\ fetchTime'[lease'[b][2]] = time'[b]
    <3>1. CASE b = a
      BY <1>1, <1>2, <2>3, <2>5, <3>1 DEF HalfWritten
    <3>2. CASE b # a
      <4>1. Rewriting(b) /\ Owns(b)
        BY <2>2, <2>5, <3>2 DEF Rewriting, Owns
      <4>2. lease[b][2] \in Uris \ {u}
        BY <1>4, <3>2, <4>1, LeaseFacts
      <4>3. QED
        BY <1>1, <1>2, <2>5, <3>2, <4>1, <4>2 DEF OwnInv, DocumentInv
    <3>3. QED
      BY <3>1, <3>2
  <2>6. QED
    BY <1>1, <2>1, <2>4, <2>5 DEF OwnInv, DocumentInv
<1>10. \A t \in Tokens : pc'[t] = "unused" => pc[t] = "unused"
  BY <1>1, <1>2, TokenFacts
<1>11. /\ counted \subseteq counted'
       /\ Placed \subseteq Placed' /\ Placed' \cap counted \subseteq Placed
       /\ Placed' \subseteq counted'
       /\ wait \subseteq wait' /\ \A c \in wait' \ wait : c \notin Placed /\ st[c] = NoToken
  <2>1. CASE UNCHANGED <<wait, counted>>
    BY <1>1, <2>1 DEF Placed, Elems, OwnInv, GroupsInv
  <2>2. CASE \E D \in SUBSET Chgs : Counting(D)
    BY <2>2, CountsFacts DEF Counting
  <2>3. QED
    BY <2>1, <2>2 DEF OwnerWrites
<1>12. GroupsInv'
  <2>1. \A d \in Chgs : st[d] # NoToken => st[d] \in Tokens /\ pc[st[d]] # "unused"
    BY DEF OwnInv, GroupsInv, TypeInv, GroupsOK
  <2>2. \A d \in Chgs : st'[d] # NoToken => pc'[st'[d]] # "unused"
    BY <1>1, <1>10, <2>1
  <2>3. /\ Elems(ready)' = Elems(ready) /\ Elems(timeout)' = Elems(timeout)
        /\ Distinct(ready)' /\ Distinct(timeout)'
    BY <1>1 DEF OwnInv, GroupsInv, Distinct, Elems
  <2>4. QED
    BY <1>1, <1>11, <2>2, <2>3 DEF OwnInv, GroupsInv, Placed
<1>13. NothingAborted' /\ HandlersApart'
  <2>1. a \in Handlers => pc[a] # "idle"
    BY <1>1 DEF Owns
  <2>2. QED
    BY <1>1, <1>2, <2>1, HandlerFacts DEF OwnInv, NothingAborted, ThreadsInv, HandlersApart
<1>14. ASSUME NEW h \in Handlers PROVE HandlerInv(h)'
  <2>1. pc[h] = "granting" => pc'[tok[h]] = pc[tok[h]]
    BY <1>1, <1>2, HandlerFacts, TokenFacts
       DEF Owns, OwnInv, ThreadsInv, HandlerInv, TypeInv, LocalInv, LocalsOK
  <2>2. CASE h = a
    <3>1. /\ chg[a] \in busy /\ st[chg[a]] = tok[a] /\ lease[a] \in members /\ pc[a] # "granting"
          /\ HandlerInv(a)
      BY <1>1, <2>2, OwnerFacts DEF OwnInv, ThreadsInv
    <3>2. there # "release" => old[a] = lease[a][3] /\ lease[a] \in members'
      BY <3>1 DEF HalfWritten, HandlerInv
    <3>3. there = "update" => tgt[a] = chg[a]
      BY <1>1 DEF HalfWritten
    <3>4. Owns(a)' => there # "release"
      BY <1>2 DEF Owns
    <3>5. QED
      BY <1>1, <1>2, <1>3, <2>2, <3>1, <3>2, <3>3, <3>4 DEF HandlerInv, HandlerWork
  <2>3. CASE h # a
    <3>1. pc'[h] = pc[h] /\ (Owns(h)' <=> Owns(h))
      BY <1>2, <2>3, HandlerFacts DEF Owns
    <3>2. Owns(h) => lease[h] \in members'
      BY <1>1, <1>4, <1>7, <2>3, OwnerFacts, HandlerFacts
    <3>3. QED
      BY <1>1, <1>11, <2>1, <2>3, <3>1, <3>2 DEF OwnInv, ThreadsInv, HandlerInv
  <2>4. QED
    BY <2>2, <2>3
<1>15. ASSUME NEW b \in Actors \ Handlers, Owns(b)' PROVE HoldsCurrent(b)'
  <2>1. CASE b = a
    <3>1. there # "release" /\ UNCHANGED members
      BY <1>2, <1>15, <2>1 DEF Owns, HalfWritten
    <3>2. HoldsCurrent(a)
      BY <1>1, <2>1, OwnerFacts DEF Actors
    <3>3. QED
      BY <1>1, <2>1, <3>1, <3>2, HoldsCurrentKept
  <2>2. CASE b # a
    <3>1. Owns(b) /\ HoldsCurrent(b)
      BY <1>2, <1>15, <2>2, OwnerFacts DEF Owns, Actors
    <3>2. lease[b][2] # u
      BY <1>4, <2>2, <3>1
    <3>3. QED
      BY <1>1, <1>7, <3>1, <3>2 DEF HoldsCurrent
  <2>3. QED
    BY <2>1, <2>2
<1>16. ASSUME NEW t \in Tokens PROVE SessionInv(t)'
  <2>1. t = a => pc[t] \in SessionWork /\ pc'[t] \in SessionWork
    BY <1>1, <1>2, TokenFacts DEF OwnInv, ThreadsInv, SessionInv, SessionPc, SessionWork, Owns
  <2>2. t # a => pc'[t] = pc[t]
    BY <1>2, TokenFacts
  <2>3. t = a /\ t \in late => "streamError" \in Faults \/ pc'[t] = "release"
    BY <1>1, <1>2, TokenFacts DEF OwnInv, ThreadsInv, SessionInv, HalfWritten, Owns
  <2>4. QED
    BY <1>1, <1>15, <2>1, <2>2, <2>3, TokenFacts DEF OwnInv, ThreadsInv, SessionInv
<1>17. WorkerInv'
  <2>1. Worker = a => pc[Worker] \in WorkerWork /\ pc'[Worker] \in WorkerWork
    BY <1>1, <1>2, WorkerFacts DEF OwnInv, ThreadsInv, WorkerInv, WorkerPc, WorkerWork, Owns
  <2>2. Worker # a => pc'[Worker] = pc[Worker]
    BY <1>2, WorkerFacts
  <2>3. QED
    BY <1>1, <1>11, <1>15, <2>1, <2>2, WorkerFacts DEF OwnInv, ThreadsInv, WorkerInv, WorkerWork
<1>18. QED
  BY <1>8, <1>9, <1>12, <1>13, <1>14, <1>16, <1>17 DEF OwnInv, ThreadsInv

\* All members of an owned URI are the one the lease names.
LEMMA MembersOfLease ==
    ASSUME OwnInv, NEW a \in Actors, Owns(a), NEW m \in members, m[2] = lease[a][2]
    PROVE  m = lease[a]
BY OwnerFacts DEF Actors, HoldsCurrent, OwnInv, QueuedInv, UriQueuedOnce

\* What the owner knows when it finalizes: the lease is what it would write to the queue.
LEMMA FinishFacts ==
    ASSUME OwnInv, NEW a \in Actors, pc[a] \in {"finish", "update"}
    PROVE  /\ old[a] = lease[a][3]
           /\ pc[a] = "update" \/ out[a] # "MOVE" => tgt[a] = chg[a]
           /\ a \notin Handlers => out[a] # "MOVE" /\ docChg[lease[a][2]] \in {chg[a], NoChg}
<1>1. CASE a \in Handlers
  BY <1>1 DEF OwnInv, ThreadsInv, HandlerInv
<1>2. CASE a \notin Handlers
  <2>1. HoldsCurrent(a) /\ chg[a] \in Chgs /\ out[a] # "MOVE"
    BY <1>2, OwnerFacts, LeaseFacts DEF Owns, Actors, OwnInv, ThreadsInv, SessionInv, WorkerInv
  <2>2. QED
    BY <1>2, <2>1 DEF HoldsCurrent, OwnInv, CurrentInv
<1>3. QED
  BY <1>1, <1>2

\* The member of an owned URI is removed, and the group is released next.
LEMMA OwnRemove ==
    ASSUME OwnInv, TypeInv', QueuedInv', NEW a \in Actors, NEW d, Owns(a), UriRemove(lease[a], d),
           Goto(a, "release"), UNCHANGED <<docs, fresh, admitted, status, affected, locals>>,
           a \in Handlers => pc[a] # "granting",
           a \notin Handlers => docChg[lease[a][2]] \in {chg[a], NoChg}
    PROVE  OwnInv'
<1> DEFINE u == lease[a][2]
<1>1. \A m \in members' : m[2] # u
  <2>1. members' \subseteq members /\ lease[a] \notin members'
    BY DEF UriRemove, queues
  <2>2. QED
    BY <2>1, MembersOfLease
<1>2. UNCHANGED <<wait, ready, busy, timeout, cur, st, counted>>
  <2>1. counted \cup {lease[a][1]} = counted
    BY LeaseFacts
  <2>2. QED
    BY <2>1 DEF UriRemove, groups
<1>3. \A m \in Members : m[2] # u => (m \in members' <=> m \in members)
  BY DEF UriRemove, queues
<1>4. UNCHANGED <<docChg, fetchTime>>
  BY DEF docs
<1>5. OwnerWrites(a, "release")
  BY <1>2, <1>3, <1>4 DEF OwnerWrites
<1>6. QED
  BY <1>1, <1>4, <1>5, OwnOwnerWrites

\* A member without a document is removed.
LEMMA OwnRemoveOrphan ==
    ASSUME OwnInv, TypeInv', QueuedInv', NEW h \in Handlers, RemoveOrphan(h)
    PROVE  OwnInv'
<1>1. Owns(h) /\ pc[h] # "granting"
  BY DEF RemoveOrphan, Owns
<1>2. QED
  BY <1>1, OwnRemove, HandlerFacts DEF RemoveOrphan, others

\* The lease is completed: its member is removed.
LEMMA OwnCompleteLease ==
    ASSUME Faults \subseteq Survived, OwnInv, TypeInv', QueuedInv', NEW a \in Actors, CompleteLease(a)
    PROVE  OwnInv'
<1>1. Owns(a) /\ pc[a] = "finish"
  BY DEF CompleteLease, Owns
<1>2. UNCHANGED status
  <2>1. ("terminal" \in Faults) = FALSE
    BY DEF Survived
  <2>2. \E seedFailed \in {FALSE} :
            status' = IF seedFailed THEN [status EXCEPT ![Execution[lease[a][2]]] = "ended"] ELSE status
    BY <2>1 DEF CompleteLease
  <2>3. QED
    BY <2>2
<1>3. a \notin Handlers => docChg[lease[a][2]] \in {chg[a], NoChg}
  BY <1>1, FinishFacts
<1>4. QED
  BY <1>1, <1>2, <1>3, OwnRemove DEF CompleteLease

\* The document is saved, and disagrees with the member until that is rewritten.
LEMMA OwnSave == ASSUME OwnInv, TypeInv', QueuedInv', NEW a \in Actors, Save(a) PROVE OwnInv'
<1> DEFINE u == lease[a][2]
           there == AfterSave(out[a])
<1>1. /\ pc[a] = "finish" /\ out[a] \in {"RETRY", "SAME", "MOVE"}
      /\ docChg' = [docChg EXCEPT ![u] = tgt[a]] /\ fetchTime' = [fetchTime EXCEPT ![u] = time[a]]
      /\ Goto(a, there) /\ UNCHANGED <<groups, queues, others, locals>>
  BY DEF Save
<1>2. Owns(a) /\ u \in Uris /\ lease[a][1] = chg[a]
  BY <1>1, LeaseFacts DEF Owns
<1>3. /\ docChg'[u] = tgt[a] /\ fetchTime'[u] = time[a]
      /\ \A w \in Uris \ {u} : docChg'[w] = docChg[w] /\ fetchTime'[w] = fetchTime[w]
  BY <1>1, <1>2 DEF OwnInv, TypeInv, DocsOK
<1>4. /\ UNCHANGED <<wait, ready, busy, timeout, counted, cur, st, fresh, admitted, status, affected>>
      /\ UNCHANGED members
  BY <1>1 DEF groups, queues, others
<1>5. there \in {"update", "move", "release"}
  BY DEF AfterSave
<1>6. OwnerWrites(a, there)
  BY <1>1, <1>2, <1>3, <1>4, <1>5 DEF OwnerWrites
<1>7. ASSUME there # "release" PROVE HalfWritten(a, there)
  BY <1>1, <1>3, <1>4, <1>7, FinishFacts DEF HalfWritten, AfterSave
<1>8. ASSUME there = "release", NEW m \in members', m[2] = u
      PROVE  docChg'[m[2]] = m[1] /\ fetchTime'[m[2]] = m[3]
  <2>1. m = lease[a]
    BY <1>2, <1>4, <1>8, MembersOfLease
  <2>2. out[a] = "SAME" /\ time[a] = old[a]
    BY <1>1, <1>8 DEF AfterSave, OwnInv, TypeInv, LocalInv, LocalFacts
  <2>3. QED
    BY <1>1, <1>2, <1>3, <2>1, <2>2, FinishFacts
<1>9. ASSUME a \notin Handlers
      PROVE  /\ there # "move" /\ docChg'[u] \in {chg[a], NoChg}
             /\ \A m \in members' : m[2] = u => m[1] = chg[a]
  BY <1>1, <1>2, <1>3, <1>4, <1>9, FinishFacts, MembersOfLease DEF AfterSave
<1>10. QED
  BY <1>1, <1>6, <1>7, <1>8, <1>9, OwnOwnerWrites

\* uri_update rewrites the member, which then agrees with the document.
LEMMA OwnUriUpdate == ASSUME OwnInv, TypeInv', QueuedInv', NEW a \in Actors, UriUpdate(a) PROVE OwnInv'
<1> DEFINE u == lease[a][2]
           new == <<tgt[a], u, time[a]>>
<1>1. /\ pc[a] = "update" /\ Goto(a, "release") /\ UNCHANGED <<groups, docs, others, locals>>
  BY DEF UriUpdate
<1>2. Owns(a) /\ u \in Uris /\ lease[a][1] = chg[a]
  BY <1>1, LeaseFacts DEF Owns
<1>3. tgt[a] = chg[a] /\ old[a] = lease[a][3]
  BY <1>1, FinishFacts
<1>4. ASSUME NEW m \in members, m[2] = u PROVE m = <<tgt[a], u, old[a]>>
  <2>1. m = lease[a] /\ m = <<m[1], m[2], m[3]>>
    BY <1>2, <1>4, MembersOfLease DEF OwnInv, TypeInv, QueuesOK, Members
  <2>2. QED
    BY <1>2, <1>3, <2>1
<1>5. /\ \A m \in members' : m[2] = u => m = new
      /\ \A m \in Members : m[2] # u => (m \in members' <=> m \in members)
  BY <1>4 DEF UriUpdate
<1>6. /\ UNCHANGED <<wait, ready, busy, timeout, counted, cur, st>>
      /\ UNCHANGED <<fresh, admitted, status, affected, docChg, fetchTime>>
  BY <1>1 DEF groups, docs, others
<1>7. OwnerWrites(a, "release")
  BY <1>1, <1>2, <1>5, <1>6 DEF OwnerWrites
<1>8. docChg[u] # NoChg => docChg[u] = tgt[a] /\ fetchTime[u] = time[a]
  BY <1>1 DEF OwnInv, DocumentInv, Rewriting
<1>9. a \notin Handlers => docChg[u] \in {chg[a], NoChg}
  BY <1>1, FinishFacts
<1>10. QED
  BY <1>1, <1>3, <1>5, <1>6, <1>7, <1>8, <1>9, OwnOwnerWrites

\* uri_move takes the member to the group that the document names.
LEMMA OwnMoveLease == ASSUME OwnInv, TypeInv', QueuedInv', NEW a \in Actors, MoveLease(a) PROVE OwnInv'
<1> DEFINE m == lease[a]
           u == m[2]
           new == <<tgt[a], u, time[a]>>
<1>1. /\ pc[a] = "move" /\ Goto(a, "release") /\ UNCHANGED <<docs, others, locals>>
      /\ UriMove(m, tgt[a], time[a])
  BY DEF MoveLease
<1>2. a \in Handlers
  BY <1>1 DEF Actors, OwnInv, ThreadsInv, SessionInv, WorkerInv, SessionPc, SessionWork,
              WorkerPc, WorkerWork
<1>3. Owns(a) /\ u \in Uris /\ m \in members /\ m[1] = chg[a] /\ m[1] \in Chgs
  BY <1>1, <1>2, LeaseFacts, OwnerFacts DEF Owns
<1>4. tgt[a] \in Chgs /\ time[a] = m[3]
  BY <1>1, <1>2 DEF OwnInv, ThreadsInv, HandlerInv, TypeInv, LocalInv, LocalsOK, LocalFacts
<1>5. docChg[u] # NoChg => docChg[u] = tgt[a] /\ fetchTime[u] = time[a]
  BY <1>1 DEF OwnInv, DocumentInv, Rewriting
<1>6. UNCHANGED <<docChg, fetchTime, fresh, admitted, status, affected>>
  BY <1>1 DEF docs, others
<1>7. CASE tgt[a] = m[1]
  <2>1. UNCHANGED <<wait, ready, busy, timeout, counted, cur, st, members>>
    BY <1>1, <1>7 DEF UriMove, groups, queues
  <2>2. OwnerWrites(a, "release")
    BY <1>1, <1>3, <1>6, <2>1 DEF OwnerWrites
  <2>3. \A n \in members' : n[2] = u => n = m
    BY <1>3, <2>1, MembersOfLease
  <2>4. QED
    BY <1>1, <1>2, <1>4, <1>5, <1>6, <1>7, <2>2, <2>3, OwnOwnerWrites
<1>8. CASE tgt[a] # m[1]
  <2>1. new \notin members
    BY <1>3, <1>8, MembersOfLease
  <2>2. /\ members' = (members \ {m}) \cup {new}
        /\ counted' = counted \cup {m[1], tgt[a]}
        /\ wait' = IF HashExists(tgt[a]) THEN wait ELSE wait \cup {tgt[a]}
        /\ UNCHANGED <<ready, busy, timeout, cur, st>>
    BY <1>1, <1>3, <1>8, <2>1 DEF UriMove
  <2>3. Counting({m[1], tgt[a]}) /\ {m[1], tgt[a]} \in SUBSET Chgs
    BY <1>3, <1>4, <2>2 DEF Counting
  <2>4. OwnerWrites(a, "release")
    BY <1>1, <1>3, <1>6, <2>2, <2>3 DEF OwnerWrites
  <2>5. \A n \in members' : n[2] = u => n = new
    BY <1>3, <2>2, MembersOfLease
  <2>6. QED
    BY <1>1, <1>2, <1>5, <1>6, <2>4, <2>5, OwnOwnerWrites
<1>9. QED
  BY <1>7, <1>8

(***************************************************************************)
(* Every step                                                              *)
(***************************************************************************)

\* Every step keeps the invariant, as long as only the faults of Survived happen.
LEMMA OwnStep ==
    ASSUME Faults \subseteq Survived PROVE OwnInv /\ [Next]_vars => OwnInv'
<1> SUFFICES ASSUME OwnInv, [Next]_vars PROVE OwnInv'
  OBVIOUS
<1>1. TypeInv' /\ QueuedInv'
  BY TypeStep, QueuedStep DEF OwnInv
<1>2. ASSUME NEW u \in Uris, EnsureExecutionActive(u) PROVE OwnInv'
  BY <1>1, <1>2, OwnEnsureActive
<1>3. ASSUME NEW u \in Uris, NEW c \in Chgs, UriAdd(u, c) \/ ChgAdd(u, c) PROVE OwnInv'
  BY <1>1, <1>3, OwnUriAdd, OwnChgAdd
<1>4. ASSUME QueueWorkers PROVE OwnInv'
  BY <1>1, <1>4, OwnMoveWaitToReady, OwnMoveBusyToTimeout, OwnRemoveFromUriQueue DEF QueueWorkers
<1>5. ASSUME NEW h \in Handlers, Prefetch(h) PROVE OwnInv'
  <2>1. CASE BlPop(h) \/ ChgNext(h) \/ NextUri(h) \/ RemoveOrphan(h)
    BY <1>1, <2>1, OwnBlPop, OwnChgNext, OwnNextUri, OwnRemoveOrphan
  <2>2. CASE NextUriNone(h) \/ Expire(h)
    BY <1>1, <2>2, OwnToRelease DEF NextUriNone, Expire, DataKept, others
  <2>3. CASE NextUriFails(h) \/ PreFetchFails(h) \/ ClaimFails(h)
    BY <1>1, <2>3, OwnGiveUp DEF NextUriFails, PreFetchFails, ClaimFails, Rewriting
  <2>4. CASE RepairMove(h) \/ RepairRelease(h)
    BY <2>4 DEF RepairMove, RepairRelease, OwnInv, ThreadsInv, HandlerInv, HandlerWork
  <2>5. CASE PreFetch(h) \/ Claim(h) \/ Grant(h) \/ \E t \in Tokens : SetSession(h, t)
    BY <1>1, <2>5, OwnPreFetch, OwnClaim, OwnGrant, OwnSetSession
  <2>6. QED
    BY <1>5, <2>1, <2>2, <2>3, <2>4, <2>5 DEF Prefetch
<1>6. ASSUME NEW t \in Tokens, PageCompleted(t) PROVE OwnInv'
  <2>1. CASE RefreshFails(t) \/ OnCancelled(t)
    BY <1>1, <2>1, OwnSessionGiveUp DEF RefreshFails, OnCancelled, GiveUp, Rewriting, DataKept, others
  <2>2. QED
    BY <1>1, <1>6, <2>1, OwnLookup, OwnRefresh, OwnStreamEnds DEF PageCompleted
<1>7. ASSUME NEW a \in Actors, Finish(a) PROVE OwnInv'
  BY <1>1, <1>7, OwnFinishFails, OwnCompleteLease, OwnSave, OwnUriUpdate, OwnMoveLease, OwnRelease
     DEF Finish
<1>8. ASSUME FetchTimeoutWorker PROVE OwnInv'
  BY <1>1, <1>8, OwnLPopTimeout, OwnTimedOut DEF FetchTimeoutWorker
<1>9. ~Reconcile
  <2>1. \A m \in members : Execution[m[2]] \in Executions
    BY MemberFacts, ExecutionAssumption DEF OwnInv, TypeInv, QueuesOK
  <2>2. QED
    BY <2>1 DEF Reconcile, Abort, Terminate, EndAborted, DeleteQueuedUri, CleanupIfEmpty, Survived,
                OwnInv, NothingAborted
<1>10. ~Crash
  BY DEF Crash, Survived
<1>11. ASSUME NEW u \in Uris PROVE ~(Flush(u) \/ LoseWrite(u))
  BY DEF Flush, LoseWrite, Survived
<1>12. CASE UNCHANGED vars
  <2>1. \A a \in Actors \ Handlers : Owns(a) => HoldsCurrent(a)'
    BY <1>12, OwnerFacts, HoldsCurrentKept DEF Actors, vars, groups, queues, locals, document
  <2>2. CurrentInv'
    BY <1>12, CurrentKept DEF vars, groups, queues, docs, others
  <2>3. DocumentInv'
    BY <1>12 DEF vars, queues, docs, others, locals, document, OwnInv, DocumentInv, Rewriting
  <2>4. QED
    BY <1>1, <1>12, <2>1, <2>2, <2>3, DataMoves DEF vars, others, queues
<1>13. QED
  BY <1>2, <1>3, <1>4, <1>5, <1>6, <1>7, <1>8, <1>9, <1>10, <1>11, <1>12 DEF Next

(***************************************************************************)
(* The theorems                                                            *)
(***************************************************************************)

\* The invariant holds in every state that database errors and broken streams can lead to.
THEOREM OwnInvHolds ==
    ASSUME Faults \subseteq Survived PROVE Spec => []OwnInv
<1>1. OwnInv /\ [Next]_vars => OwnInv'
  BY OwnStep
<1>2. QED
  BY <1>1, OwnInit, PTL DEF Spec

\* "The Redis queue lease gives one worker exclusive ownership of this URI": of the prefetch
\* threads, the completion streams and the timeout worker, at most one is at work on a URI,
\* so that updateQueuedUri may replace its whole document.
THEOREM OwnershipIsExclusive ==
    ASSUME Faults \subseteq Survived PROVE Spec => []ExclusiveOwnership
BY OwnInvHolds, OwnersApart, PTL

\* A completion stream that updateBusyTimeout has let in keeps the group, busy under its own
\* token, until it releases it.
THEOREM SessionsHoldTheirGroup ==
    ASSUME Faults \subseteq Survived PROVE Spec => []SessionHoldsGroup
BY OwnInvHolds, SessionsHold, PTL

\* The Lua scripts, the queue workers and the threads that pop groups keep every group in one
\* place: in one of the four queues, once, or with the one thread that popped it.
THEOREM GroupsHaveOnePlace ==
    ASSUME Faults \subseteq Survived PROVE Spec => []GroupInOnePlace
BY OwnInvHolds, OnePlace, PTL
=============================================================================
