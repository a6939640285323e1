----------------------- MODULE CrawlHostGroupsQueues -----------------------
(***************************************************************************)
(* What is queued: the theorems of CrawlHostGroups about the queues of     *)
(* URIs, for every number of groups, URIs, executions, sessions and        *)
(* threads.  The queue counts are right, what is completed or moved is in  *)
(* the queue, and no group with queued URIs is forgotten.                  *)
(*                                                                         *)
(* Each theorem names the faults it allows.  Others break what it says: a  *)
(* crash loses a chg_add, a broken stream completes a URI and fails to     *)
(* release its group, a lost write leaves a lease that no member has, and  *)
(* a failing database makes the timeout worker drop a group.               *)
(***************************************************************************)
EXTENDS CrawlHostGroupsProofs

(***************************************************************************)
(* The invariants                                                          *)
(***************************************************************************)

\* The current URI of the group is still queued.
CurQueued(c) == \E m \in members : m[2] = cur[c]

\* The prefetch thread has taken a group, and none of the group's URIs out of the queue.
HasGroup(h) == pc[h] \in {"popped", "selecting"} \/ Owns(h)

\* A group is in wait or ready, or taken by a prefetch thread, because URIs are counted
\* for it; and no one but the holder of a group takes URIs out of its queue.
PositiveInv ==
    /\ \A c \in Chgs : qc[c] >= 0
    /\ \A c \in wait \cup Elems(ready) : qc[c] > 0
    /\ \A h \in Handlers : HasGroup(h) => qc[chg[h]] > 0
    /\ \A c \in Chgs : cur[c] # NoUri /\ CurQueued(c) => qc[c] > 0

\* A URI is added once, so every chg_add that is to come belongs to another uri_add.
MatchInv ==
    /\ IsFiniteSet(members) /\ IsFiniteSet(adding)
    /\ \A x \in adding : x[1] \notin fresh \cup admitted
    /\ CountMatchesQueue

\* The actor is about to release its group.  The stream whose error could not be recorded claims
\* that it is late: its release is refused.
Pending(a) == pc[a] = "release" /\ (a \in Tokens => a \notin late)

\* The current URI of a group is queued until the actor that completes it goes to release
\* the group.
QueuedCurrent ==
    \A c \in Chgs :
        cur[c] # NoUri => CurQueued(c) \/ \E a \in Actors \ Handlers : Pending(a) /\ chg[a] = c

Held(c) ==
    \/ c \in wait \cup busy \cup Elems(ready) \cup Elems(timeout)
    \/ \E h \in Handlers : pc[h] = "popped" /\ chg[h] = c
    \/ chg[Worker] = c

\* A group that has a hash is held, and a count is the field of a hash.
HeldInv ==
    /\ \A c \in Chgs : HashExists(c) => Held(c)
    /\ \A c \in Chgs : qc[c] # 0 => c \in counted

\* A queued URI has a document, which is not about to be deleted.
DocumentedInv ==
    /\ \A m \in members : docChg[m[2]] # NoChg /\ m[2] \notin remuri
    /\ remuri \cap (fresh \cup admitted) = {}

(***************************************************************************)
(* Steps that take no group, no URI and no count from where it is          *)
(***************************************************************************)

Quiet ==
    /\ UNCHANGED <<wait, ready, busy, timeout, counted, qc, cur, st, members, adding>>
    /\ (fresh \cup admitted)' \subseteq fresh \cup admitted
    /\ \A h \in Handlers : HasGroup(h)' => HasGroup(h) /\ chg'[h] = chg[h]
    /\ \A h \in Handlers : pc[h] = "popped" => pc'[h] = "popped" /\ chg'[h] = chg[h]
    /\ \A a \in Actors : pc[a] = "release" => pc'[a] = "release" /\ chg'[a] = chg[a]
                                                 /\ (a \in late' <=> a \in late)
    /\ chg'[Worker] = chg[Worker] \/ ProcessTimedOutChgFails

\* Steps of one actor that is neither about to make a group busy nor to release one.
LEMMA QuietActor ==
    ASSUME NEW a \in Actors, AloneMoves(a), pc[a] \notin {"popped", "release"},
           UNCHANGED <<wait, ready, busy, timeout, counted, qc, cur, st, members, adding, fresh,
                       admitted>>,
           a \in Handlers => (HasGroup(a)' => HasGroup(a) /\ chg'[a] = chg[a]),
           a = Worker => chg'[Worker] = chg[Worker]
    PROVE  Quiet
<1>1. \A b \in Actors \ {a} : pc'[b] = pc[b] /\ chg'[b] = chg[b] /\ (b \in late' <=> b \in late)
  BY DEF AloneMoves
<1>2. \A h \in Handlers : HasGroup(h)' => HasGroup(h) /\ chg'[h] = chg[h]
  BY <1>1, HandlerFacts DEF HasGroup, Owns
<1>3. QED
  BY <1>1, <1>2, HandlerFacts, WorkerFacts DEF Quiet

\* A thread that gives up.
LEMMA QuietGiveUp ==
    ASSUME OwnInv, NEW a \in Actors \ {Worker}, GiveUp(a), pc[a] \notin {"popped", "release"}
    PROVE  Quiet
<1>1. AloneMoves(a) /\ pc'[a] = Resting(a)
  BY RestMoves DEF GiveUp, OwnInv, TypeInv, LocalInv
<1>2. a \in Handlers => ~HasGroup(a)'
  BY <1>1, HandlerFacts DEF Resting, HasGroup, Owns
<1>3. UNCHANGED <<wait, ready, busy, timeout, counted, qc, cur, st, members, adding, fresh, admitted>>
  BY DEF GiveUp, groups, queues, others
<1>4. QED
  BY <1>1, <1>2, <1>3, QuietActor

\* An actor that goes on, with all it holds.
LEMMA QuietGoto ==
    ASSUME OwnInv, NEW a \in Actors, NEW there, Goto(a, there), UNCHANGED locals,
           pc[a] \notin {"popped", "release"}, HasGroup(a),
           UNCHANGED <<wait, ready, busy, timeout, counted, qc, cur, st, members, adding, fresh,
                       admitted>>
    PROVE  Quiet
<1>1. AloneMoves(a) /\ chg'[a] = chg[a]
  BY GotoMoves DEF OwnInv, TypeInv, LocalInv
<1>2. QED
  BY <1>1, QuietActor

\* Between chg_next and the release or the grant, a prefetch thread keeps its group.
LEMMA QuietPrefetch ==
    ASSUME OwnInv, NEW h \in Handlers,
           \/ NextUriNone(h) \/ NextUri(h) \/ NextUriFails(h)
           \/ PreFetchFails(h) \/ PreFetch(h)
           \/ Expire(h) \/ Claim(h) \/ ClaimFails(h)
    PROVE  Quiet
<1>1. h \in Actors /\ h \notin Tokens /\ h # Worker /\ LocalsOK
  BY HandlerFacts DEF OwnInv, TypeInv, LocalInv
<1>2. CASE NextUriFails(h) \/ PreFetchFails(h) \/ ClaimFails(h)
  BY <1>1, <1>2, QuietGiveUp DEF NextUriFails, PreFetchFails, ClaimFails
<1>3. CASE NextUriNone(h) \/ Expire(h) \/ Claim(h)
  <2>1. HasGroup(h) /\ pc[h] \notin {"popped", "release"}
    BY <1>3 DEF NextUriNone, Expire, Claim, HasGroup, Owns
  <2>2. UNCHANGED <<wait, ready, busy, timeout, counted, qc, cur, st, members, adding, fresh,
                    admitted>>
    BY <1>3 DEF NextUriNone, Expire, Claim, groups, queues, others
  <2>3. QED
    BY <1>1, <1>3, <2>1, <2>2, QuietGoto DEF NextUriNone, Expire, Claim
<1>4. CASE NextUri(h)
  <2>1. /\ pc[h] = "selecting" /\ UNCHANGED <<chg, tok, out, late>>
        /\ \E x : lease' = [lease EXCEPT ![h] = x]
        /\ \E x : tgt' = [tgt EXCEPT ![h] = x]
        /\ \E x : time' = [time EXCEPT ![h] = x]
        /\ \E x : old' = [old EXCEPT ![h] = x]
        /\ \E x : pc' = [pc EXCEPT ![h] = x]
        /\ UNCHANGED <<wait, ready, busy, timeout, counted, qc, cur, st, members, adding, fresh,
                       admitted>>
    BY <1>4 DEF NextUri, ReadDocument, Goto, groups, queues, others
  <2>2. AloneMoves(h) /\ chg'[h] = chg[h]
    BY <1>1, <2>1 DEF AloneMoves, LocalsOK
  <2>3. QED
    BY <1>1, <2>1, <2>2, QuietActor DEF HasGroup
<1>5. CASE PreFetch(h)
  <2>1. /\ pc[h] = "prefetch" /\ docChg[lease[h][2]] # NoChg
        /\ chg' = [chg EXCEPT ![h] = docChg[lease[h][2]]]
        /\ UNCHANGED <<tok, lease, late>>
        /\ old' = [old EXCEPT ![h] = fetchTime[lease[h][2]]]
        /\ UNCHANGED <<wait, ready, busy, timeout, counted, qc, cur, st, members, adding, fresh,
                       admitted>>
    BY <1>5 DEF PreFetch, groups, queues
  <2>2. \/ (\E effect : Conclude(h, effect)) /\ \E x : tgt' = [tgt EXCEPT ![h] = x]
        \/ Goto(h, "buffered") /\ ReadDocument(h, lease[h][2]) /\ UNCHANGED out
    BY <1>5 DEF PreFetch, Preclude, ResolveDns
  <2>3. AloneMoves(h)
    BY <1>1, <2>1, <2>2 DEF Conclude, ReadDocument, Goto, AloneMoves, LocalsOK
  <2>4. lease[h] \in members /\ lease[h][1] = chg[h]
    BY <2>1, OwnerFacts DEF Owns
  <2>5. docChg[lease[h][2]] = chg[h]
    BY <2>1, <2>4, DocumentForHandler DEF HandlerWork
  <2>6. chg'[h] = chg[h] /\ HasGroup(h)
    BY <1>1, <2>1, <2>5 DEF LocalsOK, HasGroup, Owns
  <2>7. QED
    BY <1>1, <2>1, <2>3, <2>6, QuietActor
<1>6. QED
  BY <1>2, <1>3, <1>4, <1>5

\* PageHarvestSession leaves the thread that offered the URI: the token holds the group now.
LEMMA QuietGrant == ASSUME OwnInv, NEW h \in Handlers, Grant(h) PROVE Quiet
<1> DEFINE t == tok[h]
<1>1. /\ pc[h] = "granting" /\ chg' = [chg EXCEPT ![h] = NoChg]
      /\ UNCHANGED <<wait, ready, busy, timeout, counted, qc, cur, st, members, adding, fresh,
                     admitted>>
  BY DEF Grant, queues, others
<1>2. t \in Tokens /\ pc[t] = "issued"
  BY <1>1, HandlerFacts DEF OwnInv, ThreadsInv, HandlerInv, TypeInv, LocalInv, LocalsOK
<1>3. h \in Actors /\ h # t /\ h # Worker /\ t \notin Handlers
  BY <1>2, HandlerFacts, TokenFacts
<1>4. /\ pc'[h] = "idle"
      /\ \A b \in Actors \ {h, t} : pc'[b] = pc[b]
  BY <1>3 DEF Grant, OwnInv, TypeInv, LocalInv, LocalsOK
<1>5. \A b \in Actors \ {h} : chg'[b] = chg[b] /\ (b \in late' <=> b \in late)
  BY <1>1, <1>3 DEF Grant, OwnInv, TypeInv, LocalInv, LocalsOK
<1>6. \A k \in Handlers : HasGroup(k)' => HasGroup(k) /\ chg'[k] = chg[k]
  BY <1>2, <1>3, <1>4, <1>5, HandlerFacts DEF HasGroup, Owns
<1>7. QED
  BY <1>1, <1>2, <1>3, <1>4, <1>5, <1>6, HandlerFacts, WorkerFacts DEF Quiet

\* A completion stream that is looked up, refreshed or ended moves no group and no URI.
LEMMA QuietSession == ASSUME OwnInv, NEW t \in Tokens, PageCompleted(t) PROVE Quiet
<1>1. t \in Actors /\ t \notin Handlers /\ t # Worker /\ LocalsOK
  BY TokenFacts DEF OwnInv, TypeInv, LocalInv
<1>2. UNCHANGED <<wait, ready, busy, timeout, counted, qc, cur, st, members, adding, fresh, admitted>>
  BY DEF PageCompleted, Lookup, Refresh, RefreshFails, OnCompleted, PostFetchFailureFails, OnError,
         OnCancelled, GiveUp, groups, queues, others
<1>3. pc[t] \notin {"popped", "release"}
  BY DEF PageCompleted, Lookup, Refresh, RefreshFails, OnCompleted, PostFetchFailureFails, OnError,
         OnCancelled
<1>4. AloneMoves(t)
  <2>1. CASE RefreshFails(t) \/ OnCancelled(t)
    BY <1>1, <2>1, RestMoves DEF RefreshFails, OnCancelled, GiveUp
  <2>2. CASE Lookup(t)
    <3>1. CASE Rest(t)
      BY <1>1, <3>1, RestMoves
    <3>2. CASE ~Rest(t)
      BY <1>1, <2>2, <3>2 DEF Lookup, Goto, document, AloneMoves, LocalsOK
    <3>3. QED
      BY <3>1, <3>2
  <2>3. CASE Refresh(t)
    BY <1>1, <2>3 DEF Refresh, LoadDocument, ReadDocument, Goto, AloneMoves, LocalsOK
  <2>4. CASE OnCompleted(t) \/ PostFetchFailureFails(t) \/ OnError(t)
    <3>1. UNCHANGED <<chg, tok, lease, tgt, old>>
      BY <2>4 DEF OnCompleted, PostFetchFailureFails, OnError
    <3>2. \E effect, isTimeout : Finalize(t, effect, isTimeout)
      BY <2>4 DEF OnCompleted, PostFetchFailureFails, OnError
    <3>3. QED
      BY <1>1, <3>1, <3>2 DEF Finalize, Conclude, Goto, AloneMoves, LocalsOK
  <2>5. QED
    BY <2>1, <2>2, <2>3, <2>4 DEF PageCompleted
<1>5. QED
  BY <1>1, <1>2, <1>3, <1>4, QuietActor

\* The timeout worker looks at the group it popped, and keeps it unless the database fails.
LEMMA QuietWorker ==
    ASSUME OwnInv, ProcessTimedOutChg \/ ProcessTimedOutChgFails PROVE Quiet
<1>1. Worker \in Actors /\ Worker \notin Handlers /\ LocalsOK /\ pc[Worker] = "popped"
  BY WorkerFacts DEF OwnInv, TypeInv, LocalInv, ProcessTimedOutChg, ProcessTimedOutChgFails
<1>2. UNCHANGED <<wait, ready, busy, timeout, counted, qc, cur, st, members, adding, fresh, admitted>>
  BY DEF ProcessTimedOutChg, ProcessTimedOutChgFails, GiveUp, groups, queues, others
<1>3. \A b \in Actors \ {Worker} : pc'[b] = pc[b] /\ chg'[b] = chg[b] /\ (b \in late' <=> b \in late)
  <2>1. CASE ProcessTimedOutChgFails
    BY <1>1, <2>1, RestMoves DEF ProcessTimedOutChgFails, GiveUp, AloneMoves
  <2>2. CASE ProcessTimedOutChg
    <3>1. \/ Goto(Worker, "release") /\ late' = late \cup {Worker}
          \/ \E effect : Finalize(Worker, effect, TRUE)
      BY <2>2 DEF ProcessTimedOutChg
    <3>2. UNCHANGED chg
      BY <2>2 DEF ProcessTimedOutChg
    <3>3. QED
      BY <1>1, <3>1, <3>2 DEF Finalize, Conclude, Goto, LocalsOK
  <2>3. QED
    BY <2>1, <2>2
<1>4. chg'[Worker] = chg[Worker] \/ ProcessTimedOutChgFails
  BY DEF ProcessTimedOutChg
<1>5. \A h \in Handlers : HasGroup(h)' => HasGroup(h) /\ chg'[h] = chg[h]
  BY <1>3, HandlerFacts DEF HasGroup, Owns
<1>6. QED
  BY <1>1, <1>2, <1>3, <1>4, <1>5, HandlerFacts DEF Quiet

\* UriWorkFinalizer writes the status and the document before it touches the queues.
LEMMA QuietFinish ==
    ASSUME OwnInv, NEW a \in Actors, FinishFails(a) \/ Save(a) PROVE Quiet
<1>1. pc[a] = "finish" /\ UNCHANGED locals /\ HasGroup(a)
  BY DEF FinishFails, Save, HasGroup, Owns
<1>2. UNCHANGED <<wait, ready, busy, timeout, counted, qc, cur, st, members, adding, fresh, admitted>>
  BY DEF FinishFails, Save, groups, queues, others
<1>3. PICK there : Goto(a, there)
  BY DEF FinishFails, Save
<1>4. QED
  BY <1>1, <1>2, <1>3, QuietGoto

\* Steps that change documents or executions alone.
LEMMA QuietData ==
    ASSUME UNCHANGED <<pc, chg, late>>,
           UNCHANGED <<wait, ready, busy, timeout, counted, qc, cur, st, members, adding>>,
           (fresh \cup admitted)' \subseteq fresh \cup admitted
    PROVE  Quiet
BY DEF Quiet, HasGroup, Owns

\* The steps that are not quiet: those that add a URI, move a group, take a URI or a member
\* out of its queue, grant a session or release a group.
Loud ==
    \/ \E u \in Uris, c \in Chgs : UriAdd(u, c) \/ ChgAdd(u, c)
    \/ \E c \in Chgs : MoveWaitToReady(c) \/ MoveBusyToTimeout(c)
    \/ \E h \in Handlers :
           \/ BlPop(h) \/ ChgNext(h) \/ RemoveOrphan(h)
           \/ \E t \in Tokens : SetSession(h, t)
    \/ \E a \in Actors : CompleteLease(a) \/ UriUpdate(a) \/ MoveLease(a) \/ Release(a)
    \/ LPopTimeout

\* As long as no execution is aborted and the frontier does not crash, there are no other
\* steps; in particular a prefetch thread never has a half-moved URI to repair.
LEMMA QuietOrLoud ==
    ASSUME Faults \subseteq Survived, OwnInv, [Next]_vars PROVE Quiet \/ Loud
<1>1. ASSUME NEW h \in Handlers, Prefetch(h) PROVE Quiet \/ Loud
  <2>1. ~RepairMove(h) /\ ~RepairRelease(h)
    BY DEF RepairMove, RepairRelease, OwnInv, ThreadsInv, HandlerInv, HandlerWork
  <2>2. QED
    BY <1>1, <2>1, QuietPrefetch, QuietGrant DEF Prefetch, Loud
<1>2. ASSUME NEW u \in Uris, EnsureExecutionActive(u) PROVE Quiet
  BY <1>2, QuietData DEF EnsureExecutionActive, groups, queues, others, locals
<1>3. ASSUME QueueWorkers PROVE Quiet \/ Loud
  BY <1>3, QuietData DEF QueueWorkers, RemoveFromUriQueue, Loud, groups, others, locals
<1>4. ASSUME NEW a \in Actors, Finish(a) PROVE Quiet \/ Loud
  BY <1>4, QuietFinish DEF Finish, Loud
<1>5. ASSUME FetchTimeoutWorker PROVE Quiet \/ Loud
  BY <1>5, QuietWorker DEF FetchTimeoutWorker, Loud
<1>6. ~Reconcile /\ ~Crash /\ \A u \in Uris : ~(Flush(u) \/ LoseWrite(u))
  <2>1. \A m \in members : Execution[m[2]] \in Executions
    BY MemberFacts, ExecutionAssumption DEF OwnInv, TypeInv, QueuesOK
  <2>2. QED
    BY <2>1 DEF Reconcile, Abort, Terminate, EndAborted, DeleteQueuedUri, CleanupIfEmpty, Crash,
                Flush, LoseWrite, Survived, OwnInv, NothingAborted
<1>7. CASE UNCHANGED vars
  BY <1>7, QuietData DEF vars, groups, queues, others, locals
<1>8. ASSUME NEW u \in Uris, NEW c \in Chgs, UriAdd(u, c) \/ ChgAdd(u, c) PROVE Loud
  BY <1>8 DEF Loud
<1>9. QED
  BY <1>1, <1>2, <1>3, <1>4, <1>5, <1>6, <1>7, <1>8, QuietSession DEF Next

(***************************************************************************)
(* The lease an actor completes or moves is in the queue                   *)
(***************************************************************************)

\* Steps that leave every URI queued and every release pending.
LEMMA CurrentStays ==
    ASSUME QueuedCurrent,
           \A c \in Chgs : cur'[c] # NoUri => cur'[c] = cur[c],
           \A m \in members : \E n \in members' : n[2] = m[2],
           \A a \in Actors \ Handlers : Pending(a) => Pending(a)' /\ chg'[a] = chg[a]
    PROVE  QueuedCurrent'
<1> SUFFICES ASSUME NEW c \in Chgs, cur'[c] # NoUri
             PROVE  CurQueued(c)' \/ \E a \in Actors \ Handlers : Pending(a)' /\ chg'[a] = c
  BY DEF QueuedCurrent
<1>1. CASE CurQueued(c)
  BY <1>1 DEF CurQueued
<1>2. CASE \E a \in Actors \ Handlers : Pending(a) /\ chg[a] = c
  BY <1>2
<1>3. QED
  BY <1>1, <1>2 DEF QueuedCurrent

\* A prefetch thread that holds a group without a session has a group without a current URI,
\* so the URI it leases is current nowhere.
LEMMA LeaseIsNotCurrent ==
    ASSUME OwnInv, NEW h \in Handlers, Owns(h), pc[h] # "granting"
    PROVE  \A c \in Chgs : cur[c] # NoUri => cur[c] # lease[h][2]
<1>1. lease[h] \in members /\ lease[h][1] = chg[h] /\ chg[h] \in Chgs /\ pc[h] # "idle"
  BY OwnerFacts, LeaseFacts, HandlerFacts DEF Owns
<1>2. st[chg[h]] = NoToken
  BY <1>1 DEF OwnInv, ThreadsInv, HandlerInv
<1>3. cur[chg[h]] = NoUri
  BY <1>1, <1>2 DEF OwnInv, GroupsInv
<1>4. QED
  BY <1>1, <1>3 DEF OwnInv, CurrentInv

\* The URI is taken out of the queue: nobody has it as its current URI but the group of the
\* actor that is now to release that group.
LEMMA CurrentRemove ==
    ASSUME OwnInv, QueuedCurrent, NEW a \in Actors, NEW d, Owns(a), pc[a] # "granting",
           a \in Tokens => a \notin late,
           UriRemove(lease[a], d), Goto(a, "release"), UNCHANGED locals
    PROVE  QueuedCurrent'
<1>1. AloneMoves(a) /\ Pending(a)' /\ chg'[a] = chg[a]
  BY GotoMoves DEF OwnInv, TypeInv, LocalInv, Pending
<1>2. UNCHANGED cur /\ \A m \in members : m = lease[a] \/ m \in members'
  BY DEF UriRemove, groups, queues
<1> SUFFICES ASSUME NEW c \in Chgs, cur[c] # NoUri
             PROVE  CurQueued(c)' \/ \E b \in Actors \ Handlers : Pending(b)' /\ chg'[b] = c
  BY <1>2 DEF QueuedCurrent
<1>3. CASE \E b \in Actors \ Handlers : Pending(b) /\ chg[b] = c
  BY <1>1, <1>3 DEF AloneMoves, Pending
<1>4. ASSUME NEW m \in members, m[2] = cur[c], m # lease[a]
      PROVE  CurQueued(c)'
  BY <1>2, <1>4 DEF CurQueued
<1>5. ASSUME lease[a] \in members, lease[a][2] = cur[c]
      PROVE  \E b \in Actors \ Handlers : Pending(b)' /\ chg'[b] = c
  <2>1. a \notin Handlers
    BY <1>5, LeaseIsNotCurrent
  <2>2. HoldsCurrent(a) /\ chg[a] \in Chgs
    BY <2>1, OwnerFacts, LeaseFacts DEF Actors
  <2>3. chg[a] = c
    BY <1>5, <2>2 DEF HoldsCurrent, OwnInv, CurrentInv
  <2>4. QED
    BY <1>1, <2>1, <2>3
<1>6. QED
  BY <1>3, <1>4, <1>5 DEF QueuedCurrent, CurQueued

\* The URI that becomes the current one of its group is queued: the thread has leased it.
LEMMA CurrentSetSession ==
    ASSUME OwnInv, QueuedCurrent, NEW h \in Handlers, NEW t \in Tokens, SetSession(h, t)
    PROVE  QueuedCurrent'
<1>1. /\ pc[h] = "claimed" /\ pc[t] = "unused" /\ UNCHANGED <<members, chg, late>>
      /\ cur' = [cur EXCEPT ![chg[h]] = lease[h][2]]
      /\ pc' = [pc EXCEPT ![h] = "granting", ![t] = "issued"]
  BY DEF SetSession, queues
<1>2. lease[h] \in members /\ chg[h] \in Chgs
  BY <1>1, OwnerFacts, LeaseFacts, HandlerFacts DEF Owns
<1>3. /\ cur'[chg[h]] = lease[h][2]
      /\ \A c \in Chgs \ {chg[h]} : cur'[c] = cur[c]
  BY <1>1, <1>2 DEF OwnInv, TypeInv, GroupsOK
<1>4. \A a \in Actors \ {h, t} : pc'[a] = pc[a]
  BY <1>1 DEF OwnInv, TypeInv, LocalInv, LocalsOK
<1>5. \A a \in Actors : Pending(a) => Pending(a)' /\ chg'[a] = chg[a]
  BY <1>1, <1>4 DEF Pending
<1>6. UNCHANGED members
  BY <1>1
<1>7. SUFFICES ASSUME NEW c \in Chgs, cur'[c] # NoUri
               PROVE  CurQueued(c)' \/ \E a \in Actors \ Handlers : Pending(a)' /\ chg'[a] = c
  BY DEF QueuedCurrent
<1>8. CASE c = chg[h]
  BY <1>2, <1>3, <1>6, <1>8 DEF CurQueued
<1>9. CASE c # chg[h]
  BY <1>3, <1>5, <1>6, <1>7, <1>9 DEF QueuedCurrent, CurQueued
<1>10. QED
  BY <1>8, <1>9

\* The release of a stream or of the timeout worker is accepted: the one has the group busy
\* under its token, the other has it popped.
LEMMA ReleaseAccepted ==
    ASSUME OwnInv, NEW a \in Actors \ Handlers, Pending(a)
    PROVE  ChgReleaseAccepts(chg[a], tok[a], a \in late)
<1>1. CASE a \in Tokens
  BY <1>1 DEF Pending, OwnInv, ThreadsInv, SessionInv, SessionWork, ChgReleaseAccepts
<1>2. CASE a = Worker
  <2>1. pc[a] = "release"
    BY DEF Pending
  <2>2. Worker \in late /\ tok[Worker] = st[chg[Worker]] /\ chg[Worker] \notin Placed
    BY <1>2, <2>1 DEF OwnInv, ThreadsInv, WorkerInv, WorkerWork
  <2>3. QED
    BY <1>2, <2>2 DEF ChgReleaseAccepts, Placed
<1>3. QED
  BY <1>1, <1>2 DEF Actors

\* A release that is accepted clears the current URI; one that is refused comes from a
\* prefetch thread, which has no current URI, or from the stream whose error could not be
\* recorded, which has completed nothing.
LEMMA CurrentRelease ==
    ASSUME OwnInv, QueuedCurrent, NEW a \in Actors, Release(a)
    PROVE  QueuedCurrent'
<1>1. AloneMoves(a) /\ pc[a] = "release" /\ UNCHANGED members
  BY RestMoves DEF Release, OwnInv, TypeInv, LocalInv, queues
<1>2. CASE ~ChgReleaseAccepts(chg[a], tok[a], a \in late)
  <2>1. a \in Handlers \/ ~Pending(a)
    BY <1>1, <1>2, ReleaseAccepted
  <2>2. UNCHANGED cur
    BY <1>2 DEF Release, ChgRelease, groups
  <2>3. QED
    BY <1>1, <2>1, <2>2, CurrentStays DEF AloneMoves, Pending
<1>3. CASE ChgReleaseAccepts(chg[a], tok[a], a \in late)
  <2>1. chg[a] \in Chgs /\ cur' = [cur EXCEPT ![chg[a]] = NoUri]
    BY <1>1, <1>3, ReleaseIsAlone DEF Release, ChgRelease
  <2>2. cur'[chg[a]] = NoUri /\ \A c \in Chgs \ {chg[a]} : cur'[c] = cur[c]
    BY <2>1 DEF OwnInv, TypeInv, GroupsOK
  <2>3. ASSUME NEW c \in Chgs \ {chg[a]}, cur'[c] # NoUri
        PROVE  CurQueued(c)' \/ \E b \in Actors \ Handlers : Pending(b)' /\ chg'[b] = c
    BY <1>1, <2>2, <2>3 DEF QueuedCurrent, CurQueued, AloneMoves, Pending
  <2>4. QED
    BY <2>2, <2>3 DEF QueuedCurrent
<1>4. QED
  BY <1>2, <1>3

\* chg_next, the moves between the queues of groups and the scripts that rewrite members
\* leave every URI queued.
LEMMA CurrentStep ==
    ASSUME Faults \subseteq Survived, "streamError" \notin Faults,
           OwnInv, QueuedCurrent, [Next]_vars
    PROVE  QueuedCurrent'
<1>1. CASE Quiet
  BY <1>1, CurrentStays DEF Quiet, Pending
<1>2. ASSUME NEW u \in Uris, NEW c \in Chgs, UriAdd(u, c) \/ ChgAdd(u, c) PROVE QueuedCurrent'
  <2>1. UNCHANGED <<cur, pc, chg, late>> /\ members \subseteq members'
    BY <1>2 DEF UriAdd, ChgAdd, groups, queues, locals
  <2>2. QED
    BY <2>1, CurrentStays DEF Pending
<1>3. ASSUME NEW c \in Chgs, MoveWaitToReady(c) \/ MoveBusyToTimeout(c) PROVE QueuedCurrent'
  <2>1. UNCHANGED <<cur, pc, chg, late, members>>
    BY <1>3 DEF MoveWaitToReady, MoveBusyToTimeout, queues, locals
  <2>2. QED
    BY <2>1, CurrentStays DEF Pending
<1>4. ASSUME NEW h \in Handlers, BlPop(h) \/ ChgNext(h) PROVE QueuedCurrent'
  <2>1. UNCHANGED <<cur, members>>
    BY <1>4 DEF BlPop, ChgNext, queues
  <2>2. \A a \in Actors \ {h} : pc'[a] = pc[a] /\ chg'[a] = chg[a] /\ (a \in late' <=> a \in late)
    <3>1. CASE Rest(h)
      BY <3>1, RestMoves, HandlerFacts DEF AloneMoves, OwnInv, TypeInv, LocalInv
    <3>2. CASE ~Rest(h)
      BY <1>4, <3>2 DEF BlPop, ChgNext, Goto, locals, OwnInv, TypeInv, LocalInv, LocalsOK
    <3>3. QED
      BY <3>1, <3>2
  <2>3. QED
    BY <2>1, <2>2, CurrentStays DEF Pending
<1>5. ASSUME LPopTimeout PROVE QueuedCurrent'
  <2>1. UNCHANGED <<cur, members, late>> /\ pc[Worker] = "idle"
    BY <1>5 DEF LPopTimeout, queues
  <2>2. \A a \in Actors \ {Worker} : pc'[a] = pc[a] /\ chg'[a] = chg[a]
    BY <1>5 DEF LPopTimeout, Goto, OwnInv, TypeInv, LocalInv, LocalsOK
  <2>3. QED
    BY <2>1, <2>2, CurrentStays DEF Pending
<1>6. ASSUME NEW a \in Actors, UriUpdate(a) \/ MoveLease(a) PROVE QueuedCurrent'
  <2>1. AloneMoves(a) /\ pc[a] \in {"update", "move"} /\ UNCHANGED cur
    BY <1>6, GotoMoves DEF UriUpdate, MoveLease, UriMove, groups, OwnInv, TypeInv, LocalInv
  <2>2. \A m \in members : \E n \in members' : n[2] = m[2]
    <3>1. ASSUME NEW before, NEW after, after[2] = before[2],
                 members' = (members \ {before}) \cup {after}
          PROVE  \A m \in members : \E n \in members' : n[2] = m[2]
      BY <3>1
    <3>2. CASE UNCHANGED members
      BY <3>2
    <3>3. CASE UriUpdate(a)
      <4>1. \/ UNCHANGED members
            \/ members' = (members \ {<<tgt[a], lease[a][2], old[a]>>})
                            \cup {<<tgt[a], lease[a][2], time[a]>>}
        BY <3>3 DEF UriUpdate
      <4>2. QED
        BY <3>1, <3>2, <4>1
    <3>4. CASE MoveLease(a)
      <4>1. \/ UNCHANGED members
            \/ members' = (members \ {lease[a]}) \cup {<<tgt[a], lease[a][2], time[a]>>}
        BY <3>4 DEF MoveLease, UriMove, queues
      <4>2. QED
        BY <3>1, <3>2, <4>1
    <3>5. QED
      BY <1>6, <3>3, <3>4
  <2>3. \A b \in Actors : Pending(b) => Pending(b)' /\ chg'[b] = chg[b]
    BY <2>1 DEF AloneMoves, Pending
  <2>4. QED
    BY <2>1, <2>2, <2>3, CurrentStays
<1>7. ASSUME NEW h \in Handlers, RemoveOrphan(h) PROVE QueuedCurrent'
  <2>1. h \in Actors /\ Owns(h) /\ pc[h] # "granting" /\ h \notin Tokens
    BY <1>7, HandlerFacts DEF RemoveOrphan, Owns
  <2>2. QED
    BY <1>7, <2>1, CurrentRemove DEF RemoveOrphan
<1>8. ASSUME NEW a \in Actors, CompleteLease(a) PROVE QueuedCurrent'
  <2>1. Owns(a) /\ pc[a] # "granting" /\ (a \in Tokens => a \notin late)
    BY <1>8 DEF CompleteLease, Owns, OwnInv, ThreadsInv, SessionInv
  <2>2. QED
    BY <1>8, <2>1, CurrentRemove DEF CompleteLease
<1>9. QED
  BY <1>1, <1>2, <1>3, <1>4, <1>5, <1>6, <1>7, <1>8,
     QuietOrLoud, CurrentSetSession, CurrentRelease DEF Loud

\* A stream and the timeout worker lease the current URI of the group they hold, and nobody
\* else is on the way to release that group.
LEMMA LeasesQueued == OwnInv /\ QueuedCurrent => LeaseIsQueued
<1> SUFFICES ASSUME OwnInv, QueuedCurrent, NEW a \in Actors, pc[a] \in {"finish", "move"}
             PROVE  lease[a] \in members
  BY DEF LeaseIsQueued
<1>1. Owns(a) /\ pc[a] # "release"
  BY DEF Owns
<1>2. CASE a \in Handlers
  BY <1>1, <1>2, OwnerFacts
<1>3. CASE a \notin Handlers
  <2>1. HoldsCurrent(a) /\ chg[a] \in Chgs
    BY <1>1, <1>3, OwnerFacts, LeaseFacts DEF Actors
  <2>2. ASSUME NEW b \in Actors \ Handlers, pc[b] = "release", chg[b] = chg[a] PROVE FALSE
    <3>1. b \in Tokens => chg[b] \in busy /\ st[chg[b]] = b
      BY <2>2 DEF OwnInv, ThreadsInv, SessionInv, SessionWork
    <3>2. b = Worker => chg[b] \notin busy
      BY <2>1, <2>2, NullsAssumption DEF OwnInv, ThreadsInv, WorkerInv, Placed
    <3>3. a \in Tokens => chg[a] \in busy /\ st[chg[a]] = a
      BY <1>1, OwnerFacts
    <3>4. a = Worker => chg[a] \notin busy
      BY <1>1, OwnerFacts
    <3>5. a # b
      BY <1>1, <2>2
    <3>6. QED
      BY <1>3, <2>2, <3>1, <3>2, <3>3, <3>4, <3>5 DEF Actors
  <2>3. CurQueued(chg[a])
    BY <2>1, <2>2 DEF QueuedCurrent, HoldsCurrent, Pending
  <2>4. QED
    BY <2>1, <2>3 DEF CurQueued, HoldsCurrent
<1>4. QED
  BY <1>2, <1>3

\* "So completion always removes or moves the entry which was actually leased": as long as
\* nothing but database calls fails, the lease an actor is about to complete or to move is in
\* the queue.
THEOREM LeasesAreQueued ==
    ASSUME Faults \subseteq {"dbError"} PROVE Spec => []LeaseIsQueued
<1>1. Faults \subseteq Survived /\ "streamError" \notin Faults
  BY DEF Survived
<1>2. Init => QueuedCurrent
  BY DEF Init, QueuedCurrent
<1>3. OwnInv /\ QueuedCurrent /\ [Next]_vars => QueuedCurrent'
  BY <1>1, CurrentStep
<1>4. Spec => []OwnInv
  BY <1>1, OwnInvHolds
<1>5. Spec => []QueuedCurrent
  BY <1>2, <1>3, <1>4, PTL DEF Spec
<1>6. QED
  BY <1>4, <1>5, LeasesQueued, PTL

(***************************************************************************)
(* The queue count of a group                                              *)
(***************************************************************************)

Sel(M, i, c) == {y \in M : y[i] = c}

\* N has one element more than M.
Adds(N, M, x) == IsFiniteSet(M) /\ x \notin M /\ N = M \cup {x}

\* Adding a member adds one to the number of members of its group.
LEMMA SelAdds ==
    ASSUME NEW M, NEW x, NEW N, Adds(N, M, x), NEW i, NEW c
    PROVE  /\ IsFiniteSet(N)
           /\ Cardinality(Sel(M, i, c)) \in Nat /\ Cardinality(Sel(N, i, c)) \in Nat
           /\ Cardinality(Sel(N, i, c)) = Cardinality(Sel(M, i, c)) + (IF x[i] = c THEN 1 ELSE 0)
<1>1. IsFiniteSet(M) /\ x \notin M /\ N = M \cup {x} /\ Sel(M, i, c) \in SUBSET M
  BY DEF Adds, Sel
<1>2. IsFiniteSet(N) /\ IsFiniteSet(Sel(M, i, c)) /\ Cardinality(Sel(M, i, c)) \in Nat
  BY <1>1, FS_AddElement, FS_Subset, FS_CardinalityType
<1>3. CASE x[i] = c
  <2>1. Sel(N, i, c) = Sel(M, i, c) \cup {x} /\ x \notin Sel(M, i, c)
    BY <1>1, <1>3 DEF Sel
  <2>2. Cardinality(Sel(N, i, c)) = Cardinality(Sel(M, i, c)) + 1
    BY <1>2, <2>1, FS_AddElement
  <2>3. QED
    BY <1>2, <1>3, <2>2
<1>4. CASE x[i] # c
  <2>1. Sel(N, i, c) = Sel(M, i, c)
    BY <1>1, <1>4 DEF Sel
  <2>2. QED
    BY <1>2, <1>4, <2>1
<1>5. QED
  BY <1>3, <1>4

\* The count of a group, said with Sel.
LEMMA CountsSelected ==
    /\ CountMatchesQueue <=>
         \A c \in Chgs : qc[c] = Cardinality(Sel(members, 1, c)) - Cardinality(Sel(adding, 2, c))
    /\ CountMatchesQueue' <=>
         \A c \in Chgs : qc'[c] = Cardinality(Sel(members', 1, c)) - Cardinality(Sel(adding', 2, c))
BY DEF CountMatchesQueue, QueuedIn, BeingAddedTo, Sel

\* Steps that touch neither the members nor the counts.
LEMMA MatchStays ==
    ASSUME MatchInv, UNCHANGED <<members, adding, qc>>,
           (fresh \cup admitted)' \subseteq fresh \cup admitted
    PROVE  MatchInv'
BY DEF MatchInv, CountMatchesQueue, QueuedIn, BeingAddedTo

\* uri_add.lua: a member more, and a chg_add more that is to come.
LEMMA MatchUriAdd ==
    ASSUME OwnInv, MatchInv, NEW u \in Uris, NEW g \in Chgs, UriAdd(u, g) PROVE MatchInv'
<1> DEFINE m == <<g, u, 0>>
           pair == <<u, g>>
<1>1. /\ members' = members \cup {m} /\ adding' = adding \cup {pair} /\ UNCHANGED <<qc, fresh>>
      /\ u \in admitted /\ admitted' = admitted \ {u}
  BY DEF UriAdd, groups
<1>2. m \notin members
  BY <1>1 DEF OwnInv, QueuedInv, NotYetQueued
<1>3. pair \notin adding
  BY <1>1 DEF MatchInv
<1>4. IsFiniteSet(members') /\ IsFiniteSet(adding')
  BY <1>1, FS_AddElement DEF MatchInv
<1>5. u \notin fresh
  BY <1>1 DEF OwnInv, QueuedInv, NotYetQueued
<1>6. \A y \in adding' : y[1] \notin (fresh \cup admitted)'
  BY <1>1, <1>5 DEF MatchInv
<1>7. ASSUME NEW c \in Chgs
      PROVE  qc'[c] = Cardinality(Sel(members', 1, c)) - Cardinality(Sel(adding', 2, c))
  <2>1. /\ Cardinality(Sel(members', 1, c)) = Cardinality(Sel(members, 1, c)) + One(m[1] = c)
        /\ Cardinality(Sel(members, 1, c)) \in Nat
    <3>1. Adds(members', members, m)
      BY <1>1, <1>2 DEF MatchInv, Adds
    <3>2. QED
      BY <3>1, SelAdds DEF One
  <2>2. /\ Cardinality(Sel(adding', 2, c)) = Cardinality(Sel(adding, 2, c)) + One(pair[2] = c)
        /\ Cardinality(Sel(adding, 2, c)) \in Nat
    <3>1. Adds(adding', adding, pair)
      BY <1>1, <1>3 DEF MatchInv, Adds
    <3>2. QED
      BY <3>1, SelAdds DEF One
  <2>3. QED
    BY <1>1, <2>1, <2>2, CountsSelected DEF MatchInv, One
<1>8. QED
  BY <1>4, <1>6, <1>7, CountsSelected DEF MatchInv

\* chg_add.lua: the URI is counted, and its chg_add is no longer to come.
LEMMA MatchChgAdd ==
    ASSUME OwnInv, MatchInv, NEW u \in Uris, NEW g \in Chgs, ChgAdd(u, g) PROVE MatchInv'
<1> DEFINE pair == <<u, g>>
<1>1. /\ UNCHANGED <<members, fresh, admitted>> /\ pair \in adding /\ adding' = adding \ {pair}
      /\ qc' = [qc EXCEPT ![g] = @ + 1]
  BY DEF ChgAdd, queues
<1>2. \A c \in Chgs : qc[c] \in Int /\ qc'[c] = qc[c] + One(pair[2] = c)
  BY <1>1 DEF OwnInv, TypeInv, GroupsOK, One
<1>3. IsFiniteSet(members') /\ IsFiniteSet(adding')
  BY <1>1, FS_RemoveElement DEF MatchInv
<1>4. \A y \in adding' : y[1] \notin (fresh \cup admitted)'
  BY <1>1 DEF MatchInv
<1>5. ASSUME NEW c \in Chgs
      PROVE  qc'[c] = Cardinality(Sel(members', 1, c)) - Cardinality(Sel(adding', 2, c))
  <2>1. Cardinality(Sel(members, 1, c)) \in Nat /\ Sel(members', 1, c) = Sel(members, 1, c)
    <3>1. Sel(members, 1, c) \in SUBSET members
      BY DEF Sel
    <3>2. QED
      BY <1>1, <3>1, FS_Subset, FS_CardinalityType DEF MatchInv
  <2>2. /\ Cardinality(Sel(adding', 2, c)) = Cardinality(Sel(adding, 2, c)) - One(pair[2] = c)
        /\ Cardinality(Sel(adding, 2, c)) \in Nat
    <3>1. Adds(adding, adding', pair)
      BY <1>1, <1>3 DEF Adds
    <3>2. QED
      BY <3>1, SelAdds DEF One
  <2>3. QED
    BY <1>2, <2>1, <2>2, CountsSelected DEF MatchInv, One
<1>6. QED
  BY <1>3, <1>4, <1>5, CountsSelected DEF MatchInv

\* Steps that leave the adding threads alone, and count what they take out or put in.
LEMMA MatchMembers ==
    ASSUME MatchInv, UNCHANGED <<adding, fresh, admitted>>, IsFiniteSet(members'),
           \A c \in Chgs :
               /\ qc[c] \in Int /\ qc'[c] \in Int
               /\ Cardinality(Sel(members, 1, c)) \in Nat
               /\ Cardinality(Sel(members', 1, c)) = Cardinality(Sel(members, 1, c)) + (qc'[c] - qc[c])
    PROVE  MatchInv'
<1>1. ASSUME NEW c \in Chgs
      PROVE  qc'[c] = Cardinality(Sel(members', 1, c)) - Cardinality(Sel(adding', 2, c))
  <2>1. Cardinality(Sel(adding, 2, c)) \in Nat /\ Sel(adding', 2, c) = Sel(adding, 2, c)
    <3>1. Sel(adding, 2, c) \in SUBSET adding
      BY DEF Sel
    <3>2. QED
      BY <3>1, FS_Subset, FS_CardinalityType DEF MatchInv
  <2>2. QED
    BY <2>1, CountsSelected DEF MatchInv
<1>2. QED
  BY <1>1, CountsSelected DEF MatchInv

\* uri_remove takes a member out and counts it.
LEMMA MatchRemove ==
    ASSUME OwnInv, MatchInv, NEW m, NEW d, UriRemove(m, d), UNCHANGED <<adding, fresh, admitted>>
    PROVE  MatchInv'
<1>1. CASE m \notin members
  BY <1>1, MatchStays DEF UriRemove, groups, queues
<1>2. CASE m \in members
  <2>1. members' = members \ {m} /\ qc' = [qc EXCEPT ![m[1]] = @ - 1] /\ m[1] \in Chgs
    BY <1>2, MemberFacts DEF UriRemove, OwnInv, TypeInv, QueuesOK
  <2>2. IsFiniteSet(members) /\ IsFiniteSet(members')
    BY <2>1, FS_RemoveElement DEF MatchInv
  <2>3. ASSUME NEW c \in Chgs
        PROVE  /\ qc[c] \in Int /\ qc'[c] \in Int
               /\ Cardinality(Sel(members, 1, c)) \in Nat
               /\ Cardinality(Sel(members', 1, c)) = Cardinality(Sel(members, 1, c)) + (qc'[c] - qc[c])
    <3>1. qc[c] \in Int /\ qc'[c] = qc[c] - One(m[1] = c)
      BY <2>1 DEF OwnInv, TypeInv, GroupsOK, One
    <3>2. /\ Cardinality(Sel(members', 1, c)) = Cardinality(Sel(members, 1, c)) - One(m[1] = c)
          /\ Cardinality(Sel(members, 1, c)) \in Nat
      <4>1. Adds(members, members', m)
        BY <1>2, <2>1, <2>2 DEF Adds
      <4>2. QED
        BY <4>1, SelAdds DEF One
    <3>3. QED
      BY <3>1, <3>2 DEF One
  <2>4. QED
    BY <2>2, <2>3, MatchMembers
<1>3. QED
  BY <1>1, <1>2

\* A member is replaced: uri_update keeps it in its group, uri_move counts it in another.
LEMMA MatchReplace ==
    ASSUME OwnInv, MatchInv, NEW before \in members, NEW after, after \notin members \ {before},
           members' = (members \ {before}) \cup {after}, UNCHANGED <<adding, fresh, admitted>>,
           \A c \in Chgs : qc'[c] = qc[c] - (IF before[1] = c THEN 1 ELSE 0) + (IF after[1] = c THEN 1 ELSE 0)
    PROVE  MatchInv'
<1> DEFINE rest == members \ {before}
<1>1. IsFiniteSet(members) /\ IsFiniteSet(rest) /\ IsFiniteSet(members')
  <2>1. IsFiniteSet(members)
    BY DEF MatchInv
  <2>2. IsFiniteSet(rest)
    BY <2>1, FS_RemoveElement
  <2>3. QED
    BY <2>1, <2>2, FS_AddElement
<1>2. ASSUME NEW c \in Chgs
      PROVE  /\ qc[c] \in Int /\ qc'[c] \in Int
             /\ Cardinality(Sel(members, 1, c)) \in Nat
             /\ Cardinality(Sel(members', 1, c)) = Cardinality(Sel(members, 1, c)) + (qc'[c] - qc[c])
  <2>1. qc[c] \in Int
    BY DEF OwnInv, TypeInv, GroupsOK
  <2>2. /\ Cardinality(Sel(rest, 1, c)) = Cardinality(Sel(members, 1, c)) - One(before[1] = c)
        /\ Cardinality(Sel(members, 1, c)) \in Nat
    <3>1. Adds(members, rest, before)
      BY <1>1 DEF Adds
    <3>2. QED
      BY <3>1, SelAdds DEF One
  <2>3. Adds(members', rest, after)
    BY <1>1 DEF Adds
  <2> HIDE DEF rest
  <2>4. /\ Cardinality(Sel(members', 1, c)) = Cardinality(Sel(rest, 1, c)) + One(after[1] = c)
        /\ Cardinality(Sel(rest, 1, c)) \in Nat
    BY <2>3, SelAdds DEF One
  <2>5. QED
    BY <2>1, <2>2, <2>4 DEF One
<1>3. QED
  BY <1>1, <1>2, MatchMembers

\* uri_update.lua replaces a member by one of the same group.
LEMMA MatchUriUpdate ==
    ASSUME OwnInv, MatchInv, NEW a \in Actors, UriUpdate(a) PROVE MatchInv'
<1> DEFINE before == <<tgt[a], lease[a][2], old[a]>>
           after == <<tgt[a], lease[a][2], time[a]>>
<1>1. /\ members' = IF before \in members THEN (members \ {before}) \cup {after} ELSE members
      /\ UNCHANGED <<qc, adding, fresh, admitted>>
  BY DEF UriUpdate, groups, others
<1>2. CASE before \notin members
  BY <1>1, <1>2, MatchStays
<1>3. CASE before \in members
  <2>1. \A m \in members : m[2] = before[2] => m = before
    BY <1>3 DEF OwnInv, QueuedInv, UriQueuedOnce
  <2>2. after \notin members \ {before}
    BY <2>1
  <2>3. \A c \in Chgs : qc'[c] = qc[c] - (IF before[1] = c THEN 1 ELSE 0) + (IF after[1] = c THEN 1 ELSE 0)
    BY <1>1 DEF OwnInv, TypeInv, GroupsOK
  <2> HIDE DEF before, after
  <2>4. QED
    BY <1>1, <1>3, <2>2, <2>3, MatchReplace
<1>4. QED
  BY <1>2, <1>3

\* uri_move.lua takes the URI from the one count and adds it to the other.
LEMMA MatchMoveLease ==
    ASSUME OwnInv, MatchInv, NEW a \in Actors, MoveLease(a) PROVE MatchInv'
<1> DEFINE m == lease[a]
           new == <<tgt[a], m[2], time[a]>>
<1>1. UriMove(m, tgt[a], time[a]) /\ UNCHANGED <<adding, fresh, admitted>> /\ pc[a] = "move"
  BY DEF MoveLease, others
<1>2. tgt[a] \in Chgs
  BY <1>1 DEF OwnInv, TypeInv, LocalInv, LocalsOK, LocalFacts
<1>3. CASE UNCHANGED <<groups, queues>>
  BY <1>1, <1>3, MatchStays DEF groups, queues
<1>4. CASE ~UNCHANGED <<groups, queues>>
  <2>1. /\ tgt[a] # m[1] /\ new \notin members /\ m \in members
        /\ members' = (members \ {m}) \cup {new}
        /\ qc' = [qc EXCEPT ![m[1]] = @ - 1, ![tgt[a]] = @ + 1]
    BY <1>1, <1>4 DEF UriMove
  <2>2. m[1] \in Chgs
    BY <2>1, MemberFacts DEF OwnInv, TypeInv, QueuesOK
  <2>3. \A c \in Chgs : qc'[c] = qc[c] - (IF m[1] = c THEN 1 ELSE 0) + (IF new[1] = c THEN 1 ELSE 0)
    BY <1>2, <2>1, <2>2 DEF OwnInv, TypeInv, GroupsOK
  <2>4. /\ m \in members /\ new \notin members \ {m} /\ members' = (members \ {m}) \cup {new}
        /\ UNCHANGED <<adding, fresh, admitted>>
    BY <1>1, <2>1
  <2> HIDE DEF m, new
  <2>5. QED
    BY <2>3, <2>4, MatchReplace
<1>5. QED
  BY <1>3, <1>4

\* The group of an owner is in no queue of groups that others take it from, and no other
\* prefetch thread has it.
LEMMA OwnerIsAlone ==
    ASSUME OwnInv, NEW a \in Actors, Owns(a)
    PROVE  /\ chg[a] \in Chgs /\ chg[a] \notin wait \cup Elems(ready)
           /\ \A h \in Handlers \ {a} : HasGroup(h) => chg[h] # chg[a]
<1>1. \A h \in Handlers : HasGroup(h) => pc[h] # "idle" /\ (pc[h] = "popped" \/ pc[h] \in HandlerWork)
  BY DEF HasGroup, Owns, OwnInv, ThreadsInv, HandlerInv
<1>2. CASE a \in Handlers
  <2>1. chg[a] \in busy /\ chg[a] \in Chgs
    BY <1>2, OwnerFacts, LeaseFacts
  <2>2. HasGroup(a)
    BY DEF HasGroup
  <2>3. QED
    BY <1>1, <1>2, <2>1, <2>2 DEF OwnInv, GroupsInv, ThreadsInv, HandlersApart
<1>3. CASE a \in Tokens
  <2>1. chg[a] \in busy /\ chg[a] \in Chgs /\ pc[a] \in SessionWork /\ chg[a] \in Placed
    BY <1>3, OwnerFacts, LeaseFacts
       DEF OwnInv, ThreadsInv, SessionInv, SessionPc, SessionWork, Owns, Placed
  <2>2. QED
    BY <1>1, <1>3, <2>1, HandlerApartFromSession DEF OwnInv, GroupsInv, ThreadsInv, HandlerInv
<1>4. CASE a = Worker
  <2>1. chg[a] \in Chgs /\ chg[a] \notin Placed
    BY <1>4, LeaseFacts, NullsAssumption DEF OwnInv, ThreadsInv, WorkerInv
  <2>2. \A h \in Handlers : HasGroup(h) => chg[h] # chg[a]
    BY <1>1, <1>4, <2>1 DEF OwnInv, ThreadsInv, HandlerInv, Placed
  <2>3. QED
    BY <2>1, <2>2 DEF Placed
<1>5. QED
  BY <1>2, <1>3, <1>4 DEF Actors

\* A URI whose member an owner takes out of the queue was counted.
LEMMA OwnerIsCounted ==
    ASSUME OwnInv, PositiveInv, NEW a \in Actors, Owns(a), lease[a] \in members
    PROVE  qc[chg[a]] > 0
<1>1. CASE a \in Handlers
  BY <1>1 DEF PositiveInv, HasGroup
<1>2. CASE a \notin Handlers
  <2>1. HoldsCurrent(a) /\ chg[a] \in Chgs
    BY <1>2, OwnerFacts, LeaseFacts DEF Actors
  <2>2. CurQueued(chg[a]) /\ cur[chg[a]] # NoUri
    BY <2>1 DEF HoldsCurrent, CurQueued
  <2>3. QED
    BY <2>1, <2>2 DEF PositiveInv
<1>3. QED
  BY <1>1, <1>2

\* Steps that lower no count.
LEMMA PositiveStays ==
    ASSUME PositiveInv, \A c \in Chgs : qc[c] \in Int /\ qc'[c] \in Int /\ qc'[c] >= qc[c],
           wait \cup Elems(ready) \subseteq Chgs, \A h \in Handlers : HasGroup(h) => chg[h] \in Chgs,
           \A c \in (wait \cup Elems(ready))' : c \in wait \cup Elems(ready) \/ qc'[c] > 0,
           \A h \in Handlers : HasGroup(h)' => (HasGroup(h) /\ chg'[h] = chg[h]) \/ qc'[chg'[h]] > 0,
           \A c \in Chgs : cur'[c] # NoUri /\ CurQueued(c)' =>
                               (cur[c] # NoUri /\ CurQueued(c)) \/ qc'[c] > 0
    PROVE  PositiveInv'
<1>1. \A c \in Chgs : qc'[c] >= 0 /\ (qc[c] > 0 => qc'[c] > 0)
  BY DEF PositiveInv
<1>2. \A c \in (wait \cup Elems(ready))' : qc'[c] > 0
  BY <1>1 DEF PositiveInv
<1>3. \A h \in Handlers : HasGroup(h)' => qc'[chg'[h]] > 0
  BY <1>1 DEF PositiveInv
<1>4. \A c \in Chgs : cur'[c] # NoUri /\ CurQueued(c)' => qc'[c] > 0
  BY <1>1 DEF PositiveInv
<1>5. QED
  BY <1>1, <1>2, <1>3, <1>4 DEF PositiveInv

\* What the proofs below need to know of counts and groups.
LEMMA CountTypes ==
    ASSUME OwnInv
    PROVE  /\ \A c \in Chgs : qc[c] \in Int
           /\ wait \cup Elems(ready) \subseteq Chgs
           /\ \A h \in Handlers : HasGroup(h) => chg[h] \in Chgs
<1>1. \A h \in Handlers : HasGroup(h) => pc[h] = "popped" \/ pc[h] \in HandlerWork
  BY DEF HasGroup, Owns, OwnInv, ThreadsInv, HandlerInv
<1>2. counted \subseteq Chgs /\ busy \subseteq Chgs /\ wait \cup Elems(ready) \subseteq Placed
  BY DEF OwnInv, TypeInv, GroupsOK, Placed
<1>3. QED
  BY <1>1, <1>2 DEF OwnInv, TypeInv, GroupsOK, GroupsInv, ThreadsInv, HandlerInv

\* The member of an owner leaves the queue of the group, which is released next.
LEMMA PositiveTake ==
    ASSUME OwnInv, PositiveInv, NEW a \in Actors, Owns(a), pc[a] # "granting", lease[a] \in members,
           AloneMoves(a), pc'[a] = "release", UNCHANGED <<ready, cur>>,
           qc'[chg[a]] = qc[chg[a]] - 1,
           \A c \in Chgs \ {chg[a]} : qc'[c] \in Int /\ qc'[c] >= qc[c],
           \A c \in wait' : c \in wait \/ (c # chg[a] /\ qc'[c] > 0),
           \A n \in members' : n \in members \/ n[2] = lease[a][2],
           a \notin Handlers => \A n \in members' : n[2] # lease[a][2]
    PROVE  PositiveInv'
<1> DEFINE g == chg[a]
<1>1. /\ g \in Chgs /\ g \notin wait \cup Elems(ready)
      /\ \A h \in Handlers \ {a} : HasGroup(h) => chg[h] # g
  BY OwnerIsAlone
<1>2. qc[g] > 0 /\ qc[g] \in Int
  BY <1>1, OwnerIsCounted, CountTypes
<1>3. /\ wait \cup Elems(ready) \subseteq Chgs
      /\ \A h \in Handlers : HasGroup(h) => chg[h] \in Chgs
      /\ \A c \in Chgs : qc[c] \in Int
  BY CountTypes
<1>4. \A c \in Chgs : qc'[c] >= 0
  BY <1>2, <1>3 DEF PositiveInv
<1>5. \A c \in wait' \cup Elems(ready') : qc'[c] > 0
  <2>1. \A c \in wait \cup Elems(ready) : qc'[c] > 0
    BY <1>1, <1>3 DEF PositiveInv
  <2>2. Elems(ready') = Elems(ready)
    OBVIOUS
  <2>3. QED
    BY <2>1, <2>2
<1>6. ASSUME NEW h \in Handlers, HasGroup(h)' PROVE qc'[chg'[h]] > 0
  <2>1. h # a
    BY <1>6 DEF HasGroup, Owns
  <2>2. HasGroup(h) /\ chg'[h] = chg[h]
    BY <1>6, <2>1, HandlerFacts DEF AloneMoves, HasGroup, Owns
  <2>3. chg[h] \in Chgs \ {g} /\ qc[chg[h]] > 0
    BY <1>1, <1>3, <2>1, <2>2 DEF PositiveInv
  <2>4. QED
    BY <1>3, <2>2, <2>3
<1>7. ASSUME NEW c \in Chgs, cur[c] # NoUri, NEW n \in members', n[2] = cur[c] PROVE qc'[c] > 0
  <2>1. cur[c] # lease[a][2]
    BY <1>7, LeaseIsNotCurrent
  <2>2. n \in members
    BY <1>7, <2>1
  <2>3. c # g
    <3>1. CASE a \in Handlers
      <4>1. pc[a] # "idle" /\ pc[a] # "granting"
        BY DEF Owns
      <4>2. st[g] = NoToken
        BY <3>1, <4>1 DEF OwnInv, ThreadsInv, HandlerInv
      <4>3. QED
        BY <1>1, <1>7, <4>2 DEF OwnInv, GroupsInv
    <3>2. CASE a \notin Handlers
      BY <2>1, <3>2, OwnerFacts DEF Actors, HoldsCurrent
    <3>3. QED
      BY <3>1, <3>2
  <2>4. qc[c] > 0
    BY <1>7, <2>2 DEF PositiveInv, CurQueued
  <2>5. QED
    BY <1>3, <2>3, <2>4
<1>8. QED
  BY <1>4, <1>5, <1>6, <1>7 DEF PositiveInv, CurQueued

\* uri_remove.lua: only the holder of the group lowers its count.
LEMMA PositiveRemove ==
    ASSUME OwnInv, PositiveInv, NEW a \in Actors, NEW d, Owns(a), pc[a] # "granting",
           UriRemove(lease[a], d), Goto(a, "release"), UNCHANGED locals
    PROVE  PositiveInv'
<1>1. AloneMoves(a) /\ pc'[a] = "release" /\ chg'[a] = chg[a]
  BY GotoMoves DEF OwnInv, TypeInv, LocalInv
<1>2. UNCHANGED <<wait, ready, cur>>
  BY DEF UriRemove, groups
<1>3. lease[a][1] = chg[a] /\ chg[a] \in Chgs
  BY LeaseFacts
<1>4. CASE lease[a] \in members
  <2>1. members' = members \ {lease[a]} /\ qc' = [qc EXCEPT ![chg[a]] = @ - 1]
    BY <1>3, <1>4 DEF UriRemove
  <2>2. /\ qc'[chg[a]] = qc[chg[a]] - 1
        /\ \A c \in Chgs \ {chg[a]} : qc'[c] = qc[c] /\ qc[c] \in Int
    BY <1>3, <2>1 DEF OwnInv, TypeInv, GroupsOK
  <2>3. \A n \in members' : n \in members /\ n # lease[a]
    BY <2>1
  <2>4. \A n \in members' : n[2] # lease[a][2]
    BY <2>3, MembersOfLease
  <2>5. QED
    BY <1>1, <1>2, <1>4, <2>2, <2>3, <2>4, PositiveTake
<1>5. CASE lease[a] \notin members
  <2>1. UNCHANGED <<qc, members>>
    BY <1>5 DEF UriRemove, groups, queues
  <2>2. \A h \in Handlers : HasGroup(h)' => HasGroup(h) /\ chg'[h] = chg[h]
    BY <1>1, HandlerFacts DEF AloneMoves, HasGroup, Owns
  <2>3. \A c \in Chgs : CurQueued(c)' => CurQueued(c)
    BY <1>2, <2>1 DEF CurQueued
  <2>4. (wait \cup Elems(ready))' = wait \cup Elems(ready)
    BY <1>2
  <2>5. QED
    BY <1>2, <2>1, <2>2, <2>3, <2>4, CountTypes, PositiveStays
<1>6. QED
  BY <1>4, <1>5

\* uri_update.lua changes no count.
LEMMA PositiveUriUpdate ==
    ASSUME OwnInv, PositiveInv, NEW a \in Actors, UriUpdate(a) PROVE PositiveInv'
<1> DEFINE before == <<tgt[a], lease[a][2], old[a]>>
           after == <<tgt[a], lease[a][2], time[a]>>
<1>1. AloneMoves(a) /\ pc'[a] = "release"
  BY GotoMoves DEF UriUpdate, OwnInv, TypeInv, LocalInv
<1>2. UNCHANGED <<wait, ready, cur, qc>>
  BY DEF UriUpdate, groups
<1>3. members' = IF before \in members THEN (members \ {before}) \cup {after} ELSE members
  BY DEF UriUpdate
<1>4. \A n \in members' : \E m \in members : m[2] = n[2]
  <2>1. before[2] = after[2]
    OBVIOUS
  <2> HIDE DEF before, after
  <2>2. QED
    BY <1>3, <2>1
<1>5. \A h \in Handlers : HasGroup(h)' => HasGroup(h) /\ chg'[h] = chg[h]
  BY <1>1, HandlerFacts DEF AloneMoves, HasGroup, Owns
<1>6. \A c \in Chgs : CurQueued(c)' => CurQueued(c)
  BY <1>2, <1>4 DEF CurQueued
<1>7. (wait \cup Elems(ready))' = wait \cup Elems(ready)
  BY <1>2
<1>8. QED
  BY <1>2, <1>5, <1>6, <1>7, CountTypes, PositiveStays

\* uri_move.lua lowers the count of the group that the thread holds, and raises the other.
LEMMA PositiveMoveLease ==
    ASSUME OwnInv, PositiveInv, NEW a \in Actors, MoveLease(a) PROVE PositiveInv'
<1> DEFINE m == lease[a]
           g == tgt[a]
           new == <<g, m[2], time[a]>>
<1>1. AloneMoves(a) /\ pc'[a] = "release" /\ pc[a] = "move" /\ Owns(a) /\ UriMove(m, g, time[a])
  BY GotoMoves DEF MoveLease, OwnInv, TypeInv, LocalInv, Owns
<1>2. a \in Handlers
  BY <1>1 DEF Actors, OwnInv, ThreadsInv, SessionInv, WorkerInv, SessionPc, SessionWork, WorkerPc, WorkerWork
<1>3. g \in Chgs /\ chg[a] \in Chgs /\ m[1] = chg[a] /\ m \in members
  BY <1>1, <1>2, LeaseFacts, OwnerFacts DEF OwnInv, TypeInv, LocalInv, LocalsOK, LocalFacts
<1>4. CASE UNCHANGED <<groups, queues>>
  <2>1. UNCHANGED <<wait, ready, cur, qc, members>>
    BY <1>4 DEF groups, queues
  <2>2. \A h \in Handlers : HasGroup(h)' => HasGroup(h) /\ chg'[h] = chg[h]
    BY <1>1, HandlerFacts DEF AloneMoves, HasGroup, Owns
  <2>3. \A c \in Chgs : CurQueued(c)' => CurQueued(c)
    BY <2>1 DEF CurQueued
  <2>4. (wait \cup Elems(ready))' = wait \cup Elems(ready)
    BY <2>1
  <2>5. QED
    BY <2>1, <2>2, <2>3, <2>4, CountTypes, PositiveStays
<1>5. CASE ~UNCHANGED <<groups, queues>>
  <2>1. /\ g # chg[a] /\ members' = (members \ {m}) \cup {new}
        /\ qc' = [qc EXCEPT ![chg[a]] = @ - 1, ![g] = @ + 1]
        /\ wait' = IF HashExists(g) THEN wait ELSE wait \cup {g}
        /\ UNCHANGED <<ready, cur>>
    BY <1>1, <1>3, <1>5 DEF UriMove
  <2>2. /\ qc'[chg[a]] = qc[chg[a]] - 1 /\ qc'[g] = qc[g] + 1
        /\ \A c \in Chgs \ {chg[a], g} : qc'[c] = qc[c]
    BY <1>3, <2>1 DEF OwnInv, TypeInv, GroupsOK
  <2>3. \A c \in Chgs : qc[c] \in Int /\ qc[c] >= 0
    BY CountTypes DEF PositiveInv
  <2>4. /\ \A c \in Chgs \ {chg[a]} : qc'[c] \in Int /\ qc'[c] >= qc[c]
        /\ qc'[g] > 0
    BY <1>3, <2>2, <2>3
  <2>5. \A c \in wait' : c \in wait \/ (c # chg[a] /\ qc'[c] > 0)
    BY <2>1, <2>4
  <2>6. \A n \in members' : n \in members \/ n[2] = m[2]
    BY <2>1
  <2>7. UNCHANGED <<ready, cur>>
    BY <2>1
  <2>8. QED
    BY <1>1, <1>2, <1>3, <2>2, <2>4, <2>5, <2>6, <2>7, PositiveTake
<1>6. QED
  BY <1>4, <1>5

\* uri_add.lua and chg_add.lua lower no count, and what chg_add puts in wait it has counted.
LEMMA PositiveAdd ==
    ASSUME OwnInv, PositiveInv, NEW u \in Uris, NEW g \in Chgs, UriAdd(u, g) \/ ChgAdd(u, g)
    PROVE  PositiveInv'
<1>1. UNCHANGED <<ready, cur, pc, chg>>
  BY DEF UriAdd, ChgAdd, groups, locals
<1>2. \A h \in Handlers : HasGroup(h)' => HasGroup(h) /\ chg'[h] = chg[h]
  BY <1>1 DEF HasGroup, Owns
<1>3. CASE UriAdd(u, g)
  <2>1. UNCHANGED <<wait, qc>> /\ members' = members \cup {<<g, u, 0>>} /\ u \in admitted
    BY <1>3 DEF UriAdd, groups
  <2>2. \A c \in Chgs : cur'[c] # NoUri => cur'[c] # u
    BY <1>1, <2>1 DEF OwnInv, CurrentInv
  <2>3. \A c \in Chgs : cur'[c] # NoUri /\ CurQueued(c)' => cur[c] # NoUri /\ CurQueued(c)
    BY <1>1, <2>1, <2>2 DEF CurQueued
  <2>4. (wait \cup Elems(ready))' = wait \cup Elems(ready)
    BY <1>1, <2>1
  <2>5. QED
    BY <1>2, <2>1, <2>3, <2>4, CountTypes, PositiveStays
<1>4. CASE ChgAdd(u, g)
  <2>1. /\ qc' = [qc EXCEPT ![g] = @ + 1] /\ UNCHANGED members
        /\ wait' = IF HashExists(g) THEN wait ELSE wait \cup {g}
    BY <1>4 DEF ChgAdd, queues
  <2>2. \A c \in Chgs : qc[c] \in Int /\ qc'[c] \in Int /\ qc'[c] >= qc[c]
    BY <2>1 DEF OwnInv, TypeInv, GroupsOK
  <2>3. qc'[g] > 0
    BY <2>1 DEF PositiveInv, OwnInv, TypeInv, GroupsOK
  <2>4. \A c \in (wait \cup Elems(ready))' : c \in wait \cup Elems(ready) \/ qc'[c] > 0
    BY <1>1, <2>1, <2>3
  <2>5. \A c \in Chgs : cur'[c] # NoUri /\ CurQueued(c)' => cur[c] # NoUri /\ CurQueued(c)
    BY <1>1, <2>1 DEF CurQueued
  <2>6. QED
    BY <1>2, <2>2, <2>4, <2>5, CountTypes, PositiveStays
<1>5. QED
  BY <1>3, <1>4

\* The queue workers move groups, with their counts, between the queues of groups.
LEMMA PositiveMoveGroup ==
    ASSUME OwnInv, PositiveInv, NEW g \in Chgs, MoveWaitToReady(g) \/ MoveBusyToTimeout(g)
    PROVE  PositiveInv'
<1>1. UNCHANGED <<cur, pc, chg, members, qc>>
  BY DEF MoveWaitToReady, MoveBusyToTimeout, queues, locals
<1>2. /\ \A h \in Handlers : HasGroup(h)' => HasGroup(h) /\ chg'[h] = chg[h]
      /\ \A c \in Chgs : CurQueued(c)' => CurQueued(c)
  BY <1>1 DEF HasGroup, Owns, CurQueued
<1>3. (wait \cup Elems(ready))' \subseteq wait \cup Elems(ready)
  <2>1. CASE MoveWaitToReady(g)
    <3>1. ready \in Seq(Chgs) /\ Distinct(ready) /\ g \in wait /\ g \notin Elems(ready)
      BY <2>1 DEF MoveWaitToReady, OwnInv, TypeInv, GroupsOK, GroupsInv
    <3>2. Elems(Append(ready, g)) = Elems(ready) \cup {g}
      BY <3>1, AppendDistinct
    <3>3. ready' = Append(ready, g) /\ wait' = wait \ {g}
      BY <2>1 DEF MoveWaitToReady
    <3>4. Elems(ready)' = Elems(ready) \cup {g}
      BY <3>2, <3>3
    <3>5. QED
      BY <3>1, <3>3, <3>4
  <2>2. CASE MoveBusyToTimeout(g)
    BY <2>2 DEF MoveBusyToTimeout, Elems
  <2>3. QED
    BY <2>1, <2>2
<1>4. QED
  BY <1>1, <1>2, <1>3, CountTypes, PositiveStays

\* A prefetch thread takes a group from ready, where every group is counted.
LEMMA PositiveTakeGroup ==
    ASSUME OwnInv, PositiveInv, NEW h \in Handlers, BlPop(h) \/ ChgNext(h)
    PROVE  PositiveInv'
<1>1. UNCHANGED <<wait, cur, qc, members>> /\ h \in Actors
  BY HandlerFacts DEF BlPop, ChgNext, queues
<1>2. \A c \in Chgs : CurQueued(c)' => CurQueued(c)
  BY <1>1 DEF CurQueued
<1>3. CASE BlPop(h)
  <2>1. /\ ready # <<>> /\ ready' = Tail(ready)
        /\ \A k \in Handlers \ {h} : pc'[k] = pc[k] /\ chg'[k] = chg[k]
        /\ chg'[h] = Head(ready)
    BY <1>1, <1>3, HandlerFacts DEF BlPop, Goto, OwnInv, TypeInv, LocalInv, LocalsOK
  <2>2. Elems(ready) = Elems(Tail(ready)) \cup {Head(ready)}
    BY <2>1, PopDistinct DEF OwnInv, TypeInv, GroupsOK, GroupsInv
  <2>3. Elems(ready)' \subseteq Elems(ready) /\ Head(ready) \in Elems(ready)
    <3>1. Elems(ready)' = Elems(Tail(ready))
      BY <2>1
    <3>2. QED
      BY <2>2, <3>1
  <2>4. qc'[chg'[h]] > 0
    BY <1>1, <2>1, <2>3 DEF PositiveInv
  <2>5. \A k \in Handlers \ {h} : HasGroup(k)' => HasGroup(k) /\ chg'[k] = chg[k]
    BY <2>1 DEF HasGroup, Owns
  <2>6. \A c \in (wait \cup Elems(ready))' : c \in wait \cup Elems(ready)
    BY <1>1, <2>3
  <2>7. QED
    BY <1>1, <1>2, <2>4, <2>5, <2>6, CountTypes, PositiveStays
<1>4. CASE ChgNext(h)
  <2>1. /\ pc[h] = "popped" /\ UNCHANGED ready
        /\ \A k \in Handlers \ {h} : pc'[k] = pc[k] /\ chg'[k] = chg[k]
        /\ pc'[h] = "idle" \/ chg'[h] = chg[h]
    <3>1. CASE Rest(h)
      BY <1>1, <1>4, <3>1, RestMoves, HandlerFacts DEF ChgNext, AloneMoves, OwnInv, TypeInv, LocalInv
    <3>2. CASE ~Rest(h)
      BY <1>1, <1>4, <3>2, HandlerFacts DEF ChgNext, Goto, locals, OwnInv, TypeInv, LocalInv, LocalsOK
    <3>3. QED
      BY <3>1, <3>2
  <2>2. \A k \in Handlers : HasGroup(k)' => HasGroup(k) /\ chg'[k] = chg[k]
    BY <2>1 DEF HasGroup, Owns
  <2>3. (wait \cup Elems(ready))' = wait \cup Elems(ready)
    BY <1>1, <2>1
  <2>4. QED
    BY <1>1, <1>2, <2>2, <2>3, CountTypes, PositiveStays
<1>5. QED
  BY <1>3, <1>4

\* The timeout worker takes a group that nobody takes URIs from.
LEMMA PositiveLPopTimeout ==
    ASSUME OwnInv, PositiveInv, LPopTimeout PROVE PositiveInv'
<1>1. UNCHANGED <<wait, ready, cur, qc, members>>
  BY DEF LPopTimeout, queues
<1>2. \A k \in Handlers : pc'[k] = pc[k] /\ chg'[k] = chg[k]
  BY HandlerFacts, WorkerFacts DEF LPopTimeout, Goto, OwnInv, TypeInv, LocalInv, LocalsOK
<1>3. /\ \A h \in Handlers : HasGroup(h)' => HasGroup(h) /\ chg'[h] = chg[h]
      /\ \A c \in Chgs : CurQueued(c)' => CurQueued(c)
  BY <1>1, <1>2 DEF HasGroup, Owns, CurQueued
<1>4. (wait \cup Elems(ready))' = wait \cup Elems(ready)
  BY <1>1
<1>5. QED
  BY <1>1, <1>3, <1>4, CountTypes, PositiveStays

\* The group that gets a session is held by the thread, and so is counted.
LEMMA PositiveSetSession ==
    ASSUME OwnInv, PositiveInv, NEW h \in Handlers, NEW t \in Tokens, SetSession(h, t)
    PROVE  PositiveInv'
<1>1. /\ pc[h] = "claimed" /\ UNCHANGED <<wait, ready, qc, members, chg>>
      /\ cur' = [cur EXCEPT ![chg[h]] = lease[h][2]]
  BY DEF SetSession, queues
<1>2. HasGroup(h) /\ chg[h] \in Chgs
  BY <1>1, CountTypes DEF HasGroup, Owns
<1>3. \A c \in Chgs \ {chg[h]} : cur'[c] = cur[c]
  BY <1>1, <1>2 DEF OwnInv, TypeInv, GroupsOK
<1>4. \A k \in Handlers \ {h} : pc'[k] = pc[k]
  BY HandlerFacts, TokenFacts DEF SetSession, OwnInv, TypeInv, LocalInv, LocalsOK
<1>5. \A k \in Handlers : HasGroup(k)' => HasGroup(k) /\ chg'[k] = chg[k]
  BY <1>1, <1>2, <1>4 DEF HasGroup, Owns
<1>6. qc'[chg[h]] > 0
  BY <1>1, <1>2 DEF PositiveInv
<1>7. \A c \in Chgs : cur'[c] # NoUri /\ CurQueued(c)' => (cur[c] # NoUri /\ CurQueued(c)) \/ qc'[c] > 0
  BY <1>1, <1>3, <1>6 DEF CurQueued
<1>8. (wait \cup Elems(ready))' = wait \cup Elems(ready) /\ UNCHANGED qc
  BY <1>1
<1>9. QED
  BY <1>5, <1>7, <1>8, CountTypes, PositiveStays

\* The script forgets a count only when it is zero, and puts a group in wait only when it is
\* not.
LEMMA ReleaseKeepsCounts ==
    ASSUME OwnInv, PositiveInv, NEW a \in Actors, Release(a)
    PROVE  /\ UNCHANGED qc
           /\ \A c \in wait' : c \in wait \/ qc[c] > 0
           /\ \A c \in Chgs : cur'[c] # NoUri => cur'[c] = cur[c]
<1>1. CASE ~ChgReleaseAccepts(chg[a], tok[a], a \in late)
  BY <1>1 DEF Release, ChgRelease, groups
<1>2. CASE ChgReleaseAccepts(chg[a], tok[a], a \in late)
  <2>1. chg[a] \in Chgs /\ chg[a] \in counted
    BY <1>2, ReleaseIsAlone DEF Release
  <2>2. qc[chg[a]] \in Int /\ qc[chg[a]] >= 0
    BY <2>1, CountTypes DEF PositiveInv
  <2>3. CASE qc[chg[a]] > 0
    BY <1>2, <2>1, <2>3 DEF Release, ChgRelease, OwnInv, TypeInv, GroupsOK
  <2>4. CASE qc[chg[a]] = 0
    <3>1. qc' = [qc EXCEPT ![chg[a]] = 0] /\ UNCHANGED wait /\ cur' = [cur EXCEPT ![chg[a]] = NoUri]
      BY <1>2, <2>4 DEF Release, ChgRelease
    <3>2. QED
      BY <2>1, <2>4, <3>1 DEF OwnInv, TypeInv, GroupsOK
  <2>5. QED
    BY <2>2, <2>3, <2>4
<1>3. QED
  BY <1>1, <1>2

\* chg_release.lua puts the group in wait only when URIs are counted for it.
LEMMA PositiveRelease ==
    ASSUME OwnInv, PositiveInv, NEW a \in Actors, Release(a) PROVE PositiveInv'
<1>1. AloneMoves(a) /\ pc'[a] = Resting(a) /\ UNCHANGED <<ready, members>>
  BY RestMoves DEF Release, ChgRelease, OwnInv, TypeInv, LocalInv, queues, groups
<1>2. \A h \in Handlers : HasGroup(h)' => HasGroup(h) /\ chg'[h] = chg[h]
  BY <1>1, HandlerFacts DEF AloneMoves, HasGroup, Owns, Resting
<1>3. \A c \in Chgs : cur'[c] # NoUri /\ CurQueued(c)' => cur[c] # NoUri /\ CurQueued(c)
  BY <1>1, ReleaseKeepsCounts DEF CurQueued
<1>4. \A c \in (wait \cup Elems(ready))' : c \in wait \cup Elems(ready) \/ qc'[c] > 0
  BY <1>1, ReleaseKeepsCounts
<1>5. QED
  BY <1>2, <1>3, <1>4, ReleaseKeepsCounts, CountTypes, PositiveStays

\* Every step keeps the counts equal to the queues, and those of taken groups positive.
LEMMA CountStep ==
    ASSUME Faults \subseteq Survived, OwnInv, MatchInv, PositiveInv, [Next]_vars
    PROVE  MatchInv' /\ PositiveInv'
<1>1. CASE Quiet
  <2>1. MatchInv'
    BY <1>1, MatchStays DEF Quiet
  <2>2. \A c \in Chgs : CurQueued(c)' => CurQueued(c)
    BY <1>1 DEF Quiet, CurQueued
  <2>3. (wait \cup Elems(ready))' = wait \cup Elems(ready)
    BY <1>1 DEF Quiet
  <2>4. PositiveInv'
    BY <1>1, <2>2, <2>3, CountTypes, PositiveStays DEF Quiet
  <2>5. QED
    BY <2>1, <2>4
<1>2. ASSUME NEW u \in Uris, NEW c \in Chgs, UriAdd(u, c) \/ ChgAdd(u, c)
      PROVE  MatchInv' /\ PositiveInv'
  BY <1>2, MatchUriAdd, MatchChgAdd, PositiveAdd
<1>3. ASSUME NEW c \in Chgs, MoveWaitToReady(c) \/ MoveBusyToTimeout(c)
      PROVE  MatchInv' /\ PositiveInv'
  <2>1. UNCHANGED <<members, adding, qc, fresh, admitted>>
    BY <1>3 DEF MoveWaitToReady, MoveBusyToTimeout, queues, others
  <2>2. QED
    BY <1>3, <2>1, MatchStays, PositiveMoveGroup
<1>4. ASSUME NEW h \in Handlers, BlPop(h) \/ ChgNext(h) PROVE MatchInv' /\ PositiveInv'
  <2>1. UNCHANGED <<members, adding, qc, fresh, admitted>>
    BY <1>4 DEF BlPop, ChgNext, queues, others
  <2>2. QED
    BY <1>4, <2>1, MatchStays, PositiveTakeGroup
<1>5. ASSUME NEW h \in Handlers, NEW t \in Tokens, SetSession(h, t) PROVE MatchInv' /\ PositiveInv'
  <2>1. UNCHANGED <<members, adding, qc, fresh, admitted>>
    BY <1>5 DEF SetSession, queues, others
  <2>2. QED
    BY <1>5, <2>1, MatchStays, PositiveSetSession
<1>6. ASSUME LPopTimeout PROVE MatchInv' /\ PositiveInv'
  <2>1. UNCHANGED <<members, adding, qc, fresh, admitted>>
    BY <1>6 DEF LPopTimeout, queues, others
  <2>2. QED
    BY <1>6, <2>1, MatchStays, PositiveLPopTimeout
<1>7. ASSUME NEW a \in Actors, Release(a) PROVE MatchInv' /\ PositiveInv'
  <2>1. UNCHANGED <<members, adding, qc, fresh, admitted>>
    BY <1>7, ReleaseKeepsCounts DEF Release, queues, others
  <2>2. QED
    BY <1>7, <2>1, MatchStays, PositiveRelease
<1>8. ASSUME NEW a \in Actors, UriUpdate(a) \/ MoveLease(a) PROVE MatchInv' /\ PositiveInv'
  BY <1>8, MatchUriUpdate, MatchMoveLease, PositiveUriUpdate, PositiveMoveLease
<1>9. ASSUME NEW h \in Handlers, RemoveOrphan(h) PROVE MatchInv' /\ PositiveInv'
  <2>1. h \in Actors /\ Owns(h) /\ pc[h] # "granting"
    BY <1>9, HandlerFacts DEF RemoveOrphan, Owns
  <2>2. MatchInv'
    BY <1>9, MatchRemove DEF RemoveOrphan, others
  <2>3. PositiveInv'
    BY <1>9, <2>1, PositiveRemove DEF RemoveOrphan
  <2>4. QED
    BY <2>2, <2>3
<1>10. ASSUME NEW a \in Actors, CompleteLease(a) PROVE MatchInv' /\ PositiveInv'
  <2>1. Owns(a) /\ pc[a] # "granting"
    BY <1>10 DEF CompleteLease, Owns
  <2>2. MatchInv'
    BY <1>10, MatchRemove DEF CompleteLease
  <2>3. PositiveInv'
    BY <1>10, <2>1, PositiveRemove DEF CompleteLease
  <2>4. QED
    BY <2>2, <2>3
<1>11. QED
  BY <1>1, <1>2, <1>3, <1>4, <1>5, <1>6, <1>7, <1>8, <1>9, <1>10, QuietOrLoud DEF Loud

\* At first nothing is queued and nothing counted.
LEMMA CountInit == Init => MatchInv /\ PositiveInv
<1> SUFFICES ASSUME Init PROVE MatchInv /\ PositiveInv
  OBVIOUS
<1>1. PositiveInv
  BY HandlerFacts DEF Init, PositiveInv, HasGroup, Owns, Elems
<1>2. members = {} /\ adding = {} /\ \A c \in Chgs : qc[c] = 0
  BY DEF Init
<1>3. \A c \in Chgs : QueuedIn(c) = {} /\ BeingAddedTo(c) = {}
  BY <1>2 DEF QueuedIn, BeingAddedTo
<1>4. MatchInv
  BY <1>2, <1>3, FS_EmptySet DEF MatchInv, CountMatchesQueue
<1>5. QED
  BY <1>1, <1>4

\* Whatever database calls fail and streams break: the field qc of a
\* group follows its queue, and a group waits, is ready or is taken by a prefetch thread only
\* while URIs are counted for it, so chg_next never hands out an empty group.
THEOREM CountInvHolds ==
    ASSUME Faults \subseteq Survived PROVE Spec => [](MatchInv /\ PositiveInv)
<1>1. OwnInv /\ (MatchInv /\ PositiveInv) /\ [Next]_vars => (MatchInv /\ PositiveInv)'
  BY CountStep
<1>2. QED
  BY <1>1, CountInit, OwnInvHolds, PTL DEF Spec

\* The scripts that add, remove, move and release keep the field qc of every group equal to
\* the number of URIs queued for it, less those between uri_add and chg_add, whatever
\* database calls fail and streams break.
THEOREM CountsMatchQueues ==
    ASSUME Faults \subseteq Survived PROVE Spec => []CountMatchesQueue
<1>1. MatchInv /\ PositiveInv => CountMatchesQueue
  BY DEF MatchInv
<1>2. QED
  BY <1>1, CountInvHolds, PTL

(***************************************************************************)
(* No group is lost                                                        *)
(***************************************************************************)

\* Steps that add no member of another URI, delete no document and mark none for deletion.
LEMMA DocumentedStays ==
    ASSUME DocumentedInv, \A n \in members' : \E m \in members : m[2] = n[2],
           \A m \in members : docChg[m[2]] # NoChg => docChg'[m[2]] # NoChg,
           remuri' \subseteq remuri, (fresh \cup admitted)' \subseteq fresh \cup admitted
    PROVE  DocumentedInv'
<1>1. ASSUME NEW n \in members' PROVE docChg'[n[2]] # NoChg /\ n[2] \notin remuri'
  BY <1>1 DEF DocumentedInv
<1>2. QED
  BY <1>1 DEF DocumentedInv

\* Steps that touch neither queues nor documents.
LEMMA DocumentedUnchanged ==
    ASSUME DocumentedInv, UNCHANGED <<queues, docs>>,
           (fresh \cup admitted)' \subseteq fresh \cup admitted
    PROVE  DocumentedInv'
BY DocumentedStays DEF queues, docs

\* The document is saved before uri_add puts the URI in the queue.
LEMMA DocumentedUriAdd ==
    ASSUME OwnInv, DocumentedInv, NEW u \in Uris, NEW c \in Chgs, UriAdd(u, c) PROVE DocumentedInv'
<1>1. /\ members' = members \cup {<<c, u, 0>>} /\ docChg' = [docChg EXCEPT ![u] = c]
      /\ UNCHANGED <<remuri, fresh>> /\ u \in admitted /\ admitted' = admitted \ {u}
  BY DEF UriAdd
<1>2. docChg'[u] = c /\ \A v \in Uris \ {u} : docChg'[v] = docChg[v]
  BY <1>1 DEF OwnInv, TypeInv, DocsOK
<1>3. \A m \in members : m[2] \in Uris \ {u}
  BY <1>1, MemberFacts DEF OwnInv, TypeInv, QueuesOK, QueuedInv, NotYetQueued
<1>4. ASSUME NEW n \in members' PROVE docChg'[n[2]] # NoChg /\ n[2] \notin remuri'
  <2>1. CASE n \in members
    BY <1>1, <1>2, <1>3, <2>1 DEF DocumentedInv
  <2>2. CASE n[2] = u
    BY <1>1, <1>2, <2>2, NullsAssumption DEF DocumentedInv
  <2>3. QED
    BY <1>1, <2>1, <2>2
<1>5. QED
  BY <1>1, <1>4 DEF DocumentedInv

\* The queue workers delete the documents of URIs that are no longer queued.
LEMMA DocumentedRemoveFromUriQueue ==
    ASSUME OwnInv, DocumentedInv, RemoveFromUriQueue PROVE DocumentedInv'
<1>1. /\ UNCHANGED <<members, fresh, admitted>> /\ remuri' = {}
      /\ docChg' = [u \in Uris |-> IF u \in remuri THEN NoChg ELSE docChg[u]]
  BY DEF RemoveFromUriQueue, others
<1>2. \A m \in members : m[2] \in Uris
  BY MemberFacts DEF OwnInv, TypeInv, QueuesOK
<1>3. \A m \in members : docChg'[m[2]] = docChg[m[2]]
  BY <1>1, <1>2 DEF DocumentedInv
<1>4. QED
  BY <1>1, <1>3, DocumentedStays

\* updateQueuedUri writes a document and deletes none.
LEMMA DocumentedSave ==
    ASSUME OwnInv, DocumentedInv, NEW a \in Actors, Save(a) PROVE DocumentedInv'
<1> DEFINE u == lease[a][2]
<1>1. /\ docChg' = [docChg EXCEPT ![u] = tgt[a]] /\ UNCHANGED <<members, remuri, fresh, admitted>>
      /\ pc[a] = "finish"
  BY DEF Save, queues, others
<1>2. tgt[a] # NoChg
  BY <1>1, FinishFacts, LeaseFacts, NullsAssumption
     DEF Save, Owns, OwnInv, TypeInv, LocalInv, LocalFacts
<1>3. \A m \in members : docChg[m[2]] # NoChg => docChg'[m[2]] # NoChg
  <2>1. \A m \in members : m[2] \in Uris
    BY MemberFacts DEF OwnInv, TypeInv, QueuesOK
  <2>2. QED
    BY <1>1, <1>2, <2>1 DEF OwnInv, TypeInv, DocsOK
<1>4. QED
  BY <1>1, <1>3, DocumentedStays

\* uri_remove.lua marks the document of the member that it removes, the only one of its URI.
LEMMA DocumentedRemove ==
    ASSUME OwnInv, DocumentedInv, NEW a \in Actors, NEW d, Owns(a), UriRemove(lease[a], d),
           UNCHANGED <<docs, fresh, admitted>>
    PROVE  DocumentedInv'
<1> DEFINE u == lease[a][2]
<1>1. UNCHANGED docChg /\ members' \subseteq members
  BY DEF docs, UriRemove, queues
<1>2. CASE lease[a] \notin members
  BY <1>2, DocumentedUnchanged DEF UriRemove
<1>3. CASE lease[a] \in members
  <2>1. members' = members \ {lease[a]} /\ remuri' \subseteq remuri \cup {u}
    BY <1>3 DEF UriRemove
  <2>2. \A n \in members' : n[2] # u
    BY <2>1, MembersOfLease
  <2>3. u \notin fresh \cup admitted
    BY <1>3 DEF OwnInv, QueuedInv, NotYetQueued
  <2>4. QED
    BY <1>1, <2>1, <2>2, <2>3 DEF DocumentedInv
<1>4. QED
  BY <1>2, <1>3

\* uri_update.lua and uri_move.lua keep the URI of the member that they replace.
LEMMA DocumentedRewrite ==
    ASSUME OwnInv, DocumentedInv, NEW a \in Actors, UriUpdate(a) \/ MoveLease(a)
    PROVE  DocumentedInv'
<1>1. UNCHANGED <<remuri, docChg, fresh, admitted>>
  BY DEF UriUpdate, MoveLease, UriMove, queues, docs, others
<1>2. ASSUME NEW before \in members, NEW after, after[2] = before[2],
             members' = (members \ {before}) \cup {after}
      PROVE  \A n \in members' : \E m \in members : m[2] = n[2]
  BY <1>2
<1>3. \A n \in members' : \E m \in members : m[2] = n[2]
  <2>1. CASE UNCHANGED members
    BY <2>1
  <2>2. CASE UriUpdate(a)
    <3>1. \/ UNCHANGED members
          \/ /\ <<tgt[a], lease[a][2], old[a]>> \in members
             /\ members' = (members \ {<<tgt[a], lease[a][2], old[a]>>})
                             \cup {<<tgt[a], lease[a][2], time[a]>>}
      BY <2>2 DEF UriUpdate
    <3>2. QED
      BY <1>2, <2>1, <3>1
  <2>3. CASE MoveLease(a)
    <3>1. \/ UNCHANGED members
          \/ /\ lease[a] \in members
             /\ members' = (members \ {lease[a]}) \cup {<<tgt[a], lease[a][2], time[a]>>}
      BY <2>3 DEF MoveLease, UriMove, queues
    <3>2. QED
      BY <1>2, <2>1, <3>1
  <2>4. QED
    BY <2>2, <2>3
<1>4. QED
  BY <1>1, <1>3, DocumentedStays

\* As long as nothing fails, a queued URI has its document.
LEMMA DocumentedStep ==
    ASSUME Faults = {}, OwnInv, DocumentedInv, [Next]_vars PROVE DocumentedInv'
<1>1. ASSUME NEW u \in Uris, EnsureExecutionActive(u) PROVE DocumentedInv'
  BY <1>1, DocumentedUnchanged DEF EnsureExecutionActive
<1>2. ASSUME NEW u \in Uris, NEW c \in Chgs, UriAdd(u, c) \/ ChgAdd(u, c) PROVE DocumentedInv'
  BY <1>2, DocumentedUriAdd, DocumentedUnchanged DEF ChgAdd
<1>3. ASSUME QueueWorkers PROVE DocumentedInv'
  BY <1>3, DocumentedRemoveFromUriQueue, DocumentedUnchanged
     DEF QueueWorkers, MoveWaitToReady, MoveBusyToTimeout, others
<1>4. ASSUME NEW h \in Handlers, Prefetch(h) PROVE DocumentedInv'
  <2>1. CASE RemoveOrphan(h)
    <3>1. Owns(h) /\ h \in Actors
      BY <2>1, HandlerFacts DEF RemoveOrphan, Owns
    <3>2. QED
      BY <2>1, <3>1, DocumentedRemove DEF RemoveOrphan, others
  <2>2. ~RepairMove(h) /\ ~RepairRelease(h)
    BY DEF RepairMove, RepairRelease, OwnInv, ThreadsInv, HandlerInv, HandlerWork
  <2>3. CASE ~RemoveOrphan(h)
    <3>1. UNCHANGED <<queues, docs, fresh, admitted>>
      BY <1>4, <2>2, <2>3
         DEF Prefetch, BlPop, ChgNext, NextUriNone, NextUri, NextUriFails, PreFetchFails, PreFetch,
             Expire, Claim, ClaimFails, Grant, SetSession, GiveUp, others
    <3>2. QED
      BY <3>1, DocumentedUnchanged
  <2>4. QED
    BY <2>1, <2>3
<1>5. ASSUME NEW t \in Tokens, PageCompleted(t) PROVE DocumentedInv'
  <2>1. UNCHANGED <<queues, docs, fresh, admitted>>
    BY <1>5 DEF PageCompleted, Lookup, Refresh, RefreshFails, OnCompleted, PostFetchFailureFails,
                OnError, OnCancelled, GiveUp, others
  <2>2. QED
    BY <2>1, DocumentedUnchanged
<1>6. ASSUME NEW a \in Actors, Finish(a) PROVE DocumentedInv'
  <2>1. CASE CompleteLease(a)
    <3>1. Owns(a)
      BY <2>1 DEF CompleteLease, Owns
    <3>2. QED
      BY <2>1, <3>1, DocumentedRemove DEF CompleteLease
  <2>2. CASE FinishFails(a) \/ Release(a)
    BY <2>2, DocumentedUnchanged DEF FinishFails, Release, others
  <2>3. QED
    BY <1>6, <2>1, <2>2, DocumentedSave, DocumentedRewrite DEF Finish
<1>7. ASSUME FetchTimeoutWorker PROVE DocumentedInv'
  BY <1>7, DocumentedUnchanged
     DEF FetchTimeoutWorker, LPopTimeout, ProcessTimedOutChg, ProcessTimedOutChgFails, GiveUp, others
<1>8. ~Reconcile /\ ~Crash /\ \A u \in Uris : ~(Flush(u) \/ LoseWrite(u))
  <2>1. \A m \in members : Execution[m[2]] \in Executions
    BY MemberFacts, ExecutionAssumption DEF OwnInv, TypeInv, QueuesOK
  <2>2. QED
    BY <2>1 DEF Reconcile, Abort, Terminate, EndAborted, DeleteQueuedUri, CleanupIfEmpty, Crash,
                Flush, LoseWrite, OwnInv, NothingAborted
<1>9. CASE UNCHANGED vars
  BY <1>9, DocumentedUnchanged DEF vars, others
<1>10. QED
  BY <1>1, <1>2, <1>3, <1>4, <1>5, <1>6, <1>7, <1>8, <1>9 DEF Next

\* Steps that let no group go that has a hash.
LEMMA HeldStays ==
    ASSUME HeldInv,
           \A c \in Chgs : HashExists(c)' => Held(c)' \/ (HashExists(c) /\ (Held(c) => Held(c)')),
           \A c \in Chgs : qc'[c] # 0 => c \in counted' \/ (qc[c] # 0 /\ (c \in counted => c \in counted'))
    PROVE  HeldInv'
BY DEF HeldInv

\* A hash consists of the count, the current URI and the token.
LEMMA HashStays == \A c \in Chgs : UNCHANGED <<counted, cur, st>> => (HashExists(c)' => HashExists(c))
BY DEF HashExists

\* The timeout worker always finds the document of the URI it is to finish, and so releases
\* every group that it popped.
LEMMA WorkerDoesNotFail ==
    ASSUME Faults = {}, OwnInv, QueuedCurrent, DocumentedInv PROVE ~ProcessTimedOutChgFails
<1> SUFFICES ASSUME ProcessTimedOutChgFails PROVE FALSE
  OBVIOUS
<1> DEFINE c == chg[Worker]
<1>1. pc[Worker] = "popped" /\ cur[c] # NoUri /\ docChg[cur[c]] = NoChg
  BY DEF ProcessTimedOutChgFails
<1>2. c \in Chgs /\ c \notin busy
  BY <1>1, NullsAssumption DEF OwnInv, ThreadsInv, WorkerInv, TypeInv, GroupsOK, Placed
<1>3. ASSUME NEW a \in Actors \ Handlers, Pending(a), chg[a] = c PROVE FALSE
  <2>1. a \in Tokens
    BY <1>1, <1>3 DEF Actors, Pending
  <2>2. QED
    BY <1>2, <1>3, <2>1 DEF Pending, OwnInv, ThreadsInv, SessionInv, SessionWork
<1>4. CurQueued(c)
  BY <1>1, <1>2, <1>3 DEF QueuedCurrent
<1>5. QED
  BY <1>1, <1>4 DEF CurQueued, DocumentedInv

\* A group that is counted and had no hash is in wait.
LEMMA HeldCounts ==
    ASSUME HeldInv, NEW g \in Chgs, NEW D, g \in D, D \ {g} \subseteq counted, counted' = counted \cup D,
           wait' = IF HashExists(g) THEN wait ELSE wait \cup {g},
           UNCHANGED <<ready, busy, timeout, cur, st>>,
           \A h \in Handlers : pc[h] = "popped" => pc'[h] = "popped" /\ chg'[h] = chg[h],
           chg'[Worker] = chg[Worker],
           \A c \in Chgs \ D : qc'[c] = qc[c]
    PROVE  HeldInv'
<1>1. ASSUME NEW c \in Chgs, Held(c) PROVE Held(c)'
  <2>1. CASE c \in wait \cup busy \cup Elems(ready) \cup Elems(timeout)
    BY <2>1 DEF Held
  <2>2. QED
    BY <1>1, <2>1 DEF Held
<1>2. ~HashExists(g) => Held(g)'
  <2>1. ~HashExists(g) => g \in wait'
    OBVIOUS
  <2>2. QED
    BY <2>1 DEF Held
<1>3. ASSUME NEW c \in Chgs, HashExists(c)' PROVE Held(c)'
  <2>1. c = g \/ HashExists(c)
    BY <1>3 DEF HashExists
  <2>2. HashExists(c) => Held(c)'
    BY <1>1 DEF HeldInv
  <2>3. QED
    BY <1>2, <2>1, <2>2
<1>4. \A c \in Chgs : qc'[c] # 0 => c \in counted'
  BY DEF HeldInv
<1>5. QED
  BY <1>3, <1>4 DEF HeldInv

\* chg_add.lua puts a group in wait that had no hash.
LEMMA HeldAdd ==
    ASSUME OwnInv, HeldInv, NEW u \in Uris, NEW c \in Chgs, UriAdd(u, c) \/ ChgAdd(u, c)
    PROVE  HeldInv'
<1>1. UNCHANGED <<pc, chg>>
  BY DEF UriAdd, ChgAdd, locals
<1>2. CASE UriAdd(u, c)
  BY <1>1, <1>2, HeldStays DEF UriAdd, groups, Held, HashExists
<1>3. CASE ChgAdd(u, c)
  <2>1. \A d \in Chgs \ {c} : qc'[d] = qc[d]
    BY <1>3 DEF ChgAdd, OwnInv, TypeInv, GroupsOK
  <2>2. QED
    BY <1>1, <1>3, <2>1, HeldCounts DEF ChgAdd
<1>4. QED
  BY <1>2, <1>3

\* The queue workers take a group from one queue and put it in the other in one step.
LEMMA HeldMoveGroup ==
    ASSUME OwnInv, HeldInv, NEW g \in Chgs, MoveWaitToReady(g) \/ MoveBusyToTimeout(g)
    PROVE  HeldInv'
<1>1. UNCHANGED <<cur, st, counted, qc, pc, chg>>
  BY DEF MoveWaitToReady, MoveBusyToTimeout, locals
<1>2. Placed \subseteq Placed'
  <2>1. CASE MoveWaitToReady(g)
    <3>1. ready \in Seq(Chgs) /\ Distinct(ready) /\ g \in wait /\ g \notin Elems(ready)
      BY <2>1 DEF MoveWaitToReady, OwnInv, TypeInv, GroupsOK, GroupsInv
    <3>2. Elems(Append(ready, g)) = Elems(ready) \cup {g}
      BY <3>1, AppendDistinct
    <3>3. ready' = Append(ready, g) /\ wait' = wait \ {g} /\ UNCHANGED <<busy, timeout>>
      BY <2>1 DEF MoveWaitToReady
    <3>4. Elems(ready)' = Elems(ready) \cup {g} /\ Elems(timeout)' = Elems(timeout)
      BY <3>2, <3>3
    <3>5. QED
      BY <3>3, <3>4 DEF Placed
  <2>2. CASE MoveBusyToTimeout(g)
    <3>1. timeout \in Seq(Chgs) /\ Distinct(timeout) /\ g \in busy /\ g \notin Elems(timeout)
      BY <2>2 DEF MoveBusyToTimeout, OwnInv, TypeInv, GroupsOK, GroupsInv
    <3>2. Elems(Append(timeout, g)) = Elems(timeout) \cup {g}
      BY <3>1, AppendDistinct
    <3>3. timeout' = Append(timeout, g) /\ busy' = busy \ {g} /\ UNCHANGED <<wait, ready>>
      BY <2>2 DEF MoveBusyToTimeout
    <3>4. Elems(timeout)' = Elems(timeout) \cup {g} /\ Elems(ready)' = Elems(ready)
      BY <3>2, <3>3
    <3>5. QED
      BY <3>3, <3>4 DEF Placed
  <2>3. QED
    BY <2>1, <2>2
<1>3. \A c \in Chgs : Held(c) => Held(c)'
  BY <1>1, <1>2 DEF Held, Placed
<1>4. QED
  BY <1>1, <1>3, HashStays, HeldStays

\* BLPOP hands the group to the thread, and chg_next makes it busy.
LEMMA HeldTakeGroup ==
    ASSUME OwnInv, HeldInv, NEW h \in Handlers, BlPop(h) \/ ChgNext(h) PROVE HeldInv'
<1>1. UNCHANGED <<cur, st, counted, qc, wait, timeout>> /\ h \in Actors /\ Elems(timeout)' = Elems(timeout)
  BY HandlerFacts DEF BlPop, ChgNext
<1>2. \A c \in Chgs : Held(c) => Held(c)'
  <2>1. CASE BlPop(h)
    <3>1. /\ ready # <<>> /\ ready' = Tail(ready) /\ UNCHANGED busy /\ pc[h] = "idle"
          /\ \A a \in Actors \ {h} : pc'[a] = pc[a] /\ chg'[a] = chg[a]
          /\ pc'[h] = "popped" /\ chg'[h] = Head(ready)
      BY <1>1, <2>1 DEF BlPop, Goto, OwnInv, TypeInv, LocalInv, LocalsOK
    <3>2. Elems(ready) = Elems(Tail(ready)) \cup {Head(ready)}
      BY <3>1, PopDistinct DEF OwnInv, TypeInv, GroupsOK, GroupsInv
    <3>3. Elems(ready)' = Elems(Tail(ready))
      BY <3>1
    <3>4. /\ \A k \in Handlers : pc[k] = "popped" => pc'[k] = "popped" /\ chg'[k] = chg[k]
          /\ chg'[Worker] = chg[Worker]
      BY <3>1, HandlerFacts, WorkerFacts
    <3>5. QED
      BY <1>1, <3>1, <3>2, <3>3, <3>4 DEF Held
  <2>2. CASE ChgNext(h)
    <3>1. /\ pc[h] = "popped" /\ UNCHANGED ready /\ busy' = busy \cup {chg[h]}
          /\ Elems(ready)' = Elems(ready)
      BY <2>2 DEF ChgNext
    <3>2. \A a \in Actors \ {h} : pc'[a] = pc[a] /\ chg'[a] = chg[a]
      <4>1. CASE Rest(h)
        BY <1>1, <4>1, RestMoves DEF AloneMoves, OwnInv, TypeInv, LocalInv
      <4>2. CASE ~Rest(h)
        BY <2>2, <4>2 DEF ChgNext, Goto, locals, OwnInv, TypeInv, LocalInv, LocalsOK
      <4>3. QED
        BY <4>1, <4>2
    <3>3. /\ \A k \in Handlers \ {h} : pc[k] = "popped" => pc'[k] = "popped" /\ chg'[k] = chg[k]
          /\ chg'[Worker] = chg[Worker]
      BY <3>2, HandlerFacts, WorkerFacts
    <3>4. QED
      BY <1>1, <3>1, <3>3 DEF Held
  <2>3. QED
    BY <2>1, <2>2
<1>3. QED
  BY <1>1, <1>2, HashStays, HeldStays

\* LPOP hands the group to the timeout worker.
LEMMA HeldLPopTimeout == ASSUME OwnInv, HeldInv, LPopTimeout PROVE HeldInv'
<1>1. UNCHANGED <<cur, st, counted, qc, wait, ready, busy>> /\ pc[Worker] = "idle" /\ chg[Worker] = NoChg
  BY DEF LPopTimeout, OwnInv, ThreadsInv, WorkerInv
<1>2. /\ timeout # <<>> /\ timeout' = Tail(timeout) /\ chg'[Worker] = Head(timeout)
      /\ \A k \in Handlers : pc'[k] = pc[k] /\ chg'[k] = chg[k]
  BY HandlerFacts, WorkerFacts DEF LPopTimeout, Goto, OwnInv, TypeInv, LocalInv, LocalsOK
<1>3. Elems(timeout) = Elems(Tail(timeout)) \cup {Head(timeout)}
  BY <1>2, PopDistinct DEF OwnInv, TypeInv, GroupsOK, GroupsInv
<1>4. Elems(timeout)' = Elems(Tail(timeout)) /\ Elems(ready)' = Elems(ready)
  BY <1>1, <1>2
<1>5. \A c \in Chgs : Held(c) => Held(c)'
  BY <1>1, <1>2, <1>3, <1>4, NullsAssumption DEF Held
<1>6. QED
  BY <1>1, <1>5, HashStays, HeldStays

\* The group that gets a current URI and a token is busy.
LEMMA HeldSetSession ==
    ASSUME OwnInv, HeldInv, NEW h \in Handlers, NEW t \in Tokens, SetSession(h, t) PROVE HeldInv'
<1>1. /\ pc[h] = "claimed" /\ UNCHANGED <<counted, qc, wait, ready, busy, timeout, chg>>
      /\ Elems(ready)' = Elems(ready) /\ Elems(timeout)' = Elems(timeout)
  BY DEF SetSession
<1>2. chg[h] \in busy /\ chg[h] \in Chgs
  BY <1>1, OwnerFacts, LeaseFacts, HandlerFacts DEF Owns
<1>3. \A c \in Chgs \ {chg[h]} : cur'[c] = cur[c] /\ st'[c] = st[c]
  BY <1>2 DEF SetSession, OwnInv, TypeInv, GroupsOK
<1>4. \A k \in Handlers : pc[k] = "popped" => pc'[k] = "popped"
  BY <1>1, HandlerFacts, TokenFacts DEF SetSession, OwnInv, TypeInv, LocalInv, LocalsOK
<1>5. \A c \in Chgs : Held(c) => Held(c)'
  BY <1>1, <1>4 DEF Held
<1>6. Held(chg[h])
  BY <1>2 DEF Held
<1>7. ASSUME NEW c \in Chgs, HashExists(c)' PROVE Held(c)'
  <2>1. CASE c = chg[h]
    BY <1>5, <1>6, <2>1
  <2>2. CASE c # chg[h]
    <3>1. HashExists(c)
      BY <1>1, <1>3, <1>7, <2>2 DEF HashExists
    <3>2. QED
      BY <1>5, <3>1 DEF HeldInv
  <2>3. QED
    BY <2>1, <2>2
<1>8. QED
  BY <1>1, <1>7, HeldStays

\* The groups that an actor lets go on its way to the release: none.
LEMMA HeldOnTheWay ==
    ASSUME OwnInv, NEW a \in Actors, Owns(a), Goto(a, "release"), UNCHANGED locals
    PROVE  /\ \A h \in Handlers : pc[h] = "popped" => pc'[h] = "popped" /\ chg'[h] = chg[h]
           /\ chg'[Worker] = chg[Worker]
<1>1. AloneMoves(a) /\ chg'[a] = chg[a]
  BY GotoMoves DEF OwnInv, TypeInv, LocalInv
<1>2. pc[a] # "popped"
  BY DEF Owns
<1>3. QED
  BY <1>1, <1>2, HandlerFacts, WorkerFacts DEF AloneMoves

\* uri_remove.lua takes the URI from the count of the group, which the actor still holds.
LEMMA HeldRemove ==
    ASSUME OwnInv, HeldInv, NEW a \in Actors, NEW d, Owns(a),
           UriRemove(lease[a], d), Goto(a, "release"), UNCHANGED locals
    PROVE  HeldInv'
<1>1. lease[a][1] = chg[a] /\ chg[a] \in Chgs /\ chg[a] \in counted
  BY LeaseFacts
<1>2. /\ UNCHANGED <<wait, ready, busy, timeout, cur, st, counted>>
      /\ \A c \in Chgs \ {chg[a]} : qc'[c] = qc[c]
  <2>1. CASE lease[a] \in members
    <3>1. qc' = [qc EXCEPT ![chg[a]] = @ - 1] /\ counted' = counted \cup {chg[a]}
      BY <1>1, <2>1 DEF UriRemove
    <3>2. QED
      BY <1>1, <2>1, <3>1 DEF UriRemove, OwnInv, TypeInv, GroupsOK
  <2>2. CASE lease[a] \notin members
    BY <2>2 DEF UriRemove, groups
  <2>3. QED
    BY <2>1, <2>2
<1>3. Elems(ready)' = Elems(ready) /\ Elems(timeout)' = Elems(timeout)
  BY <1>2
<1>4. \A c \in Chgs : Held(c) => Held(c)'
  BY <1>2, <1>3, HeldOnTheWay DEF Held
<1>5. QED
  BY <1>1, <1>2, <1>4, HashStays, HeldStays DEF HeldInv

\* uri_update.lua leaves the groups alone; uri_move.lua puts the target in wait when it had
\* no hash, and the source stays with the thread that moves the URI.
LEMMA HeldRewrite ==
    ASSUME OwnInv, HeldInv, NEW a \in Actors, UriUpdate(a) \/ MoveLease(a) PROVE HeldInv'
<1>1. Owns(a) /\ Goto(a, "release") /\ UNCHANGED locals
  BY DEF UriUpdate, MoveLease, Owns
<1>2. CASE UNCHANGED groups
  <2>1. UNCHANGED <<wait, ready, busy, timeout, cur, st, counted, qc>>
    BY <1>2 DEF groups
  <2>2. Elems(ready)' = Elems(ready) /\ Elems(timeout)' = Elems(timeout)
    BY <2>1
  <2>3. \A c \in Chgs : Held(c) => Held(c)'
    BY <1>1, <2>1, <2>2, HeldOnTheWay DEF Held
  <2>4. QED
    BY <2>1, <2>3, HashStays, HeldStays
<1>3. CASE MoveLease(a) /\ ~UNCHANGED groups
  <2> DEFINE g == tgt[a]
  <2>1. lease[a][1] = chg[a] /\ chg[a] \in Chgs /\ chg[a] \in counted
    BY <1>1, LeaseFacts
  <2>2. /\ counted' = counted \cup {chg[a], g}
        /\ qc' = [qc EXCEPT ![chg[a]] = @ - 1, ![g] = @ + 1]
        /\ wait' = IF HashExists(g) THEN wait ELSE wait \cup {g}
        /\ UNCHANGED <<ready, busy, timeout, cur, st>>
    BY <1>3, <2>1 DEF MoveLease, UriMove
  <2>3. counted' \subseteq Chgs
    <3>1. g \in Chgs
      <4>1. a \in Handlers /\ pc[a] = "move"
        BY <1>3 DEF MoveLease, Actors, OwnInv, ThreadsInv, SessionInv, WorkerInv, SessionPc, SessionWork,
                    WorkerPc, WorkerWork
      <4>2. QED
        BY <4>1 DEF OwnInv, TypeInv, LocalInv, LocalsOK, LocalFacts
    <3>2. QED
      BY <2>1, <2>2, <3>1 DEF OwnInv, TypeInv, GroupsOK
  <2>4. g \in Chgs
    BY <2>2, <2>3
  <2>5. \A c \in Chgs \ {chg[a], g} : qc'[c] = qc[c]
    BY <2>1, <2>2, <2>4 DEF OwnInv, TypeInv, GroupsOK
  <2>6. {chg[a], g} \ {g} \subseteq counted
    BY <2>1
  <2>7. QED
    BY <1>1, <2>2, <2>4, <2>5, <2>6, HeldOnTheWay, HeldCounts
<1>4. QED
  BY <1>2, <1>3 DEF UriUpdate

\* chg_release.lua puts a group with queued URIs in wait and deletes the hash of the others;
\* a release that is refused comes from a prefetch thread that no longer has the group.
LEMMA HeldRelease ==
    ASSUME Faults = {}, OwnInv, PositiveInv, HeldInv, NEW a \in Actors, Release(a)
    PROVE  HeldInv'
<1> DEFINE g == chg[a]
<1>1. AloneMoves(a) /\ pc[a] = "release" /\ UNCHANGED <<ready, timeout>>
  BY RestMoves DEF Release, ChgRelease, groups, OwnInv, TypeInv, LocalInv
<1>2. Elems(ready)' = Elems(ready) /\ Elems(timeout)' = Elems(timeout)
  BY <1>1
<1>3. \A h \in Handlers : pc[h] = "popped" => pc'[h] = "popped" /\ chg'[h] = chg[h]
  BY <1>1, HandlerFacts DEF AloneMoves
<1>4. CASE ~ChgReleaseAccepts(g, tok[a], a \in late)
  <2>1. a \in Handlers
    <3>1. a \in Tokens => a \notin late
      BY DEF OwnInv, ThreadsInv, SessionInv
    <3>2. QED
      BY <1>1, <1>4, <3>1, ReleaseAccepted DEF Pending
  <2>2. chg'[Worker] = chg[Worker]
    BY <1>1, <2>1, HandlerFacts, WorkerFacts DEF AloneMoves
  <2>3. UNCHANGED <<wait, busy, cur, st, counted, qc>>
    BY <1>4 DEF Release, ChgRelease, groups
  <2>4. \A c \in Chgs : Held(c) => Held(c)'
    BY <1>2, <1>3, <2>2, <2>3 DEF Held
  <2>5. QED
    BY <2>3, <2>4, HashStays, HeldStays
<1>5. CASE ChgReleaseAccepts(g, tok[a], a \in late)
  <2>1. g \in Chgs /\ g \in counted
    BY <1>1, <1>5, ReleaseIsAlone
  <2>2. UNCHANGED qc
    BY ReleaseKeepsCounts
  <2>3. qc[g] \in Int /\ qc[g] >= 0
    BY <2>1, CountTypes DEF PositiveInv
  <2>4. /\ busy' = busy \ {g} /\ wait \subseteq wait' /\ counted \ {g} \subseteq counted'
        /\ counted' \subseteq counted
        /\ cur'[g] = NoUri /\ st'[g] = NoToken
        /\ \A c \in Chgs \ {g} : cur'[c] = cur[c] /\ st'[c] = st[c]
    BY <1>5, <2>1 DEF Release, ChgRelease, OwnInv, TypeInv, GroupsOK
  <2>5. \/ qc[g] > 0 /\ g \in wait' /\ g \in counted'
        \/ qc[g] = 0 /\ g \notin counted'
    BY <1>5, <2>1, <2>3 DEF Release, ChgRelease
  <2>6. ASSUME NEW c \in Chgs \ {g}, Held(c) PROVE Held(c)'
    <3>1. chg[Worker] = c => chg'[Worker] = c
      BY <1>1, <2>6, WorkerFacts DEF AloneMoves
    <3>2. QED
      BY <1>2, <1>3, <2>4, <2>6, <3>1 DEF Held
  <2>7. ASSUME NEW c \in Chgs, c = g, HashExists(c)' PROVE Held(c)'
    BY <2>4, <2>5, <2>7 DEF HashExists, Held
  <2>8. ASSUME NEW c \in Chgs \ {g}, HashExists(c)' PROVE Held(c)'
    <3>1. HashExists(c)
      BY <2>4, <2>8 DEF HashExists
    <3>2. QED
      BY <2>6, <3>1 DEF HeldInv
  <2>9. \A c \in Chgs : qc'[c] # 0 => c \in counted'
    BY <2>2, <2>4, <2>5 DEF HeldInv
  <2>10. QED
    BY <2>7, <2>8, <2>9 DEF HeldInv
<1>6. QED
  BY <1>4, <1>5

\* A step that is quiet lets a group go only when the timeout worker fails.
LEMMA HeldQuiet == ASSUME Quiet, ~ProcessTimedOutChgFails, HeldInv PROVE HeldInv'
<1>1. UNCHANGED <<wait, ready, busy, timeout, counted, qc, cur, st>> /\ chg'[Worker] = chg[Worker]
  BY DEF Quiet
<1>2. \A h \in Handlers : pc[h] = "popped" => pc'[h] = "popped" /\ chg'[h] = chg[h]
  BY DEF Quiet
<1>3. Elems(ready)' = Elems(ready) /\ Elems(timeout)' = Elems(timeout)
  BY <1>1
<1>4. \A c \in Chgs : Held(c) => Held(c)'
  BY <1>1, <1>2, <1>3 DEF Held
<1>5. QED
  BY <1>1, <1>4, HashStays, HeldStays

\* Every step keeps the groups that have a hash where a thread finds them.
LEMMA HeldStep ==
    ASSUME Faults = {}, OwnInv, PositiveInv, QueuedCurrent, DocumentedInv, HeldInv, [Next]_vars
    PROVE  HeldInv'
<1>1. Faults \subseteq Survived /\ "streamError" \notin Faults
  OBVIOUS
<1>2. ASSUME NEW h \in Handlers, RemoveOrphan(h) PROVE HeldInv'
  <2>1. h \in Actors /\ Owns(h)
    BY <1>2, HandlerFacts DEF RemoveOrphan, Owns
  <2>2. QED
    BY <1>2, <2>1, HeldRemove DEF RemoveOrphan
<1>3. ASSUME NEW a \in Actors, CompleteLease(a) PROVE HeldInv'
  <2>1. Owns(a)
    BY <1>3 DEF CompleteLease, Owns
  <2>2. QED
    BY <1>3, <2>1, HeldRemove DEF CompleteLease
<1>4. CASE Quiet
  BY <1>4, HeldQuiet, WorkerDoesNotFail
<1>5. QED
  BY <1>1, <1>2, <1>3, <1>4, QuietOrLoud, HeldAdd, HeldMoveGroup, HeldTakeGroup, HeldLPopTimeout,
     HeldSetSession, HeldRewrite, HeldRelease DEF Loud

\* At first nothing is queued.
LEMMA HeldInit == Init => QueuedCurrent /\ DocumentedInv /\ HeldInv
BY DEF Init, QueuedCurrent, DocumentedInv, HeldInv, HashExists

\* A group with queued URIs of which none is being added is counted, so it has a hash.
LEMMA HeldGroups == MatchInv /\ PositiveInv /\ HeldInv => NoGroupLost
<1> SUFFICES ASSUME MatchInv, HeldInv, NEW c \in Chgs, QueuedIn(c) # {}, BeingAddedTo(c) = {}
             PROVE  Held(c)
  BY DEF NoGroupLost, Held
<1>1. IsFiniteSet(QueuedIn(c))
  BY FS_Subset DEF MatchInv, QueuedIn
<1>2. Cardinality(QueuedIn(c)) # 0 /\ Cardinality(QueuedIn(c)) \in Nat
  BY <1>1, FS_EmptySet, FS_CardinalityType
<1>3. Cardinality(BeingAddedTo(c)) = 0
  BY FS_EmptySet
<1>4. qc[c] # 0
  BY <1>2, <1>3 DEF MatchInv, CountMatchesQueue
<1>5. QED
  BY <1>4 DEF HeldInv, HashExists

\* The scripts, the queue workers, the prefetch threads, the completion streams and the
\* timeout worker lose no group among them: as long as nothing fails, a group with queued
\* URIs is in a queue of groups or in the hands of a thread that will put it there, in
\* whatever order they run.
THEOREM NoGroupIsLost == ASSUME Faults = {} PROVE Spec => []NoGroupLost
<1> DEFINE Inv == QueuedCurrent /\ DocumentedInv /\ HeldInv
<1>1. Faults \subseteq Survived /\ "streamError" \notin Faults
  OBVIOUS
<1>2. Init => Inv
  BY HeldInit
<1>3. OwnInv /\ (MatchInv /\ PositiveInv) /\ Inv /\ [Next]_vars => Inv'
  BY <1>1, CurrentStep, DocumentedStep, HeldStep
<1>4. Spec => []OwnInv
  BY <1>1, OwnInvHolds
<1>5. Spec => [](MatchInv /\ PositiveInv)
  BY <1>1, CountInvHolds
<1>6. (MatchInv /\ PositiveInv) /\ Inv => NoGroupLost
  BY HeldGroups
<1> HIDE DEF Inv
<1>7. QED
  BY <1>2, <1>3, <1>4, <1>5, <1>6, PTL DEF Spec
=============================================================================
