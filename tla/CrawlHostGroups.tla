-------------------------- MODULE CrawlHostGroups --------------------------
(***************************************************************************)
(* The life of a crawl host group and of the URIs queued for it: the Redis *)
(* scripts of frontier/src/main/resources/lua, the prefetch threads that   *)
(* take groups and lease URIs, the harvesters' sessions, the fetch-timeout *)
(* worker, the queue workers and the abort cleanup, with RethinkDB's       *)
(* uri_queue documents beside them.  Every Lua script and every database   *)
(* write is one step; the threads interleave between them.                 *)
(*                                                                         *)
(* A queue member is <<group, uri, time>>: the time stands for the earliest*)
(* fetch time in the member's key, in whole seconds.  A retry is put off to*)
(* a later time.                                                           *)
(*                                                                         *)
(* Definitions named ...Mutant are faulty variants of the definition that  *)
(* follows them.  No specification uses them: they show that a property    *)
(* would notice the fault.                                                 *)
(***************************************************************************)
EXTENDS Integers, Sequences, FiniteSets

CONSTANTS Chgs,        \* crawl host groups
          Uris,        \* URIs that will be queued
          Sequence,    \* the sequence number of each URI
          Executions,  \* crawl executions
          Execution,   \* the execution each URI belongs to
          Tokens,      \* session tokens, each generated once
          Handlers,    \* prefetch threads, one PreFetchHandler each
          Worker,      \* the fetch-timeout worker
          MaxRetries,  \* max retries of the crawl host group configuration
          MaxCount,    \* bound: the retries that a document may count
          MaxTime,     \* bound: the latest fetch time
          Faults,      \* the faults that may happen, a subset of FaultKinds
          NoChg, NoUri, NoToken, NoLease

FaultKinds == {"crash",        \* the frontier process stops and starts again
               "dbError",      \* a RethinkDB call throws
               "streamError",  \* a harvester's completion stream breaks
               "docLost",      \* RethinkDB restarts and has lost soft writes
               "slowPost",     \* post-processing outlasts its 60 s extension
               "stall",        \* a prefetch thread outlasts the busy timeout
               "abort",        \* an execution is asked to abort
               "terminal"}     \* an execution ends while URIs are queued

Actors == Handlers \cup Tokens \cup {Worker}
Times == 0..MaxTime
Members == Chgs \X Uris \X Times

ASSUME MaxRetriesAssumption == MaxRetries \in Nat \ {0}
ASSUME BoundsAssumption == MaxTime \in Nat /\ MaxCount \in Nat /\ MaxRetries <= MaxCount
ASSUME SequenceAssumption == Sequence \in [Uris -> Nat]
ASSUME ExecutionAssumption == Execution \in [Uris -> Executions]
ASSUME FaultsAssumption == Faults \subseteq FaultKinds
ASSUME ActorsAssumption ==
    /\ Handlers \cap Tokens = {}
    /\ Worker \notin Handlers \cup Tokens
ASSUME NullsAssumption ==
    /\ NoChg \notin Chgs
    /\ NoUri \notin Uris
    /\ NoToken \notin Tokens
    /\ NoLease \notin Members

VARIABLES
    \* Redis: the queues of groups, the hash of each group, the session map
    wait, ready, busy, timeout,
    counted,     \* groups whose hash has the field qc
    qc,          \* that field
    cur, st,     \* the fields u and st, NoUri and NoToken when absent or empty
    session,     \* SESSION_TO_CHG
    \* Redis: the queue of each group and execution, the weights, REMURI
    members, weights, remuri,
    \* RethinkDB: uri_queue documents and executions
    docChg,      \* crawlHostGroupId, NoChg when there is no document
    retries,     \* how often the URI has failed
    fetchTime,   \* earliestFetchTimeStamp
    unresolved,  \* URIs whose document has unresolved = true
    disk,        \* the documents as RethinkDB has them on disk
    status,      \* of each execution: active, aborting (desired) or ended
    \* threads that add URIs, and the reconciler's cleanup
    fresh,       \* URIs not yet discovered
    admitted,    \* URIs whose execution was found active, not yet added
    adding,      \* URIs between uri_add and chg_add, with their group
    affected,    \* groups the cleanup still has to look at
    \* prefetch threads, harvester sessions and the timeout worker
    pc,
    chg, tok,    \* the group to release, and the token to release it with
    lease,       \* the queue member leased
    tgt, mem, time, dns,  \* the document in memory: group, retries, fetch time, unresolved
    old,         \* its fetch time when it was read
    out,         \* the outcome to finalize
    late         \* actors that release with isTimeout = true

groups == <<wait, ready, busy, timeout, counted, qc, cur, st, session>>
queues == <<members, weights, remuri>>
docs == <<docChg, retries, fetchTime, unresolved, disk>>
others == <<status, fresh, admitted, adding, affected>>
document == <<tgt, mem, time, dns, old>>
locals == <<chg, tok, lease, document, out, late>>
vars == <<groups, queues, docs, others, pc, locals>>

HandlerPc == {"idle", "popped", "selecting", "orphan", "repair", "release2", "prefetch",
              "buffered", "claimed", "granting"}
SessionPc == {"unused", "issued", "fetching", "looked", "posting", "over"}
WorkerPc == {"idle", "popped"}
FinishPc == {"finish", "update", "move", "release"}
Outcomes == {"none", "COMPLETE", "RETRY", "SAME", "MOVE"}

\* The retries that a document may count.  isRetryLimitReached keeps them below the limit, but
\* for a failing database: then they have been counted, and are saved, before the limit is read.
Counts == 0..(IF "dbError" \in Faults THEN MaxCount ELSE MaxRetries - 1)

GroupsOK ==
    /\ wait \subseteq Chgs
    /\ ready \in Seq(Chgs)
    /\ busy \subseteq Chgs
    /\ timeout \in Seq(Chgs)
    /\ counted \subseteq Chgs
    /\ qc \in [Chgs -> Int]
    /\ cur \in [Chgs -> Uris \cup {NoUri}]
    /\ st \in [Chgs -> Tokens \cup {NoToken}]
    /\ session \in [Tokens -> Chgs \cup {NoChg}]

QueuesOK ==
    /\ members \subseteq Members
    /\ weights \subseteq Chgs \X Executions
    /\ remuri \subseteq Uris

DocsOK ==
    /\ docChg \in [Uris -> Chgs \cup {NoChg}]
    /\ retries \in [Uris -> Counts]
    /\ fetchTime \in [Uris -> Times]
    /\ unresolved \subseteq Uris
    /\ disk \in [Uris -> [chg : Chgs \cup {NoChg}, retries : Counts, time : Times,
                          unresolved : BOOLEAN]]

OthersOK ==
    /\ status \in [Executions -> {"active", "aborting", "ended"}]
    /\ fresh \subseteq Uris
    /\ admitted \subseteq Uris
    /\ adding \subseteq Uris \X Chgs
    /\ affected \subseteq Chgs

LocalsOK ==
    /\ pc \in [Actors -> HandlerPc \cup SessionPc \cup WorkerPc \cup FinishPc]
    /\ chg \in [Actors -> Chgs \cup {NoChg}]
    /\ tok \in [Actors -> Tokens \cup {NoToken}]
    /\ lease \in [Actors -> Members \cup {NoLease}]
    /\ tgt \in [Actors -> Chgs \cup {NoChg}]
    /\ mem \in [Actors -> Counts]
    /\ time \in [Actors -> Times]
    /\ dns \subseteq Actors
    /\ old \in [Actors -> Times]
    /\ out \in [Actors -> Outcomes]
    /\ late \subseteq Actors

\* The types.  As long as no database call throws, no document has MaxRetries retries, in memory,
\* in the database or on its disk.
TypeOK == GroupsOK /\ QueuesOK /\ DocsOK /\ OthersOK /\ LocalsOK

\* The document of a URI.
Stored(u) == [chg |-> docChg[u], retries |-> retries[u], time |-> fetchTime[u],
              unresolved |-> u \in unresolved]

Init ==
    /\ wait = {} /\ ready = <<>> /\ busy = {} /\ timeout = <<>>
    /\ counted = {}
    /\ qc = [c \in Chgs |-> 0]
    /\ cur = [c \in Chgs |-> NoUri]
    /\ st = [c \in Chgs |-> NoToken]
    /\ session = [t \in Tokens |-> NoChg]
    /\ members = {} /\ weights = {} /\ remuri = {}
    /\ docChg = [u \in Uris |-> NoChg]
    /\ retries = [u \in Uris |-> 0]
    /\ fetchTime = [u \in Uris |-> 0]
    /\ unresolved = {}
    /\ disk = [u \in Uris |-> Stored(u)]
    /\ status = [e \in Executions |-> "active"]
    /\ fresh = Uris /\ admitted = {} /\ adding = {} /\ affected = {}
    /\ pc = [a \in Actors |-> IF a \in Tokens THEN "unused" ELSE "idle"]
    /\ chg = [a \in Actors |-> NoChg]
    /\ tok = [a \in Actors |-> NoToken]
    /\ lease = [a \in Actors |-> NoLease]
    /\ tgt = [a \in Actors |-> NoChg]
    /\ mem = [a \in Actors |-> 0]
    /\ time = [a \in Actors |-> 0]
    /\ dns = {}
    /\ old = [a \in Actors |-> 0]
    /\ out = [a \in Actors |-> "none"]
    /\ late = {}

(***************************************************************************)
(* The Lua scripts                                                         *)
(***************************************************************************)

HashExists(c) == c \in counted \/ cur[c] # NoUri \/ st[c] # NoToken

QueueOf(c, e) == {m \in members : m[1] = c /\ Execution[m[2]] = e}

\* The members that may be first in a queue: those of the lowest sequence.
Heads(c, e) == {m \in QueueOf(c, e) :
                    \A n \in QueueOf(c, e) : Sequence[m[2]] <= Sequence[n[2]]}

\* The weights once member m has left its queue.
WeightsWithout(m) ==
    IF QueueOf(m[1], Execution[m[2]]) \subseteq {m}
      THEN weights \ {<<m[1], Execution[m[2]]>>} ELSE weights

\* chg_release.lua refuses a release that is late for a busy group or in time for one that
\* is not, and one that does not carry the stored token.  ChgReleaseScript logs the refusal.
ChgReleaseAccepts(c, t, isTimeout) == (isTimeout <=> c \notin busy) /\ st[c] = t

\* Fault: the last URI is not counted, and its group is forgotten.
ChgReleaseMutant(c, t, isTimeout) ==
    IF ChgReleaseAccepts(c, t, isTimeout)
      THEN /\ busy' = busy \ {c}
           /\ session' = [s \in Tokens |-> IF s = st[c] THEN NoChg ELSE session[s]]
           /\ cur' = [cur EXCEPT ![c] = NoUri]
           /\ st' = [st EXCEPT ![c] = NoToken]
           /\ wait' = IF qc[c] > 1 THEN wait \cup {c} ELSE wait
           /\ UNCHANGED <<ready, timeout, counted, qc>>
      ELSE UNCHANGED groups

\* Fault: a release by timeout is not refused for a busy group, which stays busy.
ChgReleaseLateMutant(c, t, isTimeout) ==
    IF (isTimeout \/ c \in busy) /\ st[c] = t
      THEN /\ busy' = IF isTimeout THEN busy ELSE busy \ {c}
           /\ session' = [s \in Tokens |-> IF s = st[c] THEN NoChg ELSE session[s]]
           /\ cur' = [cur EXCEPT ![c] = NoUri]
           /\ st' = [st EXCEPT ![c] = NoToken]
           /\ wait' = IF qc[c] > 0 THEN wait \cup {c} ELSE wait
           /\ UNCHANGED <<ready, timeout, counted, qc>>
      ELSE UNCHANGED groups

ChgRelease(c, t, isTimeout) ==
    IF ChgReleaseAccepts(c, t, isTimeout)
      THEN /\ busy' = busy \ {c}
           /\ session' = [s \in Tokens |-> IF s = st[c] THEN NoChg ELSE session[s]]
           /\ cur' = [cur EXCEPT ![c] = NoUri]
           /\ st' = [st EXCEPT ![c] = NoToken]
           /\ IF c \in counted /\ qc[c] > 0
                THEN wait' = wait \cup {c} /\ UNCHANGED <<counted, qc>>
                ELSE /\ counted' = counted \ {c}
                     /\ qc' = [qc EXCEPT ![c] = 0]
                     /\ UNCHANGED wait
           /\ UNCHANGED <<ready, timeout>>
      ELSE UNCHANGED groups

\* uri_remove.lua without preserveActiveFetch.
UriRemove(m, deleteUri) ==
    IF m \in members
      THEN /\ members' = members \ {m}
           /\ weights' = WeightsWithout(m)
           /\ remuri' = IF deleteUri THEN remuri \cup {m[2]} ELSE remuri
           /\ counted' = counted \cup {m[1]}
           /\ qc' = [qc EXCEPT ![m[1]] = @ - 1]
           /\ UNCHANGED <<wait, ready, busy, timeout, cur, st, session>>
      ELSE UNCHANGED <<groups, queues>>

\* Fault: the queue counts do not follow the move.
UriMoveCountMutant(m, g, v) ==
    IF g # m[1] /\ m \in members
      THEN /\ members' = (members \ {m}) \cup {<<g, m[2], v>>}
           /\ weights' = WeightsWithout(m) \cup {<<g, Execution[m[2]]>>}
           /\ counted' = counted \cup {m[1], g}
           /\ wait' = IF HashExists(g) THEN wait ELSE wait \cup {g}
           /\ UNCHANGED <<qc, ready, busy, timeout, cur, st, session, remuri>>
      ELSE UNCHANGED <<groups, queues>>

\* Fault: the member is added to the target and not removed from the source.
UriMoveCopyMutant(m, g, v) ==
    IF g # m[1] /\ m \in members
      THEN /\ members' = members \cup {<<g, m[2], v>>}
           /\ weights' = weights \cup {<<g, Execution[m[2]]>>}
           /\ counted' = counted \cup {g}
           /\ qc' = [qc EXCEPT ![g] = @ + 1]
           /\ wait' = IF HashExists(g) THEN wait ELSE wait \cup {g}
           /\ UNCHANGED <<ready, busy, timeout, cur, st, session, remuri>>
      ELSE UNCHANGED <<groups, queues>>

\* uri_move.lua, after the test of CrawlQueueManager.moveLease: move member m to group g,
\* with fetch time v.
UriMove(m, g, v) ==
    LET new == <<g, m[2], v>> IN
    IF g # m[1] /\ new \notin members /\ m \in members
      THEN /\ members' = (members \ {m}) \cup {new}
           /\ weights' = WeightsWithout(m) \cup {<<g, Execution[m[2]]>>}
           /\ counted' = counted \cup {m[1], g}
           /\ qc' = [qc EXCEPT ![m[1]] = @ - 1, ![g] = @ + 1]
           /\ wait' = IF HashExists(g) THEN wait ELSE wait \cup {g}
           /\ UNCHANGED <<ready, busy, timeout, cur, st, session, remuri>>
      ELSE UNCHANGED <<groups, queues>>

(***************************************************************************)
(* forceAddUriToQueue and addToCrawlHostGroup: the execution is active,    *)
(* the document is saved, then uri_add and chg_add run, one after the other *)
(***************************************************************************)

EnsureExecutionActive(u) ==
    /\ u \in fresh
    /\ status[Execution[u]] = "active"
    /\ fresh' = fresh \ {u}
    /\ admitted' = admitted \cup {u}
    /\ UNCHANGED <<groups, queues, docs, status, adding, affected, pc, locals>>

UriAdd(u, c) ==
    /\ u \in admitted
    /\ admitted' = admitted \ {u}
    /\ docChg' = [docChg EXCEPT ![u] = c]
    /\ \E resolved \in BOOLEAN :
           unresolved' = IF resolved THEN unresolved ELSE unresolved \cup {u}
    /\ members' = members \cup {<<c, u, 0>>}
    /\ weights' = weights \cup {<<c, Execution[u]>>}
    /\ adding' = adding \cup {<<u, c>>}
    /\ UNCHANGED <<groups, remuri, retries, fetchTime, disk, status, fresh, affected, pc, locals>>

ChgAdd(u, c) ==
    /\ <<u, c>> \in adding
    /\ adding' = adding \ {<<u, c>>}
    /\ counted' = counted \cup {c}
    /\ qc' = [qc EXCEPT ![c] = @ + 1]
    /\ wait' = IF HashExists(c) THEN wait ELSE wait \cup {c}
    /\ UNCHANGED <<ready, busy, timeout, cur, st, session, queues, docs, status, fresh,
                   admitted, affected, pc, locals>>

(***************************************************************************)
(* frontier-queue-workers                                                  *)
(***************************************************************************)

MoveWaitToReady(c) ==
    /\ c \in wait
    /\ wait' = wait \ {c}
    /\ ready' = Append(ready, c)
    /\ UNCHANGED <<busy, timeout, counted, qc, cur, st, session, queues, docs, others, pc, locals>>

\* The busy timeout is ten minutes when a group is taken or granted and is extended by one
\* minute for post-processing: a thread that is still at work on the group has outlasted it.
WithinTimeout(c) ==
    /\ "stall" \in Faults \/ \A h \in Handlers : pc[h] \in {"idle", "popped"} \/ chg[h] # c
    /\ "slowPost" \in Faults
         \/ \A t \in Tokens : pc[t] \in SessionPc \ {"posting"} \/ chg[t] # c

MoveBusyToTimeout(c) ==
    /\ c \in busy
    /\ WithinTimeout(c)
    /\ busy' = busy \ {c}
    /\ timeout' = Append(timeout, c)
    /\ UNCHANGED <<wait, ready, counted, qc, cur, st, session, queues, docs, others, pc, locals>>

RemoveFromUriQueue ==
    /\ remuri # {}
    /\ docChg' = [u \in Uris |-> IF u \in remuri THEN NoChg ELSE docChg[u]]
    /\ unresolved' = unresolved \ remuri
    /\ retries' = [u \in Uris |-> IF u \in remuri THEN 0 ELSE retries[u]]
    /\ fetchTime' = [u \in Uris |-> IF u \in remuri THEN 0 ELSE fetchTime[u]]
    /\ remuri' = {}
    /\ UNCHANGED <<groups, members, weights, disk, others, pc, locals>>

(***************************************************************************)
(* Threads                                                                 *)
(***************************************************************************)

Resting(a) == IF a \in Tokens THEN "over" ELSE "idle"

Goto(a, there) == pc' = [pc EXCEPT ![a] = there]

\* The thread drops what it holds.
Rest(a) ==
    /\ Goto(a, Resting(a))
    /\ chg' = [chg EXCEPT ![a] = NoChg]
    /\ tok' = [tok EXCEPT ![a] = NoToken]
    /\ lease' = [lease EXCEPT ![a] = NoLease]
    /\ tgt' = [tgt EXCEPT ![a] = NoChg]
    /\ mem' = [mem EXCEPT ![a] = 0]
    /\ time' = [time EXCEPT ![a] = 0]
    /\ dns' = dns \ {a}
    /\ old' = [old EXCEPT ![a] = 0]
    /\ out' = [out EXCEPT ![a] = "none"]
    /\ late' = late \ {a}

\* The thread gives up with an exception: the group stays where it is.
GiveUp(a) == Rest(a) /\ UNCHANGED <<groups, queues, docs, others>>

\* The document of a URI is read into memory.
ReadDocument(a, u) ==
    /\ tgt' = [tgt EXCEPT ![a] = docChg[u]]
    /\ mem' = [mem EXCEPT ![a] = retries[u]]
    /\ time' = [time EXCEPT ![a] = fetchTime[u]]
    /\ dns' = IF u \in unresolved THEN dns \cup {a} ELSE dns \ {a}

(***************************************************************************)
(* getNextQueuedUriToFetch: BLPOP, chg_next.lua, the choice of a URI       *)
(***************************************************************************)

BlPop(h) ==
    /\ pc[h] = "idle"
    /\ ready # <<>>
    /\ ready' = Tail(ready)
    /\ chg' = [chg EXCEPT ![h] = Head(ready)]
    /\ Goto(h, "popped")
    /\ UNCHANGED <<wait, busy, timeout, counted, qc, cur, st, session, queues, docs, others,
                   tok, lease, document, out, late>>

\* The script fails for a busy group, and ChgNextScript fails after it for a group without
\* a queue count: getNextReadyCrawlHostGroup returns null for both.
ChgNext(h) ==
    /\ pc[h] = "popped"
    /\ busy' = busy \cup {chg[h]}
    /\ IF chg[h] \in busy \/ chg[h] \notin counted
         THEN Rest(h)
         ELSE Goto(h, "selecting") /\ UNCHANGED locals
    /\ UNCHANGED <<wait, ready, timeout, counted, qc, cur, st, session, queues, docs, others>>

\* No execution, no URI, or a retried URI whose time has not come: the group is released.
NextUriNone(h) ==
    /\ pc[h] = "selecting"
    /\ \/ \A e \in Executions : <<chg[h], e>> \notin weights
       \/ \E e \in Executions :
              /\ <<chg[h], e>> \in weights
              /\ \A m \in Heads(chg[h], e) : m[3] > 0
    /\ Goto(h, "release")
    /\ UNCHANGED <<groups, queues, docs, others, locals>>

\* The head of a queue is leased and its document read: none left, one that names another
\* group (a move was interrupted), or one to prefetch.
NextUri(h) ==
    /\ pc[h] = "selecting"
    /\ \E e \in Executions : \E m \in Heads(chg[h], e) :
          /\ <<chg[h], e>> \in weights
          /\ lease' = [lease EXCEPT ![h] = m]
          /\ ReadDocument(h, m[2])
          /\ old' = [old EXCEPT ![h] = fetchTime[m[2]]]
          /\ Goto(h, IF docChg[m[2]] = NoChg THEN "orphan"
                     ELSE IF docChg[m[2]] # chg[h] THEN "repair" ELSE "prefetch")
    /\ UNCHANGED <<groups, queues, docs, others, chg, tok, out, late>>

RemoveOrphan(h) ==
    /\ pc[h] = "orphan"
    /\ UriRemove(lease[h], FALSE)
    /\ Goto(h, "release")
    /\ UNCHANGED <<docs, others, locals>>

\* getNextFetchableQueuedUriForCrawlHostGroup moves the member and releases the group; its
\* caller finds no URI and releases the group again.
RepairMove(h) ==
    /\ pc[h] = "repair"
    /\ UriMove(lease[h], tgt[h], time[h])
    /\ Goto(h, "release2")
    /\ UNCHANGED <<docs, others, locals>>

RepairRelease(h) ==
    /\ pc[h] = "release2"
    /\ ChgRelease(chg[h], tok[h], FALSE)
    /\ Goto(h, "release")
    /\ UNCHANGED <<queues, docs, others, locals>>

NextUriFails(h) ==
    /\ "dbError" \in Faults
    /\ pc[h] = "selecting"
    /\ GiveUp(h)

(***************************************************************************)
(* PreFetchHandler: the document is read again, then the preconditions are *)
(* checked.  DNS and robots answers are the environment's choice.          *)
(***************************************************************************)

\* What becomes of a document with r retries and the fetch time v: the outcome, its retries
\* and its fetch time.
Effect(outcome, r, v) == [out |-> outcome, retries |-> r, time |-> v]

Later(v) == {w \in Times : w > v}

\* Fault: one retry too many.
FetchFailureMutant(r, v) ==
    IF r < MaxRetries
      THEN {Effect("RETRY", r + 1, w) : w \in Later(v)} ELSE {Effect("COMPLETE", r, v)}

\* ErrorHandler.fetchFailure for a temporary error: incrementRetries, then isRetryLimitReached; a
\* URI that is retried is put off, one that is completed is not saved.
FetchFailure(r, v) ==
    IF r + 1 < MaxRetries
      THEN {Effect("RETRY", r + 1, w) : w \in Later(v)} ELSE {Effect("COMPLETE", r, v)}

\* It throws after incrementRetries, when the configuration cannot be read or the crawl log not be
\* written: the outcome is still the initial RETRY, of a document with its old fetch time.
FetchFailureFails(r, v) ==
    IF "dbError" \in Faults /\ r < MaxCount THEN {Effect("SAME", r + 1, v)} ELSE {}

Conclude(a, effect) ==
    /\ Goto(a, "finish")
    /\ out' = [out EXCEPT ![a] = effect.out]
    /\ mem' = [mem EXCEPT ![a] = effect.retries]
    /\ time' = [time EXCEPT ![a] = effect.time]

PreFetchFails(h) ==
    /\ pc[h] = "prefetch"
    /\ LET g == docChg[lease[h][2]] IN
       \/ g = NoChg
       \/ g # NoChg /\ st[g] # NoToken
       \/ "dbError" \in Faults
    /\ GiveUp(h)

\* The callbacks of an unresolved URI: DNS fails, or finds the group the URI belongs to, its
\* own again or another.
ResolveDns(h, u, g) ==
    /\ u \in unresolved
    /\ \/ /\ \E effect \in FetchFailure(retries[u], fetchTime[u]) : Conclude(h, effect)
          /\ tgt' = [tgt EXCEPT ![h] = g]
          /\ dns' = dns \cup {h}
       \/ /\ Conclude(h, Effect("MOVE", retries[u], fetchTime[u]))
          /\ \E d \in Chgs : tgt' = [tgt EXCEPT ![h] = d]
          /\ dns' = dns \ {h}

\* The URI is out of scope or denied by robots.txt, the execution is over its limits, or
\* the execution is not active.
Preclude(h, u, g) ==
    /\ Conclude(h, Effect("COMPLETE", retries[u], fetchTime[u]))
    /\ tgt' = [tgt EXCEPT ![h] = g]
    /\ dns' = dns \ {h}

\* isLimitReached ends the execution.
LimitReached(e) ==
    /\ "terminal" \in Faults
    /\ status[e] = "active"
    /\ status' = [status EXCEPT ![e] = "ended"]

PreFetch(h) ==
    LET u == lease[h][2]
        g == docChg[u]
        e == Execution[u]
    IN
    /\ pc[h] = "prefetch"
    /\ g # NoChg
    /\ st[g] = NoToken
    /\ chg' = [chg EXCEPT ![h] = g]
    /\ old' = [old EXCEPT ![h] = fetchTime[u]]
    /\ \/ Preclude(h, u, g) /\ UNCHANGED status
       \/ Preclude(h, u, g) /\ LimitReached(e)
       \/ status[e] = "active" /\ ResolveDns(h, u, g) /\ UNCHANGED status
       \/ /\ status[e] = "active"
          /\ u \notin unresolved
          /\ Goto(h, "buffered")
          /\ ReadDocument(h, u)
          /\ UNCHANGED <<out, status>>
    /\ UNCHANGED <<groups, queues, docs, fresh, admitted, adding, affected, tok, lease, late>>

(***************************************************************************)
(* The prefetch buffer and getNextToFetch                                  *)
(***************************************************************************)

\* The handler waited too long in the buffer: the timeout handler releases its group.
Expire(h) ==
    /\ pc[h] = "buffered"
    /\ Goto(h, "release")
    /\ UNCHANGED <<groups, queues, docs, others, locals>>

\* A harvester claims the handler; getHarvestSpec reads the execution's status first.
Claim(h) ==
    /\ pc[h] = "buffered"
    /\ Goto(h, IF status[Execution[lease[h][2]]] = "active" THEN "claimed" ELSE "release")
    /\ UNCHANGED <<groups, queues, docs, others, locals>>

\* getHarvestSpec throws DbException: getNextToFetch returns null and releases nothing.
ClaimFails(h) ==
    /\ "dbError" \in Faults
    /\ pc[h] = "buffered"
    /\ GiveUp(h)

\* generateSessionToken and the first HSET of ChgUpdateScript.  Nothing tests that the
\* group is still busy.
SetSession(h, t) ==
    /\ pc[h] = "claimed"
    /\ pc[t] = "unused"
    /\ cur' = [cur EXCEPT ![chg[h]] = lease[h][2]]
    /\ st' = [st EXCEPT ![chg[h]] = t]
    /\ tok' = [tok EXCEPT ![h] = t]
    /\ pc' = [pc EXCEPT ![h] = "granting", ![t] = "issued"]
    /\ UNCHANGED <<wait, ready, busy, timeout, counted, qc, session, queues, docs, others,
                   chg, lease, document, out, late>>

\* The second HSET, then the status is saved and the harvester gets its specification.
Grant(h) ==
    /\ pc[h] = "granting"
    /\ session' = [session EXCEPT ![tok[h]] = chg[h]]
    /\ \E saved \in {TRUE} \cup {"dbError" \notin Faults} :
         pc' = [pc EXCEPT ![h] = "idle",
                          ![tok[h]] = IF saved THEN "fetching" ELSE @]
    /\ chg' = [chg EXCEPT ![h] = NoChg]
    /\ tok' = [tok EXCEPT ![h] = NoToken]
    /\ lease' = [lease EXCEPT ![h] = NoLease]
    /\ tgt' = [tgt EXCEPT ![h] = NoChg]
    /\ mem' = [mem EXCEPT ![h] = 0]
    /\ time' = [time EXCEPT ![h] = 0]
    /\ dns' = dns \ {h}
    /\ old' = [old EXCEPT ![h] = 0]
    /\ UNCHANGED <<wait, ready, busy, timeout, counted, qc, cur, st, queues, docs, others,
                   out, late>>

(***************************************************************************)
(* PageCompletedHandler and PostFetchHandler: a harvester reports          *)
(***************************************************************************)

\* getCrawlHostGroupForSessionToken: the session map, then a copy of the group's hash.
Lookup(t) ==
    /\ pc[t] = "fetching"
    /\ IF session[t] = NoChg
         THEN Rest(t)
         ELSE /\ Goto(t, "looked")
              /\ chg' = [chg EXCEPT ![t] = session[t]]
              /\ tok' = [tok EXCEPT ![t] = st[session[t]]]
              /\ UNCHANGED <<lease, document, out, late>>
    /\ UNCHANGED <<groups, queues, docs, others>>

\* Fault: updateBusyTimeout does not look whether the group is busy.
SessionTimedOutMutant(t) ==
    LET c == chg[t] IN
    st[c] = tok[t] /\ cur[c] # NoUri /\ docChg[cur[c]] # NoChg /\ st[docChg[cur[c]]] = t

\* Fault: no token is compared.
SessionAnyTokenMutant(t) ==
    LET c == chg[t] IN c \in busy /\ cur[c] # NoUri /\ docChg[cur[c]] # NoChg

\* The group is still busy with the token that was read, its current URI has a document,
\* and the token of the document's group is the one the harvester sent.
SessionIsValid(t) ==
    LET c == chg[t] IN
    /\ c \in busy
    /\ st[c] = tok[t]
    /\ cur[c] # NoUri
    /\ docChg[cur[c]] # NoChg
    /\ st[docChg[cur[c]]] = t

\* The document in memory, and the lease QueueLease.from makes of it.
LoadDocument(a, u) ==
    /\ lease' = [lease EXCEPT ![a] = <<docChg[u], u, fetchTime[u]>>]
    /\ ReadDocument(a, u)
    /\ old' = [old EXCEPT ![a] = fetchTime[u]]

Refresh(t) ==
    /\ pc[t] = "looked"
    /\ SessionIsValid(t)
    /\ LoadDocument(t, cur[chg[t]])
    /\ Goto(t, "posting")
    /\ UNCHANGED <<groups, queues, docs, others, chg, tok, out, late>>

\* IllegalSessionException, or any other failure of the constructor.
RefreshFails(t) ==
    /\ pc[t] = "looked"
    /\ ~SessionIsValid(t) \/ "dbError" \in Faults
    /\ GiveUp(t)

Finalize(a, effect, isTimeout) ==
    /\ Conclude(a, effect)
    /\ late' = IF isTimeout THEN late \cup {a} ELSE late

\* onCompleted after metrics or a permanent error, after a temporary error, or after
\* neither (the outcome is then still the initial RETRY, of an unchanged document).
OnCompleted(t) ==
    /\ pc[t] = "posting"
    /\ \E effect \in FetchFailure(mem[t], time[t])
                      \cup {Effect("COMPLETE", mem[t], time[t]), Effect("SAME", mem[t], time[t])} :
           Finalize(t, effect, FALSE)
    /\ UNCHANGED <<groups, queues, docs, others, chg, tok, lease, tgt, dns, old>>

\* The harvester's error cannot be recorded: finalizeBeforeError calls postFetchFinally(true) and
\* sendError closes the stream.
PostFetchFailureFails(t) ==
    /\ pc[t] = "posting"
    /\ \E effect \in FetchFailureFails(mem[t], time[t]) : Finalize(t, effect, TRUE)
    /\ UNCHANGED <<groups, queues, docs, others, chg, tok, lease, tgt, dns, old>>

\* onError: postFetchFailure unless the outcome is known, then postFetchFinally(true).
OnError(t) ==
    /\ "streamError" \in Faults
    /\ pc[t] = "posting"
    /\ \E effect \in FetchFailure(mem[t], time[t]) \cup FetchFailureFails(mem[t], time[t])
                      \cup {Effect("COMPLETE", mem[t], time[t])} :
           Finalize(t, effect, TRUE)
    /\ UNCHANGED <<groups, queues, docs, others, chg, tok, lease, tgt, dns, old>>

\* onError with CANCELLED forgets the handler.
OnCancelled(t) ==
    /\ pc[t] = "posting"
    /\ GiveUp(t)

(***************************************************************************)
(* UriWorkFinalizer.finish: first the status, then the disposition of the  *)
(* lease, at last, whatever happened, the release of the group             *)
(***************************************************************************)

FinishFails(a) ==
    /\ "dbError" \in Faults
    /\ pc[a] = "finish"
    /\ Goto(a, "release")
    /\ UNCHANGED <<groups, queues, docs, others, locals>>

\* The error of a seed ends its execution before the lease is completed.
CompleteLease(a) ==
    /\ pc[a] = "finish"
    /\ out[a] = "COMPLETE"
    /\ \E seedFailed \in {FALSE, "terminal" \in Faults} :
           status' = IF seedFailed THEN [status EXCEPT ![Execution[lease[a][2]]] = "ended"] ELSE status
    /\ UriRemove(lease[a], TRUE)
    /\ Goto(a, "release")
    /\ UNCHANGED <<docs, fresh, admitted, adding, affected, locals>>

AfterSave(outcome) ==
    IF outcome = "RETRY" THEN "update" ELSE IF outcome = "MOVE" THEN "move" ELSE "release"

\* updateQueuedUri replaces the whole document, or inserts it.
Save(a) ==
    LET u == lease[a][2] IN
    /\ pc[a] = "finish"
    /\ out[a] \in {"RETRY", "SAME", "MOVE"}
    /\ docChg' = [docChg EXCEPT ![u] = tgt[a]]
    /\ retries' = [retries EXCEPT ![u] = mem[a]]
    /\ fetchTime' = [fetchTime EXCEPT ![u] = time[a]]
    /\ unresolved' = IF a \in dns THEN unresolved \cup {u} ELSE unresolved \ {u}
    /\ Goto(a, AfterSave(out[a]))
    /\ UNCHANGED <<groups, queues, disk, others, locals>>

\* Fault: the new member is added beside the old one.
UriUpdateCopyMutant(a) ==
    /\ pc[a] = "update"
    /\ members' = members \cup {<<tgt[a], lease[a][2], time[a]>>}
    /\ Goto(a, "release")
    /\ UNCHANGED <<groups, weights, remuri, docs, others, locals>>

\* Fault: the member keeps the old fetch time.
UriUpdateSkipMutant(a) ==
    /\ pc[a] = "update"
    /\ Goto(a, "release")
    /\ UNCHANGED <<groups, queues, docs, others, locals>>

\* Fault: the member is written without a look whether the old one is there.
UriUpdateBlindMutant(a) ==
    /\ pc[a] = "update"
    /\ members' = (members \ {<<tgt[a], lease[a][2], old[a]>>}) \cup {<<tgt[a], lease[a][2], time[a]>>}
    /\ Goto(a, "release")
    /\ UNCHANGED <<groups, weights, remuri, docs, others, locals>>

\* uri_update.lua: the member takes the new fetch time, if it is there with the old one.
UriUpdate(a) ==
    LET before == <<tgt[a], lease[a][2], old[a]>>
        after == <<tgt[a], lease[a][2], time[a]>>
    IN
    /\ pc[a] = "update"
    /\ members' = IF before \in members THEN (members \ {before}) \cup {after} ELSE members
    /\ Goto(a, "release")
    /\ UNCHANGED <<groups, weights, remuri, docs, others, locals>>

MoveLease(a) ==
    /\ pc[a] = "move"
    /\ UriMove(lease[a], tgt[a], time[a])
    /\ Goto(a, "release")
    /\ UNCHANGED <<docs, others, locals>>

Release(a) ==
    /\ pc[a] = "release"
    /\ ChgRelease(chg[a], tok[a], a \in late)
    /\ Rest(a)
    /\ UNCHANGED <<queues, docs, others>>

(***************************************************************************)
(* CrawlQueueWorker.runFetchTimeoutWorker                                  *)
(***************************************************************************)

LPopTimeout ==
    /\ pc[Worker] = "idle"
    /\ timeout # <<>>
    /\ timeout' = Tail(timeout)
    /\ chg' = [chg EXCEPT ![Worker] = Head(timeout)]
    /\ Goto(Worker, "popped")
    /\ UNCHANGED <<wait, ready, busy, counted, qc, cur, st, session, queues, docs, others,
                   tok, lease, document, out, late>>

\* A group without a current URI is released; the URI of the others is retried or given up.
ProcessTimedOutChg ==
    LET c == chg[Worker]
        u == cur[c]
    IN
    /\ pc[Worker] = "popped"
    /\ tok' = [tok EXCEPT ![Worker] = st[c]]
    /\ IF u = NoUri
         THEN /\ Goto(Worker, "release")
              /\ late' = late \cup {Worker}
              /\ UNCHANGED <<lease, document, out>>
         ELSE /\ docChg[u] # NoChg
              /\ lease' = [lease EXCEPT ![Worker] = <<docChg[u], u, fetchTime[u]>>]
              /\ tgt' = [tgt EXCEPT ![Worker] = docChg[u]]
              /\ dns' = IF u \in unresolved THEN dns \cup {Worker} ELSE dns
              /\ old' = [old EXCEPT ![Worker] = fetchTime[u]]
              /\ \E effect \in FetchFailure(retries[u], fetchTime[u])
                                \cup FetchFailureFails(retries[u], fetchTime[u]) :
                    Finalize(Worker, effect, TRUE)
    /\ UNCHANGED <<groups, queues, docs, others, chg>>

\* The constructor of PostFetchHandler throws: nothing is released.
ProcessTimedOutChgFails ==
    LET c == chg[Worker] IN
    /\ pc[Worker] = "popped"
    /\ cur[c] # NoUri
    /\ docChg[cur[c]] = NoChg \/ "dbError" \in Faults
    /\ GiveUp(Worker)

(***************************************************************************)
(* CrawlExecutionReconciler: the queued URIs of an execution that is to be *)
(* aborted, or has ended, are removed                                      *)
(***************************************************************************)

Abort(e) ==
    /\ "abort" \in Faults
    /\ status[e] = "active"
    /\ status' = [status EXCEPT ![e] = "aborting"]
    /\ UNCHANGED <<groups, queues, docs, fresh, admitted, adding, affected, pc, locals>>

\* The reconciler finds nothing queued and the state becomes FINISHED.  The execution's count
\* is no part of this module: here it may happen at any time, URIs being added or not.
Terminate(e) ==
    /\ "terminal" \in Faults
    /\ status[e] = "active"
    /\ status' = [status EXCEPT ![e] = "ended"]
    /\ UNCHANGED <<groups, queues, docs, fresh, admitted, adding, affected, pc, locals>>

\* uri_remove.lua with preserveActiveFetch leaves the URI being fetched, or any URI of a
\* group that is busy and has no current URI yet.
Preserved(m) == m[1] \in busy /\ cur[m[1]] \in {NoUri, m[2]}

DeleteQueuedUri(m) ==
    /\ m \in members
    /\ LET s == status[Execution[m[2]]] IN
       /\ s # "active"
       /\ IF s = "aborting" /\ Preserved(m) THEN UNCHANGED <<groups, queues>> ELSE UriRemove(m, TRUE)
    /\ affected' = affected \cup {m[1]}
    /\ UNCHANGED <<docs, status, fresh, admitted, adding, pc, locals>>

\* A pass that has preserved no URI ends the execution.  The pass is no single step: URIs
\* added behind it are still queued then, and removed as those of an ended execution.
EndAborted(e) ==
    /\ status[e] = "aborting"
    /\ \A m \in members : Execution[m[2]] = e => ~Preserved(m)
    /\ status' = [status EXCEPT ![e] = "ended"]
    /\ UNCHANGED <<groups, queues, docs, fresh, admitted, adding, affected, pc, locals>>

\* chg_cleanup_if_empty.lua.  That SelectSeq yields a sequence of groups is said once more,
\* for the proofs, which know nothing about SelectSeq.
CleanupIfEmpty(c) ==
    /\ c \in affected
    /\ affected' = affected \ {c}
    /\ IF c \in counted /\ qc[c] > 0
         THEN UNCHANGED <<groups, weights>>
         ELSE /\ wait' = wait \ {c}
              /\ busy' = busy \ {c}
              /\ ready' = SelectSeq(ready, LAMBDA x : x # c)
              /\ timeout' = SelectSeq(timeout, LAMBDA x : x # c)
              /\ ready' \in Seq(Chgs) /\ timeout' \in Seq(Chgs)
              /\ session' = [s \in Tokens |-> IF s = st[c] THEN NoChg ELSE session[s]]
              /\ counted' = counted \ {c}
              /\ qc' = [qc EXCEPT ![c] = 0]
              /\ cur' = [cur EXCEPT ![c] = NoUri]
              /\ st' = [st EXCEPT ![c] = NoToken]
              /\ weights' = {w \in weights : w[1] # c}
    /\ UNCHANGED <<members, remuri, docs, status, fresh, admitted, adding, pc, locals>>

(***************************************************************************)
(* The frontier stops and starts again: its threads are gone, and with     *)
(* them what they held; harvesters go on fetching.                         *)
(***************************************************************************)
Crash ==
    /\ "crash" \in Faults
    /\ pc' = [a \in Actors |->
                IF a \in Tokens /\ pc[a] \in {"unused", "issued", "fetching"}
                  THEN pc[a] ELSE Resting(a)]
    /\ chg' = [a \in Actors |-> NoChg]
    /\ tok' = [a \in Actors |-> NoToken]
    /\ lease' = [a \in Actors |-> NoLease]
    /\ tgt' = [a \in Actors |-> NoChg]
    /\ mem' = [a \in Actors |-> 0]
    /\ time' = [a \in Actors |-> 0]
    /\ dns' = {}
    /\ old' = [a \in Actors |-> 0]
    /\ out' = [a \in Actors |-> "none"]
    /\ late' = {}
    /\ admitted' = {} /\ adding' = {} /\ affected' = {}
    /\ UNCHANGED <<groups, queues, docs, status, fresh>>

\* Documents are written and deleted with soft durability: RethinkDB acknowledges before it has
\* written to its disk.  Without the fault nobody reads the disk.
Flush(u) ==
    /\ "docLost" \in Faults
    /\ disk' = [disk EXCEPT ![u] = Stored(u)]
    /\ UNCHANGED <<groups, queues, docChg, retries, fetchTime, unresolved, others, pc, locals>>

\* RethinkDB restarts: a document that was not written is as it was, or is not there.
LoseWrite(u) ==
    /\ "docLost" \in Faults
    /\ docChg' = [docChg EXCEPT ![u] = disk[u].chg]
    /\ retries' = [retries EXCEPT ![u] = disk[u].retries]
    /\ fetchTime' = [fetchTime EXCEPT ![u] = disk[u].time]
    /\ unresolved' = IF disk[u].unresolved THEN unresolved \cup {u} ELSE unresolved \ {u}
    /\ UNCHANGED <<groups, queues, disk, others, pc, locals>>

-----------------------------------------------------------------------------
Prefetch(h) ==
    \/ BlPop(h) \/ ChgNext(h)
    \/ NextUriNone(h) \/ NextUri(h) \/ NextUriFails(h)
    \/ RemoveOrphan(h) \/ RepairMove(h) \/ RepairRelease(h)
    \/ PreFetchFails(h) \/ PreFetch(h)
    \/ Expire(h) \/ Claim(h) \/ ClaimFails(h) \/ Grant(h)
    \/ \E t \in Tokens : SetSession(h, t)

PageCompleted(t) ==
    \/ Lookup(t) \/ Refresh(t) \/ RefreshFails(t)
    \/ OnCompleted(t) \/ PostFetchFailureFails(t) \/ OnError(t) \/ OnCancelled(t)

Finish(a) ==
    \/ FinishFails(a) \/ CompleteLease(a) \/ Save(a)
    \/ UriUpdate(a) \/ MoveLease(a) \/ Release(a)

FetchTimeoutWorker == LPopTimeout \/ ProcessTimedOutChg \/ ProcessTimedOutChgFails

Reconcile ==
    \/ \E e \in Executions : Abort(e) \/ Terminate(e) \/ EndAborted(e)
    \/ \E m \in members : DeleteQueuedUri(m)
    \/ \E c \in Chgs : CleanupIfEmpty(c)

QueueWorkers ==
    \/ \E c \in Chgs : MoveWaitToReady(c) \/ MoveBusyToTimeout(c)
    \/ RemoveFromUriQueue

Next ==
    \/ \E u \in Uris : EnsureExecutionActive(u) \/ \E c \in Chgs : UriAdd(u, c) \/ ChgAdd(u, c)
    \/ QueueWorkers
    \/ \E h \in Handlers : Prefetch(h)
    \/ \E t \in Tokens : PageCompleted(t)
    \/ \E a \in Actors : Finish(a)
    \/ FetchTimeoutWorker
    \/ Reconcile
    \/ Crash
    \/ \E u \in Uris : Flush(u) \/ LoseWrite(u)

Spec == Init /\ [][Next]_vars

-----------------------------------------------------------------------------
(***************************************************************************)
(* Properties                                                              *)
(***************************************************************************)

Elems(s) == {s[i] : i \in DOMAIN s}
Count(s, x) == Cardinality({i \in DOMAIN s : s[i] = x})
One(p) == IF p THEN 1 ELSE 0

\* The actor has leased a URI and may still write its document or its queue member.
Owns(a) == pc[a] \in {"orphan", "repair", "prefetch", "buffered", "claimed", "granting",
                      "posting", "finish", "update", "move"}

QueuedIn(c) == {m \in members : m[1] = c}
BeingAddedTo(c) == {x \in adding : x[2] = c}

\* "The Redis queue lease gives one worker exclusive ownership of this URI", the reason why
\* updateQueuedUri may replace the whole document: of the prefetch threads, the completion
\* streams and the timeout worker, at most one is at work on a URI.
ExclusiveOwnership ==
    \A a, b \in Actors : Owns(a) /\ Owns(b) /\ a # b => lease[a][2] # lease[b][2]

\* A completion stream that was let in has the group for itself until it releases it: the
\* group stays busy under the stream's token.  A late harvester is turned away by the
\* refresh, however the timeout worker and new fetches came between.
SessionHoldsGroup ==
    \A t \in Tokens : Owns(t) => chg[t] \in busy /\ st[chg[t]] = t

\* A group is in one of the queues of groups, once, or in the hands of the one thread that
\* popped it: no host is crawled by two prefetch threads at a time.
GroupInOnePlace ==
    \A c \in Chgs :
        One(c \in wait) + One(c \in busy) + Count(ready, c) + Count(timeout, c)
          + Cardinality({h \in Handlers : pc[h] = "popped" /\ chg[h] = c})
          + One(chg[Worker] = c) <= 1

\* A group with queued URIs that no thread is just adding can always be found again: it is
\* in a queue of groups, or held by a thread that will put it there.
NoGroupLost ==
    \A c \in Chgs :
        QueuedIn(c) # {} /\ BeingAddedTo(c) = {} =>
            \/ c \in wait \cup busy \cup Elems(ready) \cup Elems(timeout)
            \/ \E a \in Handlers : pc[a] = "popped" /\ chg[a] = c
            \/ chg[Worker] = c

\* The queue count of a group is the number of URIs queued for it, less those whose
\* chg_add is still to come.
CountMatchesQueue ==
    \A c \in Chgs : qc[c] = Cardinality(QueuedIn(c)) - Cardinality(BeingAddedTo(c))

\* A URI is queued once: neither a retry, a move nor its repair leaves a second member.
UriQueuedOnce == \A m, n \in members : m[2] = n[2] => m = n

\* The URI has been queued, or was dropped before that, and is in no queue.
HasLeft(u) == u \notin fresh \cup admitted /\ \A m \in members : m[2] # u

\* What abort cleanup, a completion or the removal of an orphan has taken out of the queue is
\* not put back by an actor that goes on with its stale lease of it, its document or its URI:
\* neither by a late retry or move, nor after a crash or with a document that came back.
RemovedStaysRemoved == [][\A u \in Uris : HasLeft(u) => HasLeft(u)']_vars

\* "So completion always removes or moves the entry which was actually leased": the lease
\* an actor is about to complete or to move is in the queue.
LeaseIsQueued ==
    \A a \in Actors :
        \/ pc[a] = "finish" /\ out[a] = "COMPLETE"
        \/ pc[a] = "move"
        => lease[a] \in members

\* Every session token of the instance has been handed out.
TokensSpent == \A t \in Tokens : pc[t] # "unused"

\* A queued URI does not stay in the queue for ever: it is fetched, precluded or given up
\* after its retries, whatever the harvesters, the timeouts and the other URIs do.
EveryUriLeavesQueue ==
    \A u \in Uris : (\E m \in members : m[2] = u) ~> ((\A m \in members : m[2] # u) \/ TokensSpent)

(***************************************************************************)
(* Fairness.  The queue workers, the timeout worker and the reconciler run *)
(* in timers; prefetch threads loop; a thread that has begun to finalize   *)
(* goes on.  A retried URI's time comes, and some harvester keeps asking   *)
(* for pages, so what is offered to them again and again is claimed.       *)
(* Harvesters owe nothing: they may never report.  A stream they have      *)
(* opened ends, because the code bounds post-processing by its timeout.    *)
(***************************************************************************)
StreamEnds(t) ==
    \/ Refresh(t) \/ RefreshFails(t)
    \/ OnCompleted(t) \/ PostFetchFailureFails(t) \/ OnError(t) \/ OnCancelled(t)

Fairness ==
    /\ \A c \in Chgs : WF_vars(MoveWaitToReady(c)) /\ WF_vars(MoveBusyToTimeout(c))
                         /\ WF_vars(CleanupIfEmpty(c))
    /\ \A u \in Uris, c \in Chgs : WF_vars(ChgAdd(u, c))
    /\ \A h \in Handlers : WF_vars(Prefetch(h)) /\ SF_vars(NextUri(h)) /\ SF_vars(Claim(h))
    /\ \A t \in Tokens : WF_vars(StreamEnds(t))
    /\ \A a \in Actors : WF_vars(Finish(a))
    /\ WF_vars(FetchTimeoutWorker)
    /\ WF_vars(RemoveFromUriQueue)
    /\ \A e \in Executions : WF_vars(EndAborted(e))
    /\ \A m \in Members : WF_vars(DeleteQueuedUri(m))

FairSpec == Spec /\ Fairness
=============================================================================
