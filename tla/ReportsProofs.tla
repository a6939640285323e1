---------------------------- MODULE ReportsProofs ----------------------------
(***************************************************************************)
(* The theorems of the report pages, for all rows, queries, aborts and     *)
(* visits: what an aborted execution is shown as, which queue counts a list *)
(* keeps, and when a page stops watching.                                  *)
(***************************************************************************)
EXTENDS Reports, ListDataSourceProofs

(***************************************************************************)
(* Types, and what the pages use                                           *)
(***************************************************************************)

\* The lists with queue counts are shown whole and in the server's order, executions are opened and
\* aborted from them alone, and no other list counts.
PageInv ==
    /\ HasQueueCounts => filters = Ids /\ predicate = Ids /\ comparator = None
    /\ ~HasQueueCounts => counts = {} /\ counting = {} /\ detail = None /\ dialog = None
                          /\ aborts = {} /\ told = {}

\* The aborts under way and those that were answered.
Abort == [no : 0..MaxAborts, id : Ids, left : BOOLEAN, answer : {"sent", "aborted", "other", "done"}]

\* There are never more aborts than the bound, counting the one that a dialog may become.
AbortInv ==
    /\ aborts \subseteq Abort /\ IsFiniteSet(aborts) /\ Cardinality(aborts) <= MaxAborts
    /\ dialog # None => Cardinality(aborts) < MaxAborts
    /\ dialog \in Ids \cup {None}
    /\ told \subseteq Ids

\* The calls for queue counts of one completed load.
Counting == [waiting : SUBSET SUBSET Ids, counted : SUBSET Ids]

\* The types of the counts.
CountTypes == counts \subseteq Ids /\ counting \subseteq Counting

\* Types, and what relates the list to its page.
BaseInv ==
    /\ ListInv
    /\ page \in Pages
    /\ filters \in Predicates \cup {Ids}
    /\ visits \in 0..MaxVisits
    /\ PageInv
    /\ AbortInv
    /\ CountTypes

\* The active rows are rows of objects.
LEMMA ActiveIdsType == ASSUME NEW rows \in Seq(Row) PROVE ActiveIds(rows) \subseteq Ids
BY RowTypes DEF ActiveIds

\* The chunks of a request are its ids.
LEMMA ChunkFacts == ASSUME NEW ids \in SUBSET Ids
                    PROVE  Chunks(ids) \in SUBSET SUBSET Ids /\ UNION Chunks(ids) \subseteq ids
BY DEF Chunks

\* What is asked for when a load of a list of executions has come to its end.
LEMMA AskedFor ==
    ASSUME ListInv', HasQueueCounts, (predicate = Ids)', (comparator = None)', AsksForCounts
    PROVE  /\ counting' = {CountRequest(ActiveIds(accumulated'))}
           /\ ActiveIds(accumulated') \subseteq Ids
           /\ CountRequest(ActiveIds(accumulated')) \in Counting
<1>1. accumulated' \in Seq(Row)
  BY DEF ListInv, TypeOK
<1>2. Snapshot(accumulated)' = accumulated'
  <2>1. {i \in DOMAIN accumulated' : accumulated'[i].id \in predicate'} = DOMAIN accumulated'
    BY <1>1, RowTypes
  <2>2. Pick(accumulated', DOMAIN accumulated') = accumulated'
    BY <1>1, PickAll
  <2>3. QED
    BY <2>1, <2>2 DEF Snapshot
<1>3. counting' = {CountRequest(ActiveIds(Snapshot(accumulated)'))}
  BY DEF AsksForCounts, Follow
<1>4. ActiveIds(accumulated') \subseteq Ids
  BY <1>1, ActiveIdsType
<1>5. QED
  BY <1>2, <1>3, <1>4, ChunkFacts DEF CountRequest, Counting

\* One abort takes the place of another, or all are marked.
LEMMA AbortReplaced ==
    ASSUME NEW S \in SUBSET Abort, IsFiniteSet(S), NEW a \in S, NEW b \in Abort
    PROVE  /\ (S \ {a}) \cup {b} \subseteq Abort /\ IsFiniteSet((S \ {a}) \cup {b})
           /\ Cardinality((S \ {a}) \cup {b}) <= Cardinality(S)
<1> DEFINE T == S \ {a}
<1>1. IsFiniteSet(T) /\ Cardinality(T) = Cardinality(S) - 1 /\ Cardinality(S) \in Nat
  BY FS_RemoveElement, FS_CardinalityType
<1>2. IsFiniteSet(T \cup {b}) /\ Cardinality(T \cup {b}) = IF b \in T THEN Cardinality(T) ELSE Cardinality(T) + 1
  <2> HIDE DEF T
  <2>1. QED
    BY <1>1, FS_AddElement
<1>3. QED
  BY <1>1, <1>2

\* Leaving the page marks the aborts and keeps the rest of them.
LEMMA AbortsMarked ==
    ASSUME NEW S \in SUBSET Abort, IsFiniteSet(S)
    PROVE  LET T == {[a EXCEPT !.left = TRUE] : a \in S}
           IN  T \subseteq Abort /\ IsFiniteSet(T) /\ Cardinality(T) <= Cardinality(S)
<1> DEFINE T == {[a EXCEPT !.left = TRUE] : a \in S}
           f == [a \in S |-> [a EXCEPT !.left = TRUE]]
<1>1. f \in Surjection(S, T)
  BY DEF Surjection
<1>2. IsFiniteSet(T) /\ Cardinality(T) <= Cardinality(S)
  <2> HIDE DEF f, T
  <2>1. QED
    BY <1>1, FS_Surjection
<1>3. T \subseteq Abort
  BY DEF Abort
<1>4. QED
  BY <1>2, <1>3

\* BaseInv: steps of the list.
LEMMA BaseList ==
    ASSUME BaseInv,
           \/ \E q \in Queries : OnQueryChange(q)
           \/ OnRefresh \/ OnScroll \/ OnStream
           \/ \E f \in Predicates \cup {Ids} : OnFilterChange(f)
           \/ ApplyClientFilters
           \/ \E c \in Comparators \cup {None} : OnSort(c)
    PROVE  BaseInv'
<1>1. ASSUME NEW q \in Queries, OnQueryChange(q) PROVE BaseInv'
  <2>1. ListInv' /\ UNCHANGED <<predicate, comparator>>
    BY <1>1, Restarts, OperationFrame DEF OnQueryChange, BaseInv
  <2>2. filters' = Ids /\ UNCHANGED <<page, counts, counting, detail, visits, dialog, aborts, told>>
    BY <1>1 DEF OnQueryChange, countVars, abortVars
  <2>3. QED
    BY <2>1, <2>2 DEF BaseInv, PageInv, HasQueueCounts, AbortInv, CountTypes
<1>2. CASE OnRefresh \/ OnScroll
  <2>1. ListInv' /\ UNCHANGED <<predicate, comparator>>
    BY <1>2, Loads, OperationFrame DEF OnRefresh, OnScroll, BaseInv
  <2>2. UNCHANGED <<page, counts, counting, filters, detail, visits, dialog, aborts, told>>
    BY <1>2 DEF OnRefresh, OnScroll, reportVars, countVars, abortVars
  <2>3. QED
    BY <2>1, <2>2 DEF BaseInv, PageInv, HasQueueCounts, AbortInv, CountTypes
<1>3. CASE OnStream
  <2>1. PICK l \in loads : /\ Serve(l) \/ StreamNext(l) \/ StreamComplete(l) \/ StreamFails(l)
                           /\ IF Completes(l) THEN AsksForCounts ELSE UNCHANGED counting
    BY <1>3 DEF OnStream
  <2>2. ListInv' /\ UNCHANGED <<predicate, comparator>>
    BY <2>1, StreamMoves, StreamFrame DEF BaseInv
  <2>3. UNCHANGED <<page, counts, filters, detail, visits, dialog, aborts, told>>
    BY <1>3 DEF OnStream, abortVars
  <2>4. CASE HasQueueCounts /\ AsksForCounts
    <3>1. (predicate = Ids)' /\ (comparator = None)'
      BY <2>2, <2>4 DEF BaseInv, PageInv
    <3>2. counting' \subseteq Counting
      BY <2>2, <2>4, <3>1, AskedFor
    <3>3. QED
      BY <2>2, <2>3, <2>4, <3>2 DEF BaseInv, PageInv, HasQueueCounts, AbortInv, CountTypes
  <2>5. CASE counting' = counting
    BY <2>2, <2>3, <2>5 DEF BaseInv, PageInv, HasQueueCounts, AbortInv, CountTypes
  <2>6. QED
    BY <2>1, <2>4, <2>5 DEF AsksForCounts
<1>4. ASSUME NEW f \in Predicates \cup {Ids}, OnFilterChange(f) PROVE BaseInv'
  <2>1. /\ ~HasQueueCounts /\ filters' = f
        /\ UNCHANGED <<vars, page, counts, counting, detail, visits, dialog, aborts, told>>
    BY <1>4 DEF OnFilterChange, countVars, abortVars, HasQueueCounts
  <2>2. ListInv'
    BY <2>1, ListInvStep DEF BaseInv
  <2>3. QED
    BY <2>1, <2>2 DEF BaseInv, PageInv, HasQueueCounts, AbortInv, CountTypes
<1>5. CASE ApplyClientFilters \/ \E c \in Comparators \cup {None} : OnSort(c)
  <2>1. UNCHANGED <<page, counts, counting, filters, detail, visits, dialog, aborts, told>>
    BY <1>5 DEF ApplyClientFilters, OnSort, reportVars, countVars, abortVars
  <2>2. ListInv'
    BY <1>5, ListViews DEF ApplyClientFilters, OnSort, BaseInv
  <2>3. HasQueueCounts => predicate' = Ids /\ comparator' = None
    BY <1>5 DEF ApplyClientFilters, OnSort, SetPredicate, SetComparator, HasQueueCounts, BaseInv, PageInv
  <2>4. QED
    BY <2>1, <2>2, <2>3 DEF BaseInv, PageInv, HasQueueCounts, AbortInv, CountTypes
<1>6. QED
  BY <1>1, <1>2, <1>3, <1>4, <1>5

\* BaseInv: counts are asked for and come in.
LEMMA BaseCounts == ASSUME BaseInv, CountStep PROVE BaseInv'
<1>1. PICK r \in counting : CountsArrive(r) \/ \E chunk \in r.waiting : CountChunk(r, chunk)
  BY DEF CountStep
<1>2. UNCHANGED <<vars, page, filters, detail, visits, dialog, aborts, told>>
  BY <1>1 DEF CountsArrive, CountChunk, abortVars
<1>3. ListInv' /\ UNCHANGED <<predicate, comparator>>
  BY <1>2, ListInvStep DEF BaseInv, vars, listVars
<1>4. r \in Counting /\ HasQueueCounts
  BY <1>1 DEF BaseInv, CountTypes, PageInv
<1>5. CountTypes'
  <2>1. CASE CountsArrive(r)
    BY <1>4, <2>1 DEF CountsArrive, BaseInv, CountTypes, Counting
  <2>2. ASSUME NEW chunk \in r.waiting, CountChunk(r, chunk) PROVE CountTypes'
    <3>1. counts' = counts /\ \E counted \in {r.counted, r.counted \cup chunk} :
              counting' = (counting \ {r}) \cup {[waiting |-> r.waiting \ {chunk}, counted |-> counted]}
      BY <2>2 DEF CountChunk
    <3>2. r.counted \cup chunk \in SUBSET Ids /\ r.counted \in SUBSET Ids /\ r.waiting \ {chunk} \in SUBSET SUBSET Ids
      BY <1>4 DEF Counting
    <3>3. QED
      BY <3>1, <3>2 DEF BaseInv, CountTypes, Counting
  <2>3. QED
    BY <1>1, <2>1, <2>2
<1>6. QED
  BY <1>2, <1>3, <1>4, <1>5 DEF BaseInv, PageInv, HasQueueCounts, AbortInv

\* BaseInv: the page of an execution.
LEMMA BaseDetail ==
    ASSUME BaseInv,
           \/ \E i \in Ids : OnRowClick(i)
           \/ OnBack \/ DetailCall \/ DetailFails \/ ToggleWatch
    PROVE  BaseInv'
<1>0. aborts \in SUBSET Abort /\ IsFiniteSet(aborts) /\ Cardinality(aborts) \in Nat /\ MaxAborts \in Nat
  BY FS_CardinalityType, ReportAssumption DEF BaseInv, AbortInv
<1>1. ASSUME LeavesPage, dialog' = dialog PROVE AbortInv'
  <2> DEFINE T == {[a EXCEPT !.left = TRUE] : a \in aborts}
  <2>1. T \subseteq Abort /\ IsFiniteSet(T) /\ Cardinality(T) <= Cardinality(aborts)
    BY <1>0, AbortsMarked
  <2>2. aborts' = T /\ told' = {}
    BY <1>1 DEF LeavesPage
  <2> HIDE DEF T
  <2>3. Cardinality(T) \in Nat
    BY <2>1, FS_CardinalityType
  <2>4. QED
    BY <1>0, <1>1, <2>1, <2>2, <2>3 DEF BaseInv, AbortInv
<1>2. ASSUME NEW i \in Ids, OnRowClick(i) PROVE BaseInv'
  <2>1. AbortInv'
    BY <1>1, <1>2 DEF OnRowClick
  <2>2. HasQueueCounts /\ UNCHANGED <<page, filters, predicate, comparator>>
    BY <1>2 DEF OnRowClick
  <2>3. visits' \in 0..MaxVisits
    BY <1>2, ReportAssumption DEF OnRowClick, BaseInv
  <2>4. TypeOK'
    <3>1. /\ query' = None /\ accumulated' = <<>> /\ loads' = {} /\ activeLoad' = 0
          /\ generation' = 0 /\ offset' = 0
          /\ initialLoading' = FALSE /\ appendLoading' = FALSE /\ exhausted' = FALSE
          /\ UNCHANGED <<store, changes, paging, predicate, comparator, opened>>
      BY <1>2 DEF OnRowClick, serverVars
    <3>2. 0 \in 0..MaxLoads
      BY SizeAssumption
    <3>3. QED
      BY <3>1, <3>2, NoRows DEF BaseInv, ListInv, TypeOK
  <2>5. RowsInv'
    BY <1>2, NoRows DEF OnRowClick, RowsInv
  <2>6. counts' = {} /\ counting' = {}
    BY <1>2 DEF OnRowClick
  <2>7. QED
    BY <2>1, <2>2, <2>3, <2>4, <2>5, <2>6 DEF BaseInv, ListInv, PageInv, HasQueueCounts, CountTypes
<1>3. ASSUME UNCHANGED <<vars, page, counts, counting, filters, dialog>>, visits' \in 0..MaxVisits,
             AbortInv', HasQueueCounts
      PROVE  BaseInv'
  <2>1. ListInv' /\ UNCHANGED <<predicate, comparator>>
    BY <1>3, ListInvStep DEF BaseInv, vars, listVars
  <2>2. QED
    BY <1>3, <2>1 DEF BaseInv, PageInv, HasQueueCounts, CountTypes
<1>4. visits \in 0..MaxVisits /\ (detail # None => HasQueueCounts)
  BY DEF BaseInv, PageInv
<1>5. CASE OnBack
  BY <1>1, <1>3, <1>4, <1>5 DEF OnBack, countVars
<1>6. ASSUME UNCHANGED <<aborts, told, dialog>> PROVE AbortInv'
  BY <1>6 DEF BaseInv, AbortInv
<1>7. CASE DetailCall \/ DetailFails
  BY <1>3, <1>4, <1>6, <1>7 DEF DetailCall, DetailFails, DetailRead, DetailAnswer, FeedOpens, DetailUpdate,
                           DetailStep, countVars, abortVars
<1>8. CASE ToggleWatch
  <2>1. visits' \in 0..MaxVisits
    BY <1>4, <1>8, ReportAssumption DEF ToggleWatch
  <2>2. QED
    BY <1>3, <1>4, <1>6, <1>8, <2>1 DEF ToggleWatch, countVars, abortVars
<1>9. QED
  BY <1>2, <1>5, <1>7, <1>8

\* BaseInv: executions change and are aborted.
LEMMA BaseAborts == ASSUME BaseInv, OnAbort \/ \E i \in Ids : ExecutionChanges(i) PROVE BaseInv'
<1>0. /\ aborts \in SUBSET Abort /\ IsFiniteSet(aborts) /\ Cardinality(aborts) \in Nat /\ MaxAborts \in Nat
      /\ dialog \in Ids \cup {None} /\ told \subseteq Ids /\ store \in [Ids -> ObjectState]
      /\ changes \in 0..MaxChanges
  BY FS_CardinalityType, ReportAssumption DEF BaseInv, AbortInv, ListInv, TypeOK
<1>1. ASSUME ListInv', UNCHANGED <<page, counts, counting, filters, visits, predicate, comparator>>,
             AbortInv', HasQueueCounts
      PROVE  BaseInv'
  BY <1>1 DEF BaseInv, PageInv, HasQueueCounts, CountTypes
<1>2. ASSUME NEW i \in Ids, ExecutionChanges(i) PROVE BaseInv'
  <2>1. store' \in [Ids -> ObjectState] /\ changes' \in 0..MaxChanges
    BY <1>0, <1>2, SizeAssumption DEF ExecutionChanges, ObjectState
  <2>2. UNCHANGED <<listVars, predicate, comparator>>
    BY <1>2 DEF ExecutionChanges, listVars
  <2>3. ListInv'
    BY <2>1, <2>2, ServerMoves DEF BaseInv
  <2>4. UNCHANGED <<page, counts, counting, filters, visits, dialog, aborts, told>>
    BY <1>2 DEF ExecutionChanges, countVars, abortVars
  <2>5. detail = None => detail' = None
    BY <1>2 DEF ExecutionChanges, FeedAfter
  <2>6. QED
    BY <2>2, <2>3, <2>4, <2>5 DEF BaseInv, PageInv, HasQueueCounts, AbortInv, CountTypes
<1>3. ASSUME NEW i \in Ids, OpenAbortDialog(i) PROVE BaseInv'
  <2>1. UNCHANGED <<vars, page, counts, counting, filters, detail, visits, aborts, told>> /\ dialog' = i
    BY <1>3 DEF OpenAbortDialog, countVars
  <2>2. ListInv' /\ UNCHANGED <<predicate, comparator>>
    BY <2>1, ListInvStep DEF BaseInv, vars, listVars
  <2>3. AbortInv'
    BY <1>0, <1>3, <2>1 DEF OpenAbortDialog, BaseInv, AbortInv
  <2>4. HasQueueCounts
    BY <1>3 DEF OpenAbortDialog, BaseInv, PageInv, HasQueueCounts
  <2>5. QED
    BY <1>1, <2>1, <2>2, <2>3, <2>4
<1>4. CASE CloseAbortDialog
  <2>1. /\ UNCHANGED <<vars, page, counts, counting, filters, detail, visits, told>> /\ dialog' = None
        /\ dialog # None
    BY <1>4 DEF CloseAbortDialog, countVars
  <2>2. ListInv' /\ UNCHANGED <<predicate, comparator>>
    BY <2>1, ListInvStep DEF BaseInv, vars, listVars
  <2>3. HasQueueCounts
    BY <2>1 DEF BaseInv, PageInv
  <2>4. CASE aborts' = aborts
    BY <1>0, <1>1, <2>1, <2>2, <2>3, <2>4 DEF BaseInv, AbortInv
  <2>5. CASE aborts' # aborts
    <3> DEFINE a == [no |-> Cardinality(aborts), id |-> dialog, answer |-> "sent", left |-> FALSE]
    <3>1. aborts' = aborts \cup {a}
      BY <1>4, <2>5 DEF CloseAbortDialog
    <3>2. Cardinality(aborts) < MaxAborts
      BY <2>1 DEF BaseInv, AbortInv
    <3>3. a \in Abort
      BY <1>0, <2>1, <3>2 DEF Abort
    <3> HIDE DEF a
    <3>4. IsFiniteSet(aborts') /\ Cardinality(aborts') <= MaxAborts
      <4>1. IsFiniteSet(aborts \cup {a}) /\
            Cardinality(aborts \cup {a}) = IF a \in aborts THEN Cardinality(aborts) ELSE Cardinality(aborts) + 1
        BY <1>0, FS_AddElement
      <4>2. QED
        BY <1>0, <3>1, <3>2, <4>1
    <3>5. AbortInv'
      BY <1>0, <2>1, <3>1, <3>3, <3>4 DEF AbortInv
    <3>6. QED
      BY <1>1, <2>1, <2>2, <2>3, <3>5
  <2>6. QED
    BY <2>4, <2>5
<1>5. ASSUME NEW a \in aborts, NEW b \in Abort, aborts' = (aborts \ {a}) \cup {b}, dialog' = dialog,
             told' \subseteq Ids
      PROVE  AbortInv'
  <2> DEFINE T == (aborts \ {a}) \cup {b}
  <2>1. T \subseteq Abort /\ IsFiniteSet(T) /\ Cardinality(T) <= Cardinality(aborts)
    BY <1>0, <1>5, AbortReplaced
  <2>2. aborts' = T
    BY <1>5
  <2> HIDE DEF T
  <2>3. Cardinality(T) \in Nat
    BY <2>1, FS_CardinalityType
  <2>4. QED
    BY <1>0, <1>5, <2>1, <2>2, <2>3 DEF BaseInv, AbortInv
<1>6. ASSUME NEW a \in aborts, ExecuteAbort(a) PROVE BaseInv'
  <2>1. a \in Abort /\ a.id \in Ids /\ HasQueueCounts
    BY <1>0 DEF Abort, BaseInv, PageInv
  <2>2. PICK s \in {store[a.id], "off"} :
            /\ store' = [store EXCEPT ![a.id] = s]
            /\ aborts' = (aborts \ {a}) \cup {[a EXCEPT !.answer = IF s # store[a.id] THEN "aborted" ELSE "other"]}
    BY <1>6 DEF ExecuteAbort
  <2>3. UNCHANGED <<changes, listVars, predicate, comparator, page, counts, counting, filters, visits, dialog, told>>
    BY <1>6 DEF ExecuteAbort, listVars, countVars
  <2>4. [a EXCEPT !.answer = IF s # store[a.id] THEN "aborted" ELSE "other"] \in Abort
    BY <2>1 DEF Abort
  <2>5. AbortInv'
    BY <1>0, <1>5, <2>2, <2>3, <2>4
  <2>6. store' \in [Ids -> ObjectState]
    BY <1>0, <2>1, <2>2 DEF ObjectState
  <2>7. ListInv'
    BY <1>0, <2>3, <2>6, ServerMoves DEF BaseInv
  <2>8. QED
    BY <1>1, <2>1, <2>3, <2>5, <2>7
<1>7. ASSUME NEW a \in aborts, AbortAnswered(a) PROVE BaseInv'
  <2>1. a \in Abort /\ a.id \in Ids /\ HasQueueCounts /\ [a EXCEPT !.answer = "done"] \in Abort
    BY <1>0 DEF Abort, BaseInv, PageInv
  <2>2. /\ aborts' = (aborts \ {a}) \cup {[a EXCEPT !.answer = "done"]}
        /\ told' \in {told, told \cup {a.id}}
        /\ UNCHANGED <<page, counts, counting, filters, visits, dialog>>
    BY <1>7 DEF AbortAnswered, countVars
  <2>3. AbortInv'
    BY <1>0, <1>5, <2>1, <2>2
  <2>4. Reload \/ UNCHANGED vars
    BY <1>7 DEF AbortAnswered, LoadsAgain
  <2>5. ListInv' /\ UNCHANGED <<predicate, comparator>>
    BY <2>4, Restarts, OperationFrame, ListInvStep DEF BaseInv, vars, listVars
  <2>6. QED
    BY <1>1, <2>1, <2>2, <2>3, <2>5
<1>8. QED
  BY <1>2, <1>3, <1>4, <1>6, <1>7 DEF OnAbort

\* BaseInv holds, with or without errors.
LEMMA BaseInvStep == ASSUME BaseInv, [ReportNext]_allVars PROVE BaseInv'
<1>1. CASE UNCHANGED allVars
  <2>1. /\ UNCHANGED <<vars, predicate, comparator>>
        /\ UNCHANGED <<page, counts, counting, filters, detail, visits, dialog, aborts, told>>
    BY <1>1 DEF allVars, reportVars, countVars, abortVars, vars, listVars
  <2>2. ListInv'
    BY <2>1, ListInvStep DEF BaseInv
  <2>3. QED
    BY <2>1, <2>2 DEF BaseInv, PageInv, HasQueueCounts, AbortInv, CountTypes
<1>2. QED
  BY <1>1, BaseList, BaseCounts, BaseDetail, BaseAborts DEF ReportNext

\* An open page satisfies the types.
LEMMA BaseInvInit == ReportInit => BaseInv
<1> SUFFICES ASSUME ReportInit PROVE BaseInv
  OBVIOUS
<1>1. ListInv /\ predicate = Ids /\ comparator = None
  BY ListInvInit DEF ReportInit, Init
<1>2. AbortInv
  BY FS_EmptySet, ReportAssumption DEF ReportInit, AbortInv
<1>3. QED
  BY <1>1, <1>2, ReportAssumption DEF ReportInit, BaseInv, PageInv, CountTypes

(***************************************************************************)
(* The page of an execution                                                *)
(***************************************************************************)

\* What is known of the page of an execution, the objects being st: an execution that is shown exists
\* and stays, an empty answer is only had where none was shown, and a feed delivers the end at most.
DetailOK(d, st) ==
    /\ d \in Detail
    /\ d.item # None => st[d.id] # "gone"
    /\ d.phase \in {"get", "open", "idle", "failed"} => d.updates = <<>>
    /\ d.phase = "answer" =>
          \/ d.updates = <<>> /\ d.item = None
          \/ d.updates \in {<<"on">>, <<"off">>} /\ st[d.id] # "gone"
    /\ d.phase \in {"open", "feed"} => d.item # None
    /\ d.phase = "feed" => \/ d.updates = <<>>
                           \/ d.updates = <<"off">> /\ st[d.id] = "off"
    /\ d.watch /\ d.phase = "idle" => d.item # "on"

\* The execution that is open, if there is one.
DetailInv == detail # None => DetailOK(detail, store)

\* A page that starts to read.
LEMMA NewDetailOK ==
    ASSUME NEW st, NEW i \in Ids, NEW watch \in BOOLEAN, NEW item \in {None, "on", "off"},
           item # None => st[i] # "gone"
    PROVE  DetailOK(NewDetail(i, watch, item), st)
BY DEF DetailOK, NewDetail, Detail

\* Executions begin and end, and the feed says so.
LEMMA FeedKeeps ==
    ASSUME BaseInv, DetailInv, NEW i \in Ids, NEW s \in {"on", "off"},
           store[i] # "off", store[i] # "gone" => s = "off",
           NEW st, st = [store EXCEPT ![i] = s], detail # None
    PROVE  DetailOK(FeedAfter(i, s), st)
<1>1. store \in [Ids -> ObjectState] /\ st \in [Ids -> ObjectState] /\ st[i] = s
      /\ \A j \in Ids \ {i} : st[j] = store[j]
  BY DEF BaseInv, ListInv, TypeOK, ObjectState
<1>2. detail # None /\ DetailOK(detail, store) /\ detail.id \in Ids
  BY DEF FeedAfter, DetailInv, DetailOK, Detail
<1>3. CASE detail.phase = "feed" /\ detail.id = i
  <2>1. detail.updates = <<>> /\ s = "off"
    BY <1>2, <1>3 DEF DetailOK
  <2>2. FeedAfter(i, s) = [detail EXCEPT !.updates = <<"off">>]
    BY <1>2, <1>3, <2>1 DEF FeedAfter
  <2>3. QED
    BY <1>1, <1>2, <1>3, <2>1, <2>2 DEF DetailOK, Detail
<1>4. CASE ~(detail.phase = "feed" /\ detail.id = i)
  <2>1. FeedAfter(i, s) = detail
    BY <1>4 DEF FeedAfter
  <2>2. st[detail.id] = store[detail.id] \/ (st[detail.id] # "gone" /\ detail.id = i)
    BY <1>1, <1>2
  <2>3. QED
    BY <1>1, <1>2, <1>4, <2>1, <2>2 DEF DetailOK
<1>5. QED
  BY <1>3, <1>4

\* The calls of the page.
LEMMA DetailCalls ==
    ASSUME BaseInv, DetailInv, DetailCall \/ DetailFails PROVE DetailOK(detail', store)
<1>1. detail # None /\ DetailOK(detail, store) /\ detail \in Detail /\ detail.id \in Ids
  BY DEF DetailCall, DetailRead, DetailAnswer, FeedOpens, DetailUpdate, DetailFails, DetailInv, DetailOK, Detail
<1>2. store[detail.id] \in ObjectState
  BY <1>1 DEF BaseInv, ListInv, TypeOK
<1>3. CASE DetailRead
  <2>1. detail' = [detail EXCEPT !.phase = "answer",
                                 !.updates = IF store[detail.id] = "gone" THEN <<>> ELSE <<store[detail.id]>>]
    BY <1>3 DEF DetailRead, DetailStep
  <2>2. CASE store[detail.id] = "gone"
    BY <1>1, <2>1, <2>2 DEF DetailOK, Detail
  <2>3. CASE store[detail.id] = "on"
    BY <1>1, <2>1, <2>3 DEF DetailOK, Detail
  <2>4. CASE store[detail.id] = "off"
    BY <1>1, <2>1, <2>4 DEF DetailOK, Detail
  <2>5. QED
    BY <1>2, <2>2, <2>3, <2>4 DEF ObjectState
<1>4. CASE DetailAnswer
  <2>1. CASE detail.updates = <<>>
    <3>1. detail' = [detail EXCEPT !.phase = "idle"] /\ detail.phase = "answer"
      BY <1>4, <2>1 DEF DetailAnswer, DetailStep
    <3>2. detail.item = None
      BY <1>1, <2>1, <3>1 DEF DetailOK
    <3>3. QED
      BY <1>1, <2>1, <3>1, <3>2, NoneAssumption DEF DetailOK, Detail
  <2>2. CASE detail.updates # <<>>
    <3>1. PICK s \in {"on", "off"} : detail.updates = <<s>> /\ store[detail.id] # "gone"
      BY <1>1, <1>4, <2>2 DEF DetailOK, DetailAnswer
    <3>2. Head(detail.updates) = s
      BY <3>1
    <3>3. detail' = [detail EXCEPT !.item = s, !.updates = <<>>,
                                   !.phase = IF detail.watch /\ s # "off" THEN "open" ELSE "idle"]
      BY <1>4, <2>2, <3>2 DEF DetailAnswer, DetailStep
    <3>4. CASE detail.watch /\ s # "off"
      BY <1>1, <3>1, <3>3, <3>4, NoneAssumption DEF DetailOK, Detail
    <3>5. CASE ~(detail.watch /\ s # "off")
      BY <1>1, <3>1, <3>3, <3>5, NoneAssumption DEF DetailOK, Detail
    <3>6. QED
      BY <3>4, <3>5
  <2>3. QED
    BY <2>1, <2>2
<1>5. CASE FeedOpens
  BY <1>1, <1>5 DEF FeedOpens, DetailStep, DetailOK, Detail
<1>6. CASE DetailUpdate
  <2>1. detail.phase = "feed" /\ detail.updates = <<"off">> /\ detail' = FeedUpdate(detail)
        /\ store[detail.id] = "off"
    BY <1>1, <1>6 DEF DetailUpdate, DetailStep, DetailOK
  <2>2. Head(detail.updates) = "off" /\ Tail(detail.updates) = <<>>
    BY <2>1
  <2>3. detail' = [detail EXCEPT !.item = "off", !.updates = <<>>, !.phase = "idle"]
    BY <2>1, <2>2 DEF FeedUpdate
  <2>4. QED
    BY <1>1, <2>1, <2>3 DEF DetailOK, Detail
<1>7. CASE DetailFails
  BY <1>1, <1>7 DEF DetailFails, DetailStep, DetailOK, Detail
<1>8. QED
  BY <1>3, <1>4, <1>5, <1>6, <1>7 DEF DetailCall

\* The calls that touch neither the objects nor the page of an execution.
LEMMA DetailRests ==
    ASSUME \/ \E q \in Queries : OnQueryChange(q)
           \/ OnRefresh \/ OnScroll \/ OnStream
           \/ \E f \in Predicates \cup {Ids} : OnFilterChange(f)
           \/ ApplyClientFilters
           \/ \E c \in Comparators \cup {None} : OnSort(c)
           \/ CountStep
           \/ \E i \in Ids : OpenAbortDialog(i)
           \/ CloseAbortDialog
           \/ UNCHANGED allVars
    PROVE  UNCHANGED <<detail, store>>
<1>1. CASE OnRefresh \/ OnScroll \/ \E q \in Queries : OnQueryChange(q)
  BY <1>1, OperationFrame DEF OnRefresh, OnScroll, OnQueryChange, reportVars
<1>2. CASE OnStream
  BY <1>2, StreamFrame DEF OnStream
<1>3. CASE ApplyClientFilters \/ \E c \in Comparators \cup {None} : OnSort(c)
  BY <1>3 DEF ApplyClientFilters, OnSort, reportVars, SetPredicate, SetComparator, serverVars
<1>4. CASE (\E f \in Predicates \cup {Ids} : OnFilterChange(f)) \/ CountStep
           \/ (\E i \in Ids : OpenAbortDialog(i)) \/ CloseAbortDialog
  BY <1>4 DEF OnFilterChange, CountStep, CountsArrive, CountChunk, OpenAbortDialog, CloseAbortDialog,
              vars, serverVars
<1>5. CASE UNCHANGED allVars
  BY <1>5 DEF allVars, reportVars, vars, serverVars
<1>6. QED
  BY <1>1, <1>2, <1>3, <1>4, <1>5

\* The page of an execution through the calls, the feed, aborts and navigation.
LEMMA DetailInvStep == ASSUME BaseInv, DetailInv, [ReportNext]_allVars PROVE DetailInv'
<1>1. ASSUME UNCHANGED <<detail, store>> PROVE DetailInv'
  BY <1>1 DEF DetailInv
<1>2. ASSUME NEW i \in Ids, OnRowClick(i) PROVE DetailInv'
  <2>1. detail' = NewDetail(i, FALSE, None)
    BY <1>2 DEF OnRowClick
  <2>2. DetailOK(detail', store')
    BY <2>1, NewDetailOK
  <2>3. QED
    BY <2>2 DEF DetailInv
<1>3. CASE OnBack
  BY <1>3 DEF OnBack, DetailInv
<1>4. CASE DetailCall \/ DetailFails
  <2>1. store' = store
    BY <1>4 DEF DetailCall, DetailRead, DetailAnswer, FeedOpens, DetailUpdate, DetailFails, DetailStep,
                vars, serverVars
  <2>2. QED
    BY <1>4, <2>1, DetailCalls DEF DetailInv
<1>5. ASSUME NEW watch \in BOOLEAN, detail # None, detail' = NewDetail(detail.id, watch, detail.item), store' = store
      PROVE  DetailInv'
  <2>1. detail.id \in Ids /\ detail.item \in {None, "on", "off"} /\ (detail.item # None => store'[detail.id] # "gone")
    BY <1>5 DEF DetailInv, DetailOK, Detail
  <2>2. DetailOK(detail', store')
    BY <1>5, <2>1, NewDetailOK
  <2>3. QED
    BY <2>2 DEF DetailInv
<1>6. CASE ToggleWatch
  <2>1. detail # None /\ detail' = NewDetail(detail.id, ~detail.watch, detail.item) /\ store' = store
    BY <1>6 DEF ToggleWatch, vars, serverVars
  <2>2. (~detail.watch) \in BOOLEAN
    BY <2>1 DEF DetailInv, DetailOK, Detail
  <2>3. QED
    BY <1>5, <2>1, <2>2
<1>7. ASSUME NEW i \in Ids, ExecutionChanges(i) PROVE DetailInv'
  <2>1. PICK s \in {"on", "off"} : /\ store[i] # "off" /\ (store[i] # "gone" => s = "off")
                                   /\ store' = [store EXCEPT ![i] = s] /\ detail' = FeedAfter(i, s)
    BY <1>7 DEF ExecutionChanges
  <2>2. QED
    BY <2>1, FeedKeeps DEF DetailInv, FeedAfter
<1>8. ASSUME NEW a \in aborts, ExecuteAbort(a) PROVE DetailInv'
  <2>1. a.id \in Ids /\ store \in [Ids -> ObjectState]
    BY DEF BaseInv, AbortInv, Abort, ListInv, TypeOK
  <2>2. PICK s \in {store[a.id], "off"} :
            /\ store' = [store EXCEPT ![a.id] = s]
            /\ detail' = IF s # store[a.id] THEN FeedAfter(a.id, s) ELSE detail
            /\ s # store[a.id] => store[a.id] # "gone"
    BY <1>8 DEF ExecuteAbort
  <2>3. CASE s = store[a.id]
    <3>1. store' = store /\ detail' = detail
      BY <2>1, <2>2, <2>3
    <3>2. QED
      BY <1>1, <3>1
  <2>4. CASE s # store[a.id]
    <3>1. s = "off" /\ store[a.id] # "off" /\ detail' = FeedAfter(a.id, s)
      BY <2>2, <2>4
    <3>2. QED
      BY <2>1, <2>2, <3>1, FeedKeeps DEF DetailInv, FeedAfter
  <2>5. QED
    BY <2>3, <2>4
<1>9. ASSUME NEW a \in aborts, AbortAnswered(a) PROVE DetailInv'
  <2>1. store' = store
    BY <1>9, OperationFrame DEF AbortAnswered, LoadsAgain, vars, serverVars
  <2>2. CASE detail' = detail
    BY <1>1, <2>1, <2>2
  <2>3. CASE detail # None /\ detail' = NewDetail(detail.id, detail.watch, detail.item)
    <3>1. detail.watch \in BOOLEAN
      BY <2>3 DEF DetailInv, DetailOK, Detail
    <3>2. QED
      BY <1>5, <2>1, <2>3, <3>1
  <2>4. QED
    BY <1>9, <2>2, <2>3 DEF AbortAnswered
<1>10. QED
  BY <1>1, <1>2, <1>3, <1>4, <1>6, <1>7, <1>8, <1>9, DetailRests DEF ReportNext, OnAbort

(***************************************************************************)
(* What a step of the list does to its streams                             *)
(***************************************************************************)

\* A stream is opened, of the generation that is current from then on.
Opens ==
    /\ opened' = opened + 1
    /\ \E new \in loads' :
          /\ new.no = opened + 1 /\ new.generation = generation' /\ new.rest = None /\ new.rows = <<>>
          /\ loads' \subseteq loads \cup {new}
    /\ generation' \in {generation, generation + 1}
    /\ accumulated' \in {accumulated, <<>>}

\* A stream goes on; a stream of an earlier generation changes no row.
GoesOn(l, m) ==
    /\ loads' = (loads \ {l}) \cup {m}
    /\ m.no = l.no /\ m.generation = l.generation
    /\ UNCHANGED <<generation, opened>>
    /\ ~IsCurrent(l) => accumulated' = accumulated

\* A stream ends.
Ends(l) ==
    /\ loads' = loads \ {l}
    /\ UNCHANGED <<generation, opened>>
    /\ IF IsCurrent(l) THEN accumulated' \in {accumulated, l.rows} ELSE accumulated' = accumulated

\* Every request has a number of its own, and the generation of the list.
LEMMA RequestOpens ==
    ASSUME NEW kind, NEW range, NEW g, NEW q, NEW others \in SUBSET loads,
           Request(kind, range, g, q, others), generation' = g, g \in {generation, generation + 1},
           accumulated' \in {accumulated, <<>>}
    PROVE  Opens
<1> DEFINE new == [no |-> opened + 1, generation |-> g, query |-> q, range |-> range, kind |-> kind,
                   rest |-> None, received |-> 0, rows |-> <<>>]
<1>1. opened' = opened + 1 /\ loads' = others \cup {new}
  BY DEF Request
<1>2. new.no = opened + 1 /\ new.generation = generation' /\ new.rest = None /\ new.rows = <<>>
  OBVIOUS
<1> HIDE DEF new
<1>3. QED
  BY <1>1, <1>2 DEF Opens

\* Whatever restarts or continues the list begins one load.
LEMMA OperationOpens ==
    ASSUME (\E q \in Queries : QueryArrives(q)) \/ LoadMore \/ RefreshLoaded \/ Reload
    PROVE  Opens /\ (Reload => generation' = generation + 1 /\ accumulated' = <<>>)
<1>0. Reload => generation' = generation + 1 /\ accumulated' = <<>>
  BY DEF Reload, Restart
<1>1. WithoutActive \in SUBSET loads /\ loads \in SUBSET loads
  BY DEF WithoutActive
<1>2. CASE \E q \in Queries : QueryArrives(q)
  BY <1>1, <1>2, RequestOpens DEF QueryArrives, Restart
<1>3. CASE LoadMore
  <2>1. /\ Request("append", [offset |-> offset, pageSize |-> PageSize], generation, query, loads)
        /\ generation' = generation /\ accumulated' = accumulated
    BY <1>3 DEF LoadMore
  <2>2. generation' \in {generation, generation + 1} /\ accumulated' \in {accumulated, <<>>}
    BY <2>1
  <2>3. QED
    BY <1>0, <1>1, <2>1, <2>2, RequestOpens
<1>4. CASE RefreshLoaded
  <2>1. PICK range : /\ Request("replace", range, generation + 1, query, WithoutActive)
                     /\ generation' = generation + 1 /\ accumulated' = accumulated
    BY <1>4 DEF RefreshLoaded
  <2>2. generation' \in {generation, generation + 1} /\ accumulated' \in {accumulated, <<>>}
    BY <2>1
  <2>3. QED
    BY <1>0, <1>1, <2>1, <2>2, RequestOpens
<1>5. CASE Reload
  BY <1>1, <1>5, RequestOpens DEF Reload, Restart
<1>6. QED
  BY <1>2, <1>3, <1>4, <1>5

\* What the server has read is how things are.
LEMMA ServeGoesOn ==
    ASSUME ListInv, NEW l \in loads, Serve(l)
    PROVE  \E m : /\ GoesOn(l, m) /\ m.rows = l.rows
                  /\ \A k \in DOMAIN m.rest : m.rest[k].state = store[m.rest[k].id]
<1> DEFINE objects == [i \in Ids |-> [id |-> i, state |-> store[i]]]
           S == {[id |-> i, state |-> store[i]] : i \in Ids}
           I == {i \in Ids : Matches(store[i], l.query)}
           all == Result(l.query)
           last == l.range.offset + l.range.pageSize
           end == IF Len(all) < last THEN Len(all) ELSE last
           m == [l EXCEPT !.rest = SubSeq(all, l.range.offset + 1, end)]
<1>1. l \in Load /\ l.range.offset \in Nat /\ l.range.pageSize \in Nat
  BY DEF ListInv, TypeOK, Load, ListRange
<1>2. objects \in Seq(S) /\ I \in SUBSET DOMAIN objects /\ all = Pick(objects, I)
  <2>1. N \in Nat /\ objects \in [1..N -> S] /\ I \in SUBSET DOMAIN objects
    BY SizeAssumption DEF Ids
  <2>2. all = Pick(objects, I)
    BY DEF Result
  <2> HIDE DEF objects, S, I, all
  <2>3. QED
    BY <2>1, <2>2, FunctionIsSeq
<1>3. all \in Seq(S)
  <2> HIDE DEF objects, S, I, all
  <2>1. QED
    BY <1>2, PickFacts
<1>4. SubSeq(all, l.range.offset + 1, end) \in Seq(S)
  <2> HIDE DEF objects, S, I, all
  <2>1. Len(all) \in Nat /\ \A i \in 1..Len(all) : all[i] \in S
    BY <1>3, LenProperties
  <2>2. end \in Nat /\ end <= Len(all)
    BY <1>1, <2>1
  <2> HIDE DEF end
  <2>3. \A i \in (l.range.offset + 1)..end : all[i] \in S
    BY <1>1, <2>1, <2>2
  <2>4. l.range.offset + 1 \in Int /\ end \in Int
    BY <1>1, <2>2
  <2>5. QED
    BY <2>3, <2>4, SubSeqProperties
<1>5. \A k \in DOMAIN SubSeq(all, l.range.offset + 1, end) :
         SubSeq(all, l.range.offset + 1, end)[k].state = store[SubSeq(all, l.range.offset + 1, end)[k].id]
  <2> DEFINE s == SubSeq(all, l.range.offset + 1, end)
  <2>1. \A k \in DOMAIN s : s[k] \in S
    <3> HIDE DEF S, s
    <3>1. s \in Seq(S)
      BY <1>4 DEF s
    <3>2. QED
      BY <3>1, SeqElements
  <2> HIDE DEF s
  <2>2. \A k \in DOMAIN s : s[k].state = store[s[k].id]
    BY <2>1
  <2>3. QED
    BY <2>2 DEF s
<1>6. /\ m.no = l.no /\ m.generation = l.generation /\ m.rows = l.rows
      /\ m.rest = SubSeq(all, l.range.offset + 1, end)
  <2> HIDE DEF all, end
  <2>1. QED
    BY <1>1 DEF Load
<1>7. /\ loads' = (loads \ {l}) \cup {m}
      /\ UNCHANGED <<generation, opened, accumulated>>
  BY DEF Serve
<1> HIDE DEF m, all, end
<1>8. GoesOn(l, m)
  BY <1>6, <1>7 DEF GoesOn
<1>9. \A k \in DOMAIN m.rest : m.rest[k].state = store[m.rest[k].id]
  BY <1>5, <1>6
<1>10. WITNESS m
<1>11. QED
  BY <1>6, <1>8, <1>9

\* A row comes: what is new in the rows is the row, and the rest is a part of what it was.
LEMMA NextGoesOn ==
    ASSUME ListInv, NEW l \in loads, StreamNext(l)
    PROVE  \E m, row :
              /\ GoesOn(l, m)
              /\ \E k \in DOMAIN l.rest : l.rest[k].id = row.id /\ l.rest[k].state = row.state
              /\ l.rest # None
              /\ \A k \in DOMAIN m.rest : \E j \in DOMAIN l.rest : m.rest[k] = l.rest[j]
              /\ \A k \in DOMAIN m.rows : m.rows[k] = row \/ \E j \in DOMAIN l.rows : m.rows[k] = l.rows[j]
              /\ \A k \in DOMAIN accumulated' :
                    accumulated'[k] = row \/ \E j \in DOMAIN accumulated : accumulated'[k] = accumulated[j]
<1> DEFINE row == [id |-> Head(l.rest).id, state |-> Head(l.rest).state, load |-> l.no, query |-> l.query]
           rows == IF IsCurrent(l) /\ l.kind = "replace" THEN Upsert(l.rows, row) ELSE l.rows
           received == IF IsCurrent(l) /\ l.kind # "replace" THEN l.received + 1 ELSE l.received
           m == [l EXCEPT !.rest = Tail(l.rest), !.received = received, !.rows = rows]
           Object == [id : Ids, state : {"on", "off"}]
<1>1. l \in Load /\ l.rows \in Seq(Row) /\ accumulated \in Seq(Row)
  BY DEF ListInv, TypeOK, Load
<1>2. l.rest \in Seq(Object) /\ l.rest # <<>> /\ l.rest # None
  BY <1>1 DEF StreamNext, Load
<1>3. /\ Head(l.rest) \in Object /\ 1 \in DOMAIN l.rest /\ l.rest[1] = Head(l.rest)
      /\ \A k \in DOMAIN Tail(l.rest) : k + 1 \in DOMAIN l.rest /\ Tail(l.rest)[k] = l.rest[k + 1]
  <2> HIDE DEF Object
  <2>1. Len(l.rest) \in Nat \ {0} /\ DOMAIN l.rest = 1..Len(l.rest)
    BY <1>2, EmptySeq, LenProperties
  <2>2. /\ Head(l.rest) \in Object /\ Tail(l.rest) \in Seq(Object) /\ Len(Tail(l.rest)) = Len(l.rest) - 1
        /\ \A i \in 1..Len(Tail(l.rest)) : Tail(l.rest)[i] = l.rest[i + 1]
    BY <1>2, HeadTailProperties
  <2>3. DOMAIN Tail(l.rest) = 1..Len(Tail(l.rest))
    BY <2>2, LenProperties
  <2>4. l.rest[1] = Head(l.rest)
    BY <1>2
  <2>5. QED
    BY <2>1, <2>2, <2>3, <2>4
<1>4. row \in Row /\ row.id = Head(l.rest).id /\ row.state = Head(l.rest).state
  BY <1>1, <1>3 DEF Row, Load
<1>5. /\ loads' = (loads \ {l}) \cup {m}
      /\ UNCHANGED <<generation, opened>>
      /\ accumulated' = IF IsCurrent(l) /\ l.kind # "replace" THEN Upsert(accumulated, row) ELSE accumulated
  BY <1>1 DEF StreamNext, Load
<1> HIDE DEF row
<1>6. \A k \in DOMAIN accumulated' :
          accumulated'[k] = row \/ \E j \in DOMAIN accumulated : accumulated'[k] = accumulated[j]
  <2>1. \A k \in DOMAIN Upsert(accumulated, row) :
          Upsert(accumulated, row)[k] = row
            \/ (k \in DOMAIN accumulated /\ Upsert(accumulated, row)[k] = accumulated[k])
    BY <1>1, <1>4, UpsertFacts
  <2>2. QED
    BY <1>5, <2>1
<1>7. \A k \in DOMAIN rows : rows[k] = row \/ \E j \in DOMAIN l.rows : rows[k] = l.rows[j]
  <2>1. \A k \in DOMAIN Upsert(l.rows, row) :
          Upsert(l.rows, row)[k] = row \/ (k \in DOMAIN l.rows /\ Upsert(l.rows, row)[k] = l.rows[k])
    BY <1>1, <1>4, UpsertFacts
  <2>2. QED
    BY <2>1
<1>8. m.no = l.no /\ m.generation = l.generation /\ m.rest = Tail(l.rest) /\ m.rows = rows
  <2> HIDE DEF rows, received
  <2>1. QED
    BY <1>1 DEF Load
<1>9. ~IsCurrent(l) => accumulated' = accumulated
  BY <1>5
<1> HIDE DEF m, rows
<1>10. GoesOn(l, m)
  BY <1>5, <1>8, <1>9 DEF GoesOn
<1>11. \E k \in DOMAIN l.rest : l.rest[k].id = row.id /\ l.rest[k].state = row.state
  BY <1>3, <1>4
<1>12. \A k \in DOMAIN m.rest : \E j \in DOMAIN l.rest : m.rest[k] = l.rest[j]
  BY <1>3, <1>8
<1>13. \A k \in DOMAIN m.rows : m.rows[k] = row \/ \E j \in DOMAIN l.rows : m.rows[k] = l.rows[j]
  BY <1>7, <1>8
<1>14. WITNESS m, row
<1>15. QED
  BY <1>2, <1>6, <1>10, <1>11, <1>12, <1>13

\* A stream that ends is removed, or steps back to the page before.
LEMMA FinishEnds == ASSUME NEW l \in loads, Finish(l) PROVE Ends(l) \/ Opens
<1>1. CASE Drop(l)
  BY <1>1 DEF Drop, Ends
<1>2. CASE IsCurrent(l) /\ FinishRequest(l)
  <2>1. CASE StepsBack(l)
    <3>1. (WithoutActive \ {l}) \in SUBSET loads
      BY DEF WithoutActive
    <3>2. QED
      BY <1>2, <2>1, <3>1, RequestOpens DEF FinishRequest, Restart
  <2>2. CASE ~StepsBack(l)
    BY <1>2, <2>2 DEF FinishRequest, Ends
  <2>3. QED
    BY <2>1, <2>2
<1>3. CASE IsCurrent(l) /\ FinishReplacement(l)
  BY <1>3 DEF FinishReplacement, Ends
<1>4. QED
  BY <1>1, <1>2, <1>3 DEF Finish

(***************************************************************************)
(* Queue counts                                                            *)
(***************************************************************************)

\* Streams are numbered.
NumberInv ==
    /\ \A l \in loads : l.no <= opened
    /\ \A l, m \in loads : l.no = m.no => l = m

\* Once no stream of the current generation is left, what is counted, and shown as counted, is active.
CountInv ==
    (\A l \in loads : ~IsCurrent(l)) =>
        /\ \A r \in counting : r.counted \cup UNION r.waiting \subseteq ActiveIds(accumulated)
        /\ counting = {} => counts \subseteq ActiveIds(accumulated)

\* The numbers of loads are numbers.
LEMMA LoadNumbers == BaseInv => opened \in Nat /\ generation \in Nat /\ \A l \in loads : l.no \in Nat /\ l.generation \in Nat
BY SizeAssumption DEF BaseInv, ListInv, TypeOK, Load

\* A new load has a new number.
LEMMA OpensNumbers == ASSUME BaseInv, NumberInv, Opens PROVE NumberInv' /\ CountInv'
<1>1. PICK new \in loads' : new.no = opened + 1 /\ new.generation = generation' /\ loads' \subseteq loads \cup {new}
  BY DEF Opens
<1>2. \A l \in loads : l.no # opened + 1 /\ l.no <= opened + 1
  BY LoadNumbers DEF NumberInv
<1>3. opened' = opened + 1 /\ opened \in Nat
  BY LoadNumbers DEF Opens
<1>4. NumberInv'
  BY <1>1, <1>2, <1>3 DEF NumberInv
<1>5. CountInv'
  BY <1>1 DEF CountInv, IsCurrent
<1>6. QED
  BY <1>4, <1>5

\* What a stream delivers is counted when it ends.
LEMMA StreamCounts == ASSUME BaseInv, NumberInv, CountInv, OnStream, BaseInv' PROVE NumberInv' /\ CountInv'
<1>1. PICK l \in loads : /\ Serve(l) \/ StreamNext(l) \/ StreamComplete(l) \/ StreamFails(l)
                         /\ IF Completes(l) THEN AsksForCounts ELSE UNCHANGED counting
  BY DEF OnStream
<1>2. counts' = counts /\ page' = page
  BY DEF OnStream
<1>3. ASSUME NEW m, GoesOn(l, m) PROVE NumberInv' /\ CountInv'
  <2>1. /\ loads' = (loads \ {l}) \cup {m} /\ m.no = l.no /\ m.generation = l.generation
        /\ UNCHANGED <<generation, opened>> /\ (~IsCurrent(l) => accumulated' = accumulated)
    BY <1>3 DEF GoesOn
  <2>2. NumberInv'
    BY <2>1 DEF NumberInv
  <2>3. ~Completes(l)
    BY <2>1 DEF Completes
  <2>4. CountInv'
    <3> SUFFICES ASSUME \A k \in loads' : ~IsCurrent(k)'
                 PROVE  (/\ \A r \in counting : r.counted \cup UNION r.waiting \subseteq ActiveIds(accumulated)
                         /\ counting = {} => counts \subseteq ActiveIds(accumulated))'
      BY DEF CountInv, IsCurrent
    <3>1. \A k \in loads : ~IsCurrent(k)
      BY <2>1 DEF IsCurrent
    <3>2. UNCHANGED <<accumulated, counting, counts>>
      BY <1>1, <1>2, <2>1, <2>3, <3>1
    <3>3. QED
      BY <3>1, <3>2 DEF CountInv
  <2>5. QED
    BY <2>2, <2>4
<1>4. CASE Ends(l)
  <2>1. loads' = loads \ {l} /\ UNCHANGED <<generation, opened>>
    BY <1>4 DEF Ends
  <2>2. NumberInv'
    BY <2>1 DEF NumberInv
  <2>3. CASE ~IsCurrent(l)
    <3>1. UNCHANGED <<accumulated, counting, counts>>
      BY <1>1, <1>2, <1>4, <2>3 DEF Ends, Completes
    <3>2. (\A k \in loads' : ~IsCurrent(k)') => \A k \in loads : ~IsCurrent(k)
      BY <2>1, <2>3 DEF IsCurrent
    <3>3. CountInv'
      BY <3>1, <3>2 DEF CountInv, IsCurrent
    <3>4. QED
      BY <2>2, <3>3
  <2>4. CASE IsCurrent(l)
    <3>1. Completes(l)
      BY <2>1, <2>4 DEF Completes, NumberInv
    <3>2. CASE HasQueueCounts
      <4>1. (predicate = Ids)' /\ (comparator = None)' /\ ListInv'
        BY <1>2, <3>2 DEF BaseInv, PageInv, HasQueueCounts
      <4>2. /\ counting' = {CountRequest(ActiveIds(accumulated'))}
            /\ ActiveIds(accumulated') \subseteq Ids
        BY <1>1, <3>1, <3>2, <4>1, AskedFor
      <4>3. \A r \in counting' : r.counted \cup UNION r.waiting \subseteq ActiveIds(accumulated')
        BY <4>2, ChunkFacts DEF CountRequest
      <4>4. CountInv'
        BY <4>2, <4>3 DEF CountInv
      <4>5. QED
        BY <2>2, <4>4
    <3>3. CASE ~HasQueueCounts
      <4>1. counting' = {} /\ counts' = {}
        BY <1>2, <3>3 DEF BaseInv, PageInv, HasQueueCounts
      <4>2. CountInv'
        BY <4>1 DEF CountInv
      <4>3. QED
        BY <2>2, <4>2
    <3>4. QED
      BY <3>2, <3>3
  <2>5. QED
    BY <2>3, <2>4
<1>5. ListInv
  BY DEF BaseInv
<1>6. QED
  BY <1>1, <1>3, <1>4, <1>5, OpensNumbers, ServeGoesOn, NextGoesOn, FinishEnds DEF StreamComplete, StreamFails

\* The list is left as it is.
Rests == UNCHANGED <<loads, generation, opened, accumulated>>

\* What leaves the rows and their loads alone.
LEMMA ListRests ==
    ASSUME \/ \E f \in Predicates \cup {Ids} : OnFilterChange(f)
           \/ ApplyClientFilters
           \/ \E c \in Comparators \cup {None} : OnSort(c)
           \/ OnBack \/ DetailCall \/ DetailFails \/ ToggleWatch
           \/ \E i \in Ids : ExecutionChanges(i)
           \/ \E i \in Ids : OpenAbortDialog(i)
           \/ CloseAbortDialog
           \/ \E a \in aborts : ExecuteAbort(a)
           \/ UNCHANGED allVars
    PROVE  Rests /\ UNCHANGED <<counts, counting>>
<1>1. CASE ApplyClientFilters \/ \E c \in Comparators \cup {None} : OnSort(c)
  BY <1>1 DEF ApplyClientFilters, OnSort, reportVars, SetPredicate, SetComparator, Rests, countVars
<1>2. CASE (\E f \in Predicates \cup {Ids} : OnFilterChange(f)) \/ (\E i \in Ids : OpenAbortDialog(i)) \/ CloseAbortDialog
  BY <1>2 DEF OnFilterChange, OpenAbortDialog, CloseAbortDialog, vars, listVars, Rests, countVars
<1>3. CASE OnBack \/ DetailCall \/ DetailFails \/ ToggleWatch
  BY <1>3 DEF OnBack, DetailCall, DetailRead, DetailAnswer, FeedOpens, DetailUpdate, DetailFails, DetailStep,
              ToggleWatch, vars, listVars, Rests, countVars
<1>4. CASE (\E i \in Ids : ExecutionChanges(i)) \/ \E a \in aborts : ExecuteAbort(a)
  BY <1>4 DEF ExecutionChanges, ExecuteAbort, listVars, Rests, countVars
<1>5. CASE UNCHANGED allVars
  BY <1>5 DEF allVars, reportVars, vars, listVars, Rests, countVars
<1>6. QED
  BY <1>1, <1>2, <1>3, <1>4, <1>5

\* Counts through every step.
LEMMA CountInvStep ==
    ASSUME BaseInv, NumberInv, CountInv, [ReportNext]_allVars PROVE NumberInv' /\ CountInv'
<1>0. BaseInv'
  BY BaseInvStep
<1>1. CASE OnRefresh \/ OnScroll \/ \E q \in Queries : OnQueryChange(q)
  <2>1. Opens
    BY <1>1, OperationOpens DEF OnRefresh, OnScroll, OnQueryChange
  <2>2. QED
    BY <2>1, OpensNumbers
<1>2. CASE OnStream
  BY <1>0, <1>2, StreamCounts
<1>3. ASSUME Rests PROVE NumberInv'
  BY <1>3 DEF Rests, NumberInv
<1>4. ASSUME Rests, UNCHANGED <<counts, counting>> PROVE CountInv'
  BY <1>4 DEF Rests, CountInv, IsCurrent
<1>5. CASE CountStep
  <2>1. PICK r \in counting : CountsArrive(r) \/ \E chunk \in r.waiting : CountChunk(r, chunk)
    BY <1>5 DEF CountStep
  <2>2. Rests
    BY <2>1 DEF CountsArrive, CountChunk, vars, listVars, Rests
  <2>3. CountInv'
    <3> SUFFICES ASSUME \A l \in loads : ~IsCurrent(l)
                 PROVE  /\ \A t \in counting' : t.counted \cup UNION t.waiting \subseteq ActiveIds(accumulated)
                        /\ counting' = {} => counts' \subseteq ActiveIds(accumulated)
      BY <2>2 DEF CountInv, IsCurrent, Rests
    <3>1. \A t \in counting : t.counted \cup UNION t.waiting \subseteq ActiveIds(accumulated)
      BY DEF CountInv
    <3>2. CASE CountsArrive(r)
      BY <2>1, <3>1, <3>2 DEF CountsArrive
    <3>3. ASSUME NEW chunk \in r.waiting, CountChunk(r, chunk)
          PROVE  /\ \A t \in counting' : t.counted \cup UNION t.waiting \subseteq ActiveIds(accumulated)
                 /\ counting' # {}
      <4>1. PICK counted \in {r.counted, r.counted \cup chunk} :
              counting' = (counting \ {r}) \cup {[waiting |-> r.waiting \ {chunk}, counted |-> counted]}
        BY <3>3 DEF CountChunk
      <4> DEFINE rest == r.waiting \ {chunk}
                 left == [waiting |-> rest, counted |-> counted]
      <4>2. r.counted \cup UNION r.waiting \subseteq ActiveIds(accumulated)
        BY <2>1, <3>1
      <4>3. counted \subseteq ActiveIds(accumulated) /\ UNION rest \subseteq ActiveIds(accumulated)
        BY <3>3, <4>1, <4>2
      <4>4. left.counted = counted /\ left.waiting = rest /\ counting' = (counting \ {r}) \cup {left}
        BY <4>1
      <4> HIDE DEF left, rest
      <4>5. left.counted \cup UNION left.waiting \subseteq ActiveIds(accumulated)
        BY <4>3, <4>4
      <4>6. QED
        BY <3>1, <4>4, <4>5
    <3>4. QED
      BY <2>1, <3>2, <3>3
  <2>4. QED
    BY <1>3, <2>2, <2>3
<1>6. ASSUME NEW i \in Ids, OnRowClick(i) PROVE NumberInv' /\ CountInv'
  BY <1>6 DEF OnRowClick, NumberInv, CountInv
<1>7. ASSUME NEW a \in aborts, AbortAnswered(a) PROVE NumberInv' /\ CountInv'
  <2>1. Reload \/ UNCHANGED vars
    BY <1>7 DEF AbortAnswered, LoadsAgain
  <2>2. CASE Reload
    BY <2>2, OperationOpens, OpensNumbers
  <2>3. CASE UNCHANGED vars
    BY <1>3, <1>4, <1>7, <2>3 DEF AbortAnswered, vars, listVars, Rests, countVars
  <2>4. QED
    BY <2>1, <2>2, <2>3
<1>8. QED
  BY <1>1, <1>2, <1>3, <1>4, <1>5, <1>6, <1>7, ListRests DEF ReportNext, OnAbort

(***************************************************************************)
(* Aborts                                                                  *)
(***************************************************************************)

\* No row shows the execution as running.
NoneActive(s, i) == \A k \in DOMAIN s : s[k].id = i => s[k].state = "off"

\* Neither the rows nor anything that may become one says that the execution is running.
Clean(i) ==
    /\ NoneActive(accumulated, i)
    /\ \A l \in loads : IsCurrent(l) => NoneActive(l.rows, i) /\ (l.rest # None => NoneActive(l.rest, i))

\* The page of an execution is on its way to show, or shows, that it has ended.
KnowsEnd(d) ==
    \/ d.phase \in {"get", "failed"}
    \/ d.phase = "answer" /\ d.updates = <<"off">>
    \/ d.phase = "idle" /\ d.item = "off"

\* What has been aborted has ended, and what the page has loaded since says so.
ToldInv ==
    /\ \A a \in aborts : a.answer = "aborted" => store[a.id] = "off"
    /\ \A i \in told : /\ store[i] = "off"
                       /\ detail = None => Clean(i)
                       /\ detail # None /\ detail.id = i => KnowsEnd(detail)

\* An empty list shows no execution.
LEMMA NothingActive == \A i : NoneActive(<<>>, i)
BY DEF NoneActive

\* A new stream has nothing to say yet, and a new generation forgets the earlier ones.
LEMMA OpensClean == ASSUME BaseInv, Opens, NEW i, Clean(i) PROVE Clean(i)'
<1>1. PICK new \in loads' : /\ new.rest = None /\ new.rows = <<>> /\ new.generation = generation'
                            /\ loads' \subseteq loads \cup {new}
  BY DEF Opens
<1>2. NoneActive(accumulated', i)
  BY NothingActive DEF Opens, Clean
<1>3. ASSUME NEW l \in loads', l.generation = generation'
      PROVE  NoneActive(l.rows, i) /\ (l.rest # None => NoneActive(l.rest, i))
  <2>1. CASE l = new
    BY <1>1, <2>1, NothingActive
  <2>2. CASE l \in loads
    <3>1. l.generation <= generation /\ l.generation \in Nat /\ generation \in Nat
      BY <2>2, LoadNumbers DEF BaseInv, ListInv, RowsInv
    <3>2. l.generation = generation
      BY <1>3, <3>1 DEF Opens
    <3>3. QED
      BY <2>2, <3>2 DEF Clean, IsCurrent
  <2>3. QED
    BY <1>1, <2>1, <2>2
<1>4. QED
  BY <1>2, <1>3 DEF Clean, IsCurrent

\* reload() drops the rows and forgets every stream.
LEMMA ReloadCleans == ASSUME BaseInv, Reload, NEW i PROVE Clean(i)'
<1>1. Opens /\ generation' = generation + 1 /\ accumulated' = <<>>
  BY OperationOpens
<1>2. PICK new \in loads' : new.rest = None /\ new.rows = <<>> /\ loads' \subseteq loads \cup {new}
  BY <1>1 DEF Opens
<1>3. \A l \in loads : l.generation # generation'
  BY <1>1, LoadNumbers DEF BaseInv, ListInv, RowsInv
<1>4. \A l \in loads' : l.generation = generation' => l.rest = None /\ l.rows = <<>>
  BY <1>2, <1>3
<1>5. QED
  BY <1>1, <1>4, NothingActive DEF Clean, IsCurrent

\* What streams deliver of an execution that has ended.
LEMMA StreamClean ==
    ASSUME BaseInv, NEW l \in loads, Serve(l) \/ StreamNext(l) \/ StreamComplete(l) \/ StreamFails(l),
           NEW i \in Ids, store[i] = "off", Clean(i)
    PROVE  Clean(i)'
<1>0. ListInv
  BY DEF BaseInv
<1>1. ASSUME NEW m, GoesOn(l, m), NoneActive(accumulated', i),
             IsCurrent(l) => NoneActive(m.rows, i) /\ (m.rest # None => NoneActive(m.rest, i))
      PROVE  Clean(i)'
  BY <1>1 DEF GoesOn, Clean, IsCurrent
<1>2. CASE Serve(l)
  <2>1. PICK m : /\ GoesOn(l, m) /\ m.rows = l.rows
                 /\ \A k \in DOMAIN m.rest : m.rest[k].state = store[m.rest[k].id]
    BY <1>0, <1>2, ServeGoesOn
  <2>2. accumulated' = accumulated
    BY <1>2 DEF Serve
  <2>3. NoneActive(m.rest, i)
    BY <2>1 DEF NoneActive
  <2>4. QED
    BY <1>1, <2>1, <2>2, <2>3 DEF Clean
<1>3. CASE StreamNext(l)
  <2>1. PICK m, row :
              /\ GoesOn(l, m)
              /\ \E k \in DOMAIN l.rest : l.rest[k].id = row.id /\ l.rest[k].state = row.state
              /\ l.rest # None
              /\ \A k \in DOMAIN m.rest : \E j \in DOMAIN l.rest : m.rest[k] = l.rest[j]
              /\ \A k \in DOMAIN m.rows : m.rows[k] = row \/ \E j \in DOMAIN l.rows : m.rows[k] = l.rows[j]
              /\ \A k \in DOMAIN accumulated' :
                    accumulated'[k] = row \/ \E j \in DOMAIN accumulated : accumulated'[k] = accumulated[j]
    BY <1>0, <1>3, NextGoesOn
  <2>2. CASE IsCurrent(l)
    <3>1. NoneActive(l.rest, i) /\ NoneActive(l.rows, i) /\ NoneActive(accumulated, i)
      BY <2>1, <2>2 DEF Clean
    <3>2. row.id = i => row.state = "off"
      BY <2>1, <3>1 DEF NoneActive
    <3>3. NoneActive(m.rest, i)
      BY <2>1, <3>1 DEF NoneActive
    <3>4. NoneActive(m.rows, i)
      BY <2>1, <3>1, <3>2 DEF NoneActive
    <3>5. NoneActive(accumulated', i)
      BY <2>1, <3>1, <3>2 DEF NoneActive
    <3>6. QED
      BY <1>1, <2>1, <3>3, <3>4, <3>5
  <2>3. CASE ~IsCurrent(l)
    BY <1>1, <2>1, <2>3 DEF GoesOn, Clean
  <2>4. QED
    BY <2>2, <2>3
<1>4. CASE Ends(l)
  BY <1>4 DEF Ends, Clean, IsCurrent
<1>5. QED
  BY <1>2, <1>3, <1>4, OpensClean, FinishEnds DEF StreamComplete, StreamFails

\* The calls of a page that knows of the end, or will.
LEMMA KnowledgeStays ==
    ASSUME BaseInv, DetailInv, DetailCall \/ DetailFails, KnowsEnd(detail), store[detail.id] = "off"
    PROVE  KnowsEnd(detail') /\ detail'.id = detail.id
<1>1. detail \in Detail
  BY DEF DetailCall, DetailRead, DetailAnswer, FeedOpens, DetailUpdate, DetailFails, DetailInv, DetailOK
<1>2. CASE DetailRead
  <2>1. detail' = [detail EXCEPT !.phase = "answer", !.updates = <<"off">>]
    BY <1>2 DEF DetailRead, DetailStep
  <2>2. QED
    BY <1>1, <2>1 DEF KnowsEnd, Detail
<1>3. CASE DetailAnswer
  <2>1. detail.updates = <<"off">>
    BY <1>3 DEF DetailAnswer, KnowsEnd
  <2>2. Head(detail.updates) = "off" /\ detail.updates # <<>>
    BY <2>1
  <2>3. detail' = [detail EXCEPT !.item = "off", !.updates = <<>>, !.phase = "idle"]
    BY <1>3, <2>2 DEF DetailAnswer, DetailStep
  <2>4. QED
    BY <1>1, <2>3 DEF KnowsEnd, Detail
<1>4. CASE FeedOpens \/ DetailUpdate
  BY <1>4 DEF FeedOpens, DetailUpdate, KnowsEnd
<1>5. CASE DetailFails
  BY <1>1, <1>5 DEF DetailFails, DetailStep, KnowsEnd, Detail
<1>6. QED
  BY <1>2, <1>3, <1>4, <1>5 DEF DetailCall

\* A page that reads anew.
LEMMA NewKnows == \A i, w, it : KnowsEnd(NewDetail(i, w, it)) /\ NewDetail(i, w, it).id = i
BY DEF KnowsEnd, NewDetail

\* An execution ends, and nobody is told otherwise.
LEMMA ChangeTold ==
    ASSUME BaseInv, DetailInv, ToldInv, NEW i \in Ids, NEW s \in {"on", "off"},
           store[i] # "off", store[i] # "gone" => s = "off", store' = [store EXCEPT ![i] = s],
           detail' = FeedAfter(i, s), told' = told, Rests
    PROVE  /\ \A a \in aborts : a.answer = "aborted" => store'[a.id] = "off"
           /\ \A j \in told' : /\ store'[j] = "off"
                               /\ detail' = None => Clean(j)'
                               /\ detail' # None /\ detail'.id = j => KnowsEnd(detail')
<1>1. store \in [Ids -> ObjectState] /\ told \subseteq Ids /\ \A a \in aborts : a.id \in Ids
  BY DEF BaseInv, ListInv, TypeOK, AbortInv, Abort
<1>2. \A j \in Ids : store[j] = "off" => store'[j] = "off"
  BY <1>1
<1>3. \A j : Clean(j)' <=> Clean(j)
  BY DEF Rests, Clean, IsCurrent
<1>4. ASSUME NEW j \in told' PROVE (detail' = None => Clean(j)') /\ (detail' # None /\ detail'.id = j => KnowsEnd(detail'))
  <2>1. CASE detail' = detail
    BY <1>3, <2>1 DEF ToldInv
  <2>2. CASE detail' # detail
    <3>1. detail # None /\ detail.phase = "feed" /\ detail.id = i /\ detail' = [detail EXCEPT !.updates = Append(@, s)]
      BY <2>2 DEF FeedAfter
    <3>2. j # i
      BY DEF ToldInv
    <3>3. detail'.id = detail.id
      BY <3>1
    <3>4. CASE detail' # None
      BY <3>1, <3>2, <3>3, <3>4
    <3>5. detail' # None
      <4>1. DetailOK(detail', store')
        BY <3>1, FeedKeeps
      <4>2. QED
        BY <4>1, NoneAssumption DEF DetailOK
    <3>6. QED
      BY <3>4, <3>5
  <2>3. QED
    BY <2>1, <2>2
<1>5. QED
  BY <1>1, <1>2, <1>4 DEF ToldInv

\* A page that is open stays open until the user leaves it.
LEMMA PageStays ==
    ASSUME NEW st, DetailOK(detail', st) PROVE detail' # None
BY NoneAssumption DEF DetailOK

\* What the page has told the user stays true through every step.
LEMMA ToldInvStep == ASSUME BaseInv, DetailInv, ToldInv, [ReportNext]_allVars PROVE ToldInv'
<1>0. told \subseteq Ids /\ store \in [Ids -> ObjectState] /\ \A a \in aborts : a \in Abort /\ a.id \in Ids
  BY DEF BaseInv, AbortInv, Abort, ListInv, TypeOK
<1>1. ASSUME UNCHANGED <<store, detail, aborts, told>>, detail = None => \A i \in told : Clean(i) => Clean(i)'
      PROVE  ToldInv'
  BY <1>1 DEF ToldInv
<1>2. CASE OnRefresh \/ OnScroll \/ \E q \in Queries : OnQueryChange(q)
  <2>1. Opens
    BY <1>2, OperationOpens DEF OnRefresh, OnScroll, OnQueryChange
  <2>2. UNCHANGED <<store, detail, aborts, told>>
    BY <1>2, OperationFrame DEF OnRefresh, OnScroll, OnQueryChange, reportVars, abortVars
  <2>3. QED
    BY <1>1, <2>1, <2>2, OpensClean
<1>3. CASE OnStream
  <2>1. PICK l \in loads : Serve(l) \/ StreamNext(l) \/ StreamComplete(l) \/ StreamFails(l)
    BY <1>3 DEF OnStream
  <2>2. UNCHANGED <<store, detail, aborts, told>>
    BY <1>3, <2>1, StreamFrame DEF OnStream, abortVars
  <2>3. \A i \in told : Clean(i) => Clean(i)'
    BY <1>0, <2>1, StreamClean DEF ToldInv
  <2>4. QED
    BY <1>1, <2>2, <2>3
<1>4. ASSUME Rests PROVE \A i : Clean(i) <=> Clean(i)'
  BY <1>4 DEF Rests, Clean, IsCurrent
<1>5. CASE \/ \E f \in Predicates \cup {Ids} : OnFilterChange(f)
           \/ ApplyClientFilters
           \/ \E c \in Comparators \cup {None} : OnSort(c)
           \/ \E i \in Ids : OpenAbortDialog(i)
           \/ UNCHANGED allVars
  <2>1. Rests /\ UNCHANGED <<store, detail>>
    BY <1>5, ListRests, DetailRests
  <2>2. UNCHANGED <<aborts, told>>
    BY <1>5 DEF OnFilterChange, ApplyClientFilters, OnSort, OpenAbortDialog, allVars, reportVars, abortVars
  <2>3. QED
    BY <1>1, <1>4, <2>1, <2>2
<1>6. CASE CountStep
  <2>1. Rests /\ UNCHANGED <<store, detail, aborts, told>>
    BY <1>6 DEF CountStep, CountsArrive, CountChunk, Rests, vars, serverVars, listVars, abortVars
  <2>2. QED
    BY <1>1, <1>4, <2>1
<1>7. CASE CloseAbortDialog
  <2>1. Rests /\ UNCHANGED <<store, detail, told>>
    BY <1>7 DEF CloseAbortDialog, Rests, vars, serverVars, listVars
  <2>2. \A a \in aborts' : a \in aborts \/ a.answer = "sent"
    BY <1>7 DEF CloseAbortDialog
  <2>3. QED
    BY <1>4, <2>1, <2>2 DEF ToldInv
<1>8. CASE OnBack \/ \E i \in Ids : OnRowClick(i)
  <2>1. told' = {} /\ aborts' = {[a EXCEPT !.left = TRUE] : a \in aborts} /\ store' = store
    BY <1>8 DEF OnBack, OnRowClick, LeavesPage, vars, serverVars
  <2>2. \A a \in aborts : [a EXCEPT !.left = TRUE].answer = a.answer /\ [a EXCEPT !.left = TRUE].id = a.id
    BY <1>0 DEF Abort
  <2>3. ASSUME NEW b \in aborts', b.answer = "aborted" PROVE store'[b.id] = "off"
    <3>1. PICK a \in aborts : b = [a EXCEPT !.left = TRUE]
      BY <2>1
    <3>2. a.answer = "aborted" /\ b.id = a.id
      BY <2>2, <2>3, <3>1
    <3>3. QED
      BY <2>1, <3>2 DEF ToldInv
  <2>4. \A i \in told' : FALSE
    BY <2>1
  <2>5. QED
    BY <2>3, <2>4 DEF ToldInv
<1>9. CASE DetailCall \/ DetailFails
  <2>1. Rests /\ UNCHANGED <<store, aborts, told>> /\ detail # None
    BY <1>9 DEF DetailCall, DetailRead, DetailAnswer, FeedOpens, DetailUpdate, DetailFails, DetailStep,
                Rests, vars, serverVars, listVars, abortVars
  <2>2. detail' # None
    BY <1>9, DetailCalls, PageStays
  <2>3. detail'.id = detail.id
    <3>1. detail \in Detail
      BY <2>1 DEF DetailInv, DetailOK
    <3>2. QED
      BY <1>9, <3>1 DEF DetailCall, DetailRead, DetailAnswer, FeedOpens, DetailUpdate, DetailFails, DetailStep,
                        FeedUpdate, Detail
  <2>4. detail.id \in told => KnowsEnd(detail')
    BY <1>9, <2>1, KnowledgeStays DEF ToldInv
  <2>5. QED
    BY <2>1, <2>2, <2>3, <2>4 DEF ToldInv
<1>10. ASSUME detail # None, NEW w, detail' = NewDetail(detail.id, w, detail.item), store' = store,
              \A a \in aborts' : a.answer = "aborted" => a \in aborts,
              \A i \in told' : i \in told \/ store[i] = "off", detail' # None
       PROVE  ToldInv'
  <2>1. KnowsEnd(detail')
    BY <1>10, NewKnows
  <2>2. QED
    BY <1>10, <2>1 DEF ToldInv
<1>11. CASE ToggleWatch
  <2>1. /\ detail # None /\ detail' = NewDetail(detail.id, ~detail.watch, detail.item)
        /\ UNCHANGED <<store, aborts, told>>
    BY <1>11 DEF ToggleWatch, vars, serverVars, abortVars
  <2>2. (~detail.watch) \in BOOLEAN /\ detail.id \in Ids /\ detail.item \in {None, "on", "off"}
        /\ (detail.item # None => store[detail.id] # "gone")
    BY <2>1 DEF DetailInv, DetailOK, Detail
  <2>3. detail' # None
    BY <2>1, <2>2, NewDetailOK, PageStays
  <2>4. QED
    BY <1>10, <2>1, <2>3
<1>12. ASSUME NEW i \in Ids, ExecutionChanges(i) PROVE ToldInv'
  <2>1. PICK s \in {"on", "off"} : /\ store[i] # "off" /\ (store[i] # "gone" => s = "off")
                                   /\ store' = [store EXCEPT ![i] = s] /\ detail' = FeedAfter(i, s)
    BY <1>12 DEF ExecutionChanges
  <2>2. UNCHANGED <<aborts, told>> /\ Rests
    BY <1>12 DEF ExecutionChanges, abortVars, listVars, Rests
  <2>3. QED
    BY <2>1, <2>2, ChangeTold DEF ToldInv
<1>13. ASSUME NEW a \in aborts, ExecuteAbort(a) PROVE ToldInv'
  <2>1. PICK s \in {store[a.id], "off"} :
            /\ store' = [store EXCEPT ![a.id] = s]
            /\ detail' = IF s # store[a.id] THEN FeedAfter(a.id, s) ELSE detail
            /\ s # store[a.id] => store[a.id] # "gone"
            /\ aborts' = (aborts \ {a}) \cup {[a EXCEPT !.answer = IF s # store[a.id] THEN "aborted" ELSE "other"]}
    BY <1>13 DEF ExecuteAbort
  <2>2. Rests /\ told' = told
    BY <1>13 DEF ExecuteAbort, listVars, Rests
  <2>3. CASE s = store[a.id]
    <3>1. store' = store /\ detail' = detail
      BY <1>0, <2>1, <2>3
    <3>2. \A b \in aborts' : b.answer = "aborted" => b \in aborts
      BY <1>0, <2>1, <2>3 DEF Abort
    <3>3. QED
      BY <1>4, <2>2, <3>1, <3>2 DEF ToldInv
  <2>4. CASE s # store[a.id]
    <3>1. s = "off" /\ store[a.id] # "off" /\ detail' = FeedAfter(a.id, s)
      BY <2>1, <2>4
    <3>2. /\ \A b \in aborts : b.answer = "aborted" => store'[b.id] = "off"
          /\ \A j \in told' : /\ store'[j] = "off"
                              /\ detail' = None => Clean(j)'
                              /\ detail' # None /\ detail'.id = j => KnowsEnd(detail')
      BY <1>0, <2>1, <2>2, <3>1, ChangeTold
    <3>3. store'[a.id] = "off"
      BY <1>0, <2>1, <3>1
    <3>4. \A b \in aborts' : b \in aborts \/ b.id = a.id
      BY <1>0, <2>1 DEF Abort
    <3>5. QED
      BY <3>2, <3>3, <3>4 DEF ToldInv
  <2>5. QED
    BY <2>3, <2>4
<1>14. ASSUME NEW a \in aborts, AbortAnswered(a) PROVE ToldInv'
  <2>1. aborts' = (aborts \ {a}) \cup {[a EXCEPT !.answer = "done"]}
    BY <1>14 DEF AbortAnswered
  <2>2. \A b \in aborts' : b.answer = "aborted" => b \in aborts
    BY <1>0, <2>1 DEF Abort
  <2>3. store' = store
    BY <1>14, OperationFrame DEF AbortAnswered, LoadsAgain, vars, serverVars
  <2>4. CASE a.answer = "other" \/ a.left
    <3>1. Rests /\ UNCHANGED <<detail, told>>
      BY <1>14, <2>4 DEF AbortAnswered, vars, listVars, Rests
    <3>2. QED
      BY <1>4, <2>2, <2>3, <3>1 DEF ToldInv
  <2>5. CASE ~(a.answer = "other" \/ a.left)
    <3>1. store[a.id] = "off" /\ told' = told \cup {a.id}
      BY <1>14, <2>5 DEF AbortAnswered, ToldInv
    <3>2. CASE detail = None
      <4>1. Reload /\ detail' = detail
        BY <1>14, <2>5, <3>2 DEF AbortAnswered, LoadsAgain
      <4>2. \A i : Clean(i)'
        BY <4>1, ReloadCleans
      <4>3. QED
        BY <2>2, <2>3, <3>1, <3>2, <4>1, <4>2 DEF ToldInv
    <3>3. CASE detail # None
      <4>1. detail' = NewDetail(detail.id, detail.watch, detail.item)
        BY <1>14, <2>5, <3>3 DEF AbortAnswered
      <4>2. detail.watch \in BOOLEAN /\ detail.id \in Ids /\ detail.item \in {None, "on", "off"}
            /\ (detail.item # None => store[detail.id] # "gone")
        BY <3>3 DEF DetailInv, DetailOK, Detail
      <4>3. detail' # None
        BY <4>1, <4>2, NewDetailOK, PageStays
      <4>4. QED
        BY <1>10, <2>2, <2>3, <3>1, <3>3, <4>1, <4>3
    <3>4. QED
      BY <3>2, <3>3
  <2>6. QED
    BY <2>4, <2>5
<1>15. QED
  BY <1>2, <1>3, <1>5, <1>6, <1>7, <1>8, <1>9, <1>11, <1>12, <1>13, <1>14 DEF ReportNext, OnAbort

(***************************************************************************)
(* The theorems                                                            *)
(***************************************************************************)

\* The inductive invariant of the report pages.
ReportInv == BaseInv /\ DetailInv /\ NumberInv /\ CountInv /\ ToldInv

\* The invariant holds when a page is opened.
LEMMA ReportInvInit == ReportInit => ReportInv
<1> SUFFICES ASSUME ReportInit PROVE ReportInv
  OBVIOUS
<1>1. BaseInv
  BY BaseInvInit
<1>2. loads = {} /\ counts = {} /\ counting = {} /\ detail = None /\ aborts = {} /\ told = {}
  BY DEF ReportInit, Init
<1>3. QED
  BY <1>1, <1>2 DEF ReportInv, DetailInv, NumberInv, CountInv, ToldInv

\* The invariant of the report pages holds.
THEOREM ReportInvHolds == ReportSpec => []ReportInv
<1>1. ReportInv /\ [ReportNext]_allVars => ReportInv'
  BY BaseInvStep, DetailInvStep, CountInvStep, ToldInvStep DEF ReportInv
<1>2. QED
  BY <1>1, ReportInvInit, PTL DEF ReportSpec

\* Types, as the model states them.
LEMMA ReportTypes == ReportInv => ReportTypeOK
<1> SUFFICES ASSUME ReportInv PROVE ReportTypeOK
  OBVIOUS
<1>1. detail \in Detail \cup {None}
  BY DEF ReportInv, DetailInv, DetailOK
<1>2. QED
  BY <1>1 DEF ReportInv, BaseInv, ListInv, AbortInv, CountTypes, Counting, Abort, ReportTypeOK

\* The types of the report pages, among them that a change feed delivers at most one end.
THEOREM ReportTypesHold == ReportSpec => []ReportTypeOK
BY ReportInvHolds, ReportTypes, PTL

\* Rows, as the list states them.
LEMMA ReportRows == ReportInv => UniqueRows /\ RowsOfQuery
BY RowsInvFacts DEF ReportInv, BaseInv

\* An object has one row in the lists of the reports, however streams, refreshes and aborts interleave.
THEOREM ReportRowsAreUnique == ReportSpec => []UniqueRows
BY ReportInvHolds, ReportRows, PTL

\* No row of an earlier query is shown, although its streams may still deliver.
THEOREM ReportRowsAreOfQuery == ReportSpec => []RowsOfQuery
BY ReportInvHolds, ReportRows, PTL

\* The lists with counts show all they have loaded.
LEMMA CountsAgree == ReportInv => CountsAreOfActiveRows
<1> SUFFICES ASSUME ReportInv, loads = {}, counting = {} PROVE counts \subseteq ActiveIds(Shown)
  BY DEF CountsAreOfActiveRows
<1>1. counts \subseteq ActiveIds(accumulated)
  BY DEF ReportInv, CountInv
<1>2. CASE HasQueueCounts
  <2>1. predicate = Ids /\ comparator = None /\ accumulated \in Seq(Row)
    BY <1>2 DEF ReportInv, BaseInv, PageInv, ListInv, TypeOK
  <2>2. QED
    BY <1>1, <2>1, ShowsAll DEF Shown
<1>3. CASE ~HasQueueCounts
  BY <1>3 DEF ReportInv, BaseInv, PageInv
<1>4. QED
  BY <1>2, <1>3

\* Counts are asked for in chunks, answered late, and given up when a later load is completed: in the
\* end a list shows none but those of its active rows, whatever the size of a chunk.
THEOREM CountsFollowRows == ReportSpec => []CountsAreOfActiveRows
BY ReportInvHolds, CountsAgree, PTL

\* The rows and the page of an execution whose abort was reported.
LEMMA AbortedEnds == ReportInv => AbortedIsNotRunning
<1> SUFFICES ASSUME ReportInv, NEW i \in told
             PROVE  /\ detail = None => i \notin ActiveIds(Shown)
                    /\ detail # None /\ detail.id = i /\ detail.phase = "idle" => detail.item # "on"
  BY DEF AbortedIsNotRunning
<1>1. detail # None /\ detail.id = i => KnowsEnd(detail)
  BY DEF ReportInv, ToldInv
<1>2. ASSUME detail = None PROVE i \notin ActiveIds(Shown)
  <2>1. HasQueueCounts
    BY DEF ReportInv, BaseInv, PageInv
  <2>2. predicate = Ids /\ comparator = None /\ accumulated \in Seq(Row)
    BY <2>1 DEF ReportInv, BaseInv, PageInv, ListInv, TypeOK
  <2>3. Shown = accumulated
    BY <2>2, ShowsAll DEF Shown
  <2>4. NoneActive(accumulated, i)
    BY <1>2 DEF ReportInv, ToldInv, Clean
  <2>5. QED
    BY <2>3, <2>4 DEF NoneActive, ActiveIds
<1>3. QED
  BY <1>1, <1>2 DEF KnowsEnd

\* A page that has told the user of an abort does not show the execution as running any more, although
\* streams, feeds and refreshes that began before the abort are still under way.
THEOREM AbortedStaysEnded == ReportSpec => []AbortedIsNotRunning
BY ReportInvHolds, AbortedEnds, PTL

\* The page that watches.
LEMMA WatchEnds == ReportInv => WatchEndsWithExecution
BY DEF ReportInv, DetailInv, DetailOK, WatchEndsWithExecution

\* Watching does not stop early: the page goes quiet only when the execution it shows has ended.
THEOREM WatchesToTheEnd == ReportSpec => []WatchEndsWithExecution
BY ReportInvHolds, WatchEnds, PTL
=============================================================================
