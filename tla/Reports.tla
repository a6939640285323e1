------------------------------- MODULE Reports -------------------------------
(***************************************************************************)
(* dashboard: features/report.  The lists of job executions, crawl         *)
(* executions, crawl log and page log, and the page of one execution.  The *)
(* lists are views of a ListDataSource; those of executions ask for the    *)
(* queue counts of the rows that are still active whenever a load is       *)
(* completed, and can be refreshed in place.  The page of an execution     *)
(* reads it once and, when the user watches it, follows a change feed      *)
(* until the execution has ended.  Executions are aborted from either      *)
(* page.                                                                   *)
(*                                                                         *)
(* An execution is "gone" before it is created, then "on" (active), then   *)
(* "off" (in one of its DONE_STATES).  The rows of the logs use the same   *)
(* states for what their filters tell apart.                               *)
(*                                                                         *)
(* Definitions named ...Mutant are faulty variants of the definition that  *)
(* follows them.                                                           *)
(***************************************************************************)
EXTENDS ListDataSource

CONSTANTS Pages,           \* the lists that are modelled
          MaxIdsPerRequest,
          MaxVisits,       \* bound: executions opened, and watched or not
          MaxAborts        \* bound: aborts the user asks for

ASSUME ReportAssumption ==
    /\ Pages \subseteq {"jobexecution", "crawlexecution", "crawllog", "pagelog"}
    /\ MaxIdsPerRequest \in Nat \ {0} /\ MaxVisits \in Nat /\ MaxAborts \in Nat

\* The page of an execution: the execution of the address, what is shown of it, and item$.
Detail == [id : Ids, watch : BOOLEAN, item : {None, "on", "off"},
           phase : {"get", "answer", "open", "feed", "idle", "failed"},
           updates : {<<>>, <<"on">>, <<"off">>, <<"on", "off">>}]

ASSUME NoneAssumption == None \notin Detail \cup {"on", "off"}

VARIABLES page,       \* the list that is open
          counts,     \* executions for which the list shows a queue count
          counting,   \* the count requests that the list follows
          filters,    \* crawl log: the rows that the chosen filters let through
          detail,     \* the page of an execution, None while the list is shown
          visits,
          dialog,     \* the execution that the abort dialog asks about
          aborts,     \* aborts that have been asked for
          told        \* executions whose abort has been reported on the open page

countVars == <<counts, counting>>
abortVars == <<dialog, aborts, told>>
reportVars == <<page, countVars, filters, detail, visits, abortVars>>
allVars == <<vars, reportVars>>

HasQueueCounts == page \in {"jobexecution", "crawlexecution"}

ReportInit ==
    /\ Init
    /\ page \in Pages
    /\ counts = {} /\ counting = {}
    /\ filters = Ids
    /\ detail = None /\ visits = 0
    /\ dialog = None /\ aborts = {} /\ told = {}

Shown == Snapshot(accumulated)
ActiveIds(rows) == {rows[i].id : i \in {j \in DOMAIN rows : rows[j].state = "on"}}

-----------------------------------------------------------------------------
\* ExecutionQueueCountService.

\* The sets of at most MaxIdsPerRequest ids that are asked for.
Chunks(ids) ==
    {{i \in ids : (Cardinality({j \in ids : j < i}) \div MaxIdsPerRequest) = k} :
        k \in 0..(Cardinality(ids) - 1)} \ {{}}

CountRequest(ids) == [waiting |-> Chunks(ids), counted |-> {}]

FollowMutant(ids) == counting \cup {CountRequest(ids)}

\* switchMap: the requests for the rows of an earlier load are given up.
Follow(ids) == {CountRequest(ids)}

\* completed$: a load of the data source has come to its end.
Completes(l) == IsCurrent(l) /\ \A m \in loads' : m.no # l.no

AsksForCounts ==
    counting' = IF HasQueueCounts THEN Follow(ActiveIds(Snapshot(accumulated)')) ELSE counting

\* A request of a chunk is answered, or fails and counts nothing.
CountChunk(r, chunk) ==
    /\ \E failed \in {FALSE, Errors} :
          counting' = (counting \ {r}) \cup
              {[waiting |-> r.waiting \ {chunk},
                counted |-> IF failed THEN r.counted ELSE r.counted \cup chunk]}
    /\ UNCHANGED <<vars, page, counts, filters, detail, visits, abortVars>>

\* reduce: the counts of all chunks replace the ones that were shown.
CountsArrive(r) ==
    /\ r.waiting = {}
    /\ counts' = r.counted
    /\ counting' = counting \ {r}
    /\ UNCHANGED <<vars, page, filters, detail, visits, abortVars>>

-----------------------------------------------------------------------------
\* Lists.

UnlessDialog == detail = None /\ dialog = None

\* onQueryChange and, for executions, onSort: the page navigates and the router delivers the query.
\* The signals of the crawl log's filters are cleared by reset$.
OnQueryChange(q) ==
    /\ UnlessDialog
    /\ QueryArrives(q)
    /\ filters' = Ids
    /\ UNCHANGED <<page, countVars, detail, visits, abortVars>>

\* onRefresh of the lists of executions.
OnRefresh ==
    /\ UnlessDialog
    /\ HasQueueCounts
    /\ RefreshLoaded
    /\ UNCHANGED reportVars

\* The sentinel comes into view.
OnScroll ==
    /\ detail = None
    /\ LoadMore
    /\ UNCHANGED reportVars

OnStream ==
    /\ \E l \in loads :
          /\ Serve(l) \/ StreamNext(l) \/ StreamComplete(l) \/ StreamFails(l)
          /\ IF Completes(l) THEN AsksForCounts ELSE UNCHANGED counting
    /\ UNCHANGED <<page, counts, filters, detail, visits, abortVars>>

\* The filters of the crawl log are signals; an effect applies them afterwards.
OnFilterChange(f) ==
    /\ UnlessDialog
    /\ page = "crawllog"
    /\ f # filters
    /\ filters' = f
    /\ UNCHANGED <<vars, page, countVars, detail, visits, abortVars>>

ApplyClientFilters ==
    /\ detail = None
    /\ filters # predicate
    /\ SetPredicate(filters)
    /\ UNCHANGED reportVars

\* onSort and applySort of the logs.
OnSort(c) ==
    /\ UnlessDialog
    /\ page \in {"crawllog", "pagelog"}
    /\ c # comparator
    /\ SetComparator(c)
    /\ UNCHANGED reportVars

-----------------------------------------------------------------------------
\* The page of an execution.  phase tells which call item$ waits for: the read of the execution
\* ("get"), its answer ("answer"), the opening of the change feed ("open") or a change ("feed"); after
\* that the observable has completed ("idle"), after an error too ("failed").

NewDetail(i, watch, item) ==
    [id |-> i, watch |-> watch, item |-> item, phase |-> "get", updates |-> <<>>]

\* An abort that is under way goes on, but has no page left to reload.
LeavesPage ==
    /\ aborts' = {[a EXCEPT !.left = TRUE] : a \in aborts}
    /\ told' = {}

\* onRowClick: the list is destroyed with its data source and the streams it is subscribed to.
OnRowClick(i) ==
    /\ UnlessDialog
    /\ HasQueueCounts
    /\ visits < MaxVisits
    /\ i \in RowIds(accumulated)
    /\ visits' = visits + 1
    /\ detail' = NewDetail(i, FALSE, None)
    /\ query' = None /\ accumulated' = <<>> /\ loads' = {} /\ activeLoad' = 0
    /\ generation' = 0 /\ offset' = 0
    /\ initialLoading' = FALSE /\ appendLoading' = FALSE /\ exhausted' = FALSE
    /\ counts' = {} /\ counting' = {}
    /\ LeavesPage
    /\ UNCHANGED <<serverVars, paging, predicate, comparator, opened, page, filters, dialog>>

\* Back: a new list, whose query comes from the address.
OnBack ==
    /\ detail # None /\ dialog = None
    /\ detail' = None
    /\ LeavesPage
    /\ UNCHANGED <<vars, page, countVars, filters, visits, dialog>>

DetailStep(d) ==
    /\ detail' = d
    /\ UNCHANGED <<vars, page, countVars, filters, visits, abortVars>>

\* The server reads the execution; the answer is empty when there is none.
DetailRead ==
    /\ detail # None /\ detail.phase = "get"
    /\ DetailStep([detail EXCEPT !.phase = "answer",
                                 !.updates = IF store[detail.id] = "gone" THEN <<>>
                                             ELSE <<store[detail.id]>>])

\* item$: an execution that is active is watched when the user wants it.
DetailAnswer ==
    /\ detail # None /\ detail.phase = "answer"
    /\ DetailStep(
          IF detail.updates = <<>> THEN [detail EXCEPT !.phase = "idle"]
          ELSE [detail EXCEPT !.item = Head(detail.updates), !.updates = <<>>,
                              !.phase = IF detail.watch /\ Head(detail.updates) # "off" THEN "open"
                                        ELSE "idle"])

\* The server opens the feed, which has the changes from now on.
FeedOpens ==
    /\ detail # None /\ detail.phase = "open"
    /\ DetailStep([detail EXCEPT !.phase = "feed"])

FeedUpdateMutant(d) ==
    IF Head(d.updates) = "off" THEN [d EXCEPT !.updates = <<>>, !.phase = "idle"]
    ELSE [d EXCEPT !.item = Head(d.updates), !.updates = Tail(@)]

\* takeWhile, inclusive: the last update is the one that ends the execution.
FeedUpdate(d) ==
    [d EXCEPT !.item = Head(d.updates), !.updates = Tail(@),
              !.phase = IF Head(d.updates) = "off" THEN "idle" ELSE @]

DetailUpdate ==
    /\ detail # None /\ detail.phase = "feed" /\ detail.updates # <<>>
    /\ DetailStep(FeedUpdate(detail))

\* A call fails: the service reports it and completes the stream.
DetailFails ==
    /\ Errors
    /\ detail # None /\ detail.phase \notin {"idle", "failed"}
    /\ DetailStep([detail EXCEPT !.phase = "failed", !.updates = <<>>])

\* toggleWatch: switchMap starts over; what is shown stays until the answer.
ToggleWatch ==
    /\ detail # None /\ dialog = None
    /\ detail.item = "on"
    /\ visits < MaxVisits
    /\ visits' = visits + 1
    /\ detail' = NewDetail(detail.id, ~detail.watch, detail.item)
    /\ UNCHANGED <<vars, page, countVars, filters, abortVars>>

-----------------------------------------------------------------------------
\* Executions start and end, and the user aborts them.

FeedAfterMutant(i, s) ==
    IF detail # None /\ detail.phase = "feed"
    THEN [detail EXCEPT !.updates = Append(@, s)] ELSE detail

\* What an open feed gets to know: the changes of the execution that it was opened for.
FeedAfter(i, s) ==
    IF detail # None /\ detail.phase = "feed" /\ detail.id = i
    THEN [detail EXCEPT !.updates = Append(@, s)] ELSE detail

ExecutionChanges(i) ==
    /\ changes < MaxChanges
    /\ store[i] # "off"
    /\ LET s == IF store[i] = "gone" THEN "on" ELSE "off"
       IN  /\ store' = [store EXCEPT ![i] = s]
           /\ detail' = FeedAfter(i, s)
    /\ changes' = changes + 1
    /\ UNCHANGED <<listVars, page, countVars, filters, visits, abortVars>>

\* onAbortCrawlExecution, onAbortJobExecution: canAbort looks at the row or the item that is shown;
\* jobs are aborted on their own page only.
OpenAbortDialog(i) ==
    /\ dialog = None
    /\ Cardinality(aborts) < MaxAborts
    /\ \/ detail = None /\ page = "crawlexecution" /\ i \in ActiveIds(Shown)
       \/ detail # None /\ detail.id = i /\ detail.item = "on"
    /\ dialog' = i
    /\ UNCHANGED <<vars, page, countVars, filters, detail, visits, aborts, told>>

CloseAbortDialog ==
    /\ dialog # None
    /\ dialog' = None
    /\ \/ UNCHANGED aborts
       \/ aborts' = aborts \cup {[no |-> Cardinality(aborts), id |-> dialog, answer |-> "sent",
                                  left |-> FALSE]}
    /\ UNCHANGED <<vars, page, countVars, filters, detail, visits, told>>

\* The controller aborts an active execution and answers with its state, or fails.
ExecuteAbort(a) ==
    /\ a.answer = "sent"
    /\ \E failed \in {FALSE, Errors} :
          LET s == IF failed \/ store[a.id] = "gone" THEN store[a.id] ELSE "off"
          IN  /\ store' = [store EXCEPT ![a.id] = s]
              /\ detail' = IF s # store[a.id] THEN FeedAfter(a.id, s) ELSE detail
              /\ aborts' = (aborts \ {a}) \cup
                    {[a EXCEPT !.answer = IF s # store[a.id] THEN "aborted" ELSE "other"]}
    /\ UNCHANGED <<changes, listVars, page, countVars, filters, visits, dialog, told>>

LoadsAgainMutant == RefreshLoaded

\* reload(): the rows are dropped at once.
LoadsAgain == Reload

\* The page that has asked, when it is still open, loads its list again, or item$ starts over.
AbortAnswered(a) ==
    /\ a.answer \in {"aborted", "other"}
    /\ aborts' = (aborts \ {a}) \cup {[a EXCEPT !.answer = "done"]}
    /\ IF a.answer = "other" \/ a.left
         THEN UNCHANGED <<vars, detail, told>>
         ELSE /\ told' = told \cup {a.id}
              /\ IF detail = None
                   THEN LoadsAgain /\ UNCHANGED detail
                   ELSE /\ detail' = NewDetail(detail.id, detail.watch, detail.item)
                        /\ UNCHANGED vars
    /\ UNCHANGED <<page, countVars, filters, visits, dialog>>

-----------------------------------------------------------------------------
CountStep ==
    \E r \in counting : CountsArrive(r) \/ \E chunk \in r.waiting : CountChunk(r, chunk)

DetailCall == DetailRead \/ DetailAnswer \/ FeedOpens \/ DetailUpdate

OnAbort ==
    \/ \E i \in Ids : OpenAbortDialog(i)
    \/ CloseAbortDialog
    \/ \E a \in aborts : ExecuteAbort(a)
    \/ \E a \in aborts : AbortAnswered(a)

ReportNext ==
    \/ \E q \in Queries : OnQueryChange(q)
    \/ OnRefresh
    \/ OnScroll
    \/ OnStream
    \/ CountStep
    \/ \E f \in Predicates \cup {Ids} : OnFilterChange(f)
    \/ ApplyClientFilters
    \/ \E c \in Comparators \cup {None} : OnSort(c)
    \/ \E i \in Ids : OnRowClick(i)
    \/ OnBack
    \/ DetailCall
    \/ DetailFails
    \/ ToggleWatch
    \/ \E i \in Ids : ExecutionChanges(i)
    \/ OnAbort

ReportSpec == ReportInit /\ [][ReportNext]_allVars

\* The server answers the streams and requests that are open, Angular runs the effects, and the
\* observer reports a sentinel that is in view.
FairReportSpec ==
    /\ ReportSpec
    /\ WF_allVars(OnStream)
    /\ WF_allVars(CountStep)
    /\ WF_allVars(DetailCall)
    /\ WF_allVars(ApplyClientFilters)
    /\ WF_allVars(OnScroll)

-----------------------------------------------------------------------------
\* Properties.

\* The types; a change feed delivers what an execution can still become, at most one end.
ReportTypeOK ==
    /\ TypeOK
    /\ page \in Pages
    /\ counts \subseteq Ids
    /\ counting \subseteq [waiting : SUBSET SUBSET Ids, counted : SUBSET Ids]
    /\ filters \in Predicates \cup {Ids}
    /\ detail \in Detail \cup {None}
    /\ visits \in 0..MaxVisits
    /\ dialog \in Ids \cup {None}
    /\ aborts \subseteq [no : 0..MaxAborts, id : Ids, left : BOOLEAN,
                         answer : {"sent", "aborted", "other", "done"}]
    /\ told \subseteq Ids

\* Queue counts belong to the rows on display: when nothing is being loaded or counted any more, the
\* list shows a count for no row but those that are active (completed$, switchMap).
CountsAreOfActiveRows ==
    (loads = {} /\ counting = {} /\ ~initialLoading) => counts \subseteq ActiveIds(Shown)

\* After the user has been told on a page that an execution is aborted, the page does not show it as
\* running, whatever earlier streams and requests still deliver (reload).
AbortedIsNotRunning ==
    \A i \in told :
        /\ detail = None => i \notin ActiveIds(Shown)
        /\ detail # None /\ detail.id = i /\ detail.phase = "idle" => detail.item # "on"

\* A watched execution is followed until it has ended: without an error the page never goes quiet
\* while it shows the execution as running (takeWhile).
WatchEndsWithExecution ==
    (detail # None /\ detail.watch /\ detail.phase = "idle") => detail.item # "on"

\* An initial load comes to an end, whatever it is replaced by: the load that replaces it takes over
\* the flag, and the finalize of the last one clears it (request, restart).
LoadingEnds == initialLoading ~> ~initialLoading

\* Endless scrolling comes to the end of the list while the sentinel stays in view (loadMore).
ScrollLoadsAll ==
    (query # None /\ opened < MaxLoads) ~> (exhausted \/ query = None \/ opened = MaxLoads)

=============================================================================
