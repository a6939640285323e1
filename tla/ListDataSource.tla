--------------------------- MODULE ListDataSource ---------------------------
(***************************************************************************)
(* dashboard: shared/models/list-datasource.ts.  The rows of a list page   *)
(* come from the server as streams, one stream per requested range.  The   *)
(* data source owns the ranges and the accumulated rows; a generation      *)
(* number tells the streams it has given up from the current ones.         *)
(*                                                                         *)
(* The server's objects are numbered in the order of the list; an object   *)
(* is "gone", "on" or "off", and a query lists all of them or, through one *)
(* filter or another, the ones that are off.  A row is an object in memory: *)
(* rows of different streams differ even when their ids agree, as they do  *)
(* under the === of the code.                                              *)
(* Live queries (a capacity in the options) and reloads that retain the    *)
(* rows have no user in the dashboard, and the API services catch every    *)
(* error before it comes to the data source, which is then never asked to  *)
(* retry: all three are left out.                                          *)
(*                                                                         *)
(* Definitions named ...Mutant are faulty variants of the definition that  *)
(* follows them.                                                           *)
(***************************************************************************)
EXTENDS Integers, Sequences, FiniteSets

CONSTANTS N,           \* number of objects the server may have
          Queries,     \* the queries of the page
          PageSize,    \* size of a range when scrolling
          PageSizes,   \* sizes of fixed pages the user may choose
          Predicates,  \* sets of ids a client-side filter may show
          Comparators, \* client-side orders
          Operations,  \* operations of the data source that the page uses
          Errors,      \* may streams break off?
          MaxLoads,    \* bound: streams opened
          MaxChanges,  \* bound: changes of the server's objects by others
          None

Ids == 1..N
ObjectState == {"gone", "on", "off"}

ASSUME SizeAssumption ==
    /\ N \in Nat /\ PageSize \in Nat \ {0} /\ PageSizes \subseteq Nat \ {0}
    /\ MaxLoads \in Nat /\ MaxChanges \in Nat /\ Errors \in BOOLEAN
ASSUME QueryAssumption == Queries \subseteq {"any", "off", "role"} /\ None \notin Queries
ASSUME ViewAssumption == Predicates \subseteq SUBSET Ids /\ Comparators \subseteq {"desc"}
ASSUME StreamAssumption == None \notin Seq([id : Ids, state : {"on", "off"}])

VARIABLES store,          \* the server's objects
          changes,        \* how often others have changed them
          query,          \* latestQuery, None until hasQuery
          generation,
          accumulated,
          offset,
          paging,         \* None when scrolling, else the page index and size
          initialLoading,
          appendLoading,
          exhausted,
          predicate,      \* the ids that the client-side filter lets through
          comparator,     \* the client-side order, None for the server's
          loads,          \* streams that are subscribed to
          activeLoad,     \* the one that the field of that name refers to
          opened          \* streams opened so far

listVars == <<query, generation, accumulated, offset, paging, initialLoading, appendLoading,
              exhausted, predicate, comparator, loads, activeLoad, opened>>
serverVars == <<store, changes>>
vars == <<serverVars, listVars>>

Row == [id : Ids, state : {"on", "off"}, load : 1..MaxLoads, query : Queries]
ListRange == [offset : Nat, pageSize : Nat]
Load == [no : 1..MaxLoads, generation : Nat, query : Queries, range : ListRange,
         kind : {"initial", "append", "replace"}, received : Nat, rows : Seq(Row),
         rest : Seq([id : Ids, state : {"on", "off"}]) \cup {None}]

\* The types.
TypeOK ==
    /\ store \in [Ids -> ObjectState]
    /\ changes \in 0..MaxChanges
    /\ query \in Queries \cup {None}
    /\ generation \in Nat /\ offset \in Nat /\ opened \in 0..MaxLoads
    /\ accumulated \in Seq(Row)
    /\ paging \in [pageIndex : Nat, pageSize : PageSizes] \cup {None}
    /\ {initialLoading, appendLoading, exhausted} \subseteq BOOLEAN
    /\ predicate \in Predicates \cup {Ids}
    /\ comparator \in Comparators \cup {None}
    /\ loads \subseteq Load
    /\ activeLoad \in 0..MaxLoads

Init ==
    /\ store \in [Ids -> ObjectState]
    /\ changes = 0
    /\ query = None
    /\ generation = 0 /\ offset = 0 /\ opened = 0 /\ activeLoad = 0
    /\ accumulated = <<>>
    /\ paging = None
    /\ initialLoading = FALSE /\ appendLoading = FALSE /\ exhausted = FALSE
    /\ predicate = Ids /\ comparator = None
    /\ loads = {}

-----------------------------------------------------------------------------
\* The server.

\* The elements of a sequence at some of its indices, in their order.
Nth(indices, k) == CHOOSE i \in indices : Cardinality({j \in indices : j < i}) = k - 1
Pick(s, indices) == [k \in 1..Cardinality(indices) |-> s[Nth(indices, k)]]

Matches(state, q) == state # "gone" /\ (q # "any" => state = "off")

\* The objects of a query, in the order of the list.
Result(q) ==
    Pick([i \in Ids |-> [id |-> i, state |-> store[i]]], {i \in Ids : Matches(store[i], q)})

ServerChange(i) ==
    /\ changes < MaxChanges
    /\ changes' = changes + 1
    /\ \E s \in ObjectState \ {store[i]} : store' = [store EXCEPT ![i] = s]
    /\ UNCHANGED listVars

-----------------------------------------------------------------------------
\* The derived view.

RowIds(rows) == {rows[i].id : i \in DOMAIN rows}

SortDescending(rows) ==
    [k \in DOMAIN rows |->
        CHOOSE r \in {rows[i] : i \in DOMAIN rows} :
            Cardinality({i \in DOMAIN rows : rows[i].id > r.id}) = k - 1]

\* publish(): what snapshot and rows$ show.
Snapshot(rows) ==
    LET shown == Pick(rows, {i \in DOMAIN rows : rows[i].id \in predicate})
    IN  IF comparator = None THEN shown ELSE SortDescending(shown)

SetPredicate(p) ==
    /\ predicate' = p
    /\ UNCHANGED <<serverVars, query, generation, accumulated, offset, paging, initialLoading,
                   appendLoading, exhausted, comparator, loads, activeLoad, opened>>

SetComparator(c) ==
    /\ comparator' = c
    /\ UNCHANGED <<serverVars, query, generation, accumulated, offset, paging, initialLoading,
                   appendLoading, exhausted, predicate, loads, activeLoad, opened>>

-----------------------------------------------------------------------------
\* Opening streams.

\* request() and requestReplacement(): the load of a range becomes the active one.
Request(kind, range, g, q, others) ==
    /\ opened < MaxLoads
    /\ opened' = opened + 1
    /\ activeLoad' = opened + 1
    /\ loads' = others \cup
         {[no |-> opened + 1, generation |-> g, query |-> q, range |-> range, kind |-> kind,
           rest |-> None, received |-> 0, rows |-> <<>>]}

WithoutActive == {l \in loads : l.no # activeLoad}

FirstRange(p) ==
    IF p = None THEN [offset |-> 0, pageSize |-> PageSize]
    ELSE [offset |-> p.pageIndex * p.pageSize, pageSize |-> p.pageSize]

\* restart(): the cancelled load runs its finalizer, which sees a newer generation and leaves
\* the flags alone.
RestartMutant(p, q, ongoing) ==
    /\ generation' = generation + 1
    /\ offset' = 0
    /\ exhausted' = FALSE
    /\ initialLoading' = TRUE
    /\ query' = q
    /\ paging' = p
    /\ accumulated' = accumulated
    /\ Request("initial", FirstRange(p), generation + 1, q, ongoing)

Restart(p, q, ongoing) ==
    /\ generation' = generation + 1
    /\ offset' = 0
    /\ exhausted' = FALSE
    /\ initialLoading' = TRUE
    /\ query' = q
    /\ paging' = p
    /\ accumulated' = <<>>
    /\ Request("initial", FirstRange(p), generation + 1, q, ongoing)

FirstPage == IF paging = None THEN None ELSE [paging EXCEPT !.pageIndex = 0]

\* A new query: rows and selection start over.
QueryArrives(q) ==
    /\ q # query
    /\ Restart(FirstPage, q, WithoutActive)
    /\ UNCHANGED <<serverVars, appendLoading, predicate, comparator>>

SetPaging(size) ==
    LET p == IF size = None THEN None ELSE [pageIndex |-> 0, pageSize |-> size]
    IN  /\ IF query = None
             THEN /\ paging' = p
                  /\ UNCHANGED <<query, generation, offset, exhausted,
                                 initialLoading, accumulated, loads, activeLoad, opened>>
             ELSE Restart(p, query, WithoutActive)
        /\ UNCHANGED <<serverVars, appendLoading, predicate, comparator>>

GoToPage(i) ==
    /\ query # None
    /\ paging # None
    /\ i # paging.pageIndex
    /\ Restart([paging EXCEPT !.pageIndex = i], query, WithoutActive)
    /\ UNCHANGED <<serverVars, appendLoading, predicate, comparator>>

Reload ==
    /\ query # None
    /\ Restart(paging, query, WithoutActive)
    /\ UNCHANGED <<serverVars, appendLoading, predicate, comparator>>

LoadMore ==
    /\ query # None
    /\ paging = None
    /\ ~initialLoading /\ ~appendLoading /\ ~exhausted
    /\ Request("append", [offset |-> offset, pageSize |-> PageSize], generation, query, loads)
    /\ appendLoading' = TRUE
    /\ UNCHANGED <<serverVars, query, generation, accumulated, offset, paging, initialLoading,
                   exhausted, predicate, comparator>>

RefreshLoaded ==
    LET range == IF paging # None THEN FirstRange(paging)
                 ELSE [offset |-> 0, pageSize |-> IF offset > PageSize THEN offset ELSE PageSize]
    IN  /\ query # None
        /\ ~initialLoading /\ ~appendLoading
        /\ generation' = generation + 1
        /\ Request("replace", range, generation + 1, query, WithoutActive)
        /\ UNCHANGED <<serverVars, query, accumulated, offset, paging, initialLoading,
                       appendLoading, exhausted, predicate, comparator>>

-----------------------------------------------------------------------------
\* Streams.

\* The server reads the range.
Serve(l) ==
    LET all == Result(l.query)
        last == l.range.offset + l.range.pageSize
        end == IF Len(all) < last THEN Len(all) ELSE last
    IN  /\ l.rest = None
        /\ loads' = (loads \ {l}) \cup
              {[l EXCEPT !.rest = SubSeq(all, l.range.offset + 1, end)]}
        /\ UNCHANGED <<serverVars, query, generation, accumulated, offset, paging,
                       initialLoading, appendLoading, exhausted, predicate,
                       comparator, activeLoad, opened>>

Replace(rows, row) ==
    [i \in DOMAIN rows |-> IF rows[i].id = row.id THEN row ELSE rows[i]]

UpsertMutant(rows, row) == Append(rows, row)

\* upsert() of a list without a capacity.
Upsert(rows, row) ==
    IF row.id \in RowIds(rows) THEN Replace(rows, row) ELSE Append(rows, row)

IsCurrentMutant(l) == TRUE

\* generation === this.generation
IsCurrent(l) == l.generation = generation

\* tap.next of a stream.
StreamNext(l) ==
    LET row == [id |-> Head(l.rest).id, state |-> Head(l.rest).state,
                load |-> l.no, query |-> l.query]
    IN  /\ l.rest # None /\ l.rest # <<>>
        /\ loads' = (loads \ {l}) \cup
              {[l EXCEPT !.rest = Tail(@),
                         !.received = IF IsCurrent(l) /\ l.kind # "replace" THEN @ + 1 ELSE @,
                         !.rows = IF IsCurrent(l) /\ l.kind = "replace" THEN Upsert(@, row)
                                  ELSE @]}
        /\ accumulated' = IF IsCurrent(l) /\ l.kind # "replace"
                          THEN Upsert(accumulated, row) ELSE accumulated
        /\ UNCHANGED <<serverVars, query, generation, offset, paging, initialLoading,
                       appendLoading, exhausted, predicate, comparator, activeLoad,
                       opened>>

StopsInitialMutant(l) == IF l.kind = "initial" /\ l.received > 0 THEN FALSE ELSE initialLoading

\* The flag that a load has set and its finalizer clears.
StopsInitial(l) == IF l.kind = "initial" THEN FALSE ELSE initialLoading
StopsAppend(l) == IF l.kind = "append" THEN FALSE ELSE appendLoading

StepsBackMutant(l) == paging # None /\ l.received = 0

\* The page has become empty: goToPage(pageIndex - 1) from the finalizer.
StepsBack(l) == paging # None /\ l.received = 0 /\ paging.pageIndex > 0

\* finalize() of request() after complete.
FinishRequest(l) ==
    /\ appendLoading' = StopsAppend(l)
    /\ IF StepsBack(l)
         THEN Restart([paging EXCEPT !.pageIndex = @ - 1], query, WithoutActive \ {l})
         ELSE /\ initialLoading' = StopsInitial(l)
              /\ offset' = offset + l.received
              /\ exhausted' = (l.received < l.range.pageSize)
              /\ loads' = loads \ {l}
              /\ UNCHANGED <<query, generation, accumulated, paging, activeLoad,
                             opened>>
    /\ UNCHANGED <<serverVars, predicate, comparator>>

\* finalize() of requestReplacement() after complete.
FinishReplacement(l) ==
    /\ accumulated' = l.rows
    /\ offset' = Len(l.rows)
    /\ exhausted' = (Len(l.rows) < l.range.pageSize)
    /\ loads' = loads \ {l}
    /\ UNCHANGED <<serverVars, query, generation, paging, initialLoading, appendLoading, predicate,
                   comparator, activeLoad, opened>>

\* A load that ends without a result the data source uses.
Drop(l) ==
    /\ loads' = loads \ {l}
    /\ UNCHANGED <<serverVars, query, generation, accumulated, offset, paging, initialLoading,
                   appendLoading, exhausted, predicate, comparator, activeLoad,
                   opened>>

Finish(l) ==
    \/ ~IsCurrent(l) /\ Drop(l)
    \/ IsCurrent(l) /\ l.kind # "replace" /\ FinishRequest(l)
    \/ IsCurrent(l) /\ l.kind = "replace" /\ FinishReplacement(l)

StreamComplete(l) ==
    /\ l.rest = <<>>
    /\ Finish(l)

\* The services that the pages load from report an error and complete the stream.
StreamFails(l) ==
    /\ Errors
    /\ Finish(l)

-----------------------------------------------------------------------------
ResettingStep ==
    \/ \E q \in Queries : QueryArrives(q)
    \/ "reload" \in Operations /\ Reload

StreamStep ==
    \E l \in loads : \/ Serve(l) \/ StreamNext(l) \/ StreamComplete(l)

ListStep ==
    \/ \E s \in PageSizes \cup {None} : "pages" \in Operations /\ SetPaging(s)
    \/ \E i \in 0..N : GoToPage(i)
    \/ LoadMore
    \/ "refresh" \in Operations /\ RefreshLoaded
    \/ \E p \in Predicates : SetPredicate(p)
    \/ \E c \in Comparators : SetComparator(c)
    \/ StreamStep
    \/ \E l \in loads : StreamFails(l)

Next == ResettingStep \/ ListStep \/ \E i \in Ids : ServerChange(i)

Spec == Init /\ [][Next]_vars

-----------------------------------------------------------------------------
\* Properties.

\* An object has one row, however often streams send it (upsert, requestReplacement).
UniqueRows ==
    \A i, j \in DOMAIN accumulated : accumulated[i].id = accumulated[j].id => i = j

\* After a new query no row of an earlier one is shown, although cancelled and forgotten streams
\* of the earlier query may still deliver (the generation check of request).
RowsOfQuery ==
    \A i \in DOMAIN accumulated : accumulated[i].query = query

\* While nobody changes the objects, the rows are a gapless part of the result, from the start or
\* from the start of the page: pages that are cancelled, reloaded or broken off in the
\* middle leave no hole behind (offset, restart).
RowsAreContiguous ==
    (changes = 0 /\ query # None) =>
        LET first == FirstRange(paging).offset
        IN  \A i \in DOMAIN accumulated :
                /\ first + i <= Len(Result(query))
                /\ accumulated[i].id = Result(query)[first + i].id

=============================================================================
