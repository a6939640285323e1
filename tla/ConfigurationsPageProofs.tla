---------------------- MODULE ConfigurationsPageProofs ----------------------
(***************************************************************************)
(* The theorems of the list page of configuration objects, for any number  *)
(* of objects, loads and changes: what is selected, what is counted, which *)
(* rows are shown and what a bulk operation is sent for.                   *)
(***************************************************************************)
EXTENDS ConfigurationsPage, ListDataSourceProofs

(***************************************************************************)
(* The list                                                                *)
(***************************************************************************)

\* The page sets neither a filter nor an order of its own, there is nothing before the first query,
\* and ConfigService has always sent the query that the list has last loaded.
ListPart ==
    /\ ListInv
    /\ predicate = Ids /\ comparator = None
    /\ effective = query
    /\ query = None => accumulated = <<>> /\ loads = {} /\ offset = 0

\* Every load asks for the query the list is left with, and a query stays until the next.
LEMMA QueryLoads ==
    ASSUME \/ \E q \in Queries : QueryArrives(q)
           \/ LoadMore \/ Reload
           \/ \E s \in PageSizes \cup {None} : SetPaging(s)
           \/ \E i \in 0..N : GoToPage(i)
           \/ \E l \in loads : Serve(l) \/ StreamNext(l) \/ StreamComplete(l) \/ StreamFails(l)
    PROVE  /\ query' # query => \E q \in Queries : QueryArrives(q) /\ query' = q /\ opened' = opened + 1
           /\ query' = None => query = None
           /\ query = None => \/ \E q \in Queries : QueryArrives(q)
                              \/ accumulated' = accumulated /\ loads' = loads /\ offset' = offset
                              \/ loads # {}
<1>1. CASE \E q \in Queries : QueryArrives(q)
  <2>1. PICK q \in Queries : QueryArrives(q)
    BY <1>1
  <2>2. query' = q /\ opened' = opened + 1 /\ q # None
    BY <2>1, QueryAssumption DEF QueryArrives, Restart, Request
  <2>3. QED
    BY <2>1, <2>2
<1>2. CASE LoadMore \/ Reload
  BY <1>2 DEF LoadMore, Reload, Restart
<1>3. CASE \E s \in PageSizes \cup {None} : SetPaging(s)
  BY <1>3 DEF SetPaging, Restart
<1>4. CASE \E i \in 0..N : GoToPage(i)
  BY <1>4 DEF GoToPage, Restart
<1>5. CASE \E l \in loads : Serve(l) \/ StreamNext(l) \/ StreamComplete(l) \/ StreamFails(l)
  BY <1>5 DEF Serve, StreamNext, StreamComplete, StreamFails, Finish, Drop, FinishRequest, FinishReplacement,
              Restart
<1>6. QED
  BY <1>1, <1>2, <1>3, <1>4, <1>5

\* An operation of the list, with the search it may be.
LEMMA ListMoves ==
    ASSUME ListPart, Searches,
           \/ \E q \in Queries : QueryArrives(q)
           \/ LoadMore \/ Reload
           \/ \E s \in PageSizes \cup {None} : SetPaging(s)
           \/ \E i \in 0..N : GoToPage(i)
           \/ \E l \in loads : Serve(l) \/ StreamNext(l) \/ StreamComplete(l) \/ StreamFails(l)
    PROVE  ListPart' /\ store' = store /\ changes' = changes
<1>1. ListInv'
  BY Restarts, Loads, StreamMoves DEF ListPart
<1>2. UNCHANGED <<store, changes, predicate, comparator>>
  BY OperationFrame, StreamFrame
<1>3. /\ query' # query => \E q \in Queries : QueryArrives(q) /\ query' = q /\ opened' = opened + 1
      /\ query' = None => query = None
      /\ query = None => \/ \E q \in Queries : QueryArrives(q)
                         \/ accumulated' = accumulated /\ loads' = loads /\ offset' = offset
                         \/ loads # {}
  BY QueryLoads
<1>4. effective' = query'
  <2>1. opened \in Nat
    BY DEF ListPart, ListInv, TypeOK
  <2>2. CASE query' # query
    BY <1>3, <2>1, <2>2 DEF Searches
  <2>3. CASE query' = query
    BY <2>3 DEF Searches, ListPart
  <2>4. QED
    BY <2>2, <2>3
<1>5. query' = None => accumulated' = <<>> /\ loads' = {} /\ offset' = 0
  <2> SUFFICES ASSUME query' = None PROVE accumulated' = <<>> /\ loads' = {} /\ offset' = 0
    OBVIOUS
  <2>1. query = None
    BY <1>3
  <2>2. ~ \E q \in Queries : QueryArrives(q)
    BY QueryAssumption DEF QueryArrives, Restart
  <2>3. QED
    BY <1>3, <2>1, <2>2 DEF ListPart
<1>6. QED
  BY <1>1, <1>2, <1>4, <1>5 DEF ListPart

\* The steps in which the list moves.
ListEvent ==
    \/ \E q \in Queries : OnQuery(q)
    \/ OnPage \/ OnScroll \/ OnStream
    \/ \E o \in pending : Answer(o)

\* The list takes part in them.
LEMMA ListEvents ==
    ASSUME ListEvent
    PROVE  /\ Searches
           /\ \/ \E q \in Queries : QueryArrives(q)
              \/ LoadMore \/ Reload
              \/ \E s \in PageSizes \cup {None} : SetPaging(s)
              \/ \E i \in 0..N : GoToPage(i)
              \/ \E l \in loads : Serve(l) \/ StreamNext(l) \/ StreamComplete(l) \/ StreamFails(l)
BY DEF ListEvent, OnQuery, OnPage, OnScroll, OnStream, Answer, StreamStep

\* The steps of the page, sorted by what they do to the list and to the objects.
LEMMA PageSteps ==
    ASSUME [PageNext]_allVars
    PROVE  \/ ListEvent
           \/ OthersChange
           \/ \E o \in pending : Execute(o)
           \/ OnSelection \/ OnDialog \/ ServeCount \/ CountFails \/ CountArrives
           \/ \E o \in pending : AnswerWithoutReload(o)
           \/ UNCHANGED allVars
BY DEF PageNext, OnQueryChange, OnHistory, ListEvent

\* The server executes an operation: the objects keep their type and the list does not move.
LEMMA ExecuteFacts ==
    ASSUME ListPart, NEW o \in pending, Execute(o)
    PROVE  /\ store' \in [Ids -> ObjectState] /\ UNCHANGED <<listVars, changes, effective>>
           /\ \E d \in BOOLEAN : Executed(o, d)
<1>1. store \in [Ids -> ObjectState]
  BY DEF ListPart, ListInv, TypeOK
<1>2. CASE ExecuteSave(o)
  BY <1>1, <1>2 DEF ExecuteSave, Executed, ObjectState
<1>3. CASE ExecuteUpdate(o)
  BY <1>1, <1>3 DEF ExecuteUpdate, Executed, ObjectState
<1>4. CASE ExecuteDelete(o)
  BY <1>1, <1>4 DEF ExecuteDelete, Executed, ObjectState
<1>5. CASE ExecuteNothing(o)
  BY <1>1, <1>5 DEF ExecuteNothing, Executed
<1>6. QED
  BY <1>2, <1>3, <1>4, <1>5 DEF Execute

\* Nothing else touches the list.
LEMMA ListStays ==
    ASSUME \/ OnSelection \/ OnDialog \/ ServeCount \/ CountFails \/ CountArrives
           \/ \E o \in pending : AnswerWithoutReload(o)
           \/ UNCHANGED allVars
    PROVE  UNCHANGED <<vars, effective>>
BY DEF OnSelection, OnMasterCheckboxToggle, OnCheckboxToggle, OnSelectAll, OnDeselectAll, OnDialog, OpenRowDialog,
       OpenEditSelected, OpenForSelected, Open, Cancel, Confirm, ServeCount, CountFails, CountArrives,
       AnswerWithoutReload, allVars, pageVars

\* The list through every step.
LEMMA ListPartStep == ASSUME ListPart, [PageNext]_allVars PROVE ListPart'
<1>1. CASE ListEvent
  BY <1>1, ListEvents, ListMoves
<1>2. CASE OthersChange
  <2>1. PICK i \in Ids : ServerChange(i)
    BY <1>2 DEF OthersChange
  <2>2. store' \in [Ids -> ObjectState] /\ changes' \in 0..MaxChanges /\ UNCHANGED <<listVars, effective>>
    BY <1>2, <2>1, SizeAssumption DEF OthersChange, pageVars, ServerChange, ListPart, ListInv, TypeOK
  <2>3. QED
    BY <2>2, ServerMoves DEF ListPart, listVars
<1>3. CASE \E o \in pending : Execute(o)
  <2>1. store' \in [Ids -> ObjectState] /\ UNCHANGED <<listVars, changes, effective>>
    BY <1>3, ExecuteFacts
  <2>2. changes' \in 0..MaxChanges
    BY <2>1 DEF ListPart, ListInv, TypeOK
  <2>3. QED
    BY <2>1, <2>2, ServerMoves DEF ListPart, listVars
<1>4. CASE \/ OnSelection \/ OnDialog \/ ServeCount \/ CountFails \/ CountArrives
           \/ \E o \in pending : AnswerWithoutReload(o)
           \/ UNCHANGED allVars
  <2>1. UNCHANGED <<vars, effective>>
    BY <1>4, ListStays
  <2>2. store' \in [Ids -> ObjectState] /\ changes' \in 0..MaxChanges /\ UNCHANGED listVars
    BY <2>1 DEF vars, serverVars, ListPart, ListInv, TypeOK
  <2>3. QED
    BY <2>1, <2>2, ServerMoves DEF ListPart, listVars
<1>5. QED
  BY <1>1, <1>2, <1>3, <1>4, PageSteps

(***************************************************************************)
(* The selection                                                           *)
(***************************************************************************)

\* The list selects rows, and the container knows.
SelectPart ==
    /\ selection \subseteq Row /\ selectedConfigs \subseteq Row
    /\ selectLoadedRows \in BOOLEAN /\ allSelected \in BOOLEAN /\ isAllSelected \in BOOLEAN
    /\ SelectionAgrees

\* The page shows all rows it has loaded.
LEMMA ShowsLoaded == ListPart => Snapshot(accumulated) = accumulated
BY ShowsAll DEF ListPart, ListInv, TypeOK

\* What is shown are rows, before and after a step of the list.
LEMMA ShownFacts ==
    /\ ListPart => Shown = accumulated /\ ShownRows \subseteq Row
    /\ ListPart' => Snapshot(accumulated)' = accumulated' /\ accumulated' \in Seq(Row)
<1>1. ListPart => Shown = accumulated
  BY ShowsLoaded DEF Shown
<1>2. ListPart => ShownRows \subseteq Row
  <2> SUFFICES ASSUME ListPart PROVE ShownRows \subseteq Row
    OBVIOUS
  <2>1. accumulated \in Seq(Row)
    BY DEF ListPart, ListInv, TypeOK
  <2>2. \A i \in DOMAIN accumulated : accumulated[i] \in Row
    BY <2>1, SeqElements
  <2>3. QED
    BY <1>1, <2>2 DEF ShownRows
<1>3. ListPart' => Snapshot(accumulated)' = accumulated'
  <2> SUFFICES ASSUME ListPart' PROVE Snapshot(accumulated)' = accumulated'
    OBVIOUS
  <2>1. accumulated' \in Seq(Row) /\ predicate' = Ids /\ comparator' = None
    BY DEF ListPart, ListInv, TypeOK
  <2>2. {i \in DOMAIN accumulated' : accumulated'[i].id \in predicate'} = DOMAIN accumulated'
    BY <2>1, RowTypes
  <2>3. Pick(accumulated', DOMAIN accumulated') = accumulated'
    BY <2>1, PickAll
  <2>4. QED
    BY <2>1, <2>2, <2>3 DEF Snapshot
<1>4. ListPart' => accumulated' \in Seq(Row)
  BY DEF ListPart, ListInv, TypeOK
<1>5. QED
  BY <1>1, <1>2, <1>3, <1>4

\* The selection follows the rows that come: it grows, and what is selected as a whole stays so.
LEMMA FollowFacts ==
    ASSUME ListPart', SelectPart, SelectionFollows
    PROVE  SelectPart' /\ selection \subseteq selection' /\ isAllSelected' = isAllSelected
<1> DEFINE view == Snapshot(accumulated)'
           appended == {view[i] : i \in {j \in DOMAIN view : view[j].id \notin SelectedIds(selection)}}
           follow == Follows(paging') /\ appended # {}
<1>1. view = accumulated' /\ accumulated' \in Seq(Row)
  BY ShownFacts
<1>2. appended \subseteq Row
  BY <1>1, SeqElements
<1>3. /\ selection' = IF follow THEN selection \cup appended ELSE selection
      /\ selectedConfigs' = IF follow /\ ~allSelected THEN selection' ELSE selectedConfigs
      /\ isAllSelected' = IF follow /\ ~allSelected THEN FALSE ELSE isAllSelected
      /\ UNCHANGED <<selectLoadedRows, allSelected>>
  BY DEF SelectionFollows
<1> HIDE DEF view, appended, follow
<1>4. selection' \subseteq Row /\ selectedConfigs' \subseteq Row /\ selection \subseteq selection'
  BY <1>2, <1>3 DEF SelectPart
<1>5. isAllSelected' = isAllSelected /\ allSelected' = allSelected /\ selectLoadedRows' = selectLoadedRows
  <2>1. isAllSelected = allSelected /\ isAllSelected \in BOOLEAN /\ allSelected \in BOOLEAN
    BY DEF SelectPart, SelectionAgrees
  <2>2. QED
    BY <1>3, <2>1
<1>6. ~allSelected => selectedConfigs' = selection'
  BY <1>3 DEF SelectPart, SelectionAgrees
<1>7. QED
  BY <1>4, <1>5, <1>6 DEF SelectPart, SelectionAgrees

\* Nothing is selected any more.
LEMMA ResetFacts == ASSUME SelectionResets PROVE SelectPart' /\ ~isAllSelected'
BY DEF SelectionResets, SelectPart, SelectionAgrees

\* The list tells the container.
LEMMA EmitFacts ==
    ASSUME NEW rows \in SUBSET Row, Emit(rows), selectLoadedRows' \in BOOLEAN PROVE SelectPart'
BY DEF Emit, SelectPart, SelectionAgrees

\* Check boxes.
LEMMA SelectionMoves == ASSUME ListPart, SelectPart, OnSelection PROVE SelectPart'
<1>1. ShownRows \subseteq Row /\ selection \subseteq Row
  BY ShownFacts DEF SelectPart
<1>2. CASE OnMasterCheckboxToggle
  <2> DEFINE rows == IF ~IsAllLoadedSelected THEN selection \cup ShownRows
                     ELSE {r \in selection : r.id \notin SelectedIds(ShownRows)}
  <2>1. rows \in SUBSET Row
    BY <1>1
  <2>2. Emit(rows) /\ selectLoadedRows' = ~IsAllLoadedSelected
    BY <1>2 DEF OnMasterCheckboxToggle
  <2>3. selectLoadedRows' \in BOOLEAN
    BY <2>2, Zenon
  <2> HIDE DEF rows
  <2>4. QED
    BY <2>1, <2>2, <2>3, EmitFacts
<1>3. ASSUME NEW row \in ShownRows, OnCheckboxToggle(row) PROVE SelectPart'
  <2>1. selectLoadedRows' \in BOOLEAN
    BY <1>3 DEF OnCheckboxToggle
  <2>2. CASE \E r \in selection : r.id = row.id /\ Emit(selection \ {r})
    <3>1. PICK r \in selection : Emit(selection \ {r})
      BY <2>2
    <3>2. (selection \ {r}) \in SUBSET Row
      BY <1>1
    <3>3. QED
      BY <2>1, <3>1, <3>2, EmitFacts
  <2>3. CASE Emit(selection \cup {row})
    <3>1. (selection \cup {row}) \in SUBSET Row
      BY <1>1
    <3>2. QED
      BY <2>1, <2>3, <3>1, EmitFacts
  <2>4. QED
    BY <1>3, <2>2, <2>3 DEF OnCheckboxToggle
<1>4. CASE OnSelectAll
  BY <1>4 DEF OnSelectAll, SelectPart, SelectionAgrees
<1>5. CASE OnDeselectAll
  <2>1. Emit({}) /\ {} \in SUBSET Row /\ selectLoadedRows' \in BOOLEAN
    BY <1>5 DEF OnDeselectAll
  <2>2. QED
    BY <2>1, EmitFacts
<1>6. QED
  BY <1>2, <1>3, <1>4, <1>5 DEF OnSelection

\* What leaves the selection alone.
LEMMA SelectionStays ==
    ASSUME \/ OthersChange \/ OnDialog \/ ServeCount \/ CountFails \/ CountArrives
           \/ \E o \in pending : AnswerWithoutReload(o)
           \/ \E o \in pending, d \in BOOLEAN : Executed(o, d)
           \/ UNCHANGED allVars
    PROVE  UNCHANGED selectionVars
BY DEF OthersChange, OnDialog, OpenRowDialog, OpenEditSelected, OpenForSelected, Open, Cancel, Confirm, ServeCount,
       CountFails, CountArrives, AnswerWithoutReload, Executed, allVars, pageVars

\* The selection through every step.
LEMMA SelectPartStep == ASSUME ListPart, SelectPart, [PageNext]_allVars PROVE SelectPart'
<1>1. CASE ListEvent
  <2>1. SelectionFollows \/ SelectionResets
    BY <1>1 DEF ListEvent, OnQuery, OnPage, OnScroll, OnStream, Answer
  <2>2. QED
    BY <2>1, ListPartStep, FollowFacts, ResetFacts
<1>2. CASE OnSelection
  BY <1>2, SelectionMoves
<1>3. CASE \/ OthersChange \/ OnDialog \/ ServeCount \/ CountFails \/ CountArrives
           \/ \E o \in pending : AnswerWithoutReload(o)
           \/ \E o \in pending : Execute(o)
           \/ UNCHANGED allVars
  <2>1. UNCHANGED selectionVars
    BY <1>3, ExecuteFacts, SelectionStays
  <2>2. QED
    BY <2>1 DEF selectionVars, SelectPart, SelectionAgrees
<1>4. QED
  BY <1>1, <1>2, <1>3, PageSteps

(***************************************************************************)
(* Operations                                                              *)
(***************************************************************************)

\* The dialogs, and the operations that have been sent.
Dialog == [kind : OperationKind, configs : SUBSET Row, all : Queries \cup {None}]
Operation == [no : Nat, kind : OperationKind, ids : SUBSET Ids, query : Queries \cup {None}, all : Queries \cup {None},
              chosen : SUBSET Ids, done : BOOLEAN, deleted : BOOLEAN]

\* A dialog is an operation that can still be started.
OperationPart ==
    /\ dialog \in Dialog \cup {None}
    /\ pending \subseteq Operation
    /\ started \in 0..MaxOperations
    /\ pending # {} => started # 0
    /\ dialog # None => started < MaxOperations
    /\ excess \subseteq Ids

\* The ids of rows.
LEMMA SelectedTypes == ASSUME NEW rows \in SUBSET Row PROVE SelectedIds(rows) \subseteq Ids
BY DEF SelectedIds, Row

\* The dialogs that are opened.
LEMMA OpenFacts ==
    ASSUME OperationPart, NEW kind \in OperationKind, NEW configs \in SUBSET Row, NEW all \in Queries \cup {None},
           Open(kind, configs, all)
    PROVE  OperationPart'
<1>1. dialog' \in Dialog
  BY DEF Open, Dialog
<1>2. QED
  BY <1>1 DEF Open, OperationPart

\* What is sent when a dialog is confirmed.
LEMMA TargetFacts ==
    ASSUME ListPart, SelectPart, OperationPart, dialog # None
    PROVE  /\ Target.ids \subseteq Ids /\ Target.query \in Queries \cup {None}
           /\ SentKind \in OperationKind
<1>1. dialog \in Dialog /\ effective \in Queries \cup {None} /\ selectedConfigs \in SUBSET Row
  BY DEF OperationPart, ListPart, ListInv, TypeOK, SelectPart
<1>2. dialog.kind \in OperationKind /\ dialog.configs \in SUBSET Row
  BY <1>1 DEF Dialog
<1>3. SelectedIds(selectedConfigs) \subseteq Ids /\ SelectedIds(dialog.configs) \subseteq Ids
  BY <1>1, <1>2, SelectedTypes
<1>4. ASSUME NEW S \in SUBSET Ids
      PROVE  UpdateRequest(S).ids \subseteq Ids /\ UpdateRequest(S).query \in Queries \cup {None}
  BY <1>1 DEF UpdateRequest
<1>5. Target.ids \subseteq Ids /\ Target.query \in Queries \cup {None}
  <2> DEFINE S == IF isAllSelected THEN {} ELSE SelectedIds(selectedConfigs)
  <2>1. S \in SUBSET Ids
    BY <1>3
  <2>2. CASE dialog.kind \in {"updateSelected", "startUpdate"}
    <3>1. Target = UpdateRequest(S)
      BY <2>2 DEF Target
    <3> HIDE DEF S
    <3>2. QED
      BY <1>4, <2>1, <3>1
  <2>3. CASE dialog.kind \notin {"updateSelected", "startUpdate"}
    <3>1. Target \in {[query |-> None, ids |-> SelectedIds(selectedConfigs)], [query |-> None, ids |-> SelectedIds(dialog.configs)]}
      BY <2>3 DEF Target
    <3>2. QED
      BY <1>3, <3>1
  <2>4. QED
    BY <2>2, <2>3
<1>6. SentKind \in OperationKind
  BY <1>2 DEF SentKind, OperationKind
<1>7. QED
  BY <1>5, <1>6

\* The operation that a confirmed dialog sends.
Sent ==
    [no |-> started + 1, kind |-> SentKind, ids |-> Target.ids, query |-> Target.query,
     all |-> dialog.all, chosen |-> SelectedIds(dialog.configs \cup selection), done |-> FALSE, deleted |-> FALSE]

\* A dialog is confirmed.
LEMMA ConfirmFacts ==
    ASSUME ListPart, SelectPart, OperationPart, Confirm
    PROVE  OperationPart' /\ pending' = pending \cup {Sent} /\ Sent \in Operation
<1>1. dialog # None /\ dialog \in Dialog /\ pending' = pending \cup {Sent}
  BY DEF Confirm, OperationPart, Sent
<1>2. (dialog.configs \cup selection) \in SUBSET Row /\ dialog.all \in Queries \cup {None}
  BY <1>1 DEF SelectPart, Dialog
<1>3. SelectedIds(dialog.configs \cup selection) \in SUBSET Ids
  BY <1>2, SelectedTypes
<1>4. started + 1 \in Nat /\ started + 1 \in 0..MaxOperations /\ started + 1 # 0
  BY <1>1, OperationAssumption DEF OperationPart
<1>5. /\ Target.ids \in SUBSET Ids /\ Target.query \in Queries \cup {None}
      /\ SentKind \in OperationKind
  BY <1>1, TargetFacts
<1>6. Sent \in Operation
  BY <1>2, <1>3, <1>4, <1>5 DEF Sent, Operation
<1>7. QED
  BY <1>1, <1>4, <1>6 DEF Confirm, OperationPart

\* The operation that has been executed.
Done(o, d) == [o EXCEPT !.done = TRUE, !.deleted = d]

\* It differs in nothing else.
LEMMA DoneFacts ==
    ASSUME NEW o \in Operation, NEW d \in BOOLEAN
    PROVE  /\ Done(o, d) \in Operation
           /\ Done(o, d).done /\ Done(o, d).deleted = d /\ Done(o, d).kind = o.kind /\ Done(o, d).ids = o.ids
           /\ Done(o, d).query = o.query /\ Done(o, d).all = o.all /\ Done(o, d).chosen = o.chosen
BY DEF Done, Operation

\* Dialogs and operations through every step.
LEMMA OperationPartStep ==
    ASSUME ListPart, SelectPart, OperationPart, [PageNext]_allVars PROVE OperationPart'
<1>1. CASE ListEvent
  <2>1. dialog' \in {dialog, None} /\ UNCHANGED <<started, excess>>
    BY <1>1 DEF ListEvent, OnQuery, OnPage, OnScroll, OnStream, Answer, operationVars
  <2>2. pending' \subseteq pending
    BY <1>1 DEF ListEvent, OnQuery, OnPage, OnScroll, OnStream, Answer, operationVars
  <2>3. QED
    BY <2>1, <2>2 DEF OperationPart
<1>2. CASE \E o \in pending : AnswerWithoutReload(o)
  BY <1>2 DEF AnswerWithoutReload, OperationPart
<1>3. ASSUME NEW o \in pending, Execute(o) PROVE OperationPart'
  <2>1. PICK d \in BOOLEAN : Executed(o, d)
    BY <1>3, ExecuteFacts
  <2>2. /\ excess' = excess \cup (Affected(o) \ (o.chosen \cup AllMatching(o.all)))
        /\ pending' = (pending \ {o}) \cup {Done(o, d)}
        /\ UNCHANGED <<dialog, started>>
    BY <2>1 DEF Executed, Done
  <2>3. o \in Operation /\ Done(o, d) \in Operation
    BY DoneFacts DEF OperationPart
  <2>4. Affected(o) \subseteq Ids
    BY <2>3 DEF Affected, AllMatching, Operation
  <2>5. QED
    BY <2>2, <2>3, <2>4 DEF OperationPart
<1>4. CASE OnDialog
  <2>1. ShownRows \subseteq Row /\ selectedConfigs \subseteq Row /\ query \in Queries \cup {None}
    BY ShownFacts DEF SelectPart, ListPart, ListInv, TypeOK
  <2>2. CASE OpenRowDialog
    <3>1. CASE Open("save", {}, None)
      BY <3>1, OpenFacts DEF OperationKind
    <3>2. ASSUME NEW r \in ShownRows, NEW kind \in {"update", "delete"}, Open(kind, {r}, None) PROVE OperationPart'
      <4>1. kind \in OperationKind /\ {r} \in SUBSET Row
        BY <2>1 DEF OperationKind
      <4>2. QED
        BY <3>2, <4>1, OpenFacts
    <3>3. QED
      BY <2>2, <3>1, <3>2 DEF OpenRowDialog
  <2>3. CASE OpenEditSelected \/ OpenForSelected("deleteSelected") \/ OpenForSelected("run")
    <3>1. PICK kind \in OperationKind, all \in Queries \cup {None} : Open(kind, selectedConfigs, all)
      BY <2>1, <2>3 DEF OpenEditSelected, OpenForSelected, OperationKind
    <3>2. QED
      BY <2>1, <3>1, OpenFacts
  <2>4. CASE Cancel
    BY <2>4 DEF Cancel, OperationPart
  <2>5. CASE Confirm
    BY <2>5, ConfirmFacts
  <2>6. QED
    BY <1>4, <2>2, <2>3, <2>4, <2>5 DEF OnDialog
<1>5. CASE OthersChange \/ OnSelection \/ ServeCount \/ CountFails \/ CountArrives \/ UNCHANGED allVars
  <2>1. UNCHANGED operationVars
    BY <1>5 DEF OthersChange, OnSelection, OnMasterCheckboxToggle, OnCheckboxToggle, OnSelectAll, OnDeselectAll,
                ServeCount, CountFails, CountArrives, allVars, pageVars
  <2>2. QED
    BY <2>1 DEF operationVars, OperationPart
<1>6. QED
  BY <1>1, <1>2, <1>3, <1>4, <1>5, PageSteps

(***************************************************************************)
(* The count                                                               *)
(***************************************************************************)

CountRequest == [query : Queries, value : 0..N \cup {None}]

\* The count that is under way is for the query that is shown.
CountPart ==
    /\ total \in 0..N \cup {None}
    /\ counting \in CountRequest \cup {None}
    /\ uncounted \subseteq OperationKind
    /\ counting # None => counting.query = query
    /\ query = None => total = None /\ counting = None

\* An executed operation whose answer will count again: the only ones that may have changed the number
\* of objects of the query.
CountsAgain(o, q) ==
    /\ o.done
    /\ \/ o.kind \in {"save", "deleteSelected"}
       \/ o.kind = "delete" /\ o.deleted
       \/ o.kind \in {"update", "updateSelected"} /\ q = "off"

\* A count that is shown, or served and on its way, is right until something happens that the page
\* counts for again, or that it says it does not count for.
TotalInv ==
    (changes = 0 /\ uncounted = {} /\ \A o \in pending : ~CountsAgain(o, query)) =>
        /\ total \notin {None, 0} => total = Len(Result(query))
        /\ counting # None /\ counting.value \notin {None, 0} => counting.value = Len(Result(query))

\* Another count is asked for.
LEMMA CountFacts ==
    ASSUME NEW q \in Queries, query' = q, Count(q) PROVE CountPart' /\ TotalInv'
<1>1. counting' = [query |-> q, value |-> None] /\ total' = None /\ uncounted' = {}
  BY DEF Count
<1>2. counting' \in CountRequest
  BY <1>1 DEF CountRequest
<1>3. counting'.query = q /\ counting'.value = None
  BY <1>1
<1>4. CountPart'
  BY <1>1, <1>2, <1>3, QueryAssumption DEF CountPart
<1>5. TotalInv'
  BY <1>1, <1>3 DEF TotalInv
<1>6. QED
  BY <1>4, <1>5

\* The size of a result depends on which objects match.
LEMMA SameSize ==
    ASSUME query' = query, \A i \in Ids : Matches(store[i], query) <=> Matches(store'[i], query), TypeOK, TypeOK'
    PROVE  Len(Result(query))' = Len(Result(query))
<1> DEFINE I == {i \in Ids : Matches(store[i], query)}
           s == [i \in Ids |-> [id |-> i, state |-> store[i]]]
           t == [i \in Ids |-> [id |-> i, state |-> store'[i]]]
           S == [id : Ids, state : ObjectState]
<1>1. Result(query) = Pick(s, I)
  BY DEF Result
<1>2. Result(query)' = Pick(t, I)
  <2>1. {i \in Ids : Matches(store'[i], query)} = I
    OBVIOUS
  <2>2. Result(query)' = Pick(t, {i \in Ids : Matches(store'[i], query)})
    BY DEF Result, Pick, Nth, Matches
  <2>3. QED
    BY <2>1, <2>2
<1>3. s \in [1..N -> S] /\ t \in [1..N -> S] /\ I \in SUBSET Ids /\ Ids = 1..N /\ N \in Nat
      /\ DOMAIN s = Ids /\ DOMAIN t = Ids
  BY SizeAssumption DEF TypeOK, Ids
<1> HIDE DEF s, t, S, I
<1>4. s \in Seq(S) /\ t \in Seq(S)
  BY <1>3, FunctionIsSeq
<1>5. Len(Pick(s, I)) = Cardinality(I) /\ Len(Pick(t, I)) = Cardinality(I)
  BY <1>3, <1>4, PickFacts
<1>6. QED
  BY <1>1, <1>2, <1>5

\* A count that is right stays right when the size of the result does not change, whatever is answered.
LEMMA TotalKept ==
    ASSUME ListPart, ListPart', CountPart, TotalInv, UNCHANGED <<countVars, query>>, changes' = 0 => changes = 0,
           \A i \in Ids : Matches(store[i], query) <=> Matches(store'[i], query),
           \A o \in pending : CountsAgain(o, query) => \E p \in pending' : CountsAgain(p, query)
    PROVE  CountPart' /\ TotalInv'
<1>1. TypeOK /\ TypeOK'
  BY DEF ListPart, ListInv
<1>2. Len(Result(query))' = Len(Result(query))
  BY <1>1, SameSize
<1>3. CountPart'
  BY DEF CountPart, countVars
<1>4. TotalInv'
  <2> SUFFICES ASSUME changes' = 0, uncounted' = {}, \A o \in pending' : ~CountsAgain(o, query)'
               PROVE  /\ total' \notin {None, 0} => total' = Len(Result(query))'
                      /\ counting' # None /\ counting'.value \notin {None, 0} => counting'.value = Len(Result(query))'
    BY DEF TotalInv
  <2>1. \A o \in pending' : ~CountsAgain(o, query)
    BY DEF CountsAgain
  <2>2. changes = 0 /\ uncounted = {} /\ \A o \in pending : ~CountsAgain(o, query)
    BY <2>1 DEF countVars
  <2>3. /\ total \notin {None, 0} => total = Len(Result(query))
        /\ counting # None /\ counting.value \notin {None, 0} => counting.value = Len(Result(query))
    BY <2>2 DEF TotalInv
  <2>4. QED
    BY <1>2, <2>3 DEF countVars
<1>5. QED
  BY <1>3, <1>4

\* Only a new query changes the query.
LEMMA QueryStays ==
    ASSUME \/ LoadMore \/ Reload
           \/ \E s \in PageSizes \cup {None} : SetPaging(s)
           \/ \E i \in 0..N : GoToPage(i)
           \/ \E l \in loads : Serve(l) \/ StreamNext(l) \/ StreamComplete(l) \/ StreamFails(l)
    PROVE  query' = query
<1>1. CASE \E l \in loads : Serve(l) \/ StreamNext(l) \/ StreamComplete(l) \/ StreamFails(l)
  BY <1>1 DEF Serve, StreamNext, StreamComplete, StreamFails, Finish, Drop, FinishRequest, FinishReplacement,
              Restart
<1>2. QED
  BY <1>1 DEF LoadMore, Reload, SetPaging, GoToPage, Restart

\* What an operation does to the number of objects of the query: nothing, unless its answer counts
\* again or it goes on in the background.
LEMMA ExecuteCounts ==
    ASSUME ListPart, CountPart, OperationPart, NEW o \in pending, Execute(o)
    PROVE  \E d \in BOOLEAN :
              /\ Executed(o, d)
              /\ \/ NotCounted(o) # {}
                 \/ CountsAgain(Done(o, d), query)
                 \/ query = None
                 \/ \A i \in Ids : Matches(store[i], query) <=> Matches(store'[i], query)
<1>1. o \in Operation /\ o.kind \in OperationKind /\ store \in [Ids -> ObjectState]
  BY DEF OperationPart, Operation, ListPart, ListInv, TypeOK
<1>2. query \in {None, "any", "off", "role"}
  BY QueryAssumption DEF ListPart, ListInv, TypeOK
<1>3. CASE ExecuteSave(o)
  <2>1. Executed(o, FALSE) /\ o.kind = "save"
    BY <1>3 DEF ExecuteSave
  <2>2. CountsAgain(Done(o, FALSE), query)
    BY <1>1, <2>1, DoneFacts DEF CountsAgain
  <2>3. QED
    BY <2>1, <2>2
<1>4. CASE ExecuteUpdate(o)
  <2>1. Executed(o, FALSE) /\ o.kind \in {"update", "updateSelected", "startUpdate"}
    BY <1>4 DEF ExecuteUpdate
  <2>2. CASE query = "role" \/ o.kind = "startUpdate"
    <3>1. NotCounted(o) = {o.kind}
      BY <2>1, <2>2 DEF NotCounted
    <3>2. QED
      BY <2>1, <3>1
  <2>5. CASE query = "off" /\ o.kind # "startUpdate"
    <3>1. CountsAgain(Done(o, FALSE), query)
      BY <1>1, <2>1, <2>5, DoneFacts DEF CountsAgain
    <3>2. QED
      BY <2>1, <3>1
  <2>3. CASE query = "any"
    <3>1. PICK s \in {"on", "off"} :
            store' = [i \in Ids |-> IF i \in Affected(o) /\ store[i] # "gone" THEN s ELSE store[i]]
      BY <1>4 DEF ExecuteUpdate
    <3>2. \A i \in Ids : store[i] = "gone" <=> store'[i] = "gone"
      BY <3>1
    <3>3. \A i \in Ids : Matches(store[i], query) <=> Matches(store'[i], query)
      BY <2>3, <3>2 DEF Matches
    <3>4. QED
      BY <2>1, <3>3
  <2>4. QED
    BY <1>2, <2>1, <2>2, <2>3, <2>5
<1>5. CASE ExecuteDelete(o)
  <2>1. PICK d \in SUBSET o.ids :
          store' = [i \in Ids |-> IF i \in d THEN "gone" ELSE store[i]] /\ Executed(o, d # {})
    BY <1>5 DEF ExecuteDelete
  <2>2. o.kind \in {"delete", "deleteSelected"}
    BY <1>5 DEF ExecuteDelete
  <2>3. CASE d = {}
    <3>1. Executed(o, FALSE)
      <4>1. (d # {}) = FALSE
        BY <2>3
      <4>2. QED
        BY <2>1, <4>1
    <3>2. \A i \in Ids : store'[i] = store[i]
      BY <2>1, <2>3
    <3>3. QED
      BY <3>1, <3>2
  <2>4. CASE d # {}
    <3>1. Executed(o, TRUE)
      <4>1. (d # {}) = TRUE
        BY <2>4
      <4>2. QED
        BY <2>1, <4>1
    <3>2. CountsAgain(Done(o, TRUE), query)
      BY <1>1, <2>2, DoneFacts DEF CountsAgain
    <3>3. QED
      BY <3>1, <3>2
  <2>5. QED
    BY <2>3, <2>4
<1>6. CASE ExecuteNothing(o)
  BY <1>6 DEF ExecuteNothing
<1>7. QED
  BY <1>3, <1>4, <1>5, <1>6 DEF Execute

\* Counts through every step.
LEMMA CountPartStep ==
    ASSUME ListPart, OperationPart, CountPart, TotalInv, [PageNext]_allVars
    PROVE  CountPart' /\ TotalInv'
<1>0. ListPart'
  BY ListPartStep
<1>1. ASSUME NEW q \in Queries, OnQuery(q) PROVE CountPart' /\ TotalInv'
  <2>1. query' = q /\ Count(q)
    BY <1>1 DEF OnQuery, QueryArrives, Restart
  <2>2. QED
    BY <2>1, CountFacts
<1>2. CASE OnPage \/ OnScroll \/ OnStream
  <2>1. \/ LoadMore \/ Reload
        \/ \E s \in PageSizes \cup {None} : SetPaging(s)
        \/ \E i \in 0..N : GoToPage(i)
        \/ \E l \in loads : Serve(l) \/ StreamNext(l) \/ StreamComplete(l) \/ StreamFails(l)
    BY <1>2 DEF OnPage, OnScroll, OnStream, StreamStep
  <2>2. UNCHANGED <<store, changes, query>>
    BY <2>1, QueryStays, OperationFrame, StreamFrame
  <2>3. UNCHANGED <<countVars, pending>>
    BY <1>2 DEF OnPage, OnScroll, OnStream, operationVars
  <2>4. QED
    BY <1>0, <2>2, <2>3, TotalKept
<1>3. ASSUME NEW o \in pending, Answer(o) PROVE CountPart' /\ TotalInv'
  <2>1. /\ query' = query /\ query \in Queries /\ pending' = pending \ {o} /\ UNCHANGED <<store, changes>>
        /\ IF o.kind \in {"save", "delete", "deleteSelected"} \/ HasCountAffectingFilter(query)
             THEN Count(query) ELSE UNCHANGED countVars
    BY <1>3, QueryStays, OperationFrame DEF Answer, Reload, ListPart, ListInv, TypeOK
  <2>2. CASE o.kind \in {"save", "delete", "deleteSelected"} \/ HasCountAffectingFilter(query)
    BY <2>1, <2>2, CountFacts
  <2>3. CASE ~(o.kind \in {"save", "delete", "deleteSelected"} \/ HasCountAffectingFilter(query))
    <3>1. ~CountsAgain(o, query)
      BY <2>3 DEF CountsAgain, HasCountAffectingFilter
    <3>2. \A p \in pending : CountsAgain(p, query) => \E r \in pending' : CountsAgain(r, query)
      BY <2>1, <3>1
    <3>3. QED
      BY <1>0, <2>1, <2>3, <3>2, TotalKept
  <2>4. QED
    BY <2>2, <2>3
<1>4. CASE OthersChange
  <2>1. UNCHANGED <<countVars, query>> /\ changes' = changes + 1 /\ changes \in Nat
    BY <1>4 DEF OthersChange, ServerChange, pageVars, listVars, ListPart, ListInv, TypeOK
  <2>2. CountPart'
    BY <2>1 DEF CountPart, countVars
  <2>3. changes' # 0
    BY <2>1
  <2>4. QED
    BY <2>2, <2>3 DEF TotalInv
<1>5. ASSUME NEW o \in pending, Execute(o) PROVE CountPart' /\ TotalInv'
  <2>1. PICK d \in BOOLEAN :
          /\ Executed(o, d)
          /\ \/ NotCounted(o) # {}
             \/ CountsAgain(Done(o, d), query)
             \/ query = None
             \/ \A i \in Ids : Matches(store[i], query) <=> Matches(store'[i], query)
    BY <1>5, ExecuteCounts
  <2>2. /\ pending' = (pending \ {o}) \cup {Done(o, d)} /\ uncounted' = uncounted \cup NotCounted(o)
        /\ UNCHANGED <<query, total, counting, changes>>
    BY <2>1 DEF Executed, Done, listVars
  <2>3. CountPart'
    <3>1. uncounted' \subseteq OperationKind
      BY <2>2 DEF CountPart, NotCounted, OperationPart, Operation
    <3>2. QED
      BY <2>2, <3>1 DEF CountPart
  <2>4. CASE NotCounted(o) # {}
    BY <2>2, <2>3, <2>4 DEF TotalInv
  <2>5. CASE CountsAgain(Done(o, d), query)
    <3>1. CountsAgain(Done(o, d), query)'
      BY <2>2, <2>5 DEF CountsAgain, Done
    <3>2. Done(o, d) \in pending'
      BY <2>2
    <3>3. QED
      BY <2>3, <3>1, <3>2 DEF TotalInv
  <2>6. CASE query = None
    BY <2>2, <2>3, <2>6 DEF TotalInv, CountPart
  <2>7. CASE /\ NotCounted(o) = {} /\ ~CountsAgain(Done(o, d), query)
             /\ \A i \in Ids : Matches(store[i], query) <=> Matches(store'[i], query)
    <3>1. uncounted' = uncounted
      BY <2>2, <2>7 DEF CountPart
    <3>2. ~o.done
      BY <1>5 DEF Execute
    <3>3. \A p \in pending : CountsAgain(p, query) => \E r \in pending' : CountsAgain(r, query)
      BY <2>2, <3>2 DEF CountsAgain
    <3>4. QED
      BY <1>0, <2>2, <2>7, <3>1, <3>3, TotalKept DEF countVars
  <2>8. QED
    BY <2>1, <2>4, <2>5, <2>6, <2>7
<1>6. CASE ServeCount \/ CountFails
  <2>1. PICK n : /\ counting # None /\ counting' = [counting EXCEPT !.value = n]
                 /\ n = Len(Result(counting.query)) \/ n = 0
    BY <1>6 DEF ServeCount, CountFails
  <2>2. counting \in CountRequest /\ counting.query = query
    BY <2>1 DEF CountPart
  <2>3. n \in 0..N
    BY <2>1, ResultFacts, SizeAssumption DEF ListPart, ListInv
  <2>4. counting' \in CountRequest /\ counting'.query = query /\ counting'.value = n
    BY <2>1, <2>2, <2>3 DEF CountRequest
  <2>5. UNCHANGED <<store, changes, query, pending, total, uncounted>>
    BY <1>6 DEF ServeCount, CountFails, vars, serverVars, listVars, operationVars
  <2>6. CountPart'
    <3>1. query \in Queries
      BY <2>2 DEF CountRequest
    <3>2. QED
      BY <2>4, <2>5, <3>1, QueryAssumption DEF CountPart
  <2>7. Result(query)' = Result(query)
    BY <2>5 DEF Result, Pick, Nth, Matches
  <2>8. n = 0 \/ n = Len(Result(query))
    BY <2>1, <2>2
  <2>9. ASSUME (changes = 0 /\ uncounted = {} /\ \A o \in pending : ~CountsAgain(o, query))'
        PROVE  changes = 0 /\ uncounted = {} /\ \A o \in pending : ~CountsAgain(o, query)
    BY <2>5, <2>9 DEF CountsAgain
  <2>10. QED
    BY <2>4, <2>5, <2>6, <2>7, <2>8, <2>9 DEF TotalInv
<1>7. CASE CountArrives
  <2>1. /\ counting # None /\ counting.value # None /\ total' = counting.value /\ counting' = None
        /\ UNCHANGED <<store, changes, query, pending, uncounted>>
    BY <1>7 DEF CountArrives, vars, serverVars, listVars, operationVars
  <2>2. counting.value \in 0..N \cup {None}
    BY <2>1 DEF CountPart, CountRequest
  <2>3. CountPart'
    BY <2>1, <2>2 DEF CountPart
  <2>4. Result(query)' = Result(query)
    BY <2>1 DEF Result, Pick, Nth, Matches
  <2>5. ASSUME (changes = 0 /\ uncounted = {} /\ \A o \in pending : ~CountsAgain(o, query))'
        PROVE  changes = 0 /\ uncounted = {} /\ \A o \in pending : ~CountsAgain(o, query)
    BY <2>1, <2>5 DEF CountsAgain
  <2>6. QED
    BY <2>1, <2>3, <2>4, <2>5 DEF TotalInv
<1>8. ASSUME NEW o \in pending, AnswerWithoutReload(o) PROVE CountPart' /\ TotalInv'
  <2>1. UNCHANGED <<store, changes, query, countVars>> /\ pending' = pending \ {o}
    BY <1>8 DEF AnswerWithoutReload, vars, serverVars, listVars
  <2>2. ~CountsAgain(o, query)
    BY <1>8 DEF AnswerWithoutReload, CountsAgain
  <2>3. \A p \in pending : CountsAgain(p, query) => \E r \in pending' : CountsAgain(r, query)
    BY <2>1, <2>2
  <2>4. QED
    BY <1>0, <2>1, <2>3, TotalKept
<1>9. CASE OnSelection \/ OnDialog \/ UNCHANGED allVars
  <2>1. UNCHANGED <<store, changes, query, countVars>>
    BY <1>9, ListStays DEF vars, serverVars, listVars, OnSelection, OnMasterCheckboxToggle, OnCheckboxToggle,
       OnSelectAll, OnDeselectAll, OnDialog, OpenRowDialog, OpenEditSelected, OpenForSelected, Open, Cancel, Confirm,
       allVars, pageVars
  <2>2. pending \subseteq pending'
    BY <1>9 DEF OnSelection, OnMasterCheckboxToggle, OnCheckboxToggle, OnSelectAll, OnDeselectAll, OnDialog,
       OpenRowDialog, OpenEditSelected, OpenForSelected, Open, Cancel, Confirm, allVars, pageVars, operationVars
  <2>3. QED
    BY <1>0, <2>1, <2>2, TotalKept
<1>10. QED
  BY <1>1, <1>2, <1>3, <1>4, <1>5, <1>6, <1>7, <1>8, <1>9, PageSteps DEF ListEvent

(***************************************************************************)
(* What a bulk operation is sent for                                       *)
(***************************************************************************)

\* Confirming the dialog that is open sends what the user has chosen: a bulk update finds a selection, or the
\* query that was chosen as a whole, and a bulk run finds a selection of rows.
DialogInv ==
    dialog # None =>
        /\ dialog.kind \in {"updateSelected", "startUpdate"} =>
              IF isAllSelected THEN dialog.all = query ELSE selectedConfigs # {}
        /\ dialog.kind = "run" => ~isAllSelected

\* An operation is for chosen objects, or for the query that was chosen as a whole.
ForChosen(o) == IF o.query = None THEN o.ids \subseteq o.chosen ELSE o.all = o.query

ChosenInv == DialogInv /\ (\A o \in pending : ForChosen(o)) /\ excess = {}

\* No operation is answered while a dialog is open.
NoAnswerInDialog == dialog # None => \A o \in pending : ~Answer(o)

\* The operation that a confirmed dialog sends is for what the user has chosen.
LEMMA SentForChosen ==
    ASSUME ListPart, SelectPart, OperationPart, DialogInv, dialog # None PROVE ForChosen(Sent)
<1>1. /\ Sent.query = Target.query /\ Sent.ids = Target.ids /\ Sent.all = dialog.all
      /\ Sent.chosen = SelectedIds(dialog.configs \cup selection)
  BY DEF Sent
<1>2. /\ SelectedIds(dialog.configs) \subseteq Sent.chosen
      /\ ~isAllSelected => SelectedIds(selectedConfigs) \subseteq Sent.chosen
  BY <1>1 DEF SelectedIds, SelectPart, SelectionAgrees
<1>3. CASE dialog.kind \in {"updateSelected", "startUpdate"} /\ isAllSelected
  <2>1. Target = [query |-> effective, ids |-> {}] /\ dialog.all = query
    BY <1>3 DEF Target, UpdateRequest, DialogInv
  <2>2. QED
    BY <1>1, <2>1 DEF ForChosen, ListPart
<1>4. CASE dialog.kind \in {"updateSelected", "startUpdate"} /\ ~isAllSelected
  <2>1. selectedConfigs # {}
    BY <1>4 DEF DialogInv
  <2>2. SelectedIds(selectedConfigs) # {}
    BY <2>1 DEF SelectedIds
  <2>3. Target = [query |-> None, ids |-> SelectedIds(selectedConfigs)]
    BY <1>4, <2>2 DEF Target, UpdateRequest
  <2>4. QED
    BY <1>1, <1>2, <1>4, <2>3 DEF ForChosen
<1>5. CASE dialog.kind = "run"
  <2>1. ~isAllSelected /\ Target = [query |-> None, ids |-> SelectedIds(selectedConfigs)]
    BY <1>5 DEF Target, DialogInv
  <2>2. QED
    BY <1>1, <1>2, <2>1 DEF ForChosen
<1>6. CASE dialog.kind \notin {"updateSelected", "startUpdate", "run"}
  <2>1. Target = [query |-> None, ids |-> SelectedIds(dialog.configs)]
    BY <1>6 DEF Target
  <2>2. QED
    BY <1>1, <1>2, <2>1 DEF ForChosen
<1>7. QED
  BY <1>3, <1>4, <1>5, <1>6

\* What is chosen, through every step but an answer that comes while a dialog is open.
LEMMA ChosenInvStep ==
    ASSUME ListPart, SelectPart, OperationPart, ChosenInv, [PageNext]_allVars, NoAnswerInDialog
    PROVE  ChosenInv'
<1>0. ListPart' /\ SelectPart'
  BY ListPartStep, SelectPartStep
<1>1. ASSUME dialog' = None, pending' \subseteq pending, excess' = excess PROVE ChosenInv'
  BY <1>1 DEF ChosenInv, DialogInv, ForChosen
<1>2. CASE \E q \in Queries : OnQuery(q)
  BY <1>1, <1>2 DEF OnQuery
<1>3. CASE OnPage \/ OnScroll \/ OnStream
  <2>1. SelectionFollows /\ UNCHANGED operationVars
    BY <1>3 DEF OnPage, OnScroll, OnStream
  <2>2. selection \subseteq selection' /\ isAllSelected' = isAllSelected
    BY <1>0, <2>1, FollowFacts
  <2>3. query' = query
    <3>1. \/ LoadMore \/ Reload
          \/ \E s \in PageSizes \cup {None} : SetPaging(s)
          \/ \E i \in 0..N : GoToPage(i)
          \/ \E l \in loads : Serve(l) \/ StreamNext(l) \/ StreamComplete(l) \/ StreamFails(l)
      BY <1>3 DEF OnPage, OnScroll, OnStream, StreamStep
    <3>2. QED
      BY <3>1, QueryStays
  <2>4. ~isAllSelected /\ selectedConfigs # {} => selectedConfigs' # {}
    <3>1. ~isAllSelected => selectedConfigs = selection /\ selectedConfigs' = selection'
      BY <1>0, <2>2 DEF SelectPart, SelectionAgrees
    <3>2. QED
      BY <2>2, <3>1
  <2>5. DialogInv'
    BY <2>1, <2>2, <2>3, <2>4 DEF ChosenInv, DialogInv, operationVars
  <2>6. QED
    BY <2>1, <2>5 DEF ChosenInv, operationVars, ForChosen
<1>4. ASSUME NEW o \in pending, Answer(o) PROVE ChosenInv'
  <2>1. dialog = None
    BY <1>4 DEF NoAnswerInDialog
  <2>2. dialog' = None /\ pending' \subseteq pending /\ excess' = excess
    BY <1>4, <2>1 DEF Answer
  <2>3. QED
    BY <1>1, <2>2
<1>5. ASSUME NEW o \in pending, Execute(o) PROVE ChosenInv'
  <2>1. PICK d \in BOOLEAN : Executed(o, d)
    BY <1>5, ExecuteFacts
  <2>2. /\ excess' = excess \cup (Affected(o) \ (o.chosen \cup AllMatching(o.all)))
        /\ pending' = (pending \ {o}) \cup {Done(o, d)}
        /\ UNCHANGED <<dialog, isAllSelected, selectedConfigs, query>>
    BY <2>1 DEF Executed, Done, listVars, selectionVars
  <2>3. o \in Operation /\ ForChosen(o)
    BY DEF OperationPart, ChosenInv
  <2>4. excess' = {}
    BY <2>2, <2>3 DEF ChosenInv, ForChosen, Affected
  <2>5. \A p \in pending' : ForChosen(p)
    BY <2>2, <2>3, DoneFacts DEF ChosenInv, ForChosen
  <2>6. QED
    BY <2>2, <2>4, <2>5 DEF ChosenInv, DialogInv, ForChosen
<1>6. CASE OnDialog
  <2>1. UNCHANGED <<query, isAllSelected, selectedConfigs, excess>>
    BY <1>6, ListStays, SelectionStays DEF vars, listVars, selectionVars, OnDialog, OpenRowDialog, OpenEditSelected,
       OpenForSelected, Open, Cancel, Confirm
  <2>2. CASE Confirm
    <3>1. dialog # None /\ dialog' = None
      BY <2>2 DEF Confirm
    <3>2. pending' = pending \cup {Sent} /\ ForChosen(Sent)
      BY <2>2, <3>1, ConfirmFacts, SentForChosen DEF ChosenInv
    <3>3. \A p \in pending' : ForChosen(p)
      BY <3>2 DEF ChosenInv
    <3>4. QED
      BY <2>1, <3>1, <3>3 DEF ChosenInv, DialogInv, ForChosen
  <2>3. CASE Cancel
    BY <1>1, <2>1, <2>3 DEF Cancel
  <2>4. ASSUME NEW kind, NEW configs, NEW all, Open(kind, configs, all),
               kind \in {"updateSelected", "startUpdate"} => IF isAllSelected THEN all = query ELSE selectedConfigs # {},
               kind = "run" => ~isAllSelected
        PROVE  ChosenInv'
    <3>1. dialog'.kind = kind /\ dialog'.all = all /\ pending' = pending
      BY <2>4 DEF Open
    <3>2. DialogInv'
      BY <2>1, <2>4, <3>1 DEF DialogInv
    <3>3. QED
      BY <2>1, <3>1, <3>2 DEF ChosenInv, ForChosen
  <2>5. CASE OpenRowDialog
    <3>1. CASE Open("save", {}, None)
      BY <2>4, <3>1
    <3>2. CASE \E r \in ShownRows, kind \in {"update", "delete"} : Open(kind, {r}, None)
      BY <2>4, <3>2
    <3>3. QED
      BY <2>5, <3>1, <3>2 DEF OpenRowDialog
  <2>6. CASE OpenEditSelected
    <3>1. ~isAllSelected => selectedConfigs # {}
      BY <2>6 DEF OpenEditSelected, IsSelectionMode, SelectPart, SelectionAgrees
    <3>2. CASE isAllSelected
      BY <2>4, <2>6, <3>2 DEF OpenEditSelected
    <3>3. CASE ~isAllSelected
      BY <2>4, <2>6, <3>1, <3>3 DEF OpenEditSelected
    <3>4. QED
      BY <3>2, <3>3
  <2>7. CASE OpenForSelected("deleteSelected") \/ OpenForSelected("run")
    BY <2>4, <2>7 DEF OpenForSelected
  <2>8. QED
    BY <1>6, <2>2, <2>3, <2>5, <2>6, <2>7 DEF OnDialog
<1>7. CASE OnSelection
  <2>1. dialog = None /\ UNCHANGED operationVars
    BY <1>7 DEF OnSelection, OnMasterCheckboxToggle, OnCheckboxToggle, OnSelectAll, OnDeselectAll
  <2>2. QED
    BY <1>1, <2>1 DEF operationVars
<1>8. CASE \E o \in pending : AnswerWithoutReload(o)
  <2>1. UNCHANGED <<query, isAllSelected, selectedConfigs, excess, dialog>> /\ pending' \subseteq pending
    BY <1>8, ListStays, SelectionStays DEF vars, listVars, selectionVars, AnswerWithoutReload
  <2>2. QED
    BY <2>1 DEF ChosenInv, DialogInv, ForChosen
<1>9. CASE OthersChange \/ ServeCount \/ CountFails \/ CountArrives \/ UNCHANGED allVars
  <2>1. UNCHANGED <<query, isAllSelected, selectedConfigs, operationVars>>
    BY <1>9, SelectionStays DEF OthersChange, ServerChange, ServeCount, CountFails, CountArrives, allVars, pageVars, vars, listVars,
                selectionVars
  <2>2. QED
    BY <2>1 DEF ChosenInv, DialogInv, ForChosen, operationVars
<1>10. QED
  BY <1>2, <1>3, <1>4, <1>5, <1>6, <1>7, <1>8, <1>9, PageSteps DEF ListEvent

(***************************************************************************)
(* Which rows are shown                                                    *)
(***************************************************************************)

\* The list follows one stream at a time, which continues where the rows end: a page that is being
\* loaded has set the flag that keeps another from being asked for.
FlowInv ==
    \A l \in loads :
        /\ l.kind # "replace"
        /\ IsCurrent(l) =>
              /\ \A m \in loads : IsCurrent(m) => m = l
              /\ l.kind = "initial" => initialLoading
              /\ l.kind = "append" => appendLoading
              /\ l.range.offset = FirstRange(paging).offset + offset
              /\ l.rest = None => l.received = 0

\* What the stream has still to deliver follows the rows it has delivered.
Delivers(l) ==
    /\ Len(accumulated) = offset + l.received
    /\ l.rest # None =>
          \A k \in DOMAIN l.rest :
              /\ l.range.offset + l.received + k <= Len(Result(query))
              /\ l.rest[k] = Result(query)[l.range.offset + l.received + k]

\* The objects of a result differ.
LEMMA ResultKeyed ==
    ASSUME TypeOK, NEW q, NEW j \in 1..Len(Result(q)), NEW k \in 1..Len(Result(q)),
           Result(q)[j].id = Result(q)[k].id
    PROVE  j = k
<1> DEFINE objects == [i \in Ids |-> [id |-> i, state |-> store[i]]]
           I == {i \in Ids : Matches(store[i], q)}
           S == [id : Ids, state : ObjectState]
<1>1. /\ objects \in [1..N -> S] /\ DOMAIN objects = Ids /\ \A i \in Ids : objects[i].id = i
      /\ N \in Nat /\ I \in SUBSET Ids /\ I \in SUBSET Nat
  BY SizeAssumption DEF TypeOK, Ids
<1>2. Result(q) = Pick(objects, I)
  BY DEF Result
<1> HIDE DEF objects, I, S
<1>3. objects \in Seq(S)
  BY <1>1, FunctionIsSeq
<1>4. /\ IsFiniteSet(I) /\ Len(Pick(objects, I)) = Cardinality(I)
      /\ \A n \in 1..Cardinality(I) : Nth(I, n) \in I /\ Pick(objects, I)[n] = objects[Nth(I, n)]
  <2>1. I \in SUBSET DOMAIN objects
    BY <1>1
  <2>2. /\ IsFiniteSet(I) /\ Len(Pick(objects, I)) = Cardinality(I)
        /\ DOMAIN Pick(objects, I) = 1..Cardinality(I)
        /\ \A n \in DOMAIN Pick(objects, I) : Nth(I, n) \in I /\ Pick(objects, I)[n] = objects[Nth(I, n)]
    BY <1>3, <2>1, PickFacts
  <2>3. QED
    BY <2>2
<1>5. Nth(I, j) = Nth(I, k)
  <2>1. j \in 1..Cardinality(I) /\ k \in 1..Cardinality(I)
    BY <1>2, <1>4
  <2>2. Nth(I, j) \in Ids /\ Nth(I, k) \in Ids
    BY <1>1, <1>4, <2>1
  <2>3. Result(q)[j] = objects[Nth(I, j)] /\ Result(q)[k] = objects[Nth(I, k)]
    BY <1>2, <1>4, <2>1
  <2>4. QED
    BY <1>1, <2>2, <2>3
<1>6. Rank(I, Nth(I, j)) = j - 1 /\ Rank(I, Nth(I, k)) = k - 1
  BY <1>1, <1>2, <1>4, NthFacts
<1>7. j \in Int /\ k \in Int
  BY <1>1, <1>4, FS_CardinalityType
<1>8. QED
  BY <1>5, <1>6, <1>7

\* The current rows and streams, while the objects stay as they are.
Contiguous ==
    /\ RowsAreContiguous
    /\ \A l \in loads : IsCurrent(l) => Delivers(l)
    /\ (\A l \in loads : ~IsCurrent(l)) => Len(accumulated) = offset

\* The list starts over.
LEMMA RestartFlow ==
    ASSUME ListInv, FlowInv, NEW p \in Paging \cup {None}, NEW q, NEW ongoing \in SUBSET loads, Restart(p, q, ongoing)
    PROVE  FlowInv' /\ Contiguous'
<1>1. PICK new :
         /\ loads' = ongoing \cup {new}
         /\ new.generation = generation + 1 /\ new.kind = "initial" /\ new.rest = None /\ new.received = 0
         /\ new.range = FirstRange(p)
  <2> DEFINE r == [no |-> opened + 1, generation |-> generation + 1, query |-> q, range |-> FirstRange(p),
                   kind |-> "initial", rest |-> None, received |-> 0, rows |-> <<>>]
  <2>1. loads' = ongoing \cup {r}
    BY DEF Restart, Request
  <2>2. /\ r.generation = generation + 1 /\ r.kind = "initial" /\ r.rest = None /\ r.received = 0
        /\ r.range = FirstRange(p)
    OBVIOUS
  <2> HIDE DEF r
  <2>3. QED
    BY <2>1, <2>2
<1>2. /\ generation' = generation + 1 /\ offset' = 0 /\ initialLoading' = TRUE /\ paging' = p /\ accumulated' = <<>>
  BY DEF Restart
<1>3. generation \in Nat /\ \A l \in loads : l.generation \in Nat /\ l.generation <= generation
  BY DEF ListInv, TypeOK, RowsInv, Load
<1>4. \A l \in ongoing : l.generation # generation' /\ l.kind # "replace"
  BY <1>2, <1>3 DEF FlowInv
<1>5. FirstRange(p).offset \in Nat
  BY FirstRangeType DEF ListRange
<1>6. FirstRange(p).offset = FirstRange(paging)'.offset + offset'
  BY <1>2, <1>5 DEF FirstRange
<1>7. FlowInv'
  BY <1>1, <1>2, <1>4, <1>6 DEF FlowInv, IsCurrent
<1>8. Delivers(new)'
  BY <1>1, <1>2 DEF Delivers
<1>9. RowsAreContiguous'
  BY <1>2 DEF RowsAreContiguous
<1>10. \A l \in loads' : IsCurrent(l)' => l = new
  BY <1>1, <1>4 DEF IsCurrent
<1>11. new \in loads' /\ IsCurrent(new)'
  BY <1>1, <1>2 DEF IsCurrent
<1>12. Contiguous'
  BY <1>8, <1>9, <1>10, <1>11 DEF Contiguous
<1>13. QED
  BY <1>7, <1>12

\* The result of the query, as long as neither changes.
LEMMA SameResult == ASSUME UNCHANGED <<store, query>> PROVE Result(query)' = Result(query)
BY DEF Result, Pick, Nth, Matches

\* The next page is asked for where the rows end.
LEMMA LoadMoreFlow ==
    ASSUME ListInv, FlowInv, LoadMore PROVE FlowInv' /\ (Contiguous => Contiguous')
<1>1. PICK new :
         /\ loads' = loads \cup {new}
         /\ new.generation = generation /\ new.kind = "append" /\ new.rest = None /\ new.received = 0
         /\ new.range.offset = offset
  <2> DEFINE r == [no |-> opened + 1, generation |-> generation, query |-> query,
                   range |-> [offset |-> offset, pageSize |-> PageSize],
                   kind |-> "append", rest |-> None, received |-> 0, rows |-> <<>>]
  <2>1. loads' = loads \cup {r}
    BY DEF LoadMore, Request
  <2>2. /\ r.generation = generation /\ r.kind = "append" /\ r.rest = None /\ r.received = 0
        /\ r.range.offset = offset
    OBVIOUS
  <2> HIDE DEF r
  <2>3. QED
    BY <2>1, <2>2
<1>2. /\ paging = None /\ ~initialLoading /\ ~appendLoading /\ appendLoading' = TRUE
      /\ UNCHANGED <<store, changes, query, generation, accumulated, offset, paging, initialLoading>>
  BY DEF LoadMore, serverVars
<1>3. offset \in Nat /\ FirstRange(paging).offset = 0 /\ FirstRange(paging)' = FirstRange(paging)
  BY <1>2 DEF FirstRange, ListInv, TypeOK
<1>4. \A l \in loads : ~IsCurrent(l)
  <2>1. \A l \in loads : l.kind \in {"initial", "append", "replace"}
    BY DEF ListInv, TypeOK, Load
  <2>2. QED
    BY <1>2, <2>1 DEF FlowInv
<1>5. \A l \in loads' : IsCurrent(l)' => l = new
  BY <1>1, <1>2, <1>4 DEF IsCurrent
<1>6. FlowInv'
  <2>1. \A l \in loads' : l.kind # "replace"
    BY <1>1 DEF FlowInv
  <2>2. new.range.offset = FirstRange(paging)'.offset + offset'
    BY <1>1, <1>2, <1>3
  <2>3. QED
    BY <1>1, <1>2, <1>5, <2>1, <2>2 DEF FlowInv
<1>7. ASSUME Contiguous PROVE Contiguous'
  <2>1. Len(accumulated) = offset
    BY <1>4, <1>7 DEF Contiguous
  <2>2. Result(query)' = Result(query)
    BY <1>2, SameResult
  <2>3. Delivers(new)'
    BY <1>1, <1>2, <1>3, <2>1 DEF Delivers
  <2>4. RowsAreContiguous'
    BY <1>2, <1>3, <1>7, <2>2 DEF Contiguous, RowsAreContiguous
  <2>5. new \in loads' /\ IsCurrent(new)'
    BY <1>1, <1>2 DEF IsCurrent
  <2>6. QED
    BY <1>5, <2>3, <2>4, <2>5 DEF Contiguous
<1>8. QED
  BY <1>6, <1>7

\* A stream goes on, as m.
Continues(l, m) ==
    /\ loads' = (loads \ {l}) \cup {m}
    /\ m.generation = l.generation /\ m.kind = l.kind /\ m.range = l.range
    /\ m.rest # None
    /\ UNCHANGED <<store, changes, query, generation, offset, paging, initialLoading, appendLoading>>

\* It is the current one if it was so before, and one that is not current changes nothing.
LEMMA ContinueFlow ==
    ASSUME FlowInv, NEW l \in loads, NEW m, Continues(l, m)
    PROVE  /\ FlowInv'
           /\ IsCurrent(l) => m \in loads' /\ \A k \in loads' : IsCurrent(k)' => k = m
           /\ ~IsCurrent(l) /\ Contiguous /\ accumulated' = accumulated => Contiguous'
<1>1. \A k \in loads' : k = m \/ (k \in loads /\ k # l)
  BY DEF Continues
<1>2. \A k : IsCurrent(k)' <=> IsCurrent(k)
  BY DEF Continues, IsCurrent
<1>3. IsCurrent(m) <=> IsCurrent(l)
  BY DEF Continues, IsCurrent
<1>4. \A k \in loads' : IsCurrent(k) => IF IsCurrent(l) THEN k = m ELSE k \in loads
  BY <1>1, <1>3 DEF FlowInv
<1>5. FirstRange(paging)' = FirstRange(paging)
  BY DEF FirstRange, Continues
<1>6. FlowInv'
  <2>1. \A k \in loads' : k.kind # "replace"
    BY <1>1 DEF FlowInv, Continues
  <2>2. ASSUME NEW k \in loads', IsCurrent(k)
        PROVE  /\ \A n \in loads' : IsCurrent(n) => n = k
               /\ k.kind = "initial" => initialLoading
               /\ k.kind = "append" => appendLoading
               /\ k.range.offset = FirstRange(paging).offset + offset
               /\ k.rest = None => k.received = 0
    <3>1. CASE IsCurrent(l)
      <4>1. k = m
        BY <1>4, <2>2, <3>1
      <4>2. QED
        BY <1>4, <3>1, <4>1 DEF FlowInv, Continues
    <3>2. CASE ~IsCurrent(l)
      <4>1. k \in loads /\ \A n \in loads' : IsCurrent(n) => n \in loads
        BY <1>4, <2>2, <3>2
      <4>2. QED
        BY <2>2, <4>1 DEF FlowInv
    <3>3. QED
      BY <3>1, <3>2
  <2>3. initialLoading' = initialLoading /\ appendLoading' = appendLoading /\ offset' = offset
    BY DEF Continues
  <2>4. QED
    BY <1>2, <1>5, <2>1, <2>2, <2>3 DEF FlowInv
<1>7. ASSUME ~IsCurrent(l), Contiguous, accumulated' = accumulated PROVE Contiguous'
  <2>1. UNCHANGED <<store, changes, query, offset, paging>>
    BY DEF Continues
  <2>2. Result(query)' = Result(query)
    BY <2>1, SameResult
  <2>3. RowsAreContiguous'
    BY <1>5, <1>7, <2>1, <2>2 DEF Contiguous, RowsAreContiguous
  <2>4. \A k : Delivers(k) => Delivers(k)'
    BY <1>7, <2>1, <2>2 DEF Delivers
  <2>5. \A k \in loads' : IsCurrent(k)' => Delivers(k)'
    BY <1>2, <1>4, <1>7, <2>4 DEF Contiguous
  <2>6. \A k \in loads : IsCurrent(k) => k \in loads'
    BY <1>7 DEF Continues
  <2>7. (\A k \in loads' : ~IsCurrent(k)') => Len(accumulated') = offset'
    BY <1>2, <1>7, <2>1, <2>6 DEF Contiguous
  <2>8. QED
    BY <2>3, <2>5, <2>7 DEF Contiguous
<1>8. IsCurrent(l) => m \in loads' /\ \A k \in loads' : IsCurrent(k)' => k = m
  BY <1>2, <1>4 DEF Continues
<1>9. QED
  BY <1>6, <1>7, <1>8

\* The server reads the range of a stream.
LEMMA ServeFlow ==
    ASSUME ListInv, FlowInv, NEW l \in loads, Serve(l) PROVE FlowInv' /\ (Contiguous => Contiguous')
<1> DEFINE all == Result(l.query)
           last == l.range.offset + l.range.pageSize
           end == IF Len(all) < last THEN Len(all) ELSE last
           Object == [id : Ids, state : {"on", "off"}]
<1>1. l \in Load /\ l.range.offset \in Nat /\ l.range.pageSize \in Nat /\ l.rest = None /\ l.received \in Nat
  BY DEF ListInv, TypeOK, Load, ListRange, Serve
<1>2. all \in Seq(Object) /\ Len(all) \in Nat /\ DOMAIN all = 1..Len(all)
  <2>1. all \in Seq(Object)
    BY ResultFacts DEF ListInv
  <2> HIDE DEF all, Object
  <2>2. QED
    BY <2>1, LenProperties
<1>3. end \in Nat /\ end <= Len(all)
  <2> HIDE DEF all
  <2>1. QED
    BY <1>1, <1>2
<1>4. PICK m : /\ Continues(l, m) /\ m.received = l.received
               /\ m.rest = SubSeq(all, l.range.offset + 1, end)
               /\ m.rest \in Seq(Object)
               /\ \A k \in DOMAIN m.rest : l.range.offset + k <= Len(all) /\ m.rest[k] = all[l.range.offset + k]
  <2> DEFINE s == SubSeq(all, l.range.offset + 1, end)
             r == [l EXCEPT !.rest = s]
  <2>1. /\ loads' = (loads \ {l}) \cup {r}
        /\ UNCHANGED <<store, changes, query, generation, offset, paging, initialLoading, appendLoading>>
    BY DEF Serve, serverVars
  <2> HIDE DEF all, end, Object
  <2>2. \A i \in (l.range.offset + 1)..end : all[i] \in Object
    BY <1>1, <1>2, <1>3, SeqElements
  <2>3. /\ s \in Seq(Object)
        /\ Len(s) = IF l.range.offset + 1 <= end THEN end - l.range.offset ELSE 0
        /\ \A i \in 1..(end - l.range.offset) : s[i] = all[l.range.offset + i]
    <3>1. l.range.offset + 1 \in Int /\ end \in Int
      BY <1>1, <1>3
    <3>2. /\ s \in Seq(Object)
          /\ Len(s) = IF l.range.offset + 1 <= end THEN end - (l.range.offset + 1) + 1 ELSE 0
          /\ \A i \in 1..(end - (l.range.offset + 1) + 1) : s[i] = all[(l.range.offset + 1) + i - 1]
      BY <2>2, <3>1, SubSeqProperties
    <3> HIDE DEF s
    <3>3. end - (l.range.offset + 1) + 1 = end - l.range.offset
      BY <1>1, <1>3
    <3>4. \A i \in 1..(end - l.range.offset) : (l.range.offset + 1) + i - 1 = l.range.offset + i
      BY <1>1, <1>3
    <3>5. QED
      BY <3>2, <3>3, <3>4
  <2> HIDE DEF s
  <2>4. s # None
    BY <2>3, StreamAssumption DEF Object
  <2>5. /\ r.generation = l.generation /\ r.kind = l.kind /\ r.range = l.range /\ r.rest = s
        /\ r.received = l.received
    BY <1>1 DEF Load
  <2> HIDE DEF r
  <2>6. Continues(l, r)
    BY <2>1, <2>4, <2>5 DEF Continues
  <2>7. DOMAIN s = 1..Len(s)
    BY <2>3, LenProperties
  <2>8. \A k \in DOMAIN s : l.range.offset + k <= Len(all) /\ s[k] = all[l.range.offset + k]
    BY <1>1, <1>2, <1>3, <2>3, <2>7
  <2>9. QED
    BY <2>3, <2>5, <2>6, <2>8 DEF s
<1>5. /\ FlowInv'
      /\ IsCurrent(l) => m \in loads' /\ \A k \in loads' : IsCurrent(k)' => k = m
      /\ ~IsCurrent(l) /\ Contiguous /\ accumulated' = accumulated => Contiguous'
  BY <1>4, ContinueFlow
<1>6. accumulated' = accumulated /\ UNCHANGED <<store, changes, query, offset, paging, generation>>
  BY DEF Serve, serverVars
<1>7. ASSUME Contiguous, IsCurrent(l) PROVE Contiguous'
  <2>1. l.query = query /\ l.received = 0
    BY <1>1, <1>7 DEF IsCurrent, ListInv, RowsInv, FlowInv
  <2>2. Result(query)' = Result(query)
    BY <1>6, SameResult
  <2>3. RowsAreContiguous'
    <3>1. FirstRange(paging)' = FirstRange(paging)
      BY <1>6 DEF FirstRange
    <3>2. QED
      BY <1>6, <1>7, <2>2, <3>1 DEF Contiguous, RowsAreContiguous
  <2>4. Len(accumulated) = offset + l.received
    BY <1>7 DEF Contiguous, Delivers
  <2>5. Delivers(m)'
    <3>1. Len(accumulated') = offset' + m.received
      BY <1>4, <1>6, <2>4
    <3>2. \A k \in DOMAIN m.rest : /\ m.range.offset + m.received + k <= Len(Result(query))
                                   /\ m.rest[k] = Result(query)[m.range.offset + m.received + k]
      <4>1. m.range.offset = l.range.offset /\ m.received = 0
        BY <1>4, <2>1 DEF Continues
      <4>2. \A k \in DOMAIN m.rest : k \in Nat
        BY <1>4, LenProperties
      <4>3. \A k \in DOMAIN m.rest : m.range.offset + m.received + k = l.range.offset + k
        BY <1>1, <4>1, <4>2
      <4>4. QED
        BY <1>4, <2>1, <4>3
    <3>3. QED
      BY <2>2, <3>1, <3>2 DEF Delivers
  <2>6. IsCurrent(m)'
    BY <1>4, <1>6, <1>7 DEF IsCurrent, Continues
  <2>7. QED
    BY <1>5, <1>7, <2>3, <2>5, <2>6 DEF Contiguous
<1>8. QED
  BY <1>5, <1>6, <1>7

\* A row comes: the next one of the result, which no row shows yet.
LEMMA NextFlow ==
    ASSUME ListInv, FlowInv, NEW l \in loads, StreamNext(l)
    PROVE  FlowInv' /\ (Contiguous /\ changes = 0 => Contiguous')
<1> DEFINE row == [id |-> Head(l.rest).id, state |-> Head(l.rest).state, load |-> l.no, query |-> l.query]
           Object == [id : Ids, state : {"on", "off"}]
<1>1. /\ l \in Load /\ l.range.offset \in Nat /\ l.received \in Nat /\ l.rest \in Seq(Object)
      /\ l.rest # None /\ l.rest # <<>> /\ l.kind # "replace"
  BY DEF ListInv, TypeOK, Load, ListRange, StreamNext, FlowInv
<1>2. /\ Head(l.rest) = l.rest[1] /\ 1 \in DOMAIN l.rest /\ Tail(l.rest) \in Seq(Object)
      /\ \A k \in DOMAIN Tail(l.rest) : k \in Nat /\ k + 1 \in DOMAIN l.rest /\ Tail(l.rest)[k] = l.rest[k + 1]
  <2> HIDE DEF Object
  <2>1. /\ Tail(l.rest) \in Seq(Object) /\ Len(Tail(l.rest)) = Len(l.rest) - 1
        /\ \A k \in 1..Len(Tail(l.rest)) : Tail(l.rest)[k] = l.rest[k + 1]
    BY <1>1, HeadTailProperties
  <2>2. Len(l.rest) \in Nat /\ DOMAIN l.rest = 1..Len(l.rest) /\ DOMAIN Tail(l.rest) = 1..Len(Tail(l.rest))
    BY <1>1, <2>1, LenProperties
  <2>3. Len(l.rest) # 0
    BY <1>1, EmptySeq
  <2>4. Head(l.rest) = l.rest[1]
    BY <1>1
  <2>5. QED
    BY <2>1, <2>2, <2>3, <2>4
<1>3. PICK m : /\ Continues(l, m) /\ m.rest = Tail(l.rest)
               /\ m.received = IF IsCurrent(l) THEN l.received + 1 ELSE l.received
  <2> DEFINE r == [l EXCEPT !.rest = Tail(@),
                            !.received = IF IsCurrent(l) /\ l.kind # "replace" THEN @ + 1 ELSE @,
                            !.rows = IF IsCurrent(l) /\ l.kind = "replace" THEN Upsert(@, row) ELSE @]
  <2>1. /\ loads' = (loads \ {l}) \cup {r}
        /\ UNCHANGED <<store, changes, query, generation, offset, paging, initialLoading, appendLoading>>
    BY DEF StreamNext, serverVars
  <2>2. /\ r.generation = l.generation /\ r.kind = l.kind /\ r.range = l.range /\ r.rest = Tail(l.rest)
        /\ r.received = IF IsCurrent(l) THEN l.received + 1 ELSE l.received
    <3> HIDE DEF row
    <3>1. QED
      BY <1>1 DEF Load
  <2> HIDE DEF r
  <2>3. Tail(l.rest) # None
    BY <1>2, StreamAssumption
  <2>4. QED
    BY <2>1, <2>2, <2>3 DEF Continues
<1>4. /\ FlowInv'
      /\ IsCurrent(l) => m \in loads' /\ \A k \in loads' : IsCurrent(k)' => k = m
      /\ ~IsCurrent(l) /\ Contiguous /\ accumulated' = accumulated => Contiguous'
  BY <1>3, ContinueFlow
<1>5. /\ UNCHANGED <<store, changes, query, offset, paging, generation>>
      /\ accumulated' = IF IsCurrent(l) THEN Upsert(accumulated, row) ELSE accumulated
  BY <1>1 DEF StreamNext, serverVars
<1> HIDE DEF row
<1>6. ASSUME Contiguous, changes = 0, IsCurrent(l) PROVE Contiguous'
  <2> DEFINE R == Result(query)
             first == FirstRange(paging).offset
             n == Len(accumulated)
  <2>1. l.query = query /\ query # None
    BY <1>1, <1>6, QueryAssumption DEF IsCurrent, ListInv, RowsInv, Load
  <2>2. R' = R /\ FirstRange(paging)' = FirstRange(paging)
    BY <1>5, SameResult DEF FirstRange
  <2>3. accumulated \in Seq(Row) /\ n \in Nat /\ DOMAIN accumulated = 1..n /\ offset \in Nat
    BY LenProperties DEF ListInv, TypeOK
  <2>4. first \in Nat
    BY FirstRangeType DEF ListInv, TypeOK, Paging, ListRange
  <2>5. n = offset + l.received /\ l.range.offset = first + offset
    BY <1>6 DEF Contiguous, Delivers, FlowInv
  <2>6. \A k \in DOMAIN l.rest : /\ l.range.offset + l.received + k <= Len(R)
                                 /\ l.rest[k] = R[l.range.offset + l.received + k]
    BY <1>1, <1>6 DEF Contiguous, Delivers
  <2>7. \A i \in 1..n : first + i <= Len(R) /\ accumulated[i].id = R[first + i].id
    BY <1>6, <2>1, <2>3 DEF Contiguous, RowsAreContiguous
  <2>8. Len(R) \in Nat
    BY ResultFacts, LenProperties DEF ListInv
  <2> HIDE DEF R, first, n
  <2>9. l.range.offset + l.received = first + n
    BY <1>1, <2>3, <2>4, <2>5
  <2>10. /\ first + n + 1 <= Len(R) /\ row.id = R[first + n + 1].id
    BY <1>2, <2>6, <2>9 DEF row
  <2>11. row.id \notin RowIds(accumulated)
    <3> SUFFICES ASSUME NEW i \in 1..n, accumulated[i].id = row.id PROVE FALSE
      BY <2>3 DEF RowIds
    <3>1. R[first + i].id = R[first + n + 1].id /\ first + i \in 1..Len(R) /\ first + n + 1 \in 1..Len(R)
      BY <2>3, <2>4, <2>7, <2>8, <2>10
    <3>2. first + i = first + n + 1
      BY <3>1, ResultKeyed DEF R, ListInv
    <3>3. QED
      BY <2>3, <2>4, <3>2
  <2>12. accumulated' = Append(accumulated, row)
    BY <1>5, <1>6, <2>11 DEF Upsert
  <2>13. /\ Len(accumulated') = n + 1 /\ DOMAIN accumulated' = 1..(n + 1)
         /\ \A i \in 1..n : accumulated'[i] = accumulated[i]
         /\ accumulated'[n + 1] = row
    BY <2>3, <2>12 DEF n
  <2>14. \A i \in 1..(n + 1) : first + i <= Len(R) /\ accumulated'[i].id = R[first + i].id
    <3> TAKE i \in 1..(n + 1)
    <3>1. CASE i \in 1..n
      BY <2>7, <2>13, <3>1
    <3>2. CASE i = n + 1
      BY <2>3, <2>4, <2>10, <2>13, <3>2
    <3>3. QED
      BY <2>3, <3>1, <3>2
  <2>15. RowsAreContiguous'
    <3>1. Result(query)' = R /\ FirstRange(paging)'.offset = first
      BY <2>2 DEF R, first
    <3>2. QED
      BY <2>13, <2>14, <3>1 DEF RowsAreContiguous
  <2>16. Delivers(m)'
    <3>1. Len(accumulated') = offset' + m.received
      BY <1>1, <1>3, <1>5, <1>6, <2>3, <2>5, <2>13
    <3>2. \A k \in DOMAIN m.rest : /\ m.range.offset + m.received + k <= Len(R)
                                   /\ m.rest[k] = R[m.range.offset + m.received + k]
      <4>1. m.range.offset = l.range.offset /\ m.received = l.received + 1
        BY <1>3, <1>6 DEF Continues
      <4>2. \A k \in DOMAIN m.rest : m.range.offset + m.received + k = l.range.offset + l.received + (k + 1)
        <5>1. l.range.offset \in Nat /\ l.received \in Nat
          BY <1>1
        <5>2. \A k \in DOMAIN m.rest : k \in Nat
          BY <1>2, <1>3
        <5>3. QED
          BY <4>1, <5>1, <5>2
      <4>3. \A k \in DOMAIN m.rest : k + 1 \in DOMAIN l.rest /\ m.rest[k] = l.rest[k + 1]
        BY <1>2, <1>3
      <4>4. QED
        BY <2>6, <4>2, <4>3
    <3>3. QED
      BY <2>2, <3>1, <3>2 DEF Delivers, R
  <2>17. IsCurrent(m)'
    BY <1>3, <1>5, <1>6 DEF IsCurrent, Continues
  <2>18. QED
    BY <1>4, <1>6, <2>15, <2>16, <2>17 DEF Contiguous
<1>7. QED
  BY <1>4, <1>5, <1>6

\* A stream ends: the rows end where it has left them, or the page before is asked for.
LEMMA FinishFlow ==
    ASSUME ListInv, FlowInv, NEW l \in loads, Finish(l) PROVE FlowInv' /\ (Contiguous => Contiguous')
<1>1. l \in Load /\ l.kind # "replace" /\ l.received \in Nat /\ offset \in Nat
  BY DEF ListInv, TypeOK, Load, FlowInv
<1>2. CASE IsCurrent(l) /\ FinishRequest(l) /\ StepsBack(l)
  <2>1. Restart([paging EXCEPT !.pageIndex = @ - 1], query, WithoutActive \ {l})
    BY <1>2 DEF FinishRequest
  <2>2. paging \in Paging /\ paging.pageIndex \in Nat /\ paging.pageIndex > 0
    BY <1>2 DEF StepsBack, ListInv, TypeOK, Paging
  <2>3. [paging EXCEPT !.pageIndex = @ - 1] \in Paging \cup {None}
    BY <2>2 DEF Paging
  <2>4. (WithoutActive \ {l}) \in SUBSET loads
    BY DEF WithoutActive
  <2>5. QED
    BY <2>1, <2>3, <2>4, RestartFlow
<1>3. CASE ~IsCurrent(l) /\ Drop(l)
  <2>1. /\ loads' = loads \ {l}
        /\ UNCHANGED <<store, changes, query, generation, accumulated, offset, paging, initialLoading, appendLoading>>
    BY <1>3 DEF Drop, serverVars
  <2>2. \A k : IsCurrent(k)' <=> IsCurrent(k)
    BY <2>1 DEF IsCurrent
  <2>3. FirstRange(paging)' = FirstRange(paging) /\ Result(query)' = Result(query)
    BY <2>1, SameResult DEF FirstRange
  <2>4. FlowInv'
    BY <2>1, <2>2, <2>3 DEF FlowInv
  <2>5. ASSUME Contiguous PROVE Contiguous'
    <3>1. RowsAreContiguous'
      BY <2>1, <2>3, <2>5 DEF Contiguous, RowsAreContiguous
    <3>2. \A k : Delivers(k) => Delivers(k)'
      BY <2>1, <2>3 DEF Delivers
    <3>3. \A k \in loads : IsCurrent(k) => k \in loads'
      BY <1>3, <2>1
    <3>4. (\A k \in loads' : ~IsCurrent(k)') => Len(accumulated') = offset'
      BY <2>1, <2>2, <2>5, <3>3 DEF Contiguous
    <3>5. \A k \in loads' : IsCurrent(k)' => Delivers(k)'
      BY <2>1, <2>2, <2>5, <3>2 DEF Contiguous
    <3>6. QED
      BY <3>1, <3>4, <3>5 DEF Contiguous
  <2>6. QED
    BY <2>4, <2>5
<1>4. CASE IsCurrent(l) /\ FinishRequest(l) /\ ~StepsBack(l)
  <2>1. /\ loads' = loads \ {l} /\ offset' = offset + l.received
        /\ UNCHANGED <<store, changes, query, generation, accumulated, paging>>
    BY <1>4 DEF FinishRequest, serverVars
  <2>2. \A k \in loads' : ~IsCurrent(k)'
    BY <1>4, <2>1 DEF FlowInv, IsCurrent
  <2>3. FirstRange(paging)' = FirstRange(paging) /\ Result(query)' = Result(query)
    BY <2>1, SameResult DEF FirstRange
  <2>4. FlowInv'
    BY <2>1, <2>2 DEF FlowInv
  <2>5. ASSUME Contiguous PROVE Contiguous'
    <3>1. RowsAreContiguous'
      BY <2>1, <2>3, <2>5 DEF Contiguous, RowsAreContiguous
    <3>2. Len(accumulated') = offset'
      BY <1>4, <2>1, <2>5 DEF Contiguous, Delivers
    <3>3. QED
      BY <2>2, <3>1, <3>2 DEF Contiguous
  <2>6. QED
    BY <2>4, <2>5
<1>5. QED
  BY <1>1, <1>2, <1>3, <1>4 DEF Finish

\* An operation of the list.
LEMMA ListFlow ==
    ASSUME ListPart, FlowInv,
           \/ \E q \in Queries : QueryArrives(q)
           \/ LoadMore \/ Reload
           \/ \E s \in PageSizes \cup {None} : SetPaging(s)
           \/ \E i \in 0..N : GoToPage(i)
           \/ \E l \in loads : Serve(l) \/ StreamNext(l) \/ StreamComplete(l) \/ StreamFails(l)
    PROVE  FlowInv' /\ (Contiguous /\ changes = 0 => Contiguous')
<1>0. ListInv /\ WithoutActive \in SUBSET loads /\ paging \in Paging \cup {None}
  BY DEF ListPart, ListInv, TypeOK, Paging, WithoutActive
<1>1. CASE \E q \in Queries : QueryArrives(q)
  <2>1. FirstPage \in Paging \cup {None}
    BY <1>0 DEF FirstPage, Paging
  <2>2. QED
    BY <1>0, <1>1, <2>1, RestartFlow DEF QueryArrives
<1>2. CASE Reload
  BY <1>0, <1>2, RestartFlow DEF Reload
<1>3. CASE LoadMore
  BY <1>0, <1>3, LoadMoreFlow
<1>4. ASSUME NEW i \in 0..N, GoToPage(i) PROVE FlowInv' /\ Contiguous'
  <2>1. [paging EXCEPT !.pageIndex = i] \in Paging \cup {None}
    BY <1>0, <1>4, SizeAssumption DEF GoToPage, Paging
  <2>2. QED
    BY <1>0, <1>4, <2>1, RestartFlow DEF GoToPage
<1>5. ASSUME NEW s \in PageSizes \cup {None}, SetPaging(s) PROVE FlowInv' /\ Contiguous'
  <2> DEFINE p == IF s = None THEN None ELSE [pageIndex |-> 0, pageSize |-> s]
  <2>1. p \in Paging \cup {None}
    BY DEF Paging
  <2>2. CASE query # None
    <3>1. Restart(p, query, WithoutActive)
      BY <1>5, <2>2 DEF SetPaging
    <3> HIDE DEF p
    <3>2. QED
      BY <1>0, <2>1, <3>1, RestartFlow
  <2>3. CASE query = None
    <3>1. accumulated = <<>> /\ loads = {} /\ offset = 0
      BY <2>3 DEF ListPart
    <3>2. accumulated' = <<>> /\ loads' = {} /\ offset' = 0
      BY <1>5, <2>3, <3>1 DEF SetPaging
    <3>3. QED
      BY <3>2 DEF FlowInv, Contiguous, RowsAreContiguous
  <2>4. QED
    BY <2>2, <2>3
<1>6. CASE \E l \in loads : Serve(l) \/ StreamNext(l) \/ StreamComplete(l) \/ StreamFails(l)
  BY <1>0, <1>6, ServeFlow, NextFlow, FinishFlow DEF StreamComplete, StreamFails
<1>7. QED
  BY <1>1, <1>2, <1>3, <1>4, <1>5, <1>6

\* While the objects stay as they are, the rows and what is under way are a part of the result.
ContiguousInv == changes = 0 /\ started = 0 => Contiguous

\* The rows through every step.
LEMMA ContiguousInvStep ==
    ASSUME ListPart, OperationPart, FlowInv, ContiguousInv, [PageNext]_allVars PROVE FlowInv' /\ ContiguousInv'
<1>1. CASE ListEvent
  <2>1. changes' = changes /\ started' = started
    BY <1>1, ListEvents, ListMoves DEF ListEvent, OnQuery, OnPage, OnScroll, OnStream, Answer, operationVars
  <2>2. QED
    BY <1>1, <2>1, ListEvents, ListFlow DEF ContiguousInv
<1>2. ASSUME UNCHANGED listVars PROVE FlowInv'
  BY <1>2 DEF listVars, FlowInv, IsCurrent, FirstRange
<1>3. ASSUME UNCHANGED vars, Contiguous PROVE Contiguous'
  <2>1. UNCHANGED <<store, changes, query, generation, accumulated, offset, paging, loads>>
    BY <1>3 DEF vars, serverVars, listVars
  <2>2. FirstRange(paging)' = FirstRange(paging) /\ Result(query)' = Result(query)
    BY <2>1, SameResult DEF FirstRange
  <2>3. RowsAreContiguous'
    BY <1>3, <2>1, <2>2 DEF Contiguous, RowsAreContiguous
  <2>4. \A k : (IsCurrent(k)' <=> IsCurrent(k)) /\ (Delivers(k) => Delivers(k)')
    BY <2>1, <2>2 DEF Delivers, IsCurrent
  <2>5. QED
    BY <1>3, <2>1, <2>3, <2>4 DEF Contiguous
<1>4. CASE OthersChange
  <2>1. UNCHANGED listVars /\ changes' = changes + 1 /\ changes \in Nat
    BY <1>4 DEF OthersChange, ServerChange, ListPart, ListInv, TypeOK
  <2>2. changes' # 0
    BY <2>1
  <2>3. QED
    BY <1>2, <2>1, <2>2 DEF ContiguousInv
<1>5. ASSUME NEW o \in pending, Execute(o) PROVE FlowInv' /\ ContiguousInv'
  <2>1. UNCHANGED listVars /\ started' = started
    BY <1>5, ExecuteFacts DEF Executed
  <2>2. started # 0
    BY DEF OperationPart
  <2>3. QED
    BY <1>2, <2>1, <2>2 DEF ContiguousInv
<1>6. CASE \/ OnSelection \/ OnDialog \/ ServeCount \/ CountFails \/ CountArrives
           \/ \E o \in pending : AnswerWithoutReload(o)
           \/ UNCHANGED allVars
  <2>1. UNCHANGED vars
    BY <1>6, ListStays
  <2>2. started' = 0 => started = 0
    <3>1. started' = started \/ started' = started + 1
      BY <1>6 DEF OnSelection, OnMasterCheckboxToggle, OnCheckboxToggle, OnSelectAll, OnDeselectAll, OnDialog,
         OpenRowDialog, OpenEditSelected, OpenForSelected, Open, Cancel, Confirm, ServeCount, CountFails, CountArrives,
         AnswerWithoutReload, allVars, pageVars, operationVars
    <3>2. QED
      BY <3>1 DEF OperationPart
  <2>3. QED
    BY <1>2, <1>3, <2>1, <2>2 DEF vars, serverVars, ContiguousInv
<1>7. QED
  BY <1>1, <1>4, <1>5, <1>6, PageSteps

(***************************************************************************)
(* Theorems                                                                *)
(***************************************************************************)

\* The inductive invariant of the page.
PageInv ==
    /\ ListPart /\ SelectPart /\ OperationPart
    /\ CountPart /\ TotalInv
    /\ FlowInv /\ ContiguousInv

\* It holds when the page is opened, and so does what is said of dialogs.
LEMMA PageInvInit == PageInit => PageInv /\ ChosenInv
<1> SUFFICES ASSUME PageInit PROVE PageInv /\ ChosenInv
  OBVIOUS
<1>1. ListPart
  BY ListInvInit DEF PageInit, Init, ListPart
<1>2. SelectPart
  BY DEF PageInit, SelectPart, SelectionAgrees
<1>3. OperationPart
  BY OperationAssumption DEF PageInit, OperationPart
<1>4. CountPart /\ TotalInv
  BY DEF PageInit, CountPart, TotalInv
<1>5. loads = {} /\ accumulated = <<>> /\ offset = 0
  BY DEF PageInit, Init
<1>6. FlowInv /\ ContiguousInv
  BY <1>5 DEF FlowInv, ContiguousInv, Contiguous, RowsAreContiguous
<1>7. ChosenInv
  BY DEF PageInit, ChosenInv, DialogInv
<1>8. QED
  BY <1>1, <1>2, <1>3, <1>4, <1>6, <1>7 DEF PageInv

\* The invariant of the page, for every step it takes.
THEOREM PageInvHolds == PageSpec => []PageInv
<1>1. PageInv /\ [PageNext]_allVars => PageInv'
  BY ListPartStep, SelectPartStep, OperationPartStep, CountPartStep, ContiguousInvStep DEF PageInv
<1>2. QED
  BY <1>1, PageInvInit, PTL DEF PageSpec

\* What the invariant says.
LEMMA PageInvFacts ==
    PageInv => PageTypeOK /\ SelectionAgrees /\ TotalIsRight /\ PageRowsAreContiguous
<1> SUFFICES ASSUME PageInv PROVE PageTypeOK /\ SelectionAgrees /\ TotalIsRight /\ PageRowsAreContiguous
  OBVIOUS
<1>1. PageTypeOK
  <2>1. \A o \in pending : o.kind \in OperationKind /\ o.ids \subseteq Ids
    BY DEF PageInv, OperationPart, Operation
  <2>2. QED
    BY <2>1 DEF PageInv, ListPart, ListInv, SelectPart, OperationPart, CountPart, CountRequest, Dialog, PageTypeOK, TypeOK
<1>2. SelectionAgrees
  BY DEF PageInv, SelectPart
<1>3. TotalIsRight
  BY DEF PageInv, TotalInv, TotalIsRight
<1>4. PageRowsAreContiguous
  BY DEF PageInv, ContiguousInv, Contiguous, PageRowsAreContiguous, RowsAreContiguous
<1>5. QED
  BY <1>1, <1>2, <1>3, <1>4

\* The types of the page.
THEOREM PageTypesHold == PageSpec => []PageTypeOK
BY PageInvHolds, PageInvFacts, PTL

\* The list and the container agree on what is selected, however check boxes, rows that come, reloads and new
\* queries interleave (selectedChange, selectAll, reset$).
THEOREM SelectionStaysAgreed == PageSpec => []SelectionAgrees
BY PageInvHolds, PageInvFacts, PTL

\* The count of the database is right whenever it is shown and nothing is under way, for any number of
\* overlapping operations, counts and queries (recount, hasCountAffectingFilter); TotalIsRight names
\* the two updates that are not counted for.
THEOREM TotalStaysRight == PageSpec => []TotalIsRight
BY PageInvHolds, PageInvFacts, PTL

\* Streams that are cancelled, broken off, forgotten or replaced leave no hole among the rows, for any
\* number of objects, loads and sizes of pages (offset, restart, the generation check of request).
THEOREM RowsStayContiguous == PageSpec => []PageRowsAreContiguous
BY PageInvHolds, PageInvFacts, PTL

\* Any number of operations, one after another or overlapping, change chosen objects only, unless one of them
\* is answered while the dialog of another is open: the answer resets the selection that onUpdateMulti looks at.
THEOREM OnlyAnswersInDialogsMislead ==
    PageSpec /\ [][NoAnswerInDialog]_allVars => []OnlyChosenAreChanged
<1>1. PageInv /\ ChosenInv /\ [PageNext]_allVars /\ [NoAnswerInDialog]_allVars => ChosenInv'
  <2> SUFFICES ASSUME PageInv, ChosenInv, [PageNext]_allVars, [NoAnswerInDialog]_allVars PROVE ChosenInv'
    OBVIOUS
  <2>1. CASE NoAnswerInDialog
    BY <2>1, ChosenInvStep DEF PageInv
  <2>2. CASE UNCHANGED allVars
    BY <2>2 DEF allVars, pageVars, vars, listVars, selectionVars, operationVars, ChosenInv, DialogInv, ForChosen
  <2>3. QED
    BY <2>1, <2>2
<1>2. ChosenInv => OnlyChosenAreChanged
  BY DEF ChosenInv, OnlyChosenAreChanged
<1>3. QED
  BY <1>1, <1>2, PageInvInit, PageInvHolds, PTL DEF PageSpec

\* A single operation changes chosen objects only, whatever comes between its dialog and its execution.
THEOREM SingleOperationIsForChosen ==
    ASSUME MaxOperations <= 1 PROVE PageSpec => []OnlyChosenAreChanged
<1>1. PageInv => NoAnswerInDialog
  <2> SUFFICES ASSUME PageInv, dialog # None PROVE pending = {}
    BY DEF NoAnswerInDialog
  <2>1. started = 0
    BY OperationAssumption DEF PageInv, OperationPart
  <2>2. QED
    BY <2>1 DEF PageInv, OperationPart
<1>2. PageInv /\ [PageNext]_allVars => [NoAnswerInDialog]_allVars
  BY <1>1
<1>3. QED
  BY <1>2, PageInvHolds, OnlyAnswersInDialogsMislead, PTL DEF PageSpec
=============================================================================
