------------------------- MODULE ConfigurationsPage -------------------------
(***************************************************************************)
(* dashboard: the page that lists configuration objects.  It composes the  *)
(* data source with the list component (config-list-base.ts and            *)
(* config-list.component.ts, which own the check boxes), the container     *)
(* (configurations.component.ts, which owns the dialogs, the operations on *)
(* objects and the database count) and ConfigService.                      *)
(*                                                                         *)
(* Everything that one event does synchronously is one step: a row that a  *)
(* stream delivers, the view that is published for it and the selection    *)
(* that follows the view.  Operations are sent, executed by the server and *)
(* answered in separate steps, and the page stays usable meanwhile.        *)
(***************************************************************************)
EXTENDS ListDataSource

CONSTANT MaxOperations \* bound: operations the user starts

ASSUME OperationAssumption == MaxOperations \in Nat

VARIABLES selection,        \* the list's SelectionModel: rows, by identity
          selectLoadedRows, \* the selection follows the rows that are loaded
          allSelected,      \* the list: everything in the database is selected
          selectedConfigs,  \* the container's copy of the selection
          isAllSelected,    \* the container's copy of allSelected
          total,            \* the database count, None while it is pending
          counting,         \* the count request that switchMap follows
          effective,        \* query of effectiveListRequest, the last search
          dialog,           \* the dialog that is open
          pending,          \* operations that are not answered
          started,          \* operations started so far
          excess,           \* ids that an operation changed and the user had not chosen
          uncounted         \* operations executed since the last count that are not counted for

selectionVars == <<selection, selectLoadedRows, allSelected, selectedConfigs, isAllSelected>>
countVars == <<total, counting, uncounted>>
operationVars == <<dialog, pending, started, excess>>
pageVars == <<selectionVars, countVars, effective, operationVars>>
allVars == <<vars, pageVars>>

SelectedIds(rows) == {r.id : r \in rows}
Shown == Snapshot(accumulated)
ShownRows == {Shown[i] : i \in DOMAIN Shown}

OperationKind ==
    {"save", "update", "delete", "deleteSelected", "updateSelected", "startUpdate", "run"}

\* The types: one dialog at most, and every operation is for known ids or for a query.
PageTypeOK ==
    /\ TypeOK
    /\ selection \subseteq Row /\ selectedConfigs \subseteq Row
    /\ {selectLoadedRows, allSelected, isAllSelected} \subseteq BOOLEAN
    /\ total \in 0..N \cup {None}
    /\ counting \in [query : Queries, value : 0..N \cup {None}] \cup {None}
    /\ effective \in Queries \cup {None}
    /\ dialog \in [kind : OperationKind, configs : SUBSET Row, all : Queries \cup {None}] \cup {None}
    /\ \A o \in pending : o.kind \in OperationKind /\ o.ids \subseteq Ids
    /\ started \in 0..MaxOperations
    /\ excess \subseteq Ids
    /\ uncounted \subseteq OperationKind

PageInit ==
    /\ Init
    /\ selection = {} /\ selectLoadedRows = FALSE /\ allSelected = FALSE
    /\ selectedConfigs = {} /\ isAllSelected = FALSE
    /\ total = None /\ counting = None
    /\ effective = None
    /\ dialog = None /\ pending = {} /\ started = 0 /\ excess = {}
    /\ uncounted = {}

-----------------------------------------------------------------------------
\* Selection.

\* With fixed pages, only a database-wide selection follows the page that is shown.
Follows(p) == selectLoadedRows /\ (p = None \/ allSelected)

\* The subscription to rows$: rows that have come are selected when the selection follows them,
\* and the container is told unless everything is selected.
SelectionFollows ==
    LET view == Snapshot(accumulated)'
        appended == {view[i] : i \in {j \in DOMAIN view : view[j].id \notin SelectedIds(selection)}}
        follow == Follows(paging') /\ appended # {}
    IN  /\ selection' = IF follow THEN selection \cup appended ELSE selection
        /\ selectedConfigs' = IF follow /\ ~allSelected THEN selection' ELSE selectedConfigs
        /\ isAllSelected' = IF follow /\ ~allSelected THEN FALSE ELSE isAllSelected
        /\ UNCHANGED <<selectLoadedRows, allSelected>>

SelectionResetsMutant ==
    /\ selection' = {} /\ selectLoadedRows' = FALSE /\ allSelected' = FALSE
    /\ UNCHANGED <<selectedConfigs, isAllSelected>>

\* The subscriptions to reset$ of the list and of the container.
SelectionResets ==
    /\ selection' = {} /\ selectLoadedRows' = FALSE /\ allSelected' = FALSE
    /\ selectedConfigs' = {} /\ isAllSelected' = FALSE

Emit(rows) ==
    /\ selection' = rows
    /\ selectedConfigs' = rows
    /\ isAllSelected' = FALSE
    /\ allSelected' = FALSE

IsSelectionMode == selection # {}

IsAllLoadedSelected ==
    ShownRows # {} /\ \A r \in ShownRows : r.id \in SelectedIds(selection)

\* The check box in the header checks what is shown, or unchecks it when all of it is checked.
OnMasterCheckboxToggle ==
    /\ dialog = None
    /\ accumulated # <<>>
    /\ selectLoadedRows' = ~IsAllLoadedSelected
    /\ Emit(IF ~IsAllLoadedSelected THEN selection \cup ShownRows
            ELSE {r \in selection : r.id \notin SelectedIds(ShownRows)})
    /\ UNCHANGED <<vars, countVars, effective, operationVars>>

OnCheckboxToggle(row) ==
    /\ dialog = None
    /\ selectLoadedRows' = FALSE
    /\ \/ \E r \in selection : r.id = row.id /\ Emit(selection \ {r})
       \/ row.id \notin SelectedIds(selection) /\ Emit(selection \cup {row})
    /\ UNCHANGED <<vars, countVars, effective, operationVars>>

\* The chip that offers everything in the database.
OnSelectAll ==
    /\ dialog = None
    /\ IsSelectionMode /\ ~allSelected
    /\ IsAllLoadedSelected /\ total # None /\ total > Len(accumulated)
    /\ selectLoadedRows' = TRUE
    /\ allSelected' = TRUE
    /\ isAllSelected' = TRUE
    /\ UNCHANGED <<vars, selection, selectedConfigs, countVars, effective, operationVars>>

OnDeselectAll ==
    /\ dialog = None
    /\ IsSelectionMode
    /\ selectLoadedRows' = FALSE
    /\ Emit({})
    /\ UNCHANGED <<vars, countVars, effective, operationVars>>

-----------------------------------------------------------------------------
\* The database count: a request per recount and per query; switchMap forgets the one before.

Count(q) ==
    /\ total' = None
    /\ counting' = [query |-> q, value |-> None]
    /\ uncounted' = {}

ServeCount ==
    /\ counting # None /\ counting.value = None
    /\ counting' = [counting EXCEPT !.value = Len(Result(counting.query))]
    /\ UNCHANGED <<vars, selectionVars, total, uncounted, effective, operationVars>>

\* An error is reported and counts as nothing.
CountFails ==
    /\ Errors
    /\ counting # None /\ counting.value = None
    /\ counting' = [counting EXCEPT !.value = 0]
    /\ UNCHANGED <<vars, selectionVars, total, uncounted, effective, operationVars>>

CountArrives ==
    /\ counting # None /\ counting.value # None
    /\ total' = counting.value
    /\ counting' = None
    /\ UNCHANGED <<vars, selectionVars, uncounted, effective, operationVars>>

\* hasCountAffectingFilter knows every filter but that on the role of role mappings: "off" stands
\* for the filters it names, "role" for the one it leaves out.
HasCountAffectingFilterMutant(q) == FALSE
HasCountAffectingFilter(q) == q = "off"

-----------------------------------------------------------------------------
\* Lists.  ConfigService.search remembers the request it sent.

Searches == effective' = IF opened' # opened THEN query' ELSE effective

\* The router delivers another query; a navigation closes the dialog.
OnQuery(q) ==
    /\ QueryArrives(q)
    /\ SelectionResets
    /\ Searches
    /\ Count(q)
    /\ dialog' = None
    /\ UNCHANGED <<pending, started, excess>>

\* A filter or an order chosen on the page is refused in selection mode; the address bar and the
\* history are not.
OnQueryChange(q) ==
    /\ dialog = None
    /\ selectedConfigs = {}
    /\ OnQuery(q)

OnHistory(q) ==
    /\ "history" \in Operations
    /\ OnQuery(q)

\* Paging mode, page size and page.
OnPage ==
    /\ dialog = None
    /\ "pages" \in Operations
    /\ \/ \E s \in PageSizes \cup {None} :
             /\ s # IF paging = None THEN None ELSE paging.pageSize
             /\ SetPaging(s)
       \/ \E i \in 0..N :
             /\ total # None
             /\ paging # None /\ i * paging.pageSize < total
             /\ GoToPage(i)
    /\ SelectionFollows
    /\ Searches
    /\ UNCHANGED <<countVars, operationVars>>

\* The sentinel comes into view.
OnScroll ==
    /\ LoadMore
    /\ SelectionFollows
    /\ Searches
    /\ UNCHANGED <<countVars, operationVars>>

OnStream ==
    /\ \/ StreamStep
       \/ \E l \in loads : StreamFails(l)
    /\ SelectionFollows
    /\ Searches
    /\ UNCHANGED <<countVars, operationVars>>

OthersChange ==
    /\ \E i \in Ids : ServerChange(i)
    /\ UNCHANGED pageVars

-----------------------------------------------------------------------------
\* Dialogs and the operations they start.

\* all is the query whose whole result the user has chosen, None for the given objects.
Open(kind, configs, all) ==
    /\ dialog = None
    /\ started < MaxOperations
    /\ dialog' = [kind |-> kind, configs |-> configs, all |-> all]
    /\ UNCHANGED <<vars, selectionVars, countVars, effective, pending, started, excess>>

\* Row actions and the create button are offered outside selection mode only.
OpenRowDialog ==
    /\ ~IsSelectionMode
    /\ \/ Open("save", {}, None)
       \/ \E r \in ShownRows, kind \in {"update", "delete"} : Open(kind, {r}, None)

AllMatching(q) == {i \in Ids : q # None /\ Matches(store[i], q)}

\* onEditSelected
OpenEditSelected ==
    /\ IsSelectionMode
    /\ IF isAllSelected THEN Open("startUpdate", selectedConfigs, query)
       ELSE Open("updateSelected", selectedConfigs, None)

\* onDeleteSelectedConfigs, onRunCrawlSelected
OpenForSelected(kind) ==
    /\ IsSelectionMode /\ ~isAllSelected
    /\ Open(kind, selectedConfigs, None)

Cancel ==
    /\ dialog # None
    /\ dialog' = None
    /\ UNCHANGED <<vars, selectionVars, countVars, effective, pending, started, excess>>

\* createUpdateRequest: without ids the request is that of the last search, for the whole result.
UpdateRequest(ids) ==
    IF ids # {} THEN [query |-> None, ids |-> ids] ELSE [query |-> effective, ids |-> {}]

\* The objects an operation is sent for when its dialog is confirmed: the ones the dialog was
\* opened with, except that a bulk update and a bulk run look at the selection again.
TargetMutant ==
    CASE dialog.kind = "startUpdate" -> UpdateRequest({})
      [] dialog.kind = "updateSelected" -> UpdateRequest({})
      [] OTHER -> [query |-> None, ids |-> SelectedIds(dialog.configs)]

Target ==
    CASE dialog.kind \in {"updateSelected", "startUpdate"} ->
            UpdateRequest(IF isAllSelected THEN {} ELSE SelectedIds(selectedConfigs))
      [] dialog.kind = "run" -> [query |-> None, ids |-> SelectedIds(selectedConfigs)]
      [] OTHER -> [query |-> None, ids |-> SelectedIds(dialog.configs)]

\* onUpdateMulti looks at isAllSelected, not at what the dialog was opened for.
SentKind ==
    IF dialog.kind \in {"updateSelected", "startUpdate"}
      THEN IF isAllSelected THEN "startUpdate" ELSE "updateSelected"
      ELSE dialog.kind

Confirm ==
    /\ dialog # None
    /\ pending' = pending \cup
         {[no |-> started + 1, kind |-> SentKind, ids |-> Target.ids, query |-> Target.query,
           all |-> dialog.all, chosen |-> SelectedIds(dialog.configs \cup selection), done |-> FALSE, deleted |-> FALSE]}
    /\ started' = started + 1
    /\ dialog' = None
    /\ UNCHANGED <<vars, selectionVars, countVars, effective, excess>>

Affected(o) == IF o.query = None THEN o.ids ELSE AllMatching(o.query)

\* The page does not count for a background update, nor for an update under the role filter.
NotCounted(o) ==
    IF o.kind = "startUpdate" \/ (o.kind \in {"update", "updateSelected"} /\ query = "role")
      THEN {o.kind} ELSE {}

Executed(o, deleted) ==
    /\ excess' = excess \cup (Affected(o) \ (o.chosen \cup AllMatching(o.all)))
    /\ pending' = (pending \ {o}) \cup {[o EXCEPT !.done = TRUE, !.deleted = deleted]}
    /\ uncounted' = uncounted \cup NotCounted(o)
    /\ UNCHANGED <<changes, listVars, selectionVars, total, counting, effective, dialog, started>>

\* What the server makes of an operation: a new object takes an id that is free, a bulk update
\* sets every object it is for, and an object that is referred to is not deleted.
ExecuteSave(o) ==
    /\ o.kind = "save"
    /\ \E i \in Ids, s \in {"on", "off"} :
          store[i] = "gone" /\ store' = [store EXCEPT ![i] = s]
    /\ Executed(o, FALSE)

ExecuteUpdate(o) ==
    /\ o.kind \in {"update", "updateSelected", "startUpdate"}
    /\ \E s \in {"on", "off"} :
          store' = [i \in Ids |-> IF i \in Affected(o) /\ store[i] # "gone" THEN s ELSE store[i]]
    /\ Executed(o, FALSE)

ExecuteDelete(o) ==
    /\ o.kind \in {"delete", "deleteSelected"}
    /\ \E d \in SUBSET o.ids :
          /\ store' = [i \in Ids |-> IF i \in d THEN "gone" ELSE store[i]]
          /\ Executed(o, d # {})

\* A crawl is started, or the service reports an error and answers all the same.
ExecuteNothing(o) ==
    /\ o.kind = "run" \/ Errors
    /\ store' = store
    /\ Executed(o, FALSE)

Execute(o) ==
    /\ ~o.done
    /\ ExecuteSave(o) \/ ExecuteUpdate(o) \/ ExecuteDelete(o) \/ ExecuteNothing(o)

\* Answers that leave the list alone: a background update has only been started, a run leads to
\* the reports, an object was not deleted.
AnswerWithoutReload(o) ==
    /\ o.done
    /\ o.kind \in {"startUpdate", "run"} \/ (o.kind = "delete" /\ ~o.deleted)
    /\ pending' = pending \ {o}
    /\ UNCHANGED <<vars, selectionVars, countVars, effective, dialog, started, excess>>

\* onUpdateConfig, onSaveConfig, onUpdateMulti, onDeleteConfig, onDeleteConfigObjects: reload the
\* list and count again when the count may have changed.
Answer(o) ==
    /\ o.done
    /\ \/ o.kind \in {"save", "update", "updateSelected", "deleteSelected"}
       \/ o.kind = "delete" /\ o.deleted
    /\ pending' = pending \ {o}
    /\ Reload
    /\ SelectionResets
    /\ Searches
    /\ IF o.kind \in {"save", "delete", "deleteSelected"} \/ HasCountAffectingFilter(query)
         THEN Count(query) ELSE UNCHANGED countVars
    /\ UNCHANGED <<dialog, started, excess>>

-----------------------------------------------------------------------------
OnSelection ==
    \/ OnMasterCheckboxToggle
    \/ \E r \in ShownRows : OnCheckboxToggle(r)
    \/ OnSelectAll
    \/ OnDeselectAll

OnDialog ==
    \/ OpenRowDialog
    \/ OpenEditSelected
    \/ OpenForSelected("deleteSelected")
    \/ OpenForSelected("run")
    \/ Cancel
    \/ Confirm

PageNext ==
    \/ \E q \in Queries : OnQueryChange(q)
    \/ \E q \in Queries : OnHistory(q)
    \/ OnPage
    \/ OnScroll
    \/ OnStream
    \/ OthersChange
    \/ OnSelection
    \/ OnDialog
    \/ ServeCount
    \/ CountFails
    \/ CountArrives
    \/ \E o \in pending : Execute(o)
    \/ \E o \in pending : AnswerWithoutReload(o)
    \/ \E o \in pending : Answer(o)

PageSpec == PageInit /\ [][PageNext]_allVars

-----------------------------------------------------------------------------
\* Properties.

\* The list and the container agree on what is selected: bulk operations, which the container
\* starts, work on the check boxes that the list shows (selectedChange, selectAll, reset$).
SelectionAgrees ==
    /\ allSelected = isAllSelected
    /\ ~allSelected => selectedConfigs = selection

\* No operation changes an object that the user has not chosen: one that was checked when its dialog
\* was opened, is checked when it is confirmed, or is part of the query of a database-wide choice
\* (onUpdateMulti, createUpdateRequest).
OnlyChosenAreChanged == excess = {}

\* Once it is not being counted and no operation is under way, the count is the number of objects
\* of the query, or zero after an error: every operation that can change it counts again (recount),
\* with two exceptions.  A background update says that the page has to be reloaded, and an update
\* in a list filtered by role is not counted for.
TotalIsRight ==
    (total \notin {None, 0} /\ changes = 0 /\ pending = {} /\ uncounted = {})
        => total = Len(Result(query))

\* "Recounts an update when active filters can change the matching total"
\* (configurations.component.spec.ts): the same with no exception but the background update.  The
\* code breaks it under the role filter.
FilteredUpdatesAreRecounted ==
    (total \notin {None, 0} /\ changes = 0 /\ pending = {} /\ "startUpdate" \notin uncounted)
        => total = Len(Result(query))

\* RowsAreContiguous, until the user changes the objects.
PageRowsAreContiguous == started = 0 => RowsAreContiguous

=============================================================================
