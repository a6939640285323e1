------------------------- MODULE ConfigurationDetail -------------------------
(***************************************************************************)
(* dashboard: features/config/containers/configuration.  The page of one   *)
(* configuration object: the object itself in a form, cards of the objects *)
(* it refers to, the suggestions for its annotations, for an entity the    *)
(* list of its seeds, and dialogs to change any of them.  The router keeps *)
(* the component when the user goes from one object to another.            *)
(*                                                                         *)
(* An object is its version, the number of the change that wrote it last,  *)
(* the objects it refers to, and whether it is disabled, by which the list *)
(* of an entity's seeds is filtered.  A page of that list is loaded in one *)
(* step; how its rows come, and how a load is broken off, is               *)
(* ListDataSource.  What others do to the objects is left out: this user's *)
(* own operations already race.  A call to the server is sent, executed    *)
(* and answered in three steps; where only the time of the execution       *)
(* tells, execution and answer are one step.  saveMultiple is left out: an *)
(* object that is shown always has an id, and the form saves several seeds *)
(* only without one.                                                       *)
(***************************************************************************)
EXTENDS Session, FiniteSets

CONSTANTS Ids,           \* the objects that there may be
          KindOf,        \* the kind of each object
          Initially,     \* the references of each object at first, None if it is not there
          Choices,       \* what an operation may make of an object
          SeedPage,      \* the rows of a page of an entity's seeds, LIST_PAGE_SIZE
          Selecting,     \* browser configurations with label selectors
          Matching,      \* scripts with labels that match every selector
          ScopeChecks,   \* scripts that are of the type SCOPE_CHECK
          Failures,      \* may calls with a valid token fail?
          MaxOperations, \* bound: operations that change objects
          MaxRequests    \* bound: operations, and requests of the user for a page

ASSUME ObjectsAssumption ==
    /\ KindOf \in [Ids -> Kinds] /\ None \notin Ids
    /\ Initially \in [Ids -> (SUBSET Ids) \cup {None}]
    /\ Choices \in [Ids -> SUBSET [refs : SUBSET Ids, disabled : {"no", "yes"}]]
    /\ {MaxOperations, MaxRequests} \subseteq Nat /\ Failures \in BOOLEAN
    /\ SeedPage \in Nat \ {0} /\ IsFiniteSet(Ids)

VARIABLES store,      \* the server's objects
          shown,      \* the latest value of configObject$
          get,        \* the call that loads the object of the address
          contexts,   \* per panel, what the latest complete load brought
          loading,    \* per panel, the load under way
          seeds,      \* the rows of entitySeedDataSource
          seedLoad,   \* is it loading its first page?
          offset,     \* the number of rows it has been sent since
          entitySeedDisabled, \* the status that it is filtered by
          options,    \* the lists of OptionsService
          opening,    \* the object of a dialog that waits for its options
          dialog,     \* the dialog that is open
          closing,    \* will a navigation close it?
          tracked,    \* getPreviousUrl and getCurrentUrl differ
          calls,      \* operations that are sent and not yet answered
          sent,       \* their number so far
          clock,      \* the number of the ones that have changed an object
          answered,   \* per object, the latest change whose answer was to load the page again
          failed      \* has a call failed?

detailVars == <<shown, get, contexts, loading, seeds, seedLoad, offset, entitySeedDisabled,
                opening, dialog, closing>>
allVars == <<sessionVars, detailVars, store, options, tracked, calls, sent, clock, answered, failed>>

Panels == {"related", "annotations"}
Lists == {"crawlJobs", "crawlConfigs", "crawlScheduleConfigs", "scopeScripts", "collections",
          "browserConfigs", "politenessConfigs", "browserScripts"}
Content == [refs : SUBSET Ids, disabled : {"no", "yes"}]
Object == [version : 0..MaxOperations, refs : SUBSET Ids, disabled : {"no", "yes"}]
Named == [id : Ids, object : Object]
Card == [id : Ids, object : Object \cup {None}]
Get == [id : Ids, state : {"sent", "executed"}, object : Object \cup {None}]
Call == [no : 1..MaxOperations, kind : {"update", "save", "move", "delete", "run"}, id : Ids,
         context : {"current", "related"}, back : BOOLEAN, content : Content,
         heard : {"yes", "late", "no"}, state : {"sent", "executed"}, result : Named \cup {None}]
Dialog == [kind : {"edit", "clone", "createSeed", "delete", "run", "move"}, id : Ids,
           context : {"current", "related"}, back : BOOLEAN, heard : {"yes", "late"}]

\* The types.  A call that is executed has a result unless it failed.
DetailTypeOK ==
    /\ store \in [Ids -> Object \cup {None}]
    /\ shown \in Named \cup {None}
    /\ get \in Get \cup {None}
    /\ contexts \in [Panels -> SUBSET Card]
    /\ loading \in [Panels -> [todo : SUBSET Ids, done : SUBSET Card] \cup {None}]
    /\ seeds \subseteq Named /\ seedLoad \in BOOLEAN
    /\ offset \in Nat /\ entitySeedDisabled \in {"any", "no", "yes"}
    /\ options \in [Lists -> SUBSET Ids]
    /\ {opening, dialog} \subseteq Dialog \cup {None}
    /\ {closing, failed} \subseteq BOOLEAN
    /\ tracked \in {"no", "same", "yes"}
    /\ calls \subseteq Call /\ {sent, clock} \subseteq 0..MaxOperations
    /\ answered \in [Ids -> 0..MaxOperations]

-----------------------------------------------------------------------------
\* What a page needs: the component's address, references and options.

Exists(id) == store[id] # None
Shows(p) == p.section = "config" /\ p.id # None
PageOf(id) == Page("config", KindOf[id], id)

\* The pages of objects are those of the objects there may be.
ASSUME AddressAssumption == \A p \in Pages : Shows(p) => p.id \in Ids

\* None, the undefined of the program, is not taken for a load or a call.
ASSUME LoadAssumption == None \notin Get \cup [todo : SUBSET Ids, done : SUBSET Card]

ListedKind ==
    [l \in Lists |->
    CASE l = "crawlJobs" -> "CRAWLJOB"             [] l = "crawlConfigs" -> "CRAWLCONFIG"
      [] l = "collections" -> "COLLECTION"         [] l = "browserConfigs" -> "BROWSERCONFIG"
      [] l = "politenessConfigs" -> "POLITENESSCONFIG"
      [] l = "crawlScheduleConfigs" -> "CRAWLSCHEDULECONFIG"
      [] l \in {"scopeScripts", "browserScripts"} -> "BROWSERSCRIPT"]

\* OptionsResolver.load: the lists that the form of a kind offers.
OptionLists(kind) ==
    CASE kind = "CRAWLJOB" -> {"crawlScheduleConfigs", "crawlConfigs", "scopeScripts"}
      [] kind = "CRAWLCONFIG" -> {"collections", "browserConfigs", "politenessConfigs"}
      [] kind = "BROWSERCONFIG" -> {"browserScripts"}
      [] kind \in {"SEED", "CRAWLENTITY"} -> {"crawlJobs"}
      [] OTHER -> {}

Loaded(list) ==
    {id \in Ids : Exists(id) /\ KindOf[id] = ListedKind[list] /\ (list = "scopeScripts" => id \in ScopeChecks)}

\* OptionsService.next merges the lists of a kind into the ones it has.
NextOptions(kind) == [l \in Lists |-> IF l \in OptionLists(kind) THEN Loaded(l) ELSE options[l]]

ReferenceKinds(kind) ==
    CASE kind = "SEED" -> {"CRAWLENTITY", "CRAWLJOB"}
      [] kind = "CRAWLJOB" -> {"CRAWLSCHEDULECONFIG", "CRAWLCONFIG", "BROWSERSCRIPT"}
      [] kind = "CRAWLCONFIG" -> {"COLLECTION", "BROWSERCONFIG", "POLITENESSCONFIG"}
      [] kind = "BROWSERCONFIG" -> {"BROWSERSCRIPT"}
      [] OTHER -> {}

DirectConfigDescriptors(named) ==
    {id \in named.object.refs : KindOf[id] \in ReferenceKinds(KindOf[named.id])}

SelectedScripts(named, lists) ==
    IF named.id \in Selecting THEN (lists["browserScripts"] \cap Matching) \ ScopeChecks ELSE {}

\* The cards are of the objects that the user may read.
RelatedConfigDescriptors(named, lists) ==
    {id \in DirectConfigDescriptors(named) \cup SelectedScripts(named, lists) :
        Can(ability, "read", KindOf[id])}

ScriptAnnotationJobs(named, lists) ==
    CASE KindOf[named.id] = "CRAWLJOB" -> {named.id}
      [] KindOf[named.id] = "SEED" -> {id \in named.object.refs : KindOf[id] = "CRAWLJOB"}
      [] KindOf[named.id] = "CRAWLENTITY" -> lists["crawlJobs"]
      [] OTHER -> {}

Wanted(panel, named, lists) ==
    IF named = None THEN {}
    ELSE IF panel = "related" THEN RelatedConfigDescriptors(named, lists)
                              ELSE ScriptAnnotationJobs(named, lists)

\* The query of an entity's seeds; any other query is of no kind and finds nothing.
EntitySeedQuery(p) == Shows(p) /\ p.subject = "CRAWLENTITY" /\ Can(ability, "read", "SEED")

-----------------------------------------------------------------------------
\* The streams of the component.

EmptyPanelMutant(panel) == contexts[panel]

\* With nothing to load the panel is emptied at once.
EmptyPanel(panel) == {}

\* configObject$ or options$ emits: both panels load anew, and a load under way is given up.
Emit(named, lists) ==
    /\ shown' = named
    /\ contexts' = [p \in Panels |-> IF Wanted(p, named, lists) = {} THEN EmptyPanel(p) ELSE contexts[p]]
    /\ loading' = [p \in Panels |->
                      IF Wanted(p, named, lists) = {} THEN None
                      ELSE [todo |-> Wanted(p, named, lists), done |-> {}]]

\* configRef changes: a new call replaces the one under way, and the seeds are queried anew.
Load(p) ==
    /\ get' = [id |-> p.id, state |-> "sent", object |-> None]
    /\ seedLoad' = EntitySeedQuery(p)
    /\ seeds' = {} /\ offset' = 0
    /\ UNCHANGED entitySeedDisabled

\* ngOnDestroy, and all that ends with the component.
Destroyed ==
    /\ shown' = None /\ get' = None
    /\ contexts' = [p \in Panels |-> {}] /\ loading' = [p \in Panels |-> None]
    /\ seeds' = {} /\ seedLoad' = FALSE /\ offset' = 0 /\ entitySeedDisabled' = "any"
    /\ opening' = None /\ closing' = FALSE

\* The calls of a component that is gone.  Deleting and running are not bound to its life.
Unsubscribed(cs) ==
    {[c EXCEPT !.heard = IF c.kind \in {"delete", "run"} /\ c.heard # "no" THEN "late" ELSE "no"] : c \in cs}

Outlives(d) == d # None /\ d.kind \in {"delete", "run"}

\* What the component does when the session moves: d is the dialog that stays open, cs are the calls
\* that remain.  The options of a kind are loaded when the kind is entered.
FollowPage(d, cs) ==
    LET same == page' = page \/ page'.section # "config" \/ page'.subject = None
                \/ (page.section = "config" /\ page'.subject = page.subject)
        lists == IF same THEN options ELSE NextOptions(page'.subject)
    IN  /\ options' = IF app' = "running" THEN lists ELSE [l \in Lists |-> {}]
        /\ tracked' = IF app' # "running" THEN "no"
                      ELSE IF page' = page THEN tracked
                      ELSE IF tracked # "no" THEN "yes" ELSE IF Shows(page') THEN "same" ELSE "no"
        /\ \/ /\ app' = "running" /\ page' = page
              /\ IF ability' = ability THEN UNCHANGED <<seeds, seedLoad, offset>>
                                       ELSE seeds' = {} /\ seedLoad' = FALSE /\ offset' = 0
              /\ UNCHANGED entitySeedDisabled
              /\ dialog' = d /\ calls' = cs
              /\ UNCHANGED <<shown, get, contexts, loading, opening, closing>>
           \/ /\ app' = "running" /\ page' # page /\ Shows(page')
              /\ Load(page')
              /\ IF same THEN UNCHANGED <<shown, contexts, loading>> ELSE Emit(shown, lists)
              /\ dialog' = d /\ calls' = cs
              /\ UNCHANGED <<opening, closing>>
           \/ /\ app' = "running" /\ page' # page /\ ~Shows(page')
              /\ Destroyed
              /\ dialog' = IF Outlives(d) THEN [d EXCEPT !.heard = "late"] ELSE None
              /\ calls' = Unsubscribed(cs)
           \/ /\ app' # "running"
              /\ Destroyed
              /\ dialog' = None
              /\ calls' = {[c EXCEPT !.heard = "no"] : c \in cs}

\* A request of the user closes the dialogs, whether the address or the history is used.
OnSession ==
    /\ SessionStep
    /\ moves' + sent <= MaxRequests
    /\ FollowPage(IF moves' = moves THEN dialog ELSE None, calls)
    /\ UNCHANGED <<store, sent, clock, answered, failed>>

-----------------------------------------------------------------------------
\* The server reads.  A call may fail at any time, and fails without a valid token.

Fails == (user = Anonymous \/ Failures) /\ failed' = TRUE
Serves == user # Anonymous /\ UNCHANGED failed

ServeGet ==
    /\ get # None /\ get.state = "sent"
    /\ \/ Serves /\ get' = [get EXCEPT !.state = "executed", !.object = store[get.id]]
       \/ Fails /\ get' = [get EXCEPT !.state = "executed"]
    /\ UNCHANGED <<sessionVars, shown, contexts, loading, seeds, seedLoad, offset, entitySeedDisabled,
                   opening, dialog, closing, store, options, tracked, calls, sent, clock, answered>>

GetArrives ==
    /\ get # None /\ get.state = "executed"
    /\ Emit(IF get.object = None THEN None ELSE [id |-> get.id, object |-> get.object], options)
    /\ get' = None
    /\ UNCHANGED <<sessionVars, seeds, seedLoad, offset, entitySeedDisabled, opening, dialog, closing,
                   store, options, tracked, calls, sent, clock, answered, failed>>

\* One of the calls of a panel; the panel changes when the last one has been answered (forkJoin).
ServePanel(panel, id) ==
    /\ loading[panel] # None /\ id \in loading[panel].todo
    /\ \E object \in {store[id], None} :
          LET done == loading[panel].done \cup {[id |-> id, object |-> object]}
              todo == loading[panel].todo \ {id}
          IN  /\ IF object = store[id] THEN Serves ELSE Fails
              /\ contexts' = IF todo = {} THEN [contexts EXCEPT ![panel] = done] ELSE contexts
              /\ loading' = [loading EXCEPT ![panel] =
                                IF todo = {} THEN None ELSE [todo |-> todo, done |-> done]]
    /\ UNCHANGED <<sessionVars, shown, get, seeds, seedLoad, offset, entitySeedDisabled,
                   opening, dialog, closing, store, options, tracked, calls, sent, clock, answered>>

\* The seeds of an entity that have the status the list is filtered by.
SeedsOf(entity) ==
    {[id |-> id, object |-> store[id]] :
        id \in {s \in Ids : /\ KindOf[s] = "SEED" /\ Exists(s) /\ entity \in store[s].refs
                           /\ entitySeedDisabled \in {"any", store[s].disabled}}}

\* The rows of a page of that list, in whatever order it is sorted.
RowsFrom(first) ==
    LET found == SeedsOf(page.id)
        left == IF first < Cardinality(found) THEN Cardinality(found) - first ELSE 0
    IN  {rows \in SUBSET found : Cardinality(rows) = IF left < SeedPage THEN left ELSE SeedPage}

ServeSeeds ==
    /\ seedLoad /\ seedLoad' = FALSE
    /\ \/ Serves /\ \E rows \in RowsFrom(0) : seeds' = rows /\ offset' = Cardinality(rows)
       \/ Fails /\ UNCHANGED <<seeds, offset>>
    /\ UNCHANGED <<sessionVars, shown, get, contexts, loading, entitySeedDisabled,
                   opening, dialog, closing, store, options, tracked, calls, sent, clock, answered>>

\* loadMore: the list has been scrolled to its end.  A row that is there already is replaced.
ServeMoreSeeds ==
    /\ app = "running" /\ EntitySeedQuery(page) /\ ~seedLoad /\ offset >= SeedPage
    /\ \/ Serves /\ \E rows \in RowsFrom(offset) :
                        /\ seeds' = {s \in seeds : \A row \in rows : row.id # s.id} \cup rows
                        /\ offset' = offset + Cardinality(rows)
       \/ Fails /\ UNCHANGED <<seeds, offset>>
    /\ UNCHANGED <<sessionVars, shown, get, contexts, loading, seedLoad, entitySeedDisabled,
                   opening, dialog, closing, store, options, tracked, calls, sent, clock, answered>>

-----------------------------------------------------------------------------
\* The dialogs.

MayOperate == sent < MaxOperations /\ sent + moves < MaxRequests

ListsSeeds == shown # None /\ KindOf[shown.id] = "CRAWLENTITY" /\ Can(ability, "read", "SEED")

\* onEntitySeedStatusChange, and with the same status onEntitySeedSortChange: a new query.
OnEntitySeedQueryChange(disabled) ==
    /\ app = "running" /\ dialog = None /\ ListsSeeds
    /\ entitySeedDisabled' = disabled
    /\ seedLoad' = EntitySeedQuery(page)
    /\ seeds' = {} /\ offset' = 0
    /\ UNCHANGED <<sessionVars, shown, get, contexts, loading, opening, dialog, closing,
                   store, options, tracked, calls, sent, clock, answered, failed>>

\* The objects that the page offers a menu for: its own, the cards and, for an entity, the rows of seeds.
Rows == IF ListsSeeds THEN seeds ELSE {}

Offered ==
    {<<s.id, "current">> : s \in {shown} \ {None}} \cup
    {<<c.id, "related">> : c \in {c \in contexts["related"] : c.object # None} \cup Rows}

\* A crawl job on the page of a seed is run for that seed alone (onRunSeedInCrawlJob).
RunFor(id) == IF KindOf[id] = "CRAWLJOB" /\ KindOf[shown.id] = "SEED" THEN shown.id ELSE id

Permission(kind, id) ==
    CASE kind = "createSeed" -> KindOf[id] = "CRAWLENTITY" /\ Can(ability, "create", "SEED")
      [] kind = "clone"  -> Can(ability, "create", KindOf[id])
      [] kind = "delete" -> Can(ability, "delete", KindOf[id])
      [] kind = "run"    -> KindOf[id] \in {"SEED", "CRAWLJOB"} /\ Can(ability, "runCrawl", KindOf[RunFor(id)])
      [] kind = "move"   -> KindOf[id] = "SEED" /\ Can(ability, "update", "SEED")
      [] kind = "edit"   -> Can(ability, "update", KindOf[id])

Asked(kind, target) ==
    [kind |-> kind, id |-> IF kind = "run" THEN RunFor(target[1]) ELSE target[1],
     back |-> tracked = "yes", heard |-> "yes",
     context |-> IF kind = "createSeed" THEN "related" ELSE target[2]]

MayAsk(kind, target) ==
    /\ app = "running" /\ dialog = None /\ opening = None /\ MayOperate
    /\ Permission(kind, target[1])
    /\ kind = "edit" => target[2] = "related"
    /\ kind = "move" => target[2] = "current"

\* onCreateConfigWithDialog: the options of the object's kind are loaded before the dialog opens.
\* (At most one dialog is under way; a second one would be laid over the first.)
OnCreateConfigWithDialog(kind, target) ==
    /\ MayAsk(kind, target)
    /\ opening' = Asked(kind, target)
    /\ UNCHANGED <<sessionVars, shown, get, contexts, loading, seeds, seedLoad, offset, entitySeedDisabled,
                   dialog, closing, store, options, tracked, calls, sent, clock, answered, failed>>

DialogKind(d) == IF d.kind = "createSeed" THEN "SEED" ELSE KindOf[d.id]

OptionsArrive ==
    /\ opening # None /\ Serves
    /\ options' = NextOptions(DialogKind(opening))
    /\ Emit(shown, options')
    /\ dialog' = opening /\ opening' = None /\ closing' = TRUE
    /\ UNCHANGED <<sessionVars, get, seeds, seedLoad, offset, entitySeedDisabled,
                   store, tracked, calls, sent, clock, answered>> 
OptionsFail ==
    /\ opening # None /\ Fails
    /\ opening' = None
    /\ UNCHANGED <<sessionVars, shown, get, contexts, loading, seeds, seedLoad, offset, entitySeedDisabled,
                   dialog, closing, store, options, tracked, calls, sent, clock, answered>>

\* deleteConfig, openRunCrawlDialog, and the dialog of SeedDetails for a move.
OpenDialog(kind, target) ==
    /\ MayAsk(kind, target)
    /\ dialog' = Asked(kind, target)
    /\ UNCHANGED <<sessionVars, shown, get, contexts, loading, seeds, seedLoad, offset, entitySeedDisabled,
                   opening, closing, store, options, tracked, calls, sent, clock, answered, failed>>

Cancel ==
    /\ dialog # None /\ dialog' = None
    /\ UNCHANGED <<sessionVars, shown, get, contexts, loading, seeds, seedLoad, offset, entitySeedDisabled,
                   opening, closing, store, options, tracked, calls, sent, clock, answered, failed>>

Send(kind, asked, content) ==
    /\ MayOperate /\ sent' = sent + 1
    /\ calls' = calls \cup {[no |-> sent + 1, kind |-> kind, id |-> asked.id, context |-> asked.context,
                             back |-> asked.back, content |-> content, heard |-> asked.heard,
                             state |-> "sent", result |-> None]}

CallOfMutant(kind) ==
    CASE kind = "edit" -> "update" [] kind = "clone" -> "save" [] OTHER -> kind

CallOf(kind) ==
    CASE kind = "edit" -> "update" [] kind \in {"clone", "createSeed"} -> "save" [] OTHER -> kind

Confirm ==
    /\ dialog # None /\ dialog' = None
    /\ \E content \in IF dialog.kind \in {"createSeed", "delete", "run"}
                      THEN {[refs |-> {dialog.id}, disabled |-> "no"]} ELSE Choices[dialog.id] :
          Send(CallOf(dialog.kind), dialog, content)
    /\ UNCHANGED <<sessionVars, shown, get, contexts, loading, seeds, seedLoad, offset, entitySeedDisabled,
                   opening, closing, store, options, tracked, clock, answered, failed>>

\* The form of the page is saved.
OnUpdate ==
    /\ app = "running" /\ shown # None /\ dialog = None
    /\ Can(ability, "update", KindOf[shown.id])
    /\ \E content \in Choices[shown.id] : Send("update", Asked("edit", <<shown.id, "current">>), content)
    /\ UNCHANGED <<sessionVars, detailVars, store, options, tracked, clock, answered, failed>>

-----------------------------------------------------------------------------
\* The server executes an operation.

Written(c) == [version |-> clock + 1, refs |-> c.content.refs, disabled |-> c.content.disabled]

Executed(c, id) ==
    calls' = (calls \ {c}) \cup
             {[c EXCEPT !.state = "executed", !.result = [id |-> id, object |-> Written(c)]]}

Write(c, id) ==
    /\ store' = [store EXCEPT ![id] = Written(c)]
    /\ clock' = clock + 1
    /\ Executed(c, id)

Referrers(id) == {r \in Ids : Exists(r) /\ id \in store[r].refs}

Execute(c) ==
    /\ c.state = "sent" /\ Serves
    /\ \/ c.kind = "update" /\ Write(c, c.id)
       \/ c.kind = "move" /\ Exists(c.id) /\ Write(c, c.id)
       \/ /\ c.kind = "save"
          /\ \E id \in Ids : ~Exists(id) /\ KindOf[id] = (IF c.context = "related" /\ KindOf[c.id] = "CRAWLENTITY"
                                                           THEN "SEED" ELSE KindOf[c.id])
                             /\ Write(c, id)
       \/ /\ c.kind = "delete" /\ Exists(c.id) /\ Referrers(c.id) = {}
          /\ store' = [store EXCEPT ![c.id] = None]
          /\ clock' = clock + 1
          /\ Executed(c, c.id)
       \/ c.kind = "run" /\ UNCHANGED <<store, clock>> /\ Executed(c, c.id)
    /\ UNCHANGED <<sessionVars, detailVars, options, tracked, sent, answered>>

ExecuteFails(c) ==
    /\ c.state = "sent" /\ Fails
    /\ calls' = (calls \ {c}) \cup {[c EXCEPT !.state = "executed"]}
    /\ UNCHANGED <<sessionVars, detailVars, store, options, tracked, sent, clock, answered>>

-----------------------------------------------------------------------------
\* The answers.

AnswerUnheard(c) ==
    /\ \/ c.heard = "no"
       \/ c.kind \in {"delete", "run"} /\ c.result = None
       \/ c.heard = "late" /\ c.kind = "delete" /\ c.context = "related"
       \/ c.heard = "yes" /\ c.kind = "move" /\ c.result = None
    /\ calls' = calls \ {c}
    /\ UNCHANGED <<sessionVars, detailVars, store, options, tracked, sent, clock, answered, failed>>

\* onUpdateConfig: the page shows the answer, whatever page it has come to be; null after an error.
AnswerUpdate(c) ==
    /\ c.kind = "update" /\ c.context = "current" /\ c.heard = "yes"
    /\ Emit(c.result, options)
    /\ calls' = calls \ {c}
    /\ UNCHANGED <<sessionVars, get, seeds, seedLoad, offset, entitySeedDisabled,
                   opening, dialog, closing, store, options, tracked, sent, clock, answered, failed>>

\* The router goes to a page by itself.
Redirect(target, cs) ==
    /\ Navigate(target)
    /\ UNCHANGED <<user, roles, ability, page, moves>>
    /\ FollowPage(IF closing THEN None ELSE dialog, cs)

\* onSaveConfig of a clone: the page shows the answer and goes to the new object.  After an error
\* there is no object to go to.
AnswerSave(c) ==
    /\ c.kind = "save" /\ c.context = "current" /\ c.heard = "yes"
    /\ IF c.result # None /\ Verdict(page, PageOf(c.result.id), ability) = "login"
       THEN Redirect(PageOf(c.result.id), calls \ {c})
       ELSE /\ Emit(c.result, options)
            /\ IF c.result = None THEN UNCHANGED <<app, requested, moving, dialog>>
               ELSE Navigate(PageOf(c.result.id)) /\ dialog' = IF closing THEN None ELSE dialog
            /\ calls' = calls \ {c}
            /\ UNCHANGED <<user, roles, ability, page, moves, get, seeds, seedLoad, offset, entitySeedDisabled,
                   opening, closing, options, tracked>>
    /\ UNCHANGED <<store, sent, clock, answered, failed>>

ReloadsMutant(c) == c.kind \in {"save", "delete"} \/ (c.kind = "move" /\ c.result # None)

\* onUpdateRelatedConfig, onSaveRelatedConfig, onDeleteRelatedConfig and onMoveSeed load the page again.
Reloads(c) ==
    \/ c.kind \in {"update", "save"}
    \/ c.kind \in {"delete", "move"} /\ c.result # None

AnswerRelated(c) ==
    /\ c.context = "related" \/ c.kind = "move"
    /\ c.kind # "run" /\ c.heard = "yes"
    /\ c.kind \in {"delete", "move"} => c.result # None
    /\ IF Reloads(c) THEN Load(page) ELSE UNCHANGED <<get, seeds, seedLoad, offset, entitySeedDisabled>>
    /\ answered' = IF c.result = None THEN answered
                   ELSE [answered EXCEPT ![c.result.id] = IF @ > c.result.object.version THEN @
                                                          ELSE c.result.object.version]
    /\ calls' = calls \ {c}
    /\ UNCHANGED <<sessionVars, shown, contexts, loading, opening, dialog, closing,
                   store, options, tracked, sent, clock, failed>>

\* deleteConfig of the object itself: back to where the user came from, or to the list.
AnswerDelete(c) ==
    /\ c.kind = "delete" /\ c.context = "current" /\ c.heard # "no" /\ c.result # None
    /\ \E target \in IF c.back THEN Pages ELSE {ListOf(KindOf[c.id])} : Redirect(target, calls \ {c})
    /\ UNCHANGED <<store, sent, clock, answered, failed>>

AnswerRun(c) ==
    /\ c.kind = "run" /\ c.heard # "no" /\ c.result # None
    /\ Redirect(IF KindOf[c.id] = "SEED" THEN ListOf("crawlexecution")
                ELSE Page("report", "jobexecution", c.id),
                calls \ {c})
    /\ UNCHANGED <<store, sent, clock, answered, failed>>

Answer(c) ==
    /\ c.state = "executed"
    /\ AnswerUnheard(c) \/ AnswerUpdate(c) \/ AnswerSave(c) \/ AnswerRelated(c)
       \/ AnswerDelete(c) \/ AnswerRun(c)

-----------------------------------------------------------------------------
DetailInit ==
    /\ SessionInit
    /\ store = [id \in Ids |-> IF Initially[id] = None THEN None
                             ELSE [version |-> 0, refs |-> Initially[id], disabled |-> "no"]]
    /\ shown = None /\ get = None /\ opening = None /\ dialog = None /\ closing = FALSE
    /\ contexts = [p \in Panels |-> {}] /\ loading = [p \in Panels |-> None]
    /\ seeds = {} /\ seedLoad = FALSE /\ offset = 0 /\ entitySeedDisabled = "any"
    /\ options = [l \in Lists |-> {}]
    /\ tracked = "no" /\ calls = {} /\ sent = 0 /\ clock = 0
    /\ answered = [id \in Ids |-> 0] /\ failed = FALSE

DetailNext ==
    \/ OnSession
    \/ \E disabled \in {"any", "no", "yes"} : OnEntitySeedQueryChange(disabled)
    \/ ServeGet \/ GetArrives \/ ServeSeeds \/ ServeMoreSeeds \/ \E p \in Panels, id \in Ids : ServePanel(p, id)
    \/ \E target \in Offered :
          \/ \E kind \in {"edit", "clone", "createSeed"} : OnCreateConfigWithDialog(kind, target)
          \/ \E kind \in {"delete", "run", "move"} : OpenDialog(kind, target)
    \/ OptionsArrive \/ OptionsFail \/ Cancel \/ Confirm \/ OnUpdate
    \/ \E c \in calls : Execute(c) \/ ExecuteFails(c) \/ Answer(c)

DetailSpec == DetailInit /\ [][DetailNext]_allVars

-----------------------------------------------------------------------------
Settled == get = None /\ ~seedLoad /\ \A p \in Panels : loading[p] = None

\* ContextAgrees: once its load is complete, a panel is about the objects that the object shown refers
\* to now, with the options there are now, and the cards only about those that the user may read
\* (relatedConfigs$ and scriptAnnotationContexts$), whatever loads, answers and moves came between.
ContextAgrees ==
    IsLoggedIn(roles) =>
        \A p \in Panels : loading[p] = None =>
            {c.id : c \in contexts[p]} = Wanted(p, shown, options)

\* ContextIsCurrent: when all loads have ended, no card and no row is older than an operation of the
\* page that has been answered.  Unless a call failed, or a full page of rows has come (the others come
\* when the list is scrolled), an entity lists every seed that such an operation gave it and that has the
\* status of the filter (onUpdateRelatedConfig, onSaveRelatedConfig, deleteConfig, onMoveSeed).
ContextIsCurrent ==
    Settled =>
        /\ \A c \in contexts["related"] \cup contexts["annotations"] \cup seeds :
              c.object # None => c.object.version >= answered[c.id]
        /\ ~failed /\ IsLoggedIn(roles) /\ EntitySeedQuery(page) /\ offset < SeedPage =>
              \A s \in SeedsOf(page.id) :
                  s.object.version <= answered[s.id] => s.id \in {row.id : row \in seeds}

\* ShownIsOfAddress: when nothing is under way, the object shown is the one that the address names
\* (the page loads again when the selected route changes).
ShownIsOfAddress ==
    Settled /\ calls = {} /\ moving = None /\ app = "running" /\ Shows(page) /\ shown # None =>
        shown.id = page.id

=============================================================================
