----------------------------- MODULE ConfigForms -----------------------------
(***************************************************************************)
(* dashboard: features/config/components.  The forms in which configuration*)
(* objects are edited: the details of one object on its page, the dialog   *)
(* that edits, clones or creates an object, and the dialog that updates    *)
(* several objects at once.  A form is written from an object, edited by   *)
(* the user, reverted, and read when the user saves; the page then writes  *)
(* the answer of the server to the form.  Details send the whole object, a *)
(* bulk update sends a template and the paths that are to be taken from it.*)
(*                                                                         *)
(* One kind of object is edited in a behaviour.  stored is the server's,   *)
(* loaded what the list page has read.                                     *)
(*                                                                         *)
(* Definitions named ...Mutant are faulty variants of the definition that  *)
(* follows them.                                                           *)
(***************************************************************************)
EXTENDS ConfigInputs

CONSTANTS FormKinds,      \* kinds that are edited
          AllKinds,       \* kinds of which everything in the database may be updated at once
          Samples,        \* the samples that the objects are at first
          MaxForms,       \* bound: forms opened
          MaxEdits,       \* bound: edits by the user
          MaxChanges,     \* bound: changes by others
          Closed

ASSUME FormAssumption ==
    /\ FormKinds \subseteq Kinds /\ AllKinds \subseteq Kinds
    /\ Samples \subseteq {<<i, j>> : i, j \in 1..3}
    /\ {MaxForms, MaxEdits, MaxChanges} \subseteq Nat

Objects == {1, 2}
Selections == {<<1>>, <<2>>, <<1, 2>>}   \* rows that may be selected

VARIABLES kind,      \* the kind of the page
          canEdit,   \* may the user update objects of that kind?
          stored, loaded, created,
          form,
          forms, edits, changes   \* how many there have been

vars == <<kind, canEdit, stored, loaded, created, form, forms, edits, changes>>

-----------------------------------------------------------------------------
\* The details of each kind: its controls, the ones that must be filled in, and the lists whose
\* items are checked.

MetaControls == {"name", "description", "label", "annotation"}

Controls(controls, required, checked) ==
    [controls |-> controls, required |-> required, checked |-> checked]

EntityDetails == Controls(MetaControls, {"name"}, {})

SeedDetails ==
    Controls(MetaControls \cup {"entityRef", "jobRef", "disabled"}, {"name", "entityRef"}, {})

CrawlJobDetails ==
    Controls(MetaControls \cup {"scheduleRef", "crawlConfigRef", "scopeScriptRef", "maxDurationS",
                                "maxBytes", "disabled"},
             {"name", "crawlConfigRef", "scopeScriptRef"}, {})

CrawlConfigDetails ==
    Controls(MetaControls \cup {"collectionRef", "browserConfigRef", "politenessRef",
                                "createScreenshot", "minimumDnsTtlS", "priorityWeight"},
             {"name"}, {})

ScheduleDetails ==
    Controls(MetaControls \cup {"cronExpression", "validFrom", "validTo"},
             {"name", "cronExpression"}, {})

BrowserConfigDetails ==
    Controls(MetaControls \cup {"userAgent", "windowWidth", "windowHeight", "pageLoadTimeoutMs",
                                "maxInactivityTimeMs", "scriptRef", "scriptSelector"},
             {"name"}, {})

PolitenessConfigDetails ==
    Controls(MetaControls \cup {"robotsPolicy", "minimumRobotsValidityDurationS", "customRobots",
                                "useHostname"},
             {"name"}, {})

BrowserScriptDetails ==
    Controls(MetaControls \cup {"script", "urlRegexp", "browserScriptType"}, {"name"}, {})

CrawlHostGroupConfigDetails ==
    Controls(MetaControls \cup {"ipRange", "minTimeBetweenPageLoadMs", "maxTimeBetweenPageLoadMs",
                                "delayFactor", "maxRetries", "retryDelaySeconds"},
             {"name"}, {"ipRange"})

RoleMappingDetails == Controls({"email", "group", "role"}, {"role"}, {})

CollectionDetails ==
    Controls(MetaControls \cup {"collectionDedupPolicy", "fileRotationPolicy", "compress",
                                "fileSize", "subCollections"},
             {"name"}, {"subCollections"})

DetailsOf ==
    [crawlEntity |-> EntityDetails, seed |-> SeedDetails, crawlJob |-> CrawlJobDetails,
     crawlConfig |-> CrawlConfigDetails, crawlScheduleConfig |-> ScheduleDetails,
     browserConfig |-> BrowserConfigDetails, politenessConfig |-> PolitenessConfigDetails,
     browserScript |-> BrowserScriptDetails, crawlHostGroupConfig |-> CrawlHostGroupConfigDetails,
     roleMapping |-> RoleMappingDetails, collection |-> CollectionDetails]

-----------------------------------------------------------------------------
\* The bulk dialog of each kind: its controls and when prepareMultiSave sends their values (Sends).

EntityMulti == [label |-> "labels"]

SeedMulti == [label |-> "labels", jobRef |-> "toggled", disabled |-> "selection"]

CrawlJobMulti ==
    [label |-> "labels", scheduleRef |-> "reference", crawlConfigRef |-> "reference",
     scopeScriptRef |-> "reference", maxDurationS |-> "changed", maxBytes |-> "changed",
     disabled |-> "selection"]

CrawlConfigMulti ==
    [label |-> "labels", collectionRef |-> "chosen", browserConfigRef |-> "chosen",
     politenessRef |-> "chosen", createScreenshot |-> "selection", minimumDnsTtlS |-> "typed",
     priorityWeight |-> "typed"]

ScheduleMulti == [label |-> "labels", validFrom |-> "validity", validTo |-> "validity"]

BrowserConfigMulti ==
    [label |-> "labels", userAgent |-> "changed", windowWidth |-> "typed", windowHeight |-> "typed",
     pageLoadTimeoutMs |-> "changed", maxInactivityTimeMs |-> "changed", scriptRef |-> "toggled",
     scriptSelector |-> "selectors"]

PolitenessConfigMulti ==
    [label |-> "labels", robotsPolicy |-> "enabled", customRobots |-> "changed",
     minimumRobotsValidityDurationS |-> "changed", useHostname |-> "selection"]

BrowserScriptMulti == [label |-> "labels"]

CrawlHostGroupConfigMulti ==
    [label |-> "labels", minTimeBetweenPageLoadMs |-> "changed",
     maxTimeBetweenPageLoadMs |-> "changed", delayFactor |-> "typed", maxRetries |-> "typed",
     retryDelaySeconds |-> "changed"]

RoleMappingMulti == [role |-> "typed"]

CollectionMulti ==
    [label |-> "labels", collectionDedupPolicy |-> "changed", fileRotationPolicy |-> "changed",
     fileSize |-> "changed", compress |-> "selection"]

\* sectionByKind
MultiOf ==
    [crawlEntity |-> EntityMulti, seed |-> SeedMulti, crawlJob |-> CrawlJobMulti,
     crawlConfig |-> CrawlConfigMulti, crawlScheduleConfig |-> ScheduleMulti,
     browserConfig |-> BrowserConfigMulti, politenessConfig |-> PolitenessConfigMulti,
     browserScript |-> BrowserScriptMulti, crawlHostGroupConfig |-> CrawlHostGroupConfigMulti,
     roleMapping |-> RoleMappingMulti, collection |-> CollectionMulti]

-----------------------------------------------------------------------------
\* Writing a form.

FormFields(mode) == IF mode = "multi" THEN DOMAIN MultiOf[kind] ELSE DetailsOf[kind].controls

\* What updateForm writes to a control.
Shown(mode, f, v) ==
    LET rule == IF mode = "multi" THEN MultiOf[kind][f] ELSE "details"
    IN  CASE rule = "selection" -> Unset
          [] rule \in {"toggled", "selectors"} -> {}
          [] rule = "chosen" /\ v = Unset -> Blank
          [] rule = "enabled" /\ v = Unset -> 0
          [] rule = "details" /\ kind = "collection" /\ f = "fileSize" /\ v = 0 -> 1073741824
          [] OTHER -> ShowValue(TypeOf(kind, f), v)

\* getIdentityType
Identity(config) == IF kind = "roleMapping" /\ config["group"] # Blank THEN "group" ELSE "email"

\* Controls that are disabled until the user activates them: their values differ.
InitiallyEnabled(mode, config) ==
    {f \in FormFields(mode) :
        mode = "multi" /\ MultiOf[kind][f] \in {"enabled", "validity"} => config[f] # Unset}

\* What the user may choose for a list in a bulk dialog; without a choice it is "none".
Operation == {"add", "remove"}

UpdateForm(fm, config) ==
    LET written(f) == Shown(fm.mode, f, config[f])
    IN  [fm EXCEPT
           !.config = config,
           !.values = [f \in FormFields(fm.mode) |->
                          IF fm.rendered THEN WriteBack(TypeOf(kind, f), written(f)) ELSE written(f)],
           !.dirty = {}, !.touched = {},
           !.operation = [f \in FormFields(fm.mode) |-> "none"],
           !.enabled = InitiallyEnabled(fm.mode, config),
           !.removing = FALSE,
           !.identity = Identity(config),
           !.rendered = TRUE]

\* A form that is created: its inputs answer only what is written to them later.
NewForm(mode, ids, all, config) ==
    UpdateForm([mode |-> mode, ids |-> ids, all |-> all, config |-> config, values |-> <<>>,
                dirty |-> {}, touched |-> {}, operation |-> <<>>, enabled |-> {},
                removing |-> FALSE, identity |-> "email", rendered |-> FALSE, clicked |-> Closed,
                checking |-> FALSE, answers |-> {}], config)

-----------------------------------------------------------------------------
\* Reading a form.

\* prepareSave: a new object with the values of the controls; a role mapping has one identity and a
\* name of its own.
Prepare(fm) ==
    [f \in Fields(kind) |->
        IF kind = "roleMapping" /\ f = "name" THEN "roleMapping"
        ELSE IF kind = "roleMapping" /\ f \in Identities \ {fm.identity} THEN Blank
        ELSE IF f \in DOMAIN fm.values THEN ReadValue(TypeOf(kind, f), fm.values[f])
        ELSE Default(TypeOf(kind, f))]

Filled(v) == v \notin {Blank, Unset}

\* form.valid of details
Valid(fm) ==
    /\ \A f \in DetailsOf[kind].required :
          IF TypeOf(kind, f) = "list" THEN fm.values[f] # {} ELSE Filled(fm.values[f])
    /\ \A f \in DetailsOf[kind].checked : "invalid" \notin fm.values[f]
    /\ kind = "roleMapping" => Filled(fm.values[fm.identity])

SendsMutant(fm, f) ==
    LET rule == MultiOf[kind][f]
        v == fm.values[f]
        differs == fm.all \/ v # fm.config[f]
    IN  \/ rule = "selection" /\ v # Unset
        \/ rule = "changed" /\ differs
        \/ rule = "typed" /\ f \in fm.dirty
        \/ rule = "validity" /\ (f \in fm.dirty \/ fm.removing)
        \/ rule = "reference" /\ v # Blank /\ f \in fm.dirty
        \/ rule = "chosen" /\ v # Blank /\ f \in fm.dirty /\ differs
        \/ rule = "enabled" /\ f \in fm.enabled /\ differs
        \/ rule = "labels" /\ fm.operation[f] # "none" /\ v # <<>>
        \/ rule = "selectors" /\ fm.operation[f] # "none" /\ v # {}
        \/ rule = "toggled" /\ fm.operation[f] # "none"

\* prepareMultiSave: is the path of the field in pathList?  Typed numbers, dates and lists are not
\* the values they are compared with, even when they look the same.
Sends(fm, f) ==
    LET rule == MultiOf[kind][f]
        v == fm.values[f]
        differs == fm.all \/ v # fm.config[f]
    IN  \/ rule = "selection" /\ v # Unset
        \/ rule = "changed" /\ f \in fm.dirty /\ differs
        \/ rule = "typed" /\ f \in fm.dirty
        \/ rule = "validity" /\ (f \in fm.dirty \/ fm.removing)
        \/ rule = "reference" /\ v # Blank /\ f \in fm.dirty
        \/ rule = "chosen" /\ v # Blank /\ f \in fm.dirty /\ differs
        \/ rule = "enabled" /\ f \in fm.enabled /\ differs
        \/ rule = "labels" /\ fm.operation[f] # "none" /\ v # <<>>
        \/ rule = "selectors" /\ fm.operation[f] # "none" /\ v # {}
        \/ rule = "toggled" /\ fm.operation[f] # "none"

SentMutant(fm, operation) ==
    {f \in FormFields("multi") :
        /\ Sends(fm, f)
        /\ fm.operation[f] = CASE operation = "add" -> "remove"
                               [] operation = "remove" -> "add"
                               [] OTHER -> operation}

\* A path ends in + or - when the list is added to or removed from.
Sent(fm, operation) ==
    {f \in FormFields("multi") : Sends(fm, f) /\ fm.operation[f] = operation}

NonEmpty(fm, f) == fm.values[f] # IF TypeOf(kind, f) = "chips" THEN <<>> ELSE {}

\* canUpdate of the bulk dialogs
CanUpdateMulti(fm) ==
    /\ kind = "roleMapping" => fm.values["role"] # {}
    /\ \/ fm.dirty # {}
       \/ \E f \in FormFields("multi") : fm.operation[f] # "none" /\ NonEmpty(fm, f)
       \/ \E f \in FormFields("multi") :
             /\ MultiOf[kind][f] = "enabled"
             /\ f \in fm.enabled /\ (fm.all \/ fm.config[f] = Unset)

-----------------------------------------------------------------------------
\* The objects there are at first.  The third sample has an API key if it is a role mapping, and
\* values that the inputs do not show exactly: a duration of more than an hour in milliseconds, a
\* size between two hundredths, a date within a day, and a selector of three parts.

Sample(type, i) ==
    CASE type \in {"text", "ref"} -> <<"a", "b", "b">>[i]
      [] type = "list" -> IF i = 1 THEN {"x"} ELSE {"x", "y"}
      [] type = "chips" -> IF i = 1 THEN <<"x">> ELSE <<"x", "y">>
      [] type = "selectors" -> {IF i = 3 THEN <<"k", "v", "w">> ELSE <<"k", "v">>}
      [] type \in {"flag", "flagOn"} -> i # 1
      [] type = "number" -> i
      [] type = "seconds" -> 90061 * i
      [] type = "ms" -> IF i = 3 THEN 3661001 ELSE 61001 * i
      [] type = "bytes" -> IF i = 3 THEN 1500 ELSE 1536 * i
      [] type = "from" -> IF i = 3 THEN 30 ELSE 24 * i
      [] type = "to" -> IF i = 3 THEN 54 ELSE 24 * i + 23

IdentityOf(i) == <<"email", "group", "apiKey">>[i]

SampleObject(i) ==
    [f \in Fields(kind) |->
        IF kind = "roleMapping" /\ f \in Identities \ {IdentityOf(i)} THEN Blank
        ELSE Sample(TypeOf(kind, f), i)]

Init ==
    /\ kind \in FormKinds
    /\ canEdit \in BOOLEAN
    /\ \E samples \in Samples : stored = [o \in Objects |-> SampleObject(samples[o])]
    /\ loaded = stored
    /\ created = {}
    /\ form = Closed
    /\ forms = 0 /\ edits = 0 /\ changes = 0

-----------------------------------------------------------------------------
\* Opening a form.

Open(fm) ==
    /\ form = Closed
    /\ forms < MaxForms
    /\ forms' = forms + 1
    /\ form' = fm
    /\ UNCHANGED <<kind, canEdit, stored, loaded, created, edits, changes>>

\* The page of an object.
OpenDetails(o) == Open(NewForm("details", {o}, FALSE, stored[o]))

\* onEdit
OpenDialog(o) == Open(NewForm("dialog", {o}, FALSE, loaded[o]))

\* onClone and the create button; a seed is created from the page of its entity.
OpenNew ==
    \/ Open(NewForm("dialog", {}, FALSE,
                    [f \in Fields(kind) |->
                        IF f = "entityRef" THEN "a" ELSE NewObject(kind)[f]]))
    \/ \E o \in Objects : Open(NewForm("dialog", {}, FALSE, Clone(loaded[o])))

\* onEditSelected: the form has what the selected rows have in common, also when everything in
\* the database is to be updated.
OpenMulti(rows, all) ==
    /\ all => kind \in AllKinds
    /\ Open(NewForm("multi", IF all THEN Objects ELSE ToSet(rows), all,
                    MergeConfigs(kind, [i \in DOMAIN rows |-> loaded[rows[i]]])))

Close ==
    /\ form # Closed
    /\ form' = Closed
    /\ UNCHANGED <<kind, canEdit, stored, loaded, created, forms, edits, changes>>

-----------------------------------------------------------------------------
\* Editing.

\* Only the form of a role mapping does not look at the user's rights.
Editable == canEdit \/ kind = "roleMapping"

\* A chip that is being edited in a dialog of its own.
Modal == form.clicked # Closed /\ form.clicked.field # "urlRegexp"

EditForm(fm) ==
    /\ form # Closed
    /\ Editable
    /\ edits < MaxEdits
    /\ edits' = edits + 1
    /\ form' = fm
    /\ UNCHANGED <<kind, canEdit, stored, loaded, created, forms, changes>>

Enabled(f) ==
    /\ f \in form.enabled
    /\ f \in {"email", "group"} => f = form.identity
    /\ form.mode = "multi" /\ MultiOf[kind][f] \in {"labels", "toggled", "selectors"}
          => form.operation[f] # "none"

Entries(f) ==
    LET type == TypeOf(kind, f)
    IN  CASE type = "text" -> {Blank, "c"} \cup IF kind = "seed" /\ f = "name" THEN {"pq"} ELSE {}
          [] type = "ref" -> {Blank, "c"}
          [] type \in {"flag", "flagOn"} -> BOOLEAN
          [] type = "number" -> {0, 5}
          [] type = "seconds" -> {0, 180122}
          [] type = "ms" -> {0, 183003}
          [] type = "bytes" -> {0, 2560}
          [] type \in {"from", "to"} -> {0, 5}
          [] OTHER -> {}

\* The URLs of a new seed are looked up.
NeedsCheck(f) == kind = "seed" /\ f = "name" /\ form.ids = {}

\* A choice, or a value that is typed.  A date that is entered takes back the removal of the dates,
\* not what was entered in them before.
Enter(f, v) ==
    /\ form # Closed /\ ~Modal
    /\ f \in FormFields(form.mode) \ {"entityRef"} /\ Enabled(f)
    /\ v # form.values[f]
    /\ EditForm([form EXCEPT !.values[f] = v,
                             !.dirty = @ \cup {f},
                             !.touched = (IF form.removing THEN @ \ ({"validFrom", "validTo"} \ form.dirty)
                                          ELSE @) \cup {f},
                             !.removing = FALSE,
                             !.checking = @ \/ NeedsCheck(f)])

\* BooleanOverrideComponent: the choice is taken back.
Deselect(f) ==
    /\ form # Closed /\ form.mode = "multi"
    /\ f \in FormFields("multi") /\ MultiOf[kind][f] = "selection"
    /\ form.values[f] # Unset
    /\ EditForm([form EXCEPT !.values[f] = Unset, !.dirty = @ \ {f}, !.touched = @ \ {f}])

Items(f) ==
    IF TypeOf(kind, f) = "selectors" THEN {<<"k", "v">>, <<"z", Blank>>}
    ELSE {"x", "z"} \cup IF f \in DetailsOf[kind].checked THEN {"invalid"} ELSE {}

\* Choosing an element of a list or dropping one.
ToggleItem(f, item) ==
    /\ form # Closed /\ ~Modal
    /\ f \in FormFields(form.mode) /\ Enabled(f)
    /\ TypeOf(kind, f) \in {"list", "selectors"}
    /\ EditForm([form EXCEPT !.values[f] = IF item \in @ THEN @ \ {item} ELSE @ \cup {item},
                             !.dirty = @ \cup {f}, !.touched = @ \cup {f}])

\* Adding and removing a chip.  In a bulk dialog the labels are not part of the form.
EditChips(f, chips) ==
    /\ chips # form.values[f]
    /\ EditForm([form EXCEPT !.values[f] = chips,
                             !.dirty = IF form.mode = "multi" THEN @ ELSE @ \cup {f},
                             !.touched = @ \cup {f}])

ToggleChip(f, chip) ==
    /\ form # Closed /\ ~Modal
    /\ f \in FormFields(form.mode) /\ Enabled(f)
    /\ TypeOf(kind, f) = "chips"
    /\ \/ EditChips(f, AddChip(form.values[f], chip))
       \/ EditChips(f, RemoveChip(form.values[f], chip))

\* onClickLabel, onClickAnnotation, onClickRegex: the index of the chip is remembered.
ClickChip(f, index) ==
    /\ form # Closed /\ ~Modal
    /\ form.mode # "multi"
    /\ f \in FormFields(form.mode) /\ TypeOf(kind, f) = "chips"
    /\ index \in DOMAIN form.values[f]
    /\ EditForm([form EXCEPT !.clicked = [field |-> f, index |-> index]])

\* onUpdateLabel, onUpdateAnnotation, onUpdateRegexp, or the dialog is closed.
ApplyChip(chip) ==
    /\ form # Closed /\ form.clicked # Closed
    /\ LET f == form.clicked.field
           chips == IF f = "annotation"
                    THEN ReplaceChip(form.values[f], form.clicked.index, chip)
                    ELSE MoveChip(form.values[f], form.clicked.index, chip)
       IN  form' = [form EXCEPT !.values[f] = chips, !.clicked = Closed,
                                !.dirty = @ \cup {f}, !.touched = @ \cup {f}]
    /\ UNCHANGED <<kind, canEdit, stored, loaded, created, forms, edits, changes>>

LeaveChip ==
    /\ form # Closed /\ form.clicked # Closed
    /\ form' = [form EXCEPT !.clicked = Closed]
    /\ UNCHANGED <<kind, canEdit, stored, loaded, created, forms, edits, changes>>

\* applyIdentityType
SwitchIdentity ==
    /\ form # Closed /\ form.mode # "multi" /\ kind = "roleMapping"
    /\ EditForm([form EXCEPT !.values[form.identity] = Blank,
                             !.identity = IF @ = "email" THEN "group" ELSE "email",
                             !.dirty = @ \cup {"identityType"},
                             !.touched = @ \cup {"email", "group"}])

\* Bulk dialogs: choosing whether the elements of a list are added or removed.  The choice can be
\* changed, only reverting takes it back; the elements chosen before are dropped.
ToggleOperation(f, operation) ==
    /\ form # Closed /\ form.mode = "multi"
    /\ f \in FormFields("multi") /\ MultiOf[kind][f] \in {"labels", "toggled", "selectors"}
    /\ form.operation[f] # operation
    /\ EditForm([form EXCEPT !.operation[f] = operation,
                             !.values[f] = Default(TypeOf(kind, f)),
                             !.touched = @ \ {f}])

\* onEnableRobotsPolicy and enableValidityRange: the control that is activated overrides.
Activate(rule) ==
    /\ form # Closed /\ form.mode = "multi"
    /\ LET fields == {f \in FormFields("multi") : MultiOf[kind][f] = rule}
       IN  /\ ~ fields \subseteq form.enabled
           /\ EditForm([form EXCEPT !.enabled = @ \cup fields,
                                    !.touched = IF rule = "enabled" THEN @ \cup fields ELSE @])

OnRemoveValidFromTo ==
    /\ form # Closed /\ form.mode = "multi" /\ kind = "crawlScheduleConfig"
    /\ EditForm([form EXCEPT !.enabled = @ \cup {"validFrom", "validTo"},
                             !.values = [@ EXCEPT !["validFrom"] = 0, !["validTo"] = 0],
                             !.dirty = @ \cup {"form"},
                             !.touched = @ \cup {"validFrom", "validTo"},
                             !.removing = TRUE])

\* onRemoveExistingUrls: the URLs that the validator has found are taken out of the new ones.
OnRemoveExistingUrls(left) ==
    /\ form # Closed /\ NeedsCheck("name") /\ ~form.checking
    /\ form.values["name"] = "pq"
    /\ EditForm([form EXCEPT !.values["name"] = left, !.dirty = @ \cup {"name"},
                             !.touched = @ \cup {"name"}, !.checking = TRUE])

\* The answer of the asynchronous validator.
UrlsChecked ==
    /\ form # Closed /\ form.checking
    /\ form' = [form EXCEPT !.checking = FALSE]
    /\ UNCHANGED <<kind, canEdit, stored, loaded, created, forms, edits, changes>>

-----------------------------------------------------------------------------
\* Reverting and saving.

\* canRevert: a bulk dialog has choices that are no part of its form.
CanRevert(fm) ==
    \/ fm.dirty # {}
    \/ /\ fm.mode = "multi"
       /\ \E f \in FormFields("multi") :
             \/ fm.operation[f] # "none"
             \/ MultiOf[kind][f] = "enabled" /\ f \in fm.enabled /\ fm.config[f] = Unset

\* onRevert
Revert ==
    /\ form # Closed /\ ~Modal
    /\ Editable
    /\ CanRevert(form)
    /\ form' = UpdateForm(form, form.config)
    /\ UNCHANGED <<kind, canEdit, stored, loaded, created, forms, edits, changes>>

Saving(mode) ==
    /\ form # Closed /\ ~Modal
    /\ form.mode = mode
    /\ Editable
    /\ UNCHANGED <<kind, canEdit, forms, edits, changes>>

PreparedMutant(fm) == {Prepare(fm)}

\* prepareSave, or prepareSaveMultiple when a seed has several URLs.
Prepared(fm) ==
    LET object == Prepare(fm)
    IN  IF kind = "seed" /\ object["name"] = "pq"
        THEN {[object EXCEPT !["name"] = url] : url \in {"p", "q"}}
        ELSE {object}

\* The dialog of a new object is closed by its save button.
Save ==
    /\ Saving("dialog")
    /\ form.ids = {} /\ Valid(form) /\ ~form.checking
    /\ created' = created \cup {ToProto(kind, object) : object \in Prepared(form)}
    /\ form' = Closed
    /\ UNCHANGED <<stored, loaded>>

\* The dialog of an object is closed by its update button; several seeds are always new ones.
UpdateFromDialog(o) ==
    /\ Saving("dialog")
    /\ form.ids = {o} /\ Valid(form) /\ form.dirty # {}
    /\ IF Cardinality(Prepared(form)) = 1
       THEN stored' = [stored EXCEPT ![o] = ToProto(kind, Prepare(form))] /\ UNCHANGED created
       ELSE /\ created' = created \cup {ToProto(kind, object) : object \in Prepared(form)}
            /\ UNCHANGED stored
    /\ form' = Closed
    /\ UNCHANGED loaded

\* onUpdate and onUpdateConfig: the page writes the server's answer to the details.
UpdateFromDetails(o) ==
    /\ Saving("details")
    /\ form.ids = {o} /\ Valid(form) /\ form.dirty # {}
    /\ LET object == ToProto(kind, Prepare(form))
       IN  /\ stored' = [stored EXCEPT ![o] = object]
           /\ form' = [form EXCEPT !.answers = @ \cup {object}]
    /\ UNCHANGED <<loaded, created>>

Answered ==
    /\ form # Closed
    /\ \E object \in form.answers :
          form' = [UpdateForm(form, object) EXCEPT !.answers = @ \ {object}]
    /\ UNCHANGED <<kind, canEdit, stored, loaded, created, forms, edits, changes>>

\* The page loads the object again.
Refresh ==
    /\ form # Closed /\ form.mode = "details"
    /\ \E o \in form.ids : form' = UpdateForm(form, stored[o])
    /\ UNCHANGED <<kind, canEdit, stored, loaded, created, forms, edits, changes>>

\* onMoveSeed and the move by the page.
MoveSeed(o) ==
    /\ Saving("details")
    /\ kind = "seed" /\ form.ids = {o} /\ form.dirty = {}
    /\ stored' = [stored EXCEPT ![o]["entityRef"] = "c"]
    /\ UNCHANGED <<loaded, created, form>>

\* onDialogClose of a bulk dialog and the update by the page.
Template(fm) ==
    ToProto(kind, [f \in Fields(kind) |->
        IF f \in FormFields("multi") THEN ReadValue(TypeOf(kind, f), fm.values[f])
        ELSE Default(TypeOf(kind, f))])

UpdateMulti ==
    /\ Saving("multi")
    /\ CanUpdateMulti(form)
    /\ stored' = [o \in Objects |->
          IF o \in form.ids
          THEN ApplyMask(kind, stored[o], Template(form), Sent(form, "none"), Sent(form, "add"),
                         Sent(form, "remove"))
          ELSE stored[o]]
    /\ form' = Closed
    /\ UNCHANGED <<loaded, created>>

-----------------------------------------------------------------------------
\* The list is loaded, and others change an object.

ListReload ==
    /\ form = Closed /\ loaded # stored
    /\ forms < MaxForms
    /\ loaded' = stored
    /\ UNCHANGED <<kind, canEdit, stored, created, form, forms, edits, changes>>

OthersChange ==
    /\ changes < MaxChanges
    /\ form # Closed \/ forms < MaxForms
    /\ changes' = changes + 1
    /\ stored' = [stored EXCEPT ![1] = SampleObject(2)]
    /\ UNCHANGED <<kind, canEdit, loaded, created, form, forms, edits>>

\* What the user does to the form.
EditStep ==
    /\ form # Closed /\ Editable /\ edits < MaxEdits
    /\ \/ \E f \in Fields(kind) : \E v \in Entries(f) : Enter(f, v)
       \/ \E f \in Fields(kind) : Deselect(f)
       \/ \E f \in Fields(kind) : \E item \in Items(f) : ToggleItem(f, item)
       \/ \E f \in Fields(kind), chip \in {"x", "z"} : ToggleChip(f, chip)
       \/ \E f \in Fields(kind), index \in {1, 2} : ClickChip(f, index)
       \/ SwitchIdentity
       \/ \E f \in Fields(kind), operation \in Operation : ToggleOperation(f, operation)
       \/ \E rule \in {"enabled", "validity"} : Activate(rule)
       \/ OnRemoveValidFromTo
       \/ \E left \in {Blank, "q"} : OnRemoveExistingUrls(left)

Next ==
    \/ \E o \in Objects : OpenDetails(o) \/ OpenDialog(o)
    \/ OpenNew
    \/ \E rows \in Selections, all \in BOOLEAN : OpenMulti(rows, all)
    \/ Close
    \/ EditStep
    \/ ApplyChip("z")
    \/ LeaveChip
    \/ UrlsChecked
    \/ Revert
    \/ Save
    \/ \E o \in Objects : UpdateFromDialog(o) \/ UpdateFromDetails(o) \/ MoveSeed(o)
    \/ Answered
    \/ Refresh
    \/ UpdateMulti
    \/ ListReload
    \/ OthersChange

Spec == Init /\ [][Next]_vars

-----------------------------------------------------------------------------
\* Properties.

HasType(type, v) ==
    CASE type \in {"text", "ref"} -> v \in Texts
      [] type \in {"flag", "flagOn"} -> v \in BOOLEAN
      [] type = "list" -> v \in SUBSET Texts
      [] type = "selectors" -> v \in SUBSET Selectors
      [] type = "chips" -> v \in Seq(Texts)
      [] type \in {"from", "to"} -> v \in Int
      [] OTHER -> v \in Nat

\* A stored object has a value of its type in every field, and a role mapping has one identity.
WellFormed(object) ==
    /\ \A f \in Fields(kind) : HasType(TypeOf(kind, f), object[f])
    /\ kind = "roleMapping" =>
          \E f \in Identities : \A g \in Identities : (object[g] # Blank) <=> (f = g)

\* An object that is created in a dialog is for whole days if it is a schedule (dateToUtc), and has
\* one URL if it is a seed (prepareSaveMultiple).
WellMade(object) ==
    /\ kind = "crawlScheduleConfig" =>
          /\ object["validFrom"] % 24 = 0
          /\ object["validTo"] = 0 \/ object["validTo"] % 24 = 23
    /\ kind = "seed" => object["name"] # "pq"

\* Every object is well formed, whatever the forms that have written it went through, and an open
\* form has a value for each of its controls.
FormTypeOK ==
    /\ kind \in FormKinds /\ canEdit \in BOOLEAN
    /\ \A o \in Objects : WellFormed(stored[o])
    /\ \A object \in created : WellFormed(object) /\ WellMade(object)
    /\ form # Closed =>
          /\ DOMAIN form.values = FormFields(form.mode)
          /\ DOMAIN form.operation = FormFields(form.mode)
          /\ form.enabled \subseteq FormFields(form.mode)
    /\ forms \in 0..MaxForms /\ edits \in 0..MaxEdits /\ changes \in 0..MaxChanges

\* The default size is offered for a collection that has none.
Offered(f) == kind = "collection" /\ f = "fileSize" /\ form.config[f] = 0

\* The values that an input shows exactly and reads back.  There is no unit for hours in a duration
\* in milliseconds; a size has two decimals; of a date the day is left, and of what is stored for
\* that day the day is another when the browser's clock is behind UTC (the first hour) or ahead of
\* it (the last one); a selector has two parts.
Exact(type, v) ==
    CASE type = "ms" -> v < 60 * 60 * 1000
      [] type = "bytes" -> v = 0 \/ (100 * (v % Unit(v))) % Unit(v) = 0
      [] type = "from" -> v = 0 \/ (v >= 24 /\ v % 24 = 0 /\ UtcOffset >= 0)
      [] type = "to" -> v = 0 \/ (v >= 24 /\ v % 24 = 23 /\ UtcOffset <= 0)
      [] type = "selectors" -> \A s \in v : Len(s) = 2
      [] OTHER -> TRUE

\* What a form keeps of what it was written from.
Keeps(f, v) == Offered(f) \/ (Exact(TypeOf(kind, f), form.config[f]) => v = form.config[f])

\* A form without changes - just opened, reverted, or written from the answer of the server - would
\* save what it was written from, in every control that shows its value exactly.
PristineFormShowsConfig ==
    (form # Closed /\ form.mode # "multi" /\ form.dirty = {}) =>
        \A f \in DetailsOf[kind].controls : Keeps(f, ToProto(kind, Prepare(form))[f])

\* The fields that are lost when an object is saved on its own: BrowserConfig.fromProto drops them,
\* and prepareSave of a role mapping does not take them over.
Erased(k) ==
    CASE k = "browserConfig" -> {"headers", "scriptParameters"}
      [] k = "roleMapping" -> {"apiKey", "name", "description", "label", "annotation"}
      [] OTHER -> {}

SavingKeepsUntouched ==
    /\ \A o \in Objects :
          UpdateFromDetails(o) \/ (UpdateFromDialog(o) /\ Cardinality(Prepared(form)) = 1)
             => \A f \in Fields(kind) \ (form.touched \cup Erased(kind)) : Keeps(f, stored'[o][f])
    /\ Save => \A object \in created' \ created :
          \A f \in Fields(kind) \ (form.touched \cup Erased(kind) \cup {"name"}) : Keeps(f, object[f])
    /\ UpdateMulti => \A o \in Objects : \A f \in Fields(kind) \ form.touched :
                          stored'[o][f] = stored[o][f]

\* Saving changes only what the user has changed.  An object that is edited on its own, cloned or
\* created keeps what the form was written from in all other fields that the dashboard does not
\* erase and that are shown exactly; a bulk update, of the selection or of everything, leaves all
\* other fields of every object, without exception, as they are at the server, whatever others have
\* made of them in the meantime.
UntouchedFieldsAreKept == [][SavingKeepsUntouched]_vars

\* The stored value that the user means by what is entered in a control.
Meant(f) ==
    CASE TypeOf(kind, f) = "to" /\ form.values[f] # 0 -> 24 * form.values[f] + 23
      [] TypeOf(kind, f) = "from" -> 24 * form.values[f]
      [] OTHER -> form.values[f]

\* A bulk update leaves out blank references and what the merged object has already.
LeftOut(f) ==
    \/ MultiOf[kind][f] \in {"reference", "chosen"} /\ form.values[f] = Blank
    \/ ~form.all /\ form.values[f] = form.config[f]

\* The elements of a list of any type.
Elements(type, v) == IF type = "chips" THEN ToSet(v) ELSE v

SavingSetsTouched ==
    /\ \A o \in Objects :
          UpdateFromDetails(o) \/ (UpdateFromDialog(o) /\ Cardinality(Prepared(form)) = 1)
             => \A f \in form.touched : stored'[o][f] = Meant(f)
    /\ UpdateMulti => \A o \in form.ids : \A f \in form.touched :
          LET chosen == Elements(TypeOf(kind, f), form.values[f])
              has == Elements(TypeOf(kind, f), stored'[o][f])
          IN  CASE form.operation[f] = "add" -> chosen \subseteq has
                [] form.operation[f] = "remove" -> chosen \cap has = {}
                [] OTHER -> LeftOut(f) \/ stored'[o][f] = Meant(f)

\* Saving changes everything that the user has changed, in every object of the form: values are
\* stored, added elements are there and removed elements are gone.
TouchedFieldsAreSet == [][SavingSetsTouched]_vars

=============================================================================
