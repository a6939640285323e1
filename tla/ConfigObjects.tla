---------------------------- MODULE ConfigObjects ----------------------------
(***************************************************************************)
(* dashboard: shared/models/config.  The configuration objects of Veidemann*)
(* as the dashboard knows them: for every kind the fields of its message,  *)
(* the conversions between the model and the message of the API, the copy  *)
(* that a clone starts from and the merged object of a bulk edit.          *)
(*                                                                         *)
(* A field has a type.  Texts and references (Blank is none), numbers and  *)
(* flags are themselves; a duration is a number of seconds or of           *)
(* milliseconds, a size a number of bytes, a validity date a number of     *)
(* hours (0 is none); a list of which the order is of no interest is a set,*)
(* chips are a sequence, and a script selector is the sequence of its parts*)
(* between colons.  Unset stands for undefined, null and NaN.              *)
(***************************************************************************)
EXTENDS Integers, Sequences, FiniteSets, SequencesExt, TLC

CONSTANT Unset

\* The texts, references, elements of lists and chips there are, and the script selectors: "pq" is
\* a name that has the URLs p and q, "invalid" an element that the checks of its list refuse.
Blank == "blank"   \* the empty text, and no reference
Texts == {Blank, "a", "b", "c", "p", "q", "pq", "x", "y", "z", "invalid", "roleMapping"}
Selectors == {<<"k", "v">>, <<"z", Blank>>, <<"k", "v", "w">>}

\* Unset is none of the values that a field may have.
ASSUME UnsetAssumption ==
    /\ Unset \notin Texts /\ Unset \notin BOOLEAN /\ Unset \notin Int
    /\ Unset \notin Seq(Texts)
    /\ \A texts \in SUBSET Texts, selectors \in SUBSET Selectors : texts # Unset /\ selectors # Unset

Kinds ==
    {"crawlEntity", "seed", "crawlJob", "crawlConfig", "crawlScheduleConfig", "browserConfig",
     "politenessConfig", "browserScript", "crawlHostGroupConfig", "roleMapping", "collection"}

\* mixed is what a merge makes of values that differ: the default of a new object, Unset, or for
\* lists the elements that are common; "dropped" fields are never merged.
Field(type, mixed) == [type |-> type, mixed |-> mixed]

MetaModel ==
    [name |-> Field("text", "dropped"), description |-> Field("text", "dropped"),
     label |-> Field("chips", "common"), annotation |-> Field("chips", "dropped")]

CrawlEntityModel == <<>>

SeedModel ==
    [entityRef |-> Field("ref", "dropped"), jobRef |-> Field("list", "common"),
     disabled |-> Field("flag", "unset")]

CrawlJobModel ==
    [scheduleRef |-> Field("ref", "default"), crawlConfigRef |-> Field("ref", "default"),
     scopeScriptRef |-> Field("ref", "default"), maxDurationS |-> Field("seconds", "default"),
     maxBytes |-> Field("bytes", "unset"), disabled |-> Field("flag", "unset")]

CrawlConfigModel ==
    [collectionRef |-> Field("ref", "unset"), browserConfigRef |-> Field("ref", "unset"),
     politenessRef |-> Field("ref", "unset"), createScreenshot |-> Field("flagOn", "unset"),
     minimumDnsTtlS |-> Field("number", "default"), priorityWeight |-> Field("number", "default")]

CrawlScheduleConfigModel ==
    [cronExpression |-> Field("text", "dropped"),
     validFrom |-> Field("from", "unset"), validTo |-> Field("to", "unset")]

\* The dashboard's model has neither headers nor scriptParameters: fromProto drops them.  Objects
\* have them here as they have them at the server.
BrowserConfigModel ==
    [userAgent |-> Field("text", "unset"), windowWidth |-> Field("number", "unset"),
     windowHeight |-> Field("number", "unset"), pageLoadTimeoutMs |-> Field("ms", "unset"),
     maxInactivityTimeMs |-> Field("ms", "unset"), scriptRef |-> Field("list", "common"),
     scriptSelector |-> Field("selectors", "common"),
     headers |-> Field("list", "dropped"), scriptParameters |-> Field("list", "dropped")]

PolitenessConfigModel ==
    [robotsPolicy |-> Field("number", "unset"), customRobots |-> Field("text", "unset"),
     minimumRobotsValidityDurationS |-> Field("seconds", "unset"),
     useHostname |-> Field("flag", "unset")]

BrowserScriptModel ==
    [script |-> Field("text", "default"), urlRegexp |-> Field("chips", "dropped"),
     browserScriptType |-> Field("number", "unset")]

CrawlHostGroupConfigModel ==
    [ipRange |-> Field("list", "reseeded"), minTimeBetweenPageLoadMs |-> Field("ms", "unset"),
     maxTimeBetweenPageLoadMs |-> Field("ms", "unset"), delayFactor |-> Field("number", "unset"),
     maxRetries |-> Field("number", "unset"), retryDelaySeconds |-> Field("seconds", "unset")]

RoleMappingModel ==
    [email |-> Field("text", "dropped"), group |-> Field("text", "dropped"),
     apiKey |-> Field("text", "dropped"), role |-> Field("list", "common")]

CollectionModel ==
    [collectionDedupPolicy |-> Field("number", "unset"),
     fileRotationPolicy |-> Field("number", "unset"), compress |-> Field("flag", "unset"),
     fileSize |-> Field("bytes", "unset"), subCollections |-> Field("list", "dropped")]

SpecModels ==
    [crawlEntity |-> CrawlEntityModel, seed |-> SeedModel, crawlJob |-> CrawlJobModel,
     crawlConfig |-> CrawlConfigModel, crawlScheduleConfig |-> CrawlScheduleConfigModel,
     browserConfig |-> BrowserConfigModel, politenessConfig |-> PolitenessConfigModel,
     browserScript |-> BrowserScriptModel, crawlHostGroupConfig |-> CrawlHostGroupConfigModel,
     roleMapping |-> RoleMappingModel, collection |-> CollectionModel]

\* The constructor of ConfigObject: every object has meta and the spec of its kind.
Models ==
    [kind \in Kinds |->
        [f \in DOMAIN MetaModel \cup DOMAIN SpecModels[kind] |->
            IF f \in DOMAIN MetaModel THEN MetaModel[f] ELSE SpecModels[kind][f]]]

Model(kind) == Models[kind]

Fields(kind) == DOMAIN Model(kind)
TypeOf(kind, f) == Model(kind)[f].type

\* The default values of the constructors, which are those of absent message fields.
Default(type) ==
    CASE type \in {"text", "ref"} -> Blank
      [] type = "flag" -> FALSE
      [] type = "flagOn" -> TRUE
      [] type \in {"list", "selectors"} -> {}
      [] type = "chips" -> <<>>
      [] OTHER -> 0

NewObject(kind) == [f \in Fields(kind) |-> Default(TypeOf(kind, f))]

\* A role mapping is for a group, for an email address or for who has an API key: its message has
\* the first of them that is there.
Identities == {"group", "email", "apiKey"}

Hidden(object, f) ==
    \/ f \in {"email", "apiKey"} /\ object["group"] # Blank
    \/ f = "apiKey" /\ object["email"] # Blank

\* A message has no unset fields: they become the default of their type.
ToProto(kind, object) ==
    [f \in Fields(kind) |->
        IF object[f] = Unset THEN Default(TypeOf(kind, f))
        ELSE IF kind = "roleMapping" /\ Hidden(object, f) THEN Blank
        ELSE object[f]]

\* A copy to create an object from.
Clone(object) == [object EXCEPT !.name = Blank]

-----------------------------------------------------------------------------
\* Merging the objects of a bulk edit.

\* The ranges of the first object that has some start the intersection over again.
ReseededRanges(a, b) == IF a = {} THEN b ELSE a \cap b

\* Some of the chips, in their order: those at some indices, those in a set and those not in it.
Nth(indices, n) == CHOOSE i \in indices : Cardinality({j \in indices : j < i}) = n - 1
Pick(chips, indices) == [n \in 1..Cardinality(indices) |-> chips[Nth(indices, n)]]

With(chips, set) == Pick(chips, {i \in DOMAIN chips : chips[i] \in set})
Without(chips, set) == Pick(chips, {i \in DOMAIN chips : chips[i] \notin set})

\* intersectLabel, intersectConfigRef, intersectString: what the lists have in common.
Common(type, a, b) == IF type = "chips" THEN With(a, ToSet(b)) ELSE a \cap b

MergeField(field, a, b) ==
    CASE field.mixed = "dropped" -> Default(field.type)
      [] field.mixed = "common" -> Common(field.type, a, b)
      [] field.mixed = "reseeded" -> ReseededRanges(a, b)
      [] field.mixed = "default" -> IF a = b THEN a ELSE Default(field.type)
      [] field.mixed = "unset" -> IF a = b THEN a ELSE Unset

\* mergeConfigs of one and of two objects.
MergeConfigs(kind, configs) ==
    IF Len(configs) = 1 THEN configs[1]
    ELSE [f \in Fields(kind) |-> MergeField(Model(kind)[f], configs[1][f], configs[2][f])]

-----------------------------------------------------------------------------
\* The server: what an update with a field mask makes of an object.  set has the fields whose path
\* is in the mask; add and remove have the lists whose path ends in + and -.
Union(type, a, b) ==
    IF type = "chips" THEN a \o Without(b, ToSet(a)) ELSE a \cup b

Difference(type, a, b) ==
    IF type = "chips" THEN Without(a, ToSet(b)) ELSE a \ b

ApplyMask(kind, object, template, set, add, remove) ==
    [f \in Fields(kind) |->
        CASE f \in set -> template[f]
          [] f \in add -> Union(TypeOf(kind, f), object[f], template[f])
          [] f \in remove -> Difference(TypeOf(kind, f), object[f], template[f])
          [] OTHER -> object[f]]

=============================================================================
