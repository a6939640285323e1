------------------------- MODULE ConfigFormsProofs -------------------------
(***************************************************************************)
(* What holds of the forms of the dashboard for all kinds of objects, any  *)
(* number of forms, edits and changes by others.  First the tables of kinds*)
(* and fields, the chips, and the inputs: which values an input shows      *)
(* exactly, and that what is read from an input can be stored.  Then       *)
(* objects, merged objects and masks.  Then the invariant: what each       *)
(* control of the form of one object and of a bulk dialog remembers of the *)
(* object and of the user's edits, and that every action keeps it.  In the *)
(* end the properties of ConfigForms follow from it.                       *)
(***************************************************************************)
EXTENDS ConfigForms, FiniteSetTheorems, SequenceTheorems, TLAPS

(***************************************************************************)
(* The tables of kinds and fields                                          *)
(***************************************************************************)

\* The types of fields.
Types == {"text", "ref", "list", "chips", "selectors", "flag", "flagOn", "number", "seconds", "ms", "bytes",
          "from", "to"}

\* Lists are never unset.
ListTypes == {"list", "chips", "selectors"}

\* The rules of the lists of a bulk dialog: their elements are added or removed.
Operated == {"labels", "toggled", "selectors"}

\* What a field of an object and a control of a bulk dialog are like, whatever the kind.
FieldFacts(k, f) ==
    /\ TypeOf(k, f) \in Types
    /\ Model(k)[f] = [type |-> TypeOf(k, f), mixed |-> Model(k)[f].mixed]
    /\ TypeOf(k, f) \in ListTypes => Model(k)[f].mixed \in {"dropped", "common", "reseeded"}
    /\ TypeOf(k, f) \notin ListTypes => Model(k)[f].mixed \in {"dropped", "default", "unset"}
    /\ Model(k)[f].mixed = "reseeded" => TypeOf(k, f) = "list"
    /\ f \in Identities => k = "roleMapping" /\ TypeOf(k, f) = "text"
    /\ f \in DetailsOf[k].controls <=> f \notin Erased(k)
    /\ f \in {"name", "description"} => TypeOf(k, f) = "text"
    /\ f \in {"label", "annotation"} => TypeOf(k, f) = "chips"
    /\ f = "entityRef" => TypeOf(k, f) = "ref"
    /\ f = "fileSize" => TypeOf(k, f) = "bytes"
    /\ TypeOf(k, f) \in {"from", "to"} => k = "crawlScheduleConfig"

\* What the kind itself is like.
KindFacts(k) ==
    /\ MetaControls \subseteq Fields(k)
    /\ DetailsOf[k].controls \subseteq Fields(k)
    /\ DetailsOf[k].required \subseteq DetailsOf[k].controls
    /\ k = "roleMapping" => /\ Identities \subseteq Fields(k) /\ {"email", "group"} \subseteq DetailsOf[k].controls
                            /\ DOMAIN MultiOf[k] = {"role"}
    /\ k = "seed" => "entityRef" \in Fields(k)
    /\ k = "crawlScheduleConfig" => /\ {"validFrom", "validTo"} \subseteq DOMAIN MultiOf[k] \cap DetailsOf[k].controls
                                    /\ TypeOf(k, "validFrom") = "from" /\ TypeOf(k, "validTo") = "to"

\* What the rule of a control says of its type.
ControlFacts(k, f) ==
    /\ f \in Fields(k)
    /\ MultiOf[k][f] \in {"labels", "toggled", "selectors", "selection", "changed", "typed", "validity", "reference",
                          "chosen", "enabled"}
    /\ MultiOf[k][f] = "labels" <=> TypeOf(k, f) = "chips"
    /\ MultiOf[k][f] = "selectors" <=> TypeOf(k, f) = "selectors"
    /\ MultiOf[k][f] = "toggled" => TypeOf(k, f) = "list"
    /\ MultiOf[k][f] = "selection" => TypeOf(k, f) \in {"flag", "flagOn"}
    /\ MultiOf[k][f] \in {"reference", "chosen"} => TypeOf(k, f) = "ref"
    /\ MultiOf[k][f] = "enabled" => TypeOf(k, f) = "number" /\ k = "politenessConfig"
    /\ MultiOf[k][f] = "validity" <=> f \in {"validFrom", "validTo"}
    /\ TypeOf(k, f) \in {"from", "to"} <=> MultiOf[k][f] = "validity"
    /\ f \notin MetaControls \ {"label"} /\ f \notin Identities /\ f # "form"

\* What holds of the tables: one kind after the other.
TableFacts(k) ==
    /\ \A f \in Fields(k) : FieldFacts(k, f)
    /\ \A f \in DOMAIN MultiOf[k] : ControlFacts(k, f)
    /\ KindFacts(k)

\* The facts hold of every kind.
LEMMA Tables == \A k \in Kinds : TableFacts(k)
<1>1. TableFacts("crawlEntity")
  BY SMTT(60)
  DEF TableFacts, KindFacts, FieldFacts, ControlFacts, Types, ListTypes, DetailsOf, Controls, MetaControls,
      TypeOf, Fields, Model, Models, SpecModels, Kinds, MetaModel, Field, MultiOf, Identities, Erased,
      EntityMulti, CrawlEntityModel, EntityDetails
<1>2. TableFacts("seed")
  BY SMTT(60)
  DEF TableFacts, KindFacts, FieldFacts, ControlFacts, Types, ListTypes, DetailsOf, Controls, MetaControls,
      TypeOf, Fields, Model, Models, SpecModels, Kinds, MetaModel, Field, MultiOf, Identities, Erased,
      SeedMulti, SeedModel, SeedDetails
<1>3. TableFacts("crawlJob")
  BY SMTT(60)
  DEF TableFacts, KindFacts, FieldFacts, ControlFacts, Types, ListTypes, DetailsOf, Controls, MetaControls,
      TypeOf, Fields, Model, Models, SpecModels, Kinds, MetaModel, Field, MultiOf, Identities, Erased,
      CrawlJobMulti, CrawlJobModel, CrawlJobDetails
<1>4. TableFacts("crawlConfig")
  BY SMTT(60)
  DEF TableFacts, KindFacts, FieldFacts, ControlFacts, Types, ListTypes, DetailsOf, Controls, MetaControls,
      TypeOf, Fields, Model, Models, SpecModels, Kinds, MetaModel, Field, MultiOf, Identities, Erased,
      CrawlConfigMulti, CrawlConfigModel, CrawlConfigDetails
<1>5. TableFacts("crawlScheduleConfig")
  BY SMTT(60)
  DEF TableFacts, KindFacts, FieldFacts, ControlFacts, Types, ListTypes, DetailsOf, Controls, MetaControls,
      TypeOf, Fields, Model, Models, SpecModels, Kinds, MetaModel, Field, MultiOf, Identities, Erased,
      ScheduleMulti, CrawlScheduleConfigModel, ScheduleDetails
<1>6. TableFacts("browserConfig")
  BY SMTT(60)
  DEF TableFacts, KindFacts, FieldFacts, ControlFacts, Types, ListTypes, DetailsOf, Controls, MetaControls,
      TypeOf, Fields, Model, Models, SpecModels, Kinds, MetaModel, Field, MultiOf, Identities, Erased,
      BrowserConfigMulti, BrowserConfigModel, BrowserConfigDetails
<1>7. TableFacts("politenessConfig")
  BY SMTT(60)
  DEF TableFacts, KindFacts, FieldFacts, ControlFacts, Types, ListTypes, DetailsOf, Controls, MetaControls,
      TypeOf, Fields, Model, Models, SpecModels, Kinds, MetaModel, Field, MultiOf, Identities, Erased,
      PolitenessConfigMulti, PolitenessConfigModel, PolitenessConfigDetails
<1>8. TableFacts("browserScript")
  BY SMTT(60)
  DEF TableFacts, KindFacts, FieldFacts, ControlFacts, Types, ListTypes, DetailsOf, Controls, MetaControls,
      TypeOf, Fields, Model, Models, SpecModels, Kinds, MetaModel, Field, MultiOf, Identities, Erased,
      BrowserScriptMulti, BrowserScriptModel, BrowserScriptDetails
<1>9. TableFacts("crawlHostGroupConfig")
  BY SMTT(60)
  DEF TableFacts, KindFacts, FieldFacts, ControlFacts, Types, ListTypes, DetailsOf, Controls, MetaControls,
      TypeOf, Fields, Model, Models, SpecModels, Kinds, MetaModel, Field, MultiOf, Identities, Erased,
      CrawlHostGroupConfigMulti, CrawlHostGroupConfigModel, CrawlHostGroupConfigDetails
<1>10. TableFacts("roleMapping")
  BY SMTT(60)
  DEF TableFacts, KindFacts, FieldFacts, ControlFacts, Types, ListTypes, DetailsOf, Controls, MetaControls,
      TypeOf, Fields, Model, Models, SpecModels, Kinds, MetaModel, Field, MultiOf, Identities, Erased,
      RoleMappingMulti, RoleMappingModel, RoleMappingDetails
<1>11. TableFacts("collection")
  BY SMTT(60)
  DEF TableFacts, KindFacts, FieldFacts, ControlFacts, Types, ListTypes, DetailsOf, Controls, MetaControls,
      TypeOf, Fields, Model, Models, SpecModels, Kinds, MetaModel, Field, MultiOf, Identities, Erased,
      CollectionMulti, CollectionModel, CollectionDetails
<1>12. QED
  BY <1>1, <1>2, <1>3, <1>4, <1>5, <1>6, <1>7, <1>8, <1>9, <1>10, <1>11 DEF Kinds

\* They hold of every field.
LEMMA FieldTable == \A k \in Kinds : \A f \in Fields(k) : FieldFacts(k, f)
BY Tables DEF TableFacts

\* They hold of every control of a bulk dialog.
LEMMA ControlTable == \A k \in Kinds : \A f \in DOMAIN MultiOf[k] : ControlFacts(k, f)
BY Tables DEF TableFacts

(***************************************************************************)
(* Chips                                                                   *)
(***************************************************************************)

\* A function on an initial segment of the numbers is a sequence.
LEMMA FunctionIsSeq ==
    ASSUME NEW S, NEW n \in Nat, NEW f \in [1..n -> S] PROVE f \in Seq(S) /\ Len(f) = n
OBVIOUS

\* The rank of an element among a finite set of numbers.
Rank(I, i) == Cardinality({j \in I : j < i})

\* The ranks of n numbers are 0 to n - 1, each of them once.
LEMMA RankFacts ==
    ASSUME NEW I \in SUBSET Nat, IsFiniteSet(I)
    PROVE  /\ Cardinality(I) \in Nat
           /\ \A i \in I : Rank(I, i) \in 0..(Cardinality(I) - 1)
           /\ \A i, j \in I : i < j => Rank(I, i) < Rank(I, j)
<1>1. Cardinality(I) \in Nat
  BY FS_CardinalityType
<1>2. ASSUME NEW i \in I, NEW T \in SUBSET I, i \notin T, \A j \in T : j < i
      PROVE  IsFiniteSet(T) /\ Cardinality(T) \in Nat /\ Cardinality(T) < Cardinality(I)
  <2>1. IsFiniteSet(T) /\ Cardinality(T) <= Cardinality(I) /\ (Cardinality(I) = Cardinality(T) => I = T)
    BY FS_Subset
  <2>2. Cardinality(T) \in Nat
    BY <2>1, FS_CardinalityType
  <2>3. I # T
    BY <1>2
  <2>4. QED
    BY <1>1, <2>1, <2>2, <2>3
<1>3. \A i \in I : Rank(I, i) \in 0..(Cardinality(I) - 1)
  <2> TAKE i \in I
  <2>1. {j \in I : j < i} \in SUBSET I /\ i \notin {j \in I : j < i}
    OBVIOUS
  <2>2. QED
    BY <1>1, <1>2, <2>1 DEF Rank
<1>4. ASSUME NEW i \in I, NEW j \in I, i < j PROVE Rank(I, i) < Rank(I, j)
  <2> DEFINE S == {k \in I : k < i}
             T == {k \in I : k < j}
  <2>1. S \in SUBSET T /\ S # T /\ T \in SUBSET I
    <3>1. i \in T /\ i \notin S
      BY <1>4
    <3>2. \A k \in S : k \in T
      BY <1>4
    <3>3. QED
      BY <3>1, <3>2
  <2> HIDE DEF S, T
  <2>2. IsFiniteSet(T)
    BY <2>1, FS_Subset
  <2>3. IsFiniteSet(S) /\ Cardinality(S) <= Cardinality(T) /\ (Cardinality(T) = Cardinality(S) => T = S)
    BY <2>1, <2>2, FS_Subset
  <2>4. Cardinality(S) \in Nat /\ Cardinality(T) \in Nat
    BY <2>2, <2>3, FS_CardinalityType
  <2>5. Cardinality(S) < Cardinality(T)
    BY <2>1, <2>3, <2>4
  <2>6. QED
    BY <2>5 DEF Rank, S, T
<1>5. QED
  BY <1>1, <1>3, <1>4

\* Nth is the inverse of Rank.
LEMMA NthFacts ==
    ASSUME NEW I \in SUBSET Nat, IsFiniteSet(I)
    PROVE  /\ Cardinality(I) \in Nat
           /\ \A k \in 1..Cardinality(I) : Nth(I, k) \in I /\ Rank(I, Nth(I, k)) = k - 1
           /\ \A i \in I : Rank(I, i) + 1 \in 1..Cardinality(I) /\ Nth(I, Rank(I, i) + 1) = i
<1> DEFINE n == Cardinality(I)
           R == 0..(n - 1)
           f == [i \in I |-> Rank(I, i)]
<1>1. n \in Nat
  BY RankFacts
<1>2. f \in [I -> R]
  BY RankFacts
<1>3. \A i, j \in I : f[i] = f[j] => i = j
  <2> TAKE i \in I, j \in I
  <2>1. Rank(I, i) \in Int /\ Rank(I, j) \in Int /\ i \in Int /\ j \in Int
    BY <1>1, RankFacts
  <2>2. (i < j => Rank(I, i) < Rank(I, j)) /\ (j < i => Rank(I, j) < Rank(I, i))
    BY RankFacts
  <2>3. QED
    BY <2>1, <2>2
<1>4. f \in Injection(I, R)
  BY <1>2, <1>3 DEF Injection, IsInjective
<1>5. IsFiniteSet(R) /\ Cardinality(R) = n
  <2>1. 0 \in Int /\ n - 1 \in Int
    BY <1>1
  <2>2. IsFiniteSet(R) /\ Cardinality(R) = IF 0 > n - 1 THEN 0 ELSE n - 1 - 0 + 1
    BY <2>1, FS_Interval
  <2>3. QED
    BY <1>1, <2>2
<1>6. f \in Surjection(I, R)
  <2> HIDE DEF f, R
  <2>1. QED
    BY <1>4, <1>5, FS_Injection
<1>7. ASSUME NEW k \in 1..n PROVE Nth(I, k) \in I /\ Rank(I, Nth(I, k)) = k - 1
  <2>1. k - 1 \in R
    BY <1>1
  <2>2. \E i \in I : f[i] = k - 1
    BY <1>6, <2>1 DEF Surjection
  <2>3. \E i \in I : Cardinality({j \in I : j < i}) = k - 1
    BY <2>2 DEF Rank
  <2>4. QED
    BY <2>3 DEF Nth, Rank
<1>8. ASSUME NEW i \in I PROVE Rank(I, i) + 1 \in 1..n /\ Nth(I, Rank(I, i) + 1) = i
  <2>1. Rank(I, i) \in 0..(n - 1)
    BY RankFacts
  <2>2. Rank(I, i) + 1 \in 1..n /\ (Rank(I, i) + 1) - 1 = Rank(I, i)
    BY <1>1, <2>1
  <2>3. Nth(I, Rank(I, i) + 1) \in I /\ Rank(I, Nth(I, Rank(I, i) + 1)) = Rank(I, i)
    BY <1>7, <2>2
  <2>4. QED
    BY <1>3, <2>2, <2>3
<1>9. QED
  BY <1>1, <1>7, <1>8

\* What Pick returns: a sequence of the elements at the indices.
LEMMA PickFacts ==
    ASSUME NEW S, NEW s \in Seq(S), NEW I \in SUBSET DOMAIN s
    PROVE  /\ IsFiniteSet(I)
           /\ Pick(s, I) \in Seq(S)
           /\ Len(Pick(s, I)) = Cardinality(I)
           /\ DOMAIN Pick(s, I) = 1..Cardinality(I)
           /\ \A k \in DOMAIN Pick(s, I) : Nth(I, k) \in I /\ Pick(s, I)[k] = s[Nth(I, k)]
           /\ \A i \in I : \E k \in DOMAIN Pick(s, I) : Pick(s, I)[k] = s[i]
<1>1. Len(s) \in Nat /\ DOMAIN s = 1..Len(s) /\ \A i \in DOMAIN s : s[i] \in S
  BY LenProperties
<1>2. I \in SUBSET Nat /\ IsFiniteSet(I)
  <2>1. IsFiniteSet(1..Len(s))
    BY <1>1, FS_Interval
  <2>2. I \in SUBSET (1..Len(s))
    BY <1>1
  <2>3. QED
    BY <2>1, <2>2, <1>1, FS_Subset
<1> DEFINE n == Cardinality(I)
<1>3. n \in Nat
  BY <1>2, NthFacts
<1>4. \A k \in 1..n : Nth(I, k) \in I
  BY <1>2, NthFacts
<1>5. Pick(s, I) \in [1..n -> S]
  BY <1>1, <1>4 DEF Pick
<1>6. DOMAIN Pick(s, I) = 1..n /\ \A k \in 1..n : Pick(s, I)[k] = s[Nth(I, k)]
  BY DEF Pick
<1>7. Pick(s, I) \in Seq(S) /\ Len(Pick(s, I)) = n
  BY <1>3, <1>5
<1>8. ASSUME NEW i \in I PROVE \E k \in DOMAIN Pick(s, I) : Pick(s, I)[k] = s[i]
  <2>1. Rank(I, i) + 1 \in 1..n /\ Nth(I, Rank(I, i) + 1) = i
    BY <1>2, NthFacts
  <2>2. QED
    BY <1>6, <2>1
<1>9. QED
  BY <1>2, <1>4, <1>6, <1>7, <1>8

\* The chips at some indices, as a set.
LEMMA PickSet ==
    ASSUME NEW S, NEW s \in Seq(S), NEW I \in SUBSET DOMAIN s
    PROVE  ToSet(Pick(s, I)) = {s[i] : i \in I}
<1> DEFINE p == Pick(s, I)
<1>1. \A k \in DOMAIN p : \E i \in I : p[k] = s[i]
  BY PickFacts
<1>2. \A i \in I : \E k \in DOMAIN p : p[k] = s[i]
  BY PickFacts
<1> HIDE DEF p
<1>3. ToSet(p) = {s[i] : i \in I}
  BY <1>1, <1>2 DEF ToSet
<1>4. QED
  BY <1>3 DEF p

\* The chips that are in a set, and those that are not.
LEMMA WithFacts ==
    ASSUME NEW S, NEW s \in Seq(S), NEW T
    PROVE  With(s, T) \in Seq(S) /\ ToSet(With(s, T)) = ToSet(s) \cap T
<1> DEFINE I == {i \in DOMAIN s : s[i] \in T}
<1>1. I \in SUBSET DOMAIN s
  OBVIOUS
<1>2. {s[i] : i \in I} = ToSet(s) \cap T
  BY DEF ToSet
<1> HIDE DEF I
<1>3. Pick(s, I) \in Seq(S) /\ ToSet(Pick(s, I)) = {s[i] : i \in I}
  BY <1>1, PickFacts, PickSet
<1>4. QED
  BY <1>2, <1>3 DEF With, I

\* What Without leaves are the chips that are not in the set.
LEMMA WithoutFacts ==
    ASSUME NEW S, NEW s \in Seq(S), NEW T
    PROVE  Without(s, T) \in Seq(S) /\ ToSet(Without(s, T)) = ToSet(s) \ T
<1> DEFINE I == {i \in DOMAIN s : s[i] \notin T}
<1>1. I \in SUBSET DOMAIN s
  OBVIOUS
<1>2. {s[i] : i \in I} = ToSet(s) \ T
  BY DEF ToSet
<1> HIDE DEF I
<1>3. Pick(s, I) \in Seq(S) /\ ToSet(Pick(s, I)) = {s[i] : i \in I}
  BY <1>1, PickFacts, PickSet
<1>4. QED
  BY <1>2, <1>3 DEF Without, I

\* The chips of two lists.
LEMMA ConcatSet ==
    ASSUME NEW S, NEW s \in Seq(S), NEW t \in Seq(S)
    PROVE  s \o t \in Seq(S) /\ ToSet(s \o t) = ToSet(s) \cup ToSet(t)
<1> DEFINE u == s \o t
<1>1. u \in Seq(S) /\ Len(u) = Len(s) + Len(t)
  OBVIOUS
<1>2. Len(s) \in Nat /\ Len(t) \in Nat /\ DOMAIN s = 1..Len(s) /\ DOMAIN t = 1..Len(t) /\ DOMAIN u = 1..Len(u)
  BY <1>1, LenProperties
<1>3. \A i \in DOMAIN u : IF i <= Len(s) THEN i \in DOMAIN s /\ u[i] = s[i]
                          ELSE i - Len(s) \in DOMAIN t /\ u[i] = t[i - Len(s)]
  BY <1>1, <1>2
<1>4. \A i \in DOMAIN s : i \in DOMAIN u /\ u[i] = s[i]
  BY <1>1, <1>2
<1>5. \A i \in DOMAIN t : i + Len(s) \in DOMAIN u /\ u[i + Len(s)] = t[i]
  BY <1>1, <1>2
<1> HIDE DEF u
<1>6. ToSet(u) = ToSet(s) \cup ToSet(t)
  <2>1. ASSUME NEW x \in ToSet(u) PROVE x \in ToSet(s) \cup ToSet(t)
    BY <1>3, <2>1 DEF ToSet
  <2>2. ASSUME NEW x \in ToSet(s) PROVE x \in ToSet(u)
    BY <1>4, <2>2 DEF ToSet
  <2>3. ASSUME NEW x \in ToSet(t) PROVE x \in ToSet(u)
    BY <1>5, <2>3 DEF ToSet
  <2>4. QED
    BY <2>1, <2>2, <2>3
<1>7. QED
  BY <1>1, <1>6 DEF u

\* Editing chips leaves chips.
LEMMA RemoveAtType ==
    ASSUME NEW S, NEW s \in Seq(S), NEW i \in 1..Len(s)
    PROVE  RemoveAt(s, i) \in Seq(S)
BY DEF RemoveAt

\* Editing chips makes chips.
LEMMA ChipsType ==
    ASSUME NEW S, NEW s \in Seq(S), NEW chip \in S, NEW i \in Nat
    PROVE  /\ AddChip(s, chip) \in Seq(S)
           /\ RemoveChip(s, chip) \in Seq(S)
           /\ MoveChip(s, i, chip) \in Seq(S)
           /\ ReplaceChip(s, i, chip) \in Seq(S)
<1>1. AddChip(s, chip) \in Seq(S)
  BY DEF AddChip
<1>2. RemoveChip(s, chip) \in Seq(S)
  <2> DEFINE I == {j \in DOMAIN s : s[j] = chip}
  <2>1. Len(s) \in Nat /\ DOMAIN s = 1..Len(s)
    BY LenProperties
  <2>2. I \in SUBSET Nat /\ IsFiniteSet(I)
    <3>1. IsFiniteSet(1..Len(s))
      BY <2>1, FS_Interval
    <3>2. QED
      BY <2>1, <3>1, FS_Subset
  <2>3. CASE I # {}
    <3> HIDE DEF I
    <3>1. Cardinality(I) \in Nat /\ Cardinality(I) # 0
      BY <2>2, <2>3, FS_EmptySet, FS_CardinalityType
    <3>2. Nth(I, 1) \in I
      BY <2>2, <3>1, NthFacts
    <3>3. Nth(I, 1) \in 1..Len(s)
      BY <2>1, <3>2 DEF I
    <3>4. RemoveChip(s, chip) = RemoveAt(s, Nth(I, 1))
      BY <2>3 DEF RemoveChip, I
    <3>5. QED
      BY <3>3, <3>4, RemoveAtType
  <2>4. CASE I = {}
    BY <2>4 DEF RemoveChip
  <2>5. QED
    BY <2>3, <2>4
<1>3. MoveChip(s, i, chip) \in Seq(S)
  BY RemoveAtType, LenProperties DEF MoveChip
<1>4. ReplaceChip(s, i, chip) \in Seq(S)
  <2>1. CASE i \in DOMAIN s
    BY <2>1, LenProperties DEF ReplaceChip, ReplaceAt
  <2>2. CASE i \notin DOMAIN s
    BY <2>2 DEF ReplaceChip
  <2>3. QED
    BY <2>1, <2>2
<1>5. QED
  BY <1>1, <1>2, <1>3, <1>4

(***************************************************************************)
(* Inputs                                                                  *)
(***************************************************************************)

\* A duration of any number of seconds is what the days, hours, minutes and seconds of its input add up to.
THEOREM SecondsAreKept == \A s \in Nat : DurationToSeconds(SecondsToDuration(s)) = s
BY SMT DEF DurationToSeconds, SecondsToDuration

\* A duration in milliseconds is, if it is shorter than an hour.
THEOREM MillisecondsAreKept == \A ms \in Nat : ms < 60 * 60 * 1000 => DurationToMs(MsToDuration(ms)) = ms
BY SMT DEF DurationToMs, MsToDuration

\* The units of sizes.
AllSizes ==
    {1, 1024, 1048576, 1073741824, 1073741824 * 1024, 1073741824 * 1048576, 1073741824 * 1073741824}

\* Every unit is one of them.
LEMMA SizesAreUnits == \A i \in 0..6 : Sizes(i) \in AllSizes
BY SMT DEF Sizes, AllSizes

\* A size has a unit that it is not below.
LEMMA UnitFacts ==
    ASSUME NEW b \in Nat \ {0}
    PROVE  Unit(b) \in AllSizes /\ Unit(b) <= b
<1> DEFINE IsUnit(i) == b \div Sizes(i) > 0 /\ (i = 6 \/ b \div Sizes(i) < 1024)
<1>1. \E i \in 0..6 : IsUnit(i)
  <2>1. CASE b < 1024
    BY <2>1, SMT DEF Sizes
  <2>2. CASE 1024 <= b /\ b < 1048576
    BY <2>2, SMT DEF Sizes
  <2>3. CASE 1048576 <= b /\ b < 1073741824
    BY <2>3, SMT DEF Sizes
  <2>4. CASE 1073741824 <= b /\ b < 1073741824 * 1024
    BY <2>4, SMT DEF Sizes
  <2>5. CASE 1073741824 * 1024 <= b /\ b < 1073741824 * 1048576
    BY <2>5, SMT DEF Sizes
  <2>6. CASE 1073741824 * 1048576 <= b /\ b < 1073741824 * 1073741824
    BY <2>6, SMT DEF Sizes
  <2>7. CASE 1073741824 * 1073741824 <= b
    BY <2>7, SMT DEF Sizes
  <2>8. QED
    BY <2>1, <2>2, <2>3, <2>4, <2>5, <2>6, <2>7, SMT
<1> DEFINE i == CHOOSE i \in 0..6 : IsUnit(i)
<1>2. i \in 0..6 /\ IsUnit(i)
  BY <1>1, Zenon
<1>3. Unit(b) = Sizes(i) /\ Sizes(i) \in AllSizes
  BY <1>2, SizesAreUnits DEF Unit
<1> HIDE DEF i
<1>4. \A k \in AllSizes : b \div k > 0 => k <= b
  BY SMT DEF AllSizes
<1>5. QED
  BY <1>2, <1>3, <1>4

\* What an input makes of a size is a size.
LEMMA ShownSizes ==
    ASSUME NEW k \in AllSizes, NEW b \in Nat
    PROVE  FileSizeToBytes([unit |-> k, amount |-> 100 * (b \div k) + (100 * (b % k) + k \div 2) \div k]) \in Nat
<1>1. 100 * (b \div k) + (100 * (b % k) + k \div 2) \div k \in Nat
  BY SMT DEF AllSizes
<1>2. \A a \in Nat : (a \div 100) * k + ((a % 100) * k + 50) \div 100 \in Nat
  BY SMT DEF AllSizes
<1>3. QED
  BY <1>1, <1>2 DEF FileSizeToBytes

\* Rounding to hundredths of a unit keeps what is a whole number of them.
LEMMA HundredthsAreKept ==
    ASSUME NEW k \in AllSizes, NEW b \in Nat, (100 * (b % k)) % k = 0
    PROVE  FileSizeToBytes([unit |-> k, amount |-> 100 * (b \div k) + (100 * (b % k) + k \div 2) \div k]) = b
<1> DEFINE q == b \div k
           r == b % k
           m == (100 * r) \div k
<1>1. q \in Nat /\ r \in 0..(k - 1) /\ b = q * k + r
  BY SMT DEF AllSizes
<1>2. 100 * r = m * k /\ m \in 0..99
  BY <1>1, SMT DEF AllSizes
<1>3. (100 * r + k \div 2) \div k = m
  BY <1>1, <1>2, SMT DEF AllSizes
<1>4. ((100 * q + m) \div 100) = q /\ (100 * q + m) % 100 = m
  BY <1>1, <1>2, SMT DEF AllSizes
<1>5. (m * k + 50) \div 100 = r
  BY <1>1, <1>2, SMT DEF AllSizes
<1>6. QED
  BY <1>1, <1>3, <1>4, <1>5, SMT DEF AllSizes, FileSizeToBytes

\* A size of any magnitude is what its amount and unit make, if it is a whole number of hundredths of its unit
\* (bytesToHumanReadable; sizes of messages end below 8 EB).
THEOREM SizesAreKept ==
    \A b \in Nat \ {0} : Exact("bytes", b) => FileSizeToBytes(BytesToHumanReadable(b)) = b
<1> SUFFICES ASSUME NEW b \in Nat \ {0}, Exact("bytes", b)
             PROVE  FileSizeToBytes(BytesToHumanReadable(b)) = b
  OBVIOUS
<1> DEFINE k == Unit(b)
<1>1. k \in AllSizes
  BY UnitFacts
<1>2. BytesToHumanReadable(b) = [unit |-> k, amount |-> 100 * (b \div k) + (100 * (b % k) + k \div 2) \div k]
  BY DEF BytesToHumanReadable
<1>3. (100 * (b % k)) % k = 0
  BY DEF Exact
<1> HIDE DEF k
<1>4. QED
  BY <1>1, <1>2, <1>3, HundredthsAreKept, Zenon

\* A browser whose clock is not behind UTC shows the first hour of a day as that day, and one that is not ahead of UTC
\* the last hour.
THEOREM DatesAreKept ==
    \A d \in Nat \ {0} :
        /\ UtcOffset >= 0 => DateToUtc(AdjustTime(24 * d), TRUE) = 24 * d
        /\ UtcOffset <= 0 => DateToUtc(AdjustTime(24 * d + 23), FALSE) = 24 * d + 23
BY UtcOffsetAssumption DEF DateToUtc, AdjustTime

(***************************************************************************)
(* Values                                                                  *)
(***************************************************************************)

\* Selectors of two parts.
Pairs == {<<"k", "v">>, <<"z", Blank>>}

\* A value that may be stored.
PlainValue(type, v) ==
    /\ type \in {"text", "ref"} => v \in Texts
    /\ type \in {"flag", "flagOn"} => v \in BOOLEAN
    /\ type = "list" => v \in SUBSET Texts
    /\ type = "selectors" => v \in SUBSET Selectors
    /\ type = "chips" => v \in Seq(Texts)
    /\ type \in {"number", "seconds", "ms", "bytes"} => v \in Nat
    /\ type \in {"from", "to"} => v \in Int

\* A value that an input may have, besides Unset.
InputValue(type, v) ==
    /\ PlainValue(type, v)
    /\ type = "selectors" => v \in SUBSET Pairs

\* What is read from the inputs of a schedule is a first or a last hour.
WholeDay(type, v) ==
    /\ type = "from" => v % 24 = 0
    /\ type = "to" => v = 0 \/ v % 24 = 23

\* Unset is no value.
LEMMA NotUnset == ASSUME NEW type \in Types, NEW v, PlainValue(type, v) PROVE v # Unset
<1>1. /\ Unset \notin Texts /\ Unset \notin BOOLEAN /\ Unset \notin Int
      /\ Unset \notin SUBSET Texts /\ Unset \notin SUBSET Selectors /\ Unset \notin Seq(Texts)
  BY UnsetAssumption
<1>2. CASE type \in {"text", "ref"}
  BY <1>1, <1>2 DEF PlainValue
<1>3. CASE type \in {"flag", "flagOn"}
  BY <1>1, <1>3 DEF PlainValue
<1>4. CASE type = "list"
  BY <1>1, <1>4 DEF PlainValue
<1>5. CASE type = "chips"
  BY <1>1, <1>5 DEF PlainValue
<1>6. CASE type = "selectors"
  BY <1>1, <1>6 DEF PlainValue
<1>7. CASE type \in {"number", "seconds", "from", "to", "ms", "bytes"}
  BY <1>1, <1>7 DEF PlainValue
<1>8. QED
  BY <1>2, <1>3, <1>4, <1>5, <1>6, <1>7 DEF Types

\* A value that may be stored has its type.
LEMMA PlainHasType == ASSUME NEW type \in Types, NEW v, PlainValue(type, v) PROVE HasType(type, v)
BY DEF PlainValue, HasType, Types

\* The empty text is a text.
LEMMA BlankIsText == Blank \in Texts
BY DEF Texts

\* The default of a type may be stored and shown.
LEMMA DefaultIsPlain ==
    ASSUME NEW type \in Types
    PROVE  PlainValue(type, Default(type)) /\ InputValue(type, Default(type))
<1>1. CASE type \in {"text", "ref"}
  BY <1>1, BlankIsText DEF PlainValue, InputValue, Default
<1>2. CASE type = "flag"
  BY <1>2 DEF PlainValue, InputValue, Default
<1>3. CASE type = "flagOn"
  BY <1>3 DEF PlainValue, InputValue, Default
<1>4. CASE type \in {"list", "selectors"}
  BY <1>4 DEF PlainValue, InputValue, Default
<1>5. CASE type = "chips"
  <2>1. Default(type) = <<>>
    BY <1>5 DEF Default
  <2>2. <<>> \in Seq(Texts)
    OBVIOUS
  <2>3. QED
    BY <1>5, <2>1, <2>2 DEF PlainValue, InputValue
<1>6. CASE type \in {"number", "seconds", "from", "to", "ms", "bytes"}
  <2>1. Default(type) = 0
    BY <1>6 DEF Default
  <2>2. QED
    BY <1>6, <2>1, SMT DEF PlainValue, InputValue
<1>7. QED
  BY <1>1, <1>2, <1>3, <1>4, <1>5, <1>6 DEF Types

\* Nothing of a selector of two parts is dropped, and of a longer one two parts are left.
LEMMA SelectorsAreSplit ==
    \A s \in Selectors : SplitSelector(s) \in Pairs /\ (Len(s) = 2 => SplitSelector(s) = s)
<1> DEFINE parts == {"k", "v", "w", "z", Blank}
<1>1. ASSUME NEW s \in Seq(parts), Len(s) = 2 PROVE SplitSelector(s) = s
  BY <1>1 DEF SplitSelector
<1>2. SplitSelector(<<"k", "v">>) = <<"k", "v">>
  <2>1. <<"k", "v">> \in Seq(parts) /\ Len(<<"k", "v">>) = 2
    OBVIOUS
  <2>2. QED
    BY <1>1, <2>1
<1>3. SplitSelector(<<"z", Blank>>) = <<"z", Blank>>
  <2>1. <<"z", Blank>> \in Seq(parts) /\ Len(<<"z", Blank>>) = 2
    OBVIOUS
  <2>2. QED
    BY <1>1, <2>1
<1>4. SplitSelector(<<"k", "v", "w">>) = <<"k", "v">> /\ Len(<<"k", "v", "w">>) # 2
  <2>1. ASSUME NEW s \in Seq(parts), NEW t \in Seq(parts), Len(s) = 3, Len(t) = 2, s[1] = t[1], s[2] = t[2]
        PROVE  SplitSelector(s) = t
    <3>1. SplitSelector(s) = SubSeq(s, 1, 2)
      BY <2>1 DEF SplitSelector
    <3>2. /\ SubSeq(s, 1, 2) \in Seq(parts) /\ Len(SubSeq(s, 1, 2)) = 2
          /\ SubSeq(s, 1, 2)[1] = s[1] /\ SubSeq(s, 1, 2)[2] = s[2]
      BY <2>1, SubSeqProperties
    <3>3. \A i \in 1..Len(t) : SubSeq(s, 1, 2)[i] = t[i]
      BY <2>1, <3>2
    <3>4. QED
      BY <2>1, <3>1, <3>2, <3>3, SeqEqual
  <2> DEFINE long == <<"k", "v", "w">>
             short == <<"k", "v">>
  <2>2. /\ long \in Seq(parts) /\ Len(long) = 3 /\ long[1] = "k" /\ long[2] = "v"
        /\ short \in Seq(parts) /\ Len(short) = 2 /\ short[1] = "k" /\ short[2] = "v"
    OBVIOUS
  <2> HIDE DEF long, short, parts
  <2>3. SplitSelector(long) = short /\ Len(long) # 2
    BY <2>1, <2>2
  <2>4. QED
    BY <2>3 DEF long, short
<1> HIDE DEF SplitSelector
<1>5. QED
  BY <1>2, <1>3, <1>4, Zenon DEF Pairs, Selectors

\* Writing a value that an input may have to it changes the value only if it is not shown exactly.
LEMMA WriteBackInput ==
    ASSUME NEW type \in Types, NEW v, InputValue(type, v)
    PROVE  /\ InputValue(type, WriteBack(type, v))
           /\ type \notin {"ms", "bytes"} \/ Exact(type, v) => WriteBack(type, v) = v
<1>1. v # Unset
  BY NotUnset DEF InputValue, PlainValue
<1>2. CASE type \in {"seconds", "ms", "bytes"} /\ v = 0
  BY <1>2 DEF WriteBack
<1>3. CASE type = "seconds" /\ v # 0
  <2>1. v \in Nat
    BY <1>3 DEF InputValue, PlainValue
  <2>2. WriteBack(type, v) = DurationToSeconds(SecondsToDuration(v))
    BY <1>1, <1>3 DEF WriteBack
  <2>3. QED
    BY <2>1, <2>2, SecondsAreKept
<1>4. CASE type = "ms" /\ v # 0
  <2>1. v \in Nat
    BY <1>4 DEF InputValue, PlainValue
  <2>2. WriteBack(type, v) = DurationToMs(MsToDuration(v))
    BY <1>1, <1>4 DEF WriteBack
  <2>3. DurationToMs(MsToDuration(v)) \in Nat
    BY <2>1, SMT DEF DurationToMs, MsToDuration
  <2>4. Exact(type, v) => v < 60 * 60 * 1000
    BY <1>4 DEF Exact
  <2>5. Exact(type, v) => WriteBack(type, v) = v
    BY <2>1, <2>2, <2>4, MillisecondsAreKept
  <2>6. QED
    BY <1>4, <2>2, <2>3, <2>5 DEF InputValue, PlainValue
<1>5. CASE type = "bytes" /\ v # 0
  <2>1. v \in Nat \ {0}
    BY <1>5 DEF InputValue, PlainValue
  <2>2. WriteBack(type, v) = FileSizeToBytes(BytesToHumanReadable(v))
    BY <1>1, <1>5 DEF WriteBack
  <2>3. Exact(type, v) => WriteBack(type, v) = v
    BY <1>5, <2>1, <2>2, SizesAreKept
  <2>4. FileSizeToBytes(BytesToHumanReadable(v)) \in Nat
    <3> DEFINE k == Unit(v)
    <3>1. k \in AllSizes
      BY <2>1, UnitFacts
    <3>2. BytesToHumanReadable(v)
              = [unit |-> k, amount |-> 100 * (v \div k) + (100 * (v % k) + k \div 2) \div k]
      BY DEF BytesToHumanReadable
    <3> HIDE DEF k
    <3>3. QED
      BY <2>1, <3>1, <3>2, ShownSizes, Zenon
  <2>5. QED
    BY <1>5, <2>2, <2>3, <2>4 DEF InputValue, PlainValue
<1>6. CASE type \notin {"seconds", "ms", "bytes"}
  BY <1>6 DEF WriteBack
<1>7. QED
  BY <1>2, <1>3, <1>4, <1>5, <1>6

\* What an input shows of a value that is stored, when it is created and when it has been rendered; a value that is
\* shown exactly is read back.
LEMMA PlainIsShown ==
    ASSUME NEW type \in Types, NEW v, PlainValue(type, v),
           NEW s \in {ShowValue(type, v), WriteBack(type, ShowValue(type, v))}
    PROVE  /\ InputValue(type, s)
           /\ Exact(type, v) => ReadValue(type, s) = v
           /\ type \in {"text", "ref"} => s = v
<1>1. v # Unset
  BY NotUnset
<1>2. CASE type \notin {"from", "to", "selectors"}
  <2>1. ShowValue(type, v) = v /\ ReadValue(type, s) = s
    BY <1>1, <1>2 DEF ShowValue, ReadValue
  <2>2. InputValue(type, v)
    BY <1>2 DEF InputValue, PlainValue
  <2>3. /\ InputValue(type, WriteBack(type, v))
        /\ type \notin {"ms", "bytes"} \/ Exact(type, v) => WriteBack(type, v) = v
    BY <2>2, WriteBackInput
  <2>4. s = v \/ s = WriteBack(type, v)
    BY <2>1
  <2>5. QED
    BY <2>1, <2>2, <2>3, <2>4
<1>3. CASE type \in {"from", "to"}
  <2>1. v \in Int /\ ShowValue(type, v) = AdjustTime(v)
    BY <1>1, <1>3 DEF PlainValue, ShowValue
  <2>2. AdjustTime(v) \in Int
    BY <2>1, UtcOffsetAssumption DEF AdjustTime
  <2>3. s = AdjustTime(v)
    BY <1>3, <2>1 DEF WriteBack
  <2>4. ReadValue(type, s) = DateToUtc(AdjustTime(v), type = "from")
    BY <1>3, <2>2, <2>3, UnsetAssumption DEF ReadValue
  <2>5. CASE type = "from"
    <3>1. Exact(type, v) => v = 0 \/ (v >= 24 /\ v % 24 = 0 /\ UtcOffset >= 0)
      BY <2>5 DEF Exact
    <3>2. Exact(type, v) => DateToUtc(AdjustTime(v), TRUE) = v
      BY <2>1, <3>1, UtcOffsetAssumption DEF AdjustTime, DateToUtc
    <3>3. QED
      BY <2>2, <2>3, <2>4, <2>5, <3>2 DEF InputValue, PlainValue
  <2>6. CASE type = "to"
    <3>1. Exact(type, v) => v = 0 \/ (v >= 24 /\ v % 24 = 23 /\ UtcOffset <= 0)
      BY <2>6 DEF Exact
    <3>2. Exact(type, v) => DateToUtc(AdjustTime(v), FALSE) = v
      BY <2>1, <3>1, UtcOffsetAssumption DEF AdjustTime, DateToUtc
    <3>3. QED
      BY <2>2, <2>3, <2>4, <2>6, <3>2 DEF InputValue, PlainValue
  <2>7. QED
    BY <1>3, <2>5, <2>6
<1>4. CASE type = "selectors"
  <2>1. v \in SUBSET Selectors
    BY <1>4 DEF PlainValue
  <2>2. ShowValue(type, v) = {SplitSelector(x) : x \in v}
    BY <1>1, <1>4 DEF ShowValue
  <2>3. {SplitSelector(x) : x \in v} \in SUBSET Pairs
    BY <2>1, SelectorsAreSplit
  <2>4. Pairs \in SUBSET Selectors
    BY DEF Pairs, Selectors
  <2>5. Exact(type, v) => \A x \in v : Len(x) = 2
    BY <1>4 DEF Exact
  <2>6. Exact(type, v) => {SplitSelector(x) : x \in v} = v
    BY <2>1, <2>5, SelectorsAreSplit
  <2>7. s = {SplitSelector(x) : x \in v} /\ ReadValue(type, s) = s
    BY <1>4, <2>2 DEF WriteBack, ReadValue
  <2>8. QED
    BY <1>4, <2>3, <2>4, <2>6, <2>7 DEF InputValue, PlainValue
<1>5. QED
  BY <1>2, <1>3, <1>4

\* What a form reads from an input may be stored.
LEMMA ReadIsPlain ==
    ASSUME NEW type \in Types, NEW v, InputValue(type, v)
    PROVE  PlainValue(type, ReadValue(type, v)) /\ WholeDay(type, ReadValue(type, v))
<1>1. v # Unset
  BY NotUnset DEF InputValue, PlainValue
<1>2. CASE type = "from"
  BY <1>1, <1>2 DEF InputValue, PlainValue, ReadValue, DateToUtc, WholeDay
<1>3. CASE type = "to"
  BY <1>1, <1>3 DEF InputValue, PlainValue, ReadValue, DateToUtc, WholeDay
<1>4. CASE type \notin {"from", "to"}
  BY <1>1, <1>4 DEF InputValue, PlainValue, ReadValue, WholeDay
<1>5. QED
  BY <1>2, <1>3, <1>4

\* What the user may enter.
LEMMA EntriesAreInput ==
    ASSUME kind \in Kinds, NEW f \in Fields(kind), NEW v \in Entries(f)
    PROVE  InputValue(TypeOf(kind, f), v) /\ TypeOf(kind, f) \notin ListTypes
<1> DEFINE type == TypeOf(kind, f)
<1>1. type \in Types
  BY Tables DEF TableFacts, FieldFacts
<1>2. CASE type \in {"bytes", "ms", "seconds", "number", "from", "to"}
  <2>1. v \in Nat
    BY <1>2, SMT DEF Entries
  <2>2. QED
    BY <1>2, <2>1, SMT DEF InputValue, PlainValue, ListTypes
<1>3. CASE type \in {"flag", "flagOn"}
  <2>1. v \in BOOLEAN
    BY <1>3 DEF Entries
  <2>2. QED
    BY <1>3, <2>1 DEF InputValue, PlainValue, ListTypes
<1>4. CASE type \in {"text", "ref"}
  <2>1. v \in {Blank, "c", "pq"}
    BY <1>4, SMT DEF Entries
  <2>2. v \in Texts
    BY <2>1 DEF Texts
  <2>3. QED
    BY <1>4, <2>2 DEF InputValue, PlainValue, ListTypes
<1>5. CASE type \in {"list", "chips", "selectors"}
  BY <1>5, SMT DEF Entries
<1>6. QED
  BY <1>1, <1>2, <1>3, <1>4, <1>5 DEF Types

\* The values that objects have at first.
LEMMA SamplesArePlain ==
    ASSUME NEW type \in Types, NEW i \in 1..3
    PROVE  PlainValue(type, Sample(type, i))
<1>0. i = 1 \/ i = 2 \/ i = 3
  OBVIOUS
<1>1. CASE type \in {"text", "ref"}
  <2>1. Sample(type, i) = <<"a", "b", "b">>[i]
    BY <1>1 DEF Sample
  <2>2. Sample(type, i) \in {"a", "b"}
    BY <1>0, <2>1
  <2>3. Sample(type, i) \in Texts
    BY <2>2 DEF Texts
  <2>4. QED
    BY <1>1, <2>3 DEF PlainValue
<1>2. CASE type = "list"
  <2>1. Sample(type, i) = IF i = 1 THEN {"x"} ELSE {"x", "y"}
    BY <1>2 DEF Sample
  <2>2. Sample(type, i) \in SUBSET Texts
    BY <2>1 DEF Texts
  <2>3. QED
    BY <1>2, <2>2 DEF PlainValue
<1>3. CASE type = "chips"
  <2>1. <<"x", "y">> \in Seq(Texts) /\ <<"x">> \in Seq(Texts)
    BY DEF Texts
  <2>2. Sample(type, i) = IF i = 1 THEN <<"x">> ELSE <<"x", "y">>
    BY <1>3 DEF Sample
  <2>3. QED
    BY <1>3, <2>1, <2>2 DEF PlainValue
<1>4. CASE type = "selectors"
  <2>1. Sample(type, i) = {IF i = 3 THEN <<"k", "v", "w">> ELSE <<"k", "v">>}
    BY <1>4 DEF Sample
  <2>2. QED
    BY <1>4, <2>1 DEF PlainValue, Selectors
<1>5. CASE type \in {"flag", "flagOn"}
  <2>1. Sample(type, i) = (i # 1)
    BY <1>5 DEF Sample
  <2>2. QED
    BY <1>5, <2>1 DEF PlainValue
<1>6. CASE type \in {"number", "seconds", "ms", "bytes"}
  <2>1. Sample(type, i) \in Nat
    BY <1>0, <1>6, SMT DEF Sample
  <2>2. QED
    BY <1>6, <2>1 DEF PlainValue
<1>7. CASE type \in {"from", "to"}
  <2>1. Sample(type, i) \in Int
    BY <1>0, <1>7, SMT DEF Sample
  <2>2. QED
    BY <1>7, <2>1, SMT DEF PlainValue
<1>8. QED
  BY <1>1, <1>2, <1>3, <1>4, <1>5, <1>6, <1>7 DEF Types

(***************************************************************************)
(* Objects                                                                 *)
(***************************************************************************)

\* Of the identities of a role mapping at most one is there.
OneIdentity(object) == \A f, g \in Identities : object[f] # Blank /\ object[g] # Blank => f = g

\* An object of which every field may be stored.
PlainObject(k, object) ==
    /\ DOMAIN object = Fields(k)
    /\ \A f \in Fields(k) : PlainValue(TypeOf(k, f), object[f])
    /\ k = "roleMapping" => OneIdentity(object)

\* An object at the server.
StoredObject(k, object) ==
    /\ PlainObject(k, object)
    /\ k = "roleMapping" => \E f \in Identities : object[f] # Blank

\* What several objects have in common.
MergedObject(k, object) ==
    /\ DOMAIN object = Fields(k)
    /\ \A f \in Fields(k) : \/ PlainValue(TypeOf(k, f), object[f])
                            \/ object[f] = Unset /\ TypeOf(k, f) \notin ListTypes

\* A stored object is well formed.
LEMMA StoredIsWellFormed ==
    ASSUME kind \in Kinds, NEW object, StoredObject(kind, object)
    PROVE  WellFormed(object)
<1>1. TableFacts(kind)
  BY Tables
<1>2. \A f \in Fields(kind) : HasType(TypeOf(kind, f), object[f])
  BY <1>1, PlainHasType DEF TableFacts, FieldFacts, StoredObject, PlainObject
<1>3. CASE kind = "roleMapping"
  <2>1. OneIdentity(object) /\ \E f \in Identities : object[f] # Blank
    BY <1>3 DEF StoredObject, PlainObject
  <2>2. QED
    BY <1>2, <2>1 DEF WellFormed, OneIdentity
<1>4. CASE kind # "roleMapping"
  BY <1>2, <1>4 DEF WellFormed
<1>5. QED
  BY <1>3, <1>4

\* The objects there are at first.
LEMMA SampleIsStored ==
    ASSUME kind \in Kinds, NEW i \in 1..3
    PROVE  StoredObject(kind, SampleObject(i))
<1> DEFINE object == SampleObject(i)
<1>1. TableFacts(kind)
  BY Tables
<1>2. /\ DOMAIN object = Fields(kind)
      /\ \A f \in Fields(kind) :
            object[f] = IF kind = "roleMapping" /\ f \in Identities \ {IdentityOf(i)} THEN Blank
                        ELSE Sample(TypeOf(kind, f), i)
  BY DEF SampleObject
<1> HIDE DEF object
<1>3. ASSUME NEW f \in Fields(kind) PROVE PlainValue(TypeOf(kind, f), object[f])
  <2>1. /\ TypeOf(kind, f) \in Types /\ PlainValue(TypeOf(kind, f), Sample(TypeOf(kind, f), i))
        /\ f \in Identities => TypeOf(kind, f) = "text"
    BY <1>1, SamplesArePlain DEF TableFacts, FieldFacts
  <2>2. CASE kind = "roleMapping" /\ f \in Identities \ {IdentityOf(i)}
    BY <1>2, <2>1, <2>2, BlankIsText DEF PlainValue
  <2>3. CASE ~(kind = "roleMapping" /\ f \in Identities \ {IdentityOf(i)})
    BY <1>2, <2>1, <2>3
  <2>4. QED
    BY <2>2, <2>3
<1>4. CASE kind = "roleMapping"
  <2>1. Identities \subseteq Fields(kind) /\ \A f \in Identities : f \in Fields(kind) => TypeOf(kind, f) = "text"
    BY <1>1, <1>4 DEF TableFacts, KindFacts, FieldFacts
  <2>2. IdentityOf(i) \in Identities
    BY DEF IdentityOf, Identities
  <2>3. Sample("text", i) # Blank
    <3>1. Sample("text", i) = <<"a", "b", "b">>[i]
      BY DEF Sample
    <3>2. QED
      BY <3>1 DEF Blank
  <2>4. \A f \in Identities : object[f] # Blank <=> f = IdentityOf(i)
    BY <1>2, <1>4, <2>1, <2>3
  <2>5. QED
    BY <1>2, <1>3, <2>2, <2>4 DEF StoredObject, PlainObject, OneIdentity, object
<1>5. CASE kind # "roleMapping"
  BY <1>2, <1>3, <1>5 DEF StoredObject, PlainObject, object
<1>6. QED
  BY <1>4, <1>5

\* A list of elements is a list of elements whatever is added to it or taken from it.
LEMMA ListsArePlain ==
    ASSUME NEW type \in ListTypes, NEW a, NEW b, PlainValue(type, a), PlainValue(type, b)
    PROVE  /\ PlainValue(type, Common(type, a, b))
           /\ PlainValue(type, Union(type, a, b))
           /\ PlainValue(type, Difference(type, a, b))
<1>1. CASE type = "chips"
  <2>1. a \in Seq(Texts) /\ b \in Seq(Texts)
    BY <1>1 DEF PlainValue
  <2>2. With(a, ToSet(b)) \in Seq(Texts) /\ Without(a, ToSet(b)) \in Seq(Texts) /\ Without(b, ToSet(a)) \in Seq(Texts)
    BY <2>1, WithFacts, WithoutFacts
  <2>3. a \o Without(b, ToSet(a)) \in Seq(Texts)
    BY <2>1, <2>2, ConcatSet
  <2>4. Common(type, a, b) \in Seq(Texts) /\ Union(type, a, b) \in Seq(Texts) /\ Difference(type, a, b) \in Seq(Texts)
    BY <1>1, <2>2, <2>3 DEF Common, Union, Difference
  <2>5. QED
    BY <1>1, <2>1, <2>4 DEF PlainValue
<1>2. CASE type \in {"list", "selectors"}
  <2>1. Common(type, a, b) = a \cap b /\ Union(type, a, b) = a \cup b /\ Difference(type, a, b) = a \ b
    BY <1>2 DEF Common, Union, Difference
  <2> DEFINE S == IF type = "list" THEN Texts ELSE Selectors
  <2>2. a \in SUBSET S /\ b \in SUBSET S
    BY <1>2 DEF PlainValue
  <2>3. a \cap b \in SUBSET S /\ a \cup b \in SUBSET S /\ a \ b \in SUBSET S
    BY <2>2
  <2>4. \A v \in SUBSET S : PlainValue(type, v)
    BY <1>2 DEF PlainValue
  <2>5. QED
    BY <2>1, <2>2, <2>3, <2>4
<1>3. QED
  BY <1>1, <1>2 DEF ListTypes

\* What is added is there, and what is removed is gone; adding and removing nothing changes nothing.
LEMMA AddedAndRemoved ==
    ASSUME NEW type \in ListTypes, NEW a, NEW b, PlainValue(type, a), PlainValue(type, b)
    PROVE  /\ Elements(type, b) \subseteq Elements(type, Union(type, a, b))
           /\ Elements(type, b) \cap Elements(type, Difference(type, a, b)) = {}
           /\ type # "chips" /\ b = {} => Union(type, a, b) = a /\ Difference(type, a, b) = a
<1>1. CASE type = "chips"
  <2>1. a \in Seq(Texts) /\ b \in Seq(Texts)
    BY <1>1 DEF PlainValue
  <2>2. /\ Without(b, ToSet(a)) \in Seq(Texts) /\ ToSet(Without(b, ToSet(a))) = ToSet(b) \ ToSet(a)
        /\ ToSet(Without(a, ToSet(b))) = ToSet(a) \ ToSet(b)
    BY <2>1, WithoutFacts
  <2>3. ToSet(a \o Without(b, ToSet(a))) = ToSet(a) \cup ToSet(Without(b, ToSet(a)))
    BY <2>1, <2>2, ConcatSet
  <2>4. /\ Union(type, a, b) = a \o Without(b, ToSet(a)) /\ Difference(type, a, b) = Without(a, ToSet(b))
        /\ \A v : Elements(type, v) = ToSet(v)
    BY <1>1 DEF Union, Difference, Elements
  <2>5. QED
    BY <1>1, <2>2, <2>3, <2>4
<1>2. CASE type \in {"list", "selectors"}
  <2>1. Union(type, a, b) = a \cup b /\ Difference(type, a, b) = a \ b /\ \A v : Elements(type, v) = v
    BY <1>2 DEF Union, Difference, Elements
  <2>2. b \subseteq a \cup b /\ b \cap (a \ b) = {} /\ (b = {} => a \cup b = a /\ a \ b = a)
    OBVIOUS
  <2>3. QED
    BY <2>1, <2>2
<1>3. QED
  BY <1>1, <1>2 DEF ListTypes

\* Merging two values.
LEMMA MergedField ==
    ASSUME NEW k \in Kinds, NEW f \in Fields(k), NEW a, NEW b,
           PlainValue(TypeOf(k, f), a), PlainValue(TypeOf(k, f), b)
    PROVE  LET v == MergeField(Model(k)[f], a, b)
           IN  PlainValue(TypeOf(k, f), v) \/ (v = Unset /\ TypeOf(k, f) \notin ListTypes)
<1> DEFINE type == TypeOf(k, f)
           mixed == Model(k)[f].mixed
           v == MergeField(Model(k)[f], a, b)
<1>1. /\ type \in Types
      /\ type \in ListTypes => mixed \in {"dropped", "common", "reseeded"}
      /\ type \notin ListTypes => mixed \in {"dropped", "default", "unset"}
      /\ mixed = "reseeded" => type = "list"
  <2>1. FieldFacts(k, f)
    BY FieldTable
  <2>2. QED
    BY <2>1 DEF FieldFacts
<1>2. Model(k)[f].type = type
  BY DEF TypeOf
<1>3. PlainValue(type, a) /\ PlainValue(type, b)
  OBVIOUS
<1>4. PlainValue(type, Default(type))
  BY <1>1, DefaultIsPlain
<1>a. MergeField(Model(k)[f], a, b) = v
  OBVIOUS
<1>5. CASE mixed = "dropped"
  <2>1. v = Default(type)
    BY <1>2, <1>5 DEF MergeField
  <2>2. QED
    BY <1>4, <2>1
<1>6. CASE mixed = "common"
  <2>1. v = Common(type, a, b)
    BY <1>2, <1>6 DEF MergeField
  <2>2. type \in ListTypes
    BY <1>1, <1>6
  <2> HIDE DEF v, type, mixed
  <2>3. PlainValue(type, v)
    BY <1>3, <2>1, <2>2, ListsArePlain
  <2>4. QED
    BY <2>3 DEF v, type
<1>7. CASE mixed = "reseeded"
  <2>1. v = ReseededRanges(a, b)
    BY <1>2, <1>7 DEF MergeField
  <2>2. type = "list"
    BY <1>1, <1>7
  <2>3. a \in SUBSET Texts /\ b \in SUBSET Texts
    BY <1>3, <2>2 DEF PlainValue
  <2>4. v \in SUBSET Texts
    BY <2>1, <2>3 DEF ReseededRanges
  <2>5. PlainValue(type, v)
    BY <2>2, <2>4 DEF PlainValue
  <2>6. QED
    BY <2>5
<1>8. CASE mixed = "default"
  <2>1. v = IF a = b THEN a ELSE Default(type)
    BY <1>2, <1>8 DEF MergeField
  <2>2. QED
    BY <1>3, <1>4, <2>1
<1>9. CASE mixed = "unset"
  <2>1. v = IF a = b THEN a ELSE Unset
    BY <1>2, <1>9 DEF MergeField
  <2>2. type \notin ListTypes
    BY <1>1, <1>9
  <2>3. QED
    BY <1>3, <2>1, <2>2
<1>10. QED
  BY <1>1, <1>5, <1>6, <1>7, <1>8, <1>9

\* What the selected objects have in common.
LEMMA MergeIsMerged ==
    ASSUME kind \in Kinds, NEW rows \in Selections, NEW objects, \A o \in Objects : StoredObject(kind, objects[o])
    PROVE  MergedObject(kind, MergeConfigs(kind, [i \in DOMAIN rows |-> objects[rows[i]]]))
<1> DEFINE configs == [i \in DOMAIN rows |-> objects[rows[i]]]
<1>1. \A o \in Objects : /\ DOMAIN objects[o] = Fields(kind)
                         /\ \A f \in Fields(kind) : PlainValue(TypeOf(kind, f), objects[o][f])
  BY DEF StoredObject, PlainObject
<1>2. CASE rows \in {<<1>>, <<2>>}
  <2>1. Len(configs) = 1 /\ \E o \in Objects : configs[1] = objects[o]
    BY <1>2 DEF Objects
  <2>2. \E o \in Objects : MergeConfigs(kind, configs) = objects[o]
    BY <2>1 DEF MergeConfigs
  <2>3. QED
    BY <1>1, <2>2 DEF MergedObject
<1>3. CASE rows = <<1, 2>>
  <2>1. Len(configs) = 2 /\ configs[1] = objects[1] /\ configs[2] = objects[2]
    BY <1>3
  <2>2. MergeConfigs(kind, configs)
            = [f \in Fields(kind) |-> MergeField(Model(kind)[f], objects[1][f], objects[2][f])]
    BY <2>1 DEF MergeConfigs
  <2>3. ASSUME NEW f \in Fields(kind)
        PROVE  LET v == MergeField(Model(kind)[f], objects[1][f], objects[2][f])
               IN  PlainValue(TypeOf(kind, f), v) \/ (v = Unset /\ TypeOf(kind, f) \notin ListTypes)
    <3>1. PlainValue(TypeOf(kind, f), objects[1][f]) /\ PlainValue(TypeOf(kind, f), objects[2][f])
      BY <1>1 DEF Objects
    <3>2. QED
      BY <3>1, MergedField, Zenon
  <2>4. QED
    BY <2>2, <2>3 DEF MergedObject
<1>4. QED
  BY <1>2, <1>3 DEF Selections

\* A message of an object without unset fields is that object.
LEMMA ToProtoFacts ==
    ASSUME kind \in Kinds, NEW object, DOMAIN object = Fields(kind),
           \A f \in Fields(kind) : object[f] = Unset \/ PlainValue(TypeOf(kind, f), object[f]),
           kind = "roleMapping" => OneIdentity(object)
    PROVE  /\ DOMAIN ToProto(kind, object) = Fields(kind)
           /\ \A f \in Fields(kind) :
                 /\ PlainValue(TypeOf(kind, f), ToProto(kind, object)[f])
                 /\ object[f] # Unset => ToProto(kind, object)[f] = object[f]
<1>1. DOMAIN ToProto(kind, object) = Fields(kind)
  BY DEF ToProto
<1>2. ASSUME NEW f \in Fields(kind)
      PROVE  /\ PlainValue(TypeOf(kind, f), ToProto(kind, object)[f])
             /\ object[f] # Unset => ToProto(kind, object)[f] = object[f]
  <2>1. FieldFacts(kind, f)
    BY FieldTable
  <2>2. TypeOf(kind, f) \in Types
    BY <2>1 DEF FieldFacts
  <2>3. /\ ToProto(kind, object)[f] = IF object[f] = Unset THEN Default(TypeOf(kind, f))
                                      ELSE IF kind = "roleMapping" /\ Hidden(object, f) THEN Blank
                                      ELSE object[f]
        /\ kind = "roleMapping" /\ Hidden(object, f) => object[f] = Blank
    BY DEF ToProto, Hidden, OneIdentity, Identities
  <2>4. CASE object[f] = Unset
    BY <2>2, <2>3, <2>4, DefaultIsPlain
  <2>5. CASE object[f] # Unset
    <3>1. ToProto(kind, object)[f] = object[f]
      BY <2>2, <2>3, <2>5
    <3>2. QED
      BY <2>5, <3>1
  <2>6. QED
    BY <2>4, <2>5
<1>3. QED
  BY <1>1, <1>2

\* The value of a control, which may be unset in a bulk dialog.
AnyValue(type, v) == InputValue(type, v) \/ (v = Unset /\ type \notin ListTypes)

\* The template of a bulk update has the values of the controls.
LEMMA TemplateFacts ==
    ASSUME kind \in Kinds, NEW fm, \A f \in DOMAIN MultiOf[kind] : AnyValue(TypeOf(kind, f), fm.values[f])
    PROVE  /\ \A f \in Fields(kind) : PlainValue(TypeOf(kind, f), Template(fm)[f])
           /\ \A f \in DOMAIN MultiOf[kind] :
                 fm.values[f] # Unset => Template(fm)[f] = ReadValue(TypeOf(kind, f), fm.values[f])
<1> DEFINE C == DOMAIN MultiOf[kind]
           object == [f \in Fields(kind) |-> IF f \in C THEN ReadValue(TypeOf(kind, f), fm.values[f])
                                            ELSE Default(TypeOf(kind, f))]
<1>1. Template(fm) = ToProto(kind, object)
  BY DEF Template, FormFields
<1>2. DOMAIN object = Fields(kind)
  OBVIOUS
<1>3. ASSUME NEW f \in Fields(kind)
      PROVE  /\ object[f] = Unset \/ PlainValue(TypeOf(kind, f), object[f])
             /\ f \in C /\ fm.values[f] # Unset
                   => object[f] # Unset /\ object[f] = ReadValue(TypeOf(kind, f), fm.values[f])
             /\ f \notin C => object[f] = Default(TypeOf(kind, f))
  <2>1. FieldFacts(kind, f)
    BY FieldTable
  <2>2. TypeOf(kind, f) \in Types
    BY <2>1 DEF FieldFacts
  <2>3. CASE f \notin C
    BY <2>2, <2>3, DefaultIsPlain
  <2>4. CASE f \in C /\ fm.values[f] = Unset
    <3>1. object[f] = Unset
      BY <2>4 DEF ReadValue
    <3>2. QED
      BY <2>4, <3>1
  <2>5. CASE f \in C /\ fm.values[f] # Unset
    <3>1. InputValue(TypeOf(kind, f), fm.values[f])
      BY <2>5 DEF AnyValue
    <3>2. PlainValue(TypeOf(kind, f), ReadValue(TypeOf(kind, f), fm.values[f]))
      BY <2>2, <3>1, ReadIsPlain
    <3>3. ReadValue(TypeOf(kind, f), fm.values[f]) # Unset
      BY <2>2, <3>2, NotUnset
    <3>4. object[f] = ReadValue(TypeOf(kind, f), fm.values[f])
      BY <2>5
    <3>5. QED
      BY <2>5, <3>2, <3>3, <3>4
  <2>6. QED
    BY <2>3, <2>4, <2>5
<1>4. kind = "roleMapping" => OneIdentity(object)
  <2> HAVE kind = "roleMapping"
  <2>1. TableFacts(kind)
    BY Tables
  <2>2. \A f \in Identities : f \in Fields(kind) /\ f \notin C /\ TypeOf(kind, f) = "text"
    BY <2>1 DEF TableFacts, KindFacts, FieldFacts, Identities
  <2>3. \A f \in Identities : object[f] = Default("text")
    BY <1>3, <2>2
  <2>4. QED
    BY <2>3 DEF Default, OneIdentity
<1>5. \A f \in C : f \in Fields(kind)
  BY ControlTable DEF ControlFacts
<1> HIDE DEF object, C
<1>6. /\ \A f \in Fields(kind) : PlainValue(TypeOf(kind, f), ToProto(kind, object)[f])
      /\ \A f \in Fields(kind) : object[f] # Unset => ToProto(kind, object)[f] = object[f]
  BY <1>2, <1>3, <1>4, ToProtoFacts
<1>7. QED
  BY <1>1, <1>3, <1>5, <1>6 DEF C

\* What the server makes of the fields.
LEMMA MaskFacts ==
    ASSUME kind \in Kinds, NEW object, NEW template, NEW set, NEW add, NEW remove,
           set \cap add = {}, set \cap remove = {}, add \cap remove = {}
    PROVE  LET result == ApplyMask(kind, object, template, set, add, remove)
           IN  /\ DOMAIN result = Fields(kind)
               /\ \A f \in Fields(kind) :
                     /\ f \in set => result[f] = template[f]
                     /\ f \in add => result[f] = Union(TypeOf(kind, f), object[f], template[f])
                     /\ f \in remove => result[f] = Difference(TypeOf(kind, f), object[f], template[f])
                     /\ f \notin set \cup add \cup remove => result[f] = object[f]
<1> DEFINE result == ApplyMask(kind, object, template, set, add, remove)
<1>1. DOMAIN result = Fields(kind)
  BY DEF ApplyMask
<1>2. ASSUME NEW f \in Fields(kind)
      PROVE  /\ f \in set => result[f] = template[f]
             /\ f \in add => result[f] = Union(TypeOf(kind, f), object[f], template[f])
             /\ f \in remove => result[f] = Difference(TypeOf(kind, f), object[f], template[f])
             /\ f \notin set \cup add \cup remove => result[f] = object[f]
  <2>1. result[f] = CASE f \in set -> template[f]
                      [] f \in add -> Union(TypeOf(kind, f), object[f], template[f])
                      [] f \in remove -> Difference(TypeOf(kind, f), object[f], template[f])
                      [] OTHER -> object[f]
    BY DEF ApplyMask
  <2> HIDE DEF result
  <2>2. QED
    BY <2>1
<1>3. QED
  BY <1>1, <1>2

\* An object that is updated with a mask can be stored.
LEMMA MaskedIsStored ==
    ASSUME kind \in Kinds, NEW object, StoredObject(kind, object), NEW template,
           \A f \in Fields(kind) : PlainValue(TypeOf(kind, f), template[f]),
           NEW set \in SUBSET DOMAIN MultiOf[kind], NEW add \in SUBSET DOMAIN MultiOf[kind],
           NEW remove \in SUBSET DOMAIN MultiOf[kind],
           set \cap add = {}, set \cap remove = {}, add \cap remove = {},
           \A f \in add \cup remove : TypeOf(kind, f) \in ListTypes
    PROVE  StoredObject(kind, ApplyMask(kind, object, template, set, add, remove))
<1> DEFINE result == ApplyMask(kind, object, template, set, add, remove)
<1>1. /\ DOMAIN result = Fields(kind)
      /\ \A f \in Fields(kind) :
            /\ f \in set => result[f] = template[f]
            /\ f \in add => result[f] = Union(TypeOf(kind, f), object[f], template[f])
            /\ f \in remove => result[f] = Difference(TypeOf(kind, f), object[f], template[f])
            /\ f \notin set \cup add \cup remove => result[f] = object[f]
  BY MaskFacts
<1> HIDE DEF result
<1>2. ASSUME NEW f \in Fields(kind) PROVE PlainValue(TypeOf(kind, f), result[f])
  <2>1. PlainValue(TypeOf(kind, f), object[f]) /\ PlainValue(TypeOf(kind, f), template[f])
    BY DEF StoredObject, PlainObject
  <2>2. CASE f \in add \cup remove
    <3>1. TypeOf(kind, f) \in ListTypes
      BY <2>2
    <3>2. /\ PlainValue(TypeOf(kind, f), Union(TypeOf(kind, f), object[f], template[f]))
          /\ PlainValue(TypeOf(kind, f), Difference(TypeOf(kind, f), object[f], template[f]))
      BY <2>1, <3>1, ListsArePlain
    <3>3. QED
      BY <1>1, <2>2, <3>2
  <2>3. QED
    BY <1>1, <2>1, <2>2
<1>3. CASE kind = "roleMapping"
  <2>1. TableFacts(kind)
    BY Tables
  <2>2. \A f \in Identities : f \in Fields(kind) /\ f \notin set \cup add \cup remove
    BY <1>3, <2>1 DEF TableFacts, KindFacts, Identities
  <2>3. \A f \in Identities : result[f] = object[f]
    BY <1>1, <2>2
  <2>4. QED
    BY <1>1, <1>2, <1>3, <2>3 DEF StoredObject, PlainObject, OneIdentity, result
<1>4. CASE kind # "roleMapping"
  BY <1>1, <1>2, <1>4 DEF StoredObject, PlainObject, result
<1>5. QED
  BY <1>3, <1>4

(***************************************************************************)
(* Forms                                                                   *)
(***************************************************************************)

\* The controls of a form.
ControlsOf(k, mode) == IF mode = "multi" THEN DOMAIN MultiOf[k] ELSE DetailsOf[k].controls

\* The fields of a form.
FormKeys ==
    {"mode", "ids", "all", "config", "values", "dirty", "touched", "operation", "enabled", "removing", "identity",
     "rendered", "clicked", "checking", "answers"}

\* What a form is, apart from its inputs.
BaseForm(k, fm) ==
    /\ DOMAIN fm = FormKeys
    /\ fm.mode \in {"details", "dialog", "multi"}
    /\ fm.ids \in SUBSET Objects /\ (fm.ids = {} => fm.mode = "dialog")
    /\ fm.all \in BOOLEAN /\ (fm.all => k \in AllKinds)
    /\ fm.clicked # Closed => /\ fm.mode # "multi"
                              /\ fm.clicked.field \in DetailsOf[k].controls
                              /\ TypeOf(k, fm.clicked.field) = "chips"
                              /\ fm.clicked.index \in Nat
    /\ \A answer \in fm.answers : fm.mode = "details" /\ StoredObject(k, answer)

\* What a form is written from: objects of their own, or what several have in common.
GoodConfig(k, mode, ids, config) ==
    IF mode = "multi" THEN MergedObject(k, config)
    ELSE PlainObject(k, config) /\ (ids # {} => StoredObject(k, config))

\* The default size is offered for a collection that has none.
OfferedSize(k, f, config) == k = "collection" /\ f = "fileSize" /\ config[f] = 0

\* What is read from an input is the value of the object if the input shows it exactly.
Shows(k, f, value, config) ==
    OfferedSize(k, f, config) \/ (Exact(TypeOf(k, f), config[f]) => ReadValue(TypeOf(k, f), value) = config[f])

\* The inputs that were not touched show the object; of the two identities of a role mapping one is empty.
SingleForm(k, fm) ==
    /\ fm.removing = FALSE
    /\ fm.touched \subseteq DetailsOf[k].controls
    /\ fm.dirty = {} => fm.touched = {}
    /\ \A f \in DetailsOf[k].controls :
          /\ InputValue(TypeOf(k, f), fm.values[f])
          /\ f \in fm.touched \/ Shows(k, f, fm.values[f], fm.config)
    /\ IF k = "roleMapping"
       THEN \/ fm.identity = "email" /\ fm.values["group"] = Blank
            \/ fm.identity = "group" /\ fm.values["email"] = Blank
       ELSE fm.identity = "email"

\* What a control of a bulk dialog remembers of the user's choices.
ControlState(rule, type, value, config, touched, dirty, enabled, operation, removing) ==
    /\ AnyValue(type, value)
    /\ operation \in {"none", "add", "remove"}
    /\ touched => value # Unset
    /\ rule \in Operated => /\ touched => operation # "none"
                            /\ operation # "none" /\ ~touched => value = Default(type)
    /\ rule \notin Operated => operation = "none" /\ (dirty => touched)
    /\ rule = "selection" /\ ~touched => value = Unset
    /\ rule \in {"changed", "typed", "reference", "chosen"} /\ touched => dirty
    /\ rule = "validity" /\ touched => dirty \/ removing
    /\ rule = "enabled" => /\ value # Unset
                           /\ touched => enabled
                           /\ enabled /\ ~touched => value = config

\* The controls of a bulk dialog.
MultiForm(k, fm) ==
    /\ fm.touched \subseteq DOMAIN MultiOf[k]
    /\ fm.removing \in BOOLEAN
    /\ fm.removing => k = "crawlScheduleConfig" /\ {"validFrom", "validTo"} \subseteq fm.touched
    /\ \A f \in DOMAIN MultiOf[k] :
          ControlState(MultiOf[k][f], TypeOf(k, f), fm.values[f], fm.config[f], f \in fm.touched, f \in fm.dirty,
                       f \in fm.enabled, fm.operation[f], fm.removing)

\* What holds of an open form.
FormInv(k, fm) ==
    /\ BaseForm(k, fm)
    /\ GoodConfig(k, fm.mode, fm.ids, fm.config)
    /\ DOMAIN fm.values = ControlsOf(k, fm.mode)
    /\ DOMAIN fm.operation = ControlsOf(k, fm.mode)
    /\ fm.enabled \subseteq ControlsOf(k, fm.mode)
    /\ fm.mode # "multi" => SingleForm(k, fm)
    /\ fm.mode = "multi" => MultiForm(k, fm)

\* Controls are for fields of the kind.
LEMMA ControlsAreFields ==
    \A k \in Kinds : DetailsOf[k].controls \subseteq Fields(k) /\ DOMAIN MultiOf[k] \subseteq Fields(k)
<1> TAKE k \in Kinds
<1>1. TableFacts(k)
  BY Tables
<1>2. QED
  BY <1>1 DEF TableFacts, KindFacts, ControlFacts

\* What the input of a single object shows, when the form is opened and when it is written again.
LEMMA ShownSingle ==
    ASSUME kind \in Kinds, NEW mode, mode # "multi", NEW f \in Fields(kind), NEW v, PlainValue(TypeOf(kind, f), v),
           NEW s \in {Shown(mode, f, v), WriteBack(TypeOf(kind, f), Shown(mode, f, v))}
    PROVE  /\ InputValue(TypeOf(kind, f), s)
           /\ \/ kind = "collection" /\ f = "fileSize" /\ v = 0
              \/ Exact(TypeOf(kind, f), v) => ReadValue(TypeOf(kind, f), s) = v
           /\ TypeOf(kind, f) \in {"text", "ref"} => s = v
<1> DEFINE type == TypeOf(kind, f)
<1>1. FieldFacts(kind, f)
  BY FieldTable
<1>2. type \in Types /\ (f = "fileSize" => type = "bytes")
  BY <1>1 DEF FieldFacts
<1>3. Shown(mode, f, v) = IF kind = "collection" /\ f = "fileSize" /\ v = 0 THEN 1073741824 ELSE ShowValue(type, v)
  BY SMT DEF Shown
<1>4. CASE kind = "collection" /\ f = "fileSize" /\ v = 0
  <2> DEFINE size == 1073741824
  <2>1. Shown(mode, f, v) = size /\ type = "bytes"
    BY <1>2, <1>3, <1>4, SMT
  <2>2. size \in Nat
    OBVIOUS
  <2> HIDE DEF size
  <2>3. InputValue(type, size)
    BY <2>1, <2>2 DEF InputValue, PlainValue
  <2>4. InputValue(type, WriteBack(type, size))
    BY <1>2, <2>3, WriteBackInput
  <2>5. QED
    BY <1>4, <2>1, <2>3, <2>4
<1>5. CASE ~(kind = "collection" /\ f = "fileSize" /\ v = 0)
  <2>1. Shown(mode, f, v) = ShowValue(type, v)
    BY <1>3, <1>5, SMT
  <2>2. s \in {ShowValue(type, v), WriteBack(type, ShowValue(type, v))}
    BY <2>1
  <2> HIDE DEF type
  <2>3. PlainValue(type, v)
    BY DEF type
  <2>4. InputValue(type, s) /\ (Exact(type, v) => ReadValue(type, s) = v) /\ (type \in {"text", "ref"} => s = v)
    BY <1>2, <2>2, <2>3, PlainIsShown
  <2>5. QED
    BY <2>4 DEF type
<1>6. QED
  BY <1>4, <1>5

\* What the control of a bulk dialog shows, when the dialog is opened and when it is written again.
LEMMA ShownMulti ==
    ASSUME kind \in Kinds, NEW f \in DOMAIN MultiOf[kind], NEW v,
           \/ PlainValue(TypeOf(kind, f), v)
           \/ v = Unset /\ TypeOf(kind, f) \notin ListTypes,
           NEW s \in {Shown("multi", f, v), WriteBack(TypeOf(kind, f), Shown("multi", f, v))}
    PROVE  /\ AnyValue(TypeOf(kind, f), s)
           /\ MultiOf[kind][f] = "selection" => s = Unset
           /\ MultiOf[kind][f] = "enabled" => s # Unset /\ (v # Unset => s = v)
<1> DEFINE type == TypeOf(kind, f)
           rule == MultiOf[kind][f]
           shown == Shown("multi", f, v)
<1>1. ControlFacts(kind, f)
  BY ControlTable
<1>2. f \in Fields(kind)
  BY <1>1 DEF ControlFacts
<1>3. FieldFacts(kind, f)
  BY <1>2, FieldTable
<1>4. type \in Types
  BY <1>3 DEF FieldFacts
<1>5. /\ rule \in {"labels", "toggled", "selectors", "selection", "changed", "typed", "validity", "reference",
                   "chosen", "enabled"}
      /\ rule = "labels" => type = "chips"
      /\ rule = "selectors" => type = "selectors"
      /\ rule = "toggled" => type = "list"
      /\ rule = "selection" => type \in {"flag", "flagOn"}
      /\ rule = "chosen" => type = "ref"
      /\ rule = "enabled" => type = "number"
  BY <1>1 DEF ControlFacts
<1>6. s = shown \/ s = WriteBack(type, shown)
  OBVIOUS
<1>7. ASSUME NEW w, AnyValue(type, w)
      PROVE  /\ AnyValue(type, WriteBack(type, w))
             /\ type \notin {"seconds", "ms", "bytes"} => WriteBack(type, w) = w
  <2>1. CASE InputValue(type, w)
    <3>1. /\ InputValue(type, WriteBack(type, w))
          /\ type \notin {"ms", "bytes"} => WriteBack(type, w) = w
      BY <1>4, <2>1, WriteBackInput
    <3>2. QED
      BY <3>1 DEF AnyValue
  <2>2. CASE w = Unset /\ type \in {"seconds", "ms", "bytes"}
    <3>1. WriteBack(type, w) = 0
      BY <2>2 DEF WriteBack
    <3>2. InputValue(type, 0)
      BY <2>2 DEF InputValue, PlainValue
    <3>3. QED
      BY <2>2, <3>1, <3>2 DEF AnyValue
  <2>3. CASE w = Unset /\ type \notin {"seconds", "ms", "bytes"}
    <3>1. WriteBack(type, w) = w
      BY <2>3 DEF WriteBack
    <3>2. QED
      BY <1>7, <3>1
  <2>4. QED
    BY <1>7, <2>1, <2>2, <2>3 DEF AnyValue
<1>8. /\ AnyValue(type, shown)
      /\ rule = "selection" => shown = Unset
      /\ rule = "enabled" => shown # Unset /\ (v # Unset => shown = v)
  <2>1. CASE rule = "selection"
    <3>1. shown = Unset
      BY <2>1 DEF Shown
    <3>2. QED
      BY <1>5, <2>1, <3>1 DEF AnyValue, ListTypes
  <2>2. CASE rule \in {"toggled", "selectors"}
    <3>1. shown = {}
      BY <2>2 DEF Shown
    <3>2. InputValue(type, {})
      BY <1>5, <2>2 DEF InputValue, PlainValue
    <3>3. QED
      BY <2>2, <3>1, <3>2 DEF AnyValue
  <2>3. CASE rule = "chosen" /\ v = Unset
    <3>1. shown = Blank
      BY <2>3 DEF Shown
    <3>2. InputValue(type, Blank)
      BY <1>5, <2>3, BlankIsText DEF InputValue, PlainValue
    <3>3. QED
      BY <2>3, <3>1, <3>2 DEF AnyValue
  <2>4. CASE rule = "enabled" /\ v = Unset
    <3>1. shown = 0
      BY <2>4, SMT DEF Shown
    <3>2. InputValue(type, 0)
      BY <1>5, <2>4 DEF InputValue, PlainValue
    <3>3. 0 # Unset
      BY UnsetAssumption
    <3>4. QED
      BY <2>4, <3>1, <3>2, <3>3 DEF AnyValue
  <2>5. CASE /\ rule \notin {"selection", "toggled", "selectors"}
             /\ ~(rule \in {"chosen", "enabled"} /\ v = Unset)
    <3>1. rule # "details"
      BY <1>5
    <3>2. shown = ShowValue(type, v)
      BY <2>5, <3>1, SMT DEF Shown
    <3>3. CASE v = Unset
      <4>1. ShowValue(type, v) = Unset
        BY <3>3 DEF ShowValue
      <4>2. type \notin ListTypes
        BY <1>4, <3>3, NotUnset
      <4>3. QED
        BY <2>5, <3>2, <3>3, <4>1, <4>2 DEF AnyValue
    <3>4. CASE v # Unset
      <4>1. PlainValue(type, v)
        BY <3>4
      <4>2. InputValue(type, ShowValue(type, v))
        BY <1>4, <4>1, PlainIsShown
      <4>3. rule = "enabled" => ShowValue(type, v) = v
        BY <1>5, <3>4 DEF ShowValue
      <4>4. QED
        BY <2>5, <3>2, <3>4, <4>2, <4>3 DEF AnyValue
    <3>5. QED
      BY <3>3, <3>4
  <2>6. QED
    BY <2>1, <2>2, <2>3, <2>4, <2>5
<1> HIDE DEF shown, rule, type
<1>9. CASE s = shown
  BY <1>8, <1>9 DEF shown, rule, type
<1>10. CASE s = WriteBack(type, shown)
  <2>1. rule \in {"selection", "enabled"} => type \notin {"seconds", "ms", "bytes"}
    BY <1>5
  <2>2. AnyValue(type, s) /\ (rule \in {"selection", "enabled"} => s = shown)
    BY <1>7, <1>8, <1>10, <2>1
  <2>3. QED
    BY <1>8, <2>2 DEF shown, rule, type
<1>11. QED
  BY <1>6, <1>9, <1>10

\* What updateForm leaves alone and what it writes.
LEMMA UpdateFacts ==
    ASSUME NEW fm, DOMAIN fm = FormKeys, NEW config
    PROVE  LET new == UpdateForm(fm, config)
           IN  /\ DOMAIN new = FormKeys
               /\ new.mode = fm.mode /\ new.ids = fm.ids /\ new.all = fm.all /\ new.clicked = fm.clicked
               /\ new.answers = fm.answers
               /\ new.config = config /\ new.dirty = {} /\ new.touched = {} /\ new.removing = FALSE
               /\ new.operation = [f \in FormFields(fm.mode) |-> "none"]
               /\ new.enabled = InitiallyEnabled(fm.mode, config)
               /\ new.identity = Identity(config)
               /\ DOMAIN new.values = FormFields(fm.mode)
               /\ \A f \in FormFields(fm.mode) :
                     new.values[f] \in {Shown(fm.mode, f, config[f]),
                                        WriteBack(TypeOf(kind, f), Shown(fm.mode, f, config[f]))}
<1> DEFINE new == UpdateForm(fm, config)
           values == [f \in FormFields(fm.mode) |->
                          IF fm.rendered THEN WriteBack(TypeOf(kind, f), Shown(fm.mode, f, config[f]))
                          ELSE Shown(fm.mode, f, config[f])]
<1>1. new = [fm EXCEPT !.config = config, !.values = values, !.dirty = {}, !.touched = {},
                       !.operation = [f \in FormFields(fm.mode) |-> "none"],
                       !.enabled = InitiallyEnabled(fm.mode, config), !.removing = FALSE,
                       !.identity = Identity(config), !.rendered = TRUE]
  BY DEF UpdateForm
<1>2. /\ DOMAIN values = FormFields(fm.mode)
      /\ \A f \in FormFields(fm.mode) :
            values[f] \in {Shown(fm.mode, f, config[f]),
                           WriteBack(TypeOf(kind, f), Shown(fm.mode, f, config[f]))}
  OBVIOUS
<1> HIDE DEF new, values
<1>3. DOMAIN new = FormKeys
  BY <1>1
<1>4. /\ new.mode = fm.mode /\ new.ids = fm.ids /\ new.all = fm.all /\ new.clicked = fm.clicked
      /\ new.answers = fm.answers
  BY <1>1 DEF FormKeys
<1>5. new.config = config /\ new.dirty = {} /\ new.touched = {} /\ new.removing = FALSE
  BY <1>1 DEF FormKeys
<1>6. /\ new.operation = [f \in FormFields(fm.mode) |-> "none"]
      /\ new.enabled = InitiallyEnabled(fm.mode, config)
      /\ new.identity = Identity(config)
      /\ new.values = values
  BY <1>1 DEF FormKeys
<1>7. QED
  BY <1>2, <1>3, <1>4, <1>5, <1>6 DEF new

\* The controls of the form that is open.
LEMMA FieldsOfForm == \A mode : FormFields(mode) = ControlsOf(kind, mode)
BY DEF FormFields, ControlsOf

\* A form that has just been written.
LEMMA UpdatedForm ==
    ASSUME kind \in Kinds, NEW fm, BaseForm(kind, fm), NEW config,
           GoodConfig(kind, fm.mode, fm.ids, config)
    PROVE  FormInv(kind, UpdateForm(fm, config))
<1> DEFINE new == UpdateForm(fm, config)
           C == ControlsOf(kind, fm.mode)
<1>0. DOMAIN fm = FormKeys
  BY DEF BaseForm
<1>1. /\ DOMAIN new = FormKeys
      /\ new.mode = fm.mode /\ new.ids = fm.ids /\ new.all = fm.all /\ new.clicked = fm.clicked
      /\ new.answers = fm.answers
      /\ new.config = config /\ new.dirty = {} /\ new.touched = {} /\ new.removing = FALSE
      /\ new.operation = [f \in FormFields(fm.mode) |-> "none"]
      /\ new.enabled = InitiallyEnabled(fm.mode, config)
      /\ new.identity = Identity(config)
      /\ DOMAIN new.values = FormFields(fm.mode)
      /\ \A f \in FormFields(fm.mode) :
            new.values[f] \in {Shown(fm.mode, f, config[f]),
                               WriteBack(TypeOf(kind, f), Shown(fm.mode, f, config[f]))}
  BY <1>0, UpdateFacts
<1> HIDE DEF new
<1>2. FormFields(fm.mode) = C
  BY FieldsOfForm
<1>3. BaseForm(kind, new)
  BY <1>1 DEF BaseForm
<1>4. DOMAIN new.values = C /\ DOMAIN new.operation = C /\ new.enabled \subseteq C
  BY <1>1, <1>2 DEF InitiallyEnabled
<1>5. ASSUME fm.mode # "multi" PROVE SingleForm(kind, new)
  <2>1. C = DetailsOf[kind].controls /\ C \subseteq Fields(kind)
    BY <1>5, ControlsAreFields DEF ControlsOf
  <2>2. PlainObject(kind, config)
    BY <1>5 DEF GoodConfig
  <2>3. ASSUME NEW f \in C
        PROVE  /\ InputValue(TypeOf(kind, f), new.values[f])
               /\ Shows(kind, f, new.values[f], config)
               /\ TypeOf(kind, f) \in {"text", "ref"} => new.values[f] = config[f]
    <3>1. f \in Fields(kind) /\ PlainValue(TypeOf(kind, f), config[f])
      BY <2>1, <2>2 DEF PlainObject
    <3> DEFINE s == new.values[f]
               mode == fm.mode
               v == config[f]
    <3>2. s \in {Shown(mode, f, v), WriteBack(TypeOf(kind, f), Shown(mode, f, v))}
      BY <1>1, <1>2
    <3>3. mode # "multi" /\ PlainValue(TypeOf(kind, f), v)
      BY <1>5, <3>1
    <3> HIDE DEF s, mode, v
    <3>4. /\ InputValue(TypeOf(kind, f), s)
          /\ \/ kind = "collection" /\ f = "fileSize" /\ v = 0
             \/ Exact(TypeOf(kind, f), v) => ReadValue(TypeOf(kind, f), s) = v
          /\ TypeOf(kind, f) \in {"text", "ref"} => s = v
      BY <3>1, <3>2, <3>3, ShownSingle
    <3>5. QED
      BY <3>4 DEF OfferedSize, Shows, s, v
  <2>4. CASE kind = "roleMapping"
    <3>1. TableFacts(kind)
      BY Tables
    <3>2. "email" \in C /\ "group" \in C
      BY <2>1, <2>4, <3>1 DEF KindFacts, TableFacts
    <3>3. FieldFacts(kind, "email") /\ FieldFacts(kind, "group")
      BY <2>1, <3>2, FieldTable
    <3>4. "email" \in C /\ "group" \in C /\ TypeOf(kind, "email") = "text" /\ TypeOf(kind, "group") = "text"
      BY <3>2, <3>3 DEF FieldFacts, Identities
    <3>5. new.values["email"] = config["email"] /\ new.values["group"] = config["group"]
      BY <2>3, <3>4
    <3>6. config["email"] = Blank \/ config["group"] = Blank
      BY <2>2, <2>4 DEF PlainObject, OneIdentity, Identities
    <3>7. \/ new.identity = "email" /\ new.values["group"] = Blank
          \/ new.identity = "group" /\ new.values["email"] = Blank
      BY <1>1, <2>4, <3>5, <3>6 DEF Identity
    <3>8. QED
      BY <1>1, <2>1, <2>3, <2>4, <3>7 DEF SingleForm
  <2>5. CASE kind # "roleMapping"
    <3>1. new.identity = "email"
      BY <1>1, <2>5 DEF Identity
    <3>2. QED
      BY <1>1, <2>1, <2>3, <2>5, <3>1 DEF SingleForm
  <2>6. QED
    BY <2>4, <2>5
<1>6. ASSUME fm.mode = "multi" PROVE MultiForm(kind, new)
  <2>1. C = DOMAIN MultiOf[kind] /\ C \subseteq Fields(kind)
    BY <1>6, ControlsAreFields DEF ControlsOf
  <2>2. MergedObject(kind, config)
    BY <1>6 DEF GoodConfig
  <2>3. ASSUME NEW f \in DOMAIN MultiOf[kind]
        PROVE  ControlState(MultiOf[kind][f], TypeOf(kind, f), new.values[f], new.config[f], f \in new.touched,
                            f \in new.dirty, f \in new.enabled, new.operation[f], new.removing)
    <3> DEFINE s == new.values[f]
               v == config[f]
    <3>1. f \in Fields(kind)
      BY <2>1
    <3>2. \/ PlainValue(TypeOf(kind, f), v)
          \/ v = Unset /\ TypeOf(kind, f) \notin ListTypes
      BY <2>2, <3>1 DEF MergedObject
    <3>3. s \in {Shown("multi", f, v), WriteBack(TypeOf(kind, f), Shown("multi", f, v))}
      BY <1>1, <1>2, <1>6, <2>1
    <3> HIDE DEF s, v
    <3>4. /\ AnyValue(TypeOf(kind, f), s)
          /\ MultiOf[kind][f] = "selection" => s = Unset
          /\ MultiOf[kind][f] = "enabled" => s # Unset /\ (v # Unset => s = v)
      BY <3>2, <3>3, ShownMulti
    <3>5. f \notin new.touched /\ f \notin new.dirty /\ new.operation[f] = "none" /\ new.removing = FALSE
      BY <1>1, <1>2, <2>1
    <3>6. MultiOf[kind][f] = "enabled" /\ f \in new.enabled => v # Unset
      BY <1>1, <1>6 DEF InitiallyEnabled, v
    <3>7. MultiOf[kind][f] = "enabled" /\ f \in new.enabled => s = v
      BY <3>4, <3>6
    <3>8. new.config[f] = v /\ new.values[f] = s
      BY <1>1 DEF s, v
    <3>9. QED
      BY <3>4, <3>5, <3>7, <3>8 DEF ControlState, Operated
  <2>4. QED
    BY <1>1, <2>3 DEF MultiForm
<1>7. QED
  BY <1>1, <1>3, <1>4, <1>5, <1>6 DEF FormInv, new

\* A new form.
LEMMA NewFormIsGood ==
    ASSUME kind \in Kinds, NEW mode \in {"details", "dialog", "multi"}, NEW ids \in SUBSET Objects,
           ids = {} => mode = "dialog", NEW all \in BOOLEAN, all => kind \in AllKinds, NEW config,
           GoodConfig(kind, mode, ids, config)
    PROVE  FormInv(kind, NewForm(mode, ids, all, config))
<1> DEFINE fm == [mode |-> mode, ids |-> ids, all |-> all, config |-> config, values |-> <<>>,
                  dirty |-> {}, touched |-> {}, operation |-> <<>>, enabled |-> {},
                  removing |-> FALSE, identity |-> "email", rendered |-> FALSE, clicked |-> Closed,
                  checking |-> FALSE, answers |-> {}]
<1>1. NewForm(mode, ids, all, config) = UpdateForm(fm, config)
  BY DEF NewForm
<1>2. DOMAIN fm = FormKeys
  BY DEF FormKeys
<1>3. /\ fm.mode = mode /\ fm.ids = ids /\ fm.all = all /\ fm.clicked = Closed /\ fm.answers = {}
  OBVIOUS
<1> HIDE DEF fm
<1>4. BaseForm(kind, fm)
  BY <1>2, <1>3 DEF BaseForm
<1>5. GoodConfig(kind, fm.mode, fm.ids, config)
  BY <1>3
<1>6. QED
  BY <1>1, <1>4, <1>5, UpdatedForm

\* What the form of one object reads.
LEMMA PreparedFacts ==
    ASSUME kind \in Kinds, NEW fm, FormInv(kind, fm), fm.mode # "multi"
    PROVE  /\ PlainObject(kind, Prepare(fm))
           /\ ToProto(kind, Prepare(fm)) = Prepare(fm)
           /\ \A f \in DetailsOf[kind].controls :
                 /\ Prepare(fm)[f] = ReadValue(TypeOf(kind, f), fm.values[f])
                 /\ WholeDay(TypeOf(kind, f), Prepare(fm)[f])
           /\ Valid(fm) => StoredObject(kind, Prepare(fm))
<1> DEFINE object == Prepare(fm)
           C == DetailsOf[kind].controls
<1>1. SingleForm(kind, fm) /\ DOMAIN fm.values = C /\ C \subseteq Fields(kind)
  BY ControlsAreFields DEF FormInv, ControlsOf
<1>2. TableFacts(kind)
  BY Tables
<1>3. DOMAIN object = Fields(kind)
  BY DEF Prepare
<1>4. \A f \in Fields(kind) :
          object[f] = IF kind = "roleMapping" /\ f = "name" THEN "roleMapping"
                      ELSE IF kind = "roleMapping" /\ f \in Identities \ {fm.identity} THEN Blank
                      ELSE IF f \in DOMAIN fm.values THEN ReadValue(TypeOf(kind, f), fm.values[f])
                      ELSE Default(TypeOf(kind, f))
  BY DEF Prepare
<1> HIDE DEF object
<1>5. ASSUME NEW f \in C
      PROVE  /\ object[f] = ReadValue(TypeOf(kind, f), fm.values[f])
             /\ PlainValue(TypeOf(kind, f), object[f])
             /\ WholeDay(TypeOf(kind, f), object[f])
  <2>1. f \in Fields(kind) /\ f \in DOMAIN fm.values
    BY <1>1
  <2>2. FieldFacts(kind, f)
    BY <2>1, FieldTable
  <2>3. /\ TypeOf(kind, f) \in Types
        /\ f \in Identities => TypeOf(kind, f) = "text"
        /\ kind = "roleMapping" => f # "name" /\ f # "apiKey"
    BY <2>1, <2>2 DEF FieldFacts, Erased
  <2>4. /\ PlainValue(TypeOf(kind, f), ReadValue(TypeOf(kind, f), fm.values[f]))
        /\ WholeDay(TypeOf(kind, f), ReadValue(TypeOf(kind, f), fm.values[f]))
    BY <1>1, <2>3, ReadIsPlain DEF SingleForm
  <2>5. CASE kind = "roleMapping" /\ f \in Identities \ {fm.identity}
    <3>1. object[f] = Blank
      BY <1>4, <2>1, <2>3, <2>5
    <3>2. fm.values[f] = Blank
      BY <1>1, <2>3, <2>5 DEF SingleForm, Identities
    <3>3. ReadValue(TypeOf(kind, f), fm.values[f]) = Blank
      BY <2>3, <2>5, <3>2 DEF ReadValue
    <3>4. QED
      BY <2>4, <3>1, <3>3
  <2>6. CASE ~(kind = "roleMapping" /\ f \in Identities \ {fm.identity})
    <3>1. object[f] = ReadValue(TypeOf(kind, f), fm.values[f])
      BY <1>4, <2>1, <2>3, <2>6
    <3>2. QED
      BY <2>4, <3>1
  <2>7. QED
    BY <2>5, <2>6
<1>6. ASSUME NEW f \in Fields(kind) \ C PROVE PlainValue(TypeOf(kind, f), object[f])
  <2>1. TypeOf(kind, f) \in Types /\ (f \in Identities \cup {"name"} => TypeOf(kind, f) = "text")
    BY <1>2 DEF TableFacts, FieldFacts
  <2>2. (object[f] \in {Blank, "roleMapping"} /\ f \in Identities \cup {"name"}) \/ object[f] = Default(TypeOf(kind, f))
    BY <1>1, <1>4
  <2>3. PlainValue("text", Blank) /\ PlainValue("text", "roleMapping")
    BY DEF PlainValue, Texts
  <2>4. QED
    BY <2>1, <2>2, <2>3, DefaultIsPlain
<1>7. \A f \in Fields(kind) : PlainValue(TypeOf(kind, f), object[f])
  BY <1>5, <1>6
<1>8. ASSUME kind = "roleMapping"
      PROVE  PlainObject(kind, object) /\ (Valid(fm) => StoredObject(kind, object))
  <2>1. /\ Identities \subseteq Fields(kind) /\ {"email", "group"} \subseteq C
        /\ \A f \in Identities : f \in Fields(kind) => TypeOf(kind, f) = "text"
    BY <1>2, <1>8 DEF TableFacts, KindFacts, FieldFacts
  <2>2. TypeOf(kind, "email") = "text" /\ TypeOf(kind, "group") = "text"
    BY <2>1 DEF Identities
  <2>3. object["email"] = fm.values["email"] /\ object["group"] = fm.values["group"]
    BY <1>5, <2>1, <2>2 DEF ReadValue
  <2>4. \/ fm.identity = "email" /\ fm.values["group"] = Blank
        \/ fm.identity = "group" /\ fm.values["email"] = Blank
    BY <1>1, <1>8 DEF SingleForm
  <2>5. object["apiKey"] = Blank
    BY <1>4, <1>8, <2>1, <2>4 DEF Identities
  <2>6. OneIdentity(object)
    BY <2>3, <2>4, <2>5 DEF OneIdentity, Identities
  <2>7. Valid(fm) => object["email"] # Blank \/ object["group"] # Blank
    BY <1>8, <2>3, <2>4 DEF Valid, Filled
  <2>8. QED
    BY <1>3, <1>7, <2>6, <2>7 DEF PlainObject, StoredObject, Identities
<1>9. ASSUME kind # "roleMapping" PROVE PlainObject(kind, object) /\ StoredObject(kind, object)
  BY <1>3, <1>7, <1>9 DEF PlainObject, StoredObject
<1>10. PlainObject(kind, object)
  BY <1>8, <1>9
<1>11. ToProto(kind, object) = object
  <2>1. \A f \in Fields(kind) : object[f] # Unset
    <3>1. \A f \in Fields(kind) : TypeOf(kind, f) \in Types
      BY FieldTable DEF FieldFacts
    <3>2. QED
      BY <1>7, <3>1, NotUnset
  <2>2. kind = "roleMapping" => OneIdentity(object)
    BY <1>10 DEF PlainObject
  <2>3. \A f \in Fields(kind) : ToProto(kind, object)[f] = object[f]
    BY <1>3, <1>7, <2>1, <2>2, ToProtoFacts
  <2>4. object = [f \in Fields(kind) |-> object[f]]
    BY DEF object, Prepare
  <2>5. ToProto(kind, object) = [f \in Fields(kind) |-> ToProto(kind, object)[f]]
    BY DEF ToProto
  <2>6. QED
    BY <2>3, <2>4, <2>5
<1>12. QED
  BY <1>5, <1>8, <1>9, <1>10, <1>11 DEF object

\* The paths of a bulk update.
LEMMA SentFacts ==
    ASSUME kind \in Kinds, NEW fm, FormInv(kind, fm), fm.mode = "multi"
    PROVE  /\ \A operation : Sent(fm, operation) \in SUBSET DOMAIN MultiOf[kind]
           /\ Sent(fm, "none") \cap Sent(fm, "add") = {} /\ Sent(fm, "none") \cap Sent(fm, "remove") = {}
           /\ Sent(fm, "add") \cap Sent(fm, "remove") = {}
           /\ \A f \in Sent(fm, "add") \cup Sent(fm, "remove") : TypeOf(kind, f) \in ListTypes
<1>1. FormFields("multi") = DOMAIN MultiOf[kind]
  BY DEF FormFields
<1>2. \A operation : \A f \in Sent(fm, operation) : f \in DOMAIN MultiOf[kind] /\ fm.operation[f] = operation
  BY <1>1 DEF Sent
<1>3. ASSUME NEW f \in Sent(fm, "add") \cup Sent(fm, "remove") PROVE TypeOf(kind, f) \in ListTypes
  <2>1. f \in DOMAIN MultiOf[kind] /\ fm.operation[f] # "none"
    BY <1>2
  <2>2. MultiOf[kind][f] \in Operated
    BY <2>1 DEF FormInv, MultiForm, ControlState
  <2>3. ControlFacts(kind, f)
    BY <2>1, ControlTable
  <2>4. QED
    BY <2>2, <2>3 DEF ControlFacts, Operated, ListTypes
<1>4. QED
  BY <1>2, <1>3

\* What a bulk update makes of an object: the fields that were not touched are as they were, the values that were
\* entered are there, and so are the elements that were added, and not the ones that were removed.
LEMMA BulkUpdate ==
    ASSUME kind \in Kinds, NEW fm, FormInv(kind, fm), fm.mode = "multi",
           NEW before, StoredObject(kind, before)
    PROVE  LET after == ApplyMask(kind, before, Template(fm), Sent(fm, "none"), Sent(fm, "add"), Sent(fm, "remove"))
           IN  /\ StoredObject(kind, after)
               /\ "politenessConfig" \notin AllKinds => \A f \in Fields(kind) \ fm.touched : after[f] = before[f]
               /\ \A f \in fm.touched :
                     /\ fm.values[f] # Unset
                     /\ fm.operation[f] = "add" =>
                           Elements(TypeOf(kind, f), fm.values[f]) \subseteq Elements(TypeOf(kind, f), after[f])
                     /\ fm.operation[f] = "remove" =>
                           Elements(TypeOf(kind, f), fm.values[f]) \cap Elements(TypeOf(kind, f), after[f]) = {}
                     /\ fm.operation[f] = "none" =>
                           \/ MultiOf[kind][f] \in {"reference", "chosen"} /\ fm.values[f] = Blank
                           \/ ~fm.all /\ fm.values[f] = fm.config[f]
                           \/ after[f] = ReadValue(TypeOf(kind, f), fm.values[f])
                     /\ fm.operation[f] \in {"none", "add", "remove"}
<1> DEFINE C == DOMAIN MultiOf[kind]
           template == Template(fm)
           set == Sent(fm, "none")
           add == Sent(fm, "add")
           remove == Sent(fm, "remove")
           after == ApplyMask(kind, before, template, set, add, remove)
<1>1. /\ fm.touched \subseteq C
      /\ fm.removing => {"validFrom", "validTo"} \subseteq fm.touched
      /\ \A f \in C : ControlState(MultiOf[kind][f], TypeOf(kind, f), fm.values[f], fm.config[f], f \in fm.touched,
                                   f \in fm.dirty, f \in fm.enabled, fm.operation[f], fm.removing)
      /\ fm.all => kind \in AllKinds
  BY DEF FormInv, MultiForm, BaseForm
<1>2. /\ set \in SUBSET C /\ add \in SUBSET C /\ remove \in SUBSET C
      /\ set \cap add = {} /\ set \cap remove = {} /\ add \cap remove = {}
      /\ \A f \in add \cup remove : TypeOf(kind, f) \in ListTypes
  BY SentFacts
<1>3. /\ \A f \in Fields(kind) : PlainValue(TypeOf(kind, f), template[f])
      /\ \A f \in C : fm.values[f] # Unset => template[f] = ReadValue(TypeOf(kind, f), fm.values[f])
  <2>1. \A f \in C : AnyValue(TypeOf(kind, f), fm.values[f])
    BY <1>1 DEF ControlState
  <2>2. QED
    BY <2>1, TemplateFacts
<1>4. \A f \in C : /\ f \in set <=> Sends(fm, f) /\ fm.operation[f] = "none"
                   /\ f \in add <=> Sends(fm, f) /\ fm.operation[f] = "add"
                   /\ f \in remove <=> Sends(fm, f) /\ fm.operation[f] = "remove"
  BY DEF Sent, FormFields
<1> HIDE DEF set, add, remove, template
<1>5. /\ DOMAIN after = Fields(kind)
      /\ \A f \in Fields(kind) :
            /\ f \in set => after[f] = template[f]
            /\ f \in add => after[f] = Union(TypeOf(kind, f), before[f], template[f])
            /\ f \in remove => after[f] = Difference(TypeOf(kind, f), before[f], template[f])
            /\ f \notin set \cup add \cup remove => after[f] = before[f]
  BY <1>2, MaskFacts
<1>6. StoredObject(kind, after)
  BY <1>2, <1>3, MaskedIsStored
<1>7. C \subseteq Fields(kind)
  BY ControlsAreFields
<1>8. \A f \in Fields(kind) : PlainValue(TypeOf(kind, f), before[f])
  BY DEF StoredObject, PlainObject
<1> HIDE DEF after
\* The rules of prepareMultiSave.
<1>9. ASSUME NEW f \in C
      PROVE  /\ "politenessConfig" \notin AllKinds /\ MultiOf[kind][f] = "enabled" => ~fm.all
             /\ MultiOf[kind][f] = "validity" /\ fm.removing => f \in fm.touched
             /\ MultiOf[kind][f] \in {"labels", "toggled", "selectors", "selection", "changed", "typed", "validity",
                                      "reference", "chosen", "enabled"}
             /\ MultiOf[kind][f] = "labels" <=> TypeOf(kind, f) = "chips"
             /\ MultiOf[kind][f] = "selectors" <=> TypeOf(kind, f) = "selectors"
             /\ MultiOf[kind][f] = "toggled" => TypeOf(kind, f) = "list"
  <2>1. ControlFacts(kind, f)
    BY ControlTable
  <2>2. QED
    BY <1>1, <2>1 DEF ControlFacts
<1>10. ASSUME "politenessConfig" \notin AllKinds, NEW f \in C, Sends(fm, f), f \notin fm.touched
       PROVE  MultiOf[kind][f] = "toggled" /\ fm.operation[f] # "none" /\ fm.values[f] = {}
  <2>1. ControlState(MultiOf[kind][f], TypeOf(kind, f), fm.values[f], fm.config[f], f \in fm.touched,
                     f \in fm.dirty, f \in fm.enabled, fm.operation[f], fm.removing)
    BY <1>1, <1>10
  <2>2. MultiOf[kind][f] \notin Operated => ~Sends(fm, f)
    BY <1>9, <1>10, <2>1 DEF ControlState, Operated, Sends
  <2>3. MultiOf[kind][f] \in Operated /\ fm.operation[f] # "none" /\ fm.values[f] = Default(TypeOf(kind, f))
    <3>1. MultiOf[kind][f] \in Operated
      BY <1>10, <2>2
    <3>2. fm.operation[f] # "none"
      BY <1>10, <3>1 DEF Operated, Sends
    <3>3. QED
      BY <1>10, <2>1, <3>1, <3>2 DEF ControlState
  <2>4. CASE MultiOf[kind][f] = "labels"
    <3>1. fm.values[f] = <<>>
      BY <1>9, <2>3, <2>4 DEF Default
    <3>2. ~Sends(fm, f)
      BY <2>4, <3>1 DEF Sends
    <3>3. QED
      BY <1>10, <3>2
  <2>5. CASE MultiOf[kind][f] = "selectors"
    <3>1. fm.values[f] = {}
      BY <1>9, <2>3, <2>5 DEF Default
    <3>2. ~Sends(fm, f)
      BY <2>5, <3>1 DEF Sends
    <3>3. QED
      BY <1>10, <3>2
  <2>6. CASE MultiOf[kind][f] = "toggled"
    <3>1. fm.values[f] = {}
      BY <1>9, <2>3, <2>6 DEF Default
    <3>2. QED
      BY <2>3, <2>6, <3>1
  <2>7. QED
    BY <2>3, <2>4, <2>5, <2>6 DEF Operated
<1>11. ASSUME "politenessConfig" \notin AllKinds, NEW f \in Fields(kind) \ fm.touched PROVE after[f] = before[f]
  <2>1. CASE f \in C /\ Sends(fm, f)
    <3>1. /\ MultiOf[kind][f] = "toggled" /\ fm.operation[f] # "none" /\ fm.values[f] = {}
          /\ TypeOf(kind, f) = "list"
      BY <1>9, <1>10, <1>11, <2>1
    <3>2. {} # Unset
      BY UnsetAssumption
    <3>3. template[f] = {}
      BY <1>3, <2>1, <3>1, <3>2 DEF ReadValue
    <3>4. f \notin set
      BY <1>4, <2>1, <3>1
    <3>5. Union("list", before[f], {}) = before[f] /\ Difference("list", before[f], {}) = before[f]
      <4>1. PlainValue("list", before[f]) /\ PlainValue("list", {})
        BY <1>8, <3>1 DEF PlainValue
      <4>2. QED
        BY <4>1, AddedAndRemoved DEF ListTypes
    <3>6. QED
      BY <1>5, <3>1, <3>3, <3>4, <3>5
  <2>2. CASE ~(f \in C /\ Sends(fm, f))
    <3>1. f \notin set \cup add \cup remove
      BY <1>2, <1>4, <2>2
    <3>2. QED
      BY <1>5, <3>1
  <2>3. QED
    BY <2>1, <2>2
<1>12. ASSUME NEW f \in fm.touched
       PROVE  /\ fm.values[f] # Unset
              /\ fm.operation[f] = "add" =>
                    Elements(TypeOf(kind, f), fm.values[f]) \subseteq Elements(TypeOf(kind, f), after[f])
              /\ fm.operation[f] = "remove" =>
                    Elements(TypeOf(kind, f), fm.values[f]) \cap Elements(TypeOf(kind, f), after[f]) = {}
              /\ fm.operation[f] = "none" =>
                    \/ MultiOf[kind][f] \in {"reference", "chosen"} /\ fm.values[f] = Blank
                    \/ ~fm.all /\ fm.values[f] = fm.config[f]
                    \/ after[f] = ReadValue(TypeOf(kind, f), fm.values[f])
              /\ fm.operation[f] \in {"none", "add", "remove"}
  <2>0. f \in C /\ f \in Fields(kind)
    BY <1>1, <1>7
  <2>1. ControlState(MultiOf[kind][f], TypeOf(kind, f), fm.values[f], fm.config[f], f \in fm.touched,
                     f \in fm.dirty, f \in fm.enabled, fm.operation[f], fm.removing)
    BY <1>1, <1>12
  <2>2. fm.values[f] # Unset /\ fm.operation[f] \in {"none", "add", "remove"}
    BY <2>1 DEF ControlState
  <2>3. template[f] = ReadValue(TypeOf(kind, f), fm.values[f])
    BY <1>3, <2>0, <2>2
  <2>4. CASE fm.operation[f] = "none"
    <3>1. \/ MultiOf[kind][f] \in {"reference", "chosen"} /\ fm.values[f] = Blank
          \/ ~fm.all /\ fm.values[f] = fm.config[f]
          \/ Sends(fm, f)
      BY <1>1, <1>9, <2>0, <2>1, <2>2, <2>4 DEF ControlState, Operated, Sends, BaseForm, FormInv
    <3>2. Sends(fm, f) => after[f] = template[f]
      BY <1>4, <1>5, <2>0, <2>4
    <3>3. QED
      BY <2>2, <2>3, <2>4, <3>1, <3>2
  <2>5. CASE fm.operation[f] \in {"add", "remove"}
    <3> DEFINE type == TypeOf(kind, f)
               v == fm.values[f]
    <3>1. MultiOf[kind][f] \in Operated
      BY <2>1, <2>5 DEF ControlState
    <3>2. type \in ListTypes /\ PlainValue(type, v)
      BY <1>9, <2>0, <2>1, <2>2, <3>1 DEF ControlState, Operated, ListTypes, AnyValue, InputValue, PlainValue
    <3>3. template[f] = v
      BY <2>3, <3>2 DEF ReadValue, ListTypes
    <3>4. PlainValue(type, before[f])
      BY <1>8, <2>0
    <3>5. /\ Elements(type, v) \subseteq Elements(type, Union(type, before[f], v))
          /\ Elements(type, v) \cap Elements(type, Difference(type, before[f], v)) = {}
      BY <3>2, <3>4, AddedAndRemoved
    <3>6. CASE Sends(fm, f)
      <4>1. /\ fm.operation[f] = "add" => after[f] = Union(type, before[f], v)
            /\ fm.operation[f] = "remove" => after[f] = Difference(type, before[f], v)
        BY <1>4, <1>5, <2>0, <3>3, <3>6
      <4>2. QED
        BY <2>2, <2>5, <3>5, <4>1
    <3>7. CASE ~Sends(fm, f)
      <4>1. \/ MultiOf[kind][f] = "labels" /\ v = <<>>
            \/ MultiOf[kind][f] = "selectors" /\ v = {}
        BY <2>5, <3>1, <3>7 DEF Operated, Sends
      <4>2. Elements(type, v) = {}
        BY <1>9, <2>0, <4>1 DEF Elements, ToSet
      <4>3. QED
        BY <2>2, <2>5, <4>2
    <3>8. QED
      BY <3>6, <3>7
  <2>6. QED
    BY <2>2, <2>4, <2>5
<1>13. QED
  BY <1>6, <1>11, <1>12 DEF after, template, set, add, remove

(***************************************************************************)
(* Editing                                                                 *)
(***************************************************************************)

\* The form is that of the same objects.
Same(fm, new) ==
    /\ DOMAIN new = FormKeys
    /\ new.mode = fm.mode /\ new.ids = fm.ids /\ new.all = fm.all /\ new.config = fm.config
    /\ new.answers = fm.answers

\* The inputs are left alone.
LEMMA OtherParts ==
    ASSUME NEW k, NEW fm, FormInv(k, fm), NEW new, BaseForm(k, new),
           new.mode = fm.mode, new.ids = fm.ids, new.config = fm.config, new.values = fm.values,
           new.dirty = fm.dirty, new.touched = fm.touched, new.operation = fm.operation, new.enabled = fm.enabled,
           new.removing = fm.removing, new.identity = fm.identity
    PROVE  FormInv(k, new)
BY DEF FormInv, SingleForm, MultiForm

\* One input of a single object is edited.
LEMMA SingleEdit ==
    ASSUME NEW k \in Kinds, NEW fm, FormInv(k, fm), fm.mode # "multi",
           NEW f \in DetailsOf[k].controls, NEW v, InputValue(TypeOf(k, f), v),
           k = "roleMapping" /\ f \in {"email", "group"} => f = fm.identity,
           NEW new, Same(fm, new), new.clicked \in {fm.clicked, Closed},
           new.values = [fm.values EXCEPT ![f] = v], new.dirty = fm.dirty \cup {f},
           new.touched = fm.touched \cup {f}, new.operation = fm.operation, new.enabled = fm.enabled,
           new.removing = FALSE, new.identity = fm.identity
    PROVE  FormInv(k, new)
<1>1. BaseForm(k, new)
  BY DEF FormInv, BaseForm, Same
<1>2. SingleForm(k, fm) /\ DOMAIN fm.values = DetailsOf[k].controls
  BY DEF FormInv, ControlsOf
<1>3. /\ new.values[f] = v
      /\ \A g \in DetailsOf[k].controls : g # f => new.values[g] = fm.values[g]
      /\ DOMAIN new.values = DOMAIN fm.values
  BY <1>2
<1>4. \A g \in DetailsOf[k].controls :
          /\ InputValue(TypeOf(k, g), new.values[g])
          /\ g \in new.touched \/ Shows(k, g, new.values[g], fm.config)
  BY <1>2, <1>3 DEF SingleForm
<1>5. CASE k = "roleMapping"
  <2>1. TableFacts(k)
    BY Tables
  <2>2. "email" \in DetailsOf[k].controls /\ "group" \in DetailsOf[k].controls
    BY <1>5, <2>1 DEF TableFacts, KindFacts
  <2>3. \/ new.identity = "email" /\ new.values["group"] = Blank
        \/ new.identity = "group" /\ new.values["email"] = Blank
    BY <1>2, <1>3, <1>5, <2>2 DEF SingleForm
  <2>4. SingleForm(k, new)
    BY <1>2, <1>4, <1>5, <2>3 DEF SingleForm, Same
  <2>5. QED
    BY <1>1, <1>3, <2>4 DEF FormInv, Same
<1>6. CASE k # "roleMapping"
  <2>1. SingleForm(k, new)
    BY <1>2, <1>4, <1>6 DEF SingleForm, Same
  <2>2. QED
    BY <1>1, <1>3, <2>1 DEF FormInv, Same
<1>7. QED
  BY <1>5, <1>6

\* A bulk dialog is edited.
LEMMA MultiEdit ==
    ASSUME NEW k \in Kinds, NEW fm, FormInv(k, fm), fm.mode = "multi",
           NEW new, Same(fm, new), new.clicked = fm.clicked,
           DOMAIN new.values = DOMAIN fm.values, DOMAIN new.operation = DOMAIN fm.operation,
           new.enabled \subseteq DOMAIN MultiOf[k], MultiForm(k, new)
    PROVE  FormInv(k, new)
BY DEF FormInv, BaseForm, Same, ControlsOf

\* What the state of a control says once one has its parts.
LEMMA MultiParts ==
    ASSUME NEW k \in Kinds, NEW fm, FormInv(k, fm), fm.mode = "multi"
    PROVE  /\ MultiForm(k, fm)
           /\ DOMAIN fm = FormKeys
           /\ DOMAIN fm.values = DOMAIN MultiOf[k] /\ DOMAIN fm.operation = DOMAIN MultiOf[k]
           /\ fm.enabled \subseteq DOMAIN MultiOf[k]
BY DEF FormInv, BaseForm, ControlsOf

\* The same for the form of one object.
LEMMA SingleParts ==
    ASSUME NEW k \in Kinds, NEW fm, FormInv(k, fm), fm.mode # "multi"
    PROVE  /\ SingleForm(k, fm)
           /\ DOMAIN fm = FormKeys
           /\ DOMAIN fm.values = DetailsOf[k].controls /\ DOMAIN fm.operation = DetailsOf[k].controls
           /\ fm.enabled \subseteq DetailsOf[k].controls
BY DEF FormInv, BaseForm, ControlsOf

\* A value is entered.
LEMMA EnterKeeps ==
    ASSUME kind \in Kinds, form # Closed, FormInv(kind, form), NEW f \in Fields(kind), NEW v \in Entries(f), Enter(f, v)
    PROVE  FormInv(kind, form')
<1> DEFINE new == [form EXCEPT !.values = [form.values EXCEPT ![f] = v],
                               !.dirty = form.dirty \cup {f},
                               !.touched = (IF form.removing THEN form.touched \ ({"validFrom", "validTo"} \ form.dirty)
                                            ELSE form.touched) \cup {f},
                               !.removing = FALSE,
                               !.checking = form.checking \/ NeedsCheck(f)]
<1>0. DOMAIN form = FormKeys
  BY DEF FormInv, BaseForm
<1>1. form' = new /\ f \in FormFields(form.mode) /\ Enabled(f)
  BY DEF Enter, EditForm
<1>2. InputValue(TypeOf(kind, f), v) /\ TypeOf(kind, f) \notin ListTypes
  BY EntriesAreInput
<1>3. f \in ControlsOf(kind, form.mode)
  BY <1>1, FieldsOfForm
<1>4. /\ Same(form, new) /\ new.clicked = form.clicked
      /\ new.values = [form.values EXCEPT ![f] = v]
      /\ new.dirty = form.dirty \cup {f}
      /\ new.touched = (IF form.removing THEN form.touched \ ({"validFrom", "validTo"} \ form.dirty)
                        ELSE form.touched) \cup {f}
      /\ new.operation = form.operation /\ new.enabled = form.enabled /\ new.identity = form.identity
      /\ new.removing = FALSE
  BY <1>0, SMT DEF Same, FormKeys
<1> HIDE DEF new
<1>5. CASE form.mode # "multi"
  <2>1. SingleForm(kind, form)
    BY <1>5, SingleParts
  <2>2. form.removing = FALSE
    BY <2>1 DEF SingleForm
  <2>3. new.touched = form.touched \cup {f}
    BY <1>4, <2>2
  <2>4. f \in DetailsOf[kind].controls /\ (f \in {"email", "group"} => f = form.identity)
    BY <1>1, <1>3, <1>5 DEF ControlsOf, Enabled
  <2>5. FormInv(kind, new)
    BY <1>2, <1>4, <1>5, <2>3, <2>4, SingleEdit
  <2>6. QED
    BY <1>1, <2>5
<1>6. CASE form.mode = "multi"
  <2> DEFINE C == DOMAIN MultiOf[kind]
  <2>1. /\ MultiForm(kind, form)
        /\ DOMAIN form.values = C /\ DOMAIN form.operation = C /\ form.enabled \subseteq C
        /\ f \in C
    BY <1>3, <1>6, MultiParts DEF ControlsOf
  <2>2. \A g \in C : ControlFacts(kind, g)
    BY ControlTable
  <2>3. ASSUME NEW g \in C
        PROVE  ControlState(MultiOf[kind][g], TypeOf(kind, g), new.values[g], new.config[g], g \in new.touched,
                            g \in new.dirty, g \in new.enabled, new.operation[g], new.removing)
    <3>1. ControlState(MultiOf[kind][g], TypeOf(kind, g), form.values[g], form.config[g], g \in form.touched,
                       g \in form.dirty, g \in form.enabled, form.operation[g], form.removing)
      BY <2>1 DEF MultiForm
    <3>2. CASE g = f
      <4>1. new.values[g] = v /\ g \in new.touched /\ g \in new.dirty /\ g \in new.enabled
        BY <1>1, <1>4, <2>1, <3>2 DEF Enabled
      <4>2. MultiOf[kind][g] \notin Operated
        BY <1>2, <2>2, <3>2 DEF ControlFacts, Operated, ListTypes
      <4>3. v # Unset
        <5>1. FieldFacts(kind, f)
          BY FieldTable
        <5>2. QED
          BY <1>2, <5>1, NotUnset DEF FieldFacts, InputValue, PlainValue
      <4>4. new.operation[g] = "none"
        BY <1>4, <3>1, <4>2 DEF ControlState
      <4>5. AnyValue(TypeOf(kind, g), v)
        BY <1>2, <3>2 DEF AnyValue
      <4>6. QED
        BY <4>1, <4>2, <4>3, <4>4, <4>5 DEF ControlState
    <3>3. CASE g # f
      <4>1. /\ new.values[g] = form.values[g] /\ new.config[g] = form.config[g]
            /\ g \in new.dirty <=> g \in form.dirty
            /\ new.operation[g] = form.operation[g]
            /\ g \in new.enabled <=> g \in form.enabled
        BY <1>4, <2>1, <3>3 DEF Same
      <4>2. g \in new.touched <=> /\ g \in form.touched
                                  /\ ~(form.removing /\ g \in {"validFrom", "validTo"} /\ g \notin form.dirty)
        BY <1>4, <3>3
      <4>3. MultiOf[kind][g] = "validity" <=> g \in {"validFrom", "validTo"}
        BY <2>2 DEF ControlFacts
      <4>4. CASE g \in {"validFrom", "validTo"}
        <5>1. MultiOf[kind][g] = "validity"
          BY <4>3, <4>4
        <5>2. QED
          BY <1>4, <3>1, <4>1, <4>2, <4>4, <5>1 DEF ControlState, Operated
      <4>5. CASE g \notin {"validFrom", "validTo"}
        <5>1. MultiOf[kind][g] # "validity"
          BY <4>3, <4>5
        <5>2. g \in new.touched <=> g \in form.touched
          BY <4>2, <4>5
        <5>3. QED
          BY <3>1, <4>1, <5>1, <5>2 DEF ControlState
      <4>6. QED
        BY <4>4, <4>5
    <3>4. QED
      BY <3>2, <3>3
  <2>4. MultiForm(kind, new)
    BY <1>4, <2>1, <2>3 DEF MultiForm
  <2>5. FormInv(kind, new)
    BY <1>4, <1>6, <2>1, <2>4, MultiEdit
  <2>6. QED
    BY <1>1, <2>5
<1>7. QED
  BY <1>5, <1>6

\* One control of a bulk dialog is edited.
LEMMA MultiOne ==
    ASSUME NEW k \in Kinds, NEW fm, FormInv(k, fm), fm.mode = "multi", NEW f \in DOMAIN MultiOf[k],
           NEW new, Same(fm, new), new.clicked = fm.clicked, new.removing = fm.removing,
           DOMAIN new.values = DOMAIN fm.values, DOMAIN new.operation = DOMAIN fm.operation,
           new.enabled = fm.enabled,
           \A g \in DOMAIN MultiOf[k] :
              g # f => /\ new.values[g] = fm.values[g] /\ new.operation[g] = fm.operation[g]
                       /\ g \in new.touched <=> g \in fm.touched
                       /\ g \in new.dirty <=> g \in fm.dirty,
           new.touched \subseteq DOMAIN MultiOf[k],
           f \in new.touched \/ f \notin {"validFrom", "validTo"},
           ControlState(MultiOf[k][f], TypeOf(k, f), new.values[f], fm.config[f], f \in new.touched,
                        f \in new.dirty, f \in new.enabled, new.operation[f], new.removing)
    PROVE  FormInv(k, new)
<1>1. /\ MultiForm(k, fm)
      /\ fm.enabled \subseteq DOMAIN MultiOf[k]
  BY MultiParts
<1>2. ASSUME NEW g \in DOMAIN MultiOf[k]
      PROVE  ControlState(MultiOf[k][g], TypeOf(k, g), new.values[g], new.config[g], g \in new.touched,
                          g \in new.dirty, g \in new.enabled, new.operation[g], new.removing)
  <2>1. CASE g = f
    BY <2>1 DEF Same
  <2>2. CASE g # f
    <3>1. ControlState(MultiOf[k][g], TypeOf(k, g), fm.values[g], fm.config[g], g \in fm.touched,
                       g \in fm.dirty, g \in fm.enabled, fm.operation[g], fm.removing)
      BY <1>1 DEF MultiForm
    <3>2. /\ new.values[g] = fm.values[g] /\ new.operation[g] = fm.operation[g]
          /\ g \in new.touched <=> g \in fm.touched
          /\ g \in new.dirty <=> g \in fm.dirty
          /\ new.config[g] = fm.config[g] /\ new.enabled = fm.enabled /\ new.removing = fm.removing
      BY <2>2 DEF Same
    <3>3. QED
      BY <3>1, <3>2 DEF ControlState
  <2>3. QED
    BY <2>1, <2>2
<1>3. new.removing => k = "crawlScheduleConfig" /\ {"validFrom", "validTo"} \subseteq new.touched
  <2> HAVE new.removing
  <2>1. k = "crawlScheduleConfig" /\ {"validFrom", "validTo"} \subseteq fm.touched
    BY <1>1 DEF MultiForm
  <2>2. "validFrom" \in DOMAIN MultiOf[k] /\ "validTo" \in DOMAIN MultiOf[k]
    BY <1>1, <2>1 DEF MultiForm
  <2>3. QED
    BY <2>1, <2>2
<1>4. new.removing \in BOOLEAN
  BY <1>1 DEF MultiForm
<1>5. MultiForm(k, new)
  BY <1>2, <1>3, <1>4 DEF MultiForm
<1>6. QED
  BY <1>1, <1>5, MultiEdit

\* A choice is taken back.
LEMMA DeselectKeeps ==
    ASSUME kind \in Kinds, form # Closed, FormInv(kind, form), NEW f \in Fields(kind), Deselect(f)
    PROVE  FormInv(kind, form')
<1> DEFINE new == [form EXCEPT !.values = [form.values EXCEPT ![f] = Unset], !.dirty = form.dirty \ {f},
                               !.touched = form.touched \ {f}]
           C == DOMAIN MultiOf[kind]
<1>0. DOMAIN form = FormKeys
  BY DEF FormInv, BaseForm
<1>1. form' = new /\ form.mode = "multi" /\ f \in C /\ MultiOf[kind][f] = "selection"
  BY DEF Deselect, EditForm, FormFields
<1>2. /\ Same(form, new) /\ new.clicked = form.clicked
      /\ new.values = [form.values EXCEPT ![f] = Unset]
      /\ new.dirty = form.dirty \ {f} /\ new.touched = form.touched \ {f}
      /\ new.operation = form.operation /\ new.enabled = form.enabled /\ new.removing = form.removing
  BY <1>0, SMT DEF Same, FormKeys
<1> HIDE DEF new
<1>3. MultiForm(kind, form) /\ DOMAIN form.values = C
  BY <1>1, MultiParts
<1>4. ControlFacts(kind, f)
  BY <1>1, ControlTable
<1>5. ControlState(MultiOf[kind][f], TypeOf(kind, f), new.values[f], form.config[f], f \in new.touched,
                   f \in new.dirty, f \in new.enabled, new.operation[f], new.removing)
  <2>1. ControlState(MultiOf[kind][f], TypeOf(kind, f), form.values[f], form.config[f], f \in form.touched,
                     f \in form.dirty, f \in form.enabled, form.operation[f], form.removing)
    BY <1>1, <1>3 DEF MultiForm
  <2>2. new.values[f] = Unset /\ f \notin new.touched /\ f \notin new.dirty
    BY <1>1, <1>2, <1>3
  <2>3. AnyValue(TypeOf(kind, f), Unset)
    BY <1>1, <1>4 DEF ControlFacts, AnyValue, ListTypes
  <2>4. new.operation[f] = "none"
    BY <1>1, <1>2, <2>1 DEF ControlState, Operated
  <2>5. QED
    BY <1>1, <2>2, <2>3, <2>4 DEF ControlState, Operated
<1>6. f \notin {"validFrom", "validTo"}
  BY <1>1, <1>4 DEF ControlFacts
<1>7. new.touched \subseteq C
  BY <1>2, <1>3 DEF MultiForm
<1>8. \A g \in C : g # f => /\ new.values[g] = form.values[g] /\ new.operation[g] = form.operation[g]
                            /\ g \in new.touched <=> g \in form.touched
                            /\ g \in new.dirty <=> g \in form.dirty
  BY <1>2, <1>3
<1>9. DOMAIN new.values = DOMAIN form.values
  BY <1>2
<1>10. FormInv(kind, new)
  BY <1>1, <1>2, <1>5, <1>6, <1>7, <1>8, <1>9, MultiOne
<1>11. QED
  BY <1>1, <1>10

\* A list is edited: elements or chips.
LEMMA ListKeeps ==
    ASSUME kind \in Kinds, form # Closed, FormInv(kind, form), NEW f \in ControlsOf(kind, form.mode),
           Enabled(f), TypeOf(kind, f) \in ListTypes, NEW v, InputValue(TypeOf(kind, f), v),
           NEW new, Same(form, new), new.clicked = form.clicked, new.values = [form.values EXCEPT ![f] = v],
           new.dirty = IF form.mode = "multi" /\ TypeOf(kind, f) = "chips" THEN form.dirty ELSE form.dirty \cup {f},
           new.touched = form.touched \cup {f}, new.operation = form.operation, new.enabled = form.enabled,
           new.removing = form.removing, new.identity = form.identity
    PROVE  FormInv(kind, new)
<1>1. CASE form.mode # "multi"
  <2>1. SingleForm(kind, form)
    BY <1>1, SingleParts
  <2>2. f \in DetailsOf[kind].controls /\ (f \in {"email", "group"} => f = form.identity)
    BY <1>1 DEF ControlsOf, Enabled
  <2>3. new.removing = FALSE /\ new.dirty = form.dirty \cup {f}
    BY <1>1, <2>1 DEF SingleForm
  <2>4. QED
    BY <1>1, <2>2, <2>3, SingleEdit
<1>2. CASE form.mode = "multi"
  <2> DEFINE C == DOMAIN MultiOf[kind]
  <2>1. MultiForm(kind, form) /\ DOMAIN form.values = C /\ f \in C
    BY <1>2, MultiParts DEF ControlsOf
  <2>2. ControlFacts(kind, f)
    BY <2>1, ControlTable
  <2>3. ControlState(MultiOf[kind][f], TypeOf(kind, f), new.values[f], form.config[f], f \in new.touched,
                     f \in new.dirty, f \in new.enabled, new.operation[f], new.removing)
    <3>1. ControlState(MultiOf[kind][f], TypeOf(kind, f), form.values[f], form.config[f], f \in form.touched,
                       f \in form.dirty, f \in form.enabled, form.operation[f], form.removing)
      BY <2>1 DEF MultiForm
    <3>2. new.values[f] = v /\ f \in new.touched /\ f \in new.enabled
      BY <2>1 DEF Enabled
    <3>3. v # Unset
      <4>1. TypeOf(kind, f) \in Types
        BY DEF ListTypes, Types
      <4>2. QED
        BY <4>1, NotUnset DEF InputValue
    <3>4. AnyValue(TypeOf(kind, f), v)
      BY DEF AnyValue
    <3>5. CASE MultiOf[kind][f] \in Operated
      <4>1. new.operation[f] # "none"
        BY <1>2, <3>5 DEF Enabled, Operated
      <4>2. new.operation[f] \in {"none", "add", "remove"}
        BY <3>1 DEF ControlState
      <4>3. QED
        BY <3>2, <3>3, <3>4, <3>5, <4>1, <4>2 DEF ControlState, Operated
    <3>6. CASE MultiOf[kind][f] \notin Operated
      <4>1. new.operation[f] = "none"
        BY <3>1, <3>6 DEF ControlState
      <4>2. f \in new.dirty
        BY <2>2, <3>6 DEF ControlFacts, Operated
      <4>3. QED
        BY <3>2, <3>3, <3>4, <3>6, <4>1, <4>2 DEF ControlState
    <3>7. QED
      BY <3>5, <3>6
  <2>4. new.touched \subseteq C
    BY <2>1 DEF MultiForm
  <2>5. \A g \in C : g # f => /\ new.values[g] = form.values[g] /\ new.operation[g] = form.operation[g]
                              /\ g \in new.touched <=> g \in form.touched
                              /\ g \in new.dirty <=> g \in form.dirty
    BY <2>1
  <2>6. DOMAIN new.values = DOMAIN form.values /\ f \in new.touched
    OBVIOUS
  <2>7. QED
    BY <1>2, <2>1, <2>3, <2>4, <2>5, <2>6, MultiOne
<1>3. QED
  BY <1>1, <1>2

\* ToggleItem keeps the invariant, in forms of one object and in bulk dialogs.
LEMMA ToggleItemKeeps ==
    ASSUME kind \in Kinds, form # Closed, FormInv(kind, form), NEW f \in Fields(kind), NEW item \in Items(f),
           ToggleItem(f, item)
    PROVE  FormInv(kind, form')
<1> DEFINE v == IF item \in form.values[f] THEN form.values[f] \ {item} ELSE form.values[f] \cup {item}
           new == [form EXCEPT !.values = [form.values EXCEPT ![f] = v], !.dirty = form.dirty \cup {f},
                               !.touched = form.touched \cup {f}]
<1>0. DOMAIN form = FormKeys
  BY DEF FormInv, BaseForm
<1>1. f \in ControlsOf(kind, form.mode) /\ Enabled(f) /\ TypeOf(kind, f) \in {"list", "selectors"}
  BY FieldsOfForm DEF ToggleItem
<1>2. DOMAIN form.values = ControlsOf(kind, form.mode)
  BY DEF FormInv
<1>3. form' = new
  BY DEF ToggleItem, EditForm
<1>4. InputValue(TypeOf(kind, f), form.values[f])
  <2>1. CASE form.mode # "multi"
    BY <1>1, <2>1 DEF FormInv, SingleForm, ControlsOf
  <2>2. CASE form.mode = "multi"
    <3>1. AnyValue(TypeOf(kind, f), form.values[f])
      BY <1>1, <2>2 DEF FormInv, MultiForm, ControlsOf, ControlState
    <3>2. QED
      BY <1>1, <3>1 DEF AnyValue, ListTypes
  <2>3. QED
    BY <2>1, <2>2
<1>5. InputValue(TypeOf(kind, f), v)
  <2>1. CASE TypeOf(kind, f) = "list"
    <3>1. form.values[f] \in SUBSET Texts
      BY <1>4, <2>1 DEF InputValue, PlainValue
    <3>2. item \in {"x", "z", "invalid"}
      BY <2>1, SMT DEF Items
    <3>3. item \in Texts
      BY <3>2 DEF Texts
    <3>4. v \in SUBSET Texts
      BY <3>1, <3>3
    <3>5. QED
      BY <2>1, <3>4 DEF InputValue, PlainValue
  <2>2. CASE TypeOf(kind, f) = "selectors"
    <3>1. form.values[f] \in SUBSET Pairs
      BY <1>4, <2>2 DEF InputValue, PlainValue
    <3>2. item \in Pairs
      BY <2>2 DEF Items, Pairs
    <3>3. v \in SUBSET Pairs
      BY <3>1, <3>2
    <3>4. Pairs \subseteq Selectors
      BY DEF Pairs, Selectors
    <3>5. QED
      BY <2>2, <3>3, <3>4 DEF InputValue, PlainValue
  <2>3. QED
    BY <1>1, <2>1, <2>2
<1> HIDE DEF v
<1>6. /\ Same(form, new) /\ new.clicked = form.clicked
      /\ new.values = [form.values EXCEPT ![f] = v]
      /\ new.dirty = form.dirty \cup {f} /\ new.touched = form.touched \cup {f}
      /\ new.operation = form.operation /\ new.enabled = form.enabled /\ new.removing = form.removing
      /\ new.identity = form.identity
  BY <1>0, SMT DEF Same, FormKeys
<1> HIDE DEF new
<1>7. TypeOf(kind, f) \in ListTypes /\ TypeOf(kind, f) # "chips"
  BY <1>1 DEF ListTypes
<1>8. FormInv(kind, new)
  BY <1>1, <1>5, <1>6, <1>7, ListKeeps
<1>9. QED
  BY <1>3, <1>8

\* ToggleChip keeps it: AddChip and RemoveChip make chips.
LEMMA ToggleChipKeeps ==
    ASSUME kind \in Kinds, form # Closed, FormInv(kind, form), NEW f \in Fields(kind), NEW chip \in {"x", "z"},
           ToggleChip(f, chip)
    PROVE  FormInv(kind, form')
<1>1. f \in ControlsOf(kind, form.mode) /\ Enabled(f) /\ TypeOf(kind, f) = "chips"
  BY FieldsOfForm DEF ToggleChip
<1>2. DOMAIN form.values = ControlsOf(kind, form.mode) /\ DOMAIN form = FormKeys
  BY DEF FormInv, BaseForm
<1>3. form.values[f] \in Seq(Texts)
  <2>1. CASE form.mode # "multi"
    BY <1>1, <2>1 DEF FormInv, SingleForm, ControlsOf, InputValue, PlainValue
  <2>2. CASE form.mode = "multi"
    <3>1. AnyValue(TypeOf(kind, f), form.values[f])
      BY <1>1, <2>2 DEF FormInv, MultiForm, ControlsOf, ControlState
    <3>2. QED
      BY <1>1, <3>1 DEF AnyValue, ListTypes, InputValue, PlainValue
  <2>3. QED
    BY <2>1, <2>2
<1>4. chip \in Texts
  BY DEF Texts
<1>5. ASSUME NEW v \in Seq(Texts), EditChips(f, v) PROVE FormInv(kind, form')
  <2> DEFINE new == [form EXCEPT !.values = [form.values EXCEPT ![f] = v],
                                 !.dirty = IF form.mode = "multi" THEN form.dirty ELSE form.dirty \cup {f},
                                 !.touched = form.touched \cup {f}]
  <2>1. form' = new
    BY <1>5 DEF EditChips, EditForm
  <2>2. /\ Same(form, new) /\ new.clicked = form.clicked
        /\ new.values = [form.values EXCEPT ![f] = v]
        /\ new.dirty = (IF form.mode = "multi" THEN form.dirty ELSE form.dirty \cup {f})
        /\ new.touched = form.touched \cup {f}
        /\ new.operation = form.operation /\ new.enabled = form.enabled /\ new.removing = form.removing
        /\ new.identity = form.identity
    BY <1>2, SMT DEF Same, FormKeys
  <2> HIDE DEF new
  <2>3. TypeOf(kind, f) \in ListTypes /\ InputValue(TypeOf(kind, f), v)
    BY <1>1 DEF ListTypes, InputValue, PlainValue
  <2>4. new.dirty = IF form.mode = "multi" /\ TypeOf(kind, f) = "chips" THEN form.dirty ELSE form.dirty \cup {f}
    BY <1>1, <2>2
  <2>5. FormInv(kind, new)
    BY <1>1, <2>2, <2>3, <2>4, ListKeeps
  <2>6. QED
    BY <2>1, <2>5
<1>6. AddChip(form.values[f], chip) \in Seq(Texts) /\ RemoveChip(form.values[f], chip) \in Seq(Texts)
  <2>1. 1 \in Nat
    OBVIOUS
  <2>2. QED
    BY <1>3, <1>4, <2>1, ChipsType
<1>7. QED
  BY <1>5, <1>6 DEF ToggleChip

\* A chip is clicked, the dialog of the chip is left, and the validator answers.
LEMMA ClickChipKeeps ==
    ASSUME kind \in Kinds, form # Closed, FormInv(kind, form), NEW f \in Fields(kind), NEW index \in {1, 2},
           ClickChip(f, index)
    PROVE  FormInv(kind, form')
<1> DEFINE new == [form EXCEPT !.clicked = [field |-> f, index |-> index]]
<1>0. DOMAIN form = FormKeys /\ BaseForm(kind, form)
  BY DEF FormInv, BaseForm
<1>1. form' = new /\ form.mode # "multi" /\ f \in DetailsOf[kind].controls /\ TypeOf(kind, f) = "chips"
  BY DEF ClickChip, EditForm, FormFields
<1>2. /\ DOMAIN new = FormKeys
      /\ new.mode = form.mode /\ new.ids = form.ids /\ new.all = form.all /\ new.config = form.config
      /\ new.values = form.values /\ new.dirty = form.dirty /\ new.touched = form.touched
      /\ new.operation = form.operation /\ new.enabled = form.enabled /\ new.removing = form.removing
      /\ new.identity = form.identity /\ new.answers = form.answers
      /\ new.clicked = [field |-> f, index |-> index]
  BY <1>0, SMT DEF FormKeys
<1> HIDE DEF new
<1>3. new.clicked.field = f /\ new.clicked.index \in Nat
  BY <1>2
<1>4. BaseForm(kind, new)
  BY <1>0, <1>1, <1>2, <1>3 DEF BaseForm
<1>5. FormInv(kind, new)
  BY <1>2, <1>4, OtherParts
<1>6. QED
  BY <1>1, <1>5

\* Closing the dialog of a chip keeps it, and so does the answer of the validator.
LEMMA LeaveChipKeeps ==
    ASSUME kind \in Kinds, form # Closed, FormInv(kind, form), LeaveChip \/ UrlsChecked
    PROVE  FormInv(kind, form')
<1>0. DOMAIN form = FormKeys /\ BaseForm(kind, form)
  BY DEF FormInv, BaseForm
<1>1. ASSUME NEW new, new = [form EXCEPT !.clicked = Closed] \/ new = [form EXCEPT !.checking = FALSE]
      PROVE  FormInv(kind, new)
  <2>1. /\ DOMAIN new = FormKeys
        /\ new.mode = form.mode /\ new.ids = form.ids /\ new.all = form.all /\ new.config = form.config
        /\ new.values = form.values /\ new.dirty = form.dirty /\ new.touched = form.touched
        /\ new.operation = form.operation /\ new.enabled = form.enabled /\ new.removing = form.removing
        /\ new.identity = form.identity /\ new.answers = form.answers
        /\ new.clicked \in {form.clicked, Closed}
    BY <1>0, <1>1, SMT DEF FormKeys
  <2>2. BaseForm(kind, new)
    BY <1>0, <2>1 DEF BaseForm
  <2>3. QED
    BY <2>1, <2>2, OtherParts
<1>2. QED
  BY <1>1 DEF LeaveChip, UrlsChecked

\* A chip is changed.
LEMMA ApplyChipKeeps ==
    ASSUME kind \in Kinds, form # Closed, FormInv(kind, form), ApplyChip("z")
    PROVE  FormInv(kind, form')
<1> DEFINE f == form.clicked.field
           v == IF f = "annotation" THEN ReplaceChip(form.values[f], form.clicked.index, "z")
                ELSE MoveChip(form.values[f], form.clicked.index, "z")
           new == [form EXCEPT !.values = [form.values EXCEPT ![f] = v], !.clicked = Closed,
                               !.dirty = form.dirty \cup {f}, !.touched = form.touched \cup {f}]
<1>0. DOMAIN form = FormKeys
  BY DEF FormInv, BaseForm
<1>1. form' = new /\ form.clicked # Closed
  BY DEF ApplyChip
<1>2. /\ form.mode # "multi" /\ f \in DetailsOf[kind].controls /\ TypeOf(kind, f) = "chips"
      /\ form.clicked.index \in Nat
  BY <1>1 DEF FormInv, BaseForm
<1>3. SingleForm(kind, form)
  BY <1>2, SingleParts
<1>4. v \in Seq(Texts)
  <2>1. form.values[f] \in Seq(Texts)
    BY <1>2, <1>3 DEF SingleForm, InputValue, PlainValue
  <2>2. "z" \in Texts
    BY DEF Texts
  <2> DEFINE s == form.values[f]
             i == form.clicked.index
  <2>3. ReplaceChip(s, i, "z") \in Seq(Texts) /\ MoveChip(s, i, "z") \in Seq(Texts)
    BY <1>2, <2>1, <2>2, ChipsType
  <2>4. QED
    BY <2>3
<1> HIDE DEF v
<1>5. InputValue(TypeOf(kind, f), v)
  BY <1>2, <1>4 DEF InputValue, PlainValue
<1>6. /\ Same(form, new) /\ new.clicked = Closed
      /\ new.values = [form.values EXCEPT ![f] = v]
      /\ new.dirty = form.dirty \cup {f} /\ new.touched = form.touched \cup {f}
      /\ new.operation = form.operation /\ new.enabled = form.enabled /\ new.removing = form.removing
      /\ new.identity = form.identity
  BY <1>0, SMT DEF Same, FormKeys
<1>7. kind = "roleMapping" /\ f \in {"email", "group"} => f = form.identity
  <2>1. f \in Fields(kind)
    BY <1>2, ControlsAreFields
  <2>2. FieldFacts(kind, f)
    BY <2>1, FieldTable
  <2>3. QED
    BY <1>2, <2>2 DEF FieldFacts, Identities
<1>8. form.removing = FALSE
  BY <1>3 DEF SingleForm
<1> HIDE DEF new, f
<1>9. FormInv(kind, new)
  BY <1>2, <1>5, <1>6, <1>7, <1>8, SingleEdit
<1>10. QED
  BY <1>1, <1>9

\* URLs that exist are taken out of the new ones.
LEMMA OnRemoveExistingUrlsKeeps ==
    ASSUME kind \in Kinds, form # Closed, FormInv(kind, form), NEW left \in {Blank, "q"}, OnRemoveExistingUrls(left)
    PROVE  FormInv(kind, form')
<1> DEFINE new == [form EXCEPT !.values = [form.values EXCEPT !["name"] = left], !.dirty = form.dirty \cup {"name"},
                               !.touched = form.touched \cup {"name"}, !.checking = TRUE]
<1>0. DOMAIN form = FormKeys
  BY DEF FormInv, BaseForm
<1>1. form' = new /\ kind = "seed" /\ form.ids = {}
  BY DEF OnRemoveExistingUrls, EditForm, NeedsCheck
<1>2. form.mode # "multi"
  BY <1>1 DEF FormInv, BaseForm
<1>3. SingleForm(kind, form)
  BY <1>2, SingleParts
<1>4. TableFacts(kind)
  BY Tables
<1>5. "name" \in Fields(kind)
  BY <1>4 DEF TableFacts, KindFacts, MetaControls
<1>6. FieldFacts(kind, "name")
  BY <1>5, FieldTable
<1>7. "name" \in DetailsOf[kind].controls /\ TypeOf(kind, "name") = "text"
  BY <1>1, <1>6 DEF FieldFacts, Erased
<1>8. left \in Texts
  BY DEF Texts
<1>9. InputValue(TypeOf(kind, "name"), left)
  BY <1>7, <1>8 DEF InputValue, PlainValue
<1>10. /\ Same(form, new) /\ new.clicked = form.clicked
       /\ new.values = [form.values EXCEPT !["name"] = left]
       /\ new.dirty = form.dirty \cup {"name"} /\ new.touched = form.touched \cup {"name"}
       /\ new.operation = form.operation /\ new.enabled = form.enabled /\ new.removing = form.removing
       /\ new.identity = form.identity
  BY <1>0, SMT DEF Same, FormKeys
<1>11. form.removing = FALSE
  BY <1>3 DEF SingleForm
<1> HIDE DEF new
<1>12. FormInv(kind, new)
  BY <1>2, <1>7, <1>9, <1>10, <1>11, SingleEdit
<1>13. QED
  BY <1>1, <1>12

\* The other identity of a role mapping.
LEMMA SwitchIdentityKeeps ==
    ASSUME kind \in Kinds, form # Closed, FormInv(kind, form), SwitchIdentity
    PROVE  FormInv(kind, form')
<1> DEFINE new == [form EXCEPT !.values = [form.values EXCEPT ![form.identity] = Blank],
                               !.identity = IF form.identity = "email" THEN "group" ELSE "email",
                               !.dirty = form.dirty \cup {"identityType"},
                               !.touched = form.touched \cup {"email", "group"}]
           C == DetailsOf[kind].controls
<1>0. DOMAIN form = FormKeys /\ BaseForm(kind, form)
  BY DEF FormInv, BaseForm
<1>1. form' = new /\ form.mode # "multi" /\ kind = "roleMapping"
  BY DEF SwitchIdentity, EditForm
<1>2. SingleForm(kind, form) /\ DOMAIN form.values = C /\ DOMAIN form.operation = C /\ form.enabled \subseteq C
  BY <1>1, SingleParts
<1>3. TableFacts(kind)
  BY Tables
<1>4. "email" \in Fields(kind) /\ "group" \in Fields(kind) /\ "email" \in C /\ "group" \in C
  BY <1>1, <1>3 DEF TableFacts, KindFacts
<1>5. FieldFacts(kind, "email") /\ FieldFacts(kind, "group")
  BY <1>4, FieldTable
<1>6. /\ "email" \in C /\ "group" \in C
      /\ TypeOf(kind, "email") = "text" /\ TypeOf(kind, "group") = "text"
  BY <1>4, <1>5 DEF FieldFacts, Identities
<1>7. form.identity \in {"email", "group"}
  BY <1>1, <1>2 DEF SingleForm
<1>8. /\ Same(form, new) /\ new.clicked = form.clicked
      /\ new.values = [form.values EXCEPT ![form.identity] = Blank]
      /\ new.dirty = form.dirty \cup {"identityType"} /\ new.touched = form.touched \cup {"email", "group"}
      /\ new.operation = form.operation /\ new.enabled = form.enabled /\ new.removing = form.removing
      /\ new.identity = IF form.identity = "email" THEN "group" ELSE "email"
  BY <1>0, SMT DEF Same, FormKeys
<1> HIDE DEF new
<1>9. BaseForm(kind, new)
  BY <1>0, <1>8 DEF BaseForm, Same
<1>10. ASSUME NEW f \in C
       PROVE  /\ InputValue(TypeOf(kind, f), new.values[f])
              /\ f \in new.touched \/ Shows(kind, f, new.values[f], new.config)
  <2>1. CASE f = form.identity
    <3>1. new.values[f] = Blank /\ TypeOf(kind, f) = "text" /\ f \in new.touched
      BY <1>2, <1>6, <1>7, <1>8, <2>1
    <3>2. QED
      BY <3>1, BlankIsText DEF InputValue, PlainValue
  <2>2. CASE f # form.identity
    <3>1. new.values[f] = form.values[f] /\ new.config = form.config
      BY <1>2, <1>8, <2>2 DEF Same
    <3>2. QED
      BY <1>2, <1>8, <3>1 DEF SingleForm
  <2>3. QED
    BY <2>1, <2>2
<1>11. \/ new.identity = "email" /\ new.values["group"] = Blank
       \/ new.identity = "group" /\ new.values["email"] = Blank
  BY <1>2, <1>6, <1>7, <1>8
<1>12. new.removing = FALSE /\ new.touched \subseteq C /\ new.dirty # {}
  BY <1>2, <1>6, <1>8 DEF SingleForm
<1>13. SingleForm(kind, new)
  BY <1>1, <1>10, <1>11, <1>12 DEF SingleForm
<1>14. DOMAIN new.values = C
  BY <1>2, <1>8
<1>15. FormInv(kind, new)
  BY <1>1, <1>2, <1>8, <1>9, <1>13, <1>14 DEF FormInv, Same, ControlsOf
<1>16. QED
  BY <1>1, <1>15

\* Adding or removing is chosen.
LEMMA ToggleOperationKeeps ==
    ASSUME kind \in Kinds, form # Closed, FormInv(kind, form), NEW f \in Fields(kind), NEW operation \in Operation,
           ToggleOperation(f, operation)
    PROVE  FormInv(kind, form')
<1> DEFINE v == Default(TypeOf(kind, f))
           new == [form EXCEPT !.operation = [form.operation EXCEPT ![f] = operation],
                               !.values = [form.values EXCEPT ![f] = v],
                               !.touched = form.touched \ {f}]
           C == DOMAIN MultiOf[kind]
<1>0. DOMAIN form = FormKeys
  BY DEF FormInv, BaseForm
<1>1. form' = new /\ form.mode = "multi" /\ f \in C /\ MultiOf[kind][f] \in Operated
  BY DEF ToggleOperation, EditForm, FormFields, Operated
<1> HIDE DEF v
<1>2. /\ Same(form, new) /\ new.clicked = form.clicked
      /\ new.values = [form.values EXCEPT ![f] = v]
      /\ new.operation = [form.operation EXCEPT ![f] = operation]
      /\ new.dirty = form.dirty /\ new.touched = form.touched \ {f}
      /\ new.enabled = form.enabled /\ new.removing = form.removing
  BY <1>0, SMT DEF Same, FormKeys
<1> HIDE DEF new
<1>3. MultiForm(kind, form) /\ DOMAIN form.values = C /\ DOMAIN form.operation = C
  BY <1>1, MultiParts
<1>4. ControlFacts(kind, f)
  BY <1>1, ControlTable
<1>5. AnyValue(TypeOf(kind, f), v)
  <2>1. FieldFacts(kind, f)
    BY FieldTable
  <2>2. QED
    BY <2>1, DefaultIsPlain DEF FieldFacts, AnyValue, v
<1>6. ControlState(MultiOf[kind][f], TypeOf(kind, f), new.values[f], form.config[f], f \in new.touched,
                   f \in new.dirty, f \in new.enabled, new.operation[f], new.removing)
  <2>1. new.values[f] = v /\ new.operation[f] = operation /\ f \notin new.touched
    BY <1>1, <1>2, <1>3
  <2>2. QED
    BY <1>1, <1>5, <2>1 DEF ControlState, Operated, Operation, v
<1>7. f \notin {"validFrom", "validTo"}
  BY <1>1, <1>4 DEF ControlFacts, Operated
<1>8. new.touched \subseteq C
  BY <1>2, <1>3 DEF MultiForm
<1>9. \A g \in C : g # f => /\ new.values[g] = form.values[g] /\ new.operation[g] = form.operation[g]
                            /\ g \in new.touched <=> g \in form.touched
                            /\ g \in new.dirty <=> g \in form.dirty
  BY <1>2, <1>3
<1>10. DOMAIN new.values = DOMAIN form.values /\ DOMAIN new.operation = DOMAIN form.operation
  BY <1>2
<1>11. FormInv(kind, new)
  BY <1>1, <1>2, <1>6, <1>7, <1>8, <1>9, <1>10, MultiOne
<1>12. QED
  BY <1>1, <1>11

\* A control is activated.
LEMMA ActivateKeeps ==
    ASSUME kind \in Kinds, form # Closed, FormInv(kind, form), NEW rule \in {"enabled", "validity"}, Activate(rule)
    PROVE  FormInv(kind, form')
<1> DEFINE C == DOMAIN MultiOf[kind]
           fields == {f \in C : MultiOf[kind][f] = rule}
           new == [form EXCEPT !.enabled = form.enabled \cup fields,
                               !.touched = IF rule = "enabled" THEN form.touched \cup fields ELSE form.touched]
<1>0. DOMAIN form = FormKeys
  BY DEF FormInv, BaseForm
<1>1. form' = new /\ form.mode = "multi"
  BY DEF Activate, EditForm, FormFields
<1>2. /\ fields \subseteq C
      /\ \A g \in C : g \in fields <=> MultiOf[kind][g] = rule
  OBVIOUS
<1> HIDE DEF fields
<1>3. /\ Same(form, new) /\ new.clicked = form.clicked
      /\ new.values = form.values /\ new.operation = form.operation /\ new.dirty = form.dirty
      /\ new.enabled = form.enabled \cup fields
      /\ new.touched = (IF rule = "enabled" THEN form.touched \cup fields ELSE form.touched)
      /\ new.removing = form.removing
  BY <1>0, SMT DEF Same, FormKeys
<1> HIDE DEF new
<1>4. MultiForm(kind, form) /\ form.enabled \subseteq C
  BY <1>1, MultiParts
<1>5. ASSUME NEW g \in C
      PROVE  ControlState(MultiOf[kind][g], TypeOf(kind, g), new.values[g], new.config[g], g \in new.touched,
                          g \in new.dirty, g \in new.enabled, new.operation[g], new.removing)
  <2>1. ControlState(MultiOf[kind][g], TypeOf(kind, g), form.values[g], form.config[g], g \in form.touched,
                     g \in form.dirty, g \in form.enabled, form.operation[g], form.removing)
    BY <1>4 DEF MultiForm
  <2>2. /\ new.values[g] = form.values[g] /\ new.config[g] = form.config[g] /\ new.operation[g] = form.operation[g]
        /\ new.dirty = form.dirty /\ new.removing = form.removing
    BY <1>3 DEF Same
  <2>3. CASE MultiOf[kind][g] = "enabled"
    <3>1. CASE rule = "enabled"
      <4>1. g \in new.touched /\ g \in new.enabled
        BY <1>2, <1>3, <2>3, <3>1
      <4>2. QED
        BY <2>1, <2>2, <2>3, <4>1 DEF ControlState, Operated
    <3>2. CASE rule = "validity"
      <4>1. (g \in new.touched <=> g \in form.touched) /\ (g \in new.enabled <=> g \in form.enabled)
        BY <1>2, <1>3, <2>3, <3>2
      <4>2. QED
        BY <2>1, <2>2, <4>1 DEF ControlState
    <3>3. QED
      BY <3>1, <3>2
  <2>4. CASE MultiOf[kind][g] # "enabled"
    <3>1. g \in new.touched <=> g \in form.touched
      BY <1>2, <1>3, <2>4
    <3>2. QED
      BY <2>1, <2>2, <2>4, <3>1 DEF ControlState
  <2>5. QED
    BY <2>3, <2>4
<1>6. /\ new.touched \subseteq C /\ form.touched \subseteq new.touched
      /\ new.enabled \subseteq C
  BY <1>2, <1>3, <1>4 DEF MultiForm
<1>7. MultiForm(kind, new)
  BY <1>3, <1>4, <1>5, <1>6 DEF MultiForm
<1>8. FormInv(kind, new)
  BY <1>1, <1>3, <1>6, <1>7, MultiEdit
<1>9. QED
  BY <1>1, <1>8

\* The dates of schedules are removed.
LEMMA OnRemoveValidFromToKeeps ==
    ASSUME kind \in Kinds, form # Closed, FormInv(kind, form), OnRemoveValidFromTo
    PROVE  FormInv(kind, form')
<1> DEFINE C == DOMAIN MultiOf[kind]
           dates == {"validFrom", "validTo"}
           values == [form.values EXCEPT !["validFrom"] = 0, !["validTo"] = 0]
           new == [form EXCEPT !.enabled = form.enabled \cup dates, !.values = values,
                               !.dirty = form.dirty \cup {"form"}, !.touched = form.touched \cup dates,
                               !.removing = TRUE]
<1>0. DOMAIN form = FormKeys
  BY DEF FormInv, BaseForm
<1>1. form' = new /\ form.mode = "multi" /\ kind = "crawlScheduleConfig"
  BY DEF OnRemoveValidFromTo, EditForm
<1> HIDE DEF values
<1>2. /\ Same(form, new) /\ new.clicked = form.clicked
      /\ new.values = values /\ new.operation = form.operation /\ new.dirty = form.dirty \cup {"form"}
      /\ new.enabled = form.enabled \cup dates
      /\ new.touched = form.touched \cup dates
      /\ new.removing = TRUE
  BY <1>0, SMT DEF Same, FormKeys
<1> HIDE DEF new
<1>3. MultiForm(kind, form) /\ form.enabled \subseteq C /\ DOMAIN form.values = C
  BY <1>1, MultiParts
<1>4. TableFacts(kind)
  BY Tables
<1>5. dates \subseteq C
  BY <1>1, <1>4 DEF TableFacts, KindFacts
<1>6. /\ DOMAIN values = C
      /\ \A g \in C : values[g] = IF g \in dates THEN 0 ELSE form.values[g]
  BY <1>3, <1>5 DEF values
<1>7. ASSUME NEW g \in C
      PROVE  ControlState(MultiOf[kind][g], TypeOf(kind, g), new.values[g], new.config[g], g \in new.touched,
                          g \in new.dirty, g \in new.enabled, new.operation[g], new.removing)
  <2>1. ControlState(MultiOf[kind][g], TypeOf(kind, g), form.values[g], form.config[g], g \in form.touched,
                     g \in form.dirty, g \in form.enabled, form.operation[g], form.removing)
    BY <1>3 DEF MultiForm
  <2>2. ControlFacts(kind, g)
    BY ControlTable
  <2>3. new.config[g] = form.config[g] /\ new.operation[g] = form.operation[g] /\ new.removing = TRUE
    BY <1>2 DEF Same
  <2>4. CASE g \in dates
    <3>1. MultiOf[kind][g] = "validity" /\ TypeOf(kind, g) \in {"from", "to"}
      BY <2>2, <2>4 DEF ControlFacts
    <3>2. new.values[g] = 0 /\ g \in new.touched
      BY <1>2, <1>6, <2>4
    <3>3. AnyValue(TypeOf(kind, g), 0) /\ 0 # Unset
      BY <3>1, UnsetAssumption DEF AnyValue, InputValue, PlainValue
    <3>4. QED
      BY <2>1, <2>3, <3>1, <3>2, <3>3 DEF ControlState, Operated
  <2>5. CASE g \notin dates
    <3>1. MultiOf[kind][g] # "validity" /\ g # "form"
      BY <2>2, <2>5 DEF ControlFacts
    <3>2. /\ new.values[g] = form.values[g]
          /\ g \in new.touched <=> g \in form.touched
          /\ g \in new.dirty <=> g \in form.dirty
          /\ g \in new.enabled <=> g \in form.enabled
      BY <1>2, <1>6, <2>5, <3>1
    <3>3. QED
      BY <2>1, <2>3, <3>1, <3>2 DEF ControlState
  <2>6. QED
    BY <2>4, <2>5
<1>8. new.touched \subseteq C /\ new.enabled \subseteq C /\ dates \subseteq new.touched
  BY <1>2, <1>3, <1>5 DEF MultiForm
<1>9. MultiForm(kind, new)
  BY <1>1, <1>2, <1>7, <1>8 DEF MultiForm
<1>10. FormInv(kind, new)
  BY <1>1, <1>2, <1>3, <1>6, <1>8, <1>9, MultiEdit
<1>11. QED
  BY <1>1, <1>10

\* A stored object is its own message.
LEMMA ProtoIsStored ==
    ASSUME kind \in Kinds, NEW object, StoredObject(kind, object)
    PROVE  /\ StoredObject(kind, ToProto(kind, object))
           /\ \A f \in Fields(kind) : ToProto(kind, object)[f] = object[f]
<1>1. /\ DOMAIN object = Fields(kind)
      /\ \A f \in Fields(kind) : PlainValue(TypeOf(kind, f), object[f])
      /\ kind = "roleMapping" => OneIdentity(object) /\ \E f \in Identities : object[f] # Blank
  BY DEF StoredObject, PlainObject
<1>2. \A f \in Fields(kind) : object[f] # Unset
  <2>1. \A f \in Fields(kind) : TypeOf(kind, f) \in Types
    BY FieldTable DEF FieldFacts
  <2>2. QED
    BY <1>1, <2>1, NotUnset
<1>3. DOMAIN ToProto(kind, object) = Fields(kind) /\ \A f \in Fields(kind) : ToProto(kind, object)[f] = object[f]
  BY <1>1, <1>2, ToProtoFacts
<1>4. kind = "roleMapping" => Identities \subseteq Fields(kind)
  <2>1. TableFacts(kind)
    BY Tables
  <2>2. QED
    BY <2>1 DEF TableFacts, KindFacts
<1> DEFINE proto == ToProto(kind, object)
<1>5. DOMAIN proto = Fields(kind) /\ \A f \in Fields(kind) : proto[f] = object[f]
  BY <1>3
<1> HIDE DEF proto
<1>6. StoredObject(kind, proto)
  BY <1>1, <1>4, <1>5 DEF StoredObject, PlainObject, OneIdentity
<1>7. QED
  BY <1>3, <1>6 DEF proto

\* What is sent for the form of one object.
LEMMA PreparedObjects ==
    ASSUME kind \in Kinds, NEW fm, FormInv(kind, fm), fm.mode # "multi", Valid(fm), NEW object \in Prepared(fm)
    PROVE  /\ StoredObject(kind, ToProto(kind, object))
           /\ \A f \in Fields(kind) \ {"name"} : ToProto(kind, object)[f] = Prepare(fm)[f]
           /\ WellMade(ToProto(kind, object))
<1> DEFINE whole == Prepare(fm)
<1>1. StoredObject(kind, whole)
  BY PreparedFacts
<1>a. kind = "crawlScheduleConfig" =>
          /\ "validFrom" \in Fields(kind) /\ "validTo" \in Fields(kind)
          /\ whole["validFrom"] % 24 = 0
          /\ whole["validTo"] = 0 \/ whole["validTo"] % 24 = 23
  <2> HAVE kind = "crawlScheduleConfig"
  <2>1. TableFacts(kind)
    BY Tables
  <2>2. /\ "validFrom" \in DetailsOf[kind].controls /\ "validTo" \in DetailsOf[kind].controls
        /\ DetailsOf[kind].controls \subseteq Fields(kind)
        /\ TypeOf(kind, "validFrom") = "from" /\ TypeOf(kind, "validTo") = "to"
    BY <2>1 DEF TableFacts, KindFacts
  <2>3. WholeDay("from", whole["validFrom"]) /\ WholeDay("to", whole["validTo"])
    BY <2>2, PreparedFacts
  <2>4. QED
    BY <2>2, <2>3 DEF WholeDay
<1> HIDE DEF whole
<1>2. "name" \in Fields(kind) /\ TypeOf(kind, "name") = "text"
  <2>1. TableFacts(kind)
    BY Tables
  <2>2. "name" \in Fields(kind)
    BY <2>1 DEF TableFacts, KindFacts, MetaControls
  <2>3. FieldFacts(kind, "name")
    BY <2>2, FieldTable
  <2>4. QED
    BY <2>2, <2>3 DEF FieldFacts
<1>3. CASE kind = "seed" /\ whole["name"] = "pq"
  <2>1. PICK url \in {"p", "q"} : object = [whole EXCEPT !["name"] = url]
    BY <1>3 DEF Prepared, whole
  <2>2. DOMAIN whole = Fields(kind) /\ \A f \in Fields(kind) : PlainValue(TypeOf(kind, f), whole[f])
    BY <1>1 DEF StoredObject, PlainObject
  <2>3. DOMAIN object = Fields(kind) /\ object["name"] = url /\ \A f \in Fields(kind) \ {"name"} : object[f] = whole[f]
    BY <1>2, <2>1, <2>2
  <2>4. PlainValue(TypeOf(kind, "name"), url)
    <3>1. url \in Texts
      BY DEF Texts
    <3>2. QED
      BY <1>2, <3>1 DEF PlainValue
  <2>5. StoredObject(kind, object)
    BY <1>3, <2>2, <2>3, <2>4 DEF StoredObject, PlainObject
  <2>6. StoredObject(kind, ToProto(kind, object)) /\ \A f \in Fields(kind) : ToProto(kind, object)[f] = object[f]
    BY <2>5, ProtoIsStored
  <2>7. QED
    BY <1>2, <1>3, <2>3, <2>6 DEF WellMade, whole
<1>4. CASE ~(kind = "seed" /\ whole["name"] = "pq")
  <2>1. object = whole
    BY <1>4 DEF Prepared, whole
  <2>2. StoredObject(kind, ToProto(kind, object)) /\ \A f \in Fields(kind) : ToProto(kind, object)[f] = object[f]
    BY <1>1, <2>1, ProtoIsStored
  <2>3. QED
    BY <1>a, <1>2, <1>4, <2>1, <2>2 DEF WellMade, whole
<1>5. QED
  BY <1>3, <1>4

(***************************************************************************)
(* The invariant                                                           *)
(***************************************************************************)

\* All objects, at the server, on the list page and created, can be stored.
ObjectsInv ==
    /\ DOMAIN stored = Objects /\ DOMAIN loaded = Objects
    /\ \A o \in Objects : StoredObject(kind, stored[o]) /\ StoredObject(kind, loaded[o])
    /\ \A object \in created : StoredObject(kind, object) /\ WellMade(object)

\* The counters.
BoundsInv ==
    /\ kind \in FormKinds /\ canEdit \in BOOLEAN
    /\ forms \in 0..MaxForms /\ edits \in 0..MaxEdits /\ changes \in 0..MaxChanges

\* The inductive invariant.
FormsInv ==
    /\ BoundsInv
    /\ ObjectsInv
    /\ form # Closed => FormInv(kind, form)

\* The kind that is edited is one of the kinds.
LEMMA KindIsKind == BoundsInv => kind \in Kinds
BY FormAssumption DEF BoundsInv

\* No step exceeds a bound.
LEMMA BoundsHold == BoundsInv /\ [Next]_vars => BoundsInv'
<1> SUFFICES ASSUME BoundsInv, [Next]_vars PROVE BoundsInv'
  OBVIOUS
<1>1. MaxForms \in Nat /\ MaxEdits \in Nat /\ MaxChanges \in Nat
  BY FormAssumption
<1>2. /\ kind' = kind /\ canEdit' = canEdit
      /\ forms' = forms \/ (forms < MaxForms /\ forms' = forms + 1)
      /\ edits' = edits \/ (edits < MaxEdits /\ edits' = edits + 1)
      /\ changes' = changes \/ (changes < MaxChanges /\ changes' = changes + 1)
  <2>1. CASE UNCHANGED vars
    BY <2>1 DEF vars
  <2>2. CASE EditStep
    BY <2>2 DEF EditStep, Enter, Deselect, ToggleItem, ToggleChip, EditChips, ClickChip, SwitchIdentity,
                ToggleOperation, Activate, OnRemoveValidFromTo, OnRemoveExistingUrls, EditForm
  <2>3. CASE OpenNew \/ (\E o \in Objects : OpenDetails(o) \/ OpenDialog(o))
             \/ (\E rows \in Selections, all \in BOOLEAN : OpenMulti(rows, all))
    BY <2>3 DEF OpenNew, OpenDetails, OpenDialog, OpenMulti, Open
  <2>4. CASE Close \/ ApplyChip("z") \/ LeaveChip \/ UrlsChecked \/ Revert \/ Answered \/ Refresh \/ ListReload
             \/ OthersChange
    BY <2>4 DEF Close, ApplyChip, LeaveChip, UrlsChecked, Revert, Answered, Refresh, ListReload, OthersChange
  <2>5. CASE Save \/ UpdateMulti
             \/ (\E o \in Objects : UpdateFromDialog(o) \/ UpdateFromDetails(o) \/ MoveSeed(o))
    BY <2>5 DEF Save, UpdateMulti, UpdateFromDialog, UpdateFromDetails, MoveSeed, Saving
  <2>6. QED
    BY <2>1, <2>2, <2>3, <2>4, <2>5 DEF Next
<1>3. QED
  BY <1>1, <1>2 DEF BoundsInv

\* The objects a dialog of a new object is opened with.
LEMMA NewObjectIsPlain ==
    ASSUME kind \in Kinds
    PROVE  PlainObject(kind, [f \in Fields(kind) |-> IF f = "entityRef" THEN "a" ELSE NewObject(kind)[f]])
<1> DEFINE object == [f \in Fields(kind) |-> IF f = "entityRef" THEN "a" ELSE NewObject(kind)[f]]
<1>1. ASSUME NEW f \in Fields(kind)
      PROVE  /\ PlainValue(TypeOf(kind, f), object[f])
             /\ f # "entityRef" => object[f] = Default(TypeOf(kind, f))
  <2>1. FieldFacts(kind, f)
    BY FieldTable
  <2>2. CASE f = "entityRef"
    <3>1. object[f] = "a" /\ TypeOf(kind, f) = "ref"
      BY <2>1, <2>2 DEF FieldFacts
    <3>2. "a" \in Texts
      BY DEF Texts
    <3>3. QED
      BY <2>2, <3>1, <3>2 DEF PlainValue
  <2>3. CASE f # "entityRef"
    <3>1. object[f] = Default(TypeOf(kind, f))
      BY <2>3 DEF NewObject
    <3>2. TypeOf(kind, f) \in Types
      BY <2>1 DEF FieldFacts
    <3>3. QED
      BY <3>1, <3>2, DefaultIsPlain
  <2>4. QED
    BY <2>2, <2>3
<1>2. DOMAIN object = Fields(kind)
  OBVIOUS
<1> HIDE DEF object
<1>3. ASSUME kind = "roleMapping" PROVE OneIdentity(object)
  <2>1. TableFacts(kind)
    BY Tables
  <2>2. \A f \in Identities : f \in Fields(kind) /\ TypeOf(kind, f) = "text" /\ f # "entityRef"
    BY <1>3, <2>1 DEF TableFacts, KindFacts, FieldFacts, Identities
  <2>3. \A f \in Identities : object[f] = Blank
    BY <1>1, <2>2 DEF Default
  <2>4. QED
    BY <2>3 DEF OneIdentity
<1>4. PlainObject(kind, object)
  BY <1>1, <1>2, <1>3 DEF PlainObject
<1>5. QED
  BY <1>4 DEF object

\* The object a clone starts from has no name.
LEMMA CloneIsPlain ==
    ASSUME kind \in Kinds, NEW object, StoredObject(kind, object)
    PROVE  PlainObject(kind, Clone(object))
<1>1. TableFacts(kind)
  BY Tables
<1>2. "name" \in Fields(kind)
  BY <1>1 DEF TableFacts, KindFacts, MetaControls
<1>3. FieldFacts(kind, "name")
  BY <1>2, FieldTable
<1>4. TypeOf(kind, "name") = "text"
  BY <1>3 DEF FieldFacts
<1>5. PlainObject(kind, object)
  BY DEF StoredObject
<1> DEFINE copy == Clone(object)
<1>6. /\ DOMAIN copy = Fields(kind) /\ copy["name"] = Blank
      /\ \A f \in Fields(kind) \ {"name"} : copy[f] = object[f]
  BY <1>2, <1>5 DEF Clone, PlainObject
<1> HIDE DEF copy
<1>7. PlainValue("text", Blank)
  BY BlankIsText DEF PlainValue
<1>8. kind = "roleMapping" => Identities \subseteq Fields(kind)
  BY <1>1 DEF TableFacts, KindFacts
<1>9. PlainObject(kind, copy)
  BY <1>4, <1>5, <1>6, <1>7, <1>8 DEF PlainObject, OneIdentity, Identities
<1>10. QED
  BY <1>9 DEF copy

\* A form that is opened is good.
LEMMA OpenedForm ==
    ASSUME FormsInv,
           \/ OpenNew
           \/ \E o \in Objects : OpenDetails(o) \/ OpenDialog(o)
           \/ \E rows \in Selections, all \in BOOLEAN : OpenMulti(rows, all)
    PROVE  FormInv(kind, form')
<1>1. kind \in Kinds
  BY KindIsKind DEF FormsInv
<1>2. \A o \in Objects : StoredObject(kind, stored[o]) /\ StoredObject(kind, loaded[o])
  BY DEF FormsInv, ObjectsInv
<1>3. ASSUME NEW object, PlainObject(kind, object), Open(NewForm("dialog", {}, FALSE, object))
      PROVE  FormInv(kind, form')
  <2>1. GoodConfig(kind, "dialog", {}, object)
    BY <1>3 DEF GoodConfig
  <2>2. FormInv(kind, NewForm("dialog", {}, FALSE, object))
    BY <1>1, <2>1, NewFormIsGood
  <2>3. QED
    BY <1>3, <2>2 DEF Open
<1>4. CASE OpenNew
  <2>1. \A o \in Objects : PlainObject(kind, Clone(loaded[o]))
    BY <1>1, <1>2, CloneIsPlain
  <2>2. PlainObject(kind, [f \in Fields(kind) |-> IF f = "entityRef" THEN "a" ELSE NewObject(kind)[f]])
    BY <1>1, NewObjectIsPlain
  <2>3. QED
    BY <1>3, <1>4, <2>1, <2>2 DEF OpenNew
<1>5. CASE \E o \in Objects : OpenDetails(o) \/ OpenDialog(o)
  <2>1. PICK o \in Objects : OpenDetails(o) \/ OpenDialog(o)
    BY <1>5
  <2>2. PICK mode \in {"details", "dialog"}, object \in {stored[o], loaded[o]} : Open(NewForm(mode, {o}, FALSE, object))
    BY <2>1 DEF OpenDetails, OpenDialog
  <2>3. StoredObject(kind, object)
    BY <1>2
  <2>4. GoodConfig(kind, mode, {o}, object)
    BY <2>3 DEF GoodConfig, StoredObject
  <2>5. FormInv(kind, NewForm(mode, {o}, FALSE, object))
    <3>1. {o} \in SUBSET Objects /\ {o} # {}
      OBVIOUS
    <3> DEFINE ids == {o}
    <3>2. ids \in SUBSET Objects /\ ids # {} /\ GoodConfig(kind, mode, ids, object)
      BY <2>4, <3>1
    <3> HIDE DEF ids
    <3>3. FormInv(kind, NewForm(mode, ids, FALSE, object))
      BY <1>1, <3>2, NewFormIsGood
    <3>4. QED
      BY <3>3 DEF ids
  <2>6. QED
    BY <2>2, <2>5 DEF Open
<1>6. CASE \E rows \in Selections, all \in BOOLEAN : OpenMulti(rows, all)
  <2>1. PICK rows \in Selections, all \in BOOLEAN : OpenMulti(rows, all)
    BY <1>6
  <2> DEFINE config == MergeConfigs(kind, [i \in DOMAIN rows |-> loaded[rows[i]]])
             ids == IF all THEN Objects ELSE ToSet(rows)
  <2>2. MergedObject(kind, config)
    BY <1>1, <1>2, MergeIsMerged
  <2>3. ids \in SUBSET Objects /\ ids # {}
    <3>1. ToSet(rows) \in SUBSET Objects /\ ToSet(rows) # {}
      BY DEF ToSet, Selections, Objects
    <3>2. Objects # {}
      BY DEF Objects
    <3>3. QED
      BY <3>1, <3>2
  <2>4. (all => kind \in AllKinds) /\ form' = NewForm("multi", ids, all, config)
    BY <2>1 DEF OpenMulti, Open
  <2> HIDE DEF config, ids
  <2>5. GoodConfig(kind, "multi", ids, config)
    BY <2>2 DEF GoodConfig
  <2>6. FormInv(kind, NewForm("multi", ids, all, config))
    BY <1>1, <2>3, <2>4, <2>5, NewFormIsGood
  <2>7. QED
    BY <2>4, <2>6
<1>7. QED
  BY <1>4, <1>5, <1>6

\* What the user does to a form.
LEMMA EditedForm ==
    ASSUME FormsInv, EditStep
    PROVE  FormInv(kind, form') /\ UNCHANGED <<kind, stored, loaded, created>>
<1>1. kind \in Kinds /\ form # Closed /\ FormInv(kind, form)
  BY KindIsKind DEF FormsInv, EditStep
<1>2. UNCHANGED <<kind, stored, loaded, created>>
  BY DEF EditStep, Enter, Deselect, ToggleItem, ToggleChip, EditChips, ClickChip, SwitchIdentity,
         ToggleOperation, Activate, OnRemoveValidFromTo, OnRemoveExistingUrls, EditForm
<1>3. CASE \E f \in Fields(kind) : \E v \in Entries(f) : Enter(f, v)
  BY <1>1, <1>2, <1>3, EnterKeeps
<1>4. CASE \E f \in Fields(kind) : Deselect(f)
  BY <1>1, <1>2, <1>4, DeselectKeeps
<1>5. CASE \E f \in Fields(kind) : \E item \in Items(f) : ToggleItem(f, item)
  BY <1>1, <1>2, <1>5, ToggleItemKeeps
<1>6. CASE \E f \in Fields(kind), chip \in {"x", "z"} : ToggleChip(f, chip)
  BY <1>1, <1>2, <1>6, ToggleChipKeeps
<1>7. CASE \E f \in Fields(kind), index \in {1, 2} : ClickChip(f, index)
  BY <1>1, <1>2, <1>7, ClickChipKeeps
<1>8. CASE SwitchIdentity
  BY <1>1, <1>2, <1>8, SwitchIdentityKeeps
<1>9. CASE \E f \in Fields(kind), operation \in Operation : ToggleOperation(f, operation)
  BY <1>1, <1>2, <1>9, ToggleOperationKeeps
<1>10. CASE \E rule \in {"enabled", "validity"} : Activate(rule)
  BY <1>1, <1>2, <1>10, ActivateKeeps
<1>11. CASE OnRemoveValidFromTo
  BY <1>1, <1>2, <1>11, OnRemoveValidFromToKeeps
<1>12. CASE \E left \in {Blank, "q"} : OnRemoveExistingUrls(left)
  BY <1>1, <1>2, <1>12, OnRemoveExistingUrlsKeeps
<1>13. QED
  BY <1>3, <1>4, <1>5, <1>6, <1>7, <1>8, <1>9, <1>10, <1>11, <1>12 DEF EditStep

\* The form is written from its object, from the answer of the server or from the server.
LEMMA WrittenForm ==
    ASSUME FormsInv, Revert \/ Answered \/ Refresh
    PROVE  FormInv(kind, form')
<1>1. kind \in Kinds /\ form # Closed /\ FormInv(kind, form)
  BY KindIsKind DEF FormsInv, Revert, Answered, Refresh
<1>2. BaseForm(kind, form) /\ GoodConfig(kind, form.mode, form.ids, form.config)
  BY <1>1 DEF FormInv
<1>3. CASE Revert
  <2>1. FormInv(kind, UpdateForm(form, form.config))
    BY <1>1, <1>2, UpdatedForm
  <2>2. QED
    BY <1>3, <2>1 DEF Revert
<1>4. CASE Answered
  <2>1. PICK object \in form.answers :
            form' = [UpdateForm(form, object) EXCEPT !.answers = UpdateForm(form, object).answers \ {object}]
    BY <1>4 DEF Answered
  <2> DEFINE fm == UpdateForm(form, object)
             new == [fm EXCEPT !.answers = fm.answers \ {object}]
  <2>2. form.mode = "details" /\ StoredObject(kind, object)
    BY <1>2 DEF BaseForm
  <2>3. GoodConfig(kind, form.mode, form.ids, object)
    BY <2>2 DEF GoodConfig, StoredObject
  <2>4. FormInv(kind, fm)
    BY <1>1, <1>2, <2>3, UpdatedForm
  <2>5. form' = new
    BY <2>1
  <2> HIDE DEF fm
  <2>6. BaseForm(kind, fm) /\ DOMAIN fm = FormKeys
    BY <2>4 DEF FormInv, BaseForm
  <2>7. /\ DOMAIN new = FormKeys
        /\ new.mode = fm.mode /\ new.ids = fm.ids /\ new.all = fm.all /\ new.config = fm.config
        /\ new.values = fm.values /\ new.dirty = fm.dirty /\ new.touched = fm.touched
        /\ new.operation = fm.operation /\ new.enabled = fm.enabled /\ new.removing = fm.removing
        /\ new.identity = fm.identity /\ new.clicked = fm.clicked
        /\ new.answers = fm.answers \ {object}
    BY <2>6, SMT DEF FormKeys
  <2> HIDE DEF new
  <2>8. BaseForm(kind, new)
    BY <2>6, <2>7 DEF BaseForm
  <2>9. FormInv(kind, new)
    BY <2>4, <2>7, <2>8, OtherParts
  <2>10. QED
    BY <2>5, <2>9
<1>5. CASE Refresh
  <2>1. PICK o \in form.ids : form' = UpdateForm(form, stored[o])
    BY <1>5 DEF Refresh
  <2>2. form.mode = "details" /\ o \in Objects
    BY <1>2, <1>5 DEF Refresh, BaseForm
  <2>3. StoredObject(kind, stored[o])
    BY <2>2 DEF FormsInv, ObjectsInv
  <2>4. GoodConfig(kind, form.mode, form.ids, stored[o])
    BY <2>2, <2>3 DEF GoodConfig, StoredObject
  <2> DEFINE object == stored[o]
  <2>5. GoodConfig(kind, form.mode, form.ids, object)
    BY <2>4
  <2> HIDE DEF object
  <2>6. FormInv(kind, UpdateForm(form, object))
    BY <1>1, <1>2, <2>5, UpdatedForm
  <2>7. QED
    BY <2>1, <2>6 DEF object
<1>6. QED
  BY <1>3, <1>4, <1>5

\* The form of one object is saved.
LEMMA SavedObject ==
    ASSUME FormsInv, form # Closed, form.mode # "multi", Valid(form)
    PROVE  /\ StoredObject(kind, ToProto(kind, Prepare(form)))
           /\ \A object \in Prepared(form) : /\ StoredObject(kind, ToProto(kind, object))
                                             /\ WellMade(ToProto(kind, object))
<1>1. kind \in Kinds /\ FormInv(kind, form)
  BY KindIsKind DEF FormsInv
<1>2. StoredObject(kind, Prepare(form)) /\ ToProto(kind, Prepare(form)) = Prepare(form)
  BY <1>1, PreparedFacts
<1>3. \A object \in Prepared(form) : /\ StoredObject(kind, ToProto(kind, object))
                                     /\ WellMade(ToProto(kind, object))
  BY <1>1, PreparedObjects
<1>4. QED
  BY <1>2, <1>3

\* Several objects are updated.
LEMMA UpdatedObjects ==
    ASSUME FormsInv, UpdateMulti
    PROVE  /\ DOMAIN stored' = Objects
           /\ \A o \in Objects : StoredObject(kind, stored'[o])
<1>1. kind \in Kinds /\ form # Closed /\ form.mode = "multi" /\ FormInv(kind, form)
  BY KindIsKind DEF FormsInv, UpdateMulti, Saving
<1>2. stored' = [o \in Objects |->
          IF o \in form.ids
          THEN ApplyMask(kind, stored[o], Template(form), Sent(form, "none"), Sent(form, "add"),
                         Sent(form, "remove"))
          ELSE stored[o]]
  BY DEF UpdateMulti
<1>3. ASSUME NEW o \in Objects PROVE StoredObject(kind, stored'[o])
  <2> DEFINE before == stored[o]
             after == ApplyMask(kind, before, Template(form), Sent(form, "none"), Sent(form, "add"),
                                Sent(form, "remove"))
  <2>1. StoredObject(kind, before)
    BY DEF FormsInv, ObjectsInv
  <2>2. stored'[o] = IF o \in form.ids THEN after ELSE before
    BY <1>2
  <2> HIDE DEF before
  <2>3. StoredObject(kind, after)
    BY <1>1, <2>1, BulkUpdate
  <2>4. QED
    BY <2>1, <2>2, <2>3
<1>4. QED
  BY <1>2, <1>3

\* A seed that is moved can be stored.
LEMMA MovedSeed ==
    ASSUME kind = "seed", NEW object, StoredObject(kind, object)
    PROVE  StoredObject(kind, [object EXCEPT !["entityRef"] = "c"])
<1>1. kind \in Kinds
  BY DEF Kinds
<1>2. TableFacts(kind)
  BY <1>1, Tables
<1>3. "entityRef" \in Fields(kind)
  BY <1>2 DEF TableFacts, KindFacts
<1>4. FieldFacts(kind, "entityRef")
  BY <1>1, <1>3, FieldTable
<1>5. TypeOf(kind, "entityRef") = "ref"
  BY <1>4 DEF FieldFacts
<1>6. PlainValue("ref", "c")
  <2>1. "c" \in Texts
    BY DEF Texts
  <2>2. QED
    BY <2>1 DEF PlainValue
<1> DEFINE new == [object EXCEPT !["entityRef"] = "c"]
<1>7. PlainObject(kind, object)
  BY DEF StoredObject
<1>8. /\ DOMAIN new = Fields(kind) /\ new["entityRef"] = "c"
      /\ \A f \in Fields(kind) \ {"entityRef"} : new[f] = object[f]
  BY <1>3, <1>7 DEF PlainObject
<1> HIDE DEF new
<1>9. StoredObject(kind, new)
  BY <1>5, <1>6, <1>7, <1>8 DEF StoredObject, PlainObject
<1>10. QED
  BY <1>9 DEF new

\* The invariant holds at first.
LEMMA InitKeeps == Init => FormsInv
<1> SUFFICES ASSUME Init PROVE FormsInv
  OBVIOUS
<1>1. kind \in Kinds
  BY FormAssumption DEF Init
<1>2. \A i \in 1..3 : StoredObject(kind, SampleObject(i))
  BY <1>1, SampleIsStored
<1>3. PICK samples \in Samples : stored = [o \in Objects |-> SampleObject(samples[o])]
  BY DEF Init
<1>4. PICK i \in 1..3, j \in 1..3 : samples = <<i, j>>
  BY <1>3, FormAssumption
<1>5. \A o \in Objects : samples[o] \in 1..3
  BY <1>4 DEF Objects
<1>6. DOMAIN stored = Objects /\ loaded = stored /\ created = {} /\ form = Closed
  BY <1>3 DEF Init
<1>7. \A o \in Objects : StoredObject(kind, stored[o])
  BY <1>2, <1>3, <1>5
<1>8. ObjectsInv
  BY <1>6, <1>7 DEF ObjectsInv
<1>9. BoundsInv
  BY FormAssumption DEF Init, BoundsInv
<1>10. QED
  BY <1>6, <1>8, <1>9 DEF FormsInv

\* Every step keeps the objects and the form.
LEMMA StepKeeps ==
    ASSUME FormsInv, [Next]_vars
    PROVE  FormsInv'
<1>1. BoundsInv'
  BY BoundsHold DEF FormsInv
<1>2. kind \in Kinds /\ ObjectsInv
  BY KindIsKind DEF FormsInv
<1>3. ASSUME kind' = kind, UNCHANGED <<stored, loaded, created>> PROVE ObjectsInv'
  BY <1>2, <1>3 DEF ObjectsInv, WellMade
<1>4. ASSUME kind' = kind, UNCHANGED <<stored, loaded, created>>, form' # Closed => FormInv(kind, form')
      PROVE  FormsInv'
  BY <1>1, <1>3, <1>4 DEF FormsInv
<1>5. CASE UNCHANGED vars
  BY <1>4, <1>5 DEF vars, FormsInv
<1>6. CASE OpenNew \/ (\E o \in Objects : OpenDetails(o) \/ OpenDialog(o))
           \/ (\E rows \in Selections, all \in BOOLEAN : OpenMulti(rows, all))
  <2>1. FormInv(kind, form')
    BY <1>6, OpenedForm
  <2>2. kind' = kind /\ UNCHANGED <<stored, loaded, created>>
    BY <1>6 DEF OpenNew, OpenDetails, OpenDialog, OpenMulti, Open
  <2>3. QED
    BY <1>4, <2>1, <2>2
<1>7. CASE EditStep
  BY <1>4, <1>7, EditedForm
<1>8. CASE Revert \/ Answered \/ Refresh
  <2>1. FormInv(kind, form')
    BY <1>8, WrittenForm
  <2>2. kind' = kind /\ UNCHANGED <<stored, loaded, created>>
    BY <1>8 DEF Revert, Answered, Refresh
  <2>3. QED
    BY <1>4, <2>1, <2>2
<1>9. CASE LeaveChip \/ UrlsChecked
  <2>1. form # Closed /\ FormInv(kind, form)
    BY <1>9 DEF FormsInv, LeaveChip, UrlsChecked
  <2>2. FormInv(kind, form')
    BY <1>2, <1>9, <2>1, LeaveChipKeeps
  <2>3. kind' = kind /\ UNCHANGED <<stored, loaded, created>>
    BY <1>9 DEF LeaveChip, UrlsChecked
  <2>4. QED
    BY <1>4, <2>2, <2>3
<1>10. CASE ApplyChip("z")
  <2>1. form # Closed /\ FormInv(kind, form)
    BY <1>10 DEF FormsInv, ApplyChip
  <2>2. FormInv(kind, form')
    BY <1>2, <1>10, <2>1, ApplyChipKeeps
  <2>3. kind' = kind /\ UNCHANGED <<stored, loaded, created>>
    BY <1>10 DEF ApplyChip
  <2>4. QED
    BY <1>4, <2>2, <2>3
<1>11. CASE Close
  BY <1>4, <1>11 DEF Close
<1>12. CASE Save
  <2>1. form # Closed /\ form.mode # "multi" /\ Valid(form)
    BY <1>12 DEF Save, Saving
  <2>2. \A object \in Prepared(form) : StoredObject(kind, ToProto(kind, object)) /\ WellMade(ToProto(kind, object))
    BY <2>1, SavedObject
  <2>3. /\ created' = created \cup {ToProto(kind, object) : object \in Prepared(form)}
        /\ kind' = kind /\ stored' = stored /\ loaded' = loaded /\ form' = Closed
    BY <1>12 DEF Save, Saving
  <2>4. ObjectsInv'
    BY <1>2, <2>2, <2>3 DEF ObjectsInv, WellMade
  <2>5. QED
    BY <1>1, <2>3, <2>4 DEF FormsInv
<1>13. ASSUME NEW o \in Objects, UpdateFromDialog(o) PROVE FormsInv'
  <2>1. form # Closed /\ form.mode # "multi" /\ Valid(form)
    BY <1>13 DEF UpdateFromDialog, Saving
  <2>2. /\ StoredObject(kind, ToProto(kind, Prepare(form)))
        /\ \A object \in Prepared(form) :
              StoredObject(kind, ToProto(kind, object)) /\ WellMade(ToProto(kind, object))
    BY <2>1, SavedObject
  <2>3. kind' = kind /\ loaded' = loaded /\ form' = Closed
    BY <1>13 DEF UpdateFromDialog, Saving
  <2>4. \/ stored' = [stored EXCEPT ![o] = ToProto(kind, Prepare(form))] /\ created' = created
        \/ created' = created \cup {ToProto(kind, object) : object \in Prepared(form)} /\ stored' = stored
    BY <1>13 DEF UpdateFromDialog
  <2>5. ObjectsInv'
    BY <1>2, <2>2, <2>3, <2>4 DEF ObjectsInv, WellMade
  <2>6. QED
    BY <1>1, <2>3, <2>5 DEF FormsInv
<1>14. ASSUME NEW o \in Objects, UpdateFromDetails(o) PROVE FormsInv'
  <2> DEFINE object == ToProto(kind, Prepare(form))
             new == [form EXCEPT !.answers = form.answers \cup {object}]
  <2>1. form # Closed /\ form.mode = "details" /\ Valid(form) /\ FormInv(kind, form)
    BY <1>14 DEF UpdateFromDetails, Saving, FormsInv
  <2>2. StoredObject(kind, object)
    BY <2>1, SavedObject
  <2>3. kind' = kind /\ loaded' = loaded /\ created' = created
    BY <1>14 DEF UpdateFromDetails, Saving
  <2>4. stored' = [stored EXCEPT ![o] = object] /\ form' = new
    BY <1>14 DEF UpdateFromDetails
  <2> HIDE DEF object
  <2>5. ObjectsInv'
    BY <1>2, <2>2, <2>3, <2>4 DEF ObjectsInv, WellMade
  <2>6. BaseForm(kind, form) /\ DOMAIN form = FormKeys
    BY <2>1 DEF FormInv, BaseForm
  <2>7. /\ DOMAIN new = FormKeys
        /\ new.mode = form.mode /\ new.ids = form.ids /\ new.all = form.all /\ new.config = form.config
        /\ new.values = form.values /\ new.dirty = form.dirty /\ new.touched = form.touched
        /\ new.operation = form.operation /\ new.enabled = form.enabled /\ new.removing = form.removing
        /\ new.identity = form.identity /\ new.clicked = form.clicked
        /\ new.answers = form.answers \cup {object}
    BY <2>6, SMT DEF FormKeys
  <2> HIDE DEF new
  <2>8. BaseForm(kind, new)
    BY <2>1, <2>2, <2>6, <2>7 DEF BaseForm
  <2>9. FormInv(kind, new)
    BY <2>1, <2>7, <2>8, OtherParts
  <2>10. QED
    BY <1>1, <2>3, <2>4, <2>5, <2>9 DEF FormsInv
<1>15. ASSUME NEW o \in Objects, MoveSeed(o) PROVE FormsInv'
  <2>1. /\ kind = "seed" /\ kind' = kind /\ loaded' = loaded /\ created' = created /\ form' = form
        /\ stored' = [stored EXCEPT ![o] = [stored[o] EXCEPT !["entityRef"] = "c"]]
    BY <1>15 DEF MoveSeed, Saving
  <2> DEFINE before == stored[o]
             after == [before EXCEPT !["entityRef"] = "c"]
  <2>2. StoredObject(kind, before)
    BY <1>2 DEF ObjectsInv, WellMade
  <2>3. stored' = [stored EXCEPT ![o] = after]
    BY <2>1
  <2> HIDE DEF before
  <2>4. StoredObject(kind, after)
    BY <2>1, <2>2, MovedSeed
  <2> HIDE DEF after
  <2>5. ObjectsInv'
    BY <1>2, <2>1, <2>3, <2>4 DEF ObjectsInv, WellMade
  <2>6. QED
    BY <1>1, <2>1, <2>5 DEF FormsInv
<1>16. CASE UpdateMulti
  <2>1. DOMAIN stored' = Objects /\ \A o \in Objects : StoredObject(kind, stored'[o])
    BY <1>16, UpdatedObjects
  <2>2. kind' = kind /\ loaded' = loaded /\ created' = created /\ form' = Closed
    BY <1>16 DEF UpdateMulti, Saving
  <2>3. ObjectsInv'
    BY <1>2, <2>1, <2>2 DEF ObjectsInv, WellMade
  <2>4. QED
    BY <1>1, <2>2, <2>3 DEF FormsInv
<1>17. CASE ListReload
  <2>1. kind' = kind /\ loaded' = stored /\ stored' = stored /\ created' = created /\ form' = form
    BY <1>17 DEF ListReload
  <2>2. ObjectsInv'
    BY <1>2, <2>1 DEF ObjectsInv, WellMade
  <2>3. QED
    BY <1>1, <2>1, <2>2 DEF FormsInv
<1>18. CASE OthersChange
  <2> DEFINE object == SampleObject(2)
  <2>1. /\ kind' = kind /\ stored' = [stored EXCEPT ![1] = object] /\ loaded' = loaded /\ created' = created
        /\ form' = form
    BY <1>18 DEF OthersChange
  <2>2. StoredObject(kind, object)
    <3>1. 2 \in 1..3
      OBVIOUS
    <3>2. QED
      BY <1>2, <3>1, SampleIsStored
  <2> HIDE DEF object
  <2>3. ObjectsInv'
    BY <1>2, <2>1, <2>2 DEF ObjectsInv, WellMade
  <2>4. QED
    BY <1>1, <2>1, <2>3 DEF FormsInv
<1>19. QED
  BY <1>5, <1>6, <1>7, <1>8, <1>9, <1>10, <1>11, <1>12, <1>13, <1>14, <1>15, <1>16, <1>17, <1>18 DEF Next

\* What is read from a control is what the user means.
LEMMA EnteredIsMeant ==
    ASSUME NEW f, form.values[f] # Unset
    PROVE  ReadValue(TypeOf(kind, f), form.values[f]) = Meant(f)
<1> DEFINE type == TypeOf(kind, f)
           v == form.values[f]
<1>1. CASE type = "to"
  BY <1>1 DEF ReadValue, DateToUtc, Meant
<1>2. CASE type = "from"
  BY <1>2 DEF ReadValue, DateToUtc, Meant
<1>3. CASE type \notin {"from", "to"}
  BY <1>3 DEF ReadValue, Meant
<1>4. QED
  BY <1>1, <1>2, <1>3

\* An object that is saved on its own.
LEMMA PreparedFields ==
    ASSUME FormsInv, form # Closed, form.mode # "multi", NEW f \in DetailsOf[kind].controls
    PROVE  /\ f \notin form.touched => Keeps(f, Prepare(form)[f])
           /\ f \in form.touched => Prepare(form)[f] = Meant(f)
<1>1. kind \in Kinds /\ FormInv(kind, form) /\ SingleForm(kind, form) /\ f \in Fields(kind)
  BY KindIsKind, ControlsAreFields DEF FormsInv, FormInv
<1>2. Prepare(form)[f] = ReadValue(TypeOf(kind, f), form.values[f])
  BY <1>1, PreparedFacts
<1>3. f \in form.touched \/ Keeps(f, ReadValue(TypeOf(kind, f), form.values[f]))
  BY <1>1 DEF SingleForm, Shows, OfferedSize, Offered, Keeps
<1>4. ReadValue(TypeOf(kind, f), form.values[f]) = Meant(f)
  <2>1. InputValue(TypeOf(kind, f), form.values[f]) /\ TypeOf(kind, f) \in Types
    BY <1>1, FieldTable DEF SingleForm, FieldFacts
  <2>2. form.values[f] # Unset
    BY <2>1, NotUnset DEF InputValue, PlainValue
  <2>3. QED
    BY <2>2, EnteredIsMeant
<1>5. QED
  BY <1>2, <1>3, <1>4

\* A field that saving does not erase has a control.
LEMMA KeptFields ==
    ASSUME kind \in Kinds, NEW f \in Fields(kind) \ Erased(kind) PROVE f \in DetailsOf[kind].controls
BY FieldTable DEF FieldFacts

\* What is stored is well formed.
LEMMA FormTypes ==
    ASSUME FormsInv PROVE FormTypeOK
<1>1. kind \in Kinds
  BY KindIsKind DEF FormsInv
<1>2. \A o \in Objects : WellFormed(stored[o])
  BY <1>1, StoredIsWellFormed DEF FormsInv, ObjectsInv
<1>3. \A object \in created : WellFormed(object) /\ WellMade(object)
  BY <1>1, StoredIsWellFormed DEF FormsInv, ObjectsInv
<1>4. ASSUME form # Closed
      PROVE  /\ DOMAIN form.values = FormFields(form.mode)
             /\ DOMAIN form.operation = FormFields(form.mode)
             /\ form.enabled \subseteq FormFields(form.mode)
  BY <1>4, FieldsOfForm DEF FormsInv, FormInv
<1>5. QED
  BY <1>2, <1>3, <1>4 DEF FormsInv, BoundsInv, FormTypeOK

\* A form without changes shows its object.
LEMMA PristineForm ==
    ASSUME FormsInv PROVE PristineFormShowsConfig
<1> SUFFICES ASSUME form # Closed, form.mode # "multi", form.dirty = {}, NEW f \in DetailsOf[kind].controls
             PROVE  Keeps(f, ToProto(kind, Prepare(form))[f])
  BY DEF PristineFormShowsConfig
<1>1. kind \in Kinds /\ FormInv(kind, form) /\ SingleForm(kind, form)
  BY KindIsKind DEF FormsInv, FormInv
<1>2. form.touched = {}
  BY <1>1 DEF SingleForm
<1>3. ToProto(kind, Prepare(form)) = Prepare(form)
  BY <1>1, PreparedFacts
<1>4. QED
  BY <1>2, <1>3, PreparedFields

\* The update of one object.
LEMMA UpdatedObject ==
    ASSUME FormsInv, NEW o \in Objects,
           UpdateFromDetails(o) \/ (UpdateFromDialog(o) /\ Cardinality(Prepared(form)) = 1)
    PROVE  /\ form # Closed /\ form.mode # "multi" /\ form.ids # {}
           /\ stored'[o] = ToProto(kind, Prepare(form))
<1>1. o \in DOMAIN stored
  BY DEF FormsInv, ObjectsInv
<1> DEFINE object == ToProto(kind, Prepare(form))
<1>2. stored' = [stored EXCEPT ![o] = object] /\ form # Closed /\ form.mode # "multi" /\ form.ids = {o}
  BY DEF UpdateFromDetails, UpdateFromDialog, Saving
<1> HIDE DEF object
<1>3. stored'[o] = object
  BY <1>1, <1>2
<1>4. QED
  BY <1>2, <1>3 DEF object

\* The update of several.
LEMMA UpdatedSeveral ==
    ASSUME FormsInv, UpdateMulti, NEW o \in Objects
    PROVE  /\ form # Closed /\ form.mode = "multi" /\ kind \in Kinds /\ FormInv(kind, form)
           /\ StoredObject(kind, stored[o])
           /\ stored'[o] = IF o \in form.ids
                           THEN ApplyMask(kind, stored[o], Template(form), Sent(form, "none"), Sent(form, "add"),
                                          Sent(form, "remove"))
                           ELSE stored[o]
BY KindIsKind DEF FormsInv, ObjectsInv, UpdateMulti, Saving

\* No way of saving changes what was not touched.
LEMMA UntouchedStep ==
    ASSUME "politenessConfig" \notin AllKinds, FormsInv PROVE SavingKeepsUntouched
<1>1. ASSUME NEW o \in Objects,
             UpdateFromDetails(o) \/ (UpdateFromDialog(o) /\ Cardinality(Prepared(form)) = 1),
             NEW f \in Fields(kind) \ (form.touched \cup Erased(kind))
      PROVE  Keeps(f, stored'[o][f])
  <2>1. form # Closed /\ form.mode # "multi" /\ stored'[o] = ToProto(kind, Prepare(form))
    BY <1>1, UpdatedObject
  <2>2. kind \in Kinds /\ FormInv(kind, form)
    BY <2>1, KindIsKind DEF FormsInv
  <2>3. ToProto(kind, Prepare(form)) = Prepare(form)
    BY <2>1, <2>2, PreparedFacts
  <2>4. Keeps(f, Prepare(form)[f])
    BY <1>1, <2>1, <2>2, KeptFields, PreparedFields
  <2>5. QED
    BY <2>1, <2>3, <2>4
<1>2. ASSUME Save, NEW object \in created' \ created,
             NEW f \in Fields(kind) \ (form.touched \cup Erased(kind) \cup {"name"})
      PROVE  Keeps(f, object[f])
  <2>1. /\ form # Closed /\ form.mode # "multi" /\ Valid(form)
        /\ created' = created \cup {ToProto(kind, new) : new \in Prepared(form)}
    BY <1>2 DEF Save, Saving
  <2>2. PICK new \in Prepared(form) : object = ToProto(kind, new)
    BY <1>2, <2>1
  <2>3. kind \in Kinds /\ FormInv(kind, form)
    BY <2>1, KindIsKind DEF FormsInv
  <2>4. object[f] = Prepare(form)[f]
    BY <1>2, <2>1, <2>2, <2>3, PreparedObjects
  <2>5. Keeps(f, Prepare(form)[f])
    BY <1>2, <2>1, <2>3, KeptFields, PreparedFields
  <2>6. QED
    BY <2>4, <2>5
<1>3. ASSUME UpdateMulti, NEW o \in Objects, NEW f \in Fields(kind) \ form.touched
      PROVE  stored'[o][f] = stored[o][f]
  <2> DEFINE before == stored[o]
             after == ApplyMask(kind, before, Template(form), Sent(form, "none"), Sent(form, "add"),
                                Sent(form, "remove"))
  <2>1. /\ form # Closed /\ form.mode = "multi" /\ kind \in Kinds /\ FormInv(kind, form)
        /\ StoredObject(kind, before)
        /\ stored'[o] = IF o \in form.ids THEN after ELSE before
    BY <1>3, UpdatedSeveral
  <2> HIDE DEF before
  <2>2. after[f] = before[f]
    BY <1>3, <2>1, BulkUpdate
  <2>3. stored'[o][f] = before[f]
    BY <2>1, <2>2
  <2>4. QED
    BY <2>3 DEF before
<1>4. QED
  BY <1>1, <1>2, <1>3 DEF SavingKeepsUntouched

\* Every way of saving stores what was touched.
LEMMA TouchedStep ==
    ASSUME FormsInv PROVE SavingSetsTouched
<1>1. ASSUME NEW o \in Objects,
             UpdateFromDetails(o) \/ (UpdateFromDialog(o) /\ Cardinality(Prepared(form)) = 1),
             NEW f \in form.touched
      PROVE  stored'[o][f] = Meant(f)
  <2>1. form # Closed /\ form.mode # "multi" /\ stored'[o] = ToProto(kind, Prepare(form))
    BY <1>1, UpdatedObject
  <2>2. kind \in Kinds /\ SingleForm(kind, form)
    BY <2>1, KindIsKind DEF FormsInv, FormInv
  <2>3. f \in DetailsOf[kind].controls
    BY <1>1, <2>2 DEF SingleForm
  <2>4. ToProto(kind, Prepare(form)) = Prepare(form)
    BY <2>1, <2>2, PreparedFacts DEF FormsInv
  <2>5. QED
    BY <1>1, <2>1, <2>3, <2>4, PreparedFields
<1>2. ASSUME UpdateMulti, NEW o \in form.ids, NEW f \in form.touched
      PROVE  LET chosen == Elements(TypeOf(kind, f), form.values[f])
                 has == Elements(TypeOf(kind, f), stored'[o][f])
             IN  CASE form.operation[f] = "add" -> chosen \subseteq has
                   [] form.operation[f] = "remove" -> chosen \cap has = {}
                   [] OTHER -> LeftOut(f) \/ stored'[o][f] = Meant(f)
  <2> DEFINE before == stored[o]
             after == ApplyMask(kind, before, Template(form), Sent(form, "none"), Sent(form, "add"),
                                Sent(form, "remove"))
             type == TypeOf(kind, f)
             operation == form.operation[f]
  <2>1. o \in Objects
    <3>1. form # Closed
      BY <1>2 DEF UpdateMulti, Saving
    <3>2. form.ids \subseteq Objects
      BY <3>1 DEF FormsInv, FormInv, BaseForm
    <3>3. QED
      BY <1>2, <3>2
  <2>2. /\ form # Closed /\ form.mode = "multi" /\ kind \in Kinds /\ FormInv(kind, form)
        /\ StoredObject(kind, before)
        /\ stored'[o] = IF o \in form.ids THEN after ELSE before
    BY <1>2, <2>1, UpdatedSeveral
  <2> HIDE DEF before
  <2>3. /\ form.values[f] # Unset
        /\ operation = "add" => Elements(type, form.values[f]) \subseteq Elements(type, after[f])
        /\ operation = "remove" => Elements(type, form.values[f]) \cap Elements(type, after[f]) = {}
        /\ operation = "none" => \/ MultiOf[kind][f] \in {"reference", "chosen"} /\ form.values[f] = Blank
                                 \/ ~form.all /\ form.values[f] = form.config[f]
                                 \/ after[f] = ReadValue(type, form.values[f])
        /\ operation \in {"none", "add", "remove"}
    BY <1>2, <2>2, BulkUpdate
  <2>4. ReadValue(type, form.values[f]) = Meant(f)
    BY <2>3, EnteredIsMeant
  <2>5. stored'[o] = after
    BY <1>2, <2>2
  <2> HIDE DEF after, type, operation
  <2>6. /\ operation = "add" => Elements(type, form.values[f]) \subseteq Elements(type, stored'[o][f])
        /\ operation = "remove" => Elements(type, form.values[f]) \cap Elements(type, stored'[o][f]) = {}
        /\ operation = "none" => LeftOut(f) \/ stored'[o][f] = Meant(f)
        /\ operation \in {"none", "add", "remove"}
    BY <2>3, <2>4, <2>5 DEF LeftOut
  <2>7. CASE operation = "add"
    BY <2>6, <2>7 DEF operation, type
  <2>8. CASE operation = "remove"
    BY <2>6, <2>8 DEF operation, type
  <2>9. CASE operation = "none"
    BY <2>6, <2>9 DEF operation, type
  <2>10. QED
    BY <2>6, <2>7, <2>8, <2>9
<1>3. QED
  BY <1>1, <1>2 DEF SavingSetsTouched

(***************************************************************************)
(* The theorems                                                            *)
(***************************************************************************)

\* The inductive invariant of the forms holds.
THEOREM FormsInvHolds == Spec => []FormsInv
<1>1. FormsInv /\ [Next]_vars => FormsInv'
  BY StepKeeps
<1>2. QED
  BY <1>1, InitKeeps, PTL DEF Spec

\* Every object that the dashboard has written is well formed, whatever the forms went through: it has a value of its
\* type in every field and a role mapping is for an email address, for a group or for an API key; a schedule that is
\* created is for whole days, and a seed that is created has one URL (prepareSave, ConfigObject.toProto,
\* prepareSaveMultiple).  This is for any number of forms, edits and changes by others, and any time zone.
THEOREM FormTypesHold == Spec => []FormTypeOK
BY FormTypes, FormsInvHolds, PTL

\* A form without changes would save, in every control that shows its value exactly, what it was written from, also
\* after it was reverted, refreshed or written from the answer of the server (updateForm, prepareSave, the inputs).
\* The values that are not shown exactly are those of Exact: durations in milliseconds of an hour and more, sizes
\* between two hundredths of their unit, dates within a day or of another day in the browser's time zone, and selectors
\* of more than two parts.
THEOREM PristineFormsShowConfig == Spec => []PristineFormShowsConfig
BY PristineForm, FormsInvHolds, PTL

\* Saving changes only what the user has changed, of one object, of a clone, a new object or of all that a bulk update
\* is for (prepareSave, prepareMultiSave and its pathList).  The exceptions are the fields of one object that saving
\* erases (Erased) or that its form does not show exactly (Exact), and a bulk update of everything in the database of
\* politeness configurations: their robots policy is then sent because its control is activated.
THEOREM UntouchedFieldsKept ==
    ASSUME "politenessConfig" \notin AllKinds
    PROVE  Spec => UntouchedFieldsAreKept
<1>1. FormsInv => SavingKeepsUntouched
  BY UntouchedStep
<1>2. QED
  BY <1>1, FormsInvHolds, PTL DEF UntouchedFieldsAreKept

\* Saving changes everything that the user has changed, in every object of the form: values are stored, the elements
\* that were added to a list are there and the ones that were removed are gone (prepareMultiSave; an update of
\* politeness configurations is no exception here).
THEOREM TouchedFieldsSet == Spec => TouchedFieldsAreSet
<1>1. FormsInv => SavingSetsTouched
  BY TouchedStep
<1>2. QED
  BY <1>1, FormsInvHolds, PTL DEF TouchedFieldsAreSet

=============================================================================
