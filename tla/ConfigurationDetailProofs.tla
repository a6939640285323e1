--------------------- MODULE ConfigurationDetailProofs ---------------------
(***************************************************************************)
(* The theorems of Session and ConfigurationDetail, for all pages, users,  *)
(* objects and references and any number of operations: nobody who is      *)
(* signed in sees a page that the guards of its routes would refuse; the   *)
(* page of an object has its types; its panels are about what the object   *)
(* refers to; and what they show is no older than the operations that have *)
(* been answered.                                                          *)
(***************************************************************************)
EXTENDS ConfigurationDetail, FiniteSetTheorems, TLAPS

(***************************************************************************)
(* The session                                                             *)
(***************************************************************************)

Permitted(target, able) == \A s \in Guards(target) : Can(able, "read", s)

\* The guards look at the page that is shown, so it matters that a program that starts shows
\* none, that a page under way has been permitted and that the ability is that of the roles.
\* Whoever is signed in is not sent away from a page.
SessionInv ==
    /\ user \subseteq Roles /\ roles \subseteq Roles
    /\ app = "starting" => page = Nowhere
    /\ app = "running" => ability = roles
    /\ app # "running" /\ IsLoggedIn(roles) => page = Nowhere
    /\ PagePermitted
    /\ app = "running" /\ IsLoggedIn(roles) /\ moving # None => Permitted(moving, roles)

\* The roles of the server's users.
LEMMA UserFacts == \A u \in UserRoles \cup {Anonymous} : u \subseteq Roles
BY RolesAssumption DEF Anonymous, Roles

\* The pages without a guard.
LEMMA OpenPages == Guards(Nowhere) = {} /\ Guards(Home) = {}
BY DEF Guards, Nowhere, Home, Page

\* The router runs the guards of the routes that change; the others were passed before.
LEMMA EntersPermitted ==
    ASSUME NEW from, NEW target, NEW able, Permitted(from, able), Verdict(from, target, able) = "enter"
    PROVE  Permitted(target, able)
BY DEF Permitted, Verdict

\* A navigation that is begun from a page that is permitted.
LEMMA SessionNavigates ==
    ASSUME SessionInv, NEW target, Navigate(target), UNCHANGED <<user, roles, ability, page>>
    PROVE  SessionInv'
<1>1. app' = "starting" => page' = Nowhere
  BY DEF SessionInv, Navigate
<1>2. app' = "running" => app = "running"
  BY DEF Navigate
<1>3. PagePermitted'
  BY <1>2 DEF SessionInv, PagePermitted
<1>4. ASSUME app' = "running", IsLoggedIn(roles), moving' # None PROVE Permitted(moving', roles)
  <2>1. Permitted(page, roles) /\ ability = roles
    BY <1>2, <1>4 DEF SessionInv, PagePermitted, Permitted
  <2>2. moving' = target /\ Verdict(page, target, roles) = "enter"
    BY <1>4, <2>1 DEF Navigate
  <2>3. QED
    BY <2>1, <2>2, EntersPermitted
<1>5. ASSUME app' # "running", IsLoggedIn(roles) PROVE page = Nowhere
  <2>1. CASE app = "running"
    BY <1>5, <2>1 DEF SessionInv, Navigate, Verdict
  <2>2. CASE app # "running"
    BY <1>5, <2>2 DEF SessionInv
  <2>3. QED
    BY <2>1, <2>2
<1>6. QED
  BY <1>1, <1>2, <1>3, <1>4, <1>5 DEF SessionInv

\* Whatever the user, the router and the identity provider do.
LEMMA SessionMovesOn == ASSUME SessionInv, SessionStep PROVE SessionInv'
<1>1. CASE Start
  <2>1. page = Nowhere /\ UNCHANGED <<user, page>> /\ roles' = user /\ ability' = user
    BY <1>1 DEF Start, SessionInv
  <2>2. app' # "starting" /\ PagePermitted'
    BY <1>1, <2>1, OpenPages DEF Start, PagePermitted
  <2>3. ASSUME moving' # None PROVE Permitted(moving', user)
    <3>1. PICK target : moving' = target /\ Verdict(Nowhere, target, user) = "enter"
      BY <1>1, <2>3 DEF Start
    <3>2. Permitted(Nowhere, user)
      BY OpenPages DEF Permitted
    <3>3. QED
      BY <3>1, <3>2, EntersPermitted
  <2>4. QED
    BY <2>1, <2>2, <2>3 DEF SessionInv
<1>2. CASE Activate
  BY <1>2 DEF Activate, SessionInv, PagePermitted, Permitted
<1>3. ASSUME NEW target \in Pages, Follow(target) PROVE SessionInv'
  BY <1>3, SessionNavigates DEF Follow
<1>4. CASE OnLogout
  <2>1. roles' = Anonymous /\ ability' = Anonymous /\ user' = Anonymous /\ UNCHANGED <<app, page>>
        /\ app = "running"
    BY <1>4 DEF OnLogout
  <2>2. ~IsLoggedIn(Anonymous)
    BY DEF IsLoggedIn
  <2>3. QED
    BY <2>1, <2>2, UserFacts DEF SessionInv, PagePermitted
<1>5. CASE OnLogin \/ StartFails \/ TokenExpires
  BY <1>5, UserFacts DEF OnLogin, StartFails, TokenExpires, SessionInv, PagePermitted
<1>6. CASE ComeBack \/ \E target \in Pages : Open(target)
  <2>1. app' = "starting" /\ page' = Nowhere /\ roles' = Anonymous /\ user' \subseteq Roles
    BY <1>6, UserFacts DEF ComeBack, Open, SessionInv
  <2>2. QED
    BY <2>1, UserFacts DEF SessionInv, PagePermitted
<1>7. QED
  BY <1>1, <1>2, <1>3, <1>4, <1>5, <1>6 DEF SessionStep

\* The answers that the page of an object waits for make the router move as well.
LEMMA SessionStays == ASSUME SessionInv, UNCHANGED sessionVars PROVE SessionInv'
BY DEF SessionInv, sessionVars, PagePermitted

\* The router goes to a page by itself, or stays.
LEMMA SessionAnswers == ASSUME SessionInv, NEW c, Answer(c) PROVE SessionInv'
<1>1. ASSUME NEW target, NEW cs, Redirect(target, cs) PROVE SessionInv'
  BY <1>1, SessionNavigates DEF Redirect
<1>2. CASE AnswerUnheard(c) \/ AnswerUpdate(c) \/ AnswerRelated(c)
  BY <1>2, SessionStays DEF AnswerUnheard, AnswerUpdate, AnswerRelated
<1>3. CASE AnswerSave(c)
  <2>1. CASE Navigate(PageOf(c.result.id))
    BY <1>1, <1>3, <2>1, SessionNavigates DEF AnswerSave, Redirect
  <2>2. CASE ~Navigate(PageOf(c.result.id))
    <3>1. UNCHANGED <<app, requested, moving, user, roles, ability, page, moves>>
      BY <1>3, <2>2 DEF AnswerSave, Redirect
    <3>2. QED
      BY <3>1, SessionStays DEF sessionVars
  <2>3. QED
    BY <2>1, <2>2
<1>4. CASE AnswerDelete(c) \/ AnswerRun(c)
  BY <1>1, <1>4 DEF AnswerDelete, AnswerRun
<1>5. QED
  BY <1>2, <1>3, <1>4 DEF Answer

\* Every step of the dashboard.
LEMMA SessionInvStep == ASSUME SessionInv, [DetailNext]_allVars PROVE SessionInv'
<1>1. CASE OnSession
  BY <1>1, SessionMovesOn DEF OnSession
<1>2. ASSUME NEW c \in calls, Answer(c) PROVE SessionInv'
  BY <1>2, SessionAnswers
<1>3. CASE \/ ServeGet \/ GetArrives \/ ServeSeeds \/ ServeMoreSeeds \/ \E p \in Panels, id \in Ids : ServePanel(p, id)
           \/ \E disabled \in {"any", "no", "yes"} : OnEntitySeedQueryChange(disabled)
  BY <1>3, SessionStays DEF ServeGet, GetArrives, ServeSeeds, ServeMoreSeeds, ServePanel, OnEntitySeedQueryChange
<1>4. ASSUME NEW target, NEW kind, OnCreateConfigWithDialog(kind, target) \/ OpenDialog(kind, target)
      PROVE  SessionInv'
  BY <1>4, SessionStays DEF OnCreateConfigWithDialog, OpenDialog
<1>5. CASE OptionsArrive \/ OptionsFail \/ Cancel \/ Confirm \/ OnUpdate
  BY <1>5, SessionStays DEF OptionsArrive, OptionsFail, Cancel, Confirm, OnUpdate
<1>6. ASSUME NEW c, Execute(c) \/ ExecuteFails(c) PROVE SessionInv'
  BY <1>6, SessionStays DEF Execute, ExecuteFails
<1>7. CASE UNCHANGED allVars
  BY <1>7, SessionStays DEF allVars
<1>8. QED
  BY <1>1, <1>2, <1>3, <1>4, <1>5, <1>6, <1>7 DEF DetailNext

\* Who may read a kind of object or a report may read the section that it is in.
LEMMA SectionOfSubject ==
    ASSUME NEW able \in SUBSET Roles
    PROVE  /\ \A k \in Kinds : Can(able, "read", k) => Can(able, "read", "configs")
           /\ \A r \in Reports : Can(able, "read", r) => Can(able, "read", "report")
<1>1. ASSUME NEW role \in Roles, NEW s \in Kinds, <<"read", s>> \in Rules[role]
      PROVE  <<"read", "configs">> \in Rules[role]
  BY <1>1 DEF Rules, Roles, Kinds, Reading, Running, Annotating, OperatorConfigs, CuratorConfigs,
              ConsultantConfigs, Reports
<1>2. ASSUME NEW role \in Roles, NEW s \in Reports, <<"read", s>> \in Rules[role]
      PROVE  <<"read", "report">> \in Rules[role]
  BY <1>2 DEF Rules, Roles, Kinds, Reading, Running, Annotating, OperatorConfigs, CuratorConfigs,
              ConsultantConfigs, Reports
<1>3. QED
  BY <1>1, <1>2 DEF Can

\* What the guards ask on the way to a list.
LEMMA ListGuards ==
    /\ \A k \in Kinds : Guards(ListOf(k)) \subseteq {"configs", k}
    /\ \A r \in Reports : Guards(ListOf(r)) \subseteq {"report", r}
BY DEF Guards, ListOf, Page, ConfigGuards, ReportGuards, Kinds, Reports

\* A destination of a menu is permitted.
LEMMA MenuPermitted == SessionInv => MenuIsPermitted
<1> SUFFICES ASSUME SessionInv, NEW target \in Menu PROVE Verdict(Nowhere, target, roles) = "enter"
  BY DEF MenuIsPermitted
<1>1. app = "running" /\ IsLoggedIn(roles) /\ ability = roles /\ roles \in SUBSET Roles
  BY DEF Menu, SessionInv
<1>2. SUFFICES \A s \in Guards(target) : Can(roles, "read", s)
  BY <1>1, OpenPages DEF Verdict
<1>3. CASE target \in PrimaryDestinations(roles)
  <2>1. /\ Guards(Page("config", None, None)) \subseteq {"configs"}
        /\ Guards(Page("report", None, None)) \subseteq {"report"}
    BY DEF Guards, Page, ConfigGuards, ReportGuards
  <2>2. QED
    BY <1>3, <2>1, OpenPages DEF PrimaryDestinations
<1>4. ASSUME NEW s \in Kinds \cup Reports, Can(roles, "read", s), target = ListOf(s)
      PROVE  \A g \in Guards(target) : Can(roles, "read", g)
  BY <1>1, <1>4, ListGuards, SectionOfSubject
<1>5. CASE target \in ConfigDestinations(roles) \cup ReportDestinations(roles)
  BY <1>4, <1>5 DEF ConfigDestinations, ReportDestinations
<1>6. CASE target \in RailDestinations(roles)
  <2>1. {"CRAWLENTITY", "SEED", "CRAWLJOB"} \subseteq Kinds /\ {"jobexecution", "crawlexecution"} \subseteq Reports
    BY DEF Kinds, Reports
  <2>2. target = Home \/ \E s \in Kinds \cup Reports : Can(roles, "read", s) /\ target = ListOf(s)
    BY <1>6, <2>1 DEF RailDestinations
  <2>3. QED
    BY <1>4, <2>2, OpenPages
<1>7. QED
  BY <1>1, <1>3, <1>5, <1>6 DEF Menu

\* Init shows no page and knows no roles.
LEMMA SessionInvInit == DetailInit => SessionInv
BY UserFacts, OpenPages DEF DetailInit, SessionInit, SessionInv, PagePermitted

\* The session's invariant holds.
THEOREM SessionInvHolds == DetailSpec => []SessionInv
<1>1. SessionInv /\ [DetailNext]_allVars => SessionInv'
  BY SessionInvStep
<1>2. QED
  BY <1>1, SessionInvInit, PTL DEF DetailSpec

\* canActivate runs only for the routes that change, navigations overtake each other, answers make
\* the router move and users sign out in between: still whoever is signed in sees no page that
\* a guard on the way to it would refuse, whatever roles, pages and objects there are.
THEOREM PagesArePermitted == DetailSpec => []PagePermitted
<1>1. SessionInv => PagePermitted
  BY DEF SessionInv
<1>2. QED
  BY <1>1, SessionInvHolds, PTL

\* Every destination that the menus and the rail offer is one that the guards let the user into.
THEOREM MenusArePermitted == DetailSpec => []MenuIsPermitted
BY MenuPermitted, SessionInvHolds, PTL

(***************************************************************************)
(* The page of an object                                                   *)
(***************************************************************************)

\* An address of an object names one.
Address(p) == Shows(p) => p.id \in Ids

\* So do those the router is about to go to.
PlaceInv ==
    /\ Address(page)
    /\ moving # None => Address(moving)
    /\ requested # None => Address(requested)

\* The component is there while the page of an object is shown.
Alive == app = "running" /\ Shows(page)

\* What the session may do to the page: it is another only after a navigation, which changes nobody's
\* ability, and whoever has just been found to be signed in has no page yet.
PageMoves ==
    /\ app' = "running" /\ page' # page => app = "running" /\ ability' = ability /\ roles' = roles
    /\ app' = "running" /\ app # "running" => page' = page /\ page = Nowhere
    /\ IsLoggedIn(roles') => (roles' = roles /\ ability' = ability) \/ page' = Nowhere

\* The addresses that do not name an object.
LEMMA PlainAddresses ==
    /\ Address(Nowhere) /\ Address(Home) /\ ~Shows(Nowhere)
    /\ \A s : Address(ListOf(s))
    /\ \A s, i : Address(Page("report", s, i))
BY DEF Address, Shows, Nowhere, Home, ListOf, Page

\* The addresses of objects.
LEMMA ObjectAddresses == \A id \in Ids : Address(PageOf(id))
BY DEF Address, PageOf, Page

\* A navigation to an address.
LEMMA PlaceNavigates ==
    ASSUME PlaceInv, NEW target, Address(target), Navigate(target),
           UNCHANGED <<user, roles, ability, page>>
    PROVE  PlaceInv' /\ PageMoves
<1>1. Address(page)' /\ (moving' # None => Address(moving)') /\ (requested' # None => Address(requested)')
  BY DEF Navigate, PlaceInv, Address, Shows
<1>2. app' = "running" => app = "running"
  BY DEF Navigate
<1>3. QED
  BY <1>1, <1>2 DEF PlaceInv, PageMoves

\* The session's own steps.
LEMMA PlaceMovesOn == ASSUME SessionInv, PlaceInv, SessionStep PROVE PlaceInv' /\ PageMoves
<1>0. ~IsLoggedIn(Anonymous) /\ \A p \in Pages : Address(p)
  BY AddressAssumption DEF IsLoggedIn, Address
<1>1. CASE Start
  <2>1. /\ app = "starting" /\ page = Nowhere /\ page' = page
        /\ \/ moving' = None \/ moving' = moving \/ (moving' = requested /\ requested # None)
        /\ \/ requested' = None \/ requested' = moving \/ (requested' = requested /\ requested # None)
    BY <1>1 DEF Start, SessionInv
  <2>2. Address(page)' /\ (moving' # None => Address(moving)') /\ (requested' # None => Address(requested)')
    BY <2>1 DEF PlaceInv, Address, Shows
  <2>3. QED
    BY <2>1, <2>2 DEF PlaceInv, PageMoves
<1>2. CASE Activate
  BY <1>2 DEF Activate, PlaceInv, PageMoves, Address, Shows
<1>3. ASSUME NEW target \in Pages, Follow(target) PROVE PlaceInv' /\ PageMoves
  BY <1>0, <1>3, PlaceNavigates DEF Follow
<1>4. CASE OnLogout
  BY <1>0, <1>4, PlainAddresses DEF OnLogout, PlaceInv, PageMoves, Address, Shows
<1>5. CASE OnLogin \/ StartFails \/ TokenExpires
  BY <1>5 DEF OnLogin, StartFails, TokenExpires, PlaceInv, PageMoves, Address, Shows
<1>6. ASSUME NEW target, Address(target), Open(target) \/ (ComeBack /\ target = Home) PROVE PlaceInv' /\ PageMoves
  <2>1. /\ app' = "starting" /\ page' = Nowhere /\ moving' = target /\ roles' = Anonymous
        /\ requested' \in {None, requested}
    BY <1>6 DEF Open, ComeBack
  <2>2. Address(page)' /\ Address(moving)' /\ (requested' # None => Address(requested)')
    BY <1>6, <2>1, PlainAddresses DEF PlaceInv, Address, Shows
  <2>3. QED
    BY <1>0, <2>1, <2>2 DEF PlaceInv, PageMoves
<1>7. QED
  BY <1>0, <1>1, <1>2, <1>3, <1>4, <1>5, <1>6, PlainAddresses DEF SessionStep

\* Without the component nothing is shown or loaded, and a dialog or a call that is left does not answer to it.
AliveInv ==
    ~Alive =>
        /\ shown = None /\ get = None /\ opening = None
        /\ seeds = {} /\ seedLoad = FALSE
        /\ dialog # None => dialog.heard = "late"
        /\ \A c \in calls : c.heard # "yes"

\* Nothing is loaded for an object that is not shown.
ShownInv == shown = None => \A p \in Panels : contexts[p] = {} /\ loading[p] = None

\* The numbers of the calls that the server has not executed yet.
Unexecuted == {c.no : c \in {c \in calls : c.state = "sent"}}

\* Calls are numbered, and each that is executed moves the clock once at most.
CallInv ==
    /\ \A c \in calls : c.no <= sent
    /\ \A c, d \in calls : c.no = d.no => c = d
    /\ clock + Cardinality(Unexecuted) <= sent

PageInv == DetailTypeOK /\ PlaceInv /\ AliveInv /\ ShownInv /\ CallInv

\* The options that are loaded are objects.
LEMMA OptionFacts ==
    ASSUME options \in [Lists -> SUBSET Ids], NEW kind PROVE NextOptions(kind) \in [Lists -> SUBSET Ids]
BY DEF NextOptions, Loaded

\* A panel is about objects, and about none when nothing is shown.
LEMMA WantedFacts ==
    ASSUME NEW named \in Named \cup {None}, NEW lists \in [Lists -> SUBSET Ids], NEW p \in Panels
    PROVE  Wanted(p, named, lists) \in SUBSET Ids /\ (named = None => Wanted(p, named, lists) = {})
<1>1. CASE named = None
  BY <1>1 DEF Wanted
<1>2. CASE named \in Named /\ named # None
  <2>1. named.id \in Ids /\ named.object.refs \in SUBSET Ids
    BY <1>2 DEF Named, Object
  <2>2. lists["browserScripts"] \in SUBSET Ids /\ lists["crawlJobs"] \in SUBSET Ids
    BY DEF Lists
  <2>3. RelatedConfigDescriptors(named, lists) \in SUBSET Ids
    BY <2>1, <2>2 DEF RelatedConfigDescriptors, DirectConfigDescriptors, SelectedScripts
  <2>4. ScriptAnnotationJobs(named, lists) \in SUBSET Ids
    BY <2>1, <2>2 DEF ScriptAnnotationJobs
  <2>5. QED
    BY <1>2, <2>3, <2>4 DEF Wanted
<1>3. QED
  BY <1>1, <1>2

\* What is shown changes.
LEMMA EmitFacts ==
    ASSUME contexts \in [Panels -> SUBSET Card], NEW named \in Named \cup {None},
           NEW lists \in [Lists -> SUBSET Ids], Emit(named, lists)
    PROVE  /\ shown' \in Named \cup {None}
           /\ contexts' \in [Panels -> SUBSET Card]
           /\ loading' \in [Panels -> [todo : SUBSET Ids, done : SUBSET Card] \cup {None}]
           /\ ShownInv'
<1>1. \A p \in Panels : Wanted(p, named, lists) \in SUBSET Ids /\ (named = None => Wanted(p, named, lists) = {})
  BY WantedFacts
<1>2. contexts' \in [Panels -> SUBSET Card]
  BY DEF Emit, EmptyPanel
<1>3. \A p \in Panels : [todo |-> Wanted(p, named, lists), done |-> {}] \in [todo : SUBSET Ids, done : SUBSET Card]
  BY <1>1
<1>4. loading' \in [Panels -> [todo : SUBSET Ids, done : SUBSET Card] \cup {None}]
  BY <1>3 DEF Emit
<1>5. ShownInv'
  BY <1>1 DEF Emit, EmptyPanel, ShownInv
<1>6. QED
  BY <1>2, <1>4, <1>5 DEF Emit

\* The calls of after are some of those before, some of which are heard no more.
Continues(after, before) ==
    /\ \A n \in after : \E c \in before :
          /\ n.no = c.no /\ n.state = c.state /\ n.kind = c.kind /\ n.result = c.result
          /\ n.heard \in {c.heard, "late", "no"}
    /\ \A m, n \in after : m.no = n.no => m = n

\* Calls stay as they are, end, or are not heard any more.
LEMMA ContinuesFacts ==
    ASSUME calls \subseteq Call, CallInv, NEW cs \in SUBSET calls
    PROVE  /\ cs \subseteq Call /\ Continues(cs, calls)
           /\ Unsubscribed(cs) \subseteq Call /\ Continues(Unsubscribed(cs), calls)
           /\ \A n \in Unsubscribed(cs) : n.heard # "yes"
           /\ {[c EXCEPT !.heard = "no"] : c \in cs} \subseteq Call
           /\ Continues({[c EXCEPT !.heard = "no"] : c \in cs}, calls)
           /\ \A n \in {[c EXCEPT !.heard = "no"] : c \in cs} : n.heard # "yes"
<1>1. ASSUME NEW c \in cs, NEW h \in {"late", "no"}
      PROVE  /\ [c EXCEPT !.heard = h] \in Call
             /\ [c EXCEPT !.heard = h].no = c.no /\ [c EXCEPT !.heard = h].state = c.state
             /\ [c EXCEPT !.heard = h].kind = c.kind /\ [c EXCEPT !.heard = h].result = c.result
             /\ [c EXCEPT !.heard = h].heard = h
  BY DEF Call
<1>2. \A c, d \in cs : c.no = d.no => c = d
  BY DEF CallInv
<1>3. /\ {[c EXCEPT !.heard = "no"] : c \in cs} \subseteq Call
      /\ \A n \in {[c EXCEPT !.heard = "no"] : c \in cs} : n.heard # "yes"
  BY <1>1
<1>4. Continues({[c EXCEPT !.heard = "no"] : c \in cs}, calls)
  <2> DEFINE mute == {[c EXCEPT !.heard = "no"] : c \in cs}
  <2>1. \A n \in mute : \E c \in cs : n = [c EXCEPT !.heard = "no"]
    OBVIOUS
  <2> HIDE DEF mute
  <2>2. ASSUME NEW n \in mute
        PROVE  \E c \in calls : /\ n.no = c.no /\ n.state = c.state /\ n.kind = c.kind /\ n.result = c.result
                                /\ n.heard \in {c.heard, "late", "no"}
    <3>1. PICK c \in cs : n = [c EXCEPT !.heard = "no"]
      BY <2>1
    <3>2. QED
      BY <1>1, <3>1
  <2>3. ASSUME NEW m \in mute, NEW n \in mute, m.no = n.no PROVE m = n
    <3>1. PICK c \in cs : m = [c EXCEPT !.heard = "no"]
      BY <2>1
    <3>2. PICK d \in cs : n = [d EXCEPT !.heard = "no"]
      BY <2>1
    <3>3. c.no = d.no
      BY <1>1, <2>3, <3>1, <3>2
    <3>4. QED
      BY <1>2, <3>1, <3>2, <3>3
  <2>4. Continues(mute, calls)
    BY <2>2, <2>3 DEF Continues
  <2>5. QED
    BY <2>4 DEF mute
<1>5. cs \subseteq Call /\ Continues(cs, calls)
  BY <1>2 DEF Continues
<1> DEFINE Heard(c) == IF c.kind \in {"delete", "run"} /\ c.heard # "no" THEN "late" ELSE "no"
<1>6. \A n \in Unsubscribed(cs) : \E c \in cs : n = [c EXCEPT !.heard = Heard(c)]
  BY DEF Unsubscribed
<1>7. \A c \in cs : Heard(c) \in {"late", "no"}
  OBVIOUS
<1> HIDE DEF Heard
<1>8. ASSUME NEW n \in Unsubscribed(cs) PROVE n \in Call /\ n.heard # "yes"
  <2>1. PICK c \in cs : n = [c EXCEPT !.heard = Heard(c)]
    BY <1>6
  <2>2. QED
    BY <1>1, <1>7, <2>1
<1>9. Continues(Unsubscribed(cs), calls)
  <2>1. ASSUME NEW n \in Unsubscribed(cs)
        PROVE  \E c \in calls : /\ n.no = c.no /\ n.state = c.state /\ n.kind = c.kind /\ n.result = c.result
                                /\ n.heard \in {c.heard, "late", "no"}
    <3>1. PICK c \in cs : n = [c EXCEPT !.heard = Heard(c)]
      BY <1>6
    <3>2. QED
      BY <1>1, <1>7, <3>1
  <2>2. ASSUME NEW m \in Unsubscribed(cs), NEW n \in Unsubscribed(cs), m.no = n.no PROVE m = n
    <3>1. PICK c \in cs : m = [c EXCEPT !.heard = Heard(c)]
      BY <1>6
    <3>2. PICK d \in cs : n = [d EXCEPT !.heard = Heard(d)]
      BY <1>6
    <3>3. c.no = d.no
      BY <1>1, <1>7, <2>2, <3>1, <3>2
    <3>4. QED
      BY <1>2, <3>1, <3>2, <3>3
  <2>3. QED
    BY <2>1, <2>2 DEF Continues
<1>10. QED
  BY <1>3, <1>4, <1>5, <1>8, <1>9

\* A finite set of calls.
LEMMA UnexecutedFacts ==
    ASSUME DetailTypeOK, CallInv
    PROVE  /\ Unexecuted \subseteq 1..sent /\ IsFiniteSet(Unexecuted)
           /\ Cardinality(Unexecuted) \in Nat /\ sent \in Nat /\ clock \in Nat
<1>1. sent \in Nat /\ clock \in Nat
  BY ObjectsAssumption DEF DetailTypeOK
<1>2. \A c \in calls : c.no \in 1..sent
  BY <1>1 DEF DetailTypeOK, CallInv, Call
<1>3. Unexecuted \subseteq 1..sent
  BY <1>2 DEF Unexecuted
<1>4. IsFiniteSet(1..sent)
  BY <1>1, FS_Interval
<1>5. IsFiniteSet(Unexecuted) /\ Cardinality(Unexecuted) \in Nat
  BY <1>3, <1>4, FS_Subset, FS_CardinalityType
<1>6. QED
  BY <1>1, <1>3, <1>5

\* So the numbers still fit.
LEMMA CallsContinue ==
    ASSUME DetailTypeOK, CallInv, Continues(calls', calls), UNCHANGED <<sent, clock>> PROVE CallInv'
<1>1. /\ Unexecuted \subseteq 1..sent /\ IsFiniteSet(Unexecuted)
      /\ Cardinality(Unexecuted) \in Nat /\ sent \in Nat /\ clock \in Nat
  BY UnexecutedFacts
<1>2. Unexecuted' \subseteq Unexecuted
  BY DEF Unexecuted, Continues
<1>3. Cardinality(Unexecuted') \in Nat /\ Cardinality(Unexecuted') <= Cardinality(Unexecuted)
  BY <1>1, <1>2, FS_Subset, FS_CardinalityType
<1>4. clock + Cardinality(Unexecuted') <= sent
  BY <1>1, <1>3 DEF CallInv
<1>5. (\A c \in calls' : c.no <= sent') /\ (\A c, d \in calls' : c.no = d.no => c = d)
  BY DEF CallInv, Continues
<1>6. QED
  BY <1>4, <1>5 DEF CallInv

(***************************************************************************)
(* The component and the router                                            *)
(***************************************************************************)

\* The page stays.
Stays(d, cs) ==
    /\ app' = "running" /\ page' = page /\ options' = options
    /\ IF ability' = ability THEN UNCHANGED <<seeds, seedLoad, offset>>
                             ELSE seeds' = {} /\ seedLoad' = FALSE /\ offset' = 0
    /\ UNCHANGED entitySeedDisabled
    /\ dialog' = d /\ calls' = cs
    /\ UNCHANGED <<shown, get, contexts, loading, opening, closing>>

\* The page is that of an object.
Arrives(d, cs) ==
    /\ app' = "running" /\ page' # page /\ Shows(page')
    /\ Load(page')
    /\ \/ UNCHANGED <<options, shown, contexts, loading>>
       \/ Emit(shown, options')
    /\ dialog' = d /\ calls' = cs
    /\ UNCHANGED <<opening, closing>>

\* The page is another, or the program has ended.
Leaves(d, cs) ==
    /\ app' = "running" => page' # page /\ ~Shows(page')
    /\ Destroyed
    /\ \/ /\ dialog' = IF Outlives(d) THEN [d EXCEPT !.heard = "late"] ELSE None
          /\ calls' = Unsubscribed(cs)
       \/ dialog' = None /\ calls' = {[c EXCEPT !.heard = "no"] : c \in cs}

\* What the component does, by where the router has gone.
LEMMA FollowCases ==
    ASSUME DetailTypeOK, NEW d, NEW cs, FollowPage(d, cs)
    PROVE  /\ options' \in [Lists -> SUBSET Ids]
           /\ tracked' \in {"no", "same", "yes"}
           /\ Stays(d, cs) \/ Arrives(d, cs) \/ Leaves(d, cs)
<1> DEFINE same == page' = page \/ page'.section # "config" \/ page'.subject = None
                   \/ (page.section = "config" /\ page'.subject = page.subject)
           lists == IF same THEN options ELSE NextOptions(page'.subject)
<1>1. lists \in [Lists -> SUBSET Ids]
  BY OptionFacts DEF DetailTypeOK
<1>2. options' = IF app' = "running" THEN lists ELSE [l \in Lists |-> {}]
  BY DEF FollowPage
<1>3. options' \in [Lists -> SUBSET Ids]
  <2>1. CASE app' = "running"
    BY <1>1, <1>2, <2>1
  <2>2. CASE app' # "running"
    <3>1. options' = [l \in Lists |-> {}]
      BY <1>2, <2>2
    <3>2. QED
      BY <3>1
  <2>3. QED
    BY <2>1, <2>2
<1>4. tracked' \in {"no", "same", "yes"}
  BY DEF FollowPage, DetailTypeOK
<1>5. CASE app' = "running" /\ page' = page
  <2>1. options' = options
    BY <1>2, <1>5
  <2>2. Stays(d, cs)
    BY <1>5, <2>1 DEF FollowPage, Stays
  <2>3. QED
    BY <1>3, <1>4, <2>2
<1>6. CASE app' = "running" /\ page' # page /\ Shows(page')
  <2>1. options' = lists
    BY <1>2, <1>6
  <2>2. /\ Load(page') /\ dialog' = d /\ calls' = cs /\ UNCHANGED <<opening, closing>>
        /\ IF same THEN UNCHANGED <<shown, contexts, loading>> ELSE Emit(shown, lists)
    BY <1>6 DEF FollowPage
  <2>3. CASE same
    <3>1. Arrives(d, cs)
      BY <1>6, <2>1, <2>2, <2>3 DEF Arrives
    <3>2. QED
      BY <1>3, <1>4, <3>1
  <2>4. CASE ~same
    <3>1. Emit(shown, options')
      BY <2>1, <2>2, <2>4
    <3>2. Arrives(d, cs)
      BY <1>6, <2>2, <3>1 DEF Arrives
    <3>3. QED
      BY <1>3, <1>4, <3>2
  <2>5. QED
    BY <2>3, <2>4
<1>7. CASE app' = "running" /\ page' # page /\ ~Shows(page')
  <2>1. Leaves(d, cs)
    BY <1>7 DEF FollowPage, Leaves
  <2>2. QED
    BY <1>3, <1>4, <2>1
<1>8. CASE app' # "running"
  <2>1. Leaves(d, cs)
    BY <1>8 DEF FollowPage, Leaves
  <2>2. QED
    BY <1>3, <1>4, <2>1
<1>9. QED
  BY <1>5, <1>6, <1>7, <1>8

\* The component follows the router.
LEMMA PageFollows ==
    ASSUME PageInv, PlaceInv', PageMoves, NEW d \in {dialog, None}, NEW cs \in SUBSET calls, FollowPage(d, cs),
           UNCHANGED <<store, sent, clock, answered, failed>>
    PROVE  PageInv' /\ Continues(calls', calls)
<1> USE DEF PageInv
<1>1. /\ options' \in [Lists -> SUBSET Ids] /\ tracked' \in {"no", "same", "yes"}
      /\ Stays(d, cs) \/ Arrives(d, cs) \/ Leaves(d, cs)
  BY FollowCases
<1>2. /\ cs \subseteq Call /\ Continues(cs, calls)
      /\ Unsubscribed(cs) \subseteq Call /\ Continues(Unsubscribed(cs), calls)
      /\ \A n \in Unsubscribed(cs) : n.heard # "yes"
      /\ {[c EXCEPT !.heard = "no"] : c \in cs} \subseteq Call
      /\ Continues({[c EXCEPT !.heard = "no"] : c \in cs}, calls)
      /\ \A n \in {[c EXCEPT !.heard = "no"] : c \in cs} : n.heard # "yes"
  BY ContinuesFacts DEF DetailTypeOK
<1>3. d \in Dialog \cup {None}
  BY DEF DetailTypeOK
<1>4. calls' \subseteq Call /\ Continues(calls', calls)
  BY <1>1, <1>2 DEF Stays, Arrives, Leaves
<1>5. CallInv'
  BY <1>4, CallsContinue
<1>6. dialog' \in Dialog \cup {None}
  BY <1>1, <1>3 DEF Stays, Arrives, Leaves, Outlives, Dialog
<1>7. UNCHANGED <<store, sent, clock, answered, failed>>
  OBVIOUS
<1>8. CASE Stays(d, cs)
  <2>0. /\ seeds' \subseteq Named /\ seedLoad' \in BOOLEAN /\ offset' \in Nat
        /\ entitySeedDisabled' = entitySeedDisabled
    <3>1. entitySeedDisabled' = entitySeedDisabled
      BY <1>8 DEF Stays
    <3>2. \/ seeds' = seeds /\ seedLoad' = seedLoad /\ offset' = offset
          \/ seeds' = {} /\ seedLoad' = FALSE /\ offset' = 0
      BY <1>8 DEF Stays
    <3>3. seeds \subseteq Named /\ seedLoad \in BOOLEAN /\ offset \in Nat
      BY DEF DetailTypeOK
    <3>4. CASE seeds' = seeds /\ seedLoad' = seedLoad /\ offset' = offset
      BY <3>1, <3>3, <3>4
    <3>5. CASE seeds' = {} /\ seedLoad' = FALSE /\ offset' = 0
      <4>1. offset' \in Nat
        BY <3>5
      <4>2. QED
        BY <3>1, <3>5, <4>1
    <3>6. QED
      BY <3>2, <3>4, <3>5
  <2>1. DetailTypeOK'
    BY <1>1, <1>4, <1>6, <1>7, <1>8, <2>0 DEF Stays, DetailTypeOK
  <2>2. ShownInv'
    BY <1>8 DEF Stays, ShownInv
  <2>3. ASSUME ~Alive' PROVE ~Alive
    BY <1>8, <2>3 DEF Stays, Alive, PageMoves, Shows
  <2>4. AliveInv'
    BY <1>8, <2>3 DEF Stays, AliveInv
  <2>5. QED
    BY <1>4, <1>5, <2>1, <2>2, <2>4
<1>9. CASE Arrives(d, cs)
  <2>1. /\ get' \in Get \cup {None} /\ seeds' \subseteq Named /\ seedLoad' \in BOOLEAN
        /\ offset' \in Nat /\ entitySeedDisabled' = entitySeedDisabled
    <3>1. page'.id \in Ids
      BY <1>9 DEF Arrives, PlaceInv, Address, Shows
    <3>2. QED
      BY <1>9, <3>1 DEF Arrives, Load, Get, EntitySeedQuery
  <2>2. /\ shown' \in Named \cup {None} /\ contexts' \in [Panels -> SUBSET Card]
        /\ loading' \in [Panels -> [todo : SUBSET Ids, done : SUBSET Card] \cup {None}] /\ ShownInv'
    <3>1. CASE UNCHANGED <<options, shown, contexts, loading>>
      BY <3>1 DEF DetailTypeOK, ShownInv
    <3>2. CASE Emit(shown, options')
      BY <1>1, <3>2, EmitFacts DEF DetailTypeOK
    <3>3. QED
      BY <1>9, <3>1, <3>2 DEF Arrives
  <2>3. UNCHANGED <<opening, closing>>
    BY <1>9 DEF Arrives
  <2>4. DetailTypeOK'
    BY <1>1, <1>4, <1>6, <1>7, <2>1, <2>2, <2>3 DEF DetailTypeOK
  <2>5. AliveInv'
    BY <1>9 DEF Arrives, AliveInv, Alive, Shows
  <2>6. QED
    BY <1>4, <1>5, <2>2, <2>4, <2>5
<1>10. CASE Leaves(d, cs)
  <2>1. /\ shown' = None /\ get' = None /\ opening' = None /\ closing' = FALSE
        /\ contexts' = [p \in Panels |-> {}] /\ loading' = [p \in Panels |-> None]
        /\ seeds' = {} /\ seedLoad' = FALSE /\ offset' = 0 /\ entitySeedDisabled' = "any"
    BY <1>10 DEF Leaves, Destroyed
  <2>2. contexts' \in [Panels -> SUBSET Card]
    BY <2>1
  <2>3. loading' \in [Panels -> [todo : SUBSET Ids, done : SUBSET Card] \cup {None}]
    BY <2>1
  <2>4. DetailTypeOK'
    BY <1>1, <1>4, <1>6, <1>7, <2>1, <2>2, <2>3 DEF DetailTypeOK
  <2>5. ShownInv'
    BY <2>1 DEF ShownInv
  <2>6. AliveInv'
    <3>1. \A c \in calls' : c.heard # "yes"
      BY <1>2, <1>10 DEF Leaves
    <3>2. dialog' # None => dialog'.heard = "late"
      BY <1>3, <1>10 DEF Leaves, Outlives, Dialog
    <3>3. QED
      BY <2>1, <3>1, <3>2 DEF AliveInv
  <2>7. QED
    BY <1>4, <1>5, <2>4, <2>5, <2>6
<1>11. QED
  BY <1>1, <1>8, <1>9, <1>10

(***************************************************************************)
(* The server reads, and the dialogs                                       *)
(***************************************************************************)

\* Nothing that the session or the calls have to do with.
LEMMA PageStays ==
    ASSUME PageInv, UNCHANGED <<sessionVars, calls, sent, clock>>
    PROVE  PlaceInv' /\ CallInv' /\ (Alive' <=> Alive)
BY DEF PageInv, sessionVars, PlaceInv, Address, Shows, CallInv, Unexecuted, Alive

\* The objects of the store.
LEMMA StoreFacts == ASSUME DetailTypeOK, NEW id \in Ids PROVE store[id] \in Object \cup {None}
BY DEF DetailTypeOK

\* A page of an entity's seeds: a first page that is not full has them all.
LEMMA RowFacts ==
    ASSUME DetailTypeOK, NEW first \in Nat, NEW rows \in RowsFrom(first)
    PROVE  /\ rows \subseteq SeedsOf(page.id) /\ rows \subseteq Named /\ Cardinality(rows) \in Nat
           /\ first = 0 /\ Cardinality(rows) < SeedPage => rows = SeedsOf(page.id)
<1> DEFINE found == SeedsOf(page.id)
           row == [id \in Ids |-> [id |-> id, object |-> store[id]]]
<1>1. found \subseteq Named
  <2>1. ASSUME NEW id \in Ids, Exists(id) PROVE [id |-> id, object |-> store[id]] \in Named
    BY <2>1, StoreFacts DEF Exists, Named
  <2>2. QED
    BY <2>1 DEF SeedsOf
<1>2. IsFiniteSet(found)
  <2>1. row \in Surjection(Ids, {row[id] : id \in Ids})
    BY DEF Surjection
  <2>2. IsFiniteSet({row[id] : id \in Ids})
    BY <2>1, ObjectsAssumption, FS_Surjection
  <2>3. found \subseteq {row[id] : id \in Ids}
    BY DEF SeedsOf
  <2>4. QED
    BY <2>2, <2>3, FS_Subset
<1> HIDE DEF found, row
<1>3. Cardinality(found) \in Nat /\ SeedPage \in Nat
  BY <1>2, FS_CardinalityType, ObjectsAssumption
<1>4. rows \subseteq found
  BY DEF RowsFrom, found
<1>5. Cardinality(rows) \in Nat /\ (Cardinality(found) = Cardinality(rows) => found = rows)
  BY <1>2, <1>4, FS_Subset, FS_CardinalityType
<1>6. first = 0 /\ Cardinality(rows) < SeedPage => Cardinality(found) = Cardinality(rows)
  BY <1>3 DEF RowsFrom, found
<1>7. QED
  BY <1>1, <1>4, <1>5, <1>6 DEF found

\* The rows of seeds come.
LEMMA PageListsSeeds ==
    ASSUME PageInv, \/ ServeSeeds \/ ServeMoreSeeds
                    \/ \E disabled \in {"any", "no", "yes"} : OnEntitySeedQueryChange(disabled)
    PROVE  PageInv'
<1> USE DEF PageInv
<1>1. PlaceInv' /\ CallInv' /\ (Alive' <=> Alive)
  BY PageStays DEF ServeSeeds, ServeMoreSeeds, OnEntitySeedQueryChange
<1>2. /\ UNCHANGED <<store, shown, get, contexts, loading, options, opening, dialog, closing, tracked, calls,
                     sent, clock, answered>>
      /\ failed' \in BOOLEAN
  BY DEF ServeSeeds, ServeMoreSeeds, OnEntitySeedQueryChange, Serves, Fails, DetailTypeOK
<1>3. /\ seeds' \subseteq Named /\ offset' \in Nat
      /\ seedLoad' \in BOOLEAN /\ entitySeedDisabled' \in {"any", "no", "yes"}
  <2>1. CASE ServeSeeds
    <3>1. \A rows \in RowsFrom(0) : rows \subseteq Named /\ Cardinality(rows) \in Nat
      BY RowFacts
    <3>2. QED
      BY <2>1, <3>1 DEF ServeSeeds, DetailTypeOK
  <2>2. CASE ServeMoreSeeds
    <3>1. offset \in Nat /\ \A rows \in RowsFrom(offset) : rows \subseteq Named /\ Cardinality(rows) \in Nat
      BY RowFacts DEF DetailTypeOK
    <3>2. QED
      BY <2>2, <3>1 DEF ServeMoreSeeds, DetailTypeOK
  <2>3. CASE \E disabled \in {"any", "no", "yes"} : OnEntitySeedQueryChange(disabled)
    BY <2>3 DEF OnEntitySeedQueryChange, EntitySeedQuery
  <2>4. QED
    BY <2>1, <2>2, <2>3
<1>4. DetailTypeOK' /\ ShownInv'
  BY <1>2, <1>3 DEF DetailTypeOK, ShownInv
<1>5. AliveInv'
  <2>1. CASE ServeSeeds
    BY <1>1, <2>1 DEF ServeSeeds, AliveInv
  <2>2. CASE ServeMoreSeeds
    BY <1>1, <2>2 DEF ServeMoreSeeds, AliveInv, Alive, EntitySeedQuery
  <2>3. CASE \E disabled \in {"any", "no", "yes"} : OnEntitySeedQueryChange(disabled)
    BY <1>1, <2>3 DEF OnEntitySeedQueryChange, ListsSeeds, AliveInv
  <2>4. QED
    BY <2>1, <2>2, <2>3
<1>6. QED
  BY <1>1, <1>4, <1>5

\* The server reads.
LEMMA PageServed ==
    ASSUME PageInv, ServeGet \/ GetArrives \/ \E p \in Panels, id \in Ids : ServePanel(p, id)
    PROVE  PageInv'
<1> USE DEF PageInv
<1>1. CASE ServeGet
  <2>1. PlaceInv' /\ CallInv' /\ (Alive' <=> Alive)
    BY <1>1, PageStays DEF ServeGet
  <2>2. get \in Get /\ get.id \in Ids
    BY <1>1 DEF ServeGet, DetailTypeOK, Get
  <2>3. store[get.id] \in Object \cup {None}
    BY <2>2, StoreFacts
  <2>4. get' \in Get
    BY <1>1, <2>2, <2>3 DEF ServeGet, Get
  <2>5. failed' \in BOOLEAN
    BY <1>1 DEF ServeGet, Serves, Fails, DetailTypeOK
  <2>6. DetailTypeOK'
    BY <1>1, <2>4, <2>5 DEF ServeGet, DetailTypeOK
  <2>7. AliveInv' /\ ShownInv'
    BY <1>1, <2>1 DEF ServeGet, AliveInv, ShownInv
  <2>8. QED
    BY <2>1, <2>6, <2>7
<1>2. CASE GetArrives
  <2>1. PlaceInv' /\ CallInv' /\ (Alive' <=> Alive)
    BY <1>2, PageStays DEF GetArrives
  <2>2. PICK named \in Named \cup {None} : Emit(named, options)
    <3>1. get \in Get
      BY <1>2 DEF GetArrives, DetailTypeOK
    <3>2. CASE get.object = None
      BY <1>2, <3>2 DEF GetArrives
    <3>3. CASE get.object # None
      <4>1. [id |-> get.id, object |-> get.object] \in Named
        BY <3>1, <3>3 DEF Get, Named
      <4>2. QED
        BY <1>2, <3>3, <4>1 DEF GetArrives
    <3>4. QED
      BY <3>2, <3>3
  <2>3. /\ shown' \in Named \cup {None} /\ contexts' \in [Panels -> SUBSET Card]
        /\ loading' \in [Panels -> [todo : SUBSET Ids, done : SUBSET Card] \cup {None}] /\ ShownInv'
    BY <2>2, EmitFacts DEF DetailTypeOK
  <2>4. DetailTypeOK'
    BY <1>2, <2>3 DEF GetArrives, DetailTypeOK
  <2>5. AliveInv'
    BY <1>2, <2>1 DEF GetArrives, AliveInv
  <2>6. QED
    BY <2>1, <2>3, <2>4, <2>5
<1>3. ASSUME NEW p \in Panels, NEW id \in Ids, ServePanel(p, id) PROVE PageInv'
  <2>1. PlaceInv' /\ CallInv' /\ (Alive' <=> Alive)
    BY <1>3, PageStays DEF ServePanel
  <2>2. PICK object \in {store[id], None} :
          LET done == loading[p].done \cup {[id |-> id, object |-> object]}
              todo == loading[p].todo \ {id}
          IN  /\ IF object = store[id] THEN Serves ELSE Fails
              /\ contexts' = IF todo = {} THEN [contexts EXCEPT ![p] = done] ELSE contexts
              /\ loading' = [loading EXCEPT ![p] = IF todo = {} THEN None ELSE [todo |-> todo, done |-> done]]
    BY <1>3 DEF ServePanel
  <2>3. loading[p] # None /\ loading[p] \in [todo : SUBSET Ids, done : SUBSET Card]
    BY <1>3 DEF ServePanel, DetailTypeOK
  <2>4. [id |-> id, object |-> object] \in Card
    BY <2>2, StoreFacts DEF Card
  <2>5. PICK done \in SUBSET Card, todo \in SUBSET Ids :
          /\ contexts' = IF todo = {} THEN [contexts EXCEPT ![p] = done] ELSE contexts
          /\ loading' = [loading EXCEPT ![p] = IF todo = {} THEN None ELSE [todo |-> todo, done |-> done]]
    <3>1. loading[p].done \cup {[id |-> id, object |-> object]} \in SUBSET Card
      BY <2>3, <2>4
    <3>2. loading[p].todo \ {id} \in SUBSET Ids
      BY <2>3
    <3>3. QED
      BY <2>2, <3>1, <3>2
  <2>6. contexts' \in [Panels -> SUBSET Card]
    BY <2>5 DEF DetailTypeOK
  <2>7. loading' \in [Panels -> [todo : SUBSET Ids, done : SUBSET Card] \cup {None}]
    <3>1. (IF todo = {} THEN None ELSE [todo |-> todo, done |-> done])
             \in [todo : SUBSET Ids, done : SUBSET Card] \cup {None}
      OBVIOUS
    <3>2. QED
      BY <2>5, <3>1 DEF DetailTypeOK
  <2>8. failed' \in BOOLEAN
    BY <2>2 DEF Serves, Fails, DetailTypeOK
  <2>9. DetailTypeOK'
    BY <1>3, <2>6, <2>7, <2>8 DEF ServePanel, DetailTypeOK
  <2>10. shown # None /\ shown' = shown
    BY <1>3, <2>3 DEF ServePanel, ShownInv
  <2>11. AliveInv' /\ ShownInv'
    BY <1>3, <2>1, <2>10 DEF ServePanel, AliveInv, ShownInv
  <2>12. QED
    BY <2>1, <2>9, <2>11
<1>4. QED
  BY <1>1, <1>2, <1>3

\* What the page offers a menu for is an object, and there is an object that is shown.
LEMMA OfferedFacts ==
    ASSUME PageInv, NEW target \in Offered
    PROVE  /\ shown # None /\ shown.id \in Ids
           /\ target[1] \in Ids /\ target[2] \in {"current", "related"}
<1> USE DEF PageInv
<1>1. CASE target \in {<<s.id, "current">> : s \in {shown} \ {None}}
  BY <1>1 DEF DetailTypeOK, Named
<1>2. CASE target \in {<<c.id, "related">> : c \in {c \in contexts["related"] : c.object # None} \cup Rows}
  <2>1. PICK c \in contexts["related"] \cup Rows : target = <<c.id, "related">>
    BY <1>2
  <2>2. "related" \in Panels
    BY DEF Panels
  <2>3. c.id \in Ids
    BY <2>1, <2>2 DEF Rows, DetailTypeOK, Card, Named
  <2>4. shown # None
    BY <2>1, <2>2 DEF Rows, ListsSeeds, ShownInv
  <2>5. QED
    BY <2>1, <2>3, <2>4 DEF DetailTypeOK, Named
<1>3. QED
  BY <1>1, <1>2 DEF Offered

\* What is asked for in a dialog.
LEMMA AskedFacts ==
    ASSUME NEW kind \in {"edit", "clone", "createSeed", "delete", "run", "move"}, NEW target,
           shown.id \in Ids, target[1] \in Ids, target[2] \in {"current", "related"}
    PROVE  Asked(kind, target) \in Dialog /\ Asked(kind, target).heard = "yes"
<1>1. RunFor(target[1]) \in Ids
  BY DEF RunFor
<1>2. QED
  BY <1>1 DEF Asked, Dialog

\* Dialogs are opened and cancelled.
LEMMA PageAsks ==
    ASSUME PageInv,
           \/ \E target \in Offered :
                 \/ \E kind \in {"edit", "clone", "createSeed"} : OnCreateConfigWithDialog(kind, target)
                 \/ \E kind \in {"delete", "run", "move"} : OpenDialog(kind, target)
           \/ OptionsArrive \/ OptionsFail \/ Cancel
    PROVE  PageInv'
<1> USE DEF PageInv
<1>1. ASSUME NEW target \in Offered, NEW kind \in {"edit", "clone", "createSeed", "delete", "run", "move"},
             OnCreateConfigWithDialog(kind, target) \/ OpenDialog(kind, target)
      PROVE  PageInv'
  <2>1. PlaceInv' /\ CallInv' /\ (Alive' <=> Alive)
    BY <1>1, PageStays DEF OnCreateConfigWithDialog, OpenDialog
  <2>2. shown # None /\ Asked(kind, target) \in Dialog
    BY OfferedFacts, AskedFacts
  <2>3. DetailTypeOK'
    BY <1>1, <2>2 DEF OnCreateConfigWithDialog, OpenDialog, DetailTypeOK
  <2>4. Alive
    BY <2>2 DEF AliveInv
  <2>5. AliveInv' /\ ShownInv'
    BY <1>1, <2>1, <2>4 DEF OnCreateConfigWithDialog, OpenDialog, AliveInv, ShownInv
  <2>6. QED
    BY <2>1, <2>3, <2>5
<1>2. CASE OptionsArrive
  <2>1. PlaceInv' /\ CallInv' /\ (Alive' <=> Alive)
    BY <1>2, PageStays DEF OptionsArrive
  <2>2. options' \in [Lists -> SUBSET Ids]
    BY <1>2, OptionFacts DEF OptionsArrive, DetailTypeOK
  <2>3. /\ shown' \in Named \cup {None} /\ contexts' \in [Panels -> SUBSET Card]
        /\ loading' \in [Panels -> [todo : SUBSET Ids, done : SUBSET Card] \cup {None}] /\ ShownInv'
    BY <1>2, <2>2, EmitFacts DEF OptionsArrive, DetailTypeOK
  <2>4. DetailTypeOK'
    BY <1>2, <2>2, <2>3 DEF OptionsArrive, Serves, DetailTypeOK
  <2>5. AliveInv'
    BY <1>2, <2>1 DEF OptionsArrive, AliveInv
  <2>6. QED
    BY <2>1, <2>3, <2>4, <2>5
<1>3. CASE OptionsFail \/ Cancel
  <2>1. PlaceInv' /\ CallInv' /\ (Alive' <=> Alive)
    BY <1>3, PageStays DEF OptionsFail, Cancel
  <2>2. DetailTypeOK'
    BY <1>3 DEF OptionsFail, Fails, Cancel, DetailTypeOK
  <2>3. AliveInv' /\ ShownInv'
    BY <1>3, <2>1 DEF OptionsFail, Cancel, AliveInv, ShownInv
  <2>4. QED
    BY <2>1, <2>2, <2>3
<1>4. QED
  BY <1>1, <1>2, <1>3

(***************************************************************************)
(* Operations                                                              *)
(***************************************************************************)

\* An operation is sent.
LEMMA SendFacts ==
    ASSUME PageInv, NEW asked \in Dialog, NEW kind \in {"update", "save", "move", "delete", "run"},
           NEW content \in Content, Send(kind, asked, content), clock' = clock
    PROVE  /\ CallInv' /\ sent' \in 0..MaxOperations /\ sent' = sent + 1
           /\ \E new \in Call : calls' = calls \cup {new} /\ new.heard = asked.heard /\ new.result = None
<1> USE DEF PageInv
<1>1. /\ Unexecuted \subseteq 1..sent /\ IsFiniteSet(Unexecuted)
      /\ Cardinality(Unexecuted) \in Nat /\ sent \in Nat /\ clock \in Nat
  BY UnexecutedFacts
<1>2. MaxOperations \in Nat /\ sent < MaxOperations /\ sent' = sent + 1
  BY ObjectsAssumption DEF Send, MayOperate
<1>3. PICK new : /\ calls' = calls \cup {new} /\ new \in Call /\ new.no = sent + 1
                 /\ new.heard = asked.heard /\ new.result = None /\ new.state = "sent"
  <2> DEFINE r == [no |-> sent + 1, kind |-> kind, id |-> asked.id, context |-> asked.context,
                   back |-> asked.back, content |-> content, heard |-> asked.heard, state |-> "sent", result |-> None]
  <2>1. calls' = calls \cup {r}
    BY DEF Send
  <2>2. sent + 1 \in 1..MaxOperations
    BY <1>1, <1>2
  <2>3. r \in Call
    BY <2>2 DEF Call, Dialog
  <2>4. r.no = sent + 1 /\ r.heard = asked.heard /\ r.result = None /\ r.state = "sent"
    OBVIOUS
  <2> HIDE DEF r
  <2>5. QED
    BY <2>1, <2>3, <2>4
<1>4. Unexecuted' = Unexecuted \cup {sent + 1}
  BY <1>3 DEF Unexecuted
<1>5. Cardinality(Unexecuted') = Cardinality(Unexecuted) + 1
  <2>1. sent + 1 \notin Unexecuted
    BY <1>1
  <2>2. QED
    BY <1>1, <1>4, <2>1, FS_AddElement
<1>6. clock' + Cardinality(Unexecuted') <= sent'
  BY <1>1, <1>2, <1>5 DEF CallInv
<1>7. \A c \in calls : c.no \in Int /\ c.no <= sent
  BY DEF DetailTypeOK, CallInv, Call
<1>8. \A c \in calls' : c.no <= sent'
  BY <1>1, <1>2, <1>3, <1>7
<1>9. \A c, d \in calls' : c.no = d.no => c = d
  BY <1>1, <1>3, <1>7 DEF CallInv
<1>10. CallInv'
  BY <1>6, <1>8, <1>9 DEF CallInv
<1>11. QED
  BY <1>1, <1>2, <1>3, <1>10

\* A dialog is confirmed, or the form is saved.
LEMMA PageSends == ASSUME PageInv, Confirm \/ OnUpdate PROVE PageInv'
<1> USE DEF PageInv
<1>1. PICK asked \in Dialog, kind \in {"update", "save", "move", "delete", "run"}, content \in Content :
         /\ Send(kind, asked, content)
         /\ (Confirm /\ asked = dialog) \/ OnUpdate
  <2>1. CASE Confirm
    <3>1. dialog \in Dialog /\ dialog.id \in Ids /\ dialog.kind \in {"edit", "clone", "createSeed", "delete", "run", "move"}
      BY <2>1 DEF Confirm, DetailTypeOK, Dialog
    <3>2. PICK content \in IF dialog.kind \in {"createSeed", "delete", "run"}
                           THEN {[refs |-> {dialog.id}, disabled |-> "no"]} ELSE Choices[dialog.id] :
            Send(CallOf(dialog.kind), dialog, content)
      BY <2>1 DEF Confirm
    <3>3. content \in Content
      BY <3>1, <3>2, ObjectsAssumption DEF Content
    <3>4. CallOf(dialog.kind) \in {"update", "save", "move", "delete", "run"}
      BY <3>1 DEF CallOf
    <3>5. QED
      BY <2>1, <3>1, <3>2, <3>3, <3>4
  <2>2. CASE OnUpdate
    <3>1. shown # None /\ shown.id \in Ids
      BY <2>2 DEF OnUpdate, DetailTypeOK, Named
    <3>2. PICK content \in Choices[shown.id] : Send("update", Asked("edit", <<shown.id, "current">>), content)
      BY <2>2 DEF OnUpdate
    <3>3. content \in Content
      BY <3>1, <3>2, ObjectsAssumption DEF Content
    <3>4. Asked("edit", <<shown.id, "current">>) \in Dialog
      BY <3>1, AskedFacts
    <3>5. QED
      BY <2>2, <3>2, <3>3, <3>4
  <2>3. QED
    BY <2>1, <2>2
<1>2. UNCHANGED <<sessionVars, shown, get, contexts, loading, seeds, seedLoad, offset, entitySeedDisabled,
                  opening, closing, store, options, tracked, clock, answered, failed>>
      /\ dialog' \in {dialog, None}
  BY <1>1 DEF Confirm, OnUpdate, detailVars
<1>3. CallInv' /\ sent' \in 0..MaxOperations
  BY <1>1, <1>2, SendFacts
<1>4. PICK new \in Call : calls' = calls \cup {new} /\ new.heard = asked.heard
  BY <1>1, <1>2, SendFacts
<1>5. DetailTypeOK'
  BY <1>2, <1>3, <1>4 DEF DetailTypeOK
<1>6. PlaceInv' /\ (Alive' <=> Alive) /\ ShownInv'
  BY <1>2 DEF sessionVars, PlaceInv, Address, Shows, Alive, ShownInv
<1>7. ASSUME ~Alive PROVE new.heard # "yes"
  <2>1. ~OnUpdate
    BY <1>7 DEF AliveInv, OnUpdate
  <2>2. dialog # None /\ asked = dialog
    BY <1>1, <2>1 DEF Confirm
  <2>3. QED
    BY <1>4, <1>7, <2>2 DEF AliveInv
<1>8. AliveInv'
  BY <1>2, <1>4, <1>6, <1>7 DEF AliveInv
<1>9. QED
  BY <1>3, <1>5, <1>6, <1>8

\* What the server has executed.
Executes(c, new) ==
    /\ calls' = (calls \ {c}) \cup {new}
    /\ new \in Call /\ new.no = c.no /\ new.kind = c.kind /\ new.heard = c.heard /\ new.state = "executed"

\* There is a number left for an operation that is to be executed.
LEMMA ClockFacts ==
    ASSUME PageInv, NEW c \in calls, c.state = "sent"
    PROVE  /\ c \in Call /\ c.no \in Unexecuted
           /\ clock \in Nat /\ clock + 1 \in 0..MaxOperations /\ clock + 1 <= sent
           /\ clock + 1 + Cardinality(Unexecuted \ {c.no}) <= sent
<1> USE DEF PageInv
<1>1. /\ IsFiniteSet(Unexecuted) /\ Cardinality(Unexecuted) \in Nat /\ sent \in Nat /\ clock \in Nat
  BY UnexecutedFacts
<1>2. c \in Call /\ c.no \in Unexecuted
  BY DEF DetailTypeOK, Unexecuted
<1>3. Cardinality(Unexecuted \ {c.no}) = Cardinality(Unexecuted) - 1
  BY <1>1, <1>2, FS_RemoveElement
<1>4. Cardinality(Unexecuted \ {c.no}) \in Nat
  BY <1>1, FS_RemoveElement, FS_CardinalityType
<1>5. clock + Cardinality(Unexecuted) <= sent /\ sent \in 0..MaxOperations /\ MaxOperations \in Nat
  BY ObjectsAssumption DEF CallInv, DetailTypeOK
<1>6. clock + 1 + Cardinality(Unexecuted \ {c.no}) <= sent
  BY <1>1, <1>3, <1>5
<1>7. clock + 1 <= sent
  BY <1>1, <1>4, <1>6
<1>8. QED
  BY <1>1, <1>2, <1>5, <1>6, <1>7

\* The numbers after an execution.
LEMMA ExecutesCalls ==
    ASSUME PageInv, NEW c \in calls, c.state = "sent", NEW new, Executes(c, new), clock' \in {clock, clock + 1},
           sent' = sent
    PROVE  CallInv'
<1> USE DEF PageInv
<1>1. /\ IsFiniteSet(Unexecuted) /\ clock \in Nat /\ sent \in Nat
  BY UnexecutedFacts
<1>2. clock + 1 + Cardinality(Unexecuted \ {c.no}) <= sent
  BY ClockFacts
<1>3. \A d \in calls \ {c} : d.no # c.no
  BY DEF CallInv
<1>4. Unexecuted' = Unexecuted \ {c.no}
  BY <1>3 DEF Unexecuted, Executes
<1>5. Cardinality(Unexecuted \ {c.no}) \in Nat
  BY <1>1, FS_RemoveElement, FS_CardinalityType
<1>6. clock' + Cardinality(Unexecuted') <= sent'
  BY <1>1, <1>2, <1>4, <1>5
<1>7. (\A d \in calls' : d.no <= sent') /\ (\A d, e \in calls' : d.no = e.no => d = e)
  BY <1>3 DEF CallInv, Executes
<1>8. QED
  BY <1>6, <1>7 DEF CallInv

\* What the server does to its objects and to the call.
LEMMA ExecuteFacts ==
    ASSUME PageInv, NEW c \in calls, Execute(c) \/ ExecuteFails(c)
    PROVE  /\ c.state = "sent" /\ clock' \in {clock, clock + 1}
           /\ UNCHANGED <<sessionVars, detailVars, options, tracked, sent, answered>> /\ failed' \in {failed, TRUE}
           /\ \E new \in Call, id \in Ids, o \in Object :
                 /\ Executes(c, new) /\ o.version = clock + 1
                 /\ \/ new.result = c.result /\ UNCHANGED <<store, clock>>
                    \/ new.kind = "run" /\ UNCHANGED <<store, clock>>
                    \/ /\ new.result = [id |-> id, object |-> o] /\ clock' = clock + 1
                       /\ store' \in {[store EXCEPT ![id] = o], [store EXCEPT ![id] = None]}
<1> USE DEF PageInv
<1>1. /\ c.state = "sent" /\ UNCHANGED <<sessionVars, detailVars, options, tracked, sent, answered>>
      /\ failed' \in {failed, TRUE}
  BY DEF Execute, ExecuteFails, Serves, Fails
<1>2. c \in Call /\ clock + 1 \in 0..MaxOperations
  BY <1>1, ClockFacts
<1>3. PICK o \in Object : o = Written(c)
  BY <1>2 DEF Object, Call, Content, Written
<1>4. ASSUME NEW id \in Ids, Executed(c, id)
      PROVE  \E new \in Call : /\ Executes(c, new) /\ new.result = [id |-> id, object |-> o]
  <2> DEFINE n == [c EXCEPT !.state = "executed", !.result = [id |-> id, object |-> o]]
  <2>1. calls' = (calls \ {c}) \cup {n}
    BY <1>3, <1>4 DEF Executed
  <2>2. [id |-> id, object |-> o] \in Named
    BY DEF Named
  <2>3. n \in Call /\ n.no = c.no /\ n.kind = c.kind /\ n.heard = c.heard /\ n.state = "executed"
        /\ n.result = [id |-> id, object |-> o]
    BY <1>2, <2>2 DEF Call
  <2> HIDE DEF n
  <2>4. QED
    BY <2>1, <2>3 DEF Executes
<1>5. c.id \in Ids /\ o.version = clock + 1
  BY <1>2, <1>3 DEF Call, Written
<1>6. ASSUME NEW id \in Ids, Write(c, id)
      PROVE  \E new \in Call : /\ Executes(c, new) /\ new.result = [id |-> id, object |-> o]
                      /\ clock' = clock + 1 /\ store' = [store EXCEPT ![id] = o]
  BY <1>3, <1>4, <1>6 DEF Write
<1>7. CASE ExecuteFails(c)
  <2> DEFINE n == [c EXCEPT !.state = "executed"]
  <2>1. calls' = (calls \ {c}) \cup {n} /\ UNCHANGED <<store, clock>>
    BY <1>7 DEF ExecuteFails
  <2>2. n \in Call /\ n.no = c.no /\ n.kind = c.kind /\ n.heard = c.heard /\ n.state = "executed" /\ n.result = c.result
    BY <1>2 DEF Call
  <2> HIDE DEF n
  <2>3. n \in Call /\ Executes(c, n) /\ n.result = c.result /\ UNCHANGED <<store, clock>> /\ clock' = clock
    BY <2>1, <2>2 DEF Executes
  <2>4. QED
    BY <1>1, <1>5, <2>3
<1>8. CASE Execute(c) /\ \E id \in Ids : Write(c, id)
  <2>1. PICK id \in Ids : Write(c, id)
    BY <1>8
  <2>2. PICK new \in Call : /\ Executes(c, new) /\ new.result = [id |-> id, object |-> o]
                   /\ clock' = clock + 1 /\ store' = [store EXCEPT ![id] = o]
    BY <1>6, <2>1
  <2>3. QED
    BY <1>1, <1>5, <2>2
<1>9. CASE Execute(c) /\ store' = [store EXCEPT ![c.id] = None] /\ clock' = clock + 1 /\ Executed(c, c.id)
  <2>1. PICK new \in Call : Executes(c, new) /\ new.result = [id |-> c.id, object |-> o]
    BY <1>4, <1>5, <1>9
  <2>2. QED
    BY <1>1, <1>5, <1>9, <2>1
<1>10. CASE Execute(c) /\ c.kind = "run" /\ UNCHANGED <<store, clock>> /\ Executed(c, c.id)
  <2>1. PICK new \in Call : Executes(c, new)
    BY <1>4, <1>5, <1>10
  <2>2. new.kind = "run" /\ clock' = clock
    BY <1>10, <2>1 DEF Executes
  <2>3. QED
    BY <1>1, <1>5, <1>10, <2>1, <2>2
<1>11. QED
  BY <1>5, <1>7, <1>8, <1>9, <1>10 DEF Execute

\* The server executes an operation.
LEMMA PageExecutes == ASSUME PageInv, NEW c \in calls, Execute(c) \/ ExecuteFails(c) PROVE PageInv'
<1> USE DEF PageInv
<1>1. /\ c.state = "sent" /\ clock' \in {clock, clock + 1}
      /\ UNCHANGED <<sessionVars, detailVars, options, tracked, sent, answered>> /\ failed' \in {failed, TRUE}
  BY ExecuteFacts
<1>2. PICK new \in Call, id \in Ids, o \in Object :
         /\ Executes(c, new)
         /\ store' \in {store, [store EXCEPT ![id] = o], [store EXCEPT ![id] = None]}
  BY ExecuteFacts
<1>3. store' \in [Ids -> Object \cup {None}]
  BY <1>2 DEF DetailTypeOK
<1>4. CallInv'
  BY <1>1, <1>2, ExecutesCalls
<1>5. clock' \in 0..MaxOperations
  BY <1>1, ClockFacts DEF DetailTypeOK
<1>6. calls' \subseteq Call
  BY <1>2 DEF Executes, DetailTypeOK
<1>7. DetailTypeOK'
  BY <1>1, <1>3, <1>5, <1>6 DEF detailVars, DetailTypeOK
<1>8. PlaceInv' /\ (Alive' <=> Alive) /\ ShownInv'
  BY <1>1 DEF sessionVars, detailVars, PlaceInv, Address, Shows, Alive, ShownInv
<1>9. AliveInv'
  BY <1>1, <1>2, <1>8 DEF detailVars, AliveInv, Executes
<1>10. QED
  BY <1>4, <1>7, <1>8, <1>9

(***************************************************************************)
(* Answers                                                                 *)
(***************************************************************************)

\* A call ends.
LEMMA CallEnds ==
    ASSUME PageInv, NEW c \in calls, calls' = calls \ {c}, UNCHANGED <<sent, clock>>
    PROVE  calls' \subseteq Call /\ Continues(calls', calls) /\ CallInv'
<1>1. calls \ {c} \in SUBSET calls
  OBVIOUS
<1>2. calls' \subseteq Call /\ Continues(calls', calls)
  BY <1>1, ContinuesFacts DEF PageInv, DetailTypeOK
<1>3. QED
  BY <1>2, CallsContinue DEF PageInv

\* The router goes to an address by itself.
LEMMA PageRedirects ==
    ASSUME PageInv, NEW target, Address(target), NEW c \in calls, Redirect(target, calls \ {c}),
           UNCHANGED <<store, sent, clock, answered, failed>>
    PROVE  PageInv' /\ PageMoves /\ Continues(calls', calls)
<1>1. PlaceInv' /\ PageMoves
  BY PlaceNavigates DEF PageInv, Redirect
<1>2. PICK d \in {dialog, None} : FollowPage(d, calls \ {c})
  BY DEF Redirect
<1>3. calls \ {c} \in SUBSET calls
  OBVIOUS
<1>4. QED
  BY <1>1, <1>2, <1>3, PageFollows

\* The answer of an operation on a related object loads the page again.
LEMMA AnswerLoads ==
    ASSUME PageInv, NEW c \in calls, AnswerRelated(c) PROVE Alive /\ page.id \in Ids /\ Load(page)
<1>1. Alive /\ page.id \in Ids /\ c.kind # "run"
  BY DEF AnswerRelated, PageInv, AliveInv, Alive, PlaceInv, Address
<1>2. c.kind \in {"update", "save", "move", "delete"}
  BY <1>1 DEF PageInv, DetailTypeOK, Call
<1>3. QED
  BY <1>1, <1>2 DEF AnswerRelated, Reloads

\* The answers that show something or load it again, and those that nobody hears.
LEMMA PageAnswersShown ==
    ASSUME PageInv, NEW c \in calls, AnswerUnheard(c) \/ AnswerUpdate(c) \/ AnswerRelated(c)
    PROVE  PageInv' /\ Continues(calls', calls)
<1> USE DEF PageInv
<1>1. /\ calls' = calls \ {c}
      /\ UNCHANGED <<sessionVars, store, opening, dialog, closing, options, tracked, sent, clock, failed>>
  BY DEF AnswerUnheard, AnswerUpdate, AnswerRelated, detailVars
<1>2. calls' \subseteq Call /\ Continues(calls', calls) /\ CallInv'
  BY <1>1, CallEnds
<1>3. PlaceInv' /\ (Alive' <=> Alive)
  BY <1>1 DEF sessionVars, PlaceInv, Address, Shows, Alive
<1>4. c \in Call
  BY DEF DetailTypeOK
<1>5. CASE AnswerUnheard(c)
  <2>1. DetailTypeOK' /\ ShownInv' /\ AliveInv'
    BY <1>2, <1>3, <1>5 DEF AnswerUnheard, detailVars, DetailTypeOK, ShownInv, AliveInv
  <2>2. QED
    BY <1>2, <1>3, <2>1
<1>6. CASE AnswerUpdate(c)
  <2>1. c.result \in Named \cup {None} /\ Emit(c.result, options) /\ c.heard = "yes"
    BY <1>4, <1>6 DEF AnswerUpdate, Call
  <2>2. /\ shown' \in Named \cup {None} /\ contexts' \in [Panels -> SUBSET Card]
        /\ loading' \in [Panels -> [todo : SUBSET Ids, done : SUBSET Card] \cup {None}] /\ ShownInv'
    BY <2>1, EmitFacts DEF DetailTypeOK
  <2>3. DetailTypeOK'
    BY <1>1, <1>2, <1>6, <2>2 DEF AnswerUpdate, DetailTypeOK
  <2>4. AliveInv'
    BY <1>3, <2>1 DEF AliveInv
  <2>5. QED
    BY <1>2, <1>3, <2>2, <2>3, <2>4
<1>7. CASE AnswerRelated(c)
  <2>1. Alive /\ page.id \in Ids /\ Load(page)
    BY <1>7, AnswerLoads
  <2>2. /\ get' \in Get \cup {None} /\ seeds' \subseteq Named /\ seedLoad' \in BOOLEAN
        /\ offset' \in Nat /\ entitySeedDisabled' = entitySeedDisabled
    BY <2>1 DEF Load, Get, EntitySeedQuery
  <2>3. answered' \in [Ids -> 0..MaxOperations]
    <3>1. CASE c.result = None
      BY <1>7, <3>1 DEF AnswerRelated, DetailTypeOK
    <3>2. CASE c.result # None
      <4>1. c.result \in Named
        BY <1>4, <3>2 DEF Call
      <4>2. c.result.id \in Ids /\ c.result.object.version \in 0..MaxOperations
        BY <4>1 DEF Named, Object
      <4>3. PICK v \in 0..MaxOperations : answered' = [answered EXCEPT ![c.result.id] = v]
        BY <1>7, <3>2, <4>2 DEF AnswerRelated, DetailTypeOK
      <4>4. QED
        BY <4>2, <4>3 DEF DetailTypeOK
    <3>3. QED
      BY <3>1, <3>2
  <2>4. UNCHANGED <<shown, contexts, loading>>
    BY <1>7 DEF AnswerRelated
  <2>5. DetailTypeOK' /\ ShownInv'
    BY <1>1, <1>2, <2>2, <2>3, <2>4 DEF DetailTypeOK, ShownInv
  <2>6. AliveInv'
    BY <1>3, <2>1 DEF AliveInv
  <2>7. QED
    BY <1>2, <1>3, <2>5, <2>6
<1>8. QED
  BY <1>5, <1>6, <1>7

\* What the page does with an object that has been saved, unless the router refuses to go there.
SaveShown(c) ==
    /\ c.result \in Named \cup {None} /\ Emit(c.result, options) /\ c.heard = "yes"
    /\ calls' = calls \ {c} /\ dialog' \in {dialog, None}
    /\ PlaceInv' /\ app' = app
    /\ UNCHANGED <<user, roles, ability, page, moves, get, seeds, seedLoad, offset, entitySeedDisabled,
                   opening, closing, options, tracked, store, sent, clock, answered, failed>>

\* Either the router redirects, or the page shows the answer.
LEMMA SaveFacts ==
    ASSUME PageInv, NEW c \in calls, AnswerSave(c)
    PROVE  \/ SaveShown(c)
           \/ \E target : Address(target) /\ Redirect(target, calls \ {c})
<1> USE DEF PageInv
<1>1. c.result \in Named \cup {None}
  BY DEF DetailTypeOK, Call
<1>2. c.result # None => Address(PageOf(c.result.id))
  BY <1>1, ObjectAddresses DEF Named
<1>3. CASE c.result # None /\ Verdict(page, PageOf(c.result.id), ability) = "login"
  BY <1>2, <1>3 DEF AnswerSave
<1>4. CASE ~(c.result # None /\ Verdict(page, PageOf(c.result.id), ability) = "login")
  <2>1. /\ Emit(c.result, options) /\ c.heard = "yes" /\ calls' = calls \ {c}
        /\ UNCHANGED <<user, roles, ability, page, moves, get, seeds, seedLoad, offset, entitySeedDisabled,
                       opening, closing, options, tracked, store, sent, clock, answered, failed>>
    BY <1>4 DEF AnswerSave
  <2>2. CASE c.result = None
    <3>1. UNCHANGED <<app, requested, moving, dialog>>
      BY <1>4, <2>2 DEF AnswerSave
    <3>2. PlaceInv'
      BY <2>1, <3>1 DEF PlaceInv, Address, Shows
    <3>3. QED
      BY <1>1, <2>1, <3>1, <3>2 DEF SaveShown
  <2>3. CASE c.result # None
    <3>1. Navigate(PageOf(c.result.id)) /\ dialog' \in {dialog, None}
      BY <1>4, <2>3 DEF AnswerSave
    <3>2. PlaceInv'
      BY <1>2, <2>1, <2>3, <3>1, PlaceNavigates
    <3>3. app' = app
      BY <1>4, <2>3, <3>1 DEF Navigate
    <3>4. QED
      BY <1>1, <2>1, <3>1, <3>2, <3>3 DEF SaveShown
  <2>4. QED
    BY <2>2, <2>3
<1>5. QED
  BY <1>3, <1>4

\* The answer of a save is shown.
LEMMA PageShowsSaved ==
    ASSUME PageInv, NEW c \in calls, SaveShown(c) PROVE PageInv' /\ Continues(calls', calls)
<1> USE DEF PageInv
<1>1. calls' \subseteq Call /\ Continues(calls', calls) /\ CallInv'
  BY CallEnds DEF SaveShown
<1>2. /\ shown' \in Named \cup {None} /\ contexts' \in [Panels -> SUBSET Card]
      /\ loading' \in [Panels -> [todo : SUBSET Ids, done : SUBSET Card] \cup {None}] /\ ShownInv'
  BY EmitFacts DEF SaveShown, DetailTypeOK
<1>3. DetailTypeOK'
  BY <1>1, <1>2 DEF SaveShown, DetailTypeOK
<1>4. Alive /\ Alive'
  BY DEF SaveShown, AliveInv, Alive, Shows
<1>5. QED
  BY <1>1, <1>2, <1>3, <1>4 DEF SaveShown, AliveInv

\* The answers after which the router moves.
LEMMA MovingAnswers ==
    ASSUME PageInv, NEW c \in calls, AnswerDelete(c) \/ AnswerRun(c)
    PROVE  \E target : Address(target) /\ Redirect(target, calls \ {c})
<1>1. CASE AnswerDelete(c)
  <2>1. PICK target \in IF c.back THEN Pages ELSE {ListOf(KindOf[c.id])} : Redirect(target, calls \ {c})
    BY <1>1 DEF AnswerDelete
  <2>2. Address(target)
    BY <2>1, AddressAssumption, PlainAddresses DEF Address
  <2>3. QED
    BY <2>1, <2>2
<1>2. CASE AnswerRun(c)
  <2>1. Address(ListOf("crawlexecution")) /\ Address(Page("report", "jobexecution", c.id))
    BY PlainAddresses
  <2>2. QED
    BY <1>2, <2>1 DEF AnswerRun
<1>3. QED
  BY <1>1, <1>2

\* Every step of the dashboard.
LEMMA PageInvStep == ASSUME SessionInv, PageInv, [DetailNext]_allVars PROVE PageInv'
<1>1. CASE OnSession
  <2>1. PlaceInv' /\ PageMoves
    BY <1>1, PlaceMovesOn DEF OnSession, PageInv
  <2>2. PICK d \in {dialog, None} : FollowPage(d, calls)
    BY <1>1 DEF OnSession
  <2>3. QED
    BY <1>1, <2>1, <2>2, PageFollows DEF OnSession
<1>2. CASE \/ ServeGet \/ GetArrives \/ ServeSeeds \/ ServeMoreSeeds \/ \E p \in Panels, id \in Ids : ServePanel(p, id)
           \/ \E disabled \in {"any", "no", "yes"} : OnEntitySeedQueryChange(disabled)
  BY <1>2, PageServed, PageListsSeeds
<1>3. CASE \/ \E target \in Offered :
                 \/ \E kind \in {"edit", "clone", "createSeed"} : OnCreateConfigWithDialog(kind, target)
                 \/ \E kind \in {"delete", "run", "move"} : OpenDialog(kind, target)
           \/ OptionsArrive \/ OptionsFail \/ Cancel
  BY <1>3, PageAsks
<1>4. CASE Confirm \/ OnUpdate
  BY <1>4, PageSends
<1>5. ASSUME NEW c \in calls, Execute(c) \/ ExecuteFails(c) PROVE PageInv'
  BY <1>5, PageExecutes
<1>6. ASSUME NEW c \in calls, Answer(c) PROVE PageInv'
  <2>1. CASE AnswerUnheard(c) \/ AnswerUpdate(c) \/ AnswerRelated(c)
    BY <2>1, PageAnswersShown
  <2>2. CASE SaveShown(c)
    BY <2>2, PageShowsSaved
  <2>3. ASSUME AnswerSave(c) \/ AnswerDelete(c) \/ AnswerRun(c), ~SaveShown(c) PROVE PageInv'
    <3>1. PICK target : Address(target) /\ Redirect(target, calls \ {c})
      BY <2>3, SaveFacts, MovingAnswers
    <3>2. UNCHANGED <<store, sent, clock, answered, failed>>
      BY <2>3 DEF AnswerSave, AnswerDelete, AnswerRun
    <3>3. QED
      BY <3>1, <3>2, PageRedirects
  <2>4. QED
    BY <1>6, <2>1, <2>2, <2>3 DEF Answer
<1>7. CASE UNCHANGED allVars
  BY <1>7 DEF allVars, sessionVars, detailVars, PageInv, DetailTypeOK, PlaceInv, Address, Shows, AliveInv, Alive,
              ShownInv, CallInv, Unexecuted
<1>8. QED
  BY <1>1, <1>2, <1>3, <1>4, <1>5, <1>6, <1>7 DEF DetailNext

\* At first there are the objects, and no page.
LEMMA PageInvInit == DetailInit => PageInv
<1> SUFFICES ASSUME DetailInit PROVE PageInv
  OBVIOUS
<1>1. store \in [Ids -> Object \cup {None}]
  <2>1. ASSUME NEW id \in Ids
        PROVE  (IF Initially[id] = None THEN None
                ELSE [version |-> 0, refs |-> Initially[id], disabled |-> "no"]) \in Object \cup {None}
    <3>1. Initially[id] # None => Initially[id] \in SUBSET Ids
      BY ObjectsAssumption
    <3>2. 0 \in 0..MaxOperations
      BY ObjectsAssumption
    <3>3. QED
      BY <3>1, <3>2 DEF Object
  <2>2. QED
    BY <2>1 DEF DetailInit
<1>2. contexts \in [Panels -> SUBSET Card]
  BY DEF DetailInit
<1>3. loading \in [Panels -> [todo : SUBSET Ids, done : SUBSET Card] \cup {None}]
  BY DEF DetailInit
<1>4. options \in [Lists -> SUBSET Ids] /\ answered \in [Ids -> 0..MaxOperations] /\ {sent, clock} \subseteq 0..MaxOperations
  BY ObjectsAssumption DEF DetailInit
<1>5. DetailTypeOK
  BY <1>1, <1>2, <1>3, <1>4 DEF DetailInit, DetailTypeOK
<1>6. PlaceInv
  BY PlainAddresses, AddressAssumption DEF DetailInit, SessionInit, PlaceInv, Address
<1>7. AliveInv /\ ShownInv
  BY DEF DetailInit, AliveInv, ShownInv
<1>8. CallInv
  <2>1. Unexecuted = {}
    BY DEF DetailInit, Unexecuted
  <2>2. QED
    BY <2>1, FS_EmptySet DEF DetailInit, CallInv
<1>9. QED
  BY <1>5, <1>6, <1>7, <1>8 DEF PageInv

\* The invariant of the page.
THEOREM PageInvHolds == DetailSpec => []PageInv
<1>1. SessionInv /\ PageInv /\ [DetailNext]_allVars => PageInv'
  BY PageInvStep
<1>2. QED
  BY <1>1, PageInvInit, SessionInvHolds, PTL DEF DetailSpec

\* The types of the page of an object, for all objects, pages, roles and any number of operations: versions
\* never pass the number of operations, whatever is executed, answered or forgotten.
THEOREM DetailTypesHold == DetailSpec => []DetailTypeOK
<1>1. PageInv => DetailTypeOK
  BY DEF PageInv
<1>2. QED
  BY <1>1, PageInvHolds, PTL

(***************************************************************************)
(* What the panels are about                                               *)
(***************************************************************************)

\* The objects that cards are of.
CardIds(cards) == {c.id : c \in cards}

\* A panel shows what it is about, or what is still to come and what has come are together what it is about.
PanelAgrees(p) ==
    IF loading[p] = None THEN CardIds(contexts[p]) = Wanted(p, shown, options)
    ELSE /\ loading[p].todo # {}
         /\ loading[p].todo \cup CardIds(loading[p].done) = Wanted(p, shown, options)

AgreeInv == IsLoggedIn(roles) => \A p \in Panels : PanelAgrees(p)

\* What a panel is about depends on what is shown, the options and the ability only.
LEMMA WantedKept ==
    ASSUME NEW p, UNCHANGED <<shown, options, ability>>
    PROVE  Wanted(p, shown, options)' = Wanted(p, shown, options)
BY DEF Wanted, RelatedConfigDescriptors, DirectConfigDescriptors, SelectedScripts, ScriptAnnotationJobs

\* Both panels load anew.
LEMMA EmitAgrees ==
    ASSUME NEW named \in Named \cup {None}, NEW lists \in [Lists -> SUBSET Ids], Emit(named, lists),
           options' = lists, ability' = ability
    PROVE  AgreeInv'
<1>1. shown' = named
  BY DEF Emit
<1>2. ASSUME NEW p \in Panels PROVE Wanted(p, shown, options)' = Wanted(p, named, lists)
  BY <1>1 DEF Wanted, RelatedConfigDescriptors, DirectConfigDescriptors, SelectedScripts, ScriptAnnotationJobs
<1>3. ASSUME NEW p \in Panels PROVE PanelAgrees(p)'
  <2>1. CASE Wanted(p, named, lists) = {}
    <3>1. loading'[p] = None /\ contexts'[p] = {}
      BY <2>1 DEF Emit, EmptyPanel
    <3>2. CardIds(contexts'[p]) = {}
      BY <3>1 DEF CardIds
    <3>3. QED
      BY <1>2, <2>1, <3>1, <3>2 DEF PanelAgrees
  <2>2. CASE Wanted(p, named, lists) # {}
    <3>1. loading'[p] = [todo |-> Wanted(p, named, lists), done |-> {}]
      BY <2>2 DEF Emit
    <3>2. loading'[p] # None
      <4>1. Wanted(p, named, lists) \in SUBSET Ids
        BY WantedFacts
      <4>2. [todo |-> Wanted(p, named, lists), done |-> {}] \in [todo : SUBSET Ids, done : SUBSET Card]
        BY <4>1
      <4>3. QED
        BY <3>1, <4>2, LoadAssumption
    <3>3. loading'[p].todo = Wanted(p, named, lists) /\ CardIds(loading'[p].done) = {}
      BY <3>1 DEF CardIds
    <3>4. QED
      BY <1>2, <2>2, <3>2, <3>3 DEF PanelAgrees
  <2>3. QED
    BY <2>1, <2>2
<1>4. QED
  BY <1>3 DEF AgreeInv

\* Nothing that the panels depend on changes.
LEMMA AgreeKept ==
    ASSUME AgreeInv, UNCHANGED <<roles, ability, shown, options, contexts, loading>> PROVE AgreeInv'
<1>1. ASSUME NEW p \in Panels, PanelAgrees(p) PROVE PanelAgrees(p)'
  <2>1. Wanted(p, shown, options)' = Wanted(p, shown, options)
    BY WantedKept
  <2>2. QED
    BY <1>1, <2>1 DEF PanelAgrees, CardIds
<1>2. QED
  BY <1>1 DEF AgreeInv

\* Nothing is shown.
LEMMA AgreeNothing ==
    ASSUME shown' = None, \A p \in Panels : contexts'[p] = {} /\ loading'[p] = None PROVE AgreeInv'
<1>1. ASSUME NEW p \in Panels PROVE PanelAgrees(p)'
  BY DEF PanelAgrees, CardIds, Wanted
<1>2. QED
  BY <1>1 DEF AgreeInv

\* The component follows the router.
LEMMA AgreeFollows ==
    ASSUME PageInv, AgreeInv, PageMoves, NEW d, NEW cs, FollowPage(d, cs) PROVE AgreeInv'
<1> USE DEF PageInv
<1>1. options' \in [Lists -> SUBSET Ids] /\ (Stays(d, cs) \/ Arrives(d, cs) \/ Leaves(d, cs))
  BY FollowCases
<1>2. CASE Stays(d, cs)
  <2>1. UNCHANGED <<shown, options, contexts, loading>> /\ page' = page
    BY <1>2 DEF Stays
  <2>2. CASE roles' = roles /\ ability' = ability
    BY <2>1, <2>2, AgreeKept
  <2>3. CASE page' = Nowhere
    <3>1. shown = None
      BY <2>1, <2>3, PlainAddresses DEF AliveInv, Alive
    <3>2. \A p \in Panels : contexts[p] = {} /\ loading[p] = None
      BY <3>1 DEF ShownInv
    <3>3. QED
      BY <2>1, <3>1, <3>2, AgreeNothing
  <2>4. CASE ~IsLoggedIn(roles)'
    BY <2>4 DEF AgreeInv
  <2>5. QED
    BY <2>2, <2>3, <2>4 DEF PageMoves, IsLoggedIn
<1>3. CASE Arrives(d, cs)
  <2>1. ability' = ability /\ roles' = roles
    BY <1>3 DEF Arrives, PageMoves
  <2>2. CASE UNCHANGED <<options, shown, contexts, loading>>
    BY <2>1, <2>2, AgreeKept
  <2>3. CASE Emit(shown, options')
    <3>1. shown \in Named \cup {None}
      BY DEF DetailTypeOK
    <3>2. QED
      BY <1>1, <2>1, <2>3, <3>1, EmitAgrees
  <2>4. QED
    BY <1>3, <2>2, <2>3 DEF Arrives
<1>4. CASE Leaves(d, cs)
  BY <1>4, AgreeNothing DEF Leaves, Destroyed
<1>5. QED
  BY <1>1, <1>2, <1>3, <1>4

\* One of the calls of a panel is answered: the object leaves what is to come and joins what has come.
LEMMA AgreeServes ==
    ASSUME PageInv, AgreeInv, NEW panel \in Panels, NEW id \in Ids, ServePanel(panel, id) PROVE AgreeInv'
<1> USE DEF PageInv
<1>1. UNCHANGED <<shown, options, ability, roles>>
  BY DEF ServePanel, sessionVars
<1>2. PICK object \in {store[id], None} :
        LET done == loading[panel].done \cup {[id |-> id, object |-> object]}
            todo == loading[panel].todo \ {id}
        IN  /\ contexts' = IF todo = {} THEN [contexts EXCEPT ![panel] = done] ELSE contexts
            /\ loading' = [loading EXCEPT ![panel] = IF todo = {} THEN None ELSE [todo |-> todo, done |-> done]]
  BY DEF ServePanel
<1> DEFINE card == [id |-> id, object |-> object]
           done == loading[panel].done \cup {card}
           todo == loading[panel].todo \ {id}
<1>3. /\ contexts' = IF todo = {} THEN [contexts EXCEPT ![panel] = done] ELSE contexts
      /\ loading' = [loading EXCEPT ![panel] = IF todo = {} THEN None ELSE [todo |-> todo, done |-> done]]
  BY <1>2
<1>4. /\ loading[panel] # None /\ id \in loading[panel].todo
      /\ loading[panel] \in [todo : SUBSET Ids, done : SUBSET Card]
  BY DEF ServePanel, DetailTypeOK
<1>5. done \in SUBSET Card /\ CardIds(done) = CardIds(loading[panel].done) \cup {id}
  <2>1. card \in Card /\ card.id = id
    BY <1>2, StoreFacts DEF Card
  <2> HIDE DEF card
  <2>2. QED
    BY <1>4, <2>1 DEF CardIds
<1>6. ASSUME NEW p \in Panels, PanelAgrees(p) PROVE PanelAgrees(p)'
  <2>1. Wanted(p, shown, options)' = Wanted(p, shown, options)
    BY <1>1, WantedKept
  <2>2. CASE p # panel
    <3>1. contexts'[p] = contexts[p] /\ loading'[p] = loading[p]
      BY <1>3, <2>2 DEF DetailTypeOK
    <3>2. QED
      BY <1>6, <2>1, <3>1 DEF PanelAgrees, CardIds
  <2>3. CASE p = panel
    <3>1. todo \cup CardIds(done) = Wanted(p, shown, options)
      BY <1>4, <1>5, <1>6, <2>3 DEF PanelAgrees
    <3>2. CASE todo = {}
      <4>1. contexts'[p] = done /\ loading'[p] = None
        BY <1>3, <2>3, <3>2 DEF DetailTypeOK
      <4>2. CardIds(contexts'[p]) = Wanted(p, shown, options)
        BY <3>1, <3>2, <4>1
      <4>3. QED
        BY <2>1, <4>1, <4>2 DEF PanelAgrees, CardIds
    <3>3. CASE todo # {}
      <4>1. loading'[p] = [todo |-> todo, done |-> done]
        BY <1>3, <2>3, <3>3 DEF DetailTypeOK
      <4>2. loading'[p].todo = todo /\ loading'[p].done = done
        BY <4>1
      <4>3. loading'[p] # None
        <5>1. loading'[p] \in [todo : SUBSET Ids, done : SUBSET Card]
          BY <1>4, <1>5, <4>1
        <5>2. QED
          BY <5>1, LoadAssumption
      <4> HIDE DEF todo, done
      <4>4. loading'[p].todo # {} /\ loading'[p].todo \cup CardIds(loading'[p].done) = Wanted(p, shown, options)'
        BY <2>1, <3>1, <3>3, <4>2
      <4>5. QED
        BY <4>3, <4>4 DEF PanelAgrees, CardIds
    <3>4. QED
      BY <3>2, <3>3
  <2>4. QED
    BY <2>2, <2>3
<1>7. QED
  BY <1>1, <1>6 DEF AgreeInv

\* Every step of the dashboard.
LEMMA AgreeInvStep == ASSUME SessionInv, PageInv, AgreeInv, [DetailNext]_allVars PROVE AgreeInv'
<1> USE DEF PageInv
<1>1. CASE OnSession
  <2>1. PageMoves
    BY <1>1, PlaceMovesOn DEF OnSession
  <2>2. PICK d, cs : FollowPage(d, cs)
    BY <1>1 DEF OnSession
  <2>3. QED
    BY <2>1, <2>2, AgreeFollows
<1>2. CASE GetArrives
  <2>1. get \in Get /\ ability' = ability /\ options' = options
    BY <1>2 DEF GetArrives, DetailTypeOK, sessionVars
  <2>2. PICK named \in Named \cup {None} : Emit(named, options)
    <3>1. get.object # None => [id |-> get.id, object |-> get.object] \in Named
      BY <2>1 DEF Get, Named
    <3>2. QED
      BY <1>2, <3>1 DEF GetArrives
  <2>3. QED
    BY <2>1, <2>2, EmitAgrees DEF DetailTypeOK
<1>3. ASSUME NEW p \in Panels, NEW id \in Ids, ServePanel(p, id) PROVE AgreeInv'
  BY <1>3, AgreeServes
<1>4. CASE OptionsArrive
  <2>1. ability' = ability /\ Emit(shown, options') /\ shown \in Named \cup {None}
    BY <1>4 DEF OptionsArrive, sessionVars, DetailTypeOK
  <2>2. options' \in [Lists -> SUBSET Ids]
    BY <1>4, OptionFacts DEF OptionsArrive, DetailTypeOK
  <2>3. QED
    BY <2>1, <2>2, EmitAgrees
<1>5. CASE \/ ServeGet \/ ServeSeeds \/ ServeMoreSeeds \/ OptionsFail \/ Cancel \/ Confirm \/ OnUpdate
           \/ \E target \in Offered :
                 \/ \E kind \in {"edit", "clone", "createSeed"} : OnCreateConfigWithDialog(kind, target)
                 \/ \E kind \in {"delete", "run", "move"} : OpenDialog(kind, target)
           \/ \E disabled \in {"any", "no", "yes"} : OnEntitySeedQueryChange(disabled)
           \/ \E c \in calls : Execute(c) \/ ExecuteFails(c) \/ AnswerUnheard(c) \/ AnswerRelated(c)
           \/ UNCHANGED allVars
  <2>1. UNCHANGED <<roles, ability, shown, options, contexts, loading>>
    BY <1>5 DEF ServeGet, ServeSeeds, ServeMoreSeeds, OnEntitySeedQueryChange, OptionsFail, Cancel, Confirm,
                OnUpdate, OnCreateConfigWithDialog, OpenDialog, Execute, ExecuteFails, AnswerUnheard, AnswerRelated, allVars, sessionVars, detailVars
  <2>2. QED
    BY <2>1, AgreeKept
<1>6. ASSUME NEW c \in calls, AnswerUpdate(c) \/ SaveShown(c) PROVE AgreeInv'
  <2>1. Emit(c.result, options) /\ options' = options /\ ability' = ability
    BY <1>6 DEF AnswerUpdate, SaveShown, sessionVars
  <2>2. c.result \in Named \cup {None}
    BY DEF DetailTypeOK, Call
  <2>3. QED
    BY <2>1, <2>2, EmitAgrees DEF DetailTypeOK
<1>7. ASSUME NEW c \in calls, AnswerSave(c) \/ AnswerDelete(c) \/ AnswerRun(c), ~SaveShown(c) PROVE AgreeInv'
  <2>1. PICK target : Address(target) /\ Redirect(target, calls \ {c})
    BY <1>7, SaveFacts, MovingAnswers
  <2>2. UNCHANGED <<store, sent, clock, answered, failed>>
    BY <1>7 DEF AnswerSave, AnswerDelete, AnswerRun
  <2>3. PageMoves
    BY <2>1, <2>2, PageRedirects
  <2>4. PICK d : FollowPage(d, calls \ {c})
    BY <2>1 DEF Redirect
  <2>5. QED
    BY <2>3, <2>4, AgreeFollows
<1>8. QED
  BY <1>1, <1>2, <1>3, <1>4, <1>5, <1>6, <1>7 DEF DetailNext, Answer

\* The invariant of the panels.
THEOREM AgreeInvHolds == DetailSpec => []AgreeInv
<1>1. DetailInit => AgreeInv
  BY DEF DetailInit, SessionInit, AgreeInv, IsLoggedIn
<1>2. SessionInv /\ PageInv /\ AgreeInv /\ [DetailNext]_allVars => AgreeInv'
  BY AgreeInvStep
<1>3. QED
  BY <1>1, <1>2, SessionInvHolds, PageInvHolds, PTL DEF DetailSpec

\* Objects are loaded and shown, options come late, loads are given up, answers of updates come in and the router
\* moves on: a panel whose load is complete is about just what the object shown, the options and the
\* ability call for, for all objects, pages, roles and any number of operations.
THEOREM ContextsAgree == DetailSpec => []ContextAgrees
<1>1. AgreeInv => ContextAgrees
  BY DEF AgreeInv, PanelAgrees, CardIds, ContextAgrees
<1>2. QED
  BY <1>1, AgreeInvHolds, PTL

(***************************************************************************)
(* How old the cards and rows are                                          *)
(***************************************************************************)

\* Every change has a number that is greater than those before, so what has been answered is not newer than
\* the object is, unless that is gone.
VersionInv ==
    /\ \A id \in Ids : answered[id] <= clock
    /\ \A id \in Ids : Exists(id) => answered[id] <= store[id].version /\ store[id].version <= clock
    /\ \A c \in calls : c.result # None /\ c.kind # "run" =>
          /\ c.result.object.version <= clock
          /\ Exists(c.result.id) => c.result.object.version <= store[c.result.id].version

\* No card is older than an operation that has been answered.
Fresh(cards) == \A c \in cards : c.object # None => c.object.version >= answered[c.id]

\* The cards of a panel that are there, or that a load has brought so far.
Current(p) == IF loading[p] = None THEN contexts[p] ELSE loading[p].done

\* An answer that the page waited for starts all loads again, so they are about what came after it.
FreshInv == (get = None => \A p \in Panels : Fresh(Current(p))) /\ Fresh(seeds)

\* The seeds that the rows of an entity must name, since operations that are answered gave them to it.
SeedsInv ==
    ~failed /\ ~seedLoad /\ IsLoggedIn(roles) /\ EntitySeedQuery(page) /\ offset < SeedPage =>
        \A s \in SeedsOf(page.id) : s.object.version <= answered[s.id] => s.id \in CardIds(seeds)

\* The numbers that are compared.
LEMMA VersionTypes ==
    ASSUME DetailTypeOK
    PROVE  /\ clock \in Int /\ \A id \in Ids : answered[id] \in Int
           /\ \A id \in Ids : Exists(id) => store[id] \in Object /\ store[id].version \in Int
           /\ \A c \in calls : c.result # None => /\ c.result.id \in Ids /\ c.result.object \in Object
                                                   /\ c.result.object.version \in Int
<1>1. \A o \in Object : o.version \in Int
  BY DEF Object
<1>2. clock \in Int /\ \A id \in Ids : answered[id] \in Int
  BY DEF DetailTypeOK
<1>3. \A id \in Ids : Exists(id) => store[id] \in Object
  BY DEF DetailTypeOK, Exists
<1>4. \A c \in calls : c.result # None => c.result.id \in Ids /\ c.result.object \in Object
  <2>1. \A c \in calls : c.result # None => c.result \in Named
    BY DEF DetailTypeOK, Call
  <2>2. QED
    BY <2>1 DEF Named
<1>5. QED
  BY <1>1, <1>2, <1>3, <1>4

\* Nothing is executed or answered, whatever becomes of the calls.
LEMMA VersionKept ==
    ASSUME VersionInv, UNCHANGED <<store, clock, answered>>,
           \A n \in calls' : n.result = None \/ \E c \in calls : n.kind = c.kind /\ n.result = c.result
    PROVE  VersionInv'
<1>1. \A id \in Ids : answered'[id] <= clock'
  BY DEF VersionInv
<1>2. \A id \in Ids : Exists(id)' => answered'[id] <= store'[id].version /\ store'[id].version <= clock'
  BY DEF VersionInv, Exists
<1>3. ASSUME NEW n \in calls', n.result # None, n.kind # "run"
      PROVE  /\ n.result.object.version <= clock'
             /\ Exists(n.result.id)' => n.result.object.version <= store'[n.result.id].version
  <2>1. PICK c \in calls : n.kind = c.kind /\ n.result = c.result
    BY <1>3
  <2>2. QED
    BY <1>3, <2>1 DEF VersionInv, Exists
<1>4. QED
  BY <1>1, <1>2, <1>3 DEF VersionInv

\* The server executes an operation.
LEMMA VersionExecutes ==
    ASSUME PageInv, VersionInv, NEW c \in calls, Execute(c) \/ ExecuteFails(c) PROVE VersionInv'
<1> USE DEF PageInv
<1>1. /\ c.state = "sent" /\ clock' \in {clock, clock + 1} /\ answered' = answered
  BY ExecuteFacts
<1>2. PICK new \in Call, id \in Ids, o \in Object :
         /\ Executes(c, new) /\ o.version = clock + 1
         /\ \/ new.result = c.result /\ UNCHANGED <<store, clock>>
            \/ new.kind = "run" /\ UNCHANGED <<store, clock>>
            \/ /\ new.result = [id |-> id, object |-> o] /\ clock' = clock + 1
               /\ store' \in {[store EXCEPT ![id] = o], [store EXCEPT ![id] = None]}
  BY ExecuteFacts
<1>3. CASE new.result = c.result /\ UNCHANGED <<store, clock>>
  <2>1. \A n \in calls' : n.result = None \/ \E d \in calls : n.kind = d.kind /\ n.result = d.result
    BY <1>2, <1>3 DEF Executes
  <2>2. QED
    BY <1>1, <1>3, <2>1, VersionKept
<1>4. CASE new.kind = "run" /\ UNCHANGED <<store, clock>>
  BY <1>1, <1>2, <1>4 DEF VersionInv, Executes, Exists
<1>5. CASE /\ new.result = [id |-> id, object |-> o] /\ clock' = clock + 1
           /\ store' \in {[store EXCEPT ![id] = o], [store EXCEPT ![id] = None]}
  <2>1. /\ clock \in Int /\ \A i \in Ids : answered[i] \in Int
        /\ \A i \in Ids : Exists(i) => store[i] \in Object /\ store[i].version \in Int
        /\ \A d \in calls : d.result # None => /\ d.result.id \in Ids /\ d.result.object.version \in Int
    BY VersionTypes
  <2>2. /\ store'[id] \in {o, None} /\ \A i \in Ids \ {id} : store'[i] = store[i]
    BY <1>5 DEF DetailTypeOK
  <2>3. \A i \in Ids : answered'[i] <= clock'
    BY <1>1, <1>5, <2>1 DEF VersionInv
  <2>4. ASSUME NEW i \in Ids, Exists(i)' PROVE answered'[i] <= store'[i].version /\ store'[i].version <= clock'
    <3>1. CASE i = id
      <4>1. store'[i].version = clock + 1
        BY <1>2, <2>2, <2>4, <3>1 DEF Exists
      <4>2. QED
        BY <1>1, <1>5, <2>1, <4>1 DEF VersionInv
    <3>2. CASE i # id
      <4>1. store'[i] = store[i] /\ Exists(i)
        BY <2>2, <2>4, <3>2 DEF Exists
      <4>2. QED
        BY <1>1, <1>5, <2>1, <4>1 DEF VersionInv
    <3>3. QED
      BY <3>1, <3>2
  <2>5. ASSUME NEW n \in calls', n.result # None, n.kind # "run"
        PROVE  /\ n.result.object.version <= clock'
               /\ Exists(n.result.id)' => n.result.object.version <= store'[n.result.id].version
    <3>1. CASE n = new
      <4>1. n.result.id = id /\ n.result.object.version = clock + 1
        BY <1>2, <1>5, <3>1
      <4>2. Exists(id)' => store'[id].version = clock + 1
        BY <1>2, <2>2 DEF Exists
      <4>3. QED
        BY <1>5, <2>1, <4>1, <4>2 DEF Exists
    <3>2. CASE n # new
      <4>1. n \in calls /\ n.result.id \in Ids /\ n.result.object.version \in Int
        BY <1>2, <2>1, <2>5, <3>2 DEF Executes
      <4>2. n.result.object.version <= clock
        BY <2>5, <4>1 DEF VersionInv
      <4>3. ASSUME Exists(n.result.id)' PROVE n.result.object.version <= store'[n.result.id].version
        <5>1. CASE n.result.id = id
          <6>1. store'[n.result.id].version = clock + 1
            BY <1>2, <2>2, <4>3, <5>1 DEF Exists
          <6>2. QED
            BY <2>1, <4>1, <4>2, <6>1
        <5>2. CASE n.result.id # id
          <6>1. store'[n.result.id] = store[n.result.id] /\ Exists(n.result.id)
            BY <2>2, <4>1, <4>3, <5>2 DEF Exists
          <6>2. QED
            BY <2>5, <4>1, <6>1 DEF VersionInv
        <5>3. QED
          BY <5>1, <5>2
      <4>4. QED
        BY <1>5, <2>1, <4>1, <4>2, <4>3
    <3>3. QED
      BY <3>1, <3>2
  <2>6. QED
    BY <2>3, <2>4, <2>5 DEF VersionInv
<1>6. QED
  BY <1>2, <1>3, <1>4, <1>5

\* The answer of an operation that the page waited for.
LEMMA VersionAnswers ==
    ASSUME PageInv, VersionInv, NEW c \in calls, AnswerRelated(c) PROVE VersionInv'
<1> USE DEF PageInv
<1>1. UNCHANGED <<store, clock>> /\ calls' = calls \ {c} /\ c.kind # "run"
  BY DEF AnswerRelated
<1>2. CASE c.result = None
  <2>1. answered' = answered
    BY <1>2 DEF AnswerRelated
  <2>2. QED
    BY <1>1, <2>1, VersionKept
<1>3. CASE c.result # None
  <2>1. /\ c.result.id \in Ids /\ c.result.object.version <= clock
        /\ Exists(c.result.id) => c.result.object.version <= store[c.result.id].version
    BY <1>1, <1>3, VersionTypes DEF VersionInv
  <2>2. \A id \in Ids : \/ answered'[id] = answered[id]
                        \/ id = c.result.id /\ answered'[id] = c.result.object.version
    BY <1>3, <2>1 DEF AnswerRelated, DetailTypeOK
  <2>3. \A id \in Ids : answered'[id] <= clock'
    BY <1>1, <2>1, <2>2 DEF VersionInv
  <2>4. ASSUME NEW id \in Ids, Exists(id)' PROVE answered'[id] <= store'[id].version /\ store'[id].version <= clock'
    <3>1. Exists(id) /\ store' = store
      BY <1>1, <2>4 DEF Exists
    <3>2. QED
      BY <1>1, <2>1, <2>2, <3>1 DEF VersionInv
  <2>5. \A n \in calls' : n.result # None /\ n.kind # "run" =>
           /\ n.result.object.version <= clock'
           /\ Exists(n.result.id)' => n.result.object.version <= store'[n.result.id].version
    BY <1>1 DEF VersionInv, Exists
  <2>6. QED
    BY <2>3, <2>4, <2>5 DEF VersionInv
<1>4. QED
  BY <1>2, <1>3

\* Every step of the dashboard.
LEMMA VersionInvStep == ASSUME SessionInv, PageInv, VersionInv, [DetailNext]_allVars PROVE VersionInv'
<1> USE DEF PageInv
<1>1. ASSUME Continues(calls', calls), UNCHANGED <<store, clock, answered>> PROVE VersionInv'
  BY <1>1, VersionKept DEF Continues
<1>2. CASE OnSession
  <2>1. PlaceInv' /\ PageMoves
    BY <1>2, PlaceMovesOn DEF OnSession
  <2>2. PICK d \in {dialog, None} : FollowPage(d, calls)
    BY <1>2 DEF OnSession
  <2>3. UNCHANGED <<store, sent, clock, answered, failed>>
    BY <1>2 DEF OnSession
  <2>4. Continues(calls', calls)
    BY <2>1, <2>2, <2>3, PageFollows
  <2>5. QED
    BY <1>1, <2>3, <2>4
<1>3. CASE \/ ServeGet \/ GetArrives \/ ServeSeeds \/ ServeMoreSeeds \/ \E p \in Panels, id \in Ids : ServePanel(p, id)
           \/ \E disabled \in {"any", "no", "yes"} : OnEntitySeedQueryChange(disabled)
           \/ \E target \in Offered :
                 \/ \E kind \in {"edit", "clone", "createSeed"} : OnCreateConfigWithDialog(kind, target)
                 \/ \E kind \in {"delete", "run", "move"} : OpenDialog(kind, target)
           \/ OptionsArrive \/ OptionsFail \/ Cancel
           \/ UNCHANGED allVars
  <2>1. UNCHANGED <<store, clock, answered, calls>>
    BY <1>3 DEF ServeGet, GetArrives, ServeSeeds, ServeMoreSeeds, OnEntitySeedQueryChange, ServePanel,
                OnCreateConfigWithDialog, OpenDialog, OptionsArrive, OptionsFail, Cancel, allVars
  <2>2. QED
    BY <2>1, VersionKept
<1>4. CASE Confirm \/ OnUpdate
  <2>1. UNCHANGED <<store, clock, answered>>
    BY <1>4 DEF Confirm, OnUpdate
  <2>2. PICK kind, asked, content : Send(kind, asked, content)
    BY <1>4 DEF Confirm, OnUpdate
  <2>3. \A n \in calls' : n \in calls \/ n.result = None
    BY <2>2 DEF Send
  <2>4. QED
    BY <2>1, <2>3, VersionKept
<1>5. ASSUME NEW c \in calls, Execute(c) \/ ExecuteFails(c) PROVE VersionInv'
  BY <1>5, VersionExecutes
<1>6. ASSUME NEW c \in calls, AnswerRelated(c) PROVE VersionInv'
  BY <1>6, VersionAnswers
<1>7. ASSUME NEW c \in calls, AnswerUnheard(c) \/ AnswerUpdate(c) \/ SaveShown(c) PROVE VersionInv'
  BY <1>7, VersionKept DEF AnswerUnheard, AnswerUpdate, SaveShown
<1>8. ASSUME NEW c \in calls, AnswerSave(c) \/ AnswerDelete(c) \/ AnswerRun(c), ~SaveShown(c) PROVE VersionInv'
  <2>1. PICK target : Address(target) /\ Redirect(target, calls \ {c})
    BY <1>8, SaveFacts, MovingAnswers
  <2>2. UNCHANGED <<store, sent, clock, answered, failed>>
    BY <1>8 DEF AnswerSave, AnswerDelete, AnswerRun
  <2>3. Continues(calls', calls)
    BY <2>1, <2>2, PageRedirects
  <2>4. QED
    BY <1>1, <2>2, <2>3
<1>9. QED
  BY <1>2, <1>3, <1>4, <1>5, <1>6, <1>7, <1>8 DEF DetailNext, Answer

\* Nothing that the cards are compared with changes.
LEMMA FreshKept ==
    ASSUME FreshInv, UNCHANGED <<get, contexts, loading, answered>>, seeds' \in {seeds, {}} PROVE FreshInv'
<1>1. \A p \in Panels : Current(p)' = Current(p)
  BY DEF Current
<1>2. get' = None => \A p \in Panels : Fresh(Current(p))'
  BY <1>1 DEF FreshInv, Fresh
<1>3. Fresh(seeds)'
  BY DEF FreshInv, Fresh
<1>4. QED
  BY <1>2, <1>3 DEF FreshInv

\* The panels load anew.
LEMMA EmitFresh ==
    ASSUME FreshInv, NEW named \in Named \cup {None}, NEW lists \in [Lists -> SUBSET Ids], Emit(named, lists),
           UNCHANGED <<seeds, answered>>
    PROVE  FreshInv'
<1>1. ASSUME NEW p \in Panels PROVE Current(p)' = {}
  <2>1. CASE Wanted(p, named, lists) = {}
    BY <2>1 DEF Emit, EmptyPanel, Current
  <2>2. CASE Wanted(p, named, lists) # {}
    <3>1. loading'[p] = [todo |-> Wanted(p, named, lists), done |-> {}]
      BY <2>2 DEF Emit
    <3>2. Wanted(p, named, lists) \in SUBSET Ids
      BY WantedFacts
    <3>3. [todo |-> Wanted(p, named, lists), done |-> {}] \in [todo : SUBSET Ids, done : SUBSET Card]
      BY <3>2
    <3>4. loading'[p] # None
      BY <3>1, <3>3, LoadAssumption
    <3>5. QED
      BY <3>1, <3>4 DEF Current
  <2>3. QED
    BY <2>1, <2>2
<1>2. \A p \in Panels : Fresh(Current(p))'
  BY <1>1 DEF Fresh
<1>3. Fresh(seeds)'
  BY DEF FreshInv, Fresh
<1>4. QED
  BY <1>2, <1>3 DEF FreshInv

\* The object of the address is loaded, and the rows anew.
LEMMA LoadFresh == ASSUME NEW p, p.id \in Ids, Load(p) PROVE FreshInv'
<1>1. [id |-> p.id, state |-> "sent", object |-> None] \in Get
  BY DEF Get
<1>2. get' # None
  BY <1>1, LoadAssumption DEF Load
<1>3. Fresh(seeds)'
  BY DEF Load, Fresh
<1>4. QED
  BY <1>2, <1>3 DEF FreshInv

\* The component follows the router.
LEMMA FreshFollows ==
    ASSUME PageInv, PageInv', FreshInv, NEW d, NEW cs, FollowPage(d, cs), answered' = answered PROVE FreshInv'
<1> USE DEF PageInv
<1>1. Stays(d, cs) \/ Arrives(d, cs) \/ Leaves(d, cs)
  BY FollowCases
<1>2. CASE Stays(d, cs)
  BY <1>2, FreshKept DEF Stays
<1>3. CASE Arrives(d, cs)
  <2>1. page'.id \in Ids
    BY <1>3 DEF Arrives, PlaceInv, Address, Shows
  <2>2. QED
    BY <1>3, <2>1, LoadFresh DEF Arrives
<1>4. CASE Leaves(d, cs)
  BY <1>4 DEF Leaves, Destroyed, FreshInv, Fresh, Current
<1>5. QED
  BY <1>1, <1>2, <1>3, <1>4

\* What the server reads is not older than what it has answered.
LEMMA ReadIsFresh ==
    ASSUME PageInv, VersionInv, NEW id \in Ids, NEW object \in {store[id], None}, object # None
    PROVE  object.version >= answered[id]
BY VersionTypes DEF PageInv, VersionInv, Exists

\* One of the calls of a panel is answered.
LEMMA FreshServes ==
    ASSUME PageInv, VersionInv, FreshInv, NEW panel \in Panels, NEW id \in Ids, ServePanel(panel, id)
    PROVE  FreshInv'
<1> USE DEF PageInv
<1>1. UNCHANGED <<get, seeds, answered>>
  BY DEF ServePanel
<1>2. PICK object \in {store[id], None} :
        LET done == loading[panel].done \cup {[id |-> id, object |-> object]}
            todo == loading[panel].todo \ {id}
        IN  /\ contexts' = IF todo = {} THEN [contexts EXCEPT ![panel] = done] ELSE contexts
            /\ loading' = [loading EXCEPT ![panel] = IF todo = {} THEN None ELSE [todo |-> todo, done |-> done]]
  BY DEF ServePanel
<1> DEFINE card == [id |-> id, object |-> object]
           done == loading[panel].done \cup {card}
           todo == loading[panel].todo \ {id}
<1>3. /\ contexts' = IF todo = {} THEN [contexts EXCEPT ![panel] = done] ELSE contexts
      /\ loading' = [loading EXCEPT ![panel] = IF todo = {} THEN None ELSE [todo |-> todo, done |-> done]]
  BY <1>2
<1>4. /\ loading[panel] # None /\ loading[panel] \in [todo : SUBSET Ids, done : SUBSET Card]
  BY DEF ServePanel, DetailTypeOK
<1>5. card.id = id /\ card.object = object /\ card \in Card
  BY <1>2, StoreFacts DEF Card
<1>6. object # None => object.version >= answered[id]
  BY ReadIsFresh
<1> HIDE DEF card
<1>7. ASSUME NEW p \in Panels, Fresh(Current(p)) PROVE Fresh(Current(p))'
  <2>1. CASE p # panel
    <3>1. contexts'[p] = contexts[p] /\ loading'[p] = loading[p]
      BY <1>3, <2>1 DEF DetailTypeOK
    <3>2. QED
      BY <1>1, <1>7, <3>1 DEF Current, Fresh
  <2>2. CASE p = panel
    <3>1. Current(p)' = done
      <4>1. CASE todo = {}
        BY <1>3, <2>2, <4>1 DEF DetailTypeOK, Current
      <4>2. CASE todo # {}
        <5>1. loading'[p] = [todo |-> todo, done |-> done]
          BY <1>3, <2>2, <4>2 DEF DetailTypeOK
        <5>2. loading'[p] \in [todo : SUBSET Ids, done : SUBSET Card]
          BY <1>4, <1>5, <5>1
        <5>3. QED
          BY <5>1, <5>2, LoadAssumption DEF Current
      <4>3. QED
        BY <4>1, <4>2
    <3>2. Current(p) = loading[panel].done
      BY <1>4, <2>2 DEF Current
    <3>3. \A c \in done : c.object # None => c.object.version >= answered[c.id]
      BY <1>5, <1>6, <1>7, <3>2 DEF Fresh
    <3>4. QED
      BY <1>1, <3>1, <3>3 DEF Fresh
  <2>3. QED
    BY <2>1, <2>2
<1>8. Fresh(seeds)'
  BY <1>1 DEF FreshInv, Fresh
<1>9. QED
  BY <1>1, <1>7, <1>8 DEF FreshInv

\* Rows of seeds come or go.
LEMMA FreshRows ==
    ASSUME PageInv, VersionInv, FreshInv,
           \/ ServeSeeds \/ ServeMoreSeeds
           \/ \E disabled \in {"any", "no", "yes"} : OnEntitySeedQueryChange(disabled)
    PROVE  FreshInv'
<1>1. UNCHANGED <<get, contexts, loading, answered>> /\ seeds' \subseteq seeds \cup SeedsOf(page.id)
  <2>1. CASE ServeSeeds
    BY <2>1 DEF ServeSeeds, RowsFrom
  <2>2. CASE ServeMoreSeeds
    BY <2>2 DEF ServeMoreSeeds, RowsFrom
  <2>3. CASE \E disabled \in {"any", "no", "yes"} : OnEntitySeedQueryChange(disabled)
    BY <2>3 DEF OnEntitySeedQueryChange
  <2>4. QED
    BY <2>1, <2>2, <2>3
<1>2. ASSUME NEW s \in SeedsOf(page.id), s.object # None PROVE s.object.version >= answered[s.id]
  <2>1. PICK id \in Ids : s = [id |-> id, object |-> store[id]]
    BY DEF SeedsOf
  <2>2. QED
    BY <1>2, <2>1, ReadIsFresh
<1>3. Fresh(seeds)'
  BY <1>1, <1>2 DEF FreshInv, Fresh
<1>4. get' = None => \A p \in Panels : Fresh(Current(p))'
  BY <1>1 DEF FreshInv, Fresh, Current
<1>5. QED
  BY <1>3, <1>4 DEF FreshInv

\* Every step of the dashboard.
LEMMA FreshInvStep ==
    ASSUME PageInv, PageInv', VersionInv, FreshInv, [DetailNext]_allVars PROVE FreshInv'
<1> USE DEF PageInv
<1>1. CASE OnSession
  <2>1. PICK d, cs : FollowPage(d, cs)
    BY <1>1 DEF OnSession
  <2>2. QED
    BY <1>1, <2>1, FreshFollows DEF OnSession
<1>2. CASE ServeGet
  <2>1. get' \in Get
    <3>1. get' \in Get \cup {None} /\ get \in Get
      BY <1>2 DEF ServeGet, DetailTypeOK
    <3>2. store[get.id] \in Object \cup {None}
      BY <3>1, StoreFacts DEF Get
    <3>3. QED
      BY <1>2, <3>1, <3>2 DEF ServeGet, Get
  <2>2. get' # None
    BY <2>1, LoadAssumption
  <2>3. Fresh(seeds)'
    BY <1>2 DEF ServeGet, FreshInv, Fresh
  <2>4. QED
    BY <2>2, <2>3 DEF FreshInv
<1>3. CASE GetArrives
  <2>1. get \in Get /\ UNCHANGED <<seeds, answered>>
    BY <1>3 DEF GetArrives, DetailTypeOK
  <2>2. PICK named \in Named \cup {None} : Emit(named, options)
    <3>1. get.object # None => [id |-> get.id, object |-> get.object] \in Named
      BY <2>1 DEF Get, Named
    <3>2. QED
      BY <1>3, <3>1 DEF GetArrives
  <2>3. QED
    BY <2>1, <2>2, EmitFresh DEF DetailTypeOK
<1>4. CASE ServeSeeds \/ ServeMoreSeeds \/ \E disabled \in {"any", "no", "yes"} : OnEntitySeedQueryChange(disabled)
  BY <1>4, FreshRows
<1>5. ASSUME NEW p \in Panels, NEW id \in Ids, ServePanel(p, id) PROVE FreshInv'
  BY <1>5, FreshServes
<1>6. CASE OptionsArrive
  <2>1. Emit(shown, options') /\ UNCHANGED <<seeds, answered>> /\ shown \in Named \cup {None}
    BY <1>6 DEF OptionsArrive, DetailTypeOK
  <2>2. options' \in [Lists -> SUBSET Ids]
    BY DEF DetailTypeOK
  <2>3. QED
    BY <2>1, <2>2, EmitFresh
<1>7. CASE \/ OptionsFail \/ Cancel \/ Confirm \/ OnUpdate
           \/ \E target \in Offered :
                 \/ \E kind \in {"edit", "clone", "createSeed"} : OnCreateConfigWithDialog(kind, target)
                 \/ \E kind \in {"delete", "run", "move"} : OpenDialog(kind, target)
           \/ \E c \in calls : Execute(c) \/ ExecuteFails(c) \/ AnswerUnheard(c)
           \/ UNCHANGED allVars
  <2>1. UNCHANGED <<get, contexts, loading, answered, seeds>>
    BY <1>7 DEF OptionsFail, Cancel, Confirm, OnUpdate, OnCreateConfigWithDialog, OpenDialog,
                Execute, ExecuteFails, AnswerUnheard, allVars, detailVars
  <2>2. QED
    BY <2>1, FreshKept
<1>8. ASSUME NEW c \in calls, AnswerUpdate(c) \/ SaveShown(c) PROVE FreshInv'
  <2>1. Emit(c.result, options) /\ UNCHANGED <<seeds, answered>>
    BY <1>8 DEF AnswerUpdate, SaveShown
  <2>2. c.result \in Named \cup {None}
    BY DEF DetailTypeOK, Call
  <2>3. QED
    BY <2>1, <2>2, EmitFresh DEF DetailTypeOK
<1>9. ASSUME NEW c \in calls, AnswerRelated(c) PROVE FreshInv'
  <2>1. page.id \in Ids /\ Load(page)
    BY <1>9, AnswerLoads
  <2>2. QED
    BY <2>1, LoadFresh
<1>10. ASSUME NEW c \in calls, AnswerSave(c) \/ AnswerDelete(c) \/ AnswerRun(c), ~SaveShown(c) PROVE FreshInv'
  <2>1. PICK target : Address(target) /\ Redirect(target, calls \ {c})
    BY <1>10, SaveFacts, MovingAnswers
  <2>2. answered' = answered
    BY <1>10 DEF AnswerSave, AnswerDelete, AnswerRun
  <2>3. PICK d : FollowPage(d, calls \ {c})
    BY <2>1 DEF Redirect
  <2>4. QED
    BY <2>2, <2>3, FreshFollows
<1>11. QED
  BY <1>1, <1>2, <1>3, <1>4, <1>5, <1>6, <1>7, <1>8, <1>9, <1>10 DEF DetailNext, Answer

\* Nothing that the rows depend on changes, unless a call fails.
LEMMA SeedsKept ==
    ASSUME SeedsInv, UNCHANGED <<roles, ability, page, seeds, seedLoad, offset, entitySeedDisabled, store, answered>>,
           failed' \in {failed, TRUE}
    PROVE  SeedsInv'
BY DEF SeedsInv, EntitySeedQuery, Shows, SeedsOf, Exists, CardIds

\* The rows are loaded anew.
LEMMA SeedsLoad == ASSUME Load(page'), ability' = ability PROVE SeedsInv'
BY DEF Load, SeedsInv, EntitySeedQuery, Shows

\* The component follows the router.
LEMMA SeedsFollows ==
    ASSUME PageInv, SessionInv', PageMoves, SeedsInv, NEW d, NEW cs, FollowPage(d, cs),
           UNCHANGED <<store, answered, failed>>
    PROVE  SeedsInv'
<1>1. Stays(d, cs) \/ Arrives(d, cs) \/ Leaves(d, cs)
  BY FollowCases DEF PageInv
<1>2. CASE IsLoggedIn(roles)' /\ Shows(page)'
  <2>1. page' # Nowhere
    BY <1>2, PlainAddresses DEF Shows
  <2>2. roles' = roles /\ ability' = ability /\ app' = "running"
    BY <1>2, <2>1 DEF PageMoves, SessionInv, IsLoggedIn
  <2>3. CASE Stays(d, cs)
    BY <2>2, <2>3, SeedsKept DEF Stays
  <2>4. CASE Arrives(d, cs)
    BY <2>2, <2>4, SeedsLoad DEF Arrives
  <2>5. CASE Leaves(d, cs)
    BY <1>2, <2>2, <2>5 DEF Leaves, Shows
  <2>6. QED
    BY <1>1, <2>3, <2>4, <2>5
<1>3. CASE ~(IsLoggedIn(roles)' /\ Shows(page)')
  BY <1>3 DEF SeedsInv, EntitySeedQuery
<1>4. QED
  BY <1>2, <1>3

\* The server executes an operation: what it writes is newer than any answer.
LEMMA SeedsExecutes ==
    ASSUME PageInv, VersionInv, SeedsInv, NEW c \in calls, Execute(c) \/ ExecuteFails(c) PROVE SeedsInv'
<1> USE DEF PageInv
<1>1. /\ UNCHANGED <<roles, ability, page, seeds, seedLoad, offset, entitySeedDisabled, answered>>
      /\ failed' \in {failed, TRUE}
  BY ExecuteFacts DEF sessionVars, detailVars
<1>2. PICK id \in Ids, o \in Object :
         /\ o.version = clock + 1
         /\ store' \in {store, [store EXCEPT ![id] = o], [store EXCEPT ![id] = None]}
  BY ExecuteFacts
<1>3. CASE store' = store
  BY <1>1, <1>3, SeedsKept
<1>4. CASE store' \in {[store EXCEPT ![id] = o], [store EXCEPT ![id] = None]}
  <2>1. store'[id] \in {o, None} /\ \A i \in Ids \ {id} : store'[i] = store[i]
    BY <1>4 DEF DetailTypeOK
  <2>2. ASSUME NEW s \in SeedsOf(page.id)', s.object.version <= answered'[s.id]
        PROVE  s \in SeedsOf(page.id)
    <3>1. PICK i \in Ids : /\ s = [id |-> i, object |-> store'[i]] /\ KindOf[i] = "SEED"
                           /\ store'[i] # None /\ page'.id \in store'[i].refs
                           /\ entitySeedDisabled' \in {"any", store'[i].disabled}
      BY DEF SeedsOf, Exists
    <3>2. s.id = i /\ s.object = store'[i]
      BY <3>1
    <3>3. i # id
      <4>1. SUFFICES ASSUME i = id PROVE FALSE
        OBVIOUS
      <4>2. s.object.version = clock + 1
        BY <1>2, <2>1, <3>1, <3>2, <4>1
      <4>3. answered[id] <= clock /\ answered[id] \in Int /\ clock \in Int
        BY VersionTypes DEF VersionInv
      <4>4. QED
        BY <1>1, <2>2, <3>2, <4>1, <4>2, <4>3
    <3>4. store'[i] = store[i]
      BY <2>1, <3>3
    <3>5. QED
      BY <1>1, <3>1, <3>4 DEF SeedsOf, Exists
  <2>3. ASSUME ~failed', ~seedLoad', IsLoggedIn(roles)', EntitySeedQuery(page)', (offset < SeedPage)'
        PROVE  ~failed /\ ~seedLoad /\ IsLoggedIn(roles) /\ EntitySeedQuery(page) /\ offset < SeedPage
    <3>1. ~failed
      BY <1>1, <2>3
    <3>2. ~seedLoad
      BY <1>1, <2>3
    <3>3. IsLoggedIn(roles) /\ EntitySeedQuery(page)
      BY <1>1, <2>3 DEF EntitySeedQuery, Shows, IsLoggedIn
    <3>4. offset < SeedPage
      BY <1>1, <2>3
    <3>5. QED
      BY <3>1, <3>2, <3>3, <3>4
  <2>4. ASSUME ~failed', ~seedLoad', IsLoggedIn(roles)', EntitySeedQuery(page)', (offset < SeedPage)',
               NEW s \in SeedsOf(page.id)', s.object.version <= answered'[s.id]
        PROVE  s.id \in CardIds(seeds)
    BY <1>1, <2>2, <2>3, <2>4 DEF SeedsInv
  <2>5. CardIds(seeds)' = CardIds(seeds)
    BY <1>1 DEF CardIds
  <2>6. QED
    BY <2>4, <2>5 DEF SeedsInv
<1>5. QED
  BY <1>2, <1>3, <1>4

\* Every step of the dashboard.
LEMMA SeedsInvStep ==
    ASSUME SessionInv, SessionInv', PageInv, VersionInv, SeedsInv, [DetailNext]_allVars PROVE SeedsInv'
<1> USE DEF PageInv
<1>1. CASE OnSession
  <2>1. PageMoves
    BY <1>1, PlaceMovesOn DEF OnSession
  <2>2. PICK d, cs : FollowPage(d, cs)
    BY <1>1 DEF OnSession
  <2>3. QED
    BY <1>1, <2>1, <2>2, SeedsFollows DEF OnSession
<1>2. CASE ServeSeeds
  <2>1. UNCHANGED <<roles, ability, page, store, answered, entitySeedDisabled>>
    BY <1>2 DEF ServeSeeds, sessionVars
  <2>2. ASSUME NEW rows \in RowsFrom(0), seeds' = rows, offset' = Cardinality(rows), offset' < SeedPage
        PROVE  seeds' = SeedsOf(page.id)
    BY <2>2, RowFacts
  <2>3. CASE seeds' = SeedsOf(page.id)
    BY <2>1, <2>3 DEF SeedsInv, SeedsOf, Exists, CardIds
  <2>4. CASE failed' = TRUE \/ ~(offset' < SeedPage)
    BY <2>4 DEF SeedsInv
  <2>5. QED
    BY <1>2, <2>2, <2>3, <2>4 DEF ServeSeeds, Fails
<1>8. CASE ServeMoreSeeds
  <2>1. offset \in Nat /\ SeedPage \in Nat /\ offset >= SeedPage
    BY <1>8, ObjectsAssumption DEF ServeMoreSeeds, DetailTypeOK
  <2>2. \A rows \in RowsFrom(offset) : Cardinality(rows) \in Nat
    BY <2>1, RowFacts
  <2>3. ~(offset' < SeedPage)
    BY <1>8, <2>1, <2>2 DEF ServeMoreSeeds
  <2>4. QED
    BY <2>3 DEF SeedsInv
<1>9. CASE \E disabled \in {"any", "no", "yes"} : OnEntitySeedQueryChange(disabled)
  BY <1>9 DEF OnEntitySeedQueryChange, SeedsInv, EntitySeedQuery, Shows, sessionVars
<1>3. CASE \/ ServeGet \/ GetArrives \/ \E p \in Panels, id \in Ids : ServePanel(p, id)
           \/ \E target \in Offered :
                 \/ \E kind \in {"edit", "clone", "createSeed"} : OnCreateConfigWithDialog(kind, target)
                 \/ \E kind \in {"delete", "run", "move"} : OpenDialog(kind, target)
           \/ OptionsArrive \/ OptionsFail \/ Cancel \/ Confirm \/ OnUpdate
           \/ \E c \in calls : AnswerUnheard(c) \/ AnswerUpdate(c) \/ SaveShown(c)
           \/ UNCHANGED allVars
  <2>1. /\ UNCHANGED <<roles, ability, page, seeds, seedLoad, offset, entitySeedDisabled, store, answered>>
        /\ failed' \in {failed, TRUE}
    BY <1>3 DEF ServeGet, GetArrives, ServePanel, OnCreateConfigWithDialog, OpenDialog, OptionsArrive, OptionsFail,
                Cancel, Confirm, OnUpdate, AnswerUnheard, AnswerUpdate, SaveShown, Serves, Fails, allVars,
                sessionVars, detailVars
  <2>2. QED
    BY <2>1, SeedsKept
<1>4. ASSUME NEW c \in calls, Execute(c) \/ ExecuteFails(c) PROVE SeedsInv'
  BY <1>4, SeedsExecutes
<1>5. ASSUME NEW c \in calls, AnswerRelated(c) PROVE SeedsInv'
  <2>1. Load(page) /\ page' = page /\ ability' = ability
    BY <1>5, AnswerLoads DEF AnswerRelated, sessionVars
  <2>2. QED
    BY <2>1 DEF Load, SeedsInv, EntitySeedQuery, Shows
<1>6. ASSUME NEW c \in calls, AnswerSave(c) \/ AnswerDelete(c) \/ AnswerRun(c), ~SaveShown(c) PROVE SeedsInv'
  <2>1. PICK target : Address(target) /\ Redirect(target, calls \ {c})
    BY <1>6, SaveFacts, MovingAnswers
  <2>2. UNCHANGED <<store, sent, clock, answered, failed>>
    BY <1>6 DEF AnswerSave, AnswerDelete, AnswerRun
  <2>3. PageMoves
    BY <2>1, <2>2, PageRedirects
  <2>4. PICK d : FollowPage(d, calls \ {c})
    BY <2>1 DEF Redirect
  <2>5. QED
    BY <2>2, <2>3, <2>4, SeedsFollows
<1>7. QED
  BY <1>1, <1>2, <1>3, <1>4, <1>5, <1>6, <1>8, <1>9 DEF DetailNext, Answer

\* How old the cards and rows may be.
AgeInv == VersionInv /\ FreshInv /\ SeedsInv

\* At first nothing has been changed or shown.
LEMMA AgeInvInit == DetailInit => AgeInv
<1> SUFFICES ASSUME DetailInit PROVE AgeInv
  OBVIOUS
<1>1. \A id \in Ids : Exists(id) => store[id].version = 0
  BY DEF DetailInit, Exists
<1>2. VersionInv
  BY <1>1 DEF DetailInit, VersionInv
<1>3. FreshInv
  BY DEF DetailInit, FreshInv, Fresh, Current
<1>4. SeedsInv
  BY PlainAddresses DEF DetailInit, SessionInit, SeedsInv, EntitySeedQuery
<1>5. QED
  BY <1>2, <1>3, <1>4 DEF AgeInv

\* The invariant of the cards and rows.
THEOREM AgeInvHolds == DetailSpec => []AgeInv
<1>1. SessionInv /\ SessionInv' /\ PageInv /\ PageInv' /\ AgeInv /\ [DetailNext]_allVars => AgeInv'
  BY VersionInvStep, FreshInvStep, SeedsInvStep DEF AgeInv
<1>2. QED
  BY <1>1, AgeInvInit, SessionInvHolds, PageInvHolds, PTL DEF DetailSpec

\* Operations are sent, executed and answered in any order while the user goes on: once all loads have ended no
\* card and no row shows an object as it was before an operation that the page was told of.  Unless a call has
\* failed or a full page of rows has come, no seed is missing that such an operation gave the entity and that has
\* the status of the filter.  For all objects, pages of any size and any number of operations.
THEOREM ContextsAreCurrent == DetailSpec => []ContextIsCurrent
<1>1. PageInv /\ AgeInv => ContextIsCurrent
  <2> SUFFICES ASSUME PageInv, AgeInv, Settled PROVE
        /\ \A c \in contexts["related"] \cup contexts["annotations"] \cup seeds :
              c.object # None => c.object.version >= answered[c.id]
        /\ ~failed /\ IsLoggedIn(roles) /\ EntitySeedQuery(page) /\ offset < SeedPage =>
              \A s \in SeedsOf(page.id) :
                  s.object.version <= answered[s.id] => s.id \in {row.id : row \in seeds}
    BY DEF ContextIsCurrent
  <2>1. get = None /\ ~seedLoad /\ \A p \in Panels : loading[p] = None
    BY DEF Settled
  <2>2. "related" \in Panels /\ "annotations" \in Panels
    BY DEF Panels
  <2>3. Fresh(contexts["related"]) /\ Fresh(contexts["annotations"]) /\ Fresh(seeds)
    BY <2>1, <2>2 DEF AgeInv, FreshInv, Current
  <2>4. \A c \in contexts["related"] \cup contexts["annotations"] \cup seeds :
           c.object # None => c.object.version >= answered[c.id]
    BY <2>3 DEF Fresh
  <2>5. ~failed /\ IsLoggedIn(roles) /\ EntitySeedQuery(page) /\ offset < SeedPage =>
           \A s \in SeedsOf(page.id) :
               s.object.version <= answered[s.id] => s.id \in {row.id : row \in seeds}
    BY <2>1 DEF AgeInv, SeedsInv, CardIds
  <2>6. QED
    BY <2>4, <2>5
<1>2. QED
  BY <1>1, PageInvHolds, AgeInvHolds, PTL
=============================================================================
