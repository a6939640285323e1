------------------------------- MODULE Session -------------------------------
(***************************************************************************)
(* dashboard: core/auth, app.config.ts, features/app and the routes.  A    *)
(* user starts the dashboard, signs in at the identity provider, moves     *)
(* between its pages and signs out.  The roles that the server gives the   *)
(* user become an ability, and the guard of a route asks the ability       *)
(* whether the page may be entered; the menus ask it which pages to offer. *)
(*                                                                         *)
(* The router runs a guard only when its route is newly activated or its   *)
(* own parameters change, and a later navigation cancels an earlier one    *)
(* that has not ended yet.                                                 *)
(***************************************************************************)
EXTENDS Integers, FiniteSets

CONSTANTS UserRoles,  \* the sets of roles that the users have
          Pages,      \* the pages that the user may ask for
          MaxMoves,   \* bound: requests of the user for a page
          None

Anonymous == {"ANY"}
Roles == {"ANY", "ANY_USER", "ADMIN", "CURATOR", "READONLY", "CONSULTANT", "OPERATOR"}
Kinds ==
    {"CRAWLENTITY", "SEED", "CRAWLJOB", "CRAWLCONFIG", "CRAWLSCHEDULECONFIG", "BROWSERCONFIG",
     "POLITENESSCONFIG", "BROWSERSCRIPT", "CRAWLHOSTGROUPCONFIG", "ROLEMAPPING", "COLLECTION"}
Reports == {"jobexecution", "crawlexecution", "pagelog", "crawllog"}

\* A page lists the objects of its subject, or shows the one that id names.
Page(section, subject, id) == [section |-> section, subject |-> subject, id |-> id]
Nowhere == Page("nowhere", None, None)
Home == Page("home", None, None)
ListOf(subject) == Page(IF subject \in Kinds THEN "config" ELSE "report", subject, None)

ASSUME RolesAssumption == \A r \in UserRoles : r \subseteq Roles /\ r \ Anonymous # {}
ASSUME PagesAssumption == Nowhere \notin Pages /\ MaxMoves \in Nat

VARIABLES user,      \* the roles that the server knows of whoever is signed in
          roles,     \* the roles of AuthService
          ability,   \* the roles that the rules of the ability were made from
          app,       \* is the dashboard starting, running, failed, closed, or at the provider?
          page,      \* the page that is shown
          moving,    \* the page of a navigation that has passed the guards
          requested, \* the page to come back to after signing in
          moves

sessionVars == <<user, roles, ability, app, page, moving, requested, moves>>

-----------------------------------------------------------------------------
\* updateAbility: the rules of each role.

OperatorConfigs == Kinds \ {"ROLEMAPPING"}
CuratorConfigs == {"CRAWLENTITY", "SEED", "COLLECTION", "CRAWLJOB", "CRAWLCONFIG", "CRAWLSCHEDULECONFIG"}
ConsultantConfigs == {"CRAWLENTITY", "SEED"}

Reading == {"home", "crawlerStatus", "configs", "report"} \cup Reports
Running == ({"runCrawl"} \X {"SEED", "CRAWLJOB"}) \cup ({"abort"} \X {"jobexecution", "crawlexecution"})
Annotating == ({"read", "update"} \X {"annotation"}) \cup {<<"read", "scheduleOverview">>}

Rules ==
    [role \in Roles |->
    CASE role = "OPERATOR" ->
           ({"read"} \X Reading) \cup {<<"update", "crawlerStatus">>} \cup Annotating \cup Running
           \cup ({"create", "read", "update", "updateAll"} \X OperatorConfigs)
      [] role = "CURATOR" ->
           ({"read"} \X Reading) \cup Annotating \cup Running
           \cup ({"create", "read", "update", "updateAll"} \X CuratorConfigs)
      [] role = "CONSULTANT" ->
           ({"read"} \X Reading) \cup ({"create", "read", "update"} \X ConsultantConfigs)
      [] role = "ANY_USER" -> {<<"read", "home">>}
      [] OTHER -> {}]

Can(able, action, subject) ==
    "ADMIN" \in able \/ \E role \in able : <<action, subject>> \in Rules[role]

IsLoggedIn(rs) == rs \ Anonymous # {}

-----------------------------------------------------------------------------
\* The guards on the way to a page, and the menus.

ConfigGuards(target) == {"configs"} \cup ({target.subject} \ {None})

\* The page of one report has no guard of its own.
ReportGuards(target) == {"report"} \cup (IF target.id = None THEN {target.subject} \ {None} ELSE {})

Guards(target) ==
    CASE target.section = "config" -> ConfigGuards(target)
      [] target.section = "report" -> ReportGuards(target)
      [] OTHER -> {}

VerdictMutant(from, target, able) ==
    LET run == Guards(target) \ Guards(from)
    IN  IF run # {} /\ ~IsLoggedIn(able) THEN "login"
        ELSE IF \A s \in run \ Kinds : Can(able, "read", s) THEN "enter" ELSE "refuse"

\* canActivate, for every guard that the router runs.
Verdict(from, target, able) ==
    LET run == Guards(target) \ Guards(from)
    IN  IF run # {} /\ ~IsLoggedIn(able) THEN "login"
        ELSE IF \A s \in run : Can(able, "read", s) THEN "enter" ELSE "refuse"

PrimaryDestinations(able) ==
    {Home} \cup (IF Can(able, "read", "configs") THEN {Page("config", None, None)} ELSE {})
           \cup (IF Can(able, "read", "report") THEN {Page("report", None, None)} ELSE {})

ConfigDestinations(able) == {ListOf(k) : k \in {k \in Kinds : Can(able, "read", k)}}

ReportDestinations(able) == {ListOf(r) : r \in {r \in Reports : Can(able, "read", r)}}

RailDestinationsMutant(able) ==
    {Home} \cup {ListOf(s) : s \in {"CRAWLENTITY", "SEED", "CRAWLJOB", "jobexecution", "crawlexecution"}}

RailDestinations(able) ==
    {Home} \cup
    {ListOf(s) : s \in {s \in {"CRAWLENTITY", "SEED", "CRAWLJOB"} :
                           Can(able, "read", "configs") /\ Can(able, "read", s)}} \cup
    {ListOf(s) : s \in {s \in {"jobexecution", "crawlexecution"} :
                           Can(able, "read", "report") /\ Can(able, "read", s)}}

\* The menus are not shown to somebody who is signed out.
Menu ==
    IF app # "running" \/ ~IsLoggedIn(roles) THEN {}
    ELSE PrimaryDestinations(ability) \cup ConfigDestinations(ability)
         \cup ReportDestinations(ability) \cup RailDestinations(ability)

-----------------------------------------------------------------------------
SessionInit ==
    /\ user \in UserRoles \cup {Anonymous}
    /\ roles = Anonymous /\ ability = {}
    /\ app = "starting" /\ page = Nowhere
    /\ moving \in Pages
    /\ requested = None /\ moves = 0

\* A navigation starts, and the one that is under way is given up.
Navigate(target) ==
    LET verdict == Verdict(page, target, ability)
    IN  /\ app' = IF verdict = "login" THEN "away" ELSE app
        /\ requested' = IF verdict = "login" THEN target ELSE requested
        /\ moving' = IF verdict = "enter" THEN target ELSE None

\* initializeApp, then the first navigation: to the address, or to the page asked for before login.
Start ==
    /\ app = "starting"
    /\ roles' = user /\ ability' = user
    /\ LET back == IsLoggedIn(user) /\ requested # None
           target == IF back THEN requested ELSE moving
           verdict == Verdict(Nowhere, target, user)
       IN  /\ app' = IF verdict = "login" THEN "away" ELSE "running"
           /\ requested' = IF verdict = "login" THEN target ELSE None
           /\ moving' = IF verdict = "enter" THEN target ELSE None
    /\ UNCHANGED <<user, page, moves>>

StartFails ==
    /\ app = "starting"
    /\ app' = "failed" /\ moving' = None
    /\ UNCHANGED <<user, roles, ability, page, requested, moves>>

\* The resolvers are done: the page of the navigation is activated.
Activate ==
    /\ app = "running" /\ moving # None
    /\ page' = moving /\ moving' = None
    /\ UNCHANGED <<user, roles, ability, app, requested, moves>>

Ask == moves < MaxMoves /\ moves' = moves + 1

\* A link, a menu, or a step in the browser's history.
Follow(target) ==
    /\ app = "running" /\ target # page /\ Ask
    /\ Navigate(target)
    /\ UNCHANGED <<user, roles, ability, page>>

\* The address is typed in, or the page loaded again: the program starts from nothing.
Open(target) ==
    /\ app \in {"running", "failed", "closed"} /\ Ask
    /\ app' = "starting" /\ page' = Nowhere /\ moving' = target /\ requested' = None
    /\ roles' = Anonymous /\ ability' = {}
    /\ UNCHANGED user

OnLogin ==
    /\ app = "running" /\ ~IsLoggedIn(roles) /\ Ask
    /\ app' = "away" /\ requested' = None /\ moving' = None
    /\ UNCHANGED <<user, roles, ability, page>>

OnLogout ==
    /\ app = "running" /\ IsLoggedIn(roles) /\ Ask
    /\ user' = Anonymous /\ roles' = Anonymous /\ ability' = Anonymous
    /\ moving' = Home
    /\ UNCHANGED <<app, page, requested>>

\* The identity provider sends the browser back, with a token or without.
ComeBack ==
    /\ app = "away"
    /\ user' \in UserRoles \cup {Anonymous}
    /\ app' = "starting" /\ page' = Nowhere /\ moving' = Home
    /\ roles' = Anonymous /\ ability' = {}
    /\ UNCHANGED <<requested, moves>>

TokenExpires ==
    /\ app = "running" /\ user # Anonymous
    /\ user' = Anonymous
    /\ UNCHANGED <<roles, ability, app, page, moving, requested, moves>>

SessionStep ==
    \/ Start \/ StartFails \/ Activate \/ OnLogin \/ OnLogout \/ ComeBack \/ TokenExpires
    \/ \E target \in Pages : Follow(target) \/ Open(target)

-----------------------------------------------------------------------------
\* PagePermitted: whoever is signed in and sees a page may read what every route on the way to it is
\* about, although the guards run only for the routes that change (GuardService.canActivate).
PagePermitted ==
    app = "running" /\ IsLoggedIn(roles) => \A s \in Guards(page) : Can(roles, "read", s)

\* MenuIsPermitted: the guards let the user into every page that a menu or the rail offers, and all
\* of it is decided by the roles of AuthService as they are now (canNavigate, visibleDestinations).
MenuIsPermitted ==
    \A target \in Menu : Verdict(Nowhere, target, roles) = "enter"

=============================================================================
