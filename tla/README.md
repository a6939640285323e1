# A TLA+ model of the Veidemann frontier and dashboard

Veidemann is a web harvester. Two of its parts carry most of the logic that is the program's
own, and this directory specifies both, checks the specifications with TLC and proves theorems
about them with TLAPS.

The *frontier* decides which URI is fetched next, from which host, by which harvester, and what
becomes of a URI whose fetch fails. Its state is spread over Redis (queues of crawl host groups,
queues of URIs, counters, sessions) and RethinkDB (documents of queued URIs, executions, jobs);
six prefetch threads, any number of harvester streams, a timeout worker, a reconciler and a
separate Go process work on it at the same time, with no lock but the atomicity of one Redis
script or one database write.

The *dashboard* is the web application in which curators edit the configuration of the harvester
and follow its crawls. It has one thread, but everything it shows comes from streams and calls
that are answered in any order, fail, or come after the user has moved on; lists, selections,
counts, cards and forms are copies of the server's objects that have to be kept in step.

## Inventory

### The parts of the system

| part | state | operations | talks to |
|---|---|---|---|
| frontier: prefetch buffer (`TimeoutSupplier`) | bounded queue, a `done` flag and a timer per element, paused/running | producer loop, `get`, `claim`, `expire`, `pause`, `close` | prefetch threads, harvesters |
| frontier: crawl host groups and URI queue (`CrawlQueueManager`, Lua scripts) | Redis: wait, ready, busy and timeout queues, a hash per group (count, current URI, token), session map, queue and weights of each group and execution, REMURI | add, take, lease, grant, refresh, release, remove, move, update, clean up | everything below |
| frontier: handlers (`PreFetchHandler`, `PostFetchHandler`, `PageCompletedHandler`, `UriWorkFinalizer`, `Preconditions`) | a copy of the document and of the group, an outcome | preconditions, harvest specification, end of a fetch, finalization | DNS, robots, scope and log services, database |
| frontier: reconciler (`CrawlExecutionReconciler`) | finalize sets in Redis, change feed of abort requests | clean the queue, end the execution, repair a job | queue manager, status |
| frontier: execution and job status (`StatusWrapper`, `jobexecution_update.lua`) | documents of executions and jobs, aggregate per job in Redis | merge changes, end states, finalize a job | reconciler, handlers |
| frontier: gRPC API (`Context`, `SimpleConcurrencyLimitInterceptor`, servers) | active observers, permits, shutdown flag | start and end of calls, shutdown | harvesters, controller |
| frontier-queue-workers (Go) | none of its own | wait to ready, busy to timeout, delete documents of REMURI, time out executions, copy job statistics | Redis, RethinkDB |
| rethinkdbadapter | tables `uri_queue`, executions, jobs, configuration | conditional and soft writes | RethinkDB |
| controller | schedules, configuration, roles | start and abort jobs, edit configuration | frontier, RethinkDB |
| browser-controller, recorderproxy, contentwriter | browser sessions, request registry, open WARC records | fetch a page, record its resources, write them | frontier, dns-resolver, log-service |
| dns-resolver, robots-evaluator, scopeservice, ooshandler, log-service, cache, metrics | caches, log tables | answer or record | their clients |
| dashboard: list data source (`list-datasource.ts`) | query, generation, ranges, loads under way, accumulated rows, loading flags, filter and order | set a query, load more, go to a page, reload, refresh in place, filter, sort | API services, list components |
| dashboard: configuration list page (`configurations.component.ts`, `config-list*.ts`) | check boxes, database-wide choice, the container's copies of both, count, open dialog, operations under way | select, search, go back and forth, create, edit, delete, update several or all, run | list data source, `ConfigService` |
| dashboard: configuration forms (`features/config/components`, `shared/models/config`) | the controls of a form, what is enabled, touched and invalid, chips being typed | open, edit, revert, save, bulk update with a template and a mask | configuration list page and page |
| dashboard: report pages (`features/report`) | a list, queue counts, filters, the execution that is open or watched, aborts | query, scroll, refresh, filter, open, watch, abort | list data source, report and controller services |
| dashboard: session and navigation (`core/auth`, `features/app`, routes) | token, roles, ability, the page and the navigation under way | start, sign in, sign out, navigate, guards, menus | identity provider, controller |
| dashboard: configuration page (`containers/configuration`) | the object, cards of related objects, annotations, seeds of an entity, options, dialog, operations under way | load, edit, save, delete, clone, move seeds, run | session, `ConfigService`, `OptionsService` |
| dashboard: home page, event logs, generated clients | – | display, pause the crawler | – |
| ctl, api, java-api, commons, deploy, tools | – | command line, generated code, shared classes, deployment | – |

A crawl host group goes round: an added URI puts it in `wait`; the queue workers move it to
`ready` when its time has come; a prefetch thread pops it, makes it `busy`, leases the first
URI of one of its queues and checks DNS and robots; the handler waits in the prefetch buffer
until a harvester claims it and gets a session token; the harvester reports on a stream; the
URI is completed, retried or moved, and the group is released to `wait`, or deleted when its
count is zero. A group that is busy for too long goes to `timeout` and the timeout worker
finishes it in the harvester's place.

### What is hard, and what correctness means

* Two parties settle one thing: a harvester and a timer an element of the buffer, a late
  harvester and the timeout worker a URI, two releases one group. Correct: exactly one wins,
  and the loser notices (`SettledOnce`, `ExclusiveOwnership`, `SessionHoldsGroup`).
* Every operation on a URI is several steps on two stores. Correct: whatever comes between
  them, the URI has one queue member, the count is right, the lease names a member that
  exists (`UriQueuedOnce`, `CountMatchesQueue`, `LeaseIsQueued`).
* A group is taken from one queue before it is put in the next. Correct: it is never in two
  places and never in none (`GroupInOnePlace`, `NoGroupLost`).
* Cleanup of an execution deletes what others are working on. Correct: whoever comes late does not
  put back what it has removed (`RemovedStaysRemoved`).
* Something must come: a settlement of every prefetched element, a turn for every URI
  (`EveryElementSettled`, `EveryUriLeavesQueue`).
* Answers come late: rows of a query that has been replaced, counts of rows that are gone, cards
  of an object that is no longer shown, updates of an execution that has been aborted. Correct: an
  answer that comes late is dropped or corrected (`RowsOfQuery`, `UniqueRows`,
  `CountsAreOfActiveRows`, `AbortedIsNotRunning`, `ContextAgrees`, `ContextIsCurrent`).
* The same fact is kept in several places of a page: check boxes in the list and in the container,
  rows and their count, a token and the rules made from its roles. Correct: they agree whenever
  something depends on it (`SelectionAgrees`, `TotalIsRight`, `PagePermitted`, `MenuIsPermitted`).
* A user's action covers more than is visible: a bulk update is sent for a selection, or for a
  query, and a form sends an object of which it shows a part. Correct: what was not chosen and not
  touched stays as it was (`OnlyChosenAreChanged`, `UntouchedFieldsAreKept`, `TouchedFieldsAreSet`,
  `PristineFormShowsConfig`).
* Loading flags are set by one stream and cleared by another's end. Correct: whatever is loading
  ends (`LoadingEnds`, `ScrollLoadsAll`).
* Not yet covered: the counts that decide when an execution is finished, the merging of
  status changes, the single finalization of a job, shutdown of the frontier.

The `hazards` of `PROJECT.json` list the places in the code one by one.

## Modules

| module | models |
|---|---|
| `Handoff` | what the prefetch buffer promises: an item offered is delivered or timed out, once |
| `TimeoutSupplier` | `TimeoutSupplier.java`, thread by thread |
| `MCTimeoutSupplier` | its instance for TLC |
| `TimeoutSupplierProofs` | its theorems |
| `CrawlHostGroups` | the life of groups and queued URIs across Redis, RethinkDB, the frontier's threads and the queue workers |
| `MCCrawlHostGroups` | its instance for TLC |
| `CrawlHostGroupsProofs` | its theorems about types and queue members, under every fault, and about who works on what |
| `CrawlHostGroupsQueues` | its theorems about counts, leases and lost groups: extends the above |
| `ListDataSource` | `ListDataSource` of the dashboard and the server's streams of rows |
| `ListDataSourceProofs` | its theorem, and the lemmas the pages share |
| `ConfigurationsPage` | the page that lists configuration objects: extends `ListDataSource` |
| `ConfigurationsPageProofs` | its theorems: extends `ListDataSourceProofs` |
| `Reports` | the report pages: extends `ListDataSource` |
| `ReportsProofs` | its theorems: extends `ListDataSourceProofs` |
| `ConfigObjects` | the fields of each kind of configuration object, clone, merge and conversion |
| `ConfigInputs` | the controls that convert: durations, sizes, dates, selectors, chips |
| `ConfigForms` | details forms, dialogs and bulk dialogs: extends the two above |
| `ConfigFormsProofs` | its theorems, and those about tables, inputs, merging and masks |
| `Session` | sign-in, roles and abilities, guards, menus |
| `ConfigurationDetail` | the page of one configuration object: extends `Session` |
| `ConfigurationDetailProofs` | the theorems of both: permissions, and what the page of an object shows |
| `MCConfigurationsPage`, `MCReports`, `MCConfigForms`, `MCConfigurationDetail` | their instances for TLC |

A definition named `...Mutant` is a faulty variant of the definition that follows it; no
specification uses it. Each property has one that violates it (`mutants` in `PROJECT.json`).

### TimeoutSupplier

One action per step that other threads can see: the loop head with the condition variable
(`AwaitUnpausedOrStopped`), the call of the supplier (`SupplyNothing`, `Supply`), the blocking
put (`Put`), interruption (`Interrupted`); `Poll` and `Claim` of `get`; `MarkExpired` and
`HandleExpired` of the timer thread; `Pause`, `Unpause`; and `close` in six steps. The
compare-and-set on `done` is one step, what follows it another, so claim, expiry and drain
interleave as the atomics allow. Deadlines are nondeterministic: a timer may fire as soon as
it is scheduled. `fate` records, per element, every settlement there was; it is what the
properties and the refinement look at. The refinement mapping `ItemOf` reads it.

### CrawlHostGroups

Every Lua script is one step, every database write is one, and each step of a thread between
two of them is free to interleave with every other thread. The state of Redis is the first
twelve variables, in the names of the scripts' fields; `docChg`, `retries`, `fetchTime` and
`unresolved` are the documents, `disk` is what RethinkDB would still have of them after a restart;
`pc`, `chg`, `tok`, `lease`, `tgt`, `mem`, `time`, `dns`, `old`, `out` and `late` are the local
variables of the prefetch threads, of the completion streams (one per session token) and of
the timeout worker.

* A queue member of the code is a string of sequence number, earliest fetch time and URI id in
  the sorted set of a group and an execution. Here it is `<<group, uri, time>>`; the time is zero
  for a URI that has not been retried, and a retry is put off to any later one (`Later`), because
  the delay is a second at least. The lease rebuilt by `QueueLease.from` is computed from the
  document in the same way, which is what makes a stale lease visible.
* `FetchFailure` is `ErrorHandler.fetchFailure` when all goes well: the retries are counted, then
  compared with the limit. `FetchFailureFails` is its path through a failing database: the
  retries have been counted when the limit cannot be read (or the log not be written), the callers
  catch the exception and finish with the outcome that was there before, and the document is saved
  with the new count, its old fetch time and no `uri_update`. So the limit bounds the counts of
  documents only while no database call throws (`Counts`).
* A document is replaced as a whole by `Save`. All such writes are soft: `Flush` puts a document
  on disk at any time, and `LoseWrite`, the fault `docLost`, puts back what the disk has, an older
  version or none. A database call that throws is taken to have had no effect.
* A group's hash exists when one of its fields does (`HashExists`): `chg_add.lua` puts a group
  in `wait` only when its hash is new, `HSET` and `HINCRBY` create it.
* The politeness delays and the earliest fetch time of a retry are nondeterministic waiting.
  The busy timeout is bounded from below by `WithinTimeout`: a prefetch thread needs less than
  the ten minutes of `busyTimeout`, post-processing less than the minute it asks for, unless
  the faults `stall` and `slowPost` are on. Harvesters may take any time.
* Answers of DNS, robots and scope services, and the groups a URI may belong to, are
  nondeterministic choices. Statistics, logging, outlink scoping and tracing are left out;
  an outlink is a URI that somebody adds at some time. A harvester sends nothing after it has
  reported an error.
* `UriAdd` and `ChgAdd` are the two scripts of `addToCrawlHostGroup`. `Save`, `UriUpdate` and
  `MoveLease` are the steps of a retry and of a move; `Release` is the `finally` of
  `UriWorkFinalizer.finish`.
* Redis itself does not fail. `Faults` says what else may: `crash` (the frontier stops between
  any two steps and starts again), `dbError` (any RethinkDB call throws), `streamError` (a
  completion stream breaks), `docLost` (RethinkDB restarts and has lost soft writes),
  `slowPost`, `stall`, `abort` and `terminal` (executions are aborted, or end, while URIs are
  queued). Each run names the faults it admits.

Bounds: `MaxRetries` is the configuration's own limit, `MaxCount` caps the retries that a failing
database lets a document count, and `MaxTime` the fetch times; session tokens are generated once
each, so the set `Tokens` bounds the number of fetches; each URI is added once.

### ListDataSource

A load is one stream: its generation, range, kind (initial, append, replacement), how many rows it
has received and the rows that are still to come, which are fixed when the server begins to
answer. `Serve`, a row, an error and the end are steps of their own, so a load can be given up
between any two of them, and a load that was given up may still deliver. What an event does
synchronously is one step: a row is upserted, the view published. `loads` are all streams that are
open, `activeLoad` the one whose subscription is kept. Rows remember the load and the query that
brought them; the code compares rows by identity, the properties use the query. The server's
objects have three states, of which a query lists all that exist or those that are off: enough
for a result that shrinks, grows and shifts under the ranges. Options of the class that no page of
the dashboard sets (a capacity for live queries, reloads that retain the rows) are left out, as is
`retry`: the API services catch every error before the data source sees one, and an error is an
early end of a stream.

### ConfigurationsPage

The list's `SelectionModel` and the container's copy, `selectLoadedRows` and the database-wide
choice are variables of their own, because the code keeps them apart and passes events. A row
that arrives, the view published for it and the list's subscription to it, which may extend the
selection, are one step. An operation is sent when its dialog is confirmed, executed by the server in a second step and answered in a third; the count follows
`switchMap`. `excess` collects objects that an operation changed without having been chosen when
its dialog was opened, chosen when it was confirmed, or part of a database-wide choice.
`uncounted` collects the operations that the page does not count for (`NotCounted`): a background
update, and an update in a list that is filtered by role, because `hasCountAffectingFilter` names
every filter but that one. The query `off` stands for the filters it names, `role` for the one it
does not. The preview pane and the columns are left out.

### ConfigObjects, ConfigInputs, ConfigForms

A kind is a table of fields; each field has a type, which says how a control shows it and how the
API message holds it, and a rule for merging it over several objects. A form is a record: the
object it was written from, the values, what is enabled, and for bulk dialogs the operation chosen
per list (add, remove, set). `touched` is not in the code: it is what the user means to change, kept
for the properties; a choice that is taken back, a field that is reverted or switched off is no
longer in it. `Prepare` is what the form reads out of its controls through `ConfigInputs`; details send the whole object, bulk dialogs a template and a mask of paths,
and `UpdateMulti` applies the mask as the controller does. The table of a kind names its controls,
the required ones, and the bulk dialog's fields with the way each gets into template and mask; the
dialogs that deviate from the common pattern do so in the table. A kind has three samples.
The values of the first two are shown exactly by their inputs: a duration with all units, a size
of whole hundredths of its unit, a date at either end of a day (where the browser's clock shows UTC). Those of the third are not: a
duration in milliseconds of an hour and more, a size between two hundredths of its unit, a date
within a day, a selector of three parts, a role mapping for an API key with a name, a description
and labels. Sizes have all units of the input, up to exabytes. `UtcOffset` is what the browser's
clock is ahead of UTC. Validation is reduced to the required fields and the identity of a role
mapping (one for an API key cannot be saved before an email address or a group is filled in);
pattern checks of single inputs are left out.

What a form does not keep is named by two operators, and no property says that it is kept:

* `Exact`, the values that an input shows exactly and reads back. A duration in milliseconds has no
  unit above the minute, so hours are lost when its form is saved; a size is rounded to hundredths of
  its unit; of a date the day is left, and the end of a validity is stored as the end of a day in
  UTC but shown as a date of the browser's zone, so that each save in a browser ahead of UTC moves it
  by one day (`datetime.ts:29-36`); a selector of more than two parts loses the rest.
* `Erased`, the fields that are lost when an object is saved on its own, whatever was edited:
  `headers` and `scriptParameters` of a browser configuration, which its model does not convert
  (`browserconfig.model.ts:122-131`), and the API key, name, description, labels and annotations of a
  role mapping, of which `prepareSave` makes a new object (`rolemapping-details`).

A comment in `schedule-multi-dialog.component.ts:179` says "BUG in backend sets date to 1.1.1970 when
validFrom/validTo is empty". The backend of this repository does not:
`RethinkDbFieldMasksQueryBuilder` (205-216) replaces a field of the mask by the template's, and a
field that the template does not set by nothing. `ApplyMask` follows the backend, so
`TouchedFieldsAreSet` says of a validity that was removed that none is stored. If the comment is about
another backend, the property does not speak of that.

### Reports

The lists of job executions, crawl executions, crawl log and page log extend the data source with
the queue counts, the client-side filter of the crawl log, the order of columns and the sentinel of
endless scrolling. Queue counts are asked for in chunks of `MaxIdsPerRequest`, all of one load
together, and `switchMap` drops those of an earlier load. The page of an execution reads it,
follows the change feed while it is watched, and forgets the feed at the first ended state.
An abort can be asked for on both pages; its answer reloads whatever is still shown. The detail
pages of the logs, which only read, are left out.

### Session and ConfigurationDetail

`Session` has the roles three times: at the server, in `AuthService`, and in the ability made from
them. A navigation is decided by the guards of the routes that change (`Guards`, `Verdict`) and
arrives in a later step; another one may cancel it. Menus and the navigation rail compute what they
offer from the ability. Signing in leaves the dashboard and comes back to the requested page; a
token expires at any time. The router and the identity provider are modelled from how the code
uses them.

`ConfigurationDetail` adds the page of one object. An object is the number of the change that wrote
it last, the objects it refers to and whether it is disabled: that is all that cards, annotations and
lists of seeds are compared by. Each panel has the load under way and the latest complete context;
every new object and every new list of options starts the loads anew (`Emit`), so do the answers of
some operations (`Reloads`), and the calls of a load are answered one by one. The seeds of an entity
are a list of their own: filtered by status (`entitySeedDisabled`), one page of `SeedPage` rows after
a load (`LIST_PAGE_SIZE`, 100 in the code) and another whenever the user scrolls (`ServeMoreSeeds`).
The seeds have no order here: a page is any choice of them. What becomes of a page that is broken off
is `ListDataSource`'s matter. `ContextIsCurrent` claims of the seeds that a list whose last page is
loaded misses none that an answered operation gave to the entity and that passes the filter.
Operations are sent, executed and answered separately, from the page and from its cards, and go on
when the component is left, where the code does not bind them to its life. What others do to the
objects is left out: the user's own operations already race. `saveMultiple` is left out because an
object that is shown has an id and the form saves several seeds only without one.

## Runs

| run | instance | result |
|---|---|---|
| `supplier` | 3 elements, 2 producers, 2 consumers, 1 slot; fair timers | all six properties hold, 146 030 states |
| `groups_safety` | 2 groups, 2 URIs, 2 tokens, 2 prefetch threads; `dbError` | all six hold, 480 300 states |
| `groups_faults` | 2 groups, 1 URI, 2 tokens, 1 thread; `crash`, `docLost`, `streamError`, `abort`, `terminal` | both hold, 2 391 136 states |
| `groups_live` | 2 groups, 2 URIs, 2 tokens, 1 thread, fetch times up to 2; no faults, fair | all three hold, 504 499 states |
| `groups_double_release` | 2 groups, 2 URIs; `crash` | `ExclusiveOwnership` is violated |
| `configurations` | 2 objects, 3 queries, pages of 1 and scrolling, 3 loads, failing loads, 1 change by others, 1 operation | all five hold, 4 577 858 states |
| `configurations_role` | 2 objects, the query by role, 1 operation | `FilteredUpdatesAreRecounted` is violated |
| `configurations_bulk` | as `configurations`, without role, pages, history and changes; 2 operations | `OnlyChosenAreChanged` is violated |
| `forms` | 2 objects of each of the 11 kinds with samples 1 and 3, a browser ahead of UTC, 1 form, 2 edits, 1 change by others | all four hold, 946 049 states |
| `reports` | 4 lists of 2 objects, 4 loads, failing loads, 2 visits, 1 abort, 1 change by others; fair | all seven hold, 907 105 states |
| `list_scroll` | the list of crawl executions, 5 loads without errors; fair | `ScrollLoadsAll` is violated |
| `configuration` | an entity, two seeds, a seed to be created and a job, pages of 2 seeds; administrator or consultant; 2 operations, or 1 and a navigation | all five hold, 2 463 736 states |

Why the bounds are enough for the cases in question. `supplier`, `groups_*`: one slot and three
elements let a producer block in `put` while its timer fires, a consumer hold a polled element, and
`close` find one more in the queue. Two threads and two tokens put a late harvester beside a new
fetch of the same group; two groups are what a move needs; one retry takes a URI through every kind
of outcome before the limit refuses the next. `groups_faults` has one URI, because with five faults
two are too many states; its two properties speak of each URI alone, and the theorems
`UriIsQueuedOnce` and `RemovedUrisStayRemoved` say the same of any number of URIs under all faults.
No property that relates URIs is claimed of that run: with a crash, two URIs already
violate `ExclusiveOwnership` (`groups_double_release`).
Lists: two objects and ranges of one make a first page, a further page, a short page and an empty
one; three loads are a load, the load that replaces it and one whose rows shift by a deletion, and
a fourth lets the reports refresh during an append. `forms`: a behaviour edits one kind; two edits
are one field touched while another is left, a value changed back, or a list and its operation;
two objects are what merging and a selection need; a change by others comes between opening and
saving. `AllKinds` leaves out `politenessConfig` (below).
`configuration`: two operations put an answer between another's sending and answer; one operation
and a navigation take the component to another object while a call is under way; a token that
expires in between makes every later call fail; a third seed makes a second page of the entity's.
`Failures`, calls that fail with a valid token, is off to keep the run small: failed calls take the
same paths as those with an expired token.

Deadlock is not checked: a finite set of elements, URIs, tokens, loads and operations is used up,
and then the system rests.

Fairness. `supplier`: the timer thread of a scheduled executor runs its tasks; harvesters and
`close` may never come. `groups_live`: the queue workers and the timeout worker are timers,
prefetch threads loop, and a thread that has begun to finalize goes on (weak fairness). Strong fairness is assumed twice: a retried URI's time comes
(`NextUri`, because the fetch time lies in the past from some moment on), and some harvester
claims what is offered again and again (`Claim`, because harvesters poll). A harvester that
has got a page owes nothing; a stream it has opened ends. The instance may run out of tokens
(`TokensSpent`), which no real frontier does. That the cleanup of an abort comes to an end is not
claimed: the reconciler comes once a second and may find a group busy each time, and that it does
not is a matter of real time, not of fairness.
`reports` and `list_scroll` (`FairReportSpec`) assume weak fairness of what is not the user's: the
server answers, goes on and ends its streams (`OnStream`), and calls for counts and executions
(`CountStep`, `DetailCall`); Angular runs the effect that applies the chosen filters
(`ApplyClientFilters`); and the browser reports the sentinel while it stays in view (`OnScroll`).
The user owes nothing.

### What the violations show

* `groups_double_release`: when an interrupted move is repaired the group is released by the
  callee and again by the caller, with an empty token both times. Between the two another
  thread may have taken the group.
* `configurations_bulk`: a delete of the selected objects is under way when the dialog that updates
  the selection is opened. The answer of the delete reloads the list and clears the selection. The
  dialog, when it is confirmed, reads the selection anew, finds no ids, and `createUpdateRequest`
  takes an update without ids for one of the whole query (`config.service.ts:92`): every object of
  the latest search gets the new value. With one operation at a time the property holds.
* `configurations_role`: an update in a list of role mappings that is filtered by role takes objects
  out of the result, and the total stays. `hasCountAffectingFilter`
  (`configurations.component.ts:627-641`) asks for every filter but `role`, although the role is part of the
  query (`func/query.ts:79-94`) and of the request for the count (`config.service.ts:231-236`). The
  test says "Recounts an update when active filters can change the matching total"
  (`configurations.component.spec.ts:545`).
* `list_scroll`: a reload or a new query while a further page is being loaded breaks that
  load off; its `finalize` belongs to an older generation and returns before it clears
  `appendLoading`. From then on `loadMore` returns at once, and the list never gets longer.

### Deviations that can be reproduced

These configurations are not among the runs above; each makes TLC print a counterexample of one
property.

| configuration | module | property |
|---|---|---|
| `supplier_close.cfg` | `MCTimeoutSupplier` | `ClosedQueueIsDrained` |
| `groups_stream_error.cfg` | `MCCrawlHostGroups` | `NoGroupLost` |
| `groups_abort_other.cfg` | `MCCrawlHostGroups` | `ExclusiveOwnership` |
| `groups_update_crash.cfg` | `MCCrawlHostGroups` | `LeaseIsQueued` |
| `forms_all.cfg` | `MCConfigForms` | `UntouchedFieldsAreKept` |
| `configuration_late.cfg` | `MCConfigurationDetail` | `ShownIsOfAddress` |

* `supplier_close`: `close` drains the queue before it stops the producers, so an element can
  be put behind the drain; its timer is then cancelled by `shutdownNow`.
* `groups_stream_error`: after a broken stream the group is released as if it had timed out;
  `chg_release.lua` refuses that for a busy group. If the outcome was COMPLETE, the document
  is gone when the timeout comes, the timeout worker cannot construct its handler, and the
  group is in no queue although other URIs wait in it. A new URI does not help: the hash
  exists, so `chg_add.lua` does not put the group in `wait`.
* `groups_abort_other`: the cleanup of an aborted execution deletes a group that a prefetch
  thread has popped and not yet made busy. `chg_next.lua` then marks a group as busy that has
  no hash, and fails; a URI of another execution creates the hash anew and puts the group in
  `wait` as well. The group is in two queues, and when the busy entry expires the timeout
  worker works on the URI that a prefetch thread is granting.
* `groups_update_crash`: a crash between saving a retry and `uri_update` leaves a document
  whose fetch time is not that of its queue member; its completion removes nothing.
* `forms_all`: the bulk dialog for politeness configurations, used on everything in the database,
  always sends the robots policy, so an update of another field overwrites it in every object. The
  dialog says "Only changed settings will be applied. Values left untouched will be preserved."
  (`politenessconfig-multi-dialog.component.html:5`).
* `configuration_late`: an update is sent, the user goes to the page of another object, and the
  component is kept; the late answer puts the first object on the page of the second
  (`configuration.component.ts:530`), where a further save changes it. `configuration.component.spec.ts:108`
  says "loads immediately and reloads when the selected route changes".

More counterexamples are found by changing `Faults` in a configuration: `NoGroupLost`
with `dbError` (the timeout worker pops a group and its handler's constructor throws),
`ExclusiveOwnership` with `slowPost` (post-processing outlasts its extension), or with `docLost` in
`groups_double_release` (a move whose document is reverted is repaired), and `CountMatchesQueue`
with `crash` (between `uri_add` and `chg_add`; `docs/datamodel.md` says the counts are part of the
same Lua operation). A crash between BLPOP and `chg_next` also loses the group.

What else was met in the dashboard while modelling it, and is in the model as the code has it: the
role READONLY gets no rules at all, and the shortcut to the reports asks for a subject that
no rule names; after a failed update the configuration page is blank and says "Updated"; answers of
a delete or a run are not bound to the component's life and navigate or notify wherever the user is;
after signing out, links between objects of one kind run no guard (the calls then fail). What the
forms round off or erase is named above (`Exact`, `Erased`).

## Proofs

A theorem holds for every value of the constants that satisfies the named assumptions of the
modules; TLC evaluates those on every run. Each argument is an inductive invariant: what the
property alone does not say is added to it, until every step keeps the whole.

### The prefetch buffer (`TimeoutSupplierProofs`)

For every number of elements, producers, consumers and every capacity above zero,
`SupplierIsTyped`, `SupplierSettlesOnce`, `SupplierAccountsForDone`, `SupplierWakesProducers` and
`SupplierImplementsHandoff`. The inductive invariant `IInv` joins the types, `SettledOnce`,
`DoneIsAccountedFor` and two facts that neither follows from: whoever holds an element holds
one whose timer was scheduled (`SuppliedOnly`; without it a claim could settle an element the
abstract specification has not been offered), and a draining `close` holds an element
(`DrainedIsElement`). `SettledOnce` alone is not inductive: a claim needs to know that an
element whose flag is clear has not been settled, which is `DoneIsAccountedFor`. The
refinement shows that a step changes the abstract state of at most one element, and how.

### Groups and queues (`CrawlHostGroupsProofs`, `CrawlHostGroupsQueues`)

The theorems differ in the faults they allow, because the code does. Each states the faults as
its hypothesis on the constant `Faults`.

| theorem | property | faults |
|---|---|---|
| `UriIsQueuedOnce` | `UriQueuedOnce` | all |
| `RemovedUrisStayRemoved` | `RemovedStaysRemoved` | all |
| `GroupsAreTyped` | `TypeOK` | all |
| `OwnershipIsExclusive` | `ExclusiveOwnership` | `dbError`, `streamError` |
| `SessionsHoldTheirGroup` | `SessionHoldsGroup` | `dbError`, `streamError` |
| `GroupsHaveOnePlace` | `GroupInOnePlace` | `dbError`, `streamError` |
| `CountsMatchQueues` | `CountMatchesQueue` | `dbError`, `streamError` |
| `LeasesAreQueued` | `LeaseIsQueued` | `dbError` |
| `NoGroupIsLost` | `NoGroupLost` | none |

* `UriIsQueuedOnce`: retries, moves, repairs, cleanup and crashes leave a URI with at most one
  member. The invariant `QueuedInv` adds that a URI that has not been added has no member:
  adding is the one step that creates a member without removing one. The argument is that
  every other step keeps the members, removes some, or replaces a member by one of the same
  URI, and only when the old one is there.
* `RemovedUrisStayRemoved` comes from the same steps: where a URI has no member and is not about to
  be added, no step gives it one, neither a late retry or move nor the repair of a group.
* `GroupsAreTyped`: the types, with the retry limit in them as far as the code keeps it. The
  invariant `TypeInv` adds what a thread's place in the code says about its local variables: from a
  lease on, the lease is a member and the document in memory has a group, and a URI that is to be
  saved has a count that may be stored: below the limit, or below `MaxCount` with `dbError`.
* Ownership rests on one invariant, `OwnInv`. The queues of groups are disjoint, and a token is
  given to one group only (`GroupsInv`); the current URI of a group is queued nowhere else
  (`CurrentInv`); a prefetch thread at work has its group busy under its token and its lease in
  the queue of that group (`HandlerInv`), and no two of them have one group (`HandlersApart`); a
  completion stream and the worker hold the current URI of their group (`SessionInv`,
  `WorkerInv`); and a document agrees with the member of its URI except while an actor has
  written the one and not yet the other (`DocumentInv`). Two actors on one URI would then be two
  actors with one group.
* `CountsMatchQueues`: `MatchInv` counts members and pending `chg_add`s, `PositiveInv` says that
  a group that waits or is taken has a count above zero, so the decrement never meets a zero.
* `LeasesAreQueued`: nobody but the holder of a group takes URIs out of its queue, so the
  current URI of a busy group stays queued (`QueuedCurrent`).
* `NoGroupIsLost`: whoever took a group still has it (`HeldInv`) and every queued URI has its
  document (`DocumentedInv`), so no path ends before the group is released.

What is excluded really fails. After a `crash` the repair of a half-moved URI releases its group
twice, and a `chg_add` is lost; a lost write (`docLost`) reverts a document, so that the lease made
from it names no member, or a group looks like one to repair, with the same double release; a
thread that is slow (`stall`, `slowPost`) goes on without the group that has timed out; the cleanup
of an aborted or already finished execution (`abort`, `terminal`) takes the group away from the
thread that works on it. After a `streamError` a URI has been completed when the stream breaks and
the timeout worker finds it gone; with failing database calls the timeout worker drops a group.

`CleanupIfEmpty` states that the result of `SelectSeq` is a sequence of groups, which the provers
cannot derive.

### Lists (`ListDataSourceProofs`, `ReportsProofs`, `ConfigurationsPageProofs`)

`ListIsKeyed` is about the data source by itself, for any number of objects, queries, streams and
changes of the server. `RowsInv` is the generation argument: no stream is of a later generation
than the list, one of the current generation asks for the current query, and what a replacement has
collected is keyed like the rows; a stream of an older generation changes nothing but itself. The operators
`Result` and `Snapshot` are written with `Pick` (the n-th element of a set of indices) so that it
can be proved what they select; with `SelectSeq` it could not. `StreamAssumption` and
`NoneAssumption` say that `None` is neither a sequence nor a record, which a model value is not.

`ReportsProofs` extends this to the report pages (`ReportRowsAreUnique`, `ReportRowsAreOfQuery`,
`ReportTypesHold`) and proves

* `CountsFollowRows`: once no stream of the current generation is left, what is being counted, and
  what is shown as counted, is active (`CountInv`); that one load ends at a time needs streams to
  have different numbers (`NumberInv`);
* `AbortedStaysEnded`: when the user is told, the execution has ended at the server and the page
  loads again; neither the rows nor anything that may still become one, nor what the page of the
  execution is about to show, says that it is running (`ToldInv`);
* `WatchesToTheEnd`: an execution that is shown exists and stays, an empty answer is only had where
  none was shown, and a feed delivers the end at most (`DetailInv`).

`ConfigurationsPageProofs` proves, of the page that lists configuration objects, `PageTypesHold`,
`SelectionStaysAgreed`, `TotalStaysRight`, `RowsStayContiguous` and two theorems about
`OnlyChosenAreChanged`. Its invariant `PageInv` has a part per concern:

* `ListPart`, `SelectPart` and `OperationPart`: the list's own invariant and that the last query
  sent is the one the list shows; both selections are of rows, and agree; the types and numbers of
  dialogs and operations;
* `CountPart` and `TotalInv`: a count under way is for the query that is shown, and a count that is
  shown or on its way is right until something is executed whose answer counts again, or that the
  page does not count for (`NotCounted`);
* `FlowInv` and `ContiguousInv`: of the streams of the current generation one is appending, and it
  continues where the rows end. This is what makes `PageRowsAreContiguous` inductive: the rows alone
  do not say what the next one will be.

`OnlyChosenAreChanged` does not hold for overlapping operations (run `configurations_bulk`).
`OnlyAnswersInDialogsMislead` says what the cause is, and that it is the only one: in every
behaviour in which no answer arrives while a dialog is open (`NoAnswerInDialog`), any number of
operations change chosen objects only. With one operation that condition is always met, which is
`SingleOperationIsForChosen`.

### Session and the page of an object (`ConfigurationDetailProofs`)

`PagesArePermitted` and `MenusArePermitted` are proved of the whole of `Session` and
`ConfigurationDetail`, for all roles and pages. `SessionInv` adds to `PagePermitted` that a
navigation under way has been permitted, that a program that starts shows nothing yet, and that
whoever is signed in while it does not run has no page: guards run only for the routes that change,
and are right because the page shown before was permitted for the same roles.

`DetailTypesHold`, `ContextsAgree` and `ContextsAreCurrent` are proved for all objects, references and
page addresses and any number of operations, calls that fail among them. Three invariants, each built
on the one before:

* `PageInv`: the types; addresses of objects name objects (`PlaceInv`); without the component nothing
  is shown or loaded, and no call answers to it (`AliveInv`); nothing is loaded for an object that is
  not shown (`ShownInv`); calls are numbered, and the clock and the calls that are not executed are
  together at most the operations sent (`CallInv`), which is what bounds the versions in the types.
* `AgreeInv`: while the user is signed in, the context of a panel is about what the object refers to,
  or a load is under way whose `todo` and `done` are together about that, with something left to do.
  A move of a seed, an answer, or a new list of options changes what the object refers to and starts
  the load anew in the same step; this is where a missing reload would show.
* `AgeInv`: what was answered about an object is no newer than the object at the server, unless that
  has been deleted (`VersionInv`); rows, and the cards a panel shows or has loaded so far, are as new as
  every answer about their objects, because such an answer reads the object again or starts the
  loads anew (`FreshInv`); and, unless a call failed or the query is under way, a list
  of seeds whose last page is loaded has every seed of the entity that passes its filter and that an
  answered operation has written (`SeedsInv`).

`AddressAssumption` says that the address of the page of an object names one of the objects there
may be, `LoadAssumption` that `None` is neither a load nor a call.

### Forms (`ConfigFormsProofs`)

Proved for any number of forms, edits and changes by others, and any choice of kinds:
`FormTypesHold`, `PristineFormsShowConfig`, `UntouchedFieldsKept` and `TouchedFieldsSet`. The runs
enumerate two edits of one form; what three or four edits of one dialog do to each other (an element
added, its operation switched to removal, switched back, a validity cleared meanwhile) is what the
proof adds. The invariant `FormsInv` has three parts:

* `BoundsInv`: counters and flags.
* `ObjectsInv`: what the server stores and what the page has loaded is well formed (`StoredObject`):
  types, one identity of a role mapping. Created objects are also `WellMade`: schedules begin and end
  with a day, a seed has one URL.
* `FormInv`: of every form, that its object is well formed or merged from well-formed ones (`BaseForm`,
  `GoodConfig`). Of the form of one object (`SingleForm`): inputs that are not touched read back the
  value of the object where it is shown exactly (`Exact`). Of a bulk dialog (`MultiForm`): what each control remembers (`ControlState`),
  which depends on how it gets into the mask: a control that goes by being dirty is dirty exactly
  when it is touched; one that goes by its value has the merged value until then; a list is sent
  if it has an operation, and its operation says what the elements mean.

`PristineFormShowsConfig` alone is not inductive: it says nothing of a form that has been edited, which
a later revert, or an answer of the server, makes pristine again. The lemmas come in the order of the
modules. The tables are settled kind by kind; the lemmas of the inputs are `SecondsAreKept`, `MillisecondsAreKept`
(below an hour), `SizesAreKept` (sizes that are whole hundredths of their unit, for all units) and
`DatesAreKept` (the first hour of a day where the clock is not behind UTC, the last where it is not
ahead); chips that are shown and read are the labels; an object merged from a selection has the type of its
kind; a bulk update changes the paths of its mask and nothing else. Each action that edits then keeps
`FormInv` by a lemma of its own.

The objects that the server has at first are of any of the three samples, also those with values that
inputs round off and fields that a save erases; the statements say of which fields they speak (`Exact`, `Erased`). The
one hypothesis is that of `UntouchedFieldsKept`: politeness configurations are not updated all at
once (`forms_all`).
`UnsetAssumption` says that the undefined of the program is no value of a field.

### Only model-checked

Liveness (`EveryElementSettled`, `EveryUriLeavesQueue`, `LoadingEnds` and the violated
`ScrollLoadsAll`): fairness and ENABLED are out of the prover's reach. Every other property of a
passing run is also a theorem, for the faults and values named there.

## Plan

1. `CrawlExecution`: status changes merged by `StatusWrapper` and the conditional updates of
   `RethinkDbFrontierAdapter`, the aggregate of `jobexecution_update.lua`, finalization
   signals, anti-entropy and the repair of jobs; with an abstract `JobLifecycle` (a job is
   finalized once, after all its executions) that it implements. `QueueCounters`: the counts
   per execution, per job and in total.
2. `ApiShutdown`: `Context`, the concurrency limit and the order of shutdown. `HarvesterSession`:
   the session pool and request registry of browser-controller.

## Not modelled

Frontier and services: scope scripts, robots.txt and DNS resolution (answers are chosen freely),
politeness delays, priorities of executions (a weighted random choice; here any), statistics, WARC
writing, log storage, the command line client, configuration storage, generated code and
deployment. `ChgBusyTimeoutScript` is never run.

Dashboard: layout, columns and the preview pane; pattern validation of single inputs; the home page
and the event logs, which display what the server says; the detail pages of crawl log and page log,
which read once; on the configuration page, moving a seed from within the dialog of a seed;
generated clients. `PROJECT.json` gives the reason part by part.
