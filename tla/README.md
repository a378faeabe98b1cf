# A TLA+ model of Liteset

Liteset is an asynchronous port of Apache Superset: a Litestar/ASGI backend
(`superset/`), Celery workers for everything that takes long, a metadata
database, a results backend, and a React frontend (`superset-frontend/`).  This
directory models the parts in which several of these act on the same state, and
proves what can be proved about them.  Paths below are relative to `superset/`
unless they say otherwise.

## The system

| Part | State | Operations | Interacts with | What is hard |
|---|---|---|---|---|
| SQL Lab query (`commands/sqllab/execute.py`, `tasks/sql_lab.py`) | the row of table `query` (status, extra_json, results_key) | execute, worker steps, error recording | stop, results backend, pool, Celery | three writers with their own sessions; commits in the middle of a handler; rollback of a request's session |
| Stop (`db/daos/query.py`, `commands/query/stop.py`) | the same row | stop with five tries | worker, engine | decides on a status read before a slow cancellation |
| Results (`commands/sqllab/results.py`) | the blob | fetch | worker | a key without a blob, expiry |
| SQL Lab pool (`utils/threadpool.py`) | semaphore, executor, futures | run_sqllab_blocking, shutdown | `asyncio.wait_for` in execute and estimate | a timeout abandons a thread it cannot stop |
| Alerts and reports (`commands/report_execute.py`, `commands/report_alert.py`, `tasks/scheduler.py`) | schedule row, execution log | three state classes | user edits, pruning, Celery limits | kills between commits, concurrent executions, stale copies, time |
| Report editing, pruning (`commands/report.py`, `commands/report_log_prune.py`) | same | update, delete, prune | executions | read early, commit late |
| Scheduler window (`tasks/cron_util.py`, `tasks/scheduler.py`) | the task of each beat | window, retries | executions | gaps and overlaps of windows, late beats |
| Distributed lock (`distributed_lock/`) | key-value row with an expiry | acquire, release | OAuth2 token refresh | expiry while held, release by a former holder |
| Async events (`async_events/manager.py`, `websocket/events.py`) | Redis streams | publish, read, relay | async charts | missed and repeated events |
| Chart data cache, thumbnails, key-value, temporary cache, rate limit | cache entries, rows | get, set, expire | requests | concurrent get-or-create, expiry |
| CRUD commands, import/export, security, controllers, migrations | rows | one transaction each | database | mostly serialised by the database |
| SQL parsing, engine specs, Jinja, pandas | none | transformations | worker | pure functions of large data |
| Charts of a page (`superset-frontend/src/components/Chart/`) | an entry of the Redux store, abort controllers | query, stop, render, remove | chart data endpoint, jobs | answers of superseded requests, spinners nobody ends |
| SQL Lab page (`superset-frontend/src/SqlLab/`) | the entry of a query | execute, poll, fetch, stop | the query row | four requests write one entry; late, lost and repeated answers |
| Dashboard layout (`superset-frontend/src/dashboard/reducers/dashboardLayout.js` and `util/`) | the tree of components | drop, move, resize, delete, top-level tabs | none | long sequences of edits to several lists; four places compute widths |
| Filter configuration (`superset-frontend/src/dashboard/components/nativeFilters/FiltersConfigModal/`, `commands/dashboard/update.py`) | modal, page, stored configuration | edit, remove with Undo, save | server merge | forms that exist only once opened, saves that overlap or get lost |
| Embedded SDK (`superset-embedded-sdk/src/`) | token, timer, iframe | fetch, refresh, unmount | guest token endpoint | a token must be replaced before it expires |
| Other frontend: explore, other modals, plugins | Redux store, forms | actions | backend answers | mostly presentation |

`PROJECT.json` lists every part with its status and, for those left out, why,
and the hazards of the code with the line where each bites.

## Modules

| Module | Models |
|---|---|
| `SqlLabQuery` | one query row with all its writers and the results backend |
| `MCSqlLabQuery` | symmetry for TLC |
| `SqlLabQueryProofs` | theorems about `SqlLabQuery` and `SqlLabQueryRefines` |
| `QueryRow` | what the backend promises a client about one query |
| `SqlLabQueryRefines` | `SqlLabQuery` implements `QueryRow` |
| `SqlLabClient`, `SqlLabClientProofs` | one query in the SQL Lab page, composed with `QueryRow` |
| `SqlLabPool`, `SqlLabPoolProofs` | the admission semaphore and the thread pool |
| `ReportExecution`, `ReportExecutionProofs` | executions of one alert or report |
| `CronWindow` | the scheduler task of every beat and its window |
| `ChartRequests`, `ChartRequestsProofs` | one chart of a page and its data requests |
| `DashboardLayout` | the layout of a dashboard in edit mode |
| `FilterConfig`, `MCFilterConfig` | native filters: modal, save, server merge |
| `FilterConfigModalProofs`, `FilterConfigProofs` | theorems about `FilterConfig` |
| `DistributedLock` | the key-value lock |
| `GuestToken` | token refresh of the embedded SDK |
| `TimingProofs` | theorems about `CronWindow`, `DistributedLock` and `GuestToken` |

Operators whose comment begins with "Mutant:" are plausible bugs of the action
that follows them.  No specification uses them; they show that the properties
can fail.

### SqlLabQuery

Variables: `row` is what is committed, `wk` the worker with the status and
extra_json its session has loaded, `req` and `stop` the requests with what they
have read, `blob` the result in the results backend, `job` the fixed choices of
the query (asynchronous or not, results stored or not, how the engine cancels),
and `begun`, a history variable that counts the blocks begun since the row last
became STOPPED.

Three facts about sessions decide what an action writes.

* A request commits at its end and rolls back when it raises
  (`dependencies.py`), so a FAILED that is only flushed before a raise never
  becomes visible (`RejectRequest`, `DispatchFails`).
* The request's session does not expire its objects on commit.  The assignment
  of PENDING after the dispatch is therefore no change and is not written
  (`FinishDispatch`), while extra_json is written back from an old copy.
* The worker's session expires on commit and loads again at the next access
  (`Load`), or when the code refreshes (`RefreshBlock`, `BlockFails`).

An action lies between two points at which another actor can see or change the
row.  The failures of the metadata database that the code handles are actions of
their own (`LookupFails`, `RefreshFails`, `RecordErrorFails`, `MarkingFails`,
`SaveMetadataFails`).  Two of them end an execution without a verdict: recording
the error of a task fails, or the soft time limit is raised meanwhile
(`tasks/sql_lab.py:112`), and marking the row of a synchronous query fails
(`execute.py:381`).  `SettledIsTerminal` and `TaskSettles` say that there is no
other way to end without one, apart from the timeout of a synchronous query.
Data is reduced to what the control flow looks at: six statuses, two keys
of extra_json, presence of a results key and of a blob.  `WorkerCrash` and
`EvictBlob` stand for Celery and the cache.

### SqlLabPool

One coroutine per call (`co`), one future per job (`fut`), the threads (`thr`),
the value of the semaphore (`permits`) and the calls whose slot is not yet
released (`held`).  A thread sets its future before it returns to its queue
(`FinishJob`, `ReturnToQueue`), and the completion callback runs on the loop
later (`Release`): both gaps are steps of the model.  Which waiter gets a free
slot is left open, which admits every order the semaphore may use.

### ReportExecution

`row` is the committed schedule (last_state and active), `ex` the executions with
the copy their session has loaded, `upd` the user's request, and `log` a summary of the
execution log: exactly what the four queries over it can find, with ages
instead of dates.  Ages stop growing where no comparison can tell them apart,
so time needs no bound.  `Tick` is one unit of time.  The scheduler sends
executions of an active schedule only (`Schedule`), but one that is queued runs
even if the schedule has been deactivated since.  A `WorkingTimeout` of 0 stands
for the null that an update may set: then nothing ends WORKING, and
`WorkingRecovers` makes no claim; nor does it for a schedule that is inactive.  `onlyErrors` is a history
variable for one property.

`Killed` is the hard time limit, a lost worker, or an exception that nothing
catches.  Creation of the content and the sending are one step each, with
failure as the alternative.  The grace periods go by the log, and a message that
was sent by an execution which did not live to log it is not in the log: it is
sent again.  `GraceRespected` and `LoggedNoticeNotRepeated` are therefore about
logged messages.

### QueryRow and SqlLabClient

`QueryRow` is the abstract specification between backend and page: a status, a
key, a blob and the phase of the execution.  `SqlLabQuery` implements it with
the mapping of `SqlLabQueryRefines` (the phase is read off the place of the
worker).  `SqlLabClient` conjoins the page's steps with `QueryRow`'s and uses
nothing else of the backend, so what it shows holds for every server that keeps
the promise.  `entry` is the query in the store, `post`, `polls`, `fetches` and
`stopReq` the requests in flight with what the server had read for them, and
`setup` the two circumstances that do not change (asynchronous or not; whether a
poll can be two seconds older than the row).  Two properties are about part of
these: `ResultsNotUndone` about asynchronous queries, since a late poll does set
a synchronous query that has its rows back to running; `EveryQueryConcludes`
about asynchronous queries that store rows and whose row is inserted in time.  A
poll that says SUCCESS leaves a running query running until its rows are asked
for, and a CREATE TABLE AS has none; and the page drops an entry that the server
does not know after two seconds.  The property has the backend record how the
execution ended as its hypothesis (`EndsRecorded`), lets polling end after six
hours (`Age`), and excepts the one wait that a lost request leaves open: when
the pane asks for the results of a query that was stopped (it was stopped just
as it succeeded, or the pane is mounted again after that), the failure of that
request is ignored (`reducers/sqlLab.js:413`) and the query stays "fetching".

### ChartRequests

`chart` is the entry of the store, `pc` the place of each request's promise
chain, `aborted` and `timer` its controller and the `setTimeout(0)` that aborts
the one before.  Each callback is an action; the dispatches that exploreJSON
makes before its first network call are one action.  `setup` says whether
GlobalAsyncQueries is on and whether the chart can be removed and added again.
`FreshData` is about a page without that flag and a chart that stays: the job of
an aborted request and the requests of a removed entry are not stopped, and their
rows do replace newer ones.  It rests on one assumption about time: the 0 ms
timer that a request sets before its POST fires before the answer to that POST.
`LoadingEnds` excepts the promises that may never settle: the wait for a job,
which has no timeout and whose events may be dropped (`JobLost`,
`asyncEvent.ts:117`, `:156`), and the read of the body of an error when Stop is
pressed meanwhile (`getClientErrorObject.ts:245`).

### DashboardLayout

`layout` is the map of components.  Each user operation is one action, with the
dispatches that handleComponentDrop makes after it (a row or tabs left empty is
deleted).  Widths are computed as in the code, with `undefined` and NaN as cases
of their own.  The constants `SelfDrops` and `NestedTabsToRoot` admit two drops
that nothing in the code refuses: into the component's own subtree, and of tabs
that are not in the grid onto the root.  The run leaves them out, because with
either the layout stops being a tree; the properties are about the remaining
operations.  `RowsFit` bounds the children of a row by the width it
is rendered with.  A row in tabs that a column holds is bounded by the grid only:
the reducer gives it the whole grid, the page the width of the column.

### FilterConfig

`modal` holds the edits and the forms opened so far, `saves` the requests under
way, `server`, `meta`, `filters` and `mask` the configuration where it is kept.
A removed filter is pending until its timer fires; the timer is kept apart from
that flag (`timers`) and does not look at it, so that `ModalAgrees` depends on
Undo clearing it.  The modal is unmounted when it is saved or cancelled, and its
timers have no effect any more.
Forms exist only for filters whose tab was opened, and several properties depend
on that or on requests getting through.  The history variable `slips` records
what happened: a save in which an opened filter depended on one that was not
opened (`FormSeesAll` is false), a modal opened during a save, a lost answer.
`NoCircle` is stated for none of them.  The check for circles sees opened forms
only: where the second filter depends on the first, and only the tab of the first
is opened, the first can be made to depend on the second, and the circle is
stored.  Tabs on which nothing opened depends may stay closed.
`DependenciesExist` and `MaskCoversConfig` admit unopened tabs, but neither
overlapping saves nor lost answers; `ModalAgrees` excludes a modal opened during
a save, and `TypeOK` is unconditional.  That there is no circle is stated as `Grounded`: every set of
filters has one that depends on none of the set.  The configurations to start
from are sound in this sense (`StoredAssumption`); whoever wrote a circle into
the database by other means is outside the model.

### CronWindow, DistributedLock, GuestToken

Three small timed components for which a theorem for all constants says more
than an instance: they have proofs and no run.  What their constants are
(`CronConstants`, `LockConstants`, `GuestTokenConstants`) is a hypothesis of the
theorems.  `CronWindow` has a task per beat, late by at most `MaxLate`, retried,
with schedules switched on and off.  `DistributedLock` separates the lookup from
the insertion; releasing deletes the row of the key, whoever wrote it, and work
that raises leaves it.  `GuestToken` runs the first fetch and the iframe side by
side, then the timer, against a clock.  A token is one whose expiry can be read,
one without (the default expiry is used), or no JWT, in which case jwtDecode
throws, no timer is set and embedDashboard does not return.  setTimeout takes a
signed 32-bit number of milliseconds, and a longer delay wraps around
(`SetTimeout`).

## Runs

| Run | Instance | Shows | Distinct states |
|---|---|---|---|
| `query_safety` | 2 requests, 2 stops with 2 tries, 2 blocks, crashes | key and SUCCESS mean stored rows; a stop bounds the work; verdicts are written and never undone; `QueryRow` is implemented | 2,714,961 |
| `query_settles` | 2 requests, 1 stop, no crashes | every published task leads to a verdict or a logged failure to record it | 452,232 |
| `query_pending` | 1 request | violated: a failed dispatch leaves PENDING | |
| `pool` | 3 calls, 2 threads | slots conserved, no over-admission, no queue behind running jobs; no caller hangs though driver calls may; slots come back if driver calls return | 32,686 |
| `report_recovery` | 2 executions, user edits, grace 1, timeout 1 | a refusal never undoes a verdict; WORKING has a start and an active schedule leaves it at last | 525,639 |
| `report_grace` | 1 execution, pruning, grace 3, timeout 2 | grace periods of alerts and of logged error notifications hold | 1,905 |
| `report_error_grace` | 1 execution | violated: error grace forgotten | |
| `report_pruned` | 1 execution, pruning | violated: WORKING for ever | |
| `chart_requests` | 3 requests | a spinner has a request and ends, waits for jobs apart; rows never go back | 60,500 |
| `client` | 1 stop, 2 results requests, 2 faults | the page is never ahead of the server; results are not undone; queries conclude | 946,251 |
| `layout` | 8 ids, 3 columns, charts 2 wide; columns, charts and tabs | the layout is a tree of valid types, rows fit, content is lost only by deleting | 13,071 |
| `filter_config` | 2 filters, 2 sessions, from one filter or two dependent ones | the modal shows what it sends; dependencies exist without circles; masks cover the configuration | 78,565 |

Bounds.  Two requests suffice for every race on a client_id (a third can only
repeat the second); two blocks give a first, a next and a last block; two tries
give a retry and a giving up (the code has five).  Three calls on two threads
have jobs running, waiting and abandoned at once; the safety properties of the
pool are proved for any number.  A grace period of 3 and a timeout of 2 let an
execution start before, at and after each of them.  Three chart requests give
one that is superseded by one that is superseded; what is safety there is
proved for any number.  Two faults of the page let a request and its retry be
lost, or one request and a remount.  Eight components hold tabs with a tab, a
row, a column, a row in it and a chart; charts that are two of three columns
wide make rows that fit, fill and overflow.  Two filters and two sessions give a
dependency in either direction, made and removed in different sessions; the
properties of the filters are proved for any number of both.

Symmetry is used in `query_safety` only, whose properties are safety.  `layout`
uses a view in which trees that differ only in their ids are one state;
components outside the tree and the number of components are part of the view,
so that a broken layout is never taken for a sound one.

`CHECK_DEADLOCK FALSE` is set where the system ends or the user may stop: all
requests answered and the worker done, all calls returned, a bound used up.  A
report never ends, so deadlock is checked there.

Fairness.  `SqlLabQuery` assumes that handlers run to their end and that a
published task is taken and goes on; the time limits bound the rest.  `SqlLabPool`
assumes for `CallsEnd` only the event loop and its clock; `SlotsReturn` states
that driver calls return as its hypothesis.  `ReportExecution` assumes that time
passes, that the scheduler keeps sending executions of an active schedule, and
that not every execution that could record a timeout is killed first.
`ChartRequests` assumes that the browser runs timers and callbacks, that React
renders after a dispatch, and that every POST is answered, aborted or timed out;
it assumes nothing about jobs.  `SqlLabClient` assumes
the same of the page's interval and requests, and that the backend, without
crashes, runs a query to its end; that the end is recorded is a hypothesis of the
property (`query_settles` shows when it is).

## Findings

1. `commands/sqllab/execute.py:305`: when the dispatch to Celery fails, FAILED
   is flushed and the raise rolls it back; the row committed before stays
   PENDING, contrary to the comment in line 214 (`query_pending`).
2. `commands/report_execute.py:898`: the search for logs other than errors looks
   before the last notification where "since" is meant
   (`db/daos/report.py:182`), so after one success the owners are notified of
   every error (`report_error_grace`).
3. `commands/report_execute.py:844`: a schedule whose log of the start has been
   pruned is never timed out (`report_pruned`).

## Proofs

Everything here holds for all values of the constants, given the named
assumptions of the modules (positive bounds, finite sets of calls and threads,
sound configurations to start from).

`SqlLabQueryProofs`.  The inductive invariant `Inv` has, besides the types:
`InvKey` (a key in the row or in the worker comes after the blob), `InvSuccess`
(the worker that is about to commit SUCCESS holds the key), `InvBlocks` (a block
begun under STOPPED puts the worker past its last refresh), `InvCreation` (one
insertion, one hand-over) and `InvVerdict` (SUCCESS and FAILED are written when
the worker has nothing left but to end).  The last two carry each other: without
`InvCreation` a second hand-over could start a worker under a verdict.  From
`Inv` follow `SuccessIsFetchable`, `KeyMeansStored`, `StopBoundsBlocks`,
`SettledIsTerminal` and the action property `NoResurrection`.

`SqlLabPoolProofs`.  `Inv` joins `SlotConservation` with `InvHeld` (jobs queued
or running hold their slot) and `InvThreads` (threads have distinct jobs).
`NeverOverAdmits` follows by counting; `NoQueueBehindRunning` by the pigeonhole
principle: if every thread ran a job, the slots held would outnumber the pool.

`ReportExecutionProofs`.  Types; `WorkingHasStart` without pruning and
`RefusalKeepsVerdict`, both for any number of executions; `GraceRespected` and
`LoggedNoticeNotRepeated` for one execution at a time and no edits.  Both need
`InvLoaded` (the loaded copy is the row except between a commit and the next
access).  The first adds `InvGrace` (within the grace period the row says SUCCESS
or GRACE and no execution is past the check), the second `InvExcused` (an
execution about to notify is past the check of the error grace period, or in the
state class of a schedule that has a log which is no error).

`SqlLabQueryProofs` also has `RefinesQueryRow`: initial states map to initial
states, and every step of a request, the worker, a stop or the results backend
maps to a step of `QueryRow` or to none.  It uses `Inv` and `InvKeyLate` (a
published key belongs to an execution that is over), which is why the key
appears once.

`SqlLabClientProofs`.  `NeverAheadOfServer` is about the entry, and answers on
their way end up there; so the invariant adds `InvRow` (a key is published with
SUCCESS, by an execution that is over) and `InvAnswers` (an answer read from the
row is still true of it, since neither is taken back).  The action property
`ResultsNotUndone` needs `InvPolls`: one poll at a time, and once the page has
heard of the results, what a poll has read is a verdict.  `InvIdle` (nothing is
known before the execute request) is what makes the first step keep it.  Only
`QueryRow` is used of the backend.

`ChartRequestsProofs`.  `LoadingHasRequest` is inductive with the types.
`FreshData` is not: it needs `Chain` (the controller of the entry is that of the
youngest request) and `Superseded` (every older request has ended, is aborted,
or is the target of a timer that has not fired), so that no older request can
still deliver when a younger one has.

`TimingProofs`, of `CronWindow`.  `TriggersQueuedByOneBeat`: no trigger is found in the
windows of two beats while lateness and half a window make at most a period.
`NoTriggerMissed`: a task that ends well has queued the triggers of its minute
while it is late by less than half a window.  With the defaults (a beat
per minute, a window of 59 seconds) the first holds for tasks at most 30.5
seconds late, the second for tasks less than 29.5 seconds late; a later task can
miss triggers.

Of `DistributedLock`.  `LockExcludes`: if work under the lock ends before the
row expires, two workers never hold it at a time.  The invariant is that the row
belongs to the one holder.  Without the hypothesis a late holder's release
deletes the row of its successor.

Of `GuestToken`.  `TokenNeverExpires`: the page never works with an expired
token, if fetches do not fail and end within the buffer, and tokens are JWTs that
last for the shortest wait and a fetch (`Prompt`).  After a failed fetch, or a
token that is no JWT, nothing sets the next timer.  `FetchesAreSpaced` needs none
of this, but a lifetime that setTimeout can wait (`DelayFits`, 24 days): with
tokens of 30 days the wait wraps around to none, and fetches follow each other as
fast as they are answered.

`FilterConfigModalProofs` and `FilterConfigProofs`.  Three layers.

* What the operators compute.  `OnlyProperties`, `ApplyProperties` and
  `ReorderProperties` say which filters a merge on the server keeps, each once;
  `Rearranged` that dragging loses none; `CircleFound` that
  hasCircularDependency returns true for every filter of a set in which each
  depends on another of the set.  `Only` and `Circular` are recursive; that their
  recursion determines them, and what they compute, is proved by taking a least
  counterexample (a number, or a set of filters not yet in the trace).
* What holds however saves overlap and fail (`InvTypes`): ids are given out in
  order (`InvPage`), the filters that a save is the first to tell of are nowhere
  else until they are stored (`InvSaves`), and the modal knows what it edits
  (`ModalOK`).  Without `InvSaves` two saves could append the same filter.
* The modal and one save at a time.  After every edit the effect of
  DependencyList leaves no circle in the forms (`Settled`), and without an
  overlap the modal knows the whole stored configuration (`ModalKnows`).
  Therefore what it sends, merged into what is stored, depends on itself only and
  has no circle when opened filters depend on opened ones (`SavePlan`); `InvCalm` carries this
  over the read, the write and the answer, where the order that was sent keeps
  every filter that was not deleted (`StoresPlan`).

From these follow `TypeOK`, `ModalAgrees`, `DependenciesExist`, `NoCircle` and
`MaskCoversConfig`.

Only model-checked: the liveness properties (`TaskSettles`, `CallsEnd`,
`SlotsReturn`, `WorkingRecovers`, `LoadingEnds`, `EveryQueryConcludes`), since
fairness is out of the prover's reach; and everything about `DashboardLayout`,
whose recursive operators (depth, subtrees, widths) keep the prover's SMT backend
out of the module.

## Not modelled

Access checks appear as their two outcomes.  Failures of the metadata database
in the middle of a handler are modelled where the code handles them (see
`SqlLabQuery`, and a deleted schedule); elsewhere they are left out.  The row limit, CTAS rewriting, the early-cancel flag of
Trino and Impala, several recipients of one report, and Slack channel upgrades
are left out.  Parsing, dialects, templates, data frames and rendering are data
transformations beyond a model checker.

Of the frontend, five components are modelled (charts, the SQL Lab query,
the layout, the filter configuration, the SDK's token), and most of its code is
not: plugins and transformations of data into charts, rendering, forms that hold
the state of one dialogue, types, themes and translations.  What has state worth
a model and has none here: the event channel of asynchronous jobs, the editors of
SQL Lab and their copies on the server, undo and saving of dashboards, the HTTP
client with its token and ETags, the plugin registries, tab ids, the select with
options from the server, the drill-to-detail pane, the switchboard of the
embedded page and the label colors.  On the server, the chart data cache,
thumbnails, the temporary cache, rate limiting, imports and the OAuth2 exchange
are not modelled; `PROJECT.json` says why for each part.
