---------------------------- MODULE ChartRequests ----------------------------
(***************************************************************************)
(* One chart of the frontend: the entry of the Redux slice `charts`        *)
(* (superset-frontend/src/components/Chart/chartReducer.ts) and the data   *)
(* requests that the thunk exploreJSON (chartAction.js) starts for it.     *)
(*                                                                         *)
(* exploreJSON is synchronous up to its first network call, so one action, *)
(* ExploreJSON, stores the new AbortController, schedules the abort of the *)
(* previous one with setTimeout(0), clears triggerQuery and stores the     *)
(* form data.  After that, every promise callback is an action: answers,   *)
(* aborts, timeouts and failures of different requests interleave.         *)
(*                                                                         *)
(* A chart record forgets the payloads: `shown` is the request whose rows  *)
(* queriesResponse holds (0: none, or the error of a failed request), and  *)
(* a controller is the number of the request it belongs to (0: none).      *)
(***************************************************************************)
EXTENDS Naturals

CONSTANT MaxRequests   \* bound: calls of exploreJSON in one behaviour

ASSUME MaxRequestsAssumption == MaxRequests \in Nat \ {0}

VARIABLES
    setup,     \* how the page is set up; it never changes
    chart,     \* charts[key]
    used,      \* requests started so far; requests are 1..used
    pc,        \* pc[r]: where the promise chain of request r stands
    aborted,   \* aborted[r]: r's AbortController has fired
    timer,     \* timer[r]: controller that r's setTimeout(0) will abort, 0: none
    newest     \* history: the youngest request whose rows were ever shown

vars == <<setup, chart, used, pc, aborted, timer, newest>>

Requests == 1..MaxRequests

\* The feature flag GlobalAsyncQueries.
Async == setup.async

\* The chart may be removed from, and hydrated into, the page.
Removable == setup.removable

\* build: buildV1ChartDataPayload; sent: on the network; job: waitForAsyncData;
\* body: getClientErrorObject reads the body; hung: a promise that is awaited and
\* that nothing can settle any more.
Steps == {"none", "build", "sent", "job", "body", "hung", "done"}
Statuses == {"null", "blank", "loading", "success", "rendered", "failed", "stopped"}
Active == {"build", "sent", "job", "body"}

\* The initial entry of a dashboard chart: it is queried when it is mounted.
DashboardChart ==
    [live |-> TRUE, present |-> TRUE, status |-> "loading", trigger |-> TRUE,
     controller |-> 0, form |-> FALSE, shown |-> 0, stack |-> FALSE]

\* The entry that hydrateExplore makes: nothing is queried until asked for.
ExploreChart ==
    [DashboardChart EXCEPT !.status = "null", !.trigger = FALSE, !.form = TRUE]

\* No entry.  A handler of the reducer that runs on it spreads `undefined`.
NoChart ==
    [live |-> FALSE, present |-> FALSE, status |-> "null", trigger |-> FALSE,
     controller |-> 0, form |-> FALSE, shown |-> 0, stack |-> FALSE]

Init ==
    /\ setup \in [async : BOOLEAN, removable : BOOLEAN]
    /\ chart \in {DashboardChart, ExploreChart}
    /\ used = 0
    /\ pc = [r \in Requests |-> "none"]
    /\ aborted = [r \in Requests |-> FALSE]
    /\ timer = [r \in Requests |-> 0]
    /\ newest = 0

---------------------------------------------------------------------------
(* The handlers of chartReducer.                                           *)

Started(c, r) ==
    [c EXCEPT !.present = TRUE, !.status = "loading", !.stack = FALSE,
              !.controller = r]

Succeeded(c, r) ==
    [c EXCEPT !.present = TRUE, !.status = "success", !.shown = r]

\* Mutant: a status no component knows.
StoppedUnknown(c) == [c EXCEPT !.present = TRUE, !.status = "aborted"]

Stopped(c) == [c EXCEPT !.present = TRUE, !.status = "stopped"]

Failed(c, trace) ==
    [c EXCEPT !.present = TRUE, !.status = "failed", !.shown = 0, !.stack = trace]

Triggered(c, value) ==
    [c EXCEPT !.present = TRUE, !.status = "loading", !.trigger = value]

FormUpdated(c) == [c EXCEPT !.present = TRUE, !.form = TRUE]

---------------------------------------------------------------------------
(* Starting a request.                                                     *)

\* A filter or a control asks for new data.  The bound on requests is part of
\* the guard, so that every trigger still has a request to be answered by.
TriggerQuery ==
    /\ used < MaxRequests
    /\ chart.present
    /\ chart' = Triggered(chart, TRUE)
    /\ UNCHANGED <<used, pc, aborted, timer, newest>>

\* Mutant: exploreJSON no longer clears triggerQuery through its last dispatches
\* but before the STARTED dispatch, whose entry it then loses.
BeginLosesStart(r) ==
    chart' = FormUpdated(Triggered(chart, FALSE))

\* The three dispatches of exploreJSON: STARTED, TRIGGER_QUERY(false) and
\* UPDATE_QUERY_FORM_DATA.
Begin(r) ==
    chart' = FormUpdated(Triggered(Started(chart, r), FALSE))

\* Mutant: the previous request is left running.
AbortNothing(r) == timer' = timer

\* prevController is read before STARTED replaces it.
AbortPrevious(r) ==
    timer' = [timer EXCEPT ![r] = chart.controller]

\* exploreJSON, for a mounted chart whose triggerQuery is set (runQuery of
\* Chart.tsx) or that is refreshed and has been queried before (refreshChart).
ExploreJSON(r) ==
    /\ r = used + 1
    /\ chart.live
    /\ chart.trigger \/ chart.form
    /\ Begin(r)
    /\ AbortPrevious(r)
    /\ used' = r
    /\ \E first \in {"build", "sent"} : pc' = [pc EXCEPT ![r] = first]
    /\ UNCHANGED <<aborted, newest>>

\* setTimeout(() => prevController.abort(), 0).  Timers of the same delay fire
\* in the order in which they were set.
FireAbort(r) ==
    /\ timer[r] # 0
    /\ \A q \in Requests : q < r => timer[q] = 0
    /\ aborted' = [aborted EXCEPT ![timer[r]] = TRUE]
    /\ timer' = [timer EXCEPT ![r] = 0]
    /\ UNCHANGED <<chart, used, pc, newest>>

\* The Stop button of Explore aborts the controller of the state.
OnStop ==
    /\ chart.controller # 0
    /\ ~aborted[chart.controller]
    /\ aborted' = [aborted EXCEPT ![chart.controller] = TRUE]
    /\ UNCHANGED <<chart, used, pc, timer, newest>>

---------------------------------------------------------------------------
(* The promise chain of a request.                                         *)

Step(r, from, to) ==
    /\ pc[r] = from
    /\ pc' = [pc EXCEPT ![r] = to]

\* The payload is built (the plugin's buildQuery is loaded); the POST is sent.
Send(r) ==
    /\ Step(r, "build", "sent")
    /\ UNCHANGED <<chart, used, aborted, timer, newest>>

\* An answer from the network: r was not aborted, and the 0 ms timer set in the
\* very task that began r, with all those set earlier, has fired by then: the round
\* trip of r begins after it.  The timer that is to abort r itself, set by a later
\* request, may still be pending: a superseded request may be answered.
Answered(r) ==
    /\ ~aborted[r]
    /\ \A q \in Requests : q <= r => timer[q] = 0

Apply(c) ==
    /\ chart' = c
    /\ newest' = IF c.shown > newest THEN c.shown ELSE newest

\* 200 with the rows: CHART_UPDATE_SUCCEEDED.
AnswerRows(r) ==
    /\ Answered(r)
    /\ Step(r, "sent", "done")
    /\ Apply(Succeeded(chart, r))
    /\ UNCHANGED <<used, aborted, timer>>

\* 202: the rows are computed by a job whose event resolves waitForAsyncData.
AnswerJob(r) ==
    /\ Async
    /\ Answered(r)
    /\ Step(r, "sent", "job")
    /\ UNCHANGED <<chart, used, aborted, timer, newest>>

\* waitForAsyncData takes no signal: an aborted request still gets its rows.
JobRows(r) ==
    /\ Step(r, "job", "done")
    /\ Apply(Succeeded(chart, r))
    /\ UNCHANGED <<used, aborted, timer>>

\* The job fails, or its cached rows cannot be fetched.
JobFails(r) ==
    /\ Step(r, "job", "done")
    /\ \E trace \in BOOLEAN : Apply(Failed(chart, trace))
    /\ UNCHANGED <<used, aborted, timer>>

\* The job is never heard of again: an event of another status removes the listener
\* and settles nothing, an event that finds no listener is dropped after MAX_RETRIES,
\* and the body of a failed fetch of the rows may not be readable.
JobLost(r) ==
    /\ Step(r, "job", "hung")
    /\ UNCHANGED <<chart, used, aborted, timer, newest>>

\* An HTTP error.  Without GlobalAsyncQueries its body is read first.
AnswerError(r) ==
    /\ Answered(r)
    /\ IF Async
         THEN /\ Step(r, "sent", "done")
              /\ Apply(Failed(chart, FALSE))
         ELSE /\ Step(r, "sent", "body")
              /\ UNCHANGED <<chart, newest>>
    /\ UNCHANGED <<used, aborted, timer>>

\* Mutant: the error object is computed and the dispatch is forgotten.
BodyReadSilently(r) ==
    /\ Step(r, "body", "done")
    /\ UNCHANGED <<chart, used, aborted, timer, newest>>

\* getClientErrorObject resolves.
BodyRead(r) ==
    /\ Step(r, "body", "done")
    /\ \E trace \in BOOLEAN : Apply(Failed(chart, trace))
    /\ UNCHANGED <<used, aborted, timer>>

\* An abort during the read rejects json() and then text(); nothing handles the
\* second rejection, so the promise never resolves and nothing is dispatched.
BodyLost(r) ==
    /\ aborted[r]
    /\ Step(r, "body", "hung")
    /\ UNCHANGED <<chart, used, aborted, timer, newest>>

\* A failure without a body to read: buildQuery throws, the network is down, the
\* client timeout of callApiAndParseWithTimeout fires or the answer does not parse.
FailsAtOnce(r) ==
    /\ \/ Step(r, "build", "done")
       \/ ~aborted[r] /\ Step(r, "sent", "done")
    /\ Apply(Failed(chart, FALSE))
    /\ UNCHANGED <<used, aborted, timer>>

\* fetch, or the read of an answer, rejects with an AbortError.
AbortError(r) ==
    /\ aborted[r]
    /\ Step(r, "sent", "done")
    /\ Apply(IF Async THEN Failed(chart, FALSE) ELSE Stopped(chart))
    /\ UNCHANGED <<used, aborted, timer>>

---------------------------------------------------------------------------
(* Rendering, datasources and the life of the entry.                       *)

\* handleRenderSuccess: not while loading and not twice.
RenderSucceeded ==
    /\ chart.live
    /\ chart.shown # 0
    /\ chart.status \notin {"loading", "rendered"}
    /\ chart' = [chart EXCEPT !.status = "rendered"]
    /\ UNCHANGED <<used, pc, aborted, timer, newest>>

\* handleRenderFailure and handleRenderContainerFailure: queriesResponse stays.
RenderFailed ==
    /\ chart.live
    /\ chart.shown # 0
    /\ chart' = [chart EXCEPT !.status = "failed", !.stack = TRUE]
    /\ UNCHANGED <<used, pc, aborted, timer, newest>>

\* SetDatasources clears an error that has a stack trace.
SetDatasources ==
    /\ chart.status = "failed" /\ chart.stack
    /\ chart' = [chart EXCEPT !.status = "blank", !.stack = FALSE]
    /\ UNCHANGED <<used, pc, aborted, timer, newest>>

\* removeSliceFromDashboard: the entry goes, its requests stay in flight.
RemoveChart ==
    /\ Removable
    /\ chart.present
    /\ chart' = NoChart
    /\ UNCHANGED <<used, pc, aborted, timer, newest>>

\* ADD_CHART and the two HYDRATE actions put a fresh entry in place.
HydrateChart ==
    /\ Removable
    /\ used < MaxRequests
    /\ chart' \in {DashboardChart, ExploreChart}
    /\ UNCHANGED <<used, pc, aborted, timer, newest>>

Next ==
    /\ \/ TriggerQuery
       \/ \E r \in Requests :
            \/ ExploreJSON(r) \/ FireAbort(r) \/ Send(r)
            \/ AnswerRows(r) \/ AnswerJob(r) \/ AnswerError(r)
            \/ JobRows(r) \/ JobFails(r) \/ JobLost(r)
            \/ BodyRead(r) \/ BodyLost(r)
            \/ FailsAtOnce(r) \/ AbortError(r)
       \/ OnStop
       \/ RenderSucceeded \/ RenderFailed \/ SetDatasources
       \/ RemoveChart \/ HydrateChart
    /\ UNCHANGED setup

Spec == Init /\ [][Next]_vars

\* What ends the wait of request r: the event loop runs the timers and the
\* promise callbacks, and every POST is answered, aborted or timed out.  Nothing
\* bounds the wait for a job: waitForAsyncData has no timeout.
Settle(r) ==
    \/ FireAbort(r) \/ Send(r) \/ AnswerRows(r) \/ AnswerError(r)
    \/ BodyRead(r) \/ BodyLost(r) \/ FailsAtOnce(r) \/ AbortError(r)

\* React calls componentDidUpdate after a dispatch that sets triggerQuery.
RunQuery == chart.trigger /\ \E r \in Requests : ExploreJSON(r)

FairSpec ==
    /\ Spec
    /\ \A r \in Requests : WF_vars(Settle(r) /\ UNCHANGED setup)
    /\ WF_vars(RunQuery /\ UNCHANGED setup)

---------------------------------------------------------------------------
(* Properties.                                                             *)

TypeOK ==
    /\ setup \in [async : BOOLEAN, removable : BOOLEAN]
    /\ chart \in [live : BOOLEAN, present : BOOLEAN, status : Statuses,
                  trigger : BOOLEAN, controller : 0..MaxRequests,
                  form : BOOLEAN, shown : 0..MaxRequests, stack : BOOLEAN]
    /\ used \in 0..MaxRequests
    /\ pc \in [Requests -> Steps]
    /\ aborted \in [Requests -> BOOLEAN]
    /\ timer \in [Requests -> 0..MaxRequests]
    /\ newest \in 0..MaxRequests

\* A chart that shows the spinner has something that will take it away: either
\* its query is still to be started, or the request whose controller is stored
\* (not an older one) has not reached the end of its promise chain.
LoadingHasRequest ==
    chart.status = "loading" /\ ~chart.trigger =>
        /\ chart.controller # 0
        /\ pc[chart.controller] \in Active \union {"hung"}

\* The rows shown are those of the youngest request that ever delivered any.
Fresh == chart.shown \in {0, newest}

\* Rows never go back in time, because exploreJSON aborts the request before: on a
\* page without GlobalAsyncQueries and for an entry that stays.  The job of an
\* aborted request and the requests of a removed entry are not stopped, and their
\* rows may replace newer ones.
FreshData == ~Async /\ ~Removable => Fresh

\* The spinner of a mounted chart goes away, or its newest request is one that
\* exploreJSON cannot end by itself: it waits for a job of GlobalAsyncQueries (no
\* timeout, and the job may be lost), or the user pressed Stop while the body of an
\* error was being read, which leaves the promise open.  Answers of older requests,
\* aborts, timeouts and failures never leave it spinning.
LoadingEnds ==
    chart.live /\ chart.status = "loading" ~>
        \/ ~chart.live
        \/ chart.status # "loading"
        \/ chart.controller # 0 /\ pc[chart.controller] \in {"job", "hung"}

=============================================================================
