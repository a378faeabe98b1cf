---------------------------- MODULE SqlLabClient ----------------------------
(***************************************************************************)
(* One query in the SQL Lab page: the entry of the Redux store that the    *)
(* execute request, the status poll, the results request and the stop      *)
(* request all write, against the backend's promise (QueryRow).            *)
(* Answers carry what the server knew when it made them.                   *)
(***************************************************************************)
EXTENDS QueryRow, Naturals, FiniteSets

CONSTANTS
    MaxStops,    \* clicks on Stop
    MaxFetches,  \* results requests in all
    MaxFaults    \* requests that fail on the way, and remounts of the pane

ASSUME ClientBounds == {MaxStops, MaxFetches, MaxFaults} \subseteq Nat

VARIABLES
    setup,    \* the database and the network of this query; it never changes
    aged,     \* the query is older than MAX_QUERY_AGE_TO_POLL, six hours
    entry,    \* queries[id] of the store
    post,     \* the execute request
    polls,    \* status requests in flight
    fetches,  \* results requests in flight, sent for a query that was stopped
              \* (muted) or not (open), and how many there were
    stopReq,  \* the stop request
    shown,    \* resultsKey at the last render of the results pane
    cleaned,  \* cleanInactiveRequestRef
    stops,    \* clicks so far
    faults,   \* faults so far
    won       \* history: the execution has succeeded

clientVars == <<entry, post, polls, fetches, stopReq, shown, cleaned, stops, faults, won>>
vars == <<setup, aged, rowVars, clientVars>>

-----------------------------------------------------------------------------
\* Does the database run queries asynchronously?
RunAsync == setup.async
\* May a poll more than two seconds old precede the row?
SlowPost == setup.slow

Active == {"pending", "running", "fetching"}
Concluded == {"stopped", "failed", "success", "timed_out"}

\* The store's name for a status.
Lower ==
    [s \in Statuses \ {"ABSENT"} |->
        CASE s = "PENDING" -> "pending" [] s = "RUNNING" -> "running"
          [] s = "STOPPED" -> "stopped" [] s = "FAILED" -> "failed"
          [] s = "SUCCESS" -> "success" [] s = "TIMED_OUT" -> "timed_out"]

\* "gone": the store has no such query.  rows: results.status is "success".
Entries == [state : {"gone"} \cup Active \cup Concluded, key : BOOLEAN, rows : BOOLEAN]

\* A status request before and after the server has read the row.
Unread == [read |-> FALSE, status |-> "ABSENT", key |-> FALSE]

TypeOK ==
    /\ RowTypeOK
    /\ setup \in [async : BOOLEAN, slow : BOOLEAN] /\ aged \in BOOLEAN
    /\ entry \in Entries
    /\ post \in {"none", "sent", "ok", "void", "error", "done"}
    /\ polls \subseteq [read : BOOLEAN, status : Statuses, key : BOOLEAN]
    /\ fetches \in [open : 0..MaxFetches, muted : 0..MaxFetches, all : 0..MaxFetches]
    /\ stopReq \in {"none", "sent", "ok"}
    /\ shown \in BOOLEAN /\ cleaned \in BOOLEAN
    /\ stops \in 0..MaxStops /\ faults \in 0..MaxFaults
    /\ won \in BOOLEAN

\* An asynchronous query stores its rows, unless it is a CREATE TABLE AS.
Init ==
    /\ RowInit
    /\ setup \in [async : BOOLEAN, slow : BOOLEAN] /\ aged = FALSE
    /\ fetchable => RunAsync
    /\ entry = [state |-> "gone", key |-> FALSE, rows |-> FALSE]
    /\ post = "none" /\ polls = {} /\ stopReq = "none"
    /\ fetches = [open |-> 0, muted |-> 0, all |-> 0]
    /\ shown = FALSE /\ cleaned = FALSE
    /\ stops = 0 /\ faults = 0 /\ won = FALSE

KeepRow == UNCHANGED rowVars
Fault == faults < MaxFaults /\ faults' = faults + 1

-----------------------------------------------------------------------------
(* The execute request: runQuery. *)

RunQuery ==
    /\ post = "none"
    /\ post' = "sent"
    /\ entry' = [state |-> IF RunAsync THEN "pending" ELSE "running", key |-> FALSE, rows |-> FALSE]
    /\ KeepRow
    /\ UNCHANGED <<polls, fetches, stopReq, shown, cleaned, stops, faults, won>>

\* QUERY_SUCCESS.  The guard compares the state of the query object that was
\* sent, which nobody updates, with QueryState.STOPPED, which does not exist.
QuerySuccess(withKey) ==
    entry' = [state |-> "success", key |-> entry.key \/ withKey, rows |-> TRUE]

\* QUERY_FAILED for an object that, when it was sent, did not say stopped: the
\* execute request's says pending or running; for the others see FetchFails.
QueryFailed == entry' = [entry EXCEPT !.state = "failed"]

\* Mutant: the acceptance of an asynchronous query is taken for its result.
PostAnswerIgnoresAsync ==
    /\ post \in {"ok", "void", "error"}
    /\ post' = "done"
    /\ CASE post = "ok" -> QuerySuccess(key)
         [] post = "error" -> QueryFailed
         [] OTHER -> UNCHANGED entry
    /\ KeepRow
    /\ UNCHANGED <<polls, fetches, stopReq, shown, cleaned, stops, faults, won>>

\* The answer of an asynchronous execution says only that it was accepted.
PostAnswer ==
    /\ post \in {"ok", "void", "error"}
    /\ post' = "done"
    /\ CASE post = "ok" /\ ~RunAsync -> QuerySuccess(key)
         [] post = "error" -> QueryFailed
         [] OTHER -> UNCHANGED entry
    /\ KeepRow
    /\ UNCHANGED <<polls, fetches, stopReq, shown, cleaned, stops, faults, won>>

\* The request is refused, or its answer is lost.
PostFails ==
    /\ post \in {"sent", "ok", "void"}
    /\ Fault
    /\ post' = "error"
    /\ KeepRow
    /\ UNCHANGED <<entry, polls, fetches, stopReq, shown, cleaned, stops, won>>

-----------------------------------------------------------------------------
(* The backend, and the answer it gives to the execute request. *)

\* What the answer becomes; an answer already made stays.
Answer(a) == post' = IF post = "sent" THEN a ELSE post

ServerCreates ==
    /\ post = "sent" /\ Create
    /\ IF RunAsync THEN Answer("ok") ELSE UNCHANGED post
    /\ UNCHANGED won

ServerGivesUp ==
    /\ GiveUp
    /\ IF ~RunAsync /\ status = "STOPPED" THEN Answer("void") ELSE UNCHANGED post
    /\ UNCHANGED won

ServerSucceeds ==
    /\ Succeed
    /\ IF RunAsync THEN UNCHANGED post ELSE Answer("ok")
    /\ won' = TRUE

\* A result found too large after SUCCESS replaces an answer not yet sent.
ServerFails ==
    /\ Fail
    /\ post' = IF ~RunAsync /\ post \in {"sent", "ok"} THEN "error" ELSE post
    /\ UNCHANGED won

ServerTimesOut ==
    /\ ~RunAsync /\ post = "sent" /\ TimeOut
    /\ Answer("error")
    /\ UNCHANGED won

Server ==
    /\ \/ ServerCreates \/ ServerGivesUp \/ ServerSucceeds \/ ServerFails \/ ServerTimesOut
       \/ (Start \/ Store \/ Evict) /\ UNCHANGED <<post, won>>
    /\ UNCHANGED <<entry, polls, fetches, stopReq, shown, cleaned, stops, faults>>

\* Without a crash the execution goes on to its end.
ServerProgress ==
    /\ \/ ServerCreates \/ ServerSucceeds
       \/ Start /\ UNCHANGED <<post, won>>
       \/ Store /\ blob = "absent" /\ UNCHANGED <<post, won>>
    /\ UNCHANGED <<entry, polls, fetches, stopReq, shown, cleaned, stops, faults>>

-----------------------------------------------------------------------------
(* The status poll: QueryAutoRefresh. *)

\* shouldCheckForQueries.
ShouldCheck == entry.state \in Active /\ ~aged

\* Six hours have passed since the query was started (noticed while it is active:
\* nothing asks for its age otherwise).
Age ==
    /\ ShouldCheck
    /\ aged' = TRUE
    /\ UNCHANGED <<setup, rowVars, clientVars>>

\* Mutant: a new request is sent while another is in flight.
CheckForRefreshAgain ==
    /\ ShouldCheck
    /\ Cardinality(polls) < 2
    /\ polls' = polls \cup {Unread}
    /\ KeepRow
    /\ UNCHANGED <<entry, post, fetches, stopReq, shown, cleaned, stops, faults, won>>

\* One request at a time, and only while a query is active and not too old.
CheckForRefresh ==
    /\ ShouldCheck
    /\ polls = {}
    /\ polls' = {Unread}
    /\ KeepRow
    /\ UNCHANGED <<entry, post, fetches, stopReq, shown, cleaned, stops, faults, won>>

\* The server reads the row; the five seconds of overlap make sure that a row
\* that has not changed since is part of the answer.
UpdatedSince(p) ==
    /\ ~p.read
    /\ polls' = (polls \ {p}) \cup {[read |-> TRUE, status |-> status, key |-> key]}
    /\ KeepRow
    /\ UNCHANGED <<entry, post, fetches, stopReq, shown, cleaned, stops, faults, won>>

\* Mutant: the status is taken as the server spells it.
RefreshedUntranslated(p) ==
    [entry EXCEPT !.key = p.key,
                  !.state = IF p.status = "SUCCESS" /\ @ \in {"fetching", "success", "running"}
                            THEN @ ELSE p.status]

\* REFRESH_QUERIES for a query that is neither stopped nor failed: SUCCESS does
\* not replace running, fetching and success; the results request will.
Refreshed(p) ==
    [entry EXCEPT !.key = p.key,
                  !.state = IF p.status = "SUCCESS" /\ @ \in {"fetching", "success", "running"}
                            THEN @ ELSE Lower[p.status]]

\* CLEAR_INACTIVE_QUERIES: an entry older than two seconds that has made no
\* progress is dropped; a state that lags behind its results catches up.
ClearInactive(old) ==
    entry' = IF old /\ entry.state \in {"running", "pending"}
             THEN [state |-> "gone", key |-> FALSE, rows |-> FALSE]
             ELSE IF entry.key /\ entry.rows THEN [entry EXCEPT !.state = "success"]
             ELSE entry

RefreshQueries(p) ==
    /\ p.read
    /\ polls' = polls \ {p}
    /\ IF p.status = "ABSENT"
       THEN \E old \in {FALSE, SlowPost} : ClearInactive(old)
       ELSE entry' = IF entry.state \in {"stopped", "failed"} THEN entry ELSE Refreshed(p)
    /\ KeepRow
    /\ UNCHANGED <<post, fetches, stopReq, shown, cleaned, stops, faults, won>>

PollFails(p) ==
    /\ Fault
    /\ polls' = polls \ {p}
    /\ KeepRow
    /\ UNCHANGED <<entry, post, fetches, stopReq, shown, cleaned, stops, won>>

\* Once, at the first tick that finds nothing to ask for.
CleanOnce ==
    /\ ~cleaned /\ ~ShouldCheck
    /\ cleaned' = TRUE
    /\ \E old \in {FALSE, aged} : ClearInactive(old)
    /\ KeepRow
    /\ UNCHANGED <<post, polls, fetches, stopReq, shown, stops, faults, won>>

-----------------------------------------------------------------------------
(* The results pane: ResultSet. *)

FetchQueryResults ==
    /\ fetches.all < MaxFetches
    /\ fetches' = IF entry.state = "stopped"
                  THEN [fetches EXCEPT !.muted = @ + 1, !.all = @ + 1]
                  ELSE [fetches EXCEPT !.open = @ + 1, !.all = @ + 1]
    /\ entry' = [entry EXCEPT !.state = "fetching"]

\* Mutant: the effect does not look for a key that has appeared.
RenderNoFetch ==
    /\ shown # entry.key
    /\ shown' = entry.key
    /\ UNCHANGED <<entry, fetches>>
    /\ KeepRow
    /\ UNCHANGED <<post, polls, stopReq, cleaned, stops, faults, won>>

\* The effect after a render: a key that was not there before is fetched.
Render ==
    /\ shown # entry.key
    /\ shown' = entry.key
    /\ IF entry.key THEN FetchQueryResults ELSE UNCHANGED <<entry, fetches>>
    /\ KeepRow
    /\ UNCHANGED <<post, polls, stopReq, cleaned, stops, faults, won>>

\* Another tab of the page and back: the pane has no previous key.
Remount ==
    /\ shown /\ Fault
    /\ fetches.all < MaxFetches
    /\ shown' = FALSE
    /\ KeepRow
    /\ UNCHANGED <<entry, post, polls, fetches, stopReq, cleaned, stops, won>>

\* "Retry fetching results" after a timeout of the page, and "Refetch results"
\* of a query that is successful without results.
Refetch ==
    /\ entry.key
    /\ entry.state = "failed" \/ (entry.state = "success" /\ ~entry.rows)
    /\ FetchQueryResults
    /\ KeepRow
    /\ UNCHANGED <<post, polls, stopReq, shown, cleaned, stops, faults, won>>

\* A results request ends.
OpenFetched == fetches.open > 0 /\ fetches' = [fetches EXCEPT !.open = @ - 1]
MutedFetched == fetches.muted > 0 /\ fetches' = [fetches EXCEPT !.muted = @ - 1]

FetchAnswer ==
    /\ key /\ blob # "absent"
    /\ OpenFetched \/ MutedFetched
    /\ QuerySuccess(TRUE)
    /\ KeepRow
    /\ UNCHANGED <<post, polls, stopReq, shown, cleaned, stops, faults, won>>

\* The blob has expired, the request timed out or was lost.  QUERY_FAILED is
\* ignored when the query it carries was stopped.
FetchFails ==
    /\ (blob = "evicted" /\ UNCHANGED faults) \/ Fault
    /\ \/ OpenFetched /\ QueryFailed
       \/ MutedFetched /\ UNCHANGED entry
    /\ KeepRow
    /\ UNCHANGED <<post, polls, stopReq, shown, cleaned, stops, won>>

-----------------------------------------------------------------------------
(* The stop button: SqlEditor and postStopQuery. *)

PostStopQuery ==
    /\ stopReq = "none" /\ stops < MaxStops
    /\ entry.state \in {"running", "pending"}
    /\ stopReq' = "sent" /\ stops' = stops + 1
    /\ KeepRow
    /\ UNCHANGED <<entry, post, polls, fetches, shown, cleaned, faults, won>>

\* The server answers OK for a query that is finished, after STOPPED is
\* committed, and with an error when it is absent or cannot be cancelled.
StopHandled ==
    /\ stopReq = "sent"
    /\ \/ Stop /\ stopReq' = "ok"
       \/ KeepRow /\ status \in {"FAILED", "SUCCESS", "TIMED_OUT"} /\ stopReq' = "ok"
       \/ KeepRow /\ stopReq' = "none"
    /\ UNCHANGED <<entry, post, polls, fetches, shown, cleaned, stops, faults, won>>

\* STOP_QUERY also empties the results.
StopQuery ==
    /\ stopReq = "ok"
    /\ stopReq' = "none"
    /\ entry' = [entry EXCEPT !.state = "stopped", !.rows = FALSE]
    /\ KeepRow
    /\ UNCHANGED <<post, polls, fetches, shown, cleaned, stops, faults, won>>

-----------------------------------------------------------------------------
Step ==
    \/ RunQuery \/ PostAnswer \/ PostFails
    \/ Server
    \/ CheckForRefresh \/ CleanOnce
    \/ \E p \in polls : UpdatedSince(p) \/ RefreshQueries(p) \/ PollFails(p)
    \/ Render \/ Remount \/ Refetch \/ FetchAnswer \/ FetchFails
    \/ PostStopQuery \/ StopHandled \/ StopQuery

Others == UNCHANGED <<setup, aged>>

Next == (Step /\ Others) \/ Age

Spec == Init /\ [][Next]_vars

\* The interval ticks, a request is answered, React renders after a change and
\* the backend, without crashes, runs a query to its end.
Fairness ==
    /\ WF_vars(ServerProgress /\ Others)
    /\ WF_vars(PostAnswer /\ Others)
    /\ WF_vars(CheckForRefresh /\ Others)
    /\ WF_vars((\E p \in polls : UpdatedSince(p) \/ RefreshQueries(p)) /\ Others)
    /\ WF_vars(Render /\ Others)
    /\ WF_vars((FetchAnswer \/ FetchFails) /\ Others)
    /\ WF_vars(StopHandled /\ Others)
    /\ WF_vars(StopQuery /\ Others)

FairSpec == Spec /\ Fairness

-----------------------------------------------------------------------------
(* Properties. *)

\* The page asks for the rows only when the server has published the key, and
\* says success only when the execution has succeeded, whatever answers are
\* late, lost or about a stopped query.
NeverAheadOfServer ==
    /\ entry.key \/ shown \/ fetches.open + fetches.muted > 0 => key
    /\ entry.state \in {"fetching", "success"} => won

\* "because of async behavior, sql lab may still poll a couple of seconds when
\* it started fetching or finished rendering results" (REFRESH_QUERIES): no poll
\* turns an asynchronous query with results back into one that waits for its
\* execution.  A synchronous one has no results request to wait for, and a poll
\* read before its answer and applied after it does turn it back.
ResultsNotUndone ==
    [][RunAsync /\ entry.state = "success" /\ entry.rows
          => entry'.state \notin {"pending", "running"}]_vars

\* The end of an execution is recorded (the worker may die, or fail to record its
\* error).
EndsRecorded == phase = "ended" ~> status \in Terminal

\* The one request the page waits for has failed and nobody was told: it asked for
\* the results of a query that was stopped.
Muted == entry.state = "fetching" /\ fetches.open + fetches.muted = 0

\* A query that the page shows as active comes to a verdict on the page, through
\* stops, failures, expired results and lost requests, or polling ends after six
\* hours.  It must be asynchronous and store rows: the poll that says SUCCESS leaves
\* a running query running until its rows are asked for, and a CREATE TABLE AS has
\* none.  Its row must be there before the first poll is two seconds old (else the
\* page may drop the query: CLEAR_INACTIVE_QUERIES), and the backend must record how
\* the execution ended.  What it does not survive is the failure of a request for
\* the results of a stopped query, which QUERY_FAILED ignores.
EveryQueryConcludes ==
    EndsRecorded =>
        (RunAsync /\ fetchable /\ ~SlowPost /\ entry.state \in Active
            ~> entry.state \in Concluded \/ Muted \/ aged)
=============================================================================
