---------------------------- MODULE SqlLabQuery ----------------------------
(***************************************************************************)
(* The life of one SQL Lab query row (table "query", one client_id):       *)
(*   - execute requests (commands/sqllab/execute.py) that insert the row,  *)
(*     hand it to a worker and write its metadata at the end;              *)
(*   - the worker (tasks/sql_lab.py), a Celery task when the query runs    *)
(*     asynchronously and a thread of the SQL Lab pool when it does not;   *)
(*   - stop requests (db/daos/query.py, commands/query/stop.py);           *)
(*   - the results backend that holds the result blob.                     *)
(*                                                                         *)
(* Every session reads committed data (READ COMMITTED) and the ORM writes  *)
(* a column only when its value differs from the one the session loaded.   *)
(* A request's session is committed when the handler returns and rolled    *)
(* back when it raises (dependencies.py, provide_async_session).           *)
(***************************************************************************)
EXTENDS Naturals

CONSTANTS
    Requests,   \* execute requests that carry the same client_id
    Stoppers,   \* stop requests for that client_id
    NumBlocks,  \* statements the script is split into
    MaxTries,   \* attempts of one stop request (controllers/query.py)
    Crashes     \* may a Celery worker be killed, or its message be lost?

ASSUME NumBlocksAssumption == NumBlocks \in Nat \ {0}
ASSUME MaxTriesAssumption == MaxTries \in Nat \ {0}
ASSUME CrashesAssumption == Crashes \in BOOLEAN

VARIABLES
    job,    \* how the query runs: [async, store, engine], fixed at the start
    row,    \* the committed row
    blob,   \* the result blob in the results backend
    req,    \* the execute requests
    wk,     \* the worker and the attributes its session has loaded
    stop,   \* the stop requests
    begun   \* history: blocks begun since the row last became STOPPED

vars == <<job, row, blob, req, wk, stop, begun>>

-----------------------------------------------------------------------------
(* State. *)

\* QueryStatus; SCHEDULED and FETCHING are written by no code of SQL Lab.
Status == {"PENDING", "RUNNING", "STOPPED", "FAILED", "SUCCESS", "TIMED_OUT"}
Terminal == {"STOPPED", "FAILED", "SUCCESS", "TIMED_OUT"}

\* The keys of extra_json that more than one actor writes.  "empty" is the
\* {} or [] of a save_metadata call whose payload has no columns.
Extra == [cancel : BOOLEAN, columns : {"none", "empty", "real"}]
NewExtra == [cancel |-> FALSE, columns |-> "none"]

\* "explicit": the cancel id is known before execution (PostgreSQL, MySQL);
\* "implicit": the cursor is polled (Hive, Presto); "none": no cancellation.
Jobs == [async : BOOLEAN, store : BOOLEAN, engine : {"explicit", "implicit", "none"}]

Rows == [exists : BOOLEAN, status : Status, extra : Extra, key : BOOLEAN]

RequestPCs == {"start", "insert", "created", "dispatch", "finish", "waiting",
               "timedout", "resubmit", "done", "raised", "raised_timeout", "raised_unmarked"}

WorkerActive == {"checks", "connect", "block", "progress", "exec", "running",
                 "failing", "finish", "commit", "returning", "error"}
WorkerPCs == WorkerActive \cup {"none", "queued", "cancelled", "done", "dead"}

Workers == [pc : WorkerPCs, status : Status, extra : Extra, blk : Nat,
            key : BOOLEAN,
            outcome : {"none", "stopped", "failed", "success", "exc", "unrecorded"}]

StopPCs == {"start", "cancel", "write", "stopped", "already", "notfound", "failed"}

TypeOK ==
    /\ job \in Jobs
    /\ row \in Rows
    /\ blob \in {"absent", "stored", "evicted"}
    /\ req \in [Requests -> [pc : RequestPCs, extra : Extra]]
    /\ wk \in Workers
    /\ stop \in [Stoppers -> [pc : StopPCs, seen : Status, cancel : BOOLEAN, tries : Nat]]
    /\ begun \in Nat

Init ==
    /\ job \in Jobs
    /\ row = [exists |-> FALSE, status |-> "PENDING", extra |-> NewExtra, key |-> FALSE]
    /\ blob = "absent"
    /\ req = [r \in Requests |-> [pc |-> "start", extra |-> NewExtra]]
    /\ wk = [pc |-> "none", status |-> "PENDING", extra |-> NewExtra, blk |-> 0,
             key |-> FALSE, outcome |-> "none"]
    /\ stop = [s \in Stoppers |-> [pc |-> "start", seen |-> "PENDING",
                                   cancel |-> FALSE, tries |-> 0]]
    /\ begun = 0

\* Commit new values of the row; the history variable restarts whenever the
\* row is not STOPPED.
Write(status, extra, key) ==
    /\ row' = [exists |-> TRUE, status |-> status, extra |-> extra, key |-> key]
    /\ begun' = IF status = "STOPPED" THEN begun ELSE 0

KeepRow == UNCHANGED <<row, begun>>

-----------------------------------------------------------------------------
(* Execute requests: ExecuteSQLCommand.run. *)

Goto(r, pc) == req' = [req EXCEPT ![r].pc = pc]

\* A query with this client_id that is PENDING, RUNNING or TIMED_OUT answers
\* the request: its row is loaded, and save_metadata blanks the columns of the
\* loaded copy.  Any other state falls through to the insertion.
Lookup(r) ==
    /\ req[r].pc = "start"
    /\ IF row.exists /\ row.status \in {"RUNNING", "PENDING", "TIMED_OUT"}
       THEN req' = [req EXCEPT ![r] = [pc |-> "resubmit", extra |-> row.extra]]
       ELSE Goto(r, "insert")
    /\ KeepRow
    /\ UNCHANGED <<job, blob, wk, stop>>

\* A lookup that raises is taken for one that found nothing.
LookupFails(r) ==
    /\ req[r].pc = "start"
    /\ Goto(r, "insert")
    /\ KeepRow
    /\ UNCHANGED <<job, blob, wk, stop>>

\* The request that found an existing query commits its copy of extra_json,
\* unless blanking the columns did not change it.
FinishResubmit(r) ==
    /\ req[r].pc = "resubmit"
    /\ IF req[r].extra.columns = "empty"
       THEN KeepRow
       ELSE Write(row.status, [req[r].extra EXCEPT !.columns = "empty"], row.key)
    /\ Goto(r, "done")
    /\ UNCHANGED <<job, blob, wk, stop>>

\* The INSERT waits for another uncommitted row with the same client_id and
\* violates the unique constraint when one is committed.
Insert(r) ==
    /\ req[r].pc = "insert"
    /\ \A other \in Requests : req[other].pc # "created"
    /\ Goto(r, IF row.exists THEN "raised" ELSE "created")
    /\ KeepRow
    /\ UNCHANGED <<job, blob, wk, stop>>

\* The database does not exist, access is denied, or rendering the template
\* or computing the limit fails.  FAILED is flushed, the exception propagates,
\* and the rollback of the request's session removes the row again.
RejectRequest(r) ==
    /\ req[r].pc \in {"insert", "created"}
    /\ Goto(r, "raised")
    /\ KeepRow
    /\ UNCHANGED <<job, blob, wk, stop>>

\* The row is committed before the work is handed over.
CommitCreated(r) ==
    /\ req[r].pc = "created"
    /\ Write("PENDING", NewExtra, FALSE)
    /\ Goto(r, IF job.async THEN "dispatch" ELSE "waiting")
    /\ wk' = IF job.async THEN wk ELSE [wk EXCEPT !.pc = "queued"]
    /\ UNCHANGED <<job, blob, stop>>

\* get_sql_results.delay publishes the task; the request goes on with the copy
\* of the row it inserted.
Dispatch(r) ==
    /\ req[r].pc = "dispatch"
    /\ wk' = [wk EXCEPT !.pc = "queued"]
    /\ Goto(r, "finish")
    /\ KeepRow
    /\ UNCHANGED <<job, blob, stop>>

\* delay or task.forget raises: FAILED is flushed and the exception rolls the
\* flush back.  The message may be in the queue nevertheless (forget raised, or
\* the broker's answer was lost).
DispatchFails(r) ==
    /\ req[r].pc = "dispatch"
    /\ \E published \in BOOLEAN :
          wk' = IF published THEN [wk EXCEPT !.pc = "queued"] ELSE wk
    /\ Goto(r, "raised")
    /\ KeepRow
    /\ UNCHANGED <<job, blob, stop>>

\* Mutant: the assignment of PENDING after the dispatch reaches the database,
\* as it would if the commit before the dispatch expired the loaded row.
FinishDispatchWritesPending(r) ==
    /\ req[r].pc = "finish"
    /\ Write("PENDING", [req[r].extra EXCEPT !.columns = "empty"], row.key)
    /\ Goto(r, "done")
    /\ UNCHANGED <<job, blob, wk, stop>>

\* status = PENDING is no change for the session that inserted PENDING, so only
\* extra_json, blanked by save_metadata, is written when the request commits.
FinishDispatch(r) ==
    /\ req[r].pc = "finish"
    /\ Write(row.status, [req[r].extra EXCEPT !.columns = "empty"], row.key)
    /\ Goto(r, "done")
    /\ UNCHANGED <<job, blob, wk, stop>>

\* asyncio.wait_for gives up: a job still queued in the pool is cancelled, a
\* thread that runs keeps running.
SyncTimeout(r) ==
    /\ req[r].pc = "waiting"
    /\ Goto(r, "timedout")
    /\ wk' = IF wk.pc = "queued" THEN [wk EXCEPT !.pc = "cancelled"] ELSE wk
    /\ KeepRow
    /\ UNCHANGED <<job, blob, stop>>

\* Mutant: the row gets the message of the timeout where its status belongs.
WriteTimedOutUntyped(r) ==
    /\ req[r].pc = "timedout"
    /\ Write("SQL Lab query timed out", row.extra, row.key)
    /\ Goto(r, "raised_timeout")
    /\ UNCHANGED <<job, blob, wk, stop>>

\* TIMED_OUT is committed by the request that gave up, over whatever the
\* thread has committed meanwhile.
WriteTimedOut(r) ==
    /\ req[r].pc = "timedout"
    /\ Write("TIMED_OUT", row.extra, row.key)
    /\ Goto(r, "raised_timeout")
    /\ UNCHANGED <<job, blob, wk, stop>>

\* Mutant: the exception of the thread is mapped and raised without marking
\* the row.
SyncRaisesUnmarked(r) ==
    /\ req[r].pc = "waiting"
    /\ wk.pc = "done" /\ wk.outcome = "exc"
    /\ KeepRow
    /\ Goto(r, "raised")
    /\ UNCHANGED <<job, blob, wk, stop>>

\* execute_sql_statements raised: the row becomes FAILED whatever it was.
SyncRaises(r) ==
    /\ req[r].pc = "waiting"
    /\ wk.pc = "done" /\ wk.outcome = "exc"
    /\ Write("FAILED", row.extra, row.key)
    /\ Goto(r, "raised")
    /\ UNCHANGED <<job, blob, wk, stop>>

\* Marking the row fails as well: that is logged, and the exception of the
\* thread is raised all the same.
MarkingFails(r) ==
    /\ req[r].pc = "waiting"
    /\ wk.pc = "done" /\ wk.outcome = "exc"
    /\ KeepRow
    /\ Goto(r, "raised_unmarked")
    /\ UNCHANGED <<job, blob, wk, stop>>

\* A payload with status FAILED is raised; the worker has marked the row.
SyncFailed(r) ==
    /\ req[r].pc = "waiting"
    /\ wk.pc = "done" /\ wk.outcome = "failed"
    /\ KeepRow
    /\ Goto(r, "raised")
    /\ UNCHANGED <<job, blob, wk, stop>>

\* save_metadata with the payload's columns; the payload of a stopped query has
\* none.  The rollback before it has no transaction to end, so session.get
\* returns the copy of the row that the request has had since it inserted it.
SyncDone(r) ==
    /\ req[r].pc = "waiting"
    /\ wk.pc = "done" /\ wk.outcome \in {"stopped", "success"}
    /\ Write(row.status,
             [req[r].extra EXCEPT !.columns = IF wk.outcome = "success" THEN "real" ELSE "empty"],
             row.key)
    /\ Goto(r, "done")
    /\ UNCHANGED <<job, blob, wk, stop>>

\* A failure to save them is logged and changes nothing.
SaveMetadataFails(r) ==
    /\ req[r].pc = "waiting"
    /\ wk.pc = "done" /\ wk.outcome \in {"stopped", "success"}
    /\ KeepRow
    /\ Goto(r, "done")
    /\ UNCHANGED <<job, blob, wk, stop>>

Request(r) ==
    \/ Lookup(r) \/ LookupFails(r) \/ FinishResubmit(r) \/ Insert(r) \/ RejectRequest(r)
    \/ CommitCreated(r) \/ Dispatch(r) \/ DispatchFails(r) \/ FinishDispatch(r)
    \/ SyncTimeout(r) \/ WriteTimedOut(r)
    \/ SyncRaises(r) \/ MarkingFails(r) \/ SyncFailed(r)
    \/ SyncDone(r) \/ SaveMetadataFails(r)

-----------------------------------------------------------------------------
(* The worker: execute_sql_statements, and get_sql_results around it. *)

Step(pc) == wk' = [wk EXCEPT !.pc = pc]
Finish(outcome) == wk' = [wk EXCEPT !.pc = "done", !.outcome = outcome]

\* Loading the row into the worker's session (a refresh, or the reload of an
\* object that a commit expired).
Load(pc) == wk' = [wk EXCEPT !.pc = pc, !.status = row.status, !.extra = row.extra]

Others == UNCHANGED <<job, req, stop>>

\* RUNNING is written over whatever the row holds.
StartRunning ==
    /\ wk.pc = "queued"
    /\ Write("RUNNING", row.extra, row.key)
    /\ Step("checks")
    /\ UNCHANGED blob /\ Others

\* The results backend is missing (before RUNNING is written), the script does
\* not parse, is not allowed, or the connection or a prequery fails.
RejectScript ==
    /\ wk.pc \in {"queued", "checks", "connect"}
    /\ KeepRow
    /\ Step("error")
    /\ UNCHANGED blob /\ Others

LoadQuery ==
    /\ wk.pc = "checks"
    /\ Load("connect")
    /\ KeepRow
    /\ UNCHANGED blob /\ Others

\* An explicit engine knows its cancel id before the first block: it is
\* committed with the copy of extra_json loaded before the connection.
PublishCancelId ==
    /\ wk.pc = "connect"
    /\ IF job.engine = "explicit"
       THEN Write(row.status, [wk.extra EXCEPT !.cancel = TRUE], row.key)
       ELSE KeepRow
    /\ Step("block")
    /\ UNCHANGED blob /\ Others

\* Mutant: the loop over the blocks does not refresh the row.
RefreshBlockUnchecked ==
    /\ wk.pc = "block"
    /\ Step("progress")
    /\ KeepRow
    /\ UNCHANGED blob /\ Others

\* Before each block the row is refreshed; a STOPPED row ends the work.
RefreshBlock ==
    /\ wk.pc = "block"
    /\ IF row.status = "STOPPED" THEN Finish("stopped") ELSE Load("progress")
    /\ KeepRow
    /\ UNCHANGED blob /\ Others

RecordProgress ==
    /\ wk.pc = "progress"
    /\ Write(row.status, wk.extra, row.key)
    /\ Step("exec")
    /\ UNCHANGED blob /\ Others

\* executed_sql is committed, the expired row is loaded again, and the cursor
\* starts to execute the block.
BeginBlock ==
    /\ wk.pc = "exec"
    /\ Load("running")
    /\ begun' = IF row.status = "STOPPED" THEN begun + 1 ELSE 0
    /\ UNCHANGED row
    /\ UNCHANGED blob /\ Others

\* Hive and Presto refresh the row between polls of the cursor; STOPPED cancels
\* the cursor, and what fetching then does is one of the outcomes below.
PollCursor ==
    /\ wk.pc = "running" /\ job.engine = "implicit"
    /\ Load("running")
    /\ KeepRow
    /\ UNCHANGED blob /\ Others

BlockSucceeds ==
    /\ wk.pc = "running"
    /\ wk' = [wk EXCEPT !.blk = wk.blk + 1,
                        !.pc = IF wk.blk + 1 = NumBlocks THEN "finish" ELSE "block"]
    /\ KeepRow
    /\ UNCHANGED blob /\ Others

\* The driver raises: a row that is STOPPED by now means the error is the
\* cancellation, anything else is an error of the query.
BlockFails ==
    /\ wk.pc = "running"
    /\ IF row.status = "STOPPED" THEN Finish("stopped") ELSE Load("failing")
    /\ KeepRow
    /\ UNCHANGED blob /\ Others

\* The refresh fails too: the copy that is loaded decides.
RefreshFails ==
    /\ wk.pc = "running"
    /\ IF wk.status = "STOPPED" THEN Finish("stopped") ELSE Step("failing")
    /\ KeepRow
    /\ UNCHANGED blob /\ Others

\* The soft time limit, and an OAuth2 redirect, skip that refresh.  The
\* TIMED_OUT the time limit assigns is replaced by FAILED before any commit.
BlockInterrupted ==
    /\ wk.pc = "running"
    /\ Step("failing")
    /\ KeepRow
    /\ UNCHANGED blob /\ Others

\* _handle_query_error on the session that executed the block.
HandleQueryError ==
    /\ wk.pc = "failing"
    /\ Write("FAILED", wk.extra, row.key)
    /\ Finish("failed")
    /\ UNCHANGED blob /\ Others

\* Committing the analytical connection or serializing fails, or the payload
\* is too large for the results backend.
FinishFails ==
    /\ wk.pc = "finish"
    /\ KeepRow
    /\ Step("error")
    /\ UNCHANGED blob /\ Others

SkipStore ==
    /\ wk.pc = "finish" /\ ~job.store
    /\ KeepRow
    /\ Step("commit")
    /\ UNCHANGED blob /\ Others

\* results_backend.set succeeds: only now is the key assigned.
StoreResults ==
    /\ wk.pc = "finish" /\ job.store
    /\ blob' = "stored"
    /\ wk' = [wk EXCEPT !.pc = "commit", !.key = TRUE]
    /\ KeepRow /\ Others

\* Mutant: the key is assigned before the outcome of the write is known.
StoreFailsKeepsKey ==
    /\ wk.pc = "finish" /\ job.store
    /\ wk' = [wk EXCEPT !.pc = "commit", !.key = TRUE]
    /\ KeepRow
    /\ UNCHANGED blob /\ Others

\* Without a stored blob an asynchronous query has lost its rows and fails; a
\* synchronous one still returns them.
StoreFails ==
    /\ wk.pc = "finish" /\ job.store
    /\ IF job.async
       THEN /\ Write("FAILED", [wk.extra EXCEPT !.columns = "real"], FALSE)
            /\ Step("error")
       ELSE /\ KeepRow
            /\ Step("commit")
    /\ UNCHANGED blob /\ Others

\* SUCCESS is written unless the loaded status is FAILED; the loaded status is
\* the one of the last block's start.
CommitSuccess ==
    /\ wk.pc = "commit"
    /\ Write(IF wk.status = "FAILED" THEN row.status ELSE "SUCCESS",
             [wk.extra EXCEPT !.columns = "real"], wk.key)
    /\ Step("returning")
    /\ UNCHANGED blob /\ Others

WorkerReturns ==
    /\ wk.pc = "returning"
    /\ KeepRow
    /\ Finish("success")
    /\ UNCHANGED blob /\ Others

\* With return_results the size is checked again, after SUCCESS is committed.
PayloadTooLarge ==
    /\ wk.pc = "returning" /\ ~job.async
    /\ KeepRow
    /\ Step("error")
    /\ UNCHANGED blob /\ Others

\* The soft time limit of the Celery task outside _execute_query; raised while
\* an error is recorded, it is RecordErrorFails.
SoftTimeLimit ==
    /\ job.async
    /\ wk.pc \in WorkerActive \ {"running", "error"}
    /\ KeepRow
    /\ Step("error")
    /\ UNCHANGED blob /\ Others

\* Mutant: the Celery entry point lets the exception go unrecorded.
RecordErrorDropped ==
    /\ wk.pc = "error" /\ job.async
    /\ KeepRow
    /\ Finish("failed")
    /\ UNCHANGED blob /\ Others

\* get_sql_results records whatever escaped, on a freshly loaded row.
RecordError ==
    /\ wk.pc = "error" /\ job.async
    /\ Write("FAILED", row.extra, row.key)
    /\ Finish("failed")
    /\ UNCHANGED blob /\ Others

\* The row cannot be loaded or written, or the soft time limit is raised while
\* the error is recorded: that is logged, and the task ends without a verdict.
RecordErrorFails ==
    /\ wk.pc = "error" /\ job.async
    /\ KeepRow
    /\ Finish("unrecorded")
    /\ UNCHANGED blob /\ Others

\* In a pool thread the exception becomes the result of the future.
RaiseToRequest ==
    /\ wk.pc = "error" /\ ~job.async
    /\ KeepRow
    /\ Finish("exc")
    /\ UNCHANGED blob /\ Others

\* The hard time limit, a killed worker process (task_acks_late is off, so the
\* task is not delivered again) or a message lost by the broker.
WorkerCrash ==
    /\ Crashes /\ job.async
    /\ wk.pc \in WorkerActive \cup {"queued"}
    /\ KeepRow
    /\ Step("dead")
    /\ UNCHANGED blob /\ Others

WorkerStep ==
    \/ StartRunning \/ RejectScript \/ LoadQuery \/ PublishCancelId
    \/ RefreshBlock \/ RecordProgress \/ BeginBlock
    \/ BlockSucceeds \/ BlockFails \/ RefreshFails \/ BlockInterrupted \/ HandleQueryError
    \/ FinishFails \/ SkipStore \/ StoreResults \/ StoreFails
    \/ CommitSuccess \/ WorkerReturns \/ PayloadTooLarge \/ SoftTimeLimit
    \/ RecordError \/ RecordErrorFails \/ RaiseToRequest

-----------------------------------------------------------------------------
(* Stop requests: AsyncQueryDAO.stop_query under the controller's retries. *)

KeepWork == UNCHANGED <<job, blob, req, wk>>

StopNotFound(s) ==
    /\ stop[s].pc = "start" /\ ~row.exists
    /\ stop' = [stop EXCEPT ![s].pc = "notfound"]
    /\ KeepRow /\ KeepWork

\* A finished query is left alone.  STOPPED is not in the list: a repeated stop
\* tries the cancellation again.
StopFinished(s) ==
    /\ stop[s].pc = "start" /\ row.exists
    /\ row.status \in {"FAILED", "SUCCESS", "TIMED_OUT"}
    /\ stop' = [stop EXCEPT ![s].pc = "already"]
    /\ KeepRow /\ KeepWork

StopRead(s) ==
    /\ stop[s].pc = "start" /\ row.exists
    /\ row.status \notin {"FAILED", "SUCCESS", "TIMED_OUT"}
    /\ stop' = [stop EXCEPT ![s].pc = "cancel", ![s].seen = row.status,
                            ![s].cancel = row.extra.cancel]
    /\ KeepRow /\ KeepWork

\* cancel_query runs in a thread.  It answers TRUE at once for an implicit
\* engine and FALSE without a cancel id; otherwise the engine decides.
StopCancel(s) ==
    /\ stop[s].pc = "cancel"
    /\ \E ok \in BOOLEAN :
          /\ job.engine = "implicit" => ok
          /\ job.engine # "implicit" /\ ~stop[s].cancel => ~ok
          /\ stop' = [stop EXCEPT ![s].pc = IF ok THEN "write" ELSE "failed"]
    /\ KeepRow /\ KeepWork

\* The connection for the cancellation raises: the controller rolls back and
\* tries again, MaxTries times in all.
StopRetry(s) ==
    /\ stop[s].pc = "cancel" /\ job.engine # "implicit" /\ stop[s].cancel
    /\ stop' = [stop EXCEPT ![s].tries = @ + 1,
                            ![s].pc = IF stop[s].tries + 1 < MaxTries THEN "start" ELSE "failed"]
    /\ KeepRow /\ KeepWork

\* STOPPED is committed with the request, on the status read before the
\* cancellation; a status that was STOPPED already is not written again.
StopWrite(s) ==
    /\ stop[s].pc = "write"
    /\ Write(IF stop[s].seen = "STOPPED" THEN row.status ELSE "STOPPED", row.extra, row.key)
    /\ stop' = [stop EXCEPT ![s].pc = "stopped"]
    /\ KeepWork

StopStep(s) ==
    \/ StopNotFound(s) \/ StopFinished(s) \/ StopRead(s)
    \/ StopCancel(s) \/ StopRetry(s) \/ StopWrite(s)

-----------------------------------------------------------------------------
(* The results backend. *)

\* The blob lives for the cache timeout it was stored with.
EvictBlob ==
    /\ blob = "stored"
    /\ blob' = "evicted"
    /\ UNCHANGED <<job, row, req, wk, stop, begun>>

\* The answer of GetSQLResultsCommand to a client that asks for the rows.
ResultsStatus ==
    IF ~row.exists \/ ~row.key THEN 404
    ELSE IF blob # "stored" THEN 410
    ELSE 200

-----------------------------------------------------------------------------
Next ==
    \/ \E r \in Requests : Request(r)
    \/ WorkerStep \/ PollCursor \/ WorkerCrash \/ EvictBlob
    \/ \E s \in Stoppers : StopStep(s)

\* A published task is taken by a worker, an admitted job by its thread, and
\* neither waits for anything but the analytical database, which the time
\* limits bound; a request handler runs to its end.
Fairness ==
    /\ WF_vars(WorkerStep)
    /\ \A r \in Requests : WF_vars(Request(r))

Spec == Init /\ [][Next]_vars /\ Fairness

-----------------------------------------------------------------------------
(* Properties. *)

\* execute_sql_statements assigns results_key only after the blob is stored,
\* and an asynchronous query whose rows could not be stored never says SUCCESS:
\* unless the blob has expired, a client that sees SUCCESS can fetch the rows.
SuccessIsFetchable ==
    row.status = "SUCCESS" /\ job.async /\ job.store /\ blob # "evicted"
        => ResultsStatus = 200

\* A results_key in the row means that the blob has been stored, in every mode:
\* 410 always means "gone", never "not there yet".
KeyMeansStored == row.key => blob # "absent"

\* While the row stays STOPPED the worker begins at most one more block: the
\* refresh before each block notices the stop that came after the last one.
StopBoundsBlocks == begun <= 1

\* A worker that has ended has left a verdict in the row, unless writing the
\* verdict is what failed (get_sql_results and the request log that and go on).
\* A pool thread that raises relies on its request to write the verdict, so
\* there the request must have returned for a reason other than its timeout.
SettledIsTerminal ==
    /\ wk.pc = "done" /\ wk.outcome # "unrecorded"
    /\ job.async \/ \A r \in Requests :
                       req[r].pc \notin {"waiting", "timedout", "raised_timeout", "raised_unmarked"}
    => row.status \in Terminal

\* A query that has succeeded or failed is never shown as waiting or running
\* again, whatever request, worker or stop writes last.
NoResurrection ==
    [][row.status \in {"SUCCESS", "FAILED"} => row.status' \notin {"PENDING", "RUNNING"}]_vars

\* A published task leads to a verdict in the row, or to a failure to record one
\* that get_sql_results has logged: no path through the worker, the soft time
\* limit included, ends silently without either.
TaskSettles ==
    (job.async /\ wk.pc = "queued") ~> (row.status \in Terminal \/ wk.outcome = "unrecorded")

\* "Any exception after Query creation must mark the row FAILED so it never
\* stays PENDING" (commands/sqllab/execute.py): once the request has raised and
\* no worker has the query, the row is not PENDING.
ErrorNeverLeavesPending ==
    (\E r \in Requests : req[r].pc = "raised")
      /\ (\A r \in Requests : req[r].pc \in {"start", "raised", "done"})
      /\ wk.pc = "none" /\ row.exists
        => row.status # "PENDING"

-----------------------------------------------------------------------------
(* The inductive invariant behind the safety properties. *)

\* A key is only ever assigned after the blob was stored.
InvKey ==
    /\ row.key => blob # "absent" /\ row.exists
    /\ wk.key => blob # "absent"

\* SUCCESS of an asynchronous query that stores its rows carries the key.
InvSuccess ==
    job.async /\ job.store =>
        /\ row.status = "SUCCESS" => row.key
        /\ wk.pc = "commit" => wk.key

\* A block that began under STOPPED leaves the worker past its last refresh.
InvBlocks ==
    /\ row.status # "STOPPED" => begun = 0
    /\ begun <= 1
    /\ begun = 1 => wk.pc \notin {"progress", "exec"}

\* The row is inserted once, handed over once, and no worker has it before.
InvCreation ==
    /\ \A r, q \in Requests :
          /\ req[r].pc = "created" /\ req[q].pc = "created" => r = q
          /\ req[r].pc = "dispatch" /\ req[q].pc = "dispatch" => r = q
    /\ \A r \in Requests :
          /\ req[r].pc = "created" => ~row.exists
          /\ req[r].pc \in {"dispatch", "finish"} => row.exists
          /\ req[r].pc \in {"waiting", "timedout"} => row.exists
          /\ req[r].pc = "resubmit" => row.exists
          /\ req[r].pc = "dispatch" => wk.pc = "none" /\ job.async
          /\ req[r].pc \in {"waiting", "timedout"} => ~job.async /\ wk.pc # "none"
    /\ \A s \in Stoppers : stop[s].pc \in {"cancel", "write"} => row.exists
    /\ ~row.exists => wk.pc = "none" /\ row.status = "PENDING"

\* SUCCESS and FAILED are written when the worker has nothing left to write
\* but its verdict, and a worker that has ended, or the request that waits for
\* it, has the verdict in the row.
InvVerdict ==
    /\ row.status \in {"SUCCESS", "FAILED"} => wk.pc \in {"error", "returning", "done", "dead"}
    /\ wk.status # "FAILED"
    /\ wk.pc = "returning" => row.status \in Terminal
    /\ wk.pc = "running" /\ wk.status = "STOPPED" => row.status \in Terminal
    /\ wk.outcome = "exc" => ~job.async
    /\ wk.outcome = "unrecorded" => job.async
    /\ wk.pc = "done" /\ wk.outcome \notin {"exc", "unrecorded"} => row.status \in Terminal
    /\ ~job.async /\ wk.pc # "none" =>
          \/ \E r \in Requests :
                req[r].pc \in {"waiting", "timedout", "raised_timeout", "raised_unmarked"}
          \/ wk.pc = "done" /\ row.status \in Terminal

Inv == TypeOK /\ InvKey /\ InvSuccess /\ InvBlocks /\ InvCreation /\ InvVerdict
=============================================================================
