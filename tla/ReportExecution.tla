--------------------------- MODULE ReportExecution ---------------------------
(***************************************************************************)
(* Executions of one alert or report (commands/report_execute.py), run as  *)
(* Celery tasks that the scheduler sends out while the schedule is active  *)
(* (tasks/scheduler.py).  Each loads the schedule, picks the state class   *)
(* of its last_state and commits a state and a log row at every            *)
(* transition.  Around them: the user who deactivates, activates or        *)
(* deletes the schedule (commands/report.py) and the task that prunes old  *)
(* logs (commands/report_log_prune.py).                                    *)
(*                                                                         *)
(* Time is the age of the log rows the code looks for, in units of Tick.   *)
(* The ORM writes last_state only if it differs from the value loaded.     *)
(***************************************************************************)
EXTENDS Naturals

CONSTANTS
    Execs,          \* executions that may run at the same time
    Grace,          \* grace_period
    WorkingTimeout, \* working_timeout, at least 1; 0 stands for null
    Updates,        \* may the user deactivate, activate or delete the schedule?
    Prunes          \* may logs be pruned before the working timeout is over?

ASSUME GraceAssumption == Grace \in Nat \ {0}
ASSUME WorkingTimeoutAssumption == WorkingTimeout \in Nat
ASSUME UpdatesAssumption == Updates \in BOOLEAN
ASSUME PrunesAssumption == Prunes \in BOOLEAN

VARIABLES
    kind,   \* ReportScheduleType, fixed at the start
    row,    \* the committed schedule
    log,    \* what the queries over the execution log can find
    ex,     \* the executions and the last_state their session has loaded
    upd     \* the update request of the user

vars == <<kind, row, log, ex, upd>>

-----------------------------------------------------------------------------
(* State. *)

States == {"NOOP", "WORKING", "SUCCESS", "ERROR", "GRACE"}

\* state is last_state.
Rows == [exists : BOOLEAN, active : BOOLEAN, state : States]

\* entered: a log of entering WORKING exists, and its age, which no query tells
\* apart beyond the timeout; success, mail: the age of the last SUCCESS and of
\* the last error notification, Grace standing for "older, or none";
\* other: a log that is neither ERROR nor WORKING exists; mailAfterOther: one
\* existed when the last error notification was logged; onlyErrors (history):
\* no such log has been added since.
Logs == [entered : BOOLEAN, enteredAge : 0..(WorkingTimeout + 1),
         success : 0..Grace, mail : 0..Grace,
         other : BOOLEAN, mailAfterOther : BOOLEAN, onlyErrors : BOOLEAN]

ExecPCs == {"idle", "queued", "loaded", "entered", "evaluate", "send", "sent", "failed",
            "logged", "notify", "mailed", "unmailed"}

\* from: the state class that runs, "first" for NotTriggeredError and "again"
\* for Success.
Executions == [Execs -> [pc : ExecPCs, loaded : States, from : {"first", "again"}]]

TypeOK ==
    /\ kind \in {"alert", "report"}
    /\ row \in Rows
    /\ log \in Logs
    /\ ex \in Executions
    /\ upd \in [pc : {"idle", "read"}, seen : States]

\* No execution runs here, or the one that did has let go of its session.
Ended == [pc |-> "idle", loaded |-> "NOOP", from |-> "first"]

\* A commit has expired the copy; what it was does not matter any more.
Committed(pc, from) == [pc |-> pc, loaded |-> "NOOP", from |-> from]

\* Nothing is logged.
NoLog == [entered |-> FALSE, enteredAge |-> WorkingTimeout + 1, success |-> Grace, mail |-> Grace,
          other |-> FALSE, mailAfterOther |-> FALSE, onlyErrors |-> FALSE]

Init ==
    /\ kind \in {"alert", "report"}
    /\ row = [exists |-> TRUE, active |-> TRUE, state |-> "NOOP"]
    /\ log = NoLog
    /\ ex = [e \in Execs |-> Ended]
    /\ upd = [pc |-> "idle", seen |-> "NOOP"]

\* create_log: the row found later for each kind of log.
Entered == [log EXCEPT !.entered = TRUE, !.enteredAge = 0]
Succeeded == [log EXCEPT !.success = 0, !.other = TRUE, !.onlyErrors = FALSE]
Other == [log EXCEPT !.other = TRUE, !.onlyErrors = FALSE]
Mailed == [log EXCEPT !.mail = 0, !.mailAfterOther = log.other, !.onlyErrors = TRUE]

Continue(e, pc) ==
    ex' = [ex EXCEPT ![e] = IF pc = "idle" THEN Ended ELSE [ex[e] EXCEPT !.pc = pc]]

Goto(e, pc) == Continue(e, pc) /\ UNCHANGED <<row, log>>
End(e) == Goto(e, "idle")

\* update_report_schedule_and_log: last_state is written if it is not what the
\* session has loaded.  The commit expires the copy, and the next access loads
\* it again.  If the schedule is gone the commit raises StaleDataError, which
\* ends the execution.
UpdateAndLog(e, state, newLog, pc) ==
    IF row.exists
    THEN /\ row' = [row EXCEPT !.state = IF ex[e].loaded = state THEN row.state ELSE state]
         /\ log' = newLog
         /\ Continue(e, pc)
    ELSE End(e)

Load(e, pc) ==
    IF row.exists
    THEN /\ ex' = [ex EXCEPT ![e].pc = pc, ![e].loaded = row.state]
         /\ UNCHANGED <<row, log>>
    ELSE End(e)

Others == UNCHANGED <<kind, upd>>

-----------------------------------------------------------------------------
(* ExecuteReportScheduleCommand and ReportScheduleStateMachine. *)

\* The scheduler sends executions of active schedules only.
Schedule(e) ==
    /\ ex[e].pc = "idle" /\ row.exists /\ row.active
    /\ Goto(e, "queued")
    /\ Others

\* validate loads the schedule, active or not; a deleted one ends the execution.
Start(e) ==
    /\ ex[e].pc = "queued"
    /\ Load(e, "loaded")
    /\ Others

-----------------------------------------------------------------------------
(* ReportWorkingState. *)

\* last_eval_dttm, which the code asks for too, is set with every last_state.
OnWorkingTimeout == WorkingTimeout > 0 /\ log.entered /\ log.enteredAge > WorkingTimeout

TimedOut(e) ==
    /\ ex[e].pc = "loaded" /\ ex[e].loaded = "WORKING" /\ OnWorkingTimeout
    /\ UpdateAndLog(e, "ERROR", log, "idle")
    /\ Others

\* Mutant: the refusal writes last_state whatever the session has loaded.
StillWorkingOverwrites(e) ==
    /\ ex[e].pc = "loaded" /\ ex[e].loaded = "WORKING" /\ ~OnWorkingTimeout
    /\ row' = [row EXCEPT !.state = "WORKING"]
    /\ Continue(e, "idle")
    /\ UNCHANGED log
    /\ Others

\* Mutant: the log of the refusal has no error message, so it counts as the
\* start of the work.
StillWorkingRestarts(e) ==
    /\ ex[e].pc = "loaded" /\ ex[e].loaded = "WORKING" /\ ~OnWorkingTimeout
    /\ UpdateAndLog(e, "WORKING", Entered, "idle")
    /\ Others

\* The refusal is logged with an error message, so it is not mistaken for the
\* start of the work.
StillWorking(e) ==
    /\ ex[e].pc = "loaded" /\ ex[e].loaded = "WORKING" /\ ~OnWorkingTimeout
    /\ UpdateAndLog(e, "WORKING", log, "idle")
    /\ Others

-----------------------------------------------------------------------------
(* ReportNotTriggeredErrorState, and ReportSuccessState of an alert that is *)
(* past its grace period: WORKING is committed before the work.             *)

InGracePeriod == log.success < Grace

\* Mutant: WORKING is logged with a message.
EnterWorkingUnlogged(e) ==
    /\ ex[e].pc = "loaded" /\ ex[e].loaded \in {"NOOP", "ERROR"}
    /\ UpdateAndLog(e, "WORKING", log, "entered")
    /\ Others

EnterWorking(e) ==
    /\ ex[e].pc = "loaded" /\ ex[e].loaded \in {"NOOP", "ERROR"}
    /\ IF row.exists
       THEN /\ row' = [row EXCEPT !.state = "WORKING"]
            /\ log' = Entered
            /\ ex' = [ex EXCEPT ![e] = Committed("entered", "first")]
       ELSE End(e)
    /\ Others

\* Mutant: an alert in its grace period is recorded as not triggered.
AlertInGraceNotTriggered(e) ==
    /\ ex[e].pc = "loaded" /\ ex[e].loaded \in {"SUCCESS", "GRACE"} /\ kind = "alert"
    /\ InGracePeriod
    /\ UpdateAndLog(e, "NOOP", Other, "idle")
    /\ Others

AlertInGrace(e) ==
    /\ ex[e].pc = "loaded" /\ ex[e].loaded \in {"SUCCESS", "GRACE"} /\ kind = "alert"
    /\ InGracePeriod
    /\ UpdateAndLog(e, "GRACE", Other, "idle")
    /\ Others

AlertPastGrace(e) ==
    /\ ex[e].pc = "loaded" /\ ex[e].loaded \in {"SUCCESS", "GRACE"} /\ kind = "alert"
    /\ ~InGracePeriod
    /\ IF row.exists
       THEN /\ row' = [row EXCEPT !.state = "WORKING"]
            /\ log' = Entered
            /\ ex' = [ex EXCEPT ![e] = Committed("entered", "again")]
       ELSE End(e)
    /\ Others

\* A report that succeeded last time is sent without entering WORKING.
ReportAgain(e) ==
    /\ ex[e].pc = "loaded" /\ ex[e].loaded \in {"SUCCESS", "GRACE"} /\ kind = "report"
    /\ ex' = [ex EXCEPT ![e].pc = "send", ![e].from = "again"]
    /\ UNCHANGED <<row, log>>
    /\ Others

\* The first access to the schedule after the commit.
Reload(e) ==
    /\ ex[e].pc = "entered"
    /\ Load(e, IF kind = "alert" THEN "evaluate" ELSE "send")
    /\ Others

NotTriggered(e) ==
    /\ ex[e].pc = "evaluate"
    /\ UpdateAndLog(e, "NOOP", Other, "idle")
    /\ Others

Triggered(e) ==
    /\ ex[e].pc = "evaluate"
    /\ Goto(e, "send")
    /\ Others

\* AlertCommand raises.  ReportSuccessState notifies the owners before it logs
\* the error, and without asking for the error grace period.
EvaluateFails(e) ==
    /\ ex[e].pc = "evaluate"
    /\ Goto(e, IF ex[e].from = "first" THEN "failed" ELSE "notify")
    /\ Others

Send(e) ==
    /\ ex[e].pc = "send"
    /\ Goto(e, "sent")
    /\ Others

\* The content cannot be made, some recipient cannot be reached, or the soft time
\* limit strikes, be it after the sending and before SUCCESS is recorded.
SendFails(e) ==
    /\ ex[e].pc \in {"send", "sent"}
    /\ Goto(e, "failed")
    /\ Others

RecordSuccess(e) ==
    /\ ex[e].pc = "sent"
    /\ UpdateAndLog(e, "SUCCESS", Succeeded, "idle")
    /\ Others

\* ERROR is logged with its message.  Only the first state class goes on to
\* notify the owners, on a copy loaded again.
RecordError(e) ==
    /\ ex[e].pc = "failed"
    /\ UpdateAndLog(e, "ERROR", log, IF ex[e].from = "first" THEN "logged" ELSE "idle")
    /\ Others

\* _find_last_error_notification takes the last error notification unless a log
\* that is neither ERROR nor WORKING is older than it.
InErrorGracePeriod == ~log.mailAfterOther /\ log.mail < Grace

\* Mutant: the owners are notified of every error.
ErrorGraceIgnored(e) ==
    /\ ex[e].pc = "logged"
    /\ Load(e, "notify")
    /\ Others

ErrorGrace(e) ==
    /\ ex[e].pc = "logged"
    /\ IF InErrorGracePeriod THEN End(e) ELSE Load(e, "notify")
    /\ Others

Notify(e) ==
    /\ ex[e].pc = "notify"
    /\ Goto(e, "mailed")
    /\ Others

\* send_error raises, be it after the sending (an owner was not reached, or the
\* soft time limit strikes): the first state class logs why, the other one does
\* not catch it and leaves WORKING behind.
NotifyFails(e) ==
    /\ ex[e].pc \in {"notify", "mailed"}
    /\ Goto(e, IF ex[e].from = "first" THEN "unmailed" ELSE "idle")
    /\ Others

RecordMail(e) ==
    /\ ex[e].pc = "mailed"
    /\ UpdateAndLog(e, "ERROR", Mailed, "idle")
    /\ Others

RecordNoMail(e) ==
    /\ ex[e].pc = "unmailed"
    /\ UpdateAndLog(e, "ERROR", log, "idle")
    /\ Others

\* The hard time limit, a lost worker, or the soft time limit where nothing
\* catches it: whatever has been committed stays.  An execution that is lost in
\* the queue is one that the scheduler does not send.
Killed(e) ==
    /\ ex[e].pc \notin {"idle", "queued"}
    /\ End(e)
    /\ Others

Step(e) ==
    \/ Schedule(e) \/ Start(e) \/ TimedOut(e) \/ StillWorking(e)
    \/ EnterWorking(e) \/ AlertInGrace(e) \/ AlertPastGrace(e) \/ ReportAgain(e)
    \/ Reload(e) \/ NotTriggered(e) \/ Triggered(e) \/ EvaluateFails(e)
    \/ Send(e) \/ SendFails(e) \/ RecordSuccess(e) \/ RecordError(e)
    \/ ErrorGrace(e) \/ Notify(e) \/ NotifyFails(e) \/ RecordMail(e) \/ RecordNoMail(e)

-----------------------------------------------------------------------------
(* The user, the pruning task and time. *)

\* UpdateReportScheduleCommand reads last_state, and the request commits, with
\* active, NOOP at its end if it was WORKING; the other states make no
\* difference to it.
DeactivateRead ==
    /\ Updates /\ upd.pc = "idle" /\ row.exists
    /\ upd' = [pc |-> "read", seen |-> IF row.state = "WORKING" THEN "WORKING" ELSE "NOOP"]
    /\ UNCHANGED <<kind, row, log, ex>>

\* Mutant: a state that no class of the state machine handles.
DeactivateWriteUnknown ==
    /\ upd.pc = "read"
    /\ upd' = [pc |-> "idle", seen |-> "NOOP"]
    /\ row' = [row EXCEPT !.active = FALSE,
                          !.state = IF upd.seen = "WORKING" THEN "INACTIVE" ELSE @]
    /\ UNCHANGED <<kind, log, ex>>

DeactivateWrite ==
    /\ upd.pc = "read"
    /\ upd' = [pc |-> "idle", seen |-> "NOOP"]
    /\ row' = [row EXCEPT !.active = FALSE,
                          !.state = IF upd.seen = "WORKING" THEN "NOOP" ELSE @]
    /\ UNCHANGED <<kind, log, ex>>

\* The same command with active set leaves last_state alone.
Activate ==
    /\ Updates /\ row.exists /\ ~row.active
    /\ row' = [row EXCEPT !.active = TRUE]
    /\ UNCHANGED <<kind, log, ex, upd>>

\* The schedule goes, and its logs with it.
Delete ==
    /\ Updates /\ row.exists
    /\ row' = [row EXCEPT !.exists = FALSE, !.active = FALSE, !.state = "NOOP"]
    /\ log' = NoLog
    /\ UNCHANGED <<kind, ex, upd>>

\* PruneReportScheduleLogCommand with a log_retention of 0, the "None" of the
\* form: every log goes.
Prune ==
    /\ Prunes
    /\ log' = NoLog
    /\ UNCHANGED <<kind, row, ex, upd>>

Older(age, limit) == IF age < limit THEN age + 1 ELSE age

Tick ==
    /\ log' = [log EXCEPT !.enteredAge = Older(@, WorkingTimeout + 1),
                          !.success = Older(@, Grace), !.mail = Older(@, Grace),
                          !.mailAfterOther = log.mail + 1 < Grace /\ @,
                          !.onlyErrors = log.mail + 1 < Grace /\ @]
    /\ UNCHANGED <<kind, row, ex, upd>>

Next ==
    \/ \E e \in Execs : Step(e) \/ Killed(e)
    \/ DeactivateRead \/ DeactivateWrite \/ Activate \/ Delete \/ Prune \/ Tick

\* The scheduler sends an execution of an active schedule every time the crontab
\* says so, and not every one of them is killed before it can record a timeout.
Fairness ==
    /\ WF_vars(Tick)
    /\ \A e \in Execs : WF_vars(Step(e)) /\ SF_vars(TimedOut(e))

Spec == Init /\ [][Next]_vars /\ Fairness

-----------------------------------------------------------------------------
(* Properties. *)

\* EnterWorking logs the start of the work without an error message, which is
\* what the working timeout is measured from: a schedule that says WORKING has
\* such a log, or nothing could ever time it out.
WorkingHasStart == row.state = "WORKING" => log.entered

\* The refusal of an execution that found WORKING never brings WORKING back over
\* the verdict the working execution has recorded meanwhile.
RefusalKeepsVerdict ==
    [][\A e \in Execs : ex[e].pc = "loaded" /\ ex[e].loaded = "WORKING" /\ row'.state = "WORKING"
            => row.state = "WORKING" \/ ex'[e] = ex[e]]_vars

\* With one execution at a time, an alert is not sent again while the last
\* SUCCESS is younger than the grace period, whatever errors, timeouts, kills
\* and evaluations lie between.
GraceRespected ==
    [][\A e \in Execs : kind = "alert" /\ ex[e].pc = "send" /\ ex'[e].pc = "sent"
            => ~InGracePeriod]_vars

\* With one execution at a time, the owners of a schedule that has only ever
\* failed are not notified again while the log has a notification younger than
\* the grace period.  The log is all the code has to go by: a notification that
\* was sent by an execution which was killed, ran out of time or failed to reach
\* some owner before it logged the sending is repeated, and the property admits
\* that.
LoggedNoticeNotRepeated ==
    [][\A e \in Execs : ex[e].pc = "notify" /\ ex'[e].pc = "mailed" /\ log.mail < Grace
            => log.other]_vars

\* A schedule that has a working_timeout and is left WORKING by a killed execution,
\* or by a notification that failed, does not stay so as long as it is active: a
\* later execution times it out.  (Without a timeout nothing does, and inactive
\* schedules are not executed.)
WorkingRecovers ==
    WorkingTimeout > 0 /\ row.exists /\ row.state = "WORKING"
        ~> ~row.exists \/ ~row.active \/ row.state # "WORKING"

\* "Check that only errors have occurred since the last notification"
\* (db/daos/report.py): while this is so and the grace period lasts, the owners
\* are not notified again.
ErrorGraceRespected ==
    [][\A e \in Execs : ex[e].pc = "notify" /\ ex'[e].pc = "mailed" /\ log.mail < Grace
            => ~log.onlyErrors]_vars

-----------------------------------------------------------------------------
(* The inductive invariant behind GraceRespected, for one execution at a    *)
(* time and no user.                                                        *)

\* The session's copy is the row, except between a commit and the next access,
\* and the schedule is not deleted.
InvLoaded ==
    /\ row.exists
    /\ upd.pc = "idle"
    /\ \A e \in Execs : ex[e].pc \notin {"idle", "queued", "entered", "logged"}
                            => ex[e].loaded = row.state

\* An alert whose last SUCCESS is younger than the grace period says SUCCESS or
\* GRACE, and no execution is beyond the check of the grace period.
InvGrace ==
    kind = "alert" =>
        /\ row.state \in {"NOOP", "ERROR", "WORKING"} => ~InGracePeriod
        /\ \A e \in Execs : ex[e].pc \notin {"idle", "queued", "loaded"} => row.state \in {"WORKING", "ERROR"}

Inv == TypeOK /\ InvLoaded /\ InvGrace
=============================================================================
