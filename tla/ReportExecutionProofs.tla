------------------------ MODULE ReportExecutionProofs ------------------------
(***************************************************************************)
(* The state machine of alerts and reports, for every grace period and     *)
(* working timeout.                                                        *)
(***************************************************************************)
EXTENDS ReportExecution, TLAPS

\* Each log an execution adds leaves a log summary of the declared shape.
LEMMA LogType ==
    ASSUME TypeOK
    PROVE  /\ log \in Logs /\ Entered \in Logs /\ Succeeded \in Logs
           /\ Other \in Logs /\ Mailed \in Logs
<1> USE GraceAssumption, WorkingTimeoutAssumption DEF TypeOK, Logs
<1>0. 0 \in 0..(WorkingTimeout + 1) /\ 0 \in 0..Grace
  OBVIOUS
<1>1. Entered \in Logs
  BY <1>0 DEF Entered
<1>2. Succeeded \in Logs
  BY <1>0 DEF Succeeded
<1>3. Other \in Logs
  BY DEF Other
<1>4. Mailed \in Logs
  <2>1. log.other \in BOOLEAN
    OBVIOUS
  <2> QED
    BY <1>0, <2>1 DEF Mailed
<1> QED
  BY <1>1, <1>2, <1>3, <1>4

\* What update_report_schedule_and_log does to the types.
LEMMA UpdateType ==
    ASSUME TypeOK, NEW e \in Execs, NEW state \in States, NEW newLog \in Logs,
           NEW pc \in ExecPCs, UpdateAndLog(e, state, newLog, pc)
    PROVE  row' \in Rows /\ log' \in Logs /\ ex' \in Executions
BY SMTT(30) DEF TypeOK, Rows, UpdateAndLog, End, Goto, Continue, Ended, Executions, ExecPCs, States

\* An execution that goes on in ReportSuccessState.
LEMMA AgainType ==
    ASSUME ex \in Executions, NEW e \in Execs, NEW pc \in ExecPCs,
           ex' = [ex EXCEPT ![e].pc = pc, ![e].from = "again"]
    PROVE  ex' \in Executions
<1> DEFINE next == [ex[e] EXCEPT !.pc = pc, !.from = "again"]
<1>1. next \in [pc : ExecPCs, loaded : States, from : {"first", "again"}]
  BY DEF Executions
<1>2. ex' = [ex EXCEPT ![e] = next]
  BY DEF Executions
<1> HIDE DEF next
<1> QED
  BY <1>1, <1>2 DEF Executions

\* Every action of an execution, the user, the pruning task and the clock
\* preserves the type invariant.
LEMMA TypeStep ==
    ASSUME TypeOK, [Next]_vars
    PROVE  TypeOK'
<1> USE DEF Others, Executions, Rows
<1>0. TypeOK' <=> /\ kind' \in {"alert", "report"}
                  /\ row' \in Rows
                  /\ log' \in Logs
                  /\ ex' \in Executions
                  /\ upd' \in [pc : {"idle", "read"}, seen : States]
  BY DEF TypeOK
<1>a. /\ kind \in {"alert", "report"}
      /\ row \in Rows
      /\ log \in Logs
      /\ ex \in Executions
      /\ upd \in [pc : {"idle", "read"}, seen : States]
  BY DEF TypeOK
<1>1. ASSUME NEW e \in Execs, Step(e) \/ Killed(e) PROVE TypeOK'
  <2>1. CASE Start(e)
    BY <1>0, <1>a, <2>1 DEF Start, Load, End, Goto, Continue, Ended, States, ExecPCs
  <2>2. CASE TimedOut(e)
    BY <1>0, <1>a, <2>2, LogType, UpdateType DEF TimedOut, States, ExecPCs
  <2>3. CASE StillWorking(e)
    BY <1>0, <1>a, <2>3, LogType, UpdateType DEF StillWorking, States, ExecPCs
  <2>4. CASE EnterWorking(e)
    <3>1. log' \in Logs /\ row' \in Rows /\ UNCHANGED <<kind, upd>>
      BY <1>a, <2>4, LogType DEF EnterWorking, End, Goto, States
    <3>2. ex' \in Executions
      BY <1>a, <2>4 DEF EnterWorking, Committed, End, Goto, Continue, Ended, States, ExecPCs
    <3> QED
      BY <1>0, <1>a, <3>1, <3>2
  <2>5. CASE AlertInGrace(e)
    BY <1>0, <1>a, <2>5, LogType, UpdateType DEF AlertInGrace, States, ExecPCs
  <2>6. CASE AlertPastGrace(e)
    <3>1. log' \in Logs /\ row' \in Rows /\ UNCHANGED <<kind, upd>>
      BY <1>a, <2>6, LogType DEF AlertPastGrace, End, Goto, States
    <3>2. ex' \in Executions
      BY <1>a, <2>6 DEF AlertPastGrace, Committed, End, Goto, Continue, Ended, States, ExecPCs
    <3> QED
      BY <1>0, <1>a, <3>1, <3>2
  <2>7. CASE ReportAgain(e)
    BY <1>0, <1>a, <2>7, AgainType DEF ReportAgain, ExecPCs
  <2>8. CASE Reload(e)
    BY <1>0, <1>a, <2>8 DEF Reload, Load, End, Goto, Continue, Ended, States, ExecPCs
  <2>9. CASE NotTriggered(e)
    BY <1>0, <1>a, <2>9, LogType, UpdateType DEF NotTriggered, States, ExecPCs
  <2>10. CASE Triggered(e)
    BY <1>0, <1>a, <2>10 DEF Triggered, Load, End, Goto, Continue, Ended, States, ExecPCs
  <2>11. CASE EvaluateFails(e)
    BY <1>0, <1>a, <2>11 DEF EvaluateFails, Load, End, Goto, Continue, Ended, States, ExecPCs
  <2>12. CASE Send(e)
    BY <1>0, <1>a, <2>12 DEF Send, Load, End, Goto, Continue, Ended, States, ExecPCs
  <2>13. CASE SendFails(e)
    BY <1>0, <1>a, <2>13 DEF SendFails, Load, End, Goto, Continue, Ended, States, ExecPCs
  <2>14. CASE RecordSuccess(e)
    BY <1>0, <1>a, <2>14, LogType, UpdateType DEF RecordSuccess, States, ExecPCs
  <2>15. CASE RecordError(e)
    BY <1>0, <1>a, <2>15, LogType, UpdateType DEF RecordError, States, ExecPCs
  <2>16. CASE ErrorGrace(e)
    BY <1>0, <1>a, <2>16 DEF ErrorGrace, Load, End, Goto, Continue, Ended, States, ExecPCs
  <2>17. CASE Notify(e)
    BY <1>0, <1>a, <2>17 DEF Notify, Load, End, Goto, Continue, Ended, States, ExecPCs
  <2>18. CASE NotifyFails(e)
    BY <1>0, <1>a, <2>18 DEF NotifyFails, Load, End, Goto, Continue, Ended, States, ExecPCs
  <2>19. CASE RecordMail(e)
    BY <1>0, <1>a, <2>19, LogType, UpdateType DEF RecordMail, States, ExecPCs
  <2>20. CASE RecordNoMail(e)
    BY <1>0, <1>a, <2>20, LogType, UpdateType DEF RecordNoMail, States, ExecPCs
  <2>21. CASE Killed(e)
    BY <1>0, <1>a, <2>21 DEF Killed, End, Goto, Continue, Ended, States, ExecPCs
  <2>22. CASE Schedule(e)
    BY <1>0, <1>a, <2>22 DEF Schedule, Goto, Continue, Ended, States, ExecPCs
  <2> QED
    BY <1>1, <2>1, <2>2, <2>3, <2>4, <2>5, <2>6, <2>7, <2>8, <2>9, <2>10,
       <2>11, <2>12, <2>13, <2>14, <2>15, <2>16, <2>17, <2>18, <2>19, <2>20,
       <2>21, <2>22 DEF Step
<1>2. CASE DeactivateRead BY <1>0, <1>a, <1>2 DEF DeactivateRead, States
<1>3. CASE DeactivateWrite BY <1>0, <1>a, <1>3 DEF DeactivateWrite, States
<1>8. CASE Activate BY <1>0, <1>a, <1>8 DEF Activate
<1>n. NoLog \in Logs
  BY GraceAssumption, WorkingTimeoutAssumption DEF NoLog, Logs
<1>4. CASE Delete
  <2>1. row' \in Rows BY <1>a, <1>4 DEF Delete, States
  <2> QED BY <1>0, <1>a, <1>n, <1>4, <2>1 DEF Delete
<1>5. CASE Prune
  BY <1>0, <1>a, <1>n, <1>5 DEF Prune
<1>6. CASE Tick
  <2> USE GraceAssumption, WorkingTimeoutAssumption
  <2>1. Older(log.enteredAge, WorkingTimeout + 1) \in 0..(WorkingTimeout + 1)
    BY <1>a DEF Logs, Older
  <2>2. Older(log.success, Grace) \in 0..Grace /\ Older(log.mail, Grace) \in 0..Grace
    BY <1>a DEF Logs, Older
  <2>3. log' \in Logs
    BY <1>a, <1>6, <2>1, <2>2 DEF Tick, Logs
  <2> QED
    BY <1>0, <1>a, <1>6, <2>3 DEF Tick
<1>7. CASE UNCHANGED vars BY <1>0, <1>a, <1>7 DEF vars
<1> QED BY <1>1, <1>2, <1>3, <1>4, <1>5, <1>6, <1>7, <1>8 DEF Next

\* Every reachable state is well typed: no action writes a last_state that the
\* state machine has no class for.
THEOREM TypeInvariance == Spec => []TypeOK
<1>1. Init => TypeOK
  BY GraceAssumption, WorkingTimeoutAssumption
     DEF Init, NoLog, TypeOK, Rows, Logs, States, ExecPCs, Executions, Ended
<1>2. TypeOK /\ [Next]_vars => TypeOK'
  BY TypeStep
<1> QED
  BY <1>1, <1>2, PTL DEF Spec

-----------------------------------------------------------------------------
(* The working timeout always has a start to count from. *)

\* Without pruning, a schedule that says WORKING has the log its working timeout
\* is measured from, however many executions, edits and kills there are.
THEOREM WorkingStarted ==
    ASSUME ~Prunes
    PROVE  Spec => []WorkingHasStart
<1>1. ASSUME TypeOK, WorkingHasStart, [Next]_vars PROVE WorkingHasStart'
  <2> USE DEF WorkingHasStart
  <2>0. row.state \in States /\ log \in Logs
    BY <1>1 DEF TypeOK, Rows
  <2>1. ASSUME NEW e \in Execs, Step(e) \/ Killed(e) PROVE WorkingHasStart'
    <3>1. CASE EnterWorking(e) \/ AlertPastGrace(e)
      BY <1>1, <3>1, <2>0 DEF TypeOK, Rows, Logs, EnterWorking, AlertPastGrace, Entered, End, Goto
    <3>2. CASE UNCHANGED <<row, log>>
      BY <1>1, <3>2
    <3>3. ASSUME NEW state \in {"NOOP", "SUCCESS", "ERROR", "GRACE"},
                 NEW newLog \in {log, Succeeded, Other, Mailed}, NEW pc,
                 UpdateAndLog(e, state, newLog, pc)
          PROVE  WorkingHasStart'
      BY <1>1, <2>0, <3>3, ZenonT(40)
         DEF TypeOK, Rows, Logs, UpdateAndLog, Succeeded, Other, Mailed, End, Goto
    <3>4. ASSUME ex[e].loaded = "WORKING", UpdateAndLog(e, "WORKING", log, "idle")
          PROVE  WorkingHasStart'
      BY <1>1, <3>4 DEF TypeOK, Rows, UpdateAndLog, End, Goto
    <3>5. CASE StillWorking(e)
      BY <3>4, <3>5 DEF StillWorking
    <3>6. CASE TimedOut(e) \/ AlertInGrace(e) \/ NotTriggered(e) \/ RecordSuccess(e)
      BY <3>3, <3>6 DEF TimedOut, AlertInGrace, NotTriggered, RecordSuccess
    <3>7. CASE RecordError(e) \/ RecordMail(e) \/ RecordNoMail(e)
      BY <3>3, <3>7 DEF RecordError, RecordMail, RecordNoMail
    <3>8. CASE Schedule(e) \/ Start(e) \/ ReportAgain(e) \/ Reload(e) \/ ErrorGrace(e)
      BY <3>2, <3>8 DEF Schedule, Start, ReportAgain, Reload, ErrorGrace, Load, End, Goto
    <3>9. CASE \/ Triggered(e) \/ EvaluateFails(e) \/ Send(e) \/ SendFails(e)
               \/ Notify(e) \/ NotifyFails(e) \/ Killed(e)
      BY <3>2, <3>9
         DEF Triggered, EvaluateFails, Send, SendFails, Notify, NotifyFails, Killed, End, Goto
    <3> QED
      BY <2>1, <3>1, <3>5, <3>6, <3>7, <3>8, <3>9 DEF Step
  <2>2. CASE DeactivateRead \/ DeactivateWrite \/ Activate \/ Delete
    BY <1>1, <2>2 DEF TypeOK, Rows, DeactivateRead, DeactivateWrite, Activate, Delete
  <2>3. CASE Prune
    BY <2>3 DEF Prune
  <2>4. CASE Tick
    BY <1>1, <2>0, <2>4 DEF Logs, Tick
  <2>5. CASE UNCHANGED vars
    BY <1>1, <2>5 DEF vars
  <2> QED
    BY <1>1, <2>1, <2>2, <2>3, <2>4, <2>5 DEF Next
<1>2. Init => WorkingHasStart
  BY DEF Init, WorkingHasStart
<1> QED
  BY <1>1, <1>2, TypeInvariance, PTL DEF Spec

-----------------------------------------------------------------------------
(* A refused execution leaves the verdict alone. *)

\* However many executions, edits, kills and deletions there are, the refusal of
\* an execution that found WORKING never brings WORKING back.
THEOREM RefusalHarmless == Spec => RefusalKeepsVerdict
<1> DEFINE Kept(e) == ex[e].pc = "loaded" /\ ex[e].loaded = "WORKING" /\ row'.state = "WORKING"
                        => row.state = "WORKING" \/ ex'[e] = ex[e]
           Refuses == \A e \in Execs : Kept(e)
<1>1. TypeOK /\ [Next]_vars => [Refuses]_vars
  <2> SUFFICES ASSUME TypeOK, Next, NEW e \in Execs PROVE Kept(e)
    BY DEF vars
  <2> USE DEF TypeOK, Rows, Executions, End, Goto, Continue
  <2>1. ASSUME NEW f \in Execs, Step(f) \/ Killed(f), f # e PROVE Kept(e)
    <3>1. CASE Schedule(f) \/ Start(f) \/ TimedOut(f) \/ StillWorking(f) \/ EnterWorking(f)
      BY <2>1, <3>1 DEF Schedule, Start, TimedOut, StillWorking, EnterWorking, Load, UpdateAndLog
    <3>2. CASE AlertInGrace(f) \/ AlertPastGrace(f) \/ ReportAgain(f) \/ Reload(f)
      BY <2>1, <3>2 DEF AlertInGrace, AlertPastGrace, ReportAgain, Reload, Load, UpdateAndLog
    <3>3. CASE NotTriggered(f) \/ Triggered(f) \/ EvaluateFails(f) \/ Send(f) \/ SendFails(f)
      BY <2>1, <3>3 DEF NotTriggered, Triggered, EvaluateFails, Send, SendFails, UpdateAndLog
    <3>4. CASE RecordSuccess(f) \/ RecordError(f) \/ ErrorGrace(f) \/ Notify(f) \/ NotifyFails(f)
      BY <2>1, <3>4 DEF RecordSuccess, RecordError, ErrorGrace, Notify, NotifyFails, Load, UpdateAndLog
    <3>5. CASE RecordMail(f) \/ RecordNoMail(f) \/ Killed(f)
      BY <2>1, <3>5 DEF RecordMail, RecordNoMail, Killed, UpdateAndLog
    <3> QED
      BY <2>1, <3>1, <3>2, <3>3, <3>4, <3>5 DEF Step
  <2>2. ASSUME Step(e) \/ Killed(e), ex[e].pc = "loaded", ex[e].loaded = "WORKING"
        PROVE  Kept(e)
    <3>1. TimedOut(e) \/ StillWorking(e) \/ Killed(e)
      BY <2>2
         DEF Step, Schedule, Start, EnterWorking, AlertInGrace, AlertPastGrace, ReportAgain, Reload,
             NotTriggered, Triggered, EvaluateFails, Send, SendFails, RecordSuccess,
             RecordError, ErrorGrace, Notify, NotifyFails, RecordMail, RecordNoMail
    <3> QED
      BY <2>2, <3>1 DEF TimedOut, StillWorking, Killed, UpdateAndLog
  <2>3. CASE DeactivateRead \/ DeactivateWrite \/ Activate \/ Delete \/ Prune \/ Tick
    BY <2>3 DEF Rows, DeactivateRead, DeactivateWrite, Activate, Delete, Prune, Tick
  <2> QED
    BY <2>1, <2>2, <2>3 DEF Next
<1> QED
  BY <1>1, TypeInvariance, PTL DEF Spec, RefusalKeepsVerdict

-----------------------------------------------------------------------------
(* The grace period of an alert. *)

\* With one execution at a time its copy of the row cannot go stale.
LEMMA LoadedStep ==
    ASSUME Inv, [Next]_vars, NEW x, Execs = {x}, ~Updates
    PROVE  InvLoaded'
<1> USE DEF Inv, TypeOK, Rows, Executions, InvLoaded, Others, Committed, UpdateAndLog, Load, Goto, End, Continue, Ended
<1>1. ASSUME NEW e \in Execs, Step(e) \/ Killed(e) PROVE InvLoaded'
  <2>1. CASE Start(e) BY <2>1 DEF Start
  <2>2. CASE TimedOut(e) BY <2>2 DEF TimedOut
  <2>3. CASE StillWorking(e) BY <2>3 DEF StillWorking
  <2>4. CASE EnterWorking(e) BY <2>4 DEF EnterWorking
  <2>5. CASE AlertInGrace(e) BY <2>5 DEF AlertInGrace
  <2>6. CASE AlertPastGrace(e) BY <2>6 DEF AlertPastGrace
  <2>7. CASE ReportAgain(e) BY <2>7 DEF ReportAgain
  <2>8. CASE Reload(e) BY <2>8 DEF Reload
  <2>9. CASE NotTriggered(e) BY <2>9 DEF NotTriggered
  <2>10. CASE Triggered(e) BY <2>10 DEF Triggered
  <2>11. CASE EvaluateFails(e) BY <2>11 DEF EvaluateFails
  <2>12. CASE Send(e) BY <2>12 DEF Send
  <2>13. CASE SendFails(e) BY <2>13 DEF SendFails
  <2>14. CASE RecordSuccess(e) BY <2>14 DEF RecordSuccess
  <2>15. CASE RecordError(e) BY <2>15 DEF RecordError
  <2>16. CASE ErrorGrace(e) BY <2>16 DEF ErrorGrace
  <2>17. CASE Notify(e) BY <2>17 DEF Notify
  <2>18. CASE NotifyFails(e) BY <2>18 DEF NotifyFails
  <2>19. CASE RecordMail(e) BY <2>19 DEF RecordMail
  <2>20. CASE RecordNoMail(e) BY <2>20 DEF RecordNoMail
  <2>21. CASE Killed(e) BY <2>21 DEF Killed
  <2>22. CASE Schedule(e) BY <2>22 DEF Schedule
  <2> QED
    BY <1>1, <2>1, <2>2, <2>3, <2>4, <2>5, <2>6, <2>7, <2>8, <2>9, <2>10,
       <2>11, <2>12, <2>13, <2>14, <2>15, <2>16, <2>17, <2>18, <2>19, <2>20,
       <2>21, <2>22 DEF Step
<1>2. CASE DeactivateRead \/ DeactivateWrite \/ Activate \/ Delete
  BY <1>2 DEF DeactivateRead, DeactivateWrite, Activate, Delete
<1>3. CASE Prune \/ Tick
  BY <1>3 DEF Prune, Tick
<1>4. CASE UNCHANGED vars
  BY <1>4 DEF vars
<1> QED
  BY <1>1, <1>2, <1>3, <1>4 DEF Next

\* Only an execution that has seen the grace period pass leaves SUCCESS and
\* GRACE, and only a recorded SUCCESS starts a new grace period.
LEMMA GraceStep ==
    ASSUME Inv, [Next]_vars, NEW x, Execs = {x}, ~Updates
    PROVE  InvGrace'
<1> USE GraceAssumption, WorkingTimeoutAssumption
    DEF Inv, TypeOK, Rows, Logs, Executions, InvLoaded, InvGrace, InGracePeriod, Committed,
        Entered, Succeeded, Other, Mailed, Others, UpdateAndLog, Load, Goto, End, Continue, Ended
<1>1. ASSUME NEW e \in Execs, Step(e) \/ Killed(e) PROVE InvGrace'
  <2>1. CASE Start(e) BY <2>1 DEF Start
  <2>2. CASE TimedOut(e) BY <2>2 DEF TimedOut
  <2>3. CASE StillWorking(e) BY <2>3 DEF StillWorking
  <2>4. CASE EnterWorking(e) BY <2>4, ZenonT(40) DEF EnterWorking
  <2>5. CASE AlertInGrace(e) BY <2>5 DEF AlertInGrace
  <2>6. CASE AlertPastGrace(e) BY <2>6, ZenonT(40) DEF AlertPastGrace
  <2>7. CASE ReportAgain(e) BY <2>7 DEF ReportAgain
  <2>8. CASE Reload(e) BY <2>8 DEF Reload
  <2>9. CASE NotTriggered(e)
    <3>1. row.exists /\ ex' = [ex EXCEPT ![e] = Ended] /\ log' = Other /\ kind' = kind
      BY <2>9 DEF NotTriggered
    <3>2. kind = "alert" => ~InGracePeriod
      BY <2>9 DEF NotTriggered
    <3>3. log'.success = log.success
      BY <3>1
    <3>4. \A f \in Execs : ex'[f].pc = "idle"
      BY <3>1
    <3> QED
      BY <3>1, <3>2, <3>3, <3>4
  <2>10. CASE Triggered(e) BY <2>10 DEF Triggered
  <2>11. CASE EvaluateFails(e) BY <2>11 DEF EvaluateFails
  <2>12. CASE Send(e) BY <2>12 DEF Send
  <2>13. CASE SendFails(e) BY <2>13 DEF SendFails
  <2>14. CASE RecordSuccess(e) BY <2>14 DEF RecordSuccess
  <2>15. CASE RecordError(e) BY <2>15 DEF RecordError
  <2>16. CASE ErrorGrace(e) BY <2>16 DEF ErrorGrace
  <2>17. CASE Notify(e) BY <2>17 DEF Notify
  <2>18. CASE NotifyFails(e) BY <2>18 DEF NotifyFails
  <2>19. CASE RecordMail(e) BY <2>19, ZenonT(40) DEF RecordMail
  <2>20. CASE RecordNoMail(e) BY <2>20 DEF RecordNoMail
  <2>21. CASE Killed(e) BY <2>21 DEF Killed
  <2>22. CASE Schedule(e) BY <2>22 DEF Schedule
  <2> QED
    BY <1>1, <2>1, <2>2, <2>3, <2>4, <2>5, <2>6, <2>7, <2>8, <2>9, <2>10,
       <2>11, <2>12, <2>13, <2>14, <2>15, <2>16, <2>17, <2>18, <2>19, <2>20,
       <2>21, <2>22 DEF Step
<1>2. CASE DeactivateRead \/ DeactivateWrite \/ Activate \/ Delete
  BY <1>2 DEF DeactivateRead, DeactivateWrite, Activate, Delete
<1>3. CASE Prune
  BY <1>3 DEF Prune, NoLog
<1>5. CASE Tick
  BY <1>5 DEF Tick, Older
<1>4. CASE UNCHANGED vars
  BY <1>4 DEF vars
<1> QED
  BY <1>1, <1>2, <1>3, <1>4, <1>5 DEF Next

\* With one execution at a time and no edits the invariant holds.
LEMMA OneExecution ==
    ASSUME NEW x, Execs = {x}, ~Updates
    PROVE  (Init => Inv) /\ (Inv /\ [Next]_vars => Inv')
<1>1. Init => Inv
  <2>1. Init => TypeOK
    BY GraceAssumption, WorkingTimeoutAssumption
       DEF Init, NoLog, TypeOK, Rows, Logs, States, ExecPCs, Executions, Ended
  <2>2. Init => InvLoaded /\ InvGrace
    BY GraceAssumption DEF Init, NoLog, InvLoaded, InvGrace, InGracePeriod, Ended
  <2> QED
    BY <2>1, <2>2 DEF Inv
<1>2. Inv /\ [Next]_vars => Inv'
  BY TypeStep, LoadedStep, GraceStep DEF Inv
<1> QED
  BY <1>1, <1>2

\* With one execution at a time and no edits, no alert is sent while its last
\* SUCCESS is younger than the grace period, for every grace period, timeout,
\* failure and kill.
THEOREM GraceKept ==
    ASSUME NEW x, Execs = {x}, ~Updates
    PROVE  Spec => GraceRespected
<1>1. (Init => Inv) /\ (Inv /\ [Next]_vars => Inv')
  BY OneExecution
<1> DEFINE Kept == \A e \in Execs : kind = "alert" /\ ex[e].pc = "send" /\ ex'[e].pc = "sent"
                                      => ~InGracePeriod
<1>2. Inv => [Kept]_vars
  BY DEF Inv, InvGrace
<1> QED
  BY <1>1, <1>2, PTL DEF Spec, GraceRespected

-----------------------------------------------------------------------------
(* The grace period of error notifications. *)

\* A notification within the grace period is due to a log that is no error.
Excused == log.mail < Grace => log.other

\* Every way to the notification is excused: past InErrorGracePeriod, and in the state
\* class of a schedule that has succeeded.
InvExcused ==
    /\ log.mailAfterOther => log.other
    /\ row.state \in {"SUCCESS", "GRACE"} => Excused
    /\ \A e \in Execs :
        \/ ex[e].pc = "notify"
        \/ ex[e].pc \notin {"idle", "queued", "loaded"} /\ ex[e].from = "again"
        => Excused

\* Only a log that is no error, or the end of the grace period, opens a way to the
\* notification.
LEMMA ExcusedStep ==
    ASSUME Inv, InvExcused, [Next]_vars, NEW x, Execs = {x}, ~Updates
    PROVE  InvExcused'
<1> USE GraceAssumption, WorkingTimeoutAssumption
    DEF Inv, TypeOK, Rows, Logs, Executions, InvLoaded, InvExcused, Excused, Committed,
        Entered, Succeeded, Other, Mailed, Others, UpdateAndLog, Load, Goto, End, Continue, Ended
<1>1. ASSUME NEW e \in Execs, Step(e) \/ Killed(e) PROVE InvExcused'
  <2>1. CASE Start(e) BY <2>1 DEF Start
  <2>2. CASE TimedOut(e) BY <2>2 DEF TimedOut
  <2>3. CASE StillWorking(e) BY <2>3 DEF StillWorking
  <2>4. CASE EnterWorking(e)
    <3>1. /\ row' = [row EXCEPT !.state = "WORKING"] /\ log' = Entered
          /\ ex' = [ex EXCEPT ![e] = Committed("entered", "first")]
      BY <2>4 DEF EnterWorking
    <3>2. ex'[e].pc = "entered" /\ ex'[e].from = "first" BY <3>1
    <3>3. row'.state = "WORKING" /\ log'.mailAfterOther = log.mailAfterOther /\ log'.other = log.other
      BY <3>1
    <3> QED BY <3>2, <3>3
  <2>5. CASE AlertInGrace(e) BY <2>5, ZenonT(40) DEF AlertInGrace
  <2>6. CASE AlertPastGrace(e) BY <2>6, ZenonT(40) DEF AlertPastGrace
  <2>7. CASE ReportAgain(e) BY <2>7 DEF ReportAgain
  <2>8. CASE Reload(e) BY <2>8 DEF Reload
  <2>9. CASE NotTriggered(e) BY <2>9, ZenonT(40) DEF NotTriggered
  <2>10. CASE Triggered(e) BY <2>10 DEF Triggered
  <2>11. CASE EvaluateFails(e) BY <2>11 DEF EvaluateFails
  <2>12. CASE Send(e) BY <2>12 DEF Send
  <2>13. CASE SendFails(e) BY <2>13 DEF SendFails
  <2>14. CASE RecordSuccess(e) BY <2>14, ZenonT(40) DEF RecordSuccess
  <2>15. CASE RecordError(e) BY <2>15 DEF RecordError
  <2>16. CASE ErrorGrace(e) BY <2>16 DEF ErrorGrace, InErrorGracePeriod
  <2>17. CASE Notify(e) BY <2>17 DEF Notify
  <2>18. CASE NotifyFails(e) BY <2>18 DEF NotifyFails
  <2>19. CASE RecordMail(e)
    <3>1. ex[e].loaded = row.state /\ row.exists BY <2>19 DEF RecordMail
    <3>2. /\ row' = [row EXCEPT !.state = IF ex[e].loaded = "ERROR" THEN row.state ELSE "ERROR"]
          /\ log' = Mailed /\ ex' = [ex EXCEPT ![e] = Ended]
      BY <2>19, <3>1 DEF RecordMail
    <3>3. row'.state = "ERROR" BY <3>1, <3>2
    <3>4. log'.mailAfterOther = log.other /\ log'.other = log.other BY <3>2
    <3>5. \A f \in Execs : ex'[f].pc = "idle" BY <3>2
    <3> QED BY <3>3, <3>4, <3>5
  <2>20. CASE RecordNoMail(e) BY <2>20 DEF RecordNoMail
  <2>21. CASE Killed(e) BY <2>21 DEF Killed
  <2>22. CASE Schedule(e) BY <2>22 DEF Schedule
  <2> QED
    BY <1>1, <2>1, <2>2, <2>3, <2>4, <2>5, <2>6, <2>7, <2>8, <2>9, <2>10,
       <2>11, <2>12, <2>13, <2>14, <2>15, <2>16, <2>17, <2>18, <2>19, <2>20,
       <2>21, <2>22 DEF Step
<1>2. CASE DeactivateRead \/ DeactivateWrite \/ Activate \/ Delete
  BY <1>2 DEF DeactivateRead, DeactivateWrite, Activate, Delete
<1>3. CASE Prune
  BY <1>3 DEF Prune, NoLog
<1>5. CASE Tick
  BY <1>5 DEF Tick, Older
<1>4. CASE UNCHANGED vars
  BY <1>4 DEF vars
<1> QED
  BY <1>1, <1>2, <1>3, <1>4, <1>5 DEF Next

\* With one execution at a time and no edits, the owners of a schedule that has only
\* ever failed are not notified again while the log has a notification younger than
\* the grace period, for every grace period, timeout, failure, kill and pruning.  What
\* an execution sent and did not live to log is not in the log, and not covered.
THEOREM NoticeKept ==
    ASSUME NEW x, Execs = {x}, ~Updates
    PROVE  Spec => LoggedNoticeNotRepeated
<1>1. (Init => Inv) /\ (Inv /\ [Next]_vars => Inv')
  BY OneExecution
<1>2. Init => InvExcused
  BY DEF Init, NoLog, InvExcused, Excused, Ended
<1>3. Inv /\ InvExcused /\ [Next]_vars => InvExcused'
  BY ExcusedStep
<1> DEFINE Kept == \A e \in Execs : ex[e].pc = "notify" /\ ex'[e].pc = "mailed" /\ log.mail < Grace
                                      => log.other
<1>4. InvExcused => [Kept]_vars
  BY DEF InvExcused, Excused
<1> QED
  BY <1>1, <1>2, <1>3, <1>4, PTL DEF Spec, LoggedNoticeNotRepeated
=============================================================================
