------------------------------ MODULE CronWindow ------------------------------
(***************************************************************************)
(* The scheduler of alerts and reports: a beat every Period, whose task looks  *)
(* for the triggers of every active schedule in a window around the time of    *)
(* the beat and queues an execution for each.                                  *)
(*                                                                           *)
(* Time is in half seconds, so that half a window is a whole number of them.   *)
(* Beat b is due at b * Period, like the trigger of minute b.                  *)
(***************************************************************************)
EXTENDS Integers, FiniteSets

CONSTANTS
    Schedules,
    Cron,        \* the minutes at which each schedule triggers
    Beats,       \* the beats that are looked at
    Period,      \* from one beat to the next
    HalfWindow,  \* ALERT_REPORTS_CRON_WINDOW_SIZE in half seconds, on each side
    MaxLate,     \* how late the time a task works with can be
    FromBeat,    \* the message expires, so that the time is that of the beat
    MaxRetries   \* max_retries

\* What the constants are; MaxRetries bounds autoretry_for.
CronConstants ==
    /\ Beats \subseteq Nat
    /\ Period \in Nat \ {0} /\ HalfWindow \in Nat \ {0}
    /\ MaxLate \in Nat /\ MaxRetries \in Nat
    /\ FromBeat \in BOOLEAN
    /\ Cron \in [Schedules -> SUBSET Nat]

VARIABLES
    active,  \* ReportSchedule.active
    task,    \* the scheduler task of each beat
    sent     \* executions queued: schedule, minute and the beat whose task did it

cronVars == <<active, task, sent>>

Lateness == 0 .. MaxLate
Minutes == UNION {Cron[s] : s \in Schedules}

\* Type correctness: a task works with a time that is late by MaxLate at most.
CronTypeOK ==
    /\ active \subseteq Schedules
    /\ task \in [Beats -> [pc : {"due", "queued", "running", "done", "failed"},
                           late : Lateness, loaded : SUBSET Schedules,
                           left : SUBSET Schedules, tries : Nat]]
    /\ sent \subseteq Schedules \X Minutes \X Beats
    /\ \A b \in Beats : task[b].left \subseteq task[b].loaded

-----------------------------------------------------------------------------

CronInit ==
    /\ active \in SUBSET Schedules
    /\ task = [b \in Beats |->
                 [pc |-> "due", late |-> 0, loaded |-> {}, left |-> {}, tries |-> 0]]
    /\ sent = {}

\* Celery beat sends the message; beats are sent in order.
Beat(b) ==
    /\ task[b].pc = "due"
    /\ \A c \in Beats : c < b => task[c].pc # "due"
    /\ \E late \in Lateness : task' = [task EXCEPT ![b].pc = "queued", ![b].late = late]
    /\ UNCHANGED <<active, sent>>

\* The task computes triggered_at, from the message if it expires, and loads the schedules.
Start(b) ==
    /\ task[b].pc = "queued"
    /\ \E late \in Lateness :
         /\ IF FromBeat THEN late = task[b].late ELSE late >= task[b].late
         /\ task' = [task EXCEPT ![b].pc = "running", ![b].late = late,
                                 ![b].loaded = active, ![b].left = active]
    /\ UNCHANGED <<active, sent>>

\* The triggers after the start of the window (all_next) and before its end.
cron_schedule_window(s, b, late) ==
    LET triggered_at == b * Period + late IN
    {m \in Cron[s] : m * Period > triggered_at - HalfWindow /\ m * Period < triggered_at + HalfWindow}

\* The executions of one schedule are queued.
Queue(b, s) ==
    /\ task[b].pc = "running" /\ s \in task[b].left
    /\ sent' = sent \cup {<<s, m, b>> : m \in cron_schedule_window(s, b, task[b].late)}
    /\ task' = [task EXCEPT ![b].left = @ \ {s}]
    /\ UNCHANGED active

\* The database or the broker fails: autoretry_for starts the task again.
Raises(b) ==
    /\ task[b].pc = "running"
    /\ task' = IF task[b].tries < MaxRetries
               THEN [task EXCEPT ![b].pc = "queued", ![b].tries = @ + 1]
               ELSE [task EXCEPT ![b].pc = "failed"]
    /\ UNCHANGED <<active, sent>>

Finish(b) ==
    /\ task[b].pc = "running" /\ task[b].left = {}
    /\ task' = [task EXCEPT ![b].pc = "done"]
    /\ UNCHANGED <<active, sent>>

\* A user switches a schedule on or off.
Toggle(s) ==
    /\ active' = IF s \in active THEN active \ {s} ELSE active \cup {s}
    /\ UNCHANGED <<task, sent>>

CronNext ==
    \/ \E b \in Beats : Beat(b) \/ Start(b) \/ Raises(b) \/ Finish(b)
                          \/ \E s \in Schedules : Queue(b, s)
    \/ \E s \in Schedules : Toggle(s)

CronSpec == CronInit /\ [][CronNext]_cronVars

-----------------------------------------------------------------------------

\* A trigger of a schedule is queued by the task of one beat only: cron_schedule_window
\* never finds it in two windows.  It holds while HalfWindow + MaxLate <= Period.
OneWindow ==
    \A x, y \in sent : (x[1] = y[1] /\ x[2] = y[2]) => x[3] = y[3]

\* A scheduler task that ends well has queued the trigger of its own minute for every
\* schedule it loaded, whatever failed and was tried again before.  It holds while
\* MaxLate < HalfWindow.
NoneMissed ==
    \A b \in Beats : task[b].pc = "done" =>
        \A s \in task[b].loaded : b \in Cron[s] => <<s, b, b>> \in sent

=============================================================================
