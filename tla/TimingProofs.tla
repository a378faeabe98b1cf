----------------------------- MODULE TimingProofs -----------------------------
(***************************************************************************)
(* Proofs about the parts of the system whose correctness is a matter of   *)
(* time, for every period, window, expiry, lifetime and latency: the       *)
(* scheduler of reports (CronWindow), the lock in the key_value table      *)
(* (DistributedLock) and the refreshing of guest tokens (GuestToken).      *)
(***************************************************************************)
EXTENDS CronWindow, DistributedLock, GuestToken, TLAPS

-----------------------------------------------------------------------------
(***************************************************************************)
(* How late the scheduler of reports may be: a trigger is queued by one beat   *)
(* only while the lateness is at most a period less half a window, and by the  *)
(* beat of its own minute while it is less than half a window.                 *)
(***************************************************************************)

\* A product grows with its factor.
LEMMA Grows == ASSUME NEW p \in Nat, NEW m \in Nat, NEW n \in Nat, m >= n + 1
               PROVE  m * p >= n * p + p
<1> DEFINE d == m - (n + 1)
<1>1. d \in Nat OBVIOUS
<1>2. m = n + 1 + d OBVIOUS
<1>3. m * p = n * p + p + d * p BY <1>1, <1>2
<1>4. d * p >= 0 BY <1>1
<1> HIDE DEF d
<1>5. d * p \in Int /\ n * p \in Int /\ m * p \in Int BY <1>1
<1> QED BY <1>3, <1>4, <1>5

\* With little lateness the window of a beat holds the trigger of its minute only.
LEMMA OwnMinuteOnly ==
    ASSUME CronConstants, HalfWindow + MaxLate <= Period,
           NEW s \in Schedules, NEW b \in Beats, NEW late \in Lateness,
           NEW m \in cron_schedule_window(s, b, late)
    PROVE  m = b
<1>0. m \in Cron[s] BY DEF cron_schedule_window
<1>1. m \in Nat /\ b \in Nat /\ late \in Nat /\ late <= MaxLate
  <2>1. Cron[s] \subseteq Nat BY CronConstants DEF CronConstants
  <2>2. MaxLate \in Nat /\ late \in 0 .. MaxLate BY CronConstants DEF CronConstants, Lateness
  <2>3. b \in Nat BY CronConstants DEF CronConstants
  <2> QED BY <1>0, <2>1, <2>2, <2>3
<1>3. Period \in Nat /\ Period > 0 /\ HalfWindow \in Nat /\ MaxLate \in Nat
      BY CronConstants DEF CronConstants
<1>4. m * Period \in Int /\ b * Period \in Int BY <1>1, <1>3
<1>7. /\ m * Period > (b * Period + late) - HalfWindow
      /\ m * Period < (b * Period + late) + HalfWindow
      BY Zenon DEF cron_schedule_window
<1>5. ~(m >= b + 1)
  <2> SUFFICES ASSUME m >= b + 1 PROVE FALSE OBVIOUS
  <2>1. m * Period >= b * Period + Period BY <1>1, <1>3, Grows
  <2> QED BY <2>1, <1>1, <1>3, <1>4, <1>7
<1>6. ~(b >= m + 1)
  <2> SUFFICES ASSUME b >= m + 1 PROVE FALSE OBVIOUS
  <2>1. b * Period >= m * Period + Period BY <1>1, <1>3, Grows
  <2> QED BY <2>1, <1>1, <1>3, <1>4, <1>7
<1> QED BY <1>1, <1>5, <1>6

\* With less lateness it does hold that trigger.
LEMMA OwnMinuteIn ==
    ASSUME CronConstants, MaxLate < HalfWindow,
           NEW s \in Schedules, NEW b \in Beats, NEW late \in Lateness, b \in Cron[s]
    PROVE  b \in cron_schedule_window(s, b, late)
<1>1. b \in Nat /\ late \in Nat /\ late <= MaxLate /\ HalfWindow \in Nat /\ MaxLate \in Nat
      BY CronConstants DEF CronConstants, Lateness
<1>2. b * Period \in Int BY <1>1, CronConstants DEF CronConstants
<1> QED BY <1>1, <1>2 DEF cron_schedule_window

\* The types are kept by every step.
LEMMA CronTypesKept == ASSUME CronConstants PROVE CronTypeOK /\ [CronNext]_cronVars => CronTypeOK'
<1> SUFFICES ASSUME CronTypeOK, [CronNext]_cronVars PROVE CronTypeOK' OBVIOUS
<1> USE DEF CronTypeOK
<1>0. 0 \in Lateness BY CronConstants DEF CronConstants, Lateness
<1>1. ASSUME NEW b \in Beats, Beat(b) PROVE CronTypeOK'
  <2>1. PICK late \in Lateness : task' = [task EXCEPT ![b].pc = "queued", ![b].late = late]
        BY <1>1 DEF Beat
  <2>2. active' = active /\ sent' = sent BY <1>1 DEF Beat
  <2> QED BY <2>1, <2>2, ZenonT(40)
<1>2. ASSUME NEW b \in Beats, Start(b) PROVE CronTypeOK'
  <2>1. PICK late \in Lateness :
          task' = [task EXCEPT ![b].pc = "running", ![b].late = late,
                               ![b].loaded = active, ![b].left = active]
        BY <1>2 DEF Start
  <2>2. active' = active /\ sent' = sent BY <1>2 DEF Start
  <2> DEFINE new == [task[b] EXCEPT !.pc = "running", !.late = late,
                                    !.loaded = active, !.left = active]
  <2>3. task' = [task EXCEPT ![b] = new] BY <2>1
  <2>4. new \in [pc : {"due", "queued", "running", "done", "failed"}, late : Lateness,
                 loaded : SUBSET Schedules, left : SUBSET Schedules, tries : Nat]
        OBVIOUS
  <2>5. new.left \subseteq new.loaded OBVIOUS
  <2> HIDE DEF new
  <2> QED BY <2>2, <2>3, <2>4, <2>5
<1>3. ASSUME NEW b \in Beats, Raises(b) PROVE CronTypeOK' BY <1>3 DEF Raises
<1>4. ASSUME NEW b \in Beats, Finish(b) PROVE CronTypeOK' BY <1>4 DEF Finish
<1>5. ASSUME NEW b \in Beats, NEW s \in Schedules, Queue(b, s) PROVE CronTypeOK'
  <2>1. {<<s, m, b>> : m \in cron_schedule_window(s, b, task[b].late)}
          \subseteq Schedules \X Minutes \X Beats
        BY DEF cron_schedule_window, Minutes
  <2>2. sent' \subseteq Schedules \X Minutes \X Beats BY <1>5, <2>1 DEF Queue
  <2> QED BY <1>5, <2>2 DEF Queue
<1>6. ASSUME NEW s \in Schedules, Toggle(s) PROVE CronTypeOK' BY <1>6 DEF Toggle
<1>7. CASE UNCHANGED cronVars BY <1>7 DEF cronVars
<1> QED BY <1>1, <1>2, <1>3, <1>4, <1>5, <1>6, <1>7 DEF CronNext

\* There is no task before the first beat.
LEMMA CronTypesInit == ASSUME CronConstants PROVE CronInit => CronTypeOK
BY CronConstants DEF CronConstants, CronInit, CronTypeOK, Lateness

\* The scheduler's tasks work with times that are late by MaxLate at most, and queue
\* executions of known schedules and minutes.
THEOREM CronTypes == ASSUME CronConstants PROVE CronSpec => []CronTypeOK
BY CronTypesInit, CronTypesKept, PTL DEF CronSpec

\* Every execution is queued by the beat of its minute.
OwnMinute == \A x \in sent : x[2] = x[3]

\* No trigger is in two windows if beats are late by a period less half a window at most
\* (30.5 seconds with the window of 59 seconds).
THEOREM TriggersQueuedByOneBeat ==
    ASSUME CronConstants, HalfWindow + MaxLate <= Period PROVE CronSpec => []OneWindow
<1>1. CronInit => OwnMinute BY DEF CronInit, OwnMinute
<1>2. CronTypeOK /\ OwnMinute /\ [CronNext]_cronVars => OwnMinute'
  <2> SUFFICES ASSUME CronTypeOK, OwnMinute, [CronNext]_cronVars PROVE OwnMinute' OBVIOUS
  <2>1. ASSUME NEW b \in Beats, NEW s \in Schedules, Queue(b, s) PROVE OwnMinute'
    <3>1. task[b].late \in Lateness BY DEF CronTypeOK
    <3>2. \A m \in cron_schedule_window(s, b, task[b].late) : m = b
          BY <3>1, OwnMinuteOnly
    <3> QED BY <2>1, <3>2 DEF Queue, OwnMinute
  <2>2. CASE UNCHANGED sent BY <2>2 DEF OwnMinute
  <2> QED BY <2>1, <2>2 DEF CronNext, Beat, Start, Raises, Finish, Toggle, cronVars
<1>3. CronTypeOK /\ OwnMinute => OneWindow BY DEF OwnMinute, OneWindow
<1> QED BY <1>1, <1>2, <1>3, CronTypes, PTL DEF CronSpec

\* What a task has taken off its list it has queued.
Progress ==
    \A b \in Beats : task[b].pc \in {"running", "done"} =>
        \A s \in task[b].loaded \ task[b].left : b \in Cron[s] => <<s, b, b>> \in sent

DoneIsEmpty == \A b \in Beats : task[b].pc = "done" => task[b].left = {}

\* The trigger of a beat's own minute is queued if beats are late by less than half a
\* window (29.5 seconds), whatever fails before the task ends well.
THEOREM NoTriggerMissed ==
    ASSUME CronConstants, MaxLate < HalfWindow PROVE CronSpec => []NoneMissed
<1> DEFINE CronInv == Progress /\ DoneIsEmpty
<1>1. CronInit => CronInv BY DEF CronInit, Progress, DoneIsEmpty
<1>2. CronTypeOK /\ CronInv /\ [CronNext]_cronVars => CronInv'
  <2> SUFFICES ASSUME CronTypeOK, CronInv, [CronNext]_cronVars PROVE CronInv' OBVIOUS
  <2> USE DEF CronTypeOK, Progress, DoneIsEmpty
  <2>1. ASSUME NEW b \in Beats, Beat(b) PROVE CronInv' BY <2>1 DEF Beat
  <2>2. ASSUME NEW b \in Beats, Start(b) PROVE CronInv' BY <2>2 DEF Start
  <2>3. ASSUME NEW b \in Beats, Raises(b) PROVE CronInv' BY <2>3 DEF Raises
  <2>4. ASSUME NEW b \in Beats, Finish(b) PROVE CronInv' BY <2>4 DEF Finish
  <2>5. ASSUME NEW b \in Beats, NEW s \in Schedules, Queue(b, s) PROVE CronInv'
    <3>1. task[b].late \in Lateness OBVIOUS
    <3>2. b \in Cron[s] => b \in cron_schedule_window(s, b, task[b].late)
          BY <3>1, OwnMinuteIn
    <3>3. b \in Cron[s] => <<s, b, b>> \in sent' BY <2>5, <3>2 DEF Queue
    <3>4. sent \subseteq sent' BY <2>5 DEF Queue
    <3>5. task' = [task EXCEPT ![b].left = @ \ {s}] /\ task[b].pc = "running"
          BY <2>5 DEF Queue
    <3>6. Progress' BY <3>3, <3>4, <3>5
    <3>7. DoneIsEmpty' BY <3>5
    <3> QED BY <3>6, <3>7
  <2>6. ASSUME NEW s \in Schedules, Toggle(s) PROVE CronInv' BY <2>6 DEF Toggle
  <2>7. CASE UNCHANGED cronVars BY <2>7 DEF cronVars
  <2> QED BY <2>1, <2>2, <2>3, <2>4, <2>5, <2>6, <2>7 DEF CronNext
<1>3. CronTypeOK /\ CronInv => NoneMissed
      BY DEF CronTypeOK, Progress, DoneIsEmpty, NoneMissed
<1> QED BY <1>1, <1>2, <1>3, CronTypes, PTL DEF CronSpec

-----------------------------------------------------------------------------
(***************************************************************************)
(* Mutual exclusion of the lock in the key_value table, for any number of      *)
(* workers and any expiry that is longer than the work.                        *)
(***************************************************************************)

\* Work that is under way is not late, and its row is the one in the table.
Owns ==
    MaxHold < LockExpiration =>
        \A w \in Holders : row.by = w /\ clock <= since[w] + MaxHold

LockInv == LockTypeOK /\ Owns

\* Under the lock the row has not expired, so nobody else finds the lock free.
LEMMA HeldIsTaken ==
    ASSUME LockConstants, LockInv, MaxHold < LockExpiration, NEW w \in Holders
    PROVE  Taken /\ row.by = w
<1>1. w \in Workers /\ w # NoOne /\ row.by = w /\ clock <= since[w] + MaxHold
      BY LockConstants DEF LockConstants, LockInv, Owns, Holders
<1>2. row.expires = since[w] + LockExpiration /\ since[w] \in Nat /\ clock \in Nat
      BY <1>1 DEF LockInv, LockTypeOK
<1>3. QED BY <1>1, <1>2, LockConstants DEF LockConstants, Taken

\* The invariant of the lock holds when nobody has it.
LEMMA InitLockInv == LockInit => LockInv
<1> SUFFICES ASSUME LockInit PROVE LockInv
    OBVIOUS
<1>1. Holders = {}
      BY DEF LockInit, Holders
<1>2. LockTypeOK
      BY DEF LockInit, LockTypeOK, NoRow
<1>3. QED BY <1>1, <1>2 DEF LockInv, Owns

\* Every step of the lock keeps its invariant.
LEMMA NextLockInv == ASSUME LockConstants PROVE LockInv /\ [LockNext]_lockVars => LockInv'
<1> SUFFICES ASSUME LockInv, [LockNext]_lockVars PROVE LockInv'
    OBVIOUS
<1> USE LockConstants DEF LockConstants
<1>1. CASE LockTick
  <2>1. LockTypeOK'
        BY <1>1 DEF LockTick, LockInv, LockTypeOK
  <2>2. Owns'
        BY <1>1 DEF LockTick, LockInv, LockTypeOK, Owns, Holders
  <2>3. QED BY <2>1, <2>2 DEF LockInv
<1>2. ASSUME NEW w \in Workers, Enter(w) PROVE LockInv'
  <2>1. LockTypeOK'
        BY <1>2 DEF Enter, LockInv, LockTypeOK
  <2>2. Holders' \subseteq Holders
        BY <1>2 DEF Enter, Holders, LockInv, LockTypeOK
  <2>3. QED BY <1>2, <2>1, <2>2 DEF Enter, LockInv, Owns
<1>3. ASSUME NEW w \in Workers, GetLock(w) PROVE LockInv'
  <2>1. LockTypeOK'
        BY <1>3 DEF GetLock, LockInv, LockTypeOK
  <2>2. Holders' \subseteq Holders
        BY <1>3 DEF GetLock, Holders, LockInv, LockTypeOK
  <2>3. QED BY <1>3, <2>1, <2>2 DEF GetLock, LockInv, Owns
<1>4. ASSUME NEW w \in Workers, CreateLock(w) PROVE LockInv'
  <2>1. CASE Taken
    <3>1. LockTypeOK'
          BY <1>4, <2>1 DEF CreateLock, LockInv, LockTypeOK
    <3>2. Holders' \subseteq Holders
          BY <1>4, <2>1 DEF CreateLock, Holders, LockInv, LockTypeOK
    <3>3. QED BY <1>4, <2>1, <3>1, <3>2 DEF CreateLock, LockInv, Owns
  <2>2. CASE ~Taken
    <3>1. /\ pc' = [pc EXCEPT ![w] = "holding"]
          /\ since' = [since EXCEPT ![w] = clock]
          /\ row' = [by |-> w, expires |-> clock + LockExpiration]
          /\ clock' = clock
          BY <1>4, <2>2 DEF CreateLock
    <3>2. LockTypeOK'
          BY <3>1 DEF LockInv, LockTypeOK
    <3>3. ASSUME MaxHold < LockExpiration PROVE Holders = {}
          BY <2>2, <3>3, HeldIsTaken
    <3>4. Holders' \subseteq Holders \cup {w}
          BY <3>1 DEF Holders, LockInv, LockTypeOK
    <3>5. since'[w] = clock /\ clock \in Nat /\ row'.by = w
          BY <3>1 DEF LockInv, LockTypeOK
    <3>6. Owns'
      <4>1. SUFFICES ASSUME MaxHold < LockExpiration, NEW v \in Holders'
                     PROVE  row'.by = v /\ clock' <= since'[v] + MaxHold
            BY DEF Owns
      <4>2. v = w
            BY <3>3, <3>4, <4>1
      <4>3. QED BY <3>1, <3>5, <4>2
    <3>7. QED BY <3>2, <3>6 DEF LockInv
  <2>3. QED BY <2>1, <2>2
<1>5. ASSUME NEW w \in Workers, DeleteLock(w) PROVE LockInv'
  <2>1. LockTypeOK'
        BY <1>5 DEF DeleteLock, LockInv, LockTypeOK, NoRow
  <2>2. Holders' = Holders \ {w} /\ w \in Holders
        BY <1>5 DEF DeleteLock, Holders, LockInv, LockTypeOK
  <2>3. ASSUME MaxHold < LockExpiration PROVE Holders' = {}
        BY <2>2, <2>3 DEF LockInv, Owns
  <2>4. QED BY <2>1, <2>3 DEF LockInv, Owns
<1>6. ASSUME NEW w \in Workers, BodyRaises(w) PROVE LockInv'
  <2>1. LockTypeOK'
        BY <1>6 DEF BodyRaises, LockInv, LockTypeOK
  <2>2. Holders' \subseteq Holders
        BY <1>6 DEF BodyRaises, Holders, LockInv, LockTypeOK
  <2>3. QED BY <1>6, <2>1, <2>2 DEF BodyRaises, LockInv, Owns
<1>7. CASE UNCHANGED lockVars
      BY <1>7 DEF lockVars, LockInv, LockTypeOK, Owns, Holders
<1>8. QED
      BY <1>1, <1>2, <1>3, <1>4, <1>5, <1>6, <1>7 DEF LockNext, LockStep

\* The row in the table expires LockExpiration after its writer got the lock, for any
\* number of workers.
THEOREM LockTypes == ASSUME LockConstants PROVE LockSpec => []LockTypeOK
<1>1. LockInv => LockTypeOK
      BY DEF LockInv
<1>2. QED BY <1>1, InitLockInv, NextLockInv, PTL DEF LockSpec

\* However many workers there are and however often work raises, two never work under the
\* lock of sync_key_value_distributed_lock at a time if work ends before the row expires.
THEOREM LockExcludes == ASSUME LockConstants PROVE LockSpec => []MutualExclusion
<1>1. LockInv => MutualExclusion
      BY DEF LockInv, Owns, MutualExclusion
<1>2. QED BY <1>1, InitLockInv, NextLockInv, PTL DEF LockSpec

-----------------------------------------------------------------------------
(***************************************************************************)
(* The refreshing of guest tokens, for every lifetime, wait, buffer and        *)
(* latency.  The invariant dates what is under way: a fetch and the load of    *)
(* the iframe by the latency, the timer by the token that set it.              *)
(***************************************************************************)

\* What is due is not overdue, and a timer leaves the shortest wait after the last call
\* if it can be set to the wait.
Dated ==
    /\ fetching => now <= asked + Latency
    /\ frame = "loading" => now <= Latency /\ held = None /\ timer = None /\ asked = 0
    /\ first # None => frame = "loading" /\ ~fetching
                     /\ first >= Lifetime /\ first <= now + Lifetime
    /\ timer # None => now <= timer /\ (DelayFits => timer >= asked + MinWait - Buffer)

\* The token in use outlives the fetch of the next, which is under way or due.
Outlives ==
    Prompt /\ held # None =>
        /\ fetching \/ timer # None
        /\ fetching => asked + Latency < held
        /\ timer # None => timer + Latency < held
        /\ now < held

GuestInv == GuestTypeOK /\ Dated /\ Outlives

\* The wait is never shorter than the shortest wait less the buffer, and it fits
\* setTimeout when the lifetime of tokens does.
LEMMA TimingBound ==
    ASSUME GuestTokenConstants, NEW exp \in Nat, now \in Nat
    PROVE  /\ getGuestTokenRefreshTiming(exp) \in Nat
           /\ getGuestTokenRefreshTiming(exp) >= MinWait - Buffer
           /\ DelayFits /\ Tokens # "opaque" /\ exp <= now + Lifetime
                => getGuestTokenRefreshTiming(exp) <= MaxDelay
    BY GuestTokenConstants DEF GuestTokenConstants, getGuestTokenRefreshTiming, DelayFits

\* A timer is never set for later than asked, and for just then if its delay fits.
LEMMA TimeoutBound ==
    ASSUME MaxDelay \in Nat, NEW delay \in Nat
    PROVE  /\ SetTimeout(delay) \in Nat /\ SetTimeout(delay) <= delay
           /\ delay <= MaxDelay => SetTimeout(delay) = delay
<1> DEFINE range == 2 * (MaxDelay + 1)
<1>1. range \in Nat /\ range > MaxDelay
      BY DEF range
<1> HIDE DEF range
<1>2. delay % range \in Nat /\ delay % range <= delay
      BY <1>1
<1>3. delay <= MaxDelay => delay % range = delay
      BY <1>1
<1>4. QED BY <1>2, <1>3 DEF SetTimeout, range

\* A timely fetch follows the wait before the token that set it expires.
LEMMA TimingPrompt ==
    ASSUME GuestTokenConstants, NEW exp \in Nat, now \in Nat, Prompt, exp >= now + Lifetime - Latency
    PROVE  now + getGuestTokenRefreshTiming(exp) + Latency < exp
    BY GuestTokenConstants DEF GuestTokenConstants, getGuestTokenRefreshTiming, Prompt

\* The invariant of the token holds when the page is embedded.
LEMMA InitGuestInv == ASSUME GuestTokenConstants PROVE GuestInit => GuestInv
    BY GuestTokenConstants DEF GuestTokenConstants, GuestInit, GuestInv, GuestTypeOK, Dated, Outlives, None

\* Sending a token that was issued less than Latency ago keeps the dates in order.
LEMMA SendDated ==
    ASSUME GuestTokenConstants, NEW exp \in Nat, GuestInv, Send(exp), now' = now, asked' = asked,
           exp <= now + Lifetime
    PROVE  /\ timer' \in Nat \cup {None} /\ held' \in Nat \cup {None}
           /\ timer' # None => timer' >= now /\ (DelayFits => timer' >= asked + MinWait - Buffer)
           /\ Prompt /\ exp >= now + Lifetime - Latency /\ held' # None
                => timer' # None /\ timer' + Latency < held' /\ now < held'
<1> DEFINE wait == getGuestTokenRefreshTiming(exp)
           delay == SetTimeout(wait)
<1>1. /\ now \in Nat /\ asked \in Nat /\ asked <= now
      BY DEF GuestInv, GuestTypeOK
<1>2. /\ wait \in Nat /\ wait >= MinWait - Buffer
      /\ DelayFits /\ Tokens # "opaque" => wait <= MaxDelay
      BY <1>1, TimingBound
<1>3. Prompt /\ exp >= now + Lifetime - Latency => now + wait + Latency < exp
      BY <1>1, TimingPrompt
<1>4. timer' = (IF Tokens = "opaque" THEN None ELSE now + delay) /\ held' \in {None, exp}
      BY DEF Send
<1> HIDE DEF wait
<1>5. delay \in Nat /\ delay <= wait /\ (wait <= MaxDelay => delay = wait)
      BY <1>2, TimeoutBound, GuestTokenConstants DEF GuestTokenConstants
<1> HIDE DEF delay
<1>6. timer' \in Nat \cup {None} /\ held' \in Nat \cup {None}
      BY <1>1, <1>4, <1>5 DEF None
<1>7. timer' # None => timer' >= now /\ (DelayFits => timer' >= asked + MinWait - Buffer)
      BY <1>1, <1>2, <1>4, <1>5, GuestTokenConstants DEF GuestTokenConstants, None
<1>8. ASSUME Prompt, exp >= now + Lifetime - Latency, held' # None
      PROVE  timer' # None /\ timer' + Latency < held' /\ now < held'
  <2>1. timer' = now + delay
        BY <1>4, <1>8 DEF Prompt
  <2>2. held' = exp
        BY <1>4, <1>8
  <2>3. QED BY <1>1, <1>2, <1>3, <1>5, <1>8, <2>1, <2>2, GuestTokenConstants
            DEF GuestTokenConstants, None
<1>9. QED BY <1>6, <1>7, <1>8

\* Every step of the embedded page keeps the invariant of the token.
LEMMA NextGuestInv == ASSUME GuestTokenConstants PROVE GuestInv /\ [GuestNext]_guestVars => GuestInv'
<1> SUFFICES ASSUME GuestInv, [GuestNext]_guestVars PROVE GuestInv'
    OBVIOUS
<1> USE GuestTokenConstants DEF GuestTokenConstants
<1>1. CASE mountIframe
  <2>1. CASE first # None
    <3>1. first \in Nat /\ Send(first) /\ now' = now /\ asked' = asked /\ first' = None
          BY <1>1, <2>1 DEF mountIframe, GuestInv, GuestTypeOK
    <3>2. first >= now + Lifetime - Latency /\ first <= now + Lifetime
          BY <2>1, <3>1 DEF GuestInv, Dated, GuestTypeOK
    <3>3. /\ timer' \in Nat \cup {None} /\ held' \in Nat \cup {None}
          /\ timer' # None
               => timer' >= now /\ (DelayFits => timer' >= asked + MinWait - Buffer)
          /\ Prompt /\ held' # None
               => timer' # None /\ timer' + Latency < held' /\ now < held'
          BY <3>1, <3>2, SendDated
    <3>4. ~fetching /\ fetching' = fetching
          BY <1>1, <2>1 DEF mountIframe, GuestInv, Dated, GuestTypeOK, None
    <3>5. frame' = "loaded"
          BY <1>1 DEF mountIframe
    <3>6. GuestTypeOK'
          BY <3>1, <3>3, <3>4, <3>5 DEF GuestInv, GuestTypeOK, None
    <3>7. Dated'
          BY <3>1, <3>3, <3>4, <3>5 DEF GuestInv, GuestTypeOK, Dated, None
    <3>8. Outlives'
      <4>1. ~fetching' /\ now' = now
            BY <3>1, <3>4
      <4>2. QED BY <3>3, <4>1 DEF Outlives, Prompt
    <3>9. QED BY <3>6, <3>7, <3>8 DEF GuestInv
  <2>2. CASE first = None
        BY <1>1, <2>2 DEF mountIframe, GuestInv, GuestTypeOK, Dated, Outlives, None, Prompt
  <2>3. QED BY <2>1, <2>2
<1>2. CASE Fetched
  <2>1. PICK issued \in asked .. now :
           IF frame = "loading"
           THEN first' = issued + Lifetime /\ UNCHANGED <<timer, held>>
           ELSE Send(issued + Lifetime) /\ UNCHANGED first
        BY <1>2 DEF Fetched
  <2>2. /\ fetching /\ fetching' = FALSE /\ timer = None
        /\ now' = now /\ asked' = asked /\ frame' = frame
        BY <1>2 DEF Fetched, GuestInv, GuestTypeOK
  <2>3. /\ issued \in Nat /\ issued + Lifetime \in Nat
        /\ issued + Lifetime >= now + Lifetime - Latency /\ issued + Lifetime <= now + Lifetime
        BY <2>2 DEF GuestInv, GuestTypeOK, Dated
  <2>4. CASE frame = "loading"
    <3>1. first' = issued + Lifetime /\ timer' = timer /\ held' = held
          BY <2>1, <2>4
    <3>2. GuestTypeOK'
          BY <2>2, <2>3, <3>1 DEF GuestInv, GuestTypeOK, None
    <3>3. Dated'
          BY <2>2, <2>3, <2>4, <3>1 DEF GuestInv, GuestTypeOK, Dated, None
    <3>4. Outlives'
          BY <2>2, <2>4, <3>1 DEF GuestInv, Dated, Outlives
    <3>5. QED BY <3>2, <3>3, <3>4 DEF GuestInv
  <2>5. CASE frame # "loading"
    <3>1. /\ timer' \in Nat \cup {None} /\ held' \in Nat \cup {None}
          /\ timer' # None
               => timer' >= now /\ (DelayFits => timer' >= asked + MinWait - Buffer)
          /\ Prompt /\ held' # None
               => timer' # None /\ timer' + Latency < held' /\ now < held'
          BY <2>1, <2>2, <2>3, <2>5, SendDated
    <3>2. first' = first
          BY <2>1, <2>5
    <3>3. GuestTypeOK'
          BY <2>2, <3>1, <3>2 DEF GuestInv, GuestTypeOK, None
    <3>4. Dated'
          BY <2>2, <2>5, <3>1, <3>2 DEF GuestInv, GuestTypeOK, Dated, None
    <3>5. Outlives'
      <4>1. ~fetching' /\ now' = now
            BY <2>2
      <4>2. QED BY <3>1, <4>1 DEF Outlives, Prompt
    <3>6. QED BY <3>3, <3>4, <3>5 DEF GuestInv
  <2>6. QED BY <2>4, <2>5
<1>3. CASE FetchFailed
      BY <1>3 DEF FetchFailed, GuestInv, GuestTypeOK, Dated, Outlives, None, Prompt
<1>4. CASE refreshGuestToken
      BY <1>4 DEF refreshGuestToken, GuestInv, GuestTypeOK, Dated, Outlives, None, Prompt
<1>5. CASE unmount
      BY <1>5 DEF unmount, GuestInv, GuestTypeOK, Dated, Outlives, None, Prompt
<1>6. CASE GuestTick
      BY <1>6 DEF GuestTick, GuestInv, GuestTypeOK, Dated, Outlives, None, Prompt
<1>7. CASE UNCHANGED guestVars
      BY <1>7 DEF guestVars, GuestInv, GuestTypeOK, Dated, Outlives, None, Prompt
<1>8. QED
      BY <1>1, <1>2, <1>3, <1>4, <1>5, <1>6, <1>7 DEF GuestNext

\* Type correctness of the refreshing: refreshes never overlap, whatever the constants.
THEOREM GuestTokenTypes == ASSUME GuestTokenConstants PROVE GuestSpec => []GuestTypeOK
<1>1. GuestInv => GuestTypeOK
      BY DEF GuestInv
<1>2. QED BY <1>1, InitGuestInv, NextGuestInv, PTL DEF GuestSpec

\* For every lifetime, wait, buffer and latency under which a refresh can be timely,
\* the page embedded by embedDashboard never works with an expired token.
THEOREM TokenNeverExpires == ASSUME GuestTokenConstants PROVE GuestSpec => []NeverExpired
<1>1. GuestInv => NeverExpired
      BY DEF GuestInv, Outlives, NeverExpired
<1>2. QED BY <1>1, InitGuestInv, NextGuestInv, PTL DEF GuestSpec

\* fetchGuestToken is never called again before MinWait - Buffer has passed, however fetches
\* fail, while the lifetime of tokens is one that setTimeout can wait.
THEOREM FetchesAreSpaced == ASSUME GuestTokenConstants PROVE GuestSpec => FetchesSpaced
<1>1. GuestInv /\ [GuestNext]_guestVars
        => [DelayFits /\ asked' # asked => asked' >= asked + MinWait - Buffer]_guestVars
  <2> SUFFICES ASSUME GuestInv, GuestNext, DelayFits, asked' # asked
               PROVE  asked' >= asked + MinWait - Buffer
      OBVIOUS
  <2>1. refreshGuestToken
        BY DEF GuestNext, mountIframe, Fetched, FetchFailed, unmount, GuestTick
  <2>2. QED BY <2>1, GuestTokenConstants DEF GuestTokenConstants, refreshGuestToken, GuestInv, Dated, GuestTypeOK, None
<1>2. QED BY <1>1, InitGuestInv, NextGuestInv, PTL DEF GuestSpec, FetchesSpaced

=============================================================================
