----------------------------- MODULE SqlLabPool -----------------------------
(***************************************************************************)
(* The SQL Lab thread pool and its admission semaphore                     *)
(* (utils/threadpool.py): run_sqllab_blocking acquires a slot on the event *)
(* loop, submits the job, and gives the slot back from the completion      *)
(* callback of the job.  Every caller wraps it in asyncio.wait_for         *)
(* (commands/sqllab/execute.py and estimate.py), which abandons the result *)
(* of a job but cannot stop its thread.                                    *)
(***************************************************************************)
EXTENDS Naturals, FiniteSets

CONSTANTS
    Calls,      \* calls of run_sqllab_blocking
    Threads,    \* max_workers of the executor, and the slots of the semaphore
    Idle        \* a thread that has no job

ASSUME CallsAssumption == IsFiniteSet(Calls) /\ Idle \notin Calls
ASSUME ThreadsAssumption == IsFiniteSet(Threads) /\ Threads # {}

VARIABLES
    open,       \* is the pool installed (app startup to shutdown)?
    permits,    \* value of the semaphore
    held,       \* calls whose slot has not been released yet
    co,         \* the coroutine of each call
    fut,        \* the future of each call's job
    thr         \* what each pool thread works on

vars == <<open, permits, held, co, fut, thr>>

Size == Cardinality(Threads)

TypeOK ==
    /\ open \in BOOLEAN
    /\ permits \in 0..Size
    /\ held \in SUBSET Calls
    /\ co \in [Calls -> {"start", "fallback", "waiting", "awaiting",
                         "returned", "timedout", "raised"}]
    /\ fut \in [Calls -> {"none", "pending", "running", "finished", "cancelled"}]
    /\ thr \in [Threads -> Calls \cup {Idle}]

\* install_sqllab_executor has run.
Init ==
    /\ open = TRUE
    /\ permits = Size
    /\ held = {}
    /\ co = [c \in Calls |-> "start"]
    /\ fut = [c \in Calls |-> "none"]
    /\ thr = [t \in Threads |-> Idle]

-----------------------------------------------------------------------------
(* The event loop. *)

\* The pool and the semaphore are read before the first await; without a pool
\* the job goes to asyncio.to_thread.
Enter(c) ==
    /\ co[c] = "start"
    /\ co' = [co EXCEPT ![c] = IF open THEN "waiting" ELSE "fallback"]
    /\ UNCHANGED <<open, permits, held, fut, thr>>

\* A slot is acquired and the job submitted without an await between.  Which
\* waiter a free slot goes to is left open.
Admit(c) ==
    /\ co[c] = "waiting" /\ permits > 0 /\ open
    /\ permits' = permits - 1
    /\ held' = held \cup {c}
    /\ co' = [co EXCEPT ![c] = "awaiting"]
    /\ fut' = [fut EXCEPT ![c] = "pending"]
    /\ UNCHANGED <<open, thr>>

\* Mutant: the slot of a failed submission is not released.
SubmitRaisesLeaks(c) ==
    /\ co[c] = "waiting" /\ permits > 0 /\ ~open
    /\ permits' = permits - 1
    /\ co' = [co EXCEPT ![c] = "raised"]
    /\ UNCHANGED <<open, held, fut, thr>>

\* A call that waited across the shutdown acquires its slot, submit raises, and
\* the slot is released at once.
SubmitRaises(c) ==
    /\ co[c] = "waiting" /\ permits > 0 /\ ~open
    /\ co' = [co EXCEPT ![c] = "raised"]
    /\ UNCHANGED <<open, permits, held, fut, thr>>

\* Mutant: wait_for is put around the job only, not around the admission.
TimeoutWaitingNever(c) ==
    /\ FALSE
    /\ UNCHANGED <<co, open, permits, held, fut, thr>>

\* wait_for expires before a slot was free.
TimeoutWaiting(c) ==
    /\ co[c] = "waiting"
    /\ co' = [co EXCEPT ![c] = "timedout"]
    /\ UNCHANGED <<open, permits, held, fut, thr>>

\* Mutant: the slot is released when the await is cancelled.
TimeoutAwaitingReleases(c) ==
    /\ co[c] = "awaiting"
    /\ co' = [co EXCEPT ![c] = "timedout"]
    /\ fut' = [fut EXCEPT ![c] = IF fut[c] = "pending" THEN "cancelled" ELSE fut[c]]
    /\ permits' = IF c \in held THEN permits + 1 ELSE permits
    /\ held' = held \ {c}
    /\ UNCHANGED <<open, thr>>

\* Mutant: the job itself releases its slot, so a cancelled one never does.
TimeoutAwaitingLeaks(c) ==
    /\ co[c] = "awaiting"
    /\ co' = [co EXCEPT ![c] = "timedout"]
    /\ fut' = [fut EXCEPT ![c] = IF fut[c] = "pending" THEN "none" ELSE fut[c]]
    /\ UNCHANGED <<open, permits, held, thr>>

\* wait_for expires after the submission: a job no thread has taken yet is
\* cancelled, one that runs keeps its thread.
TimeoutAwaiting(c) ==
    /\ co[c] = "awaiting"
    /\ co' = [co EXCEPT ![c] = "timedout"]
    /\ fut' = [fut EXCEPT ![c] = IF fut[c] = "pending" THEN "cancelled" ELSE fut[c]]
    /\ UNCHANGED <<open, permits, held, thr>>

\* Mutant: a release without the bookkeeping that it happened.
ReleaseTwice(c) ==
    /\ c \in held /\ fut[c] \in {"finished", "cancelled"}
    /\ permits' = permits + 1
    /\ UNCHANGED <<open, held, co, fut, thr>>

\* The completion callback has been scheduled on the loop by the thread, or by
\* the cancellation, and runs.
Release(c) ==
    /\ c \in held /\ fut[c] \in {"finished", "cancelled"}
    /\ permits' = permits + 1
    /\ held' = held \ {c}
    /\ UNCHANGED <<open, co, fut, thr>>

\* The future's result or exception reaches the caller; a job that shutdown
\* cancelled raises.
Resume(c) ==
    /\ co[c] = "awaiting" /\ fut[c] \in {"finished", "cancelled"}
    /\ co' = [co EXCEPT ![c] = IF fut[c] = "finished" THEN "returned" ELSE "raised"]
    /\ UNCHANGED <<open, permits, held, fut, thr>>

\* shutdown(wait=False, cancel_futures=True): queued jobs are cancelled, running
\* ones are left alone, and later calls find no pool.
Shutdown ==
    /\ open
    /\ open' = FALSE
    /\ fut' = [c \in Calls |-> IF fut[c] = "pending" THEN "cancelled" ELSE fut[c]]
    /\ UNCHANGED <<permits, held, co, thr>>

-----------------------------------------------------------------------------
(* The threads. *)

TakeJob(t, c) ==
    /\ thr[t] = Idle /\ fut[c] = "pending"
    /\ thr' = [thr EXCEPT ![t] = c]
    /\ fut' = [fut EXCEPT ![c] = "running"]
    /\ UNCHANGED <<open, permits, held, co>>

\* The job returns or raises: the future is set and its callback scheduled
\* while the thread is still on its way back to the queue.
FinishJob(t) ==
    /\ thr[t] # Idle /\ fut[thr[t]] = "running"
    /\ fut' = [fut EXCEPT ![thr[t]] = "finished"]
    /\ UNCHANGED <<open, permits, held, co, thr>>

ReturnToQueue(t) ==
    /\ thr[t] # Idle /\ fut[thr[t]] = "finished"
    /\ thr' = [thr EXCEPT ![t] = Idle]
    /\ UNCHANGED <<open, permits, held, co, fut>>

-----------------------------------------------------------------------------
Loop(c) ==
    \/ Enter(c) \/ Admit(c) \/ SubmitRaises(c)
    \/ TimeoutWaiting(c) \/ TimeoutAwaiting(c) \/ Resume(c)

Thread(t) == (\E c \in Calls : TakeJob(t, c)) \/ FinishJob(t) \/ ReturnToQueue(t)

Next ==
    \/ \E c \in Calls : Loop(c) \/ Release(c)
    \/ \E t \in Threads : Thread(t)
    \/ Shutdown

\* The loop runs what it has been given, and the clock of wait_for goes on
\* whatever the threads do.
LoopFairness ==
    \A c \in Calls : WF_vars(TimeoutWaiting(c)) /\ WF_vars(TimeoutAwaiting(c)) /\ WF_vars(Release(c))

\* The driver call of a job returns at last, and a free thread takes a job.
ThreadFairness == \A t \in Threads : WF_vars(Thread(t))

Spec == Init /\ [][Next]_vars /\ LoopFairness

-----------------------------------------------------------------------------
(* Properties. *)

\* Jobs that wait for a thread or occupy one.
Occupying == {c \in Calls : fut[c] \in {"pending", "running"}}

\* Slots are neither lost nor minted: those free and those held make up the
\* pool, through time-outs, failed submissions and the shutdown.
SlotConservation == permits + Cardinality(held) = Size

\* "the pool would over-admit exactly when it is already saturated" is what
\* releasing from the completion callback avoids: abandoned jobs count.
NeverOverAdmits == Cardinality(Occupying) <= Size

\* An admitted job never waits in the executor's queue behind jobs that still
\* run: some thread is free, or on its way back to the queue.
NoQueueBehindRunning ==
    (\E c \in Calls : fut[c] = "pending")
        => \E t \in Threads : thr[t] = Idle \/ fut[thr[t]] # "running"

\* Whatever the driver calls in the pool do, a caller does not hang: wait_for
\* covers the admission as well as the job.
CallsEnd ==
    \A c \in Calls :
        co[c] \in {"waiting", "awaiting"} ~> co[c] \in {"returned", "timedout", "raised"}

\* If driver calls return, the slot of every admitted call comes back, that of
\* an abandoned or a cancelled one too.
SlotsReturn == ThreadFairness => \A c \in Calls : c \in held ~> c \notin held

-----------------------------------------------------------------------------
(* The inductive invariant behind the safety properties. *)

\* A job that is queued or runs holds its slot; a call that has no job does not.
InvHeld ==
    \A c \in Calls :
        /\ fut[c] \in {"pending", "running"} => c \in held
        /\ fut[c] = "none" => c \notin held
        /\ co[c] \in {"start", "waiting"} => fut[c] = "none"

\* Two threads never have the same job, and a thread's job has been started.
InvThreads ==
    /\ \A t \in Threads : thr[t] # Idle => fut[thr[t]] \in {"running", "finished"}
    /\ \A t, u \in Threads : thr[t] = thr[u] /\ thr[t] # Idle => t = u

Inv == TypeOK /\ SlotConservation /\ InvHeld /\ InvThreads
=============================================================================
