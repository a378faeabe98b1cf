-------------------------- MODULE SqlLabPoolProofs --------------------------
(***************************************************************************)
(* The SQL Lab pool never over-admits, for any number of threads and of    *)
(* concurrent calls.                                                       *)
(***************************************************************************)
EXTENDS SqlLabPool, FiniteSetTheorems, TLAPS

\* Slots are counted with natural numbers.
LEMMA Counts ==
    ASSUME TypeOK
    PROVE  /\ Size \in Nat /\ permits \in Nat
           /\ IsFiniteSet(held) /\ Cardinality(held) \in Nat
<1>1. Size \in Nat
  BY ThreadsAssumption, FS_CardinalityType DEF Size
<1>2. IsFiniteSet(held)
  BY CallsAssumption, FS_Subset DEF TypeOK
<1> QED
  BY <1>1, <1>2, FS_CardinalityType DEF TypeOK

\* No step loses or mints a slot: Admit moves one from permits to held, Release
\* moves it back, and no other action touches either.
LEMMA ConservationStep ==
    ASSUME Inv, [Next]_vars
    PROVE  SlotConservation' /\ permits' \in 0..Size /\ held' \in SUBSET Calls
<1> USE DEF Inv, SlotConservation
<1>0. /\ Size \in Nat /\ permits \in Nat /\ IsFiniteSet(held) /\ Cardinality(held) \in Nat
      /\ permits \in 0..Size /\ held \in SUBSET Calls
  BY Counts DEF TypeOK
<1>1. ASSUME NEW c \in Calls, Admit(c)
      PROVE  SlotConservation' /\ permits' \in 0..Size /\ held' \in SUBSET Calls
  <2>1. c \notin held
    BY <1>1 DEF Admit, InvHeld
  <2>2. Cardinality(held \cup {c}) = Cardinality(held) + 1
    BY <1>0, <2>1, FS_AddElement
  <2>3. permits' = permits - 1 /\ held' = held \cup {c} /\ permits > 0
    BY <1>1 DEF Admit
  <2> QED
    BY <1>0, <2>2, <2>3
<1>2. ASSUME NEW c \in Calls, Release(c)
      PROVE  SlotConservation' /\ permits' \in 0..Size /\ held' \in SUBSET Calls
  <2>1. permits' = permits + 1 /\ held' = held \ {c} /\ c \in held
    BY <1>2 DEF Release
  <2>2. Cardinality(held \ {c}) = Cardinality(held) - 1
    BY <1>0, <2>1, FS_RemoveElement
  <2>3. Cardinality(held) > 0
    BY <1>0, <2>1, FS_EmptySet
  <2> QED
    BY <1>0, <2>1, <2>2, <2>3
<1>3. CASE UNCHANGED <<permits, held>>
  BY <1>0, <1>3
<1>4. \/ UNCHANGED <<permits, held>>
      \/ \E c \in Calls : Admit(c) \/ Release(c)
  BY DEF Next, vars, Loop, Thread, Enter, SubmitRaises, TimeoutWaiting, TimeoutAwaiting, Resume,
         Shutdown, TakeJob, FinishJob, ReturnToQueue
<1> QED
  BY <1>1, <1>2, <1>3, <1>4

\* The shape of the other variables is kept by every action.
LEMMA TypeStep ==
    ASSUME Inv, [Next]_vars
    PROVE  TypeOK'
<1> USE DEF Inv, TypeOK
<1>0. permits' \in 0..Size /\ held' \in SUBSET Calls
  BY ConservationStep
<1>1. ASSUME NEW c \in Calls, Loop(c) \/ Release(c) PROVE TypeOK'
  BY <1>0, <1>1 DEF Loop, Enter, Admit, SubmitRaises, TimeoutWaiting, TimeoutAwaiting, Resume, Release
<1>2. ASSUME NEW t \in Threads, Thread(t) PROVE TypeOK'
  BY <1>0, <1>2 DEF Thread, TakeJob, FinishJob, ReturnToQueue
<1>3. CASE Shutdown
  BY <1>0, <1>3 DEF Shutdown
<1>4. CASE UNCHANGED vars
  BY <1>4 DEF vars
<1> QED
  BY <1>1, <1>2, <1>3, <1>4 DEF Next

\* A slot is held from the submission until the completion callback runs.
LEMMA HeldStep ==
    ASSUME Inv, [Next]_vars
    PROVE  InvHeld'
<1> USE DEF Inv, TypeOK, InvHeld
<1>1. ASSUME NEW c \in Calls, Loop(c) \/ Release(c) PROVE InvHeld'
  <2>1. CASE Enter(c) \/ Admit(c) \/ SubmitRaises(c)
    BY <2>1 DEF Enter, Admit, SubmitRaises
  <2>2. CASE TimeoutWaiting(c) \/ TimeoutAwaiting(c) \/ Resume(c)
    BY <2>2 DEF TimeoutWaiting, TimeoutAwaiting, Resume
  <2>3. CASE Release(c)
    BY <2>3 DEF Release
  <2> QED
    BY <1>1, <2>1, <2>2, <2>3 DEF Loop
<1>2. ASSUME NEW t \in Threads, Thread(t) PROVE InvHeld'
  BY <1>2 DEF Thread, TakeJob, FinishJob, ReturnToQueue
<1>3. CASE Shutdown
  BY <1>3 DEF Shutdown
<1>4. CASE UNCHANGED vars
  BY <1>4 DEF vars
<1> QED
  BY <1>1, <1>2, <1>3, <1>4 DEF Next

\* A thread takes a queued job only, which no other thread can have.
LEMMA ThreadsStep ==
    ASSUME Inv, [Next]_vars
    PROVE  InvThreads'
<1> USE DEF Inv, TypeOK, InvThreads
<1>1. ASSUME NEW c \in Calls, Loop(c) \/ Release(c) PROVE InvThreads'
  <2>1. CASE Admit(c)
    BY <2>1 DEF Admit, InvHeld
  <2>2. CASE TimeoutAwaiting(c)
    BY <2>2 DEF TimeoutAwaiting
  <2>3. CASE UNCHANGED <<fut, thr>>
    BY <2>3
  <2> QED
    BY <1>1, <2>1, <2>2, <2>3 DEF Loop, Enter, SubmitRaises, TimeoutWaiting, Resume, Release
<1>2. ASSUME NEW t \in Threads, Thread(t) PROVE InvThreads'
  <2>1. ASSUME NEW c \in Calls, TakeJob(t, c) PROVE InvThreads'
    BY <2>1 DEF TakeJob
  <2>2. CASE FinishJob(t)
    BY <2>2 DEF FinishJob
  <2>3. CASE ReturnToQueue(t)
    BY <2>3 DEF ReturnToQueue
  <2> QED
    BY <1>2, <2>1, <2>2, <2>3 DEF Thread
<1>3. CASE Shutdown
  BY <1>3 DEF Shutdown
<1>4. CASE UNCHANGED vars
  BY <1>4 DEF vars
<1> QED
  BY <1>1, <1>2, <1>3, <1>4 DEF Next

\* The invariant holds initially and every step of a call, a thread or the
\* shutdown preserves it.
THEOREM Invariance == Spec => []Inv
<1>1. Init => Inv
  <2> SUFFICES ASSUME Init PROVE Inv
    OBVIOUS
  <2>1. Size \in Nat
    BY ThreadsAssumption, FS_CardinalityType DEF Size
  <2>2. TypeOK
    BY <2>1 DEF Init, TypeOK
  <2>3. SlotConservation
    BY <2>1, FS_EmptySet DEF Init, SlotConservation
  <2> QED
    BY <2>2, <2>3, CallsAssumption DEF Init, Inv, InvHeld, InvThreads
<1>2. Inv /\ [Next]_vars => Inv'
  BY ConservationStep, TypeStep, HeldStep, ThreadsStep DEF Inv
<1> QED
  BY <1>1, <1>2, PTL DEF Spec

\* The semaphore counts between none and all of the slots and every call, job and thread
\* is in a known state, for any number of threads and calls.
THEOREM PoolTypes == Spec => []TypeOK
<1>1. Inv => TypeOK
  BY DEF Inv
<1> QED
  BY <1>1, Invariance, PTL

\* Free and held slots always make up the pool.
THEOREM SlotsConserved == Spec => []SlotConservation
<1>1. Inv => SlotConservation
  BY DEF Inv
<1> QED
  BY <1>1, Invariance, PTL

\* The jobs in the executor, abandoned ones included, never exceed its threads.
THEOREM NoOverAdmission == Spec => []NeverOverAdmits
<1>1. ASSUME Inv PROVE NeverOverAdmits
  <2>1. /\ Size \in Nat /\ permits \in Nat /\ IsFiniteSet(held) /\ Cardinality(held) \in Nat
    BY <1>1, Counts DEF Inv
  <2>2. Occupying \in SUBSET held
    BY <1>1 DEF Inv, InvHeld, Occupying
  <2>3. Cardinality(Occupying) <= Cardinality(held) /\ IsFiniteSet(Occupying)
    BY <2>1, <2>2, FS_Subset
  <2>4. Cardinality(Occupying) \in Nat
    BY <2>3, FS_CardinalityType
  <2> QED
    BY <1>1, <2>1, <2>3, <2>4 DEF Inv, SlotConservation, NeverOverAdmits
<1> QED
  BY <1>1, Invariance, PTL

\* An admitted job never queues behind running ones: if every thread ran a job,
\* the slots held would outnumber the pool by the pigeonhole principle.
THEOREM AdmittedHasThread == Spec => []NoQueueBehindRunning
<1>1. ASSUME Inv PROVE NoQueueBehindRunning
  <2> SUFFICES ASSUME NEW c \in Calls, fut[c] = "pending",
                      \A t \in Threads : thr[t] # Idle /\ fut[thr[t]] = "running"
               PROVE  FALSE
    BY DEF NoQueueBehindRunning
  <2>1. /\ Size \in Nat /\ permits \in Nat /\ IsFiniteSet(held) /\ Cardinality(held) \in Nat
    BY <1>1, Counts DEF Inv
  <2>2. c \in held
    BY <1>1 DEF Inv, InvHeld
  <2>3. /\ IsFiniteSet(held \ {c})
        /\ Cardinality(held \ {c}) = Cardinality(held) - 1
    BY <2>1, <2>2, FS_RemoveElement
  <2>4. Cardinality(held \ {c}) < Cardinality(Threads)
    BY <1>1, <2>1, <2>3 DEF Inv, SlotConservation, Size
  <2>5. thr \in [Threads -> held \ {c}]
    BY <1>1 DEF Inv, TypeOK, InvHeld
  <2>6. \E t, u \in Threads : t # u /\ thr[t] = thr[u]
    BY <2>3, <2>4, <2>5, ThreadsAssumption, FS_PigeonHole
  <2> QED
    BY <1>1, <2>6 DEF Inv, InvThreads
<1> QED
  BY <1>1, Invariance, PTL
=============================================================================
