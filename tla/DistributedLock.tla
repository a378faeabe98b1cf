---------------------------- MODULE DistributedLock ----------------------------
(***************************************************************************)
(* sync_key_value_distributed_lock: a lock that is a row of the key_value      *)
(* table, with a unique key and an expiry.  A worker looks for a row that has  *)
(* not expired, deletes expired rows, inserts its own and commits; it deletes  *)
(* the row of the key when it is done, and leaves it when its work raises.     *)
(*                                                                           *)
(* One key is modelled: rows of different keys meet only in the deletion of    *)
(* expired rows.  Inserting waits for a competing insert to commit and then    *)
(* fails, so deleting, inserting and committing are one step; looking for the  *)
(* row is a step of its own.                                                   *)
(***************************************************************************)
EXTENDS Integers, FiniteSets

CONSTANTS
    Workers,
    NoOne,           \* the writer of no row
    LockExpiration,  \* LOCK_EXPIRATION
    MaxHold,         \* bound on the time a worker works under the lock
    MaxClock          \* bound on the clock

\* What the constants are.
LockConstants ==
    /\ NoOne \notin Workers
    /\ LockExpiration \in Nat \ {0} /\ MaxHold \in Nat /\ MaxClock \in Nat

VARIABLES
    clock,
    pc,      \* "outside", "entering", "checked" or "holding"
    since,   \* when each worker entered the lock last
    row      \* the row: who wrote it (which the table does not tell) and its expiry

lockVars == <<clock, pc, since, row>>

NoRow == [by |-> NoOne, expires |-> 0]

\* Type correctness: a row expires LockExpiration after its writer got the lock.
LockTypeOK ==
    /\ clock \in Nat
    /\ pc \in [Workers -> {"outside", "entering", "checked", "holding"}]
    /\ since \in [Workers -> Nat]
    /\ row \in [by : Workers \cup {NoOne}, expires : Nat]
    /\ row.by # NoOne => row.expires = since[row.by] + LockExpiration

LockInit ==
    /\ clock = 0
    /\ pc = [w \in Workers |-> "outside"]
    /\ since = [w \in Workers |-> 0]
    /\ row = NoRow

Holders == {w \in Workers : pc[w] = "holding"}

\* There is a row, and it has not expired.
Taken == row.by # NoOne /\ row.expires > clock

\* The lock is asked for.
Enter(w) ==
    /\ pc[w] = "outside"
    /\ pc' = [pc EXCEPT ![w] = "entering"]
    /\ UNCHANGED <<clock, since, row>>

\* The lookup; a lock that is taken raises.
GetLock(w) ==
    /\ pc[w] = "entering"
    /\ pc' = [pc EXCEPT ![w] = IF Taken THEN "outside" ELSE "checked"]
    /\ UNCHANGED <<clock, since, row>>

\* Expired rows go, and the row is inserted unless another worker has got in between:
\* then the key is not unique and the insert raises.
CreateLock(w) ==
    /\ pc[w] = "checked"
    /\ IF Taken
       THEN /\ pc' = [pc EXCEPT ![w] = "outside"]
            /\ UNCHANGED <<since, row>>
       ELSE /\ pc' = [pc EXCEPT ![w] = "holding"]
            /\ since' = [since EXCEPT ![w] = clock]
            /\ row' = [by |-> w, expires |-> clock + LockExpiration]
    /\ UNCHANGED clock

\* The work is done: the row of the key is deleted, whoever wrote it.
DeleteLock(w) ==
    /\ pc[w] = "holding"
    /\ pc' = [pc EXCEPT ![w] = "outside"]
    /\ row' = NoRow
    /\ UNCHANGED <<clock, since>>

\* The work raises, or the worker dies: the row stays.
BodyRaises(w) ==
    /\ pc[w] = "holding"
    /\ pc' = [pc EXCEPT ![w] = "outside"]
    /\ UNCHANGED <<clock, since, row>>

LockTick ==
    /\ clock < MaxClock
    /\ \A w \in Holders : clock < since[w] + MaxHold
    /\ clock' = clock + 1
    /\ UNCHANGED <<pc, since, row>>

LockStep(w) == Enter(w) \/ GetLock(w) \/ CreateLock(w) \/ DeleteLock(w) \/ BodyRaises(w)

LockNext == LockTick \/ \E w \in Workers : LockStep(w)

LockSpec == LockInit /\ [][LockNext]_lockVars

-----------------------------------------------------------------------------

\* Work that ends before the row expires is never done by two workers at a time, however
\* often work raises and leaves its row behind.
MutualExclusion ==
    MaxHold < LockExpiration => \A v, w \in Holders : v = w

=============================================================================
