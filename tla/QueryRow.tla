------------------------------ MODULE QueryRow ------------------------------
(***************************************************************************)
(* What the backend promises a client about one query: the column status,  *)
(* the column results_key and the result blob, as seen from outside.       *)
(* SqlLabQuery shows how requests, the worker and stop requests keep the   *)
(* promise (SqlLabQueryRefines); SqlLabClient relies on nothing else.      *)
(***************************************************************************)

VARIABLES
    fetchable,  \* does the query store its rows and run asynchronously?
    status,     \* "ABSENT" until the row is committed, then a QueryStatus
    key,        \* is results_key set?
    blob,       \* the result blob in the results backend
    phase       \* the execution: "new", "running", "ended"

rowVars == <<fetchable, status, key, blob, phase>>

Terminal == {"STOPPED", "FAILED", "SUCCESS", "TIMED_OUT"}
Statuses == {"ABSENT", "PENDING", "RUNNING"} \cup Terminal

RowTypeOK ==
    /\ fetchable \in BOOLEAN
    /\ status \in Statuses
    /\ key \in BOOLEAN
    /\ blob \in {"absent", "stored", "evicted"}
    /\ phase \in {"new", "running", "ended"}

RowInit ==
    /\ fetchable \in BOOLEAN
    /\ status = "ABSENT"
    /\ key = FALSE
    /\ blob = "absent"
    /\ phase = "new"

Create ==
    /\ status = "ABSENT"
    /\ status' = "PENDING"
    /\ UNCHANGED <<fetchable, key, blob, phase>>

\* The execution begins, over a stop or a timeout that came first.
Start ==
    /\ status # "ABSENT" /\ phase = "new"
    /\ status' = "RUNNING"
    /\ phase' = "running"
    /\ UNCHANGED <<fetchable, key, blob>>

\* The execution ends without a verdict of its own: it notices the stop, or
\* an error that is recorded later, or the worker dies.
GiveUp ==
    /\ status # "ABSENT" /\ phase # "ended"
    /\ phase' = "ended"
    /\ UNCHANGED <<fetchable, status, key, blob>>

Store ==
    /\ phase = "running"
    /\ blob' = "stored"
    /\ UNCHANGED <<fetchable, status, key, phase>>

\* The key is published together with SUCCESS, for a blob already stored, and
\* once; a query that has succeeded or failed does not succeed again.
Succeed ==
    /\ phase = "running"
    /\ status \notin {"SUCCESS", "FAILED"} /\ ~key
    /\ status' = "SUCCESS"
    /\ key' \in BOOLEAN
    /\ key' => blob # "absent"
    /\ fetchable => key'
    /\ phase' = "ended"
    /\ UNCHANGED <<fetchable, blob>>

Fail ==
    /\ status # "ABSENT" /\ phase # "new"
    /\ status' = "FAILED"
    /\ phase' = "ended"
    /\ UNCHANGED <<fetchable, key, blob>>

TimeOut ==
    /\ status # "ABSENT"
    /\ status' = "TIMED_OUT"
    /\ UNCHANGED <<fetchable, key, blob, phase>>

Stop ==
    /\ status # "ABSENT"
    /\ status' = "STOPPED"
    /\ UNCHANGED <<fetchable, key, blob, phase>>

Evict ==
    /\ blob = "stored"
    /\ blob' = "evicted"
    /\ UNCHANGED <<fetchable, status, key, phase>>

RowNext ==
    \/ Create \/ Start \/ GiveUp \/ Store \/ Succeed \/ Fail
    \/ TimeOut \/ Stop \/ Evict

RowSpec == RowInit /\ [][RowNext]_rowVars
=============================================================================
