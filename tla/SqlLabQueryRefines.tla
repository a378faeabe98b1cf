------------------------- MODULE SqlLabQueryRefines -------------------------
(***************************************************************************)
(* SqlLabQuery implements QueryRow: what the requests, the worker and the  *)
(* stop requests do to one query looks, from outside, like QueryRow.       *)
(***************************************************************************)
EXTENDS SqlLabQuery

\* The phase of the execution, from the place of the worker.
Phase ==
    IF wk.pc \in {"none", "queued", "cancelled"} THEN "new"
    ELSE IF wk.pc \in {"returning", "error", "done", "dead"} THEN "ended"
    ELSE "running"

Row == INSTANCE QueryRow WITH
    fetchable <- job.async /\ job.store,
    status <- IF row.exists THEN row.status ELSE "ABSENT",
    key <- row.key,
    phase <- Phase

\* Whatever execute requests, the worker, stop requests and the results
\* backend do, a client sees the status, the key and the blob of the query
\* change only as QueryRow allows: no status is taken back to PENDING, only one
\* execution begins, and the key appears once, with SUCCESS, for stored rows.
ImplementsQueryRow == Row!RowSpec

\* A published key belongs to an execution that is over.
InvKeyLate == row.key => wk.pc \in {"error", "returning", "done", "dead"}
=============================================================================
