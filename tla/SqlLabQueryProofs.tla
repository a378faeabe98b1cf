------------------------- MODULE SqlLabQueryProofs -------------------------
(***************************************************************************)
(* Proofs about SqlLabQuery for any sets of requests and stop requests,    *)
(* any number of blocks and of stop attempts, with and without crashes.    *)
(***************************************************************************)
EXTENDS SqlLabQueryRefines, TLAPS

\* A commit of well-typed values leaves a well-typed row.
LEMMA WriteType ==
    ASSUME NEW status \in Status, NEW extra \in Extra, NEW key \in BOOLEAN,
           begun \in Nat, Write(status, extra, key)
    PROVE  row' \in Rows /\ begun' \in Nat
BY DEF Write, Rows

\* Every action of an execute request preserves the type invariant.
LEMMA RequestType ==
    ASSUME TypeOK, NEW r \in Requests, Request(r)
    PROVE  TypeOK'
<1> USE DEF TypeOK, Goto, KeepRow
<1>0. row.status \in Status /\ row.extra \in Extra /\ row.key \in BOOLEAN /\ NewExtra \in Extra
  BY DEF Rows, NewExtra, Extra
<1>1. CASE Lookup(r)
  BY <1>0, <1>1 DEF Lookup, RequestPCs
<1>2. CASE FinishResubmit(r)
  <2>1. [req[r].extra EXCEPT !.columns = "empty"] \in Extra BY DEF Extra
  <2>2. row' \in Rows /\ begun' \in Nat BY <1>0, <1>2, <2>1, WriteType DEF FinishResubmit
  <2> QED BY <1>2, <2>2 DEF FinishResubmit, RequestPCs
<1>3. CASE Insert(r)
  BY <1>3 DEF Insert, RequestPCs
<1>4. CASE RejectRequest(r)
  BY <1>4 DEF RejectRequest, RequestPCs
<1>5. CASE CommitCreated(r)
  <2>1. "PENDING" \in Status BY DEF Status
  <2>2. row' \in Rows /\ begun' \in Nat BY <1>0, <1>5, <2>1, WriteType DEF CommitCreated
  <2>3. req' \in [Requests -> [pc : RequestPCs, extra : Extra]]
    BY <1>5 DEF CommitCreated, RequestPCs
  <2>4. wk' \in Workers BY <1>5 DEF CommitCreated, Workers, WorkerPCs
  <2> QED BY <1>5, <2>2, <2>3, <2>4 DEF CommitCreated
<1>6. CASE Dispatch(r)
  BY <1>6 DEF Dispatch, RequestPCs, Workers, WorkerPCs
<1>7. CASE DispatchFails(r)
  BY <1>7 DEF DispatchFails, RequestPCs, Workers, WorkerPCs
<1>8. CASE FinishDispatch(r)
  <2>1. [req[r].extra EXCEPT !.columns = "empty"] \in Extra BY DEF Extra
  <2>2. row' \in Rows /\ begun' \in Nat BY <1>0, <1>8, <2>1, WriteType DEF FinishDispatch
  <2> QED BY <1>8, <2>2 DEF FinishDispatch, RequestPCs
<1>9. CASE SyncTimeout(r)
  BY <1>9 DEF SyncTimeout, RequestPCs, Workers, WorkerPCs
<1>10. CASE WriteTimedOut(r)
  <2>1. "TIMED_OUT" \in Status BY DEF Status
  <2>2. row' \in Rows /\ begun' \in Nat BY <1>0, <1>10, <2>1, WriteType DEF WriteTimedOut
  <2> QED BY <1>10, <2>2 DEF WriteTimedOut, RequestPCs
<1>11. CASE SyncRaises(r)
  <2>1. "FAILED" \in Status BY DEF Status
  <2>2. row' \in Rows /\ begun' \in Nat BY <1>0, <1>11, <2>1, WriteType DEF SyncRaises
  <2> QED BY <1>11, <2>2 DEF SyncRaises, RequestPCs
<1>12. CASE SyncFailed(r)
  BY <1>12 DEF SyncFailed, RequestPCs
<1>13. CASE SyncDone(r)
  <2> DEFINE extra == [req[r].extra EXCEPT !.columns = IF wk.outcome = "success" THEN "real" ELSE "empty"]
  <2>1. extra \in Extra BY <1>0 DEF Extra
  <2>2. Write(row.status, extra, row.key) BY <1>13 DEF SyncDone
  <2> HIDE DEF extra
  <2>3. row' \in Rows /\ begun' \in Nat BY <1>0, <2>1, <2>2, WriteType
  <2> QED BY <1>13, <2>3 DEF SyncDone, RequestPCs
<1>14. CASE LookupFails(r)
  BY <1>14 DEF LookupFails, RequestPCs
<1>15. CASE MarkingFails(r)
  BY <1>15 DEF MarkingFails, RequestPCs
<1>16. CASE SaveMetadataFails(r)
  BY <1>16 DEF SaveMetadataFails, RequestPCs
<1> QED
  BY <1>1, <1>2, <1>3, <1>4, <1>5, <1>6, <1>7, <1>8, <1>9, <1>10, <1>11, <1>12, <1>13,
     <1>14, <1>15, <1>16 DEF Request

\* Every step of the worker preserves the type invariant.
LEMMA WorkerType ==
    ASSUME TypeOK, WorkerStep \/ PollCursor \/ WorkerCrash
    PROVE  TypeOK'
<1> USE DEF TypeOK, Step, Finish, Load, Others, KeepRow, Workers, WorkerPCs, WorkerActive
<1>0. /\ row.status \in Status /\ row.extra \in Extra /\ row.key \in BOOLEAN
      /\ wk.extra \in Extra /\ wk.key \in BOOLEAN
      /\ {"RUNNING", "FAILED", "SUCCESS"} \subseteq Status
  BY DEF Rows, Status
<1>e. /\ [wk.extra EXCEPT !.cancel = TRUE] \in Extra
      /\ [wk.extra EXCEPT !.columns = "real"] \in Extra
  BY <1>0 DEF Extra
<1>1. CASE StartRunning
  BY <1>0, <1>1, WriteType DEF StartRunning
<1>2. CASE RejectScript
  BY <1>2 DEF RejectScript
<1>3. CASE LoadQuery
  BY <1>0, <1>3 DEF LoadQuery
<1>4. CASE PublishCancelId
  BY <1>0, <1>e, <1>4, WriteType DEF PublishCancelId
<1>5. CASE RefreshBlock
  <2>1. wk' \in Workers BY <1>0, <1>5, ZenonT(40) DEF RefreshBlock
  <2> QED BY <1>5, <2>1 DEF RefreshBlock
<1>6. CASE RecordProgress
  BY <1>0, <1>6, WriteType DEF RecordProgress
<1>7. CASE BeginBlock
  <2>1. begun' \in Nat
    <3>1. begun + 1 \in Nat /\ 0 \in Nat OBVIOUS
    <3> QED BY <3>1, <1>7 DEF BeginBlock
  <2>2. wk' \in Workers BY <1>0, <1>7 DEF BeginBlock
  <2> QED BY <1>7, <2>1, <2>2 DEF BeginBlock
<1>8. CASE PollCursor
  <2>1. wk' \in Workers BY <1>0, <1>8 DEF PollCursor
  <2> QED BY <1>8, <2>1 DEF PollCursor
<1>9. CASE BlockSucceeds
  <2>1. wk.blk + 1 \in Nat OBVIOUS
  <2>2. wk' \in Workers BY <1>9, <2>1 DEF BlockSucceeds
  <2> QED BY <1>9, <2>2 DEF BlockSucceeds
<1>10. CASE BlockFails
  <2>1. wk' \in Workers BY <1>0, <1>10, ZenonT(40) DEF BlockFails
  <2> QED BY <1>10, <2>1 DEF BlockFails
<1>11. CASE BlockInterrupted
  BY <1>11 DEF BlockInterrupted
<1>12. CASE HandleQueryError
  <2>1. row' \in Rows /\ begun' \in Nat BY <1>0, <1>12, WriteType DEF HandleQueryError
  <2>2. wk' \in Workers BY <1>12 DEF HandleQueryError
  <2> QED BY <1>12, <2>1, <2>2 DEF HandleQueryError
<1>13. CASE FinishFails
  BY <1>13 DEF FinishFails
<1>14. CASE SkipStore
  BY <1>14 DEF SkipStore
<1>15. CASE StoreResults
  BY <1>15 DEF StoreResults
<1>16. CASE StoreFails
  BY <1>0, <1>e, <1>16, WriteType, ZenonT(40) DEF StoreFails
<1>17. CASE CommitSuccess
  <2>1. (IF wk.status = "FAILED" THEN row.status ELSE "SUCCESS") \in Status
    BY <1>0
  <2> QED BY <1>0, <1>e, <1>17, <2>1, WriteType DEF CommitSuccess
<1>18. CASE WorkerReturns
  BY <1>18 DEF WorkerReturns
<1>19. CASE PayloadTooLarge
  BY <1>19 DEF PayloadTooLarge
<1>20. CASE SoftTimeLimit
  BY <1>20 DEF SoftTimeLimit
<1>21. CASE RecordError
  <2>1. row' \in Rows /\ begun' \in Nat BY <1>0, <1>21, WriteType DEF RecordError
  <2>2. wk' \in Workers BY <1>21 DEF RecordError
  <2> QED BY <1>21, <2>1, <2>2 DEF RecordError
<1>22. CASE RaiseToRequest
  BY <1>22 DEF RaiseToRequest
<1>23. CASE WorkerCrash
  BY <1>23 DEF WorkerCrash
<1>24. CASE RefreshFails
  BY <1>24 DEF RefreshFails
<1>25. CASE RecordErrorFails
  BY <1>25 DEF RecordErrorFails
<1> QED
  BY <1>1, <1>2, <1>3, <1>4, <1>5, <1>6, <1>7, <1>8, <1>9, <1>10, <1>11, <1>12, <1>13,
     <1>14, <1>15, <1>16, <1>17, <1>18, <1>19, <1>20, <1>21, <1>22, <1>23,
     <1>24, <1>25
     DEF WorkerStep

\* Every step of a stop request preserves the type invariant.
LEMMA StopType ==
    ASSUME TypeOK, NEW s \in Stoppers, StopStep(s)
    PROVE  TypeOK'
<1> USE DEF TypeOK, KeepRow, KeepWork, StopPCs
<1>0. row.status \in Status /\ row.extra \in Extra /\ row.key \in BOOLEAN
      /\ row.extra.cancel \in BOOLEAN /\ "STOPPED" \in Status
  BY DEF Rows, Extra, Status
<1>1. CASE StopNotFound(s) \/ StopFinished(s)
  BY <1>1 DEF StopNotFound, StopFinished
<1>5. CASE StopRead(s)
  <2> DEFINE loaded == [stop[s] EXCEPT !.pc = "cancel", !.seen = row.status,
                                       !.cancel = row.extra.cancel]
  <2>1. loaded \in [pc : StopPCs, seen : Status, cancel : BOOLEAN, tries : Nat]
    BY <1>0
  <2>2. stop' = [stop EXCEPT ![s] = loaded] BY <1>5 DEF StopRead
  <2>3. stop' \in [Stoppers -> [pc : StopPCs, seen : Status, cancel : BOOLEAN, tries : Nat]]
    <3> HIDE DEF loaded
    <3> QED BY <2>1, <2>2
  <2> QED BY <1>5, <2>3 DEF StopRead
<1>2. CASE StopCancel(s)
  BY <1>2 DEF StopCancel
<1>3. CASE StopRetry(s)
  <2>1. stop[s].tries + 1 \in Nat OBVIOUS
  <2> QED BY <1>3, <2>1 DEF StopRetry
<1>4. CASE StopWrite(s)
  <2>1. (IF stop[s].seen = "STOPPED" THEN row.status ELSE "STOPPED") \in Status
    BY <1>0
  <2> QED BY <1>0, <1>4, <2>1, WriteType DEF StopWrite
<1> QED
  BY <1>1, <1>2, <1>3, <1>4, <1>5 DEF StopStep

\* Every step of the system preserves the type invariant.
LEMMA NextType ==
    ASSUME TypeOK, [Next]_vars
    PROVE  TypeOK'
<1>1. CASE EvictBlob
  BY <1>1 DEF EvictBlob, TypeOK
<1>2. CASE UNCHANGED vars
  BY <1>2 DEF vars, TypeOK
<1> QED
  BY <1>1, <1>2, RequestType, WorkerType, StopType DEF Next

\* Every reachable state is well typed: each request, worker step and stop
\* request of the code leaves a row and session copies of the declared shape.
THEOREM TypeInvariance == Spec => []TypeOK
<1>1. Init => TypeOK
  BY DEF Init, TypeOK, Rows, Status, Extra, NewExtra, RequestPCs, Workers, WorkerPCs, StopPCs
<1>2. TypeOK /\ [Next]_vars => TypeOK'
  BY NextType
<1> QED
  BY <1>1, <1>2, PTL DEF Spec

-----------------------------------------------------------------------------
(* The inductive invariant, part by part. *)

\* Only StoreResults sets the worker's key, after the blob is stored, and every
\* other commit of a key copies it or clears it.
LEMMA KeyStep ==
    ASSUME Inv, [Next]_vars
    PROVE  InvKey'
<1> USE DEF Inv, TypeOK, InvKey, Rows, Workers, Goto, Step, Finish, Load, Others, Write, KeepRow, KeepWork
<1>1. ASSUME NEW r \in Requests, Request(r) PROVE InvKey'
  <2>1. CASE Lookup(r) BY <2>1 DEF Lookup
  <2>2. CASE FinishResubmit(r) BY <2>2 DEF FinishResubmit
  <2>3. CASE Insert(r) BY <2>3 DEF Insert
  <2>4. CASE RejectRequest(r) BY <2>4 DEF RejectRequest
  <2>5. CASE CommitCreated(r) BY <2>5 DEF CommitCreated
  <2>6. CASE Dispatch(r) BY <2>6 DEF Dispatch
  <2>7. CASE DispatchFails(r) BY <2>7 DEF DispatchFails
  <2>8. CASE FinishDispatch(r) BY <2>8 DEF FinishDispatch
  <2>9. CASE SyncTimeout(r) BY <2>9 DEF SyncTimeout
  <2>10. CASE WriteTimedOut(r) BY <2>10 DEF WriteTimedOut
  <2>11. CASE SyncRaises(r) BY <2>11 DEF SyncRaises
  <2>12. CASE SyncFailed(r) BY <2>12 DEF SyncFailed
  <2>13. CASE SyncDone(r) BY <2>13 DEF SyncDone
  <2>14. CASE LookupFails(r) BY <2>14 DEF LookupFails
  <2>15. CASE MarkingFails(r) BY <2>15 DEF MarkingFails
  <2>16. CASE SaveMetadataFails(r) BY <2>16 DEF SaveMetadataFails
  <2> QED BY <1>1, <2>1, <2>2, <2>3, <2>4, <2>5, <2>6, <2>7, <2>8, <2>9, <2>10, <2>11, <2>12, <2>13, <2>14, <2>15, <2>16 DEF Request
<1>2. ASSUME WorkerStep \/ PollCursor \/ WorkerCrash PROVE InvKey'
  <2>1. CASE StartRunning BY <2>1 DEF StartRunning
  <2>2. CASE RejectScript BY <2>2 DEF RejectScript
  <2>3. CASE LoadQuery BY <2>3 DEF LoadQuery
  <2>4. CASE PublishCancelId BY <2>4 DEF PublishCancelId
  <2>5. CASE RefreshBlock BY <2>5 DEF RefreshBlock
  <2>6. CASE RecordProgress BY <2>6 DEF RecordProgress
  <2>7. CASE BeginBlock BY <2>7 DEF BeginBlock
  <2>8. CASE BlockSucceeds BY <2>8 DEF BlockSucceeds
  <2>9. CASE BlockFails BY <2>9 DEF BlockFails
  <2>10. CASE BlockInterrupted BY <2>10 DEF BlockInterrupted
  <2>11. CASE HandleQueryError BY <2>11 DEF HandleQueryError
  <2>12. CASE FinishFails BY <2>12 DEF FinishFails
  <2>13. CASE SkipStore BY <2>13 DEF SkipStore
  <2>14. CASE StoreResults BY <2>14 DEF StoreResults
  <2>15. CASE StoreFails BY <2>15 DEF StoreFails
  <2>16. CASE CommitSuccess BY <2>16 DEF CommitSuccess
  <2>17. CASE WorkerReturns BY <2>17 DEF WorkerReturns
  <2>18. CASE PayloadTooLarge BY <2>18 DEF PayloadTooLarge
  <2>19. CASE SoftTimeLimit BY <2>19 DEF SoftTimeLimit
  <2>20. CASE RecordError BY <2>20 DEF RecordError
  <2>21. CASE RaiseToRequest BY <2>21 DEF RaiseToRequest
  <2>22. CASE PollCursor BY <2>22 DEF PollCursor
  <2>23. CASE WorkerCrash BY <2>23 DEF WorkerCrash
  <2>24. CASE RefreshFails BY <2>24 DEF RefreshFails
  <2>25. CASE RecordErrorFails BY <2>25 DEF RecordErrorFails
  <2> QED BY <1>2, <2>1, <2>2, <2>3, <2>4, <2>5, <2>6, <2>7, <2>8, <2>9, <2>10, <2>11, <2>12, <2>13, <2>14, <2>15, <2>16, <2>17, <2>18, <2>19, <2>20, <2>21, <2>22, <2>23, <2>24, <2>25 DEF WorkerStep
<1>3. ASSUME NEW s \in Stoppers, StopStep(s) PROVE InvKey'
  <2>1. CASE StopNotFound(s) BY <2>1 DEF StopNotFound
  <2>2. CASE StopFinished(s) BY <2>2 DEF StopFinished
  <2>3. CASE StopRead(s) BY <2>3 DEF StopRead
  <2>4. CASE StopCancel(s) BY <2>4 DEF StopCancel
  <2>5. CASE StopRetry(s) BY <2>5 DEF StopRetry
  <2>6. CASE StopWrite(s) BY <2>6 DEF StopWrite
  <2> QED BY <1>3, <2>1, <2>2, <2>3, <2>4, <2>5, <2>6 DEF StopStep
<1>4. CASE EvictBlob BY <1>4 DEF EvictBlob
<1>5. CASE UNCHANGED vars BY <1>5 DEF vars
<1> QED BY <1>1, <1>2, <1>3, <1>4, <1>5 DEF Next

\* CommitSuccess is the only commit of SUCCESS and carries the worker's key.
LEMMA SuccessStep ==
    ASSUME Inv, [Next]_vars
    PROVE  InvSuccess'
<1> USE DEF Inv, TypeOK, InvSuccess, InvVerdict, InvCreation, Rows, Workers, Goto, Step, Finish, Load, Others, Write, KeepRow, KeepWork
<1>1. ASSUME NEW r \in Requests, Request(r) PROVE InvSuccess'
  <2>1. CASE Lookup(r) BY <2>1 DEF Lookup
  <2>2. CASE FinishResubmit(r) BY <2>2 DEF FinishResubmit
  <2>3. CASE Insert(r) BY <2>3 DEF Insert
  <2>4. CASE RejectRequest(r) BY <2>4 DEF RejectRequest
  <2>5. CASE CommitCreated(r) BY <2>5 DEF CommitCreated
  <2>6. CASE Dispatch(r) BY <2>6 DEF Dispatch
  <2>7. CASE DispatchFails(r) BY <2>7 DEF DispatchFails
  <2>8. CASE FinishDispatch(r) BY <2>8 DEF FinishDispatch
  <2>9. CASE SyncTimeout(r) BY <2>9 DEF SyncTimeout
  <2>10. CASE WriteTimedOut(r) BY <2>10 DEF WriteTimedOut
  <2>11. CASE SyncRaises(r) BY <2>11 DEF SyncRaises
  <2>12. CASE SyncFailed(r) BY <2>12 DEF SyncFailed
  <2>13. CASE SyncDone(r) BY <2>13 DEF SyncDone
  <2>14. CASE LookupFails(r) BY <2>14 DEF LookupFails
  <2>15. CASE MarkingFails(r) BY <2>15 DEF MarkingFails
  <2>16. CASE SaveMetadataFails(r) BY <2>16 DEF SaveMetadataFails
  <2> QED BY <1>1, <2>1, <2>2, <2>3, <2>4, <2>5, <2>6, <2>7, <2>8, <2>9, <2>10, <2>11, <2>12, <2>13, <2>14, <2>15, <2>16 DEF Request
<1>2. ASSUME WorkerStep \/ PollCursor \/ WorkerCrash PROVE InvSuccess'
  <2>1. CASE StartRunning BY <2>1 DEF StartRunning
  <2>2. CASE RejectScript BY <2>2 DEF RejectScript
  <2>3. CASE LoadQuery BY <2>3 DEF LoadQuery
  <2>4. CASE PublishCancelId BY <2>4 DEF PublishCancelId
  <2>5. CASE RefreshBlock BY <2>5 DEF RefreshBlock
  <2>6. CASE RecordProgress BY <2>6 DEF RecordProgress
  <2>7. CASE BeginBlock BY <2>7 DEF BeginBlock
  <2>8. CASE BlockSucceeds BY <2>8 DEF BlockSucceeds
  <2>9. CASE BlockFails BY <2>9 DEF BlockFails
  <2>10. CASE BlockInterrupted BY <2>10 DEF BlockInterrupted
  <2>11. CASE HandleQueryError BY <2>11 DEF HandleQueryError
  <2>12. CASE FinishFails BY <2>12 DEF FinishFails
  <2>13. CASE SkipStore BY <2>13 DEF SkipStore
  <2>14. CASE StoreResults BY <2>14 DEF StoreResults
  <2>15. CASE StoreFails BY <2>15 DEF StoreFails
  <2>16. CASE CommitSuccess BY <2>16 DEF CommitSuccess
  <2>17. CASE WorkerReturns BY <2>17 DEF WorkerReturns
  <2>18. CASE PayloadTooLarge BY <2>18 DEF PayloadTooLarge
  <2>19. CASE SoftTimeLimit BY <2>19 DEF SoftTimeLimit
  <2>20. CASE RecordError BY <2>20 DEF RecordError
  <2>21. CASE RaiseToRequest BY <2>21 DEF RaiseToRequest
  <2>22. CASE PollCursor BY <2>22 DEF PollCursor
  <2>23. CASE WorkerCrash BY <2>23 DEF WorkerCrash
  <2>24. CASE RefreshFails BY <2>24 DEF RefreshFails
  <2>25. CASE RecordErrorFails BY <2>25 DEF RecordErrorFails
  <2> QED BY <1>2, <2>1, <2>2, <2>3, <2>4, <2>5, <2>6, <2>7, <2>8, <2>9, <2>10, <2>11, <2>12, <2>13, <2>14, <2>15, <2>16, <2>17, <2>18, <2>19, <2>20, <2>21, <2>22, <2>23, <2>24, <2>25 DEF WorkerStep
<1>3. ASSUME NEW s \in Stoppers, StopStep(s) PROVE InvSuccess'
  <2>1. CASE StopNotFound(s) BY <2>1 DEF StopNotFound
  <2>2. CASE StopFinished(s) BY <2>2 DEF StopFinished
  <2>3. CASE StopRead(s) BY <2>3 DEF StopRead
  <2>4. CASE StopCancel(s) BY <2>4 DEF StopCancel
  <2>5. CASE StopRetry(s) BY <2>5 DEF StopRetry
  <2>6. CASE StopWrite(s) BY <2>6 DEF StopWrite
  <2> QED BY <1>3, <2>1, <2>2, <2>3, <2>4, <2>5, <2>6 DEF StopStep
<1>4. CASE EvictBlob BY <1>4 DEF EvictBlob
<1>5. CASE UNCHANGED vars BY <1>5 DEF vars
<1> QED BY <1>1, <1>2, <1>3, <1>4, <1>5 DEF Next

\* A block begins under STOPPED only if the stop came after the last refresh, so
\* the next refresh sees it.
LEMMA BlocksStep ==
    ASSUME Inv, [Next]_vars
    PROVE  InvBlocks'
<1> USE DEF Inv, TypeOK, InvBlocks, Rows, Workers, Goto, Step, Finish, Load, Others, Write, KeepRow, KeepWork
<1>1. ASSUME NEW r \in Requests, Request(r) PROVE InvBlocks'
  <2>1. CASE Lookup(r) BY <2>1 DEF Lookup
  <2>2. CASE FinishResubmit(r) BY <2>2 DEF FinishResubmit
  <2>3. CASE Insert(r) BY <2>3 DEF Insert
  <2>4. CASE RejectRequest(r) BY <2>4 DEF RejectRequest
  <2>5. CASE CommitCreated(r) BY <2>5 DEF CommitCreated
  <2>6. CASE Dispatch(r) BY <2>6 DEF Dispatch
  <2>7. CASE DispatchFails(r) BY <2>7 DEF DispatchFails
  <2>8. CASE FinishDispatch(r) BY <2>8 DEF FinishDispatch
  <2>9. CASE SyncTimeout(r) BY <2>9 DEF SyncTimeout
  <2>10. CASE WriteTimedOut(r) BY <2>10 DEF WriteTimedOut
  <2>11. CASE SyncRaises(r) BY <2>11 DEF SyncRaises
  <2>12. CASE SyncFailed(r) BY <2>12 DEF SyncFailed
  <2>13. CASE SyncDone(r) BY <2>13 DEF SyncDone
  <2>14. CASE LookupFails(r) BY <2>14 DEF LookupFails
  <2>15. CASE MarkingFails(r) BY <2>15 DEF MarkingFails
  <2>16. CASE SaveMetadataFails(r) BY <2>16 DEF SaveMetadataFails
  <2> QED BY <1>1, <2>1, <2>2, <2>3, <2>4, <2>5, <2>6, <2>7, <2>8, <2>9, <2>10, <2>11, <2>12, <2>13, <2>14, <2>15, <2>16 DEF Request
<1>2. ASSUME WorkerStep \/ PollCursor \/ WorkerCrash PROVE InvBlocks'
  <2>1. CASE StartRunning BY <2>1 DEF StartRunning
  <2>2. CASE RejectScript BY <2>2 DEF RejectScript
  <2>3. CASE LoadQuery BY <2>3 DEF LoadQuery
  <2>4. CASE PublishCancelId BY <2>4 DEF PublishCancelId
  <2>5. CASE RefreshBlock
    <3>1. CASE row.status = "STOPPED" BY <2>5, <3>1 DEF RefreshBlock
    <3>2. CASE row.status # "STOPPED"
      <4>1. begun' = 0 /\ row' = row BY <2>5, <3>2 DEF RefreshBlock
      <4> QED BY <4>1
    <3> QED BY <3>1, <3>2
  <2>6. CASE RecordProgress BY <2>6 DEF RecordProgress
  <2>7. CASE BeginBlock BY <2>7 DEF BeginBlock
  <2>8. CASE BlockSucceeds BY <2>8 DEF BlockSucceeds
  <2>9. CASE BlockFails BY <2>9 DEF BlockFails
  <2>10. CASE BlockInterrupted BY <2>10 DEF BlockInterrupted
  <2>11. CASE HandleQueryError BY <2>11 DEF HandleQueryError
  <2>12. CASE FinishFails BY <2>12 DEF FinishFails
  <2>13. CASE SkipStore BY <2>13 DEF SkipStore
  <2>14. CASE StoreResults BY <2>14 DEF StoreResults
  <2>15. CASE StoreFails BY <2>15 DEF StoreFails
  <2>16. CASE CommitSuccess BY <2>16 DEF CommitSuccess
  <2>17. CASE WorkerReturns BY <2>17 DEF WorkerReturns
  <2>18. CASE PayloadTooLarge BY <2>18 DEF PayloadTooLarge
  <2>19. CASE SoftTimeLimit BY <2>19 DEF SoftTimeLimit
  <2>20. CASE RecordError BY <2>20 DEF RecordError
  <2>21. CASE RaiseToRequest BY <2>21 DEF RaiseToRequest
  <2>22. CASE PollCursor BY <2>22 DEF PollCursor
  <2>23. CASE WorkerCrash BY <2>23 DEF WorkerCrash
  <2>24. CASE RefreshFails BY <2>24 DEF RefreshFails
  <2>25. CASE RecordErrorFails BY <2>25 DEF RecordErrorFails
  <2> QED BY <1>2, <2>1, <2>2, <2>3, <2>4, <2>5, <2>6, <2>7, <2>8, <2>9, <2>10, <2>11, <2>12, <2>13, <2>14, <2>15, <2>16, <2>17, <2>18, <2>19, <2>20, <2>21, <2>22, <2>23, <2>24, <2>25 DEF WorkerStep
<1>3. ASSUME NEW s \in Stoppers, StopStep(s) PROVE InvBlocks'
  <2>1. CASE StopNotFound(s) BY <2>1 DEF StopNotFound
  <2>2. CASE StopFinished(s) BY <2>2 DEF StopFinished
  <2>3. CASE StopRead(s) BY <2>3 DEF StopRead
  <2>4. CASE StopCancel(s) BY <2>4 DEF StopCancel
  <2>5. CASE StopRetry(s) BY <2>5 DEF StopRetry
  <2>6. CASE StopWrite(s) BY <2>6 DEF StopWrite
  <2> QED BY <1>3, <2>1, <2>2, <2>3, <2>4, <2>5, <2>6 DEF StopStep
<1>4. CASE EvictBlob BY <1>4 DEF EvictBlob
<1>5. CASE UNCHANGED vars BY <1>5 DEF vars
<1> QED BY <1>1, <1>2, <1>3, <1>4, <1>5 DEF Next

\* The unique client_id admits one insertion, and only the request that made it
\* hands the query over.
LEMMA CreationStep ==
    ASSUME Inv, [Next]_vars
    PROVE  InvCreation'
<1> USE DEF Inv, TypeOK, InvCreation, Rows, Workers, Goto, Step, Finish, Load, Others, Write, KeepRow, KeepWork
<1>1. ASSUME NEW r \in Requests, Request(r) PROVE InvCreation'
  <2>1. CASE Lookup(r) BY <2>1 DEF Lookup
  <2>2. CASE FinishResubmit(r) BY <2>2 DEF FinishResubmit
  <2>3. CASE Insert(r) BY <2>3 DEF Insert
  <2>4. CASE RejectRequest(r) BY <2>4 DEF RejectRequest
  <2>5. CASE CommitCreated(r) BY <2>5 DEF CommitCreated
  <2>6. CASE Dispatch(r) BY <2>6 DEF Dispatch
  <2>7. CASE DispatchFails(r) BY <2>7 DEF DispatchFails
  <2>8. CASE FinishDispatch(r) BY <2>8 DEF FinishDispatch
  <2>9. CASE SyncTimeout(r) BY <2>9 DEF SyncTimeout
  <2>10. CASE WriteTimedOut(r) BY <2>10 DEF WriteTimedOut
  <2>11. CASE SyncRaises(r) BY <2>11 DEF SyncRaises
  <2>12. CASE SyncFailed(r) BY <2>12 DEF SyncFailed
  <2>13. CASE SyncDone(r) BY <2>13 DEF SyncDone
  <2>14. CASE LookupFails(r) BY <2>14 DEF LookupFails
  <2>15. CASE MarkingFails(r) BY <2>15 DEF MarkingFails
  <2>16. CASE SaveMetadataFails(r) BY <2>16 DEF SaveMetadataFails
  <2> QED BY <1>1, <2>1, <2>2, <2>3, <2>4, <2>5, <2>6, <2>7, <2>8, <2>9, <2>10, <2>11, <2>12, <2>13, <2>14, <2>15, <2>16 DEF Request
<1>2. ASSUME WorkerStep \/ PollCursor \/ WorkerCrash PROVE InvCreation'
  <2>1. CASE StartRunning BY <2>1 DEF StartRunning
  <2>2. CASE RejectScript BY <2>2 DEF RejectScript
  <2>3. CASE LoadQuery BY <2>3 DEF LoadQuery
  <2>4. CASE PublishCancelId BY <2>4 DEF PublishCancelId
  <2>5. CASE RefreshBlock BY <2>5 DEF RefreshBlock
  <2>6. CASE RecordProgress BY <2>6 DEF RecordProgress
  <2>7. CASE BeginBlock BY <2>7 DEF BeginBlock
  <2>8. CASE BlockSucceeds BY <2>8 DEF BlockSucceeds
  <2>9. CASE BlockFails BY <2>9 DEF BlockFails
  <2>10. CASE BlockInterrupted BY <2>10 DEF BlockInterrupted
  <2>11. CASE HandleQueryError BY <2>11 DEF HandleQueryError
  <2>12. CASE FinishFails BY <2>12 DEF FinishFails
  <2>13. CASE SkipStore BY <2>13 DEF SkipStore
  <2>14. CASE StoreResults BY <2>14 DEF StoreResults
  <2>15. CASE StoreFails BY <2>15 DEF StoreFails
  <2>16. CASE CommitSuccess BY <2>16 DEF CommitSuccess
  <2>17. CASE WorkerReturns BY <2>17 DEF WorkerReturns
  <2>18. CASE PayloadTooLarge BY <2>18 DEF PayloadTooLarge
  <2>19. CASE SoftTimeLimit BY <2>19 DEF SoftTimeLimit, WorkerActive
  <2>20. CASE RecordError BY <2>20 DEF RecordError
  <2>21. CASE RaiseToRequest BY <2>21 DEF RaiseToRequest
  <2>22. CASE PollCursor BY <2>22 DEF PollCursor
  <2>23. CASE WorkerCrash BY <2>23 DEF WorkerCrash, WorkerActive
  <2>24. CASE RefreshFails BY <2>24 DEF RefreshFails
  <2>25. CASE RecordErrorFails BY <2>25 DEF RecordErrorFails
  <2> QED BY <1>2, <2>1, <2>2, <2>3, <2>4, <2>5, <2>6, <2>7, <2>8, <2>9, <2>10, <2>11, <2>12, <2>13, <2>14, <2>15, <2>16, <2>17, <2>18, <2>19, <2>20, <2>21, <2>22, <2>23, <2>24, <2>25 DEF WorkerStep
<1>3. ASSUME NEW s \in Stoppers, StopStep(s) PROVE InvCreation'
  <2>1. CASE StopNotFound(s) BY <2>1 DEF StopNotFound
  <2>2. CASE StopFinished(s) BY <2>2 DEF StopFinished
  <2>3. CASE StopRead(s) BY <2>3 DEF StopRead
  <2>4. CASE StopCancel(s) BY <2>4 DEF StopCancel
  <2>5. CASE StopRetry(s) BY <2>5 DEF StopRetry
  <2>6. CASE StopWrite(s) BY <2>6 DEF StopWrite
  <2> QED BY <1>3, <2>1, <2>2, <2>3, <2>4, <2>5, <2>6 DEF StopStep
<1>4. CASE EvictBlob BY <1>4 DEF EvictBlob
<1>5. CASE UNCHANGED vars BY <1>5 DEF vars
<1> QED BY <1>1, <1>2, <1>3, <1>4, <1>5 DEF Next

\* Every way a worker ends leaves a verdict in the row, except a failure to
\* record one and the exception of a pool thread, which the waiting request
\* turns into one unless that fails too.
LEMMA VerdictStep ==
    ASSUME Inv, [Next]_vars
    PROVE  InvVerdict'
<1> USE DEF Inv, TypeOK, InvVerdict, InvCreation, Terminal, Rows, Workers, Goto, Step, Finish, Load, Others, Write, KeepRow, KeepWork
<1>1. ASSUME NEW r \in Requests, Request(r) PROVE InvVerdict'
  <2>1. CASE Lookup(r) BY <2>1 DEF Lookup
  <2>2. CASE FinishResubmit(r) BY <2>2 DEF FinishResubmit
  <2>3. CASE Insert(r) BY <2>3 DEF Insert
  <2>4. CASE RejectRequest(r) BY <2>4 DEF RejectRequest
  <2>5. CASE CommitCreated(r) BY <2>5 DEF CommitCreated
  <2>6. CASE Dispatch(r) BY <2>6 DEF Dispatch
  <2>7. CASE DispatchFails(r) BY <2>7 DEF DispatchFails
  <2>8. CASE FinishDispatch(r) BY <2>8 DEF FinishDispatch
  <2>9. CASE SyncTimeout(r) BY <2>9 DEF SyncTimeout
  <2>10. CASE WriteTimedOut(r) BY <2>10 DEF WriteTimedOut
  <2>11. CASE SyncRaises(r) BY <2>11 DEF SyncRaises
  <2>12. CASE SyncFailed(r) BY <2>12 DEF SyncFailed
  <2>13. CASE SyncDone(r) BY <2>13 DEF SyncDone
  <2>14. CASE LookupFails(r) BY <2>14 DEF LookupFails
  <2>15. CASE MarkingFails(r) BY <2>15 DEF MarkingFails
  <2>16. CASE SaveMetadataFails(r) BY <2>16 DEF SaveMetadataFails
  <2> QED BY <1>1, <2>1, <2>2, <2>3, <2>4, <2>5, <2>6, <2>7, <2>8, <2>9, <2>10, <2>11, <2>12, <2>13, <2>14, <2>15, <2>16 DEF Request
<1>2. ASSUME WorkerStep \/ PollCursor \/ WorkerCrash PROVE InvVerdict'
  <2>1. CASE StartRunning BY <2>1 DEF StartRunning
  <2>2. CASE RejectScript BY <2>2 DEF RejectScript
  <2>3. CASE LoadQuery BY <2>3 DEF LoadQuery
  <2>4. CASE PublishCancelId BY <2>4 DEF PublishCancelId
  <2>5. CASE RefreshBlock BY <2>5 DEF RefreshBlock
  <2>6. CASE RecordProgress BY <2>6 DEF RecordProgress
  <2>7. CASE BeginBlock BY <2>7 DEF BeginBlock
  <2>8. CASE BlockSucceeds BY <2>8 DEF BlockSucceeds
  <2>9. CASE BlockFails BY <2>9 DEF BlockFails
  <2>10. CASE BlockInterrupted BY <2>10 DEF BlockInterrupted
  <2>11. CASE HandleQueryError BY <2>11 DEF HandleQueryError
  <2>12. CASE FinishFails BY <2>12 DEF FinishFails
  <2>13. CASE SkipStore BY <2>13 DEF SkipStore
  <2>14. CASE StoreResults BY <2>14 DEF StoreResults
  <2>15. CASE StoreFails BY <2>15 DEF StoreFails
  <2>16. CASE CommitSuccess BY <2>16 DEF CommitSuccess
  <2>17. CASE WorkerReturns BY <2>17 DEF WorkerReturns
  <2>18. CASE PayloadTooLarge BY <2>18 DEF PayloadTooLarge
  <2>19. CASE SoftTimeLimit BY <2>19 DEF SoftTimeLimit
  <2>20. CASE RecordError BY <2>20 DEF RecordError
  <2>21. CASE RaiseToRequest BY <2>21 DEF RaiseToRequest
  <2>22. CASE PollCursor BY <2>22 DEF PollCursor
  <2>23. CASE WorkerCrash BY <2>23 DEF WorkerCrash
  <2>24. CASE RefreshFails BY <2>24 DEF RefreshFails
  <2>25. CASE RecordErrorFails BY <2>25 DEF RecordErrorFails
  <2> QED BY <1>2, <2>1, <2>2, <2>3, <2>4, <2>5, <2>6, <2>7, <2>8, <2>9, <2>10, <2>11, <2>12, <2>13, <2>14, <2>15, <2>16, <2>17, <2>18, <2>19, <2>20, <2>21, <2>22, <2>23, <2>24, <2>25 DEF WorkerStep
<1>3. ASSUME NEW s \in Stoppers, StopStep(s) PROVE InvVerdict'
  <2>1. CASE StopNotFound(s) BY <2>1 DEF StopNotFound
  <2>2. CASE StopFinished(s) BY <2>2 DEF StopFinished
  <2>3. CASE StopRead(s) BY <2>3 DEF StopRead
  <2>4. CASE StopCancel(s) BY <2>4 DEF StopCancel
  <2>5. CASE StopRetry(s) BY <2>5 DEF StopRetry
  <2>6. CASE StopWrite(s) BY <2>6 DEF StopWrite
  <2> QED BY <1>3, <2>1, <2>2, <2>3, <2>4, <2>5, <2>6 DEF StopStep
<1>4. CASE EvictBlob BY <1>4 DEF EvictBlob
<1>5. CASE UNCHANGED vars BY <1>5 DEF vars
<1> QED BY <1>1, <1>2, <1>3, <1>4, <1>5 DEF Next

\* Every step of a request, the worker, a stop or the results backend preserves
\* all parts of the invariant together.
LEMMA InvInductive ==
    ASSUME Inv, [Next]_vars
    PROVE  Inv'
<1>1. TypeOK' BY NextType DEF Inv
<1> QED
  BY <1>1, KeyStep, SuccessStep, BlocksStep, CreationStep, VerdictStep DEF Inv

\* The conjunction of the parts above holds in every reachable state: each of
\* them is needed to carry another over some action of the code.
THEOREM Invariance == Spec => []Inv
<1>1. Init => TypeOK
  BY DEF Init, TypeOK, Rows, Status, Extra, NewExtra, RequestPCs, Workers, WorkerPCs, StopPCs
<1>2. Init => InvKey /\ InvSuccess /\ InvBlocks /\ InvCreation /\ InvVerdict
  BY DEF Init, InvKey, InvSuccess, InvBlocks, InvCreation, InvVerdict
<1>3. Inv /\ [Next]_vars => Inv'
  BY InvInductive
<1>4. Init => Inv
  BY <1>1, <1>2 DEF Inv
<1> QED
  BY <1>3, <1>4, PTL DEF Spec

\* An asynchronous query that stores its rows and says SUCCESS has rows to
\* fetch until the blob expires, for any number of requests, stops and blocks.
THEOREM SuccessFetchable == Spec => []SuccessIsFetchable
<1>1. Inv => SuccessIsFetchable
  BY DEF Inv, TypeOK, Rows, InvKey, InvSuccess, SuccessIsFetchable, ResultsStatus
<1> QED
  BY <1>1, Invariance, PTL

\* results_key never points at a blob that was not stored.
THEOREM KeyStored == Spec => []KeyMeansStored
<1>1. Inv => KeyMeansStored
  BY DEF Inv, InvKey, KeyMeansStored
<1> QED
  BY <1>1, Invariance, PTL

\* A STOPPED row lets at most one more block of the script begin, however long
\* the script is and however many stops arrive.
THEOREM StopBounded == Spec => []StopBoundsBlocks
<1>1. Inv => StopBoundsBlocks
  BY DEF Inv, InvBlocks, StopBoundsBlocks
<1> QED
  BY <1>1, Invariance, PTL

\* A worker that ended has its verdict in the row unless writing the verdict
\* failed; a pool thread that raised may have it written by its request, which
\* is still there to do so, gave up waiting, or failed to.
THEOREM WorkerSettles == Spec => []SettledIsTerminal
<1>1. Inv => SettledIsTerminal
  BY DEF Inv, InvVerdict, SettledIsTerminal
<1> QED
  BY <1>1, Invariance, PTL

\* No step of any request, worker or stop turns SUCCESS or FAILED back into
\* PENDING or RUNNING.
THEOREM NeverResurrected == Spec => NoResurrection
<1> DEFINE Safe == row.status \in {"SUCCESS", "FAILED"} => row.status' \notin {"PENDING", "RUNNING"}
<1>1. ASSUME Inv, [Next]_vars PROVE [Safe]_vars
  <2> SUFFICES ASSUME row.status \in {"SUCCESS", "FAILED"}
               PROVE  row.status' \notin {"PENDING", "RUNNING"}
    OBVIOUS
  <2> USE DEF Inv, TypeOK, Rows, Write, KeepRow
  <2>1. row.exists /\ wk.pc \in {"error", "returning", "done", "dead"}
    BY <1>1 DEF InvCreation, InvVerdict
  <2>2. ASSUME NEW r \in Requests, Request(r) PROVE row.status' \notin {"PENDING", "RUNNING"}
    BY <1>1, <2>1, <2>2 DEF Request, Lookup, FinishResubmit, Insert, RejectRequest, CommitCreated,
       Dispatch, DispatchFails, FinishDispatch, SyncTimeout, WriteTimedOut, SyncRaises,
       SyncFailed, SyncDone, LookupFails, MarkingFails, SaveMetadataFails, InvCreation
  <2>3. ASSUME WorkerStep \/ PollCursor \/ WorkerCrash PROVE row.status' \notin {"PENDING", "RUNNING"}
    BY <2>1, <2>3 DEF WorkerStep, StartRunning, RejectScript, LoadQuery, PublishCancelId,
       RefreshBlock, RecordProgress, BeginBlock, BlockSucceeds, BlockFails, BlockInterrupted,
       HandleQueryError, FinishFails, SkipStore, StoreResults, StoreFails, CommitSuccess,
       WorkerReturns, PayloadTooLarge, SoftTimeLimit, RecordError, RaiseToRequest,
       RefreshFails, RecordErrorFails, PollCursor, WorkerCrash
  <2>4. ASSUME NEW s \in Stoppers, StopStep(s) PROVE row.status' \notin {"PENDING", "RUNNING"}
    BY <2>4 DEF StopStep, StopNotFound, StopFinished, StopRead, StopCancel, StopRetry, StopWrite
  <2>5. CASE EvictBlob \/ UNCHANGED vars
    BY <2>5 DEF EvictBlob, vars
  <2> QED
    BY <1>1, <2>2, <2>3, <2>4, <2>5 DEF Next
<1> QED
  BY <1>1, Invariance, PTL DEF Spec, NoResurrection

-----------------------------------------------------------------------------
(* SqlLabQuery implements QueryRow.                                       *)

\* The row's key is set by the worker's last commit only.
LEMMA KeyLateStep ==
    ASSUME Inv, InvKeyLate, [Next]_vars
    PROVE  InvKeyLate'
<1> USE DEF Inv, TypeOK, InvKeyLate, Rows, Workers, Write, KeepRow, Step, Finish, Load, Others
<1>1. ASSUME NEW r \in Requests, Request(r) PROVE InvKeyLate'
  <2>1. CASE Lookup(r) \/ FinishResubmit(r) \/ Insert(r) \/ RejectRequest(r) \/ CommitCreated(r)
    BY <2>1 DEF Lookup, FinishResubmit, Insert, RejectRequest, CommitCreated, Goto, InvCreation
  <2>2. CASE Dispatch(r) \/ DispatchFails(r) \/ FinishDispatch(r) \/ SyncTimeout(r)
    BY <2>2 DEF Dispatch, DispatchFails, FinishDispatch, SyncTimeout, Goto, InvCreation
  <2>3. CASE WriteTimedOut(r) \/ SyncRaises(r) \/ SyncFailed(r) \/ SyncDone(r)
    BY <2>3 DEF WriteTimedOut, SyncRaises, SyncFailed, SyncDone, Goto, InvCreation
  <2>4. CASE LookupFails(r) \/ MarkingFails(r) \/ SaveMetadataFails(r)
    BY <2>4 DEF LookupFails, MarkingFails, SaveMetadataFails, Goto
  <2> QED
    BY <1>1, <2>1, <2>2, <2>3, <2>4 DEF Request
<1>2. CASE WorkerStep
  <2>1. CASE StartRunning \/ RejectScript \/ LoadQuery \/ PublishCancelId \/ RefreshBlock
    BY <2>1 DEF StartRunning, RejectScript, LoadQuery, PublishCancelId, RefreshBlock
  <2>2. CASE RecordProgress \/ BeginBlock \/ BlockSucceeds \/ BlockFails \/ BlockInterrupted
    BY <2>2 DEF RecordProgress, BeginBlock, BlockSucceeds, BlockFails, BlockInterrupted
  <2>3. CASE HandleQueryError \/ FinishFails \/ SkipStore \/ StoreResults \/ StoreFails
    BY <2>3 DEF HandleQueryError, FinishFails, SkipStore, StoreResults, StoreFails
  <2>4. CASE CommitSuccess \/ WorkerReturns \/ PayloadTooLarge \/ SoftTimeLimit
    BY <2>4 DEF CommitSuccess, WorkerReturns, PayloadTooLarge, SoftTimeLimit
  <2>5. CASE RefreshFails \/ RecordError \/ RecordErrorFails \/ RaiseToRequest
    BY <2>5 DEF RefreshFails, RecordError, RecordErrorFails, RaiseToRequest
  <2> QED
    BY <1>2, <2>1, <2>2, <2>3, <2>4, <2>5 DEF WorkerStep
<1>3. CASE PollCursor \/ WorkerCrash
  BY <1>3 DEF PollCursor, WorkerCrash
<1>4. ASSUME NEW s \in Stoppers, StopStep(s) PROVE InvKeyLate'
  BY <1>4 DEF StopStep, StopNotFound, StopFinished, StopRead, StopCancel, StopRetry, StopWrite, KeepWork
<1>5. CASE EvictBlob \/ UNCHANGED vars
  BY <1>5 DEF EvictBlob, vars
<1> QED
  BY <1>1, <1>2, <1>3, <1>4, <1>5 DEF Next

\* Steps that leave the row, the blob and the phase alone are invisible.
LEMMA Invisible ==
    ASSUME row' = row, blob' = blob, job' = job, Phase' = Phase
    PROVE  UNCHANGED Row!rowVars
BY DEF Row!rowVars

\* An execute request creates the row, records a failure or a timeout of the
\* execution it waited for, or changes nothing a client sees.
LEMMA RequestRefines ==
    ASSUME Inv, InvKeyLate, NEW r \in Requests, Request(r)
    PROVE  [Row!RowNext]_(Row!rowVars)
<1> USE DEF Inv, TypeOK, Rows, Workers, Write, KeepRow, Goto, Phase
<1>s. row.status # "ABSENT" /\ row.exists \in BOOLEAN
  BY DEF Status
<1>1. CASE Lookup(r) \/ Insert(r) \/ RejectRequest(r) \/ SyncFailed(r)
  BY <1>1, Invisible DEF Lookup, Insert, RejectRequest, SyncFailed
<1>11. CASE LookupFails(r) \/ MarkingFails(r) \/ SaveMetadataFails(r)
  BY <1>11, Invisible DEF LookupFails, MarkingFails, SaveMetadataFails
<1>2. CASE FinishResubmit(r)
  <2>1. row.exists BY <1>2 DEF FinishResubmit, InvCreation
  <2> QED BY <1>2, <2>1 DEF FinishResubmit, Row!rowVars
<1>3. CASE CommitCreated(r)
  <2>1. ~row.exists /\ wk.pc = "none" /\ ~row.key
    BY <1>3 DEF CommitCreated, InvCreation, InvKey
  <2>2. Row!Create
    BY <1>3, <2>1 DEF CommitCreated, Row!Create
  <2> QED BY <2>2 DEF Row!RowNext
<1>4. CASE Dispatch(r)
  BY <1>4, Invisible DEF Dispatch, InvCreation
<1>5. CASE DispatchFails(r)
  BY <1>5, Invisible DEF DispatchFails, InvCreation
<1>6. CASE FinishDispatch(r)
  <2>1. row.exists BY <1>6 DEF FinishDispatch, InvCreation
  <2> QED BY <1>6, <2>1 DEF FinishDispatch, Row!rowVars
<1>7. CASE SyncTimeout(r)
  BY <1>7, Invisible DEF SyncTimeout
<1>8. CASE WriteTimedOut(r)
  <2>1. row.exists BY <1>8 DEF WriteTimedOut, InvCreation
  <2>2. Row!TimeOut BY <1>s, <1>8, <2>1 DEF WriteTimedOut, Row!TimeOut
  <2> QED BY <2>2 DEF Row!RowNext
<1>9. CASE SyncRaises(r)
  <2>1. row.exists BY <1>9 DEF SyncRaises, InvCreation
  <2>2. Row!Fail BY <1>s, <1>9, <2>1 DEF SyncRaises, Row!Fail
  <2> QED BY <2>2 DEF Row!RowNext
<1>10. CASE SyncDone(r)
  <2>1. row.exists BY <1>10 DEF SyncDone, InvCreation
  <2> QED BY <1>10, <2>1 DEF SyncDone, Row!rowVars
<1> QED
  BY <1>1, <1>2, <1>3, <1>4, <1>5, <1>6, <1>7, <1>8, <1>9, <1>10, <1>11 DEF Request

\* The worker begins once, ends once, and publishes its verdict as QueryRow
\* says.
LEMMA WorkerRefines ==
    ASSUME Inv, InvKeyLate, WorkerStep \/ PollCursor \/ WorkerCrash
    PROVE  [Row!RowNext]_(Row!rowVars)
<1> USE DEF Inv, TypeOK, Rows, Workers, Write, KeepRow, Step, Finish, Load, Others, Phase
<1>s. row.status # "ABSENT" /\ row.exists \in BOOLEAN
  BY DEF Status
<1>0. wk.pc # "none" /\ row.exists
  BY DEF WorkerStep, StartRunning, RejectScript, LoadQuery, PublishCancelId, RefreshBlock,
     RecordProgress, BeginBlock, BlockSucceeds, BlockFails, BlockInterrupted, HandleQueryError,
     FinishFails, SkipStore, StoreResults, StoreFails, CommitSuccess, WorkerReturns,
     PayloadTooLarge, SoftTimeLimit, RecordError, RaiseToRequest, RefreshFails, RecordErrorFails,
     PollCursor, WorkerCrash, WorkerActive, InvCreation
<1>1. CASE StartRunning
  <2>1. Row!Start BY <1>s, <1>0, <1>1 DEF StartRunning, Row!Start
  <2> QED BY <2>1 DEF Row!RowNext
<1>2. CASE RejectScript \/ FinishFails
  <2>1. Row!GiveUp BY <1>s, <1>0, <1>2 DEF RejectScript, FinishFails, Row!GiveUp
  <2> QED BY <2>1 DEF Row!RowNext
<1>3. CASE LoadQuery \/ BeginBlock \/ BlockInterrupted \/ SkipStore \/ PollCursor
  BY <1>3, Invisible DEF LoadQuery, BeginBlock, BlockInterrupted, SkipStore, PollCursor
<1>4. CASE PublishCancelId \/ RecordProgress
  BY <1>0, <1>4 DEF PublishCancelId, RecordProgress, Row!rowVars
<1>5. CASE RefreshBlock \/ BlockFails
  <2>1. CASE row.status = "STOPPED"
    <3>1. Row!GiveUp BY <1>s, <1>0, <1>5, <2>1 DEF RefreshBlock, BlockFails, Row!GiveUp
    <3> QED BY <3>1 DEF Row!RowNext
  <2>2. CASE row.status # "STOPPED"
    BY <1>5, <2>2, Invisible, ZenonT(40) DEF RefreshBlock, BlockFails
  <2> QED BY <2>1, <2>2
<1>6. CASE BlockSucceeds
  BY <1>6, Invisible DEF BlockSucceeds
<1>7. CASE HandleQueryError
  <2>1. Row!Fail BY <1>s, <1>0, <1>7 DEF HandleQueryError, Row!Fail
  <2> QED BY <2>1 DEF Row!RowNext
<1>8. CASE StoreResults
  <2>1. Row!Store BY <1>0, <1>8 DEF StoreResults, Row!Store
  <2> QED BY <2>1 DEF Row!RowNext
<1>9. CASE StoreFails
  <2>1. CASE job.async
    <3>1. ~row.key BY <1>9 DEF StoreFails, InvKeyLate
    <3>2. row' = [exists |-> TRUE, status |-> "FAILED",
                  extra |-> [wk.extra EXCEPT !.columns = "real"], key |-> FALSE]
      BY <1>9, <2>1 DEF StoreFails
    <3>3. Phase = "running" /\ Phase' = "ended" /\ blob' = blob /\ job' = job
      BY <1>9, <2>1 DEF StoreFails
    <3>4. Row!Fail BY <1>s, <1>0, <3>1, <3>2, <3>3 DEF Row!Fail
    <3> QED BY <3>4 DEF Row!RowNext
  <2>2. CASE ~job.async
    BY <1>9, <2>2, Invisible DEF StoreFails
  <2> QED BY <2>1, <2>2
<1>10. CASE CommitSuccess
  <2>1. ~row.key BY <1>10 DEF CommitSuccess, InvKeyLate
  <2>2. /\ row.status \notin {"SUCCESS", "FAILED"} /\ wk.status # "FAILED"
        /\ wk.key => blob # "absent"
        /\ job.async /\ job.store => wk.key
    BY <1>10 DEF CommitSuccess, InvVerdict, InvKey, InvSuccess
  <2>3. Row!Succeed BY <1>0, <1>10, <2>1, <2>2 DEF CommitSuccess, Row!Succeed
  <2> QED BY <2>3 DEF Row!RowNext
<1>14. CASE RefreshFails
  <2>1. CASE wk.status = "STOPPED"
    <3>1. Row!GiveUp BY <1>s, <1>0, <1>14, <2>1 DEF RefreshFails, Row!GiveUp
    <3> QED BY <3>1 DEF Row!RowNext
  <2>2. CASE wk.status # "STOPPED"
    BY <1>14, <2>2, Invisible DEF RefreshFails
  <2> QED BY <2>1, <2>2
<1>11. CASE WorkerReturns \/ PayloadTooLarge \/ RecordErrorFails \/ RaiseToRequest
  BY <1>11, Invisible DEF WorkerReturns, PayloadTooLarge, RecordErrorFails, RaiseToRequest
<1>12. CASE SoftTimeLimit \/ WorkerCrash
  <2>1. CASE Phase = "ended"
    BY <1>12, <2>1, Invisible DEF SoftTimeLimit, WorkerCrash, WorkerActive
  <2>2. CASE Phase # "ended"
    <3>1. Row!GiveUp BY <1>s, <1>0, <1>12, <2>2 DEF SoftTimeLimit, WorkerCrash, WorkerActive, Row!GiveUp
    <3> QED BY <3>1 DEF Row!RowNext
  <2> QED BY <2>1, <2>2
<1>13. CASE RecordError
  <2>1. Row!Fail BY <1>s, <1>0, <1>13 DEF RecordError, Row!Fail
  <2> QED BY <2>1 DEF Row!RowNext
<1> QED
  BY <1>1, <1>2, <1>3, <1>4, <1>5, <1>6, <1>7, <1>8, <1>9, <1>10, <1>11, <1>12, <1>13,
     <1>14 DEF WorkerStep

\* A stop request marks the row STOPPED or changes nothing.
LEMMA StopRefines ==
    ASSUME Inv, NEW s \in Stoppers, StopStep(s)
    PROVE  [Row!RowNext]_(Row!rowVars)
<1> USE DEF Inv, TypeOK, Rows, Write, KeepRow, KeepWork, Phase
<1>s. row.status # "ABSENT" /\ row.exists \in BOOLEAN
  BY DEF Status
<1>1. CASE StopWrite(s)
  <2>1. row.exists BY <1>1 DEF StopWrite, InvCreation
  <2>2. CASE stop[s].seen = "STOPPED"
    BY <1>1, <2>1, <2>2 DEF StopWrite, Row!rowVars
  <2>3. CASE stop[s].seen # "STOPPED"
    <3>1. Row!Stop BY <1>s, <1>1, <2>1, <2>3 DEF StopWrite, Row!Stop
    <3> QED BY <3>1 DEF Row!RowNext
  <2> QED BY <2>2, <2>3
<1>2. CASE StopNotFound(s) \/ StopFinished(s) \/ StopRead(s) \/ StopCancel(s) \/ StopRetry(s)
  BY <1>2, Invisible DEF StopNotFound, StopFinished, StopRead, StopCancel, StopRetry
<1> QED
  BY <1>1, <1>2 DEF StopStep

\* What execute requests, the worker, stop requests and the results backend do
\* to a query is, seen by a client, a behaviour of QueryRow.
THEOREM RefinesQueryRow == Spec => ImplementsQueryRow
<1>1. Init => Row!RowInit /\ InvKeyLate
  BY DEF Init, Jobs, Phase, Row!RowInit, InvKeyLate
<1>2. ASSUME Inv, InvKeyLate, [Next]_vars
      PROVE  InvKeyLate' /\ [Row!RowNext]_(Row!rowVars)
  <2>1. CASE EvictBlob
    <3>1. Row!Evict BY <2>1 DEF EvictBlob, Phase, Row!Evict
    <3> QED BY <1>2, <3>1, KeyLateStep DEF Row!RowNext
  <2>2. CASE UNCHANGED vars
    BY <1>2, <2>2, KeyLateStep, Invisible DEF vars, Phase
  <2> QED
    BY <1>2, <2>1, <2>2, KeyLateStep, RequestRefines, WorkerRefines, StopRefines DEF Next
<1> QED
  BY <1>1, <1>2, Invariance, PTL DEF Spec, ImplementsQueryRow, Row!RowSpec
=============================================================================
