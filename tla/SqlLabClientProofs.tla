------------------------- MODULE SqlLabClientProofs -------------------------
(***************************************************************************)
(* The safety properties of SqlLabClient, for every number of clicks,      *)
(* results requests and faults.                                            *)
(***************************************************************************)
EXTENDS SqlLabClient, TLAPS

\* Types, with what keeps the counter of open requests within its bound.
Types == TypeOK /\ fetches.open + fetches.muted <= fetches.all

\* The row: the key is published with SUCCESS, by an execution that is over.
InvRow ==
    /\ key => won /\ phase = "ended" /\ status \in Terminal
    /\ status = "SUCCESS" => won

\* What is on its way to the page is not ahead of the server either.
InvAnswers ==
    /\ \A p \in polls : (p.key => key) /\ (p.status = "SUCCESS" => won)
    /\ post = "ok" /\ ~RunAsync => won

\* The page has heard of the results of an asynchronous query.
Heard == entry.key \/ entry.rows \/ shown \/ fetches.open + fetches.muted > 0

\* One poll at a time; when the page has heard of the results, the poll that told
\* it is gone and a later one has read the row after the verdict.
InvPolls ==
    /\ \A p, q \in polls : p = q
    /\ RunAsync /\ Heard => key /\ \A p \in polls : p.read => p.status \in Terminal

\* Before the execute request nothing has happened.
InvIdle ==
    post = "none" => /\ entry.state = "gone" /\ ~Heard
                     /\ polls = {} /\ stopReq = "none"

Inv == Types /\ InvRow /\ InvAnswers /\ NeverAheadOfServer /\ InvPolls /\ InvIdle

\* The bounds are numbers.
LEMMA Bounds == MaxStops \in Nat /\ MaxFetches \in Nat /\ MaxFaults \in Nat
  BY ClientBounds

\* The invariant holds when the page is loaded.
LEMMA InitInv == Init => Inv
<1> SUFFICES ASSUME Init PROVE Inv
  OBVIOUS
<1> USE Bounds DEF Init, RowInit
<1>1. Types
  <2>1. RowTypeOK /\ entry \in Entries
    BY DEF RowTypeOK, Statuses, Entries
  <2>2. /\ fetches \in [open : 0..MaxFetches, muted : 0..MaxFetches, all : 0..MaxFetches]
        /\ fetches.open + fetches.muted <= fetches.all
    OBVIOUS
  <2>3. polls \subseteq [read : BOOLEAN, status : Statuses, key : BOOLEAN]
    OBVIOUS
  <2>4. shown \in BOOLEAN /\ cleaned \in BOOLEAN /\ won \in BOOLEAN /\ aged \in BOOLEAN
    BY Zenon
  <2> QED
    BY <2>1, <2>2, <2>3, <2>4 DEF Types, TypeOK
<1>2. InvRow /\ InvAnswers /\ NeverAheadOfServer /\ InvPolls /\ InvIdle
  BY DEF InvRow, InvAnswers, NeverAheadOfServer, InvPolls, InvIdle, Heard
<1> QED
  BY <1>1, <1>2 DEF Inv

-----------------------------------------------------------------------------
(* Types. *)

FetchTypes ==
    /\ fetches \in [open : 0..MaxFetches, muted : 0..MaxFetches, all : 0..MaxFetches]
    /\ fetches.open + fetches.muted <= fetches.all

\* The reducers leave an entry of the store.
LEMMA ReducerTypes ==
    ASSUME entry \in Entries
    PROVE  /\ QueryFailed => entry' \in Entries
           /\ \A k \in BOOLEAN : QuerySuccess(k) => entry' \in Entries
           /\ \A old \in BOOLEAN : ClearInactive(old) => entry' \in Entries
           /\ FetchQueryResults => entry' \in Entries
           /\ \A p \in [read : BOOLEAN, status : Statuses \ {"ABSENT"}, key : BOOLEAN] :
                  Refreshed(p) \in Entries
<1> USE DEF Entries, Active, Concluded
<1>1. QueryFailed => entry' \in Entries
  BY DEF QueryFailed
<1>2. ASSUME NEW k \in BOOLEAN, QuerySuccess(k) PROVE entry' \in Entries
  BY <1>2 DEF QuerySuccess
<1>3. ASSUME NEW old \in BOOLEAN, ClearInactive(old) PROVE entry' \in Entries
  BY <1>3 DEF ClearInactive
<1>4. FetchQueryResults => entry' \in Entries
  BY DEF FetchQueryResults
<1>5. ASSUME NEW p \in [read : BOOLEAN, status : Statuses \ {"ABSENT"}, key : BOOLEAN]
      PROVE  Refreshed(p) \in Entries
  <2>1. Lower[p.status] \in Active \cup Concluded /\ p.key \in BOOLEAN
    BY <1>5 DEF Lower, Statuses, Terminal
  <2> QED
    BY <2>1 DEF Refreshed
<1> QED
  BY <1>1, <1>2, <1>3, <1>4, <1>5

\* Results requests are counted.
LEMMA FetchCount ==
    ASSUME FetchTypes
    PROVE  /\ FetchQueryResults => FetchTypes'
           /\ OpenFetched \/ MutedFetched => FetchTypes' /\ fetches.open + fetches.muted > 0
<1> USE Bounds DEF FetchTypes
<1>1. ASSUME FetchQueryResults PROVE FetchTypes'
  <2>0. /\ fetches.open \in Nat /\ fetches.muted \in Nat /\ fetches.all \in Nat
        /\ fetches.all < MaxFetches
    BY <1>1 DEF FetchQueryResults
  <2>1. CASE entry.state = "stopped"
    <3>1. fetches' = [open |-> fetches.open, muted |-> fetches.muted + 1, all |-> fetches.all + 1]
      BY <1>1, <2>1 DEF FetchQueryResults
    <3> QED
      BY <2>0, <3>1
  <2>2. CASE entry.state # "stopped"
    <3>1. fetches' = [open |-> fetches.open + 1, muted |-> fetches.muted, all |-> fetches.all + 1]
      BY <1>1, <2>2 DEF FetchQueryResults
    <3> QED
      BY <2>0, <3>1
  <2> QED
    BY <2>1, <2>2
<1>2. OpenFetched \/ MutedFetched => FetchTypes' /\ fetches.open + fetches.muted > 0
  BY DEF OpenFetched, MutedFetched
<1> QED
  BY <1>1, <1>2

\* Every step of the page and of the server keeps the types.
LEMMA TypesStep == ASSUME Types, Step, Others PROVE Types'
<1> USE Bounds DEF Types, TypeOK
<1>0. /\ setup' = setup /\ aged' = aged /\ entry \in Entries /\ FetchTypes /\ RowTypeOK
      /\ polls \subseteq [read : BOOLEAN, status : Statuses, key : BOOLEAN]
  BY DEF Others, FetchTypes
<1>k. KeepRow => RowTypeOK'
  BY <1>0 DEF KeepRow, rowVars, RowTypeOK
<1>1. CASE RunQuery
  BY <1>0, <1>k, <1>1 DEF RunQuery, Entries, Active
<1>2. CASE PostAnswer
  <2>1. entry' \in Entries
    BY <1>0, <1>2, ReducerTypes DEF PostAnswer, RowTypeOK
  <2> QED
    BY <1>0, <1>k, <1>2, <2>1 DEF PostAnswer
<1>3. CASE PostFails
  BY <1>0, <1>k, <1>3 DEF PostFails, Fault
<1>4. CASE Server
  <2>1. UNCHANGED <<entry, polls, fetches, stopReq, shown, cleaned, stops, faults>>
    BY <1>4 DEF Server
  <2>2. RowTypeOK'
    BY <1>4 DEF Server, ServerCreates, ServerGivesUp, ServerSucceeds, ServerFails, ServerTimesOut,
                Create, GiveUp, Succeed, Fail, TimeOut, Start, Store, Evict,
                Statuses, Terminal, RowTypeOK
  <2>3. post' \in {"none", "sent", "ok", "void", "error", "done"} /\ won' \in BOOLEAN
    BY <1>4 DEF Server, ServerCreates, ServerGivesUp, ServerSucceeds, ServerFails, ServerTimesOut,
                Answer
  <2> QED
    BY <1>0, <2>1, <2>2, <2>3
<1>5. CASE CheckForRefresh
  BY <1>0, <1>k, <1>5 DEF CheckForRefresh, Unread, Statuses
<1>6. CASE CleanOnce
  <2>1. entry' \in Entries
    BY <1>0, <1>6, ReducerTypes DEF CleanOnce
  <2> QED
    BY <1>0, <1>k, <1>6, <2>1 DEF CleanOnce
<1>7. ASSUME NEW p \in polls, UpdatedSince(p) PROVE Types'
  <2>1. [read |-> TRUE, status |-> status, key |-> key]
            \in [read : BOOLEAN, status : Statuses, key : BOOLEAN]
    BY <1>0 DEF RowTypeOK
  <2>2. polls' \subseteq [read : BOOLEAN, status : Statuses, key : BOOLEAN]
    BY <1>0, <1>7, <2>1, Zenon DEF UpdatedSince
  <2> QED
    BY <1>0, <1>k, <1>7, <2>2 DEF UpdatedSince
<1>8. ASSUME NEW p \in polls, RefreshQueries(p) PROVE Types'
  <2>1. CASE p.status = "ABSENT"
    <3>1. entry' \in Entries
      BY <1>0, <1>8, <2>1, ReducerTypes DEF RefreshQueries, SlowPost
    <3> QED
      BY <1>0, <1>k, <1>8, <3>1 DEF RefreshQueries
  <2>2. CASE p.status # "ABSENT"
    <3>1. p \in [read : BOOLEAN, status : Statuses \ {"ABSENT"}, key : BOOLEAN]
      BY <1>0, <2>2
    <3>2. entry' \in Entries
      BY <1>0, <1>8, <2>2, <3>1, ReducerTypes DEF RefreshQueries
    <3> QED
      BY <1>0, <1>k, <1>8, <3>2 DEF RefreshQueries
  <2> QED
    BY <2>1, <2>2
<1>9. ASSUME NEW p \in polls, PollFails(p) PROVE Types'
  BY <1>0, <1>k, <1>9 DEF PollFails, Fault
<1>10. CASE Render
  <2>1. entry' \in Entries /\ FetchTypes'
    BY <1>0, <1>10, ReducerTypes, FetchCount DEF Render, FetchTypes
  <2>2. shown' \in BOOLEAN
    BY <1>0, <1>10 DEF Render, Entries
  <2> QED
    BY <1>0, <1>k, <1>10, <2>1, <2>2 DEF Render, FetchTypes
<1>11. CASE Remount
  <2>1. shown' \in BOOLEAN
    BY <1>11, Zenon DEF Remount
  <2>2. faults' \in 0..MaxFaults
    BY <1>11 DEF Remount, Fault
  <2> QED
    BY <1>0, <1>k, <1>11, <2>1, <2>2 DEF Remount
<1>12. CASE Refetch
  <2>1. entry' \in Entries /\ FetchTypes'
    BY <1>0, <1>12, ReducerTypes, FetchCount DEF Refetch
  <2> QED
    BY <1>0, <1>k, <1>12, <2>1 DEF Refetch, FetchTypes
<1>13. CASE FetchAnswer
  <2>1. entry' \in Entries /\ FetchTypes'
    BY <1>0, <1>13, ReducerTypes, FetchCount DEF FetchAnswer
  <2> QED
    BY <1>0, <1>k, <1>13, <2>1 DEF FetchAnswer, FetchTypes
<1>14. CASE FetchFails
  <2>1. entry' \in Entries /\ FetchTypes'
    BY <1>0, <1>14, ReducerTypes, FetchCount DEF FetchFails
  <2> QED
    BY <1>0, <1>k, <1>14, <2>1 DEF FetchFails, FetchTypes, Fault
<1>15. CASE PostStopQuery
  BY <1>0, <1>k, <1>15 DEF PostStopQuery
<1>16. CASE StopHandled
  <2>1. RowTypeOK'
    BY <1>0, <1>k, <1>16 DEF StopHandled, Stop, RowTypeOK, Statuses, Terminal
  <2> QED
    BY <1>0, <1>16, <2>1 DEF StopHandled
<1>17. CASE StopQuery
  <2>1. entry' \in Entries
    BY <1>0, <1>17 DEF StopQuery, Entries, Concluded
  <2> QED
    BY <1>0, <1>k, <1>17, <2>1 DEF StopQuery
<1> QED
  BY <1>1, <1>2, <1>3, <1>4, <1>5, <1>6, <1>7, <1>8, <1>9, <1>10, <1>11, <1>12,
     <1>13, <1>14, <1>15, <1>16, <1>17 DEF Step

-----------------------------------------------------------------------------
(* The row, and what the page knows of it. *)

\* No step takes the key or the success of the execution back.
LEMMA RowStep ==
    ASSUME Types, InvRow, Step, Others
    PROVE  InvRow' /\ (key => key') /\ (won => won')
<1> USE DEF InvRow, Types, TypeOK, RowTypeOK
<1>1. CASE Server
  <2>1. CASE ServerCreates
    BY <2>1 DEF ServerCreates, Create, Terminal
  <2>2. CASE ServerGivesUp
    BY <2>2 DEF ServerGivesUp, GiveUp
  <2>3. CASE ServerSucceeds
    BY <2>3 DEF ServerSucceeds, Succeed, Terminal
  <2>4. CASE ServerFails
    BY <2>4 DEF ServerFails, Fail, Terminal
  <2>5. CASE ServerTimesOut
    BY <2>5 DEF ServerTimesOut, TimeOut, Terminal
  <2>6. CASE (Start \/ Store \/ Evict) /\ UNCHANGED <<post, won>>
    BY <2>6 DEF Start, Store, Evict
  <2> QED
    BY <1>1, <2>1, <2>2, <2>3, <2>4, <2>5, <2>6 DEF Server
<1>2. CASE StopHandled
  BY <1>2 DEF StopHandled, Stop, KeepRow, rowVars, Terminal
<1>3. CASE KeepRow /\ UNCHANGED won
  BY <1>3 DEF KeepRow, rowVars
<1>4. Server \/ StopHandled \/ (KeepRow /\ UNCHANGED won)
  BY DEF Step, RunQuery, PostAnswer, PostFails, CheckForRefresh, CleanOnce, UpdatedSince,
         RefreshQueries, PollFails, Render, Remount, Refetch, FetchAnswer, FetchFails,
         PostStopQuery, StopQuery
<1> QED
  BY <1>1, <1>2, <1>3, <1>4

\* An answer is written from the row, which does not go back on a success or a key.
LEMMA AnswersStep ==
    ASSUME Types, InvRow, InvAnswers, Step, Others
    PROVE  InvAnswers'
<1>0. /\ (key => key') /\ (won => won') /\ setup' = setup
      /\ polls \subseteq [read : BOOLEAN, status : Statuses, key : BOOLEAN]
  BY RowStep DEF Others, Types, TypeOK
<1>1. \A p \in polls' : (p.key => key') /\ (p.status = "SUCCESS" => won')
  <2>1. CASE polls' \subseteq polls
    BY <1>0, <2>1 DEF InvAnswers
  <2>2. CASE CheckForRefresh
    BY <2>2 DEF CheckForRefresh, Unread
  <2>3. ASSUME NEW p \in polls, UpdatedSince(p)
        PROVE  \A q \in polls' : (q.key => key') /\ (q.status = "SUCCESS" => won')
    BY <1>0, <2>3 DEF UpdatedSince, InvRow, InvAnswers
  <2>4. polls' \subseteq polls \/ CheckForRefresh \/ \E p \in polls : UpdatedSince(p)
    BY DEF Step, RunQuery, PostAnswer, PostFails, Server, CleanOnce, RefreshQueries,
           PollFails, Render, Remount, Refetch, FetchAnswer, FetchFails, PostStopQuery,
           StopHandled, StopQuery
  <2> QED
    BY <2>1, <2>2, <2>3, <2>4
<1>2. post' = "ok" /\ ~RunAsync' => won'
  <2>1. CASE Server
    BY <1>0, <2>1 DEF Server, ServerCreates, ServerGivesUp, ServerSucceeds, ServerFails,
                ServerTimesOut, Answer, RunAsync, InvAnswers
  <2>2. CASE post' # "ok" \/ post' = post
    BY <1>0, <2>2 DEF InvAnswers, RunAsync
  <2>3. Server \/ post' # "ok" \/ post' = post
    BY DEF Step, RunQuery, PostAnswer, PostFails, CheckForRefresh, CleanOnce, UpdatedSince,
           RefreshQueries, PollFails, Render, Remount, Refetch, FetchAnswer, FetchFails,
           PostStopQuery, StopHandled, StopQuery
  <2> QED
    BY <2>1, <2>2, <2>3
<1> QED
  BY <1>1, <1>2 DEF InvAnswers

\* What the page takes in was true of the server when it was read, and still is.
LEMMA AheadStep ==
    ASSUME Types, InvRow, InvAnswers, NeverAheadOfServer, Step, Others
    PROVE  NeverAheadOfServer'
<1>0. /\ (key => key') /\ (won => won') /\ setup' = setup /\ entry \in Entries
      /\ polls \subseteq [read : BOOLEAN, status : Statuses, key : BOOLEAN]
      /\ FetchTypes /\ key \in BOOLEAN /\ (key => won) /\ shown \in BOOLEAN /\ aged \in BOOLEAN
  BY RowStep DEF Others, Types, TypeOK, FetchTypes, InvRow, RowTypeOK
<1> USE DEF NeverAheadOfServer
<1>1. CASE UNCHANGED <<entry, shown, fetches>>
  BY <1>0, <1>1
<1>2. CASE RunQuery
  BY <1>0, <1>2 DEF RunQuery
<1>3. CASE PostAnswer
  <2>1. CASE post = "ok" /\ ~RunAsync
    <3>1. entry' = [state |-> "success", key |-> entry.key \/ key, rows |-> TRUE] /\ won
      BY <1>3, <2>1 DEF PostAnswer, QuerySuccess, InvAnswers
    <3> QED
      BY <1>0, <1>3, <3>1 DEF PostAnswer
  <2>2. CASE ~(post = "ok" /\ ~RunAsync)
    <3>1. entry' = entry \/ entry' = [entry EXCEPT !.state = "failed"]
      BY <1>3, <2>2 DEF PostAnswer, QueryFailed
    <3> QED
      BY <1>0, <1>3, <3>1 DEF PostAnswer, Entries
  <2> QED
    BY <2>1, <2>2
<1>4. ASSUME NEW old \in BOOLEAN, ClearInactive(old), UNCHANGED <<shown, fetches>>
      PROVE  NeverAheadOfServer'
  BY <1>0, <1>4 DEF ClearInactive, Entries
<1>5. ASSUME NEW p \in polls, RefreshQueries(p) PROVE NeverAheadOfServer'
  <2>1. CASE p.status = "ABSENT"
    BY <1>4, <1>5, <2>1 DEF RefreshQueries, SlowPost, Types, TypeOK
  <2>2. CASE p.status # "ABSENT"
    <3>1. entry' = entry \/ entry' = Refreshed(p)
      BY <1>5, <2>2 DEF RefreshQueries
    <3>2. /\ Refreshed(p).key = p.key
          /\ Refreshed(p).state = IF p.status = "SUCCESS" /\ entry.state \in {"fetching", "success", "running"}
                                  THEN entry.state ELSE Lower[p.status]
      BY <1>0 DEF Refreshed, Entries
    <3>3. Lower[p.status] # "fetching" /\ (Lower[p.status] = "success" => p.status = "SUCCESS")
      BY <1>0, <2>2 DEF Lower, Statuses, Terminal
    <3>4. (p.key => key) /\ (p.status = "SUCCESS" => won)
      BY DEF InvAnswers
    <3> QED
      BY <1>0, <1>5, <3>1, <3>2, <3>3, <3>4 DEF RefreshQueries
  <2> QED
    BY <2>1, <2>2
<1>6. ASSUME entry.key, FetchQueryResults, shown' = shown \/ shown' = entry.key
      PROVE  NeverAheadOfServer'
  <2>1. entry' = [entry EXCEPT !.state = "fetching"] /\ key
    BY <1>6 DEF FetchQueryResults
  <2> QED
    BY <1>0, <2>1 DEF Entries
<1>7. CASE Render
  BY <1>0, <1>6, <1>7 DEF Render, Entries
<1>8. CASE Remount
  BY <1>0, <1>8 DEF Remount
<1>9. CASE Refetch
  BY <1>6, <1>9 DEF Refetch
<1>10. CASE FetchAnswer
  <2>1. entry'.state = "success" /\ entry'.key /\ key /\ shown' = shown
    BY <1>10 DEF FetchAnswer, QuerySuccess
  <2> QED
    BY <1>0, <2>1
<1>11. CASE FetchFails
  <2>1. fetches.open + fetches.muted > 0
    BY <1>0, <1>11, FetchCount DEF FetchFails
  <2>2. /\ entry'.state \in {"failed", entry.state} /\ entry'.key = entry.key
        /\ key /\ shown' = shown
    BY <1>0, <1>11, <2>1 DEF FetchFails, QueryFailed, Entries
  <2> QED
    BY <1>0, <2>2
<1>12. CASE StopQuery
  <2>1. entry'.state = "stopped" /\ entry'.key = entry.key /\ UNCHANGED <<shown, fetches>>
    BY <1>0, <1>12 DEF StopQuery, Entries
  <2> QED
    BY <1>0, <2>1
<1>13. CASE CleanOnce
  BY <1>0, <1>4, <1>13 DEF CleanOnce
<1>14. \/ RunQuery \/ PostAnswer \/ CleanOnce \/ (\E p \in polls : RefreshQueries(p))
       \/ Render \/ Remount \/ Refetch \/ FetchAnswer \/ FetchFails \/ StopQuery
       \/ UNCHANGED <<entry, shown, fetches>>
  BY DEF Step, PostFails, Server, CheckForRefresh, UpdatedSince, PollFails,
         PostStopQuery, StopHandled
<1> QED
  BY <1>1, <1>2, <1>3, <1>5, <1>7, <1>8, <1>9, <1>10, <1>11, <1>12, <1>13, <1>14

-----------------------------------------------------------------------------
(* Polls and results. *)

\* When a step lets the page hear of the results first, it applies a poll.
LEMMA HeardStep ==
    ASSUME Types, Step, Others, RunAsync, Heard'
    PROVE  Heard \/ \E p \in polls : RefreshQueries(p)
<1>0. entry \in Entries /\ FetchTypes
  BY DEF Types, TypeOK, FetchTypes
<1> USE DEF Heard
<1>1. CASE RunQuery
  BY <1>1 DEF RunQuery
<1>2. CASE PostAnswer
  BY <1>0, <1>2 DEF PostAnswer, QueryFailed, Entries
<1>3. CASE CleanOnce
  BY <1>0, <1>3 DEF CleanOnce, ClearInactive, Entries
<1>4. CASE Render
  BY <1>0, <1>4 DEF Render, FetchQueryResults, Entries
<1>5. CASE Remount \/ Refetch
  BY <1>0, <1>5 DEF Remount, Refetch, FetchQueryResults, Entries
<1>6. CASE FetchAnswer \/ FetchFails
  BY <1>0, <1>6, FetchCount DEF FetchAnswer, FetchFails
<1>7. CASE StopQuery
  BY <1>0, <1>7 DEF StopQuery, Entries
<1>8. CASE UNCHANGED <<entry, shown, fetches>>
  BY <1>8
<1>9. \/ RunQuery \/ PostAnswer \/ CleanOnce \/ (\E p \in polls : RefreshQueries(p))
      \/ Render \/ Remount \/ Refetch \/ FetchAnswer \/ FetchFails \/ StopQuery
      \/ UNCHANGED <<entry, shown, fetches>>
  BY DEF Step, PostFails, Server, CheckForRefresh, UpdatedSince, PollFails,
         PostStopQuery, StopHandled
<1> QED
  BY <1>1, <1>2, <1>3, <1>4, <1>5, <1>6, <1>7, <1>8, <1>9

\* Every step keeps what the polls under way may say.
LEMMA PollsStep ==
    ASSUME Types, InvRow, InvAnswers, InvPolls, NeverAheadOfServer, Step, Others
    PROVE  InvPolls'
<1>0. /\ (key => key') /\ setup' = setup /\ entry \in Entries
      /\ polls \subseteq [read : BOOLEAN, status : Statuses, key : BOOLEAN]
      /\ NeverAheadOfServer'
  BY RowStep, AheadStep DEF Others, Types, TypeOK
<1>1. CASE \E p \in polls : RefreshQueries(p)
  <2> PICK p \in polls : RefreshQueries(p)
    BY <1>1
  <2>1. polls' = {}
    BY DEF RefreshQueries, InvPolls
  <2>2. entry'.rows => entry.rows
    <3>1. CASE p.status = "ABSENT"
      BY <1>0, <3>1 DEF RefreshQueries, ClearInactive, Entries
    <3>2. CASE p.status # "ABSENT"
      BY <1>0, <3>2 DEF RefreshQueries, Refreshed, Entries
    <3> QED
      BY <3>1, <3>2
  <2> QED
    BY <1>0, <2>1, <2>2 DEF InvPolls, Heard, NeverAheadOfServer, RunAsync
<1>2. CASE \E p \in polls : UpdatedSince(p)
  <2> PICK p \in polls : UpdatedSince(p)
    BY <1>2
  <2>1. polls' = {[read |-> TRUE, status |-> status, key |-> key]}
    BY DEF UpdatedSince, InvPolls
  <2>2. UNCHANGED <<entry, shown, fetches>>
    BY DEF UpdatedSince
  <2> QED
    BY <1>0, <2>1, <2>2 DEF InvPolls, InvRow, Heard, RunAsync
<1>3. CASE CheckForRefresh
  <2>1. polls' = {Unread} /\ UNCHANGED <<entry, shown, fetches>>
    BY <1>3 DEF CheckForRefresh
  <2> QED
    BY <1>0, <2>1 DEF InvPolls, Heard, RunAsync, Unread
<1>4. CASE polls' \subseteq polls /\ ~\E p \in polls : RefreshQueries(p)
  <2>1. RunAsync' /\ Heard' => RunAsync /\ Heard
    BY <1>0, <1>4, HeardStep DEF RunAsync
  <2> QED
    BY <1>0, <1>4, <2>1 DEF InvPolls
<1>5. polls' \subseteq polls \/ CheckForRefresh \/ \E p \in polls : UpdatedSince(p)
  BY DEF Step, RunQuery, PostAnswer, PostFails, Server, CleanOnce, RefreshQueries,
         PollFails, Render, Remount, Refetch, FetchAnswer, FetchFails, PostStopQuery,
         StopHandled, StopQuery
<1> QED
  BY <1>1, <1>2, <1>3, <1>4, <1>5

\* Nothing is known before the query is sent.
LEMMA IdleStep == ASSUME Types, InvIdle, Step, Others PROVE InvIdle'
<1> SUFFICES ASSUME post' = "none" PROVE InvIdle'
  BY DEF InvIdle
<1>0. post = "none"
  BY DEF Step, RunQuery, PostAnswer, PostFails, Server, ServerCreates, ServerGivesUp,
         ServerSucceeds, ServerFails, ServerTimesOut, Answer, CheckForRefresh, CleanOnce,
         UpdatedSince, RefreshQueries, PollFails, Render, Remount, Refetch, FetchAnswer,
         FetchFails, PostStopQuery, StopHandled, StopQuery, Types, TypeOK
<1>1. /\ entry.state = "gone" /\ ~Heard /\ polls = {} /\ stopReq = "none"
      /\ entry \in Entries /\ shown \in BOOLEAN /\ FetchTypes
  BY <1>0 DEF InvIdle, Types, TypeOK, FetchTypes
<1>2. UNCHANGED <<entry, shown, fetches, polls, stopReq>>
  <2>1. CASE CleanOnce
    BY <1>1, <2>1 DEF CleanOnce, ClearInactive, Heard
  <2>2. ~RunQuery /\ ~PostAnswer /\ ~PostFails
    BY <1>0 DEF RunQuery, PostAnswer, PostFails
  <2>3. ~CheckForRefresh /\ ~PostStopQuery /\ ~StopHandled /\ ~StopQuery
    BY <1>1 DEF CheckForRefresh, ShouldCheck, PostStopQuery, StopHandled, StopQuery, Active
  <2>4. ~Render /\ ~Remount /\ ~Refetch /\ ~FetchAnswer /\ ~FetchFails
    BY <1>1, FetchCount DEF Render, Remount, Refetch, FetchAnswer, FetchFails, Heard, Entries
  <2> QED
    BY <1>1, <2>1, <2>2, <2>3, <2>4 DEF Step, Server
<1> QED
  BY <1>1, <1>2 DEF InvIdle, Heard

\* The inductive invariant.
THEOREM ClientInvariance == Spec => []Inv
<1>1. Inv /\ [Next]_vars => Inv'
  <2>1. CASE Step /\ Others
    BY <2>1, TypesStep, RowStep, AnswersStep, AheadStep, PollsStep, IdleStep DEF Inv
  <2>3. CASE Age
    <3>1. UNCHANGED <<setup, rowVars, clientVars>> /\ aged' \in BOOLEAN
      BY <2>3 DEF Age
    <3> QED
      BY <3>1, SMTT(30) DEF rowVars, clientVars, Inv, Types, TypeOK, RowTypeOK, InvRow,
                InvAnswers, NeverAheadOfServer, InvPolls, InvIdle, Heard, RunAsync
  <2>2. CASE UNCHANGED vars
    BY <2>2, SMTT(30) DEF vars, rowVars, clientVars, Inv, Types, TypeOK, RowTypeOK, InvRow, InvAnswers,
                NeverAheadOfServer, InvPolls, InvIdle, Heard, RunAsync
  <2> QED
    BY <2>1, <2>2, <2>3 DEF Next
<1> QED
  BY <1>1, InitInv, PTL DEF Spec

\* The entry of the store always has a state the page knows, whatever answers are
\* applied to it in whatever order.
THEOREM ClientTypes == Spec => []TypeOK
<1>1. Inv => TypeOK
  BY DEF Inv, Types
<1> QED
  BY <1>1, ClientInvariance, PTL

\* The page asks for rows only under a published key and says success only of an
\* execution that succeeded, for any number of stops, fetches and lost requests.
THEOREM ClientNeverAhead == Spec => []NeverAheadOfServer
<1>1. Inv => NeverAheadOfServer
  BY DEF Inv
<1> QED
  BY <1>1, ClientInvariance, PTL

\* No poll, late or not, turns an asynchronous query whose rows have arrived back
\* into one that waits.
THEOREM ClientKeepsResults == Spec => ResultsNotUndone
<1> DEFINE Kept == RunAsync /\ entry.state = "success" /\ entry.rows
                     => entry'.state \notin {"pending", "running"}
<1>1. Inv /\ [Next]_vars => [Kept]_vars
  <2> SUFFICES ASSUME Inv, Next, RunAsync, entry.state = "success", entry.rows
               PROVE  entry'.state \notin {"pending", "running"}
    OBVIOUS
  <2>0. entry \in Entries /\ polls \subseteq [read : BOOLEAN, status : Statuses, key : BOOLEAN]
    BY DEF Inv, Types, TypeOK
  <2>1. CASE \E p \in polls : RefreshQueries(p)
    <3> PICK p \in polls : RefreshQueries(p)
      BY <2>1
    <3>1. CASE p.status = "ABSENT"
      BY <2>0, <3>1 DEF RefreshQueries, ClearInactive, Entries
    <3>2. CASE p.status # "ABSENT"
      <4>1. p.status \in Terminal
        BY <2>0 DEF RefreshQueries, Inv, InvPolls, Heard
      <4>2. Lower[p.status] \notin {"pending", "running"}
        BY <4>1 DEF Lower, Terminal, Statuses
      <4>3. Refreshed(p).state \notin {"pending", "running"}
        BY <2>0, <4>2 DEF Refreshed, Entries
      <4> QED
        BY <2>0, <3>2, <4>3 DEF RefreshQueries
    <3> QED
      BY <3>1, <3>2
  <2>2. ~RunQuery
    BY DEF RunQuery, Inv, InvIdle
  <2>3. CASE PostAnswer \/ CleanOnce
    BY <2>0, <2>3 DEF PostAnswer, QueryFailed, CleanOnce, ClearInactive, Entries
  <2>4. CASE Render \/ Remount \/ Refetch
    BY <2>0, <2>4 DEF Render, Remount, Refetch, FetchQueryResults, Entries
  <2>5. CASE FetchAnswer \/ FetchFails
    BY <2>0, <2>5 DEF FetchAnswer, FetchFails, QuerySuccess, QueryFailed, Entries
  <2>7. CASE StopQuery
    BY <2>0, <2>7 DEF StopQuery, Entries
  <2>6. CASE entry' = entry
    BY <2>6
  <2> QED
    BY <2>1, <2>2, <2>3, <2>4, <2>5, <2>6, <2>7
       DEF Next, Step, Age, clientVars, PostFails, Server, CheckForRefresh, UpdatedSince,
           PollFails, PostStopQuery, StopHandled
<1> QED
  BY <1>1, ClientInvariance, PTL DEF Spec, ResultsNotUndone
=============================================================================
