------------------------- MODULE ChartRequestsProofs -------------------------
(***************************************************************************)
(* Proofs about ChartRequests, for any number of requests.                 *)
(***************************************************************************)
EXTENDS ChartRequests, TLAPS

---------------------------------------------------------------------------
(* Types, and LoadingHasRequest, which is inductive with them.             *)

Charts ==
    [live : BOOLEAN, present : BOOLEAN, status : Statuses,
     trigger : BOOLEAN, controller : 0..MaxRequests,
     form : BOOLEAN, shown : 0..MaxRequests, stack : BOOLEAN]

LoadingInv == TypeOK /\ LoadingHasRequest

\* The reducer's handlers return a well-formed entry with the fields they set.
LEMMA HandlerTypes ==
    ASSUME NEW c \in Charts, NEW r \in Requests, NEW b \in BOOLEAN
    PROVE  /\ Started(c, r) \in Charts
           /\ Succeeded(c, r) \in Charts
           /\ Stopped(c) \in Charts
           /\ Failed(c, b) \in Charts
           /\ Triggered(c, b) \in Charts
           /\ FormUpdated(c) \in Charts
  <1>0. r \in 0..MaxRequests /\ 0 \in 0..MaxRequests
    BY MaxRequestsAssumption DEF Requests
  <1>1. Started(c, r) \in Charts
    BY <1>0 DEF Charts, Started, Statuses
  <1>2. Succeeded(c, r) \in Charts
    BY <1>0 DEF Charts, Succeeded, Statuses
  <1>3. Stopped(c) \in Charts
    BY DEF Charts, Stopped, Statuses
  <1>4. Failed(c, b) \in Charts
    BY <1>0 DEF Charts, Failed, Statuses
  <1>5. Triggered(c, b) \in Charts
    BY DEF Charts, Triggered, Statuses
  <1>6. FormUpdated(c) \in Charts
    BY DEF Charts, FormUpdated
  <1> QED BY <1>1, <1>2, <1>3, <1>4, <1>5, <1>6

\* What Begin leaves in the entry.
LEMMA BeginEffect ==
    ASSUME NEW r \in Requests, chart \in Charts, Begin(r)
    PROVE  /\ chart' \in Charts
           /\ chart'.status = "loading"
           /\ chart'.controller = r
           /\ chart'.shown = chart.shown
           /\ chart'.live = chart.live
  <1>1. Started(chart, r) \in Charts
    BY HandlerTypes
  <1>2. /\ Started(chart, r).controller = r
        /\ Started(chart, r).shown = chart.shown
        /\ Started(chart, r).live = chart.live
    BY DEF Started, Charts
  <1> DEFINE t == Triggered(Started(chart, r), FALSE)
  <1>3. t \in Charts
    BY <1>1, HandlerTypes
  <1>4. t.status = "loading" /\ t.controller = r
        /\ t.shown = chart.shown /\ t.live = chart.live
    BY <1>1, <1>2 DEF Triggered, Charts
  <1>5. chart' = FormUpdated(t)
    BY DEF Begin
  <1> HIDE DEF t
  <1>6. FormUpdated(t) \in Charts
    BY <1>3, HandlerTypes
  <1>7. /\ FormUpdated(t).status = "loading" /\ FormUpdated(t).controller = r
        /\ FormUpdated(t).shown = chart.shown /\ FormUpdated(t).live = chart.live
    BY <1>3, <1>4 DEF FormUpdated, Charts
  <1> QED BY <1>5, <1>6, <1>7

\* The entries that are not made by a handler.
LEMMA FreshEntryTypes ==
    /\ DashboardChart \in Charts /\ DashboardChart.trigger
    /\ ExploreChart \in Charts /\ ExploreChart.status # "loading"
    /\ NoChart \in Charts /\ NoChart.status # "loading"
  <1>0. 0 \in 0..MaxRequests
    BY MaxRequestsAssumption
  <1>1. DashboardChart \in Charts /\ DashboardChart.trigger
    BY <1>0 DEF DashboardChart, Charts, Statuses
  <1>2. ExploreChart \in Charts /\ ExploreChart.status # "loading"
    BY <1>1 DEF ExploreChart, Charts, Statuses
  <1>3. NoChart \in Charts /\ NoChart.status # "loading"
    BY <1>0 DEF NoChart, Charts, Statuses
  <1> QED BY <1>1, <1>2, <1>3

\* A chart is added without a request.
LEMMA LoadingInit == Init => LoadingInv
  <1> SUFFICES ASSUME Init PROVE LoadingInv
    OBVIOUS
  <1>1. chart \in Charts /\ LoadingHasRequest
    BY FreshEntryTypes DEF Init, LoadingHasRequest
  <1> QED BY <1>1, MaxRequestsAssumption DEF Init, LoadingInv, TypeOK, Charts, Steps, Requests

\* Every step keeps a spinner backed.
LEMMA LoadingStep == LoadingInv /\ [Next]_vars => LoadingInv'
  <1> SUFFICES ASSUME LoadingInv, [Next]_vars PROVE LoadingInv'
    OBVIOUS
  <1> USE MaxRequestsAssumption
  <1>0. chart \in Charts /\ TypeOK /\ LoadingHasRequest
    BY DEF LoadingInv, TypeOK, Charts
  <1>s. setup' = setup /\ setup' \in [async : BOOLEAN, removable : BOOLEAN]
    BY <1>0 DEF Next, vars, TypeOK
  <1>c. ASSUME chart' \in Charts, used' \in 0..MaxRequests,
               pc' \in [Requests -> Steps], aborted' \in [Requests -> BOOLEAN],
               timer' \in [Requests -> 0..MaxRequests], newest' \in 0..MaxRequests
        PROVE  TypeOK'
    BY <1>c, <1>s DEF TypeOK, Charts
  <1>1. ASSUME TriggerQuery PROVE LoadingInv'
    <2>1. chart' \in Charts /\ chart'.trigger
      <3>1. 1 \in Requests
        BY DEF Requests
      <3> QED BY <1>0, <1>1, <3>1, HandlerTypes DEF TriggerQuery, Triggered, Charts
    <2> QED BY <1>0, <1>1, <1>c, <2>1 DEF TriggerQuery, LoadingInv, TypeOK, LoadingHasRequest
  <1>2. ASSUME NEW r \in Requests, ExploreJSON(r) PROVE LoadingInv'
    <2>1. chart' \in Charts /\ chart'.controller = r
      BY <1>0, <1>2, BeginEffect DEF ExploreJSON
    <2>2. PICK first \in {"build", "sent"} : pc' = [pc EXCEPT ![r] = first]
      BY <1>2 DEF ExploreJSON
    <2>3. pc' \in [Requests -> Steps] /\ pc'[r] \in Active
      BY <1>0, <2>2 DEF TypeOK, Steps, Active
    <2>4. timer' \in [Requests -> 0..MaxRequests] /\ used' \in 0..MaxRequests
      BY <1>0, <1>2 DEF ExploreJSON, AbortPrevious, TypeOK, Charts, Requests
    <2>5. UNCHANGED <<aborted, newest>>
      BY <1>2 DEF ExploreJSON
    <2>6. r # 0
      BY DEF Requests
    <2> QED BY <1>0, <1>c, <2>1, <2>3, <2>4, <2>5, <2>6 DEF LoadingInv, TypeOK, LoadingHasRequest
  <1>3. ASSUME NEW r \in Requests, FireAbort(r) PROVE LoadingInv'
    BY <1>0, <1>3, <1>s DEF FireAbort, LoadingInv, TypeOK, LoadingHasRequest, Requests
  <1>4. ASSUME OnStop PROVE LoadingInv'
    BY <1>0, <1>4, <1>s DEF OnStop, LoadingInv, TypeOK, LoadingHasRequest, Requests
  <1>5. ASSUME NEW r \in Requests, NEW to \in Active \union {"hung"}, NEW from,
               Step(r, from, to), UNCHANGED <<chart, used, aborted, timer, newest>>
        PROVE  LoadingInv'
    BY <1>0, <1>5, <1>s DEF Step, LoadingInv, TypeOK, LoadingHasRequest, Steps, Active, Requests
  <1>6. ASSUME NEW r \in Requests, NEW from, Step(r, from, "done"),
               NEW c \in Charts, c.status # "loading", Apply(c),
               UNCHANGED <<used, aborted, timer>>
        PROVE  LoadingInv'
    <2>1. chart' \in Charts /\ chart'.status # "loading"
      BY <1>6 DEF Apply
    <2>2. newest' \in 0..MaxRequests
      BY <1>0, <1>6 DEF Apply, TypeOK, Charts
    <2>3. pc' \in [Requests -> Steps]
      BY <1>0, <1>6 DEF Step, TypeOK, Steps
    <2> QED BY <1>0, <1>6, <1>c, <2>1, <2>2, <2>3 DEF LoadingInv, TypeOK, LoadingHasRequest
  <1>7. \A r \in Requests : Succeeded(chart, r) \in Charts
            /\ Succeeded(chart, r).status # "loading"
    BY <1>0, HandlerTypes DEF Succeeded, Charts
  <1>8. \A b \in BOOLEAN : Failed(chart, b) \in Charts
            /\ Failed(chart, b).status # "loading"
    <2>1. 1 \in Requests
      BY DEF Requests
    <2> QED BY <1>0, <2>1, HandlerTypes, ZenonT(40) DEF Failed, Charts
  <1>9. Stopped(chart) \in Charts /\ Stopped(chart).status # "loading"
    BY <1>0 DEF Stopped, Charts, Statuses
  <1>10. ASSUME NEW r \in Requests,
                Send(r) \/ AnswerJob(r) \/ JobLost(r) \/ BodyLost(r) PROVE LoadingInv'
    BY <1>5, <1>10 DEF Send, AnswerJob, JobLost, BodyLost, Active
  <1>11. ASSUME NEW r \in Requests, AnswerRows(r) \/ JobRows(r) PROVE LoadingInv'
    BY <1>6, <1>7, <1>11 DEF AnswerRows, JobRows
  <1>12. ASSUME NEW r \in Requests, JobFails(r) \/ BodyRead(r) PROVE LoadingInv'
    BY <1>6, <1>8, <1>12 DEF JobFails, BodyRead
  <1>13. ASSUME NEW r \in Requests, FailsAtOnce(r) PROVE LoadingInv'
    BY <1>6, <1>8, <1>13 DEF FailsAtOnce
  <1>14. ASSUME NEW r \in Requests, AbortError(r) PROVE LoadingInv'
    BY <1>6, <1>8, <1>9, <1>14 DEF AbortError
  <1>15. ASSUME NEW r \in Requests, AnswerError(r) PROVE LoadingInv'
    <2>1. CASE Async
      BY <1>6, <1>8, <1>15, <2>1 DEF AnswerError
    <2>2. CASE ~Async
      BY <1>5, <1>15, <2>2 DEF AnswerError, Active
    <2> QED BY <2>1, <2>2
  <1>16. ASSUME RenderSucceeded \/ RenderFailed \/ SetDatasources PROVE LoadingInv'
    BY <1>0, <1>16, <1>s, ZenonT(40) DEF RenderSucceeded, RenderFailed, SetDatasources, Charts,
       LoadingInv, TypeOK, LoadingHasRequest, Statuses
  <1>17. ASSUME RemoveChart \/ HydrateChart PROVE LoadingInv'
    <2>1. chart' \in Charts /\ (chart'.status # "loading" \/ chart'.trigger)
      BY <1>17, FreshEntryTypes DEF RemoveChart, HydrateChart
    <2>2. UNCHANGED <<used, pc, aborted, timer, newest>>
      BY <1>17 DEF RemoveChart, HydrateChart
    <2> QED BY <1>0, <1>c, <2>1, <2>2 DEF LoadingInv, TypeOK, LoadingHasRequest
  <1>18. CASE UNCHANGED vars
    BY <1>0, <1>18 DEF vars, LoadingInv, TypeOK, LoadingHasRequest
  <1> QED
    BY <1>1, <1>2, <1>3, <1>4, <1>10, <1>11, <1>12, <1>13, <1>14, <1>15, <1>16,
       <1>17, <1>18 DEF Next

\* A chart with a spinner has a query to start or an unfinished current request,
\* whatever the interleaving of requests, aborts, stops and removals.
THEOREM LoadingHasRequestAlways == Spec => []LoadingHasRequest
  <1>1. LoadingInv => LoadingHasRequest
    BY DEF LoadingInv
  <1> QED BY <1>1, LoadingInit, LoadingStep, PTL DEF Spec

\* Every variable keeps its type.
THEOREM ChartTypes == Spec => []TypeOK
  <1>1. LoadingInv => TypeOK
    BY DEF LoadingInv
  <1> QED BY <1>1, LoadingInit, LoadingStep, PTL DEF Spec

---------------------------------------------------------------------------
(* FreshData, about a page without GlobalAsyncQueries and an entry that    *)
(* stays.                                                                  *)

InFlight(r) == pc[r] \in {"build", "sent"}

\* The requests form a chain: the entry holds the controller of the youngest,
\* and each one's timer can only hold the controller of the one before.
Chain ==
    /\ chart.controller = used
    /\ \A r \in Requests : r > used => pc[r] = "none" /\ timer[r] = 0
    /\ \A r \in Requests : timer[r] \in {0, r - 1}
    /\ \A r \in Requests : pc[r] # "job"

\* An older request in flight is aborted or about to be, and it is aborted for
\* good once a younger one has shown its rows.
Superseded ==
    /\ \A q \in Requests : q < used /\ InFlight(q) => aborted[q] \/ timer[q + 1] = q
    /\ \A q \in Requests : q < newest /\ InFlight(q) => aborted[q]

FreshInv ==
    /\ TypeOK /\ Chain /\ Superseded
    /\ newest <= used
    /\ Fresh

\* There are no rows at first.
LEMMA FreshInit == Init => FreshInv
  <1> SUFFICES ASSUME Init PROVE FreshInv
    OBVIOUS
  <1>1. TypeOK
    BY LoadingInit DEF LoadingInv
  <1>2. chart.controller = 0 /\ chart.shown = 0
    <2>1. DashboardChart.controller = 0 /\ DashboardChart.shown = 0
      BY DEF DashboardChart
    <2>2. ExploreChart.controller = 0 /\ ExploreChart.shown = 0
      BY <2>1, FreshEntryTypes DEF ExploreChart, Charts
    <2> QED BY <2>1, <2>2 DEF Init
  <1> QED BY <1>1, <1>2 DEF Init, FreshInv, Chain, Superseded, InFlight, Fresh, Requests

\* Every step keeps the rows fresh.
LEMMA FreshStep ==
    ASSUME ~Async, ~Removable, LoadingHasRequest, FreshInv, [Next]_vars
    PROVE  FreshInv'
  <1> USE MaxRequestsAssumption
  <1>0. chart \in Charts /\ TypeOK /\ Chain /\ Superseded /\ newest <= used /\ Fresh
    BY DEF FreshInv, TypeOK, Charts
  <1>t. TypeOK'
    <2>1. LoadingInv
      BY <1>0 DEF LoadingInv
    <2> QED BY <2>1, LoadingStep DEF LoadingInv
  <1>1. ASSUME NEW r \in Requests, ExploreJSON(r) PROVE FreshInv'
    <2>1. /\ chart'.controller = r /\ chart'.shown = chart.shown
          /\ r = used + 1 /\ used' = r
          /\ timer' = [timer EXCEPT ![r] = chart.controller]
          /\ UNCHANGED <<aborted, newest>>
      BY <1>0, <1>1, BeginEffect DEF ExploreJSON, AbortPrevious
    <2>2. PICK first \in {"build", "sent"} : pc' = [pc EXCEPT ![r] = first]
      BY <1>1 DEF ExploreJSON
    <2>3. used \in Nat /\ r \in Nat /\ newest \in Nat /\ MaxRequests \in Nat
      BY <1>0 DEF TypeOK, Requests
    <2>4. Chain'
      BY <1>0, <2>1, <2>2, <2>3 DEF Chain, TypeOK, Requests
    <2>5. ASSUME NEW q \in Requests, q < used', InFlight(q)'
          PROVE  aborted'[q] \/ timer'[q + 1] = q
      <3>1. q # r /\ pc'[q] = pc[q] /\ q \in Nat /\ q + 1 \in Requests
        BY <1>0, <2>1, <2>2, <2>3, <2>5 DEF TypeOK, Requests
      <3>2. CASE q = used
        BY <1>0, <2>1, <2>3, <3>1, <3>2 DEF Chain, TypeOK
      <3>3. CASE q < used
        BY <1>0, <2>1, <2>3, <2>5, <3>1, <3>3 DEF Superseded, InFlight, TypeOK
      <3> QED BY <2>1, <2>3, <2>5, <3>1, <3>2, <3>3
    <2>6. ASSUME NEW q \in Requests, q < newest', InFlight(q)'
          PROVE  aborted'[q]
      <3>1. q # r
        BY <1>0, <2>1, <2>3, <2>6 DEF Requests
      <3>2. pc'[q] = pc[q]
        BY <1>0, <2>2, <3>1 DEF TypeOK
      <3> QED BY <1>0, <2>1, <2>6, <3>2 DEF Superseded, InFlight
    <2> QED BY <1>0, <1>t, <2>1, <2>3, <2>4, <2>5, <2>6 DEF FreshInv, Superseded, Fresh
  <1>2. ASSUME NEW r \in Requests, FireAbort(r) PROVE FreshInv'
    <2>1. /\ timer[r] = r - 1 /\ timer[r] # 0
          /\ aborted' = [aborted EXCEPT ![r - 1] = TRUE]
          /\ timer' = [timer EXCEPT ![r] = 0]
          /\ UNCHANGED <<chart, used, pc, newest>>
      BY <1>0, <1>2 DEF FireAbort, Chain
    <2>2. r \in Nat /\ r - 1 \in Requests
      BY <1>0, <2>1 DEF TypeOK, Requests
    <2>3. Chain'
      BY <1>0, <2>1, <2>2 DEF Chain, TypeOK
    <2>4. Superseded'
      <3>1. \A q \in Requests : aborted[q] => aborted'[q]
        BY <1>0, <2>1 DEF TypeOK
      <3>2. ASSUME NEW q \in Requests, q < used, InFlight(q)
            PROVE  aborted'[q] \/ timer'[q + 1] = q
        <4>1. CASE q = r - 1
          BY <1>0, <2>1, <2>2, <4>1 DEF TypeOK
        <4>2. CASE q # r - 1
          <5>1. q + 1 # r /\ q + 1 \in Requests
            BY <1>0, <2>2, <3>2, <4>2 DEF Requests, TypeOK
          <5>2. timer'[q + 1] = timer[q + 1]
            BY <1>0, <2>1, <5>1 DEF TypeOK
          <5> QED BY <1>0, <3>1, <3>2, <5>2 DEF Superseded
        <4> QED BY <4>1, <4>2
      <3> QED BY <1>0, <2>1, <3>1, <3>2 DEF Superseded, InFlight
    <2> QED BY <1>0, <1>t, <2>1, <2>3, <2>4 DEF FreshInv, Fresh
  <1>3. ASSUME NEW r \in Requests, AnswerRows(r) PROVE FreshInv'
    <2>1. /\ ~aborted[r] /\ pc[r] = "sent"
          /\ \A q \in Requests : q <= r => timer[q] = 0
          /\ pc' = [pc EXCEPT ![r] = "done"]
          /\ chart' = Succeeded(chart, r)
          /\ newest' = IF chart'.shown > newest THEN chart'.shown ELSE newest
          /\ UNCHANGED <<used, aborted, timer>>
      BY <1>3 DEF AnswerRows, Answered, Step, Apply
    <2>2. chart'.shown = r /\ chart'.controller = chart.controller
      BY <1>0, <2>1 DEF Succeeded, Charts
    <2>3. r \in Nat /\ newest \in Nat /\ used \in Nat /\ r <= used
      BY <1>0, <2>1 DEF TypeOK, Chain, Requests
    <2>4. ~(r < newest)
      BY <1>0, <2>1 DEF Superseded, InFlight
    <2>5. newest' = r
      BY <2>1, <2>2, <2>3, <2>4
    <2>6. Chain'
      BY <1>0, <2>1, <2>2 DEF Chain, TypeOK
    <2>7. \A q \in Requests : InFlight(q)' => InFlight(q) /\ q # r
      BY <1>0, <2>1 DEF InFlight, TypeOK
    <2>8. ASSUME NEW q \in Requests, q < r, InFlight(q) PROVE aborted'[q]
      <3>1. q < used /\ q + 1 \in Requests /\ q + 1 <= r /\ q # 0
        BY <2>3, <2>8 DEF Requests
      <3>2. timer[q + 1] # q
        BY <2>1, <3>1
      <3> QED BY <1>0, <2>1, <2>8, <3>1, <3>2 DEF Superseded
    <2>9. Superseded'
      BY <1>0, <2>1, <2>5, <2>7, <2>8 DEF Superseded
    <2> QED BY <1>0, <1>t, <2>1, <2>2, <2>3, <2>5, <2>6, <2>9 DEF FreshInv, Fresh
  \* The other steps show no rows, start nothing and abort at most more.
  <1>4. ASSUME chart'.controller = chart.controller, chart'.shown \in {0, chart.shown},
               UNCHANGED <<used, timer, newest>>,
               \A q \in Requests : aborted[q] => aborted'[q],
               \A q \in Requests : InFlight(q)' => InFlight(q),
               \A q \in Requests : pc[q] = "none" => pc'[q] = "none",
               \A q \in Requests : pc'[q] # "job"
        PROVE  FreshInv'
    <2>1. Chain'
      BY <1>0, <1>4 DEF Chain
    <2>2. Superseded'
      BY <1>0, <1>4 DEF Superseded
    <2> QED BY <1>0, <1>t, <1>4, <2>1, <2>2 DEF FreshInv, Fresh
  <1>5. ASSUME NEW r \in Requests, NEW from \in {"build", "sent", "body", "job"},
               NEW to \in {"sent", "body", "hung", "done"},
               Step(r, from, to), to = "sent" => from = "build"
        PROVE  /\ \A q \in Requests : InFlight(q)' => InFlight(q)
               /\ \A q \in Requests : pc[q] = "none" => pc'[q] = "none"
               /\ \A q \in Requests : pc'[q] # "job"
    BY <1>0, <1>5 DEF Step, InFlight, TypeOK, Chain
  <1>6. \A b \in BOOLEAN : /\ Failed(chart, b).controller = chart.controller
                           /\ Failed(chart, b).shown = 0
    BY <1>0 DEF Failed, Charts
  <1>7. /\ Stopped(chart).controller = chart.controller
        /\ Stopped(chart).shown = chart.shown
    BY <1>0 DEF Stopped, Charts
  <1>8. chart.shown <= newest /\ newest \in Nat /\ chart.shown \in Nat
    BY <1>0 DEF Fresh, TypeOK, Charts
  <1>9. ASSUME NEW r \in Requests, JobFails(r) \/ BodyRead(r) PROVE FreshInv'
    <2>1. PICK b \in BOOLEAN : Apply(Failed(chart, b))
      BY <1>9 DEF JobFails, BodyRead
    <2>2. chart'.controller = chart.controller /\ chart'.shown = 0 /\ newest' = newest
      BY <1>6, <1>8, <2>1 DEF Apply
    <2>3. Step(r, "job", "done") \/ Step(r, "body", "done")
      BY <1>9 DEF JobFails, BodyRead
    <2> QED BY <1>4, <1>5, <1>9, <2>2, <2>3 DEF JobFails, BodyRead
  <1>10. ASSUME NEW r \in Requests, FailsAtOnce(r) PROVE FreshInv'
    <2>1. chart'.controller = chart.controller /\ chart'.shown = 0 /\ newest' = newest
      <3>1. Failed(chart, FALSE).controller = chart.controller /\ Failed(chart, FALSE).shown = 0
        BY <1>6
      <3>2. chart' = Failed(chart, FALSE)
        BY <1>10 DEF Apply, FailsAtOnce
      <3>3. newest' = IF chart'.shown > newest THEN chart'.shown ELSE newest
        BY <1>10 DEF Apply, FailsAtOnce
      <3>4. chart'.controller = chart.controller /\ chart'.shown = 0
        BY <3>1, <3>2
      <3>5. ~(0 > newest)
        BY <1>8
      <3> QED BY <3>3, <3>4, <3>5
    <2>2. Step(r, "build", "done") \/ Step(r, "sent", "done")
      BY <1>10 DEF FailsAtOnce
    <2> QED BY <1>4, <1>5, <1>10, <2>1, <2>2 DEF FailsAtOnce
  <1>11. ASSUME NEW r \in Requests, AbortError(r) PROVE FreshInv'
    <2>1. chart' = Stopped(chart) /\ newest' = newest
      BY <1>7, <1>8, <1>11 DEF Apply, AbortError
    <2> QED BY <1>4, <1>5, <1>7, <1>11, <2>1 DEF AbortError
  <1>12. ASSUME NEW r \in Requests, AnswerError(r) PROVE FreshInv'
    BY <1>4, <1>5, <1>12 DEF AnswerError
  <1>13. ASSUME NEW r \in Requests, Send(r) \/ BodyLost(r) PROVE FreshInv'
    BY <1>4, <1>5, <1>13 DEF Send, BodyLost
  <1>14. ASSUME NEW r \in Requests, AnswerJob(r) \/ JobRows(r) \/ JobLost(r) PROVE FreshInv'
    BY <1>0, <1>14 DEF AnswerJob, JobRows, JobLost, Step, Chain
  <1>15. CASE OnStop
    BY <1>0, <1>4, <1>15 DEF OnStop, InFlight, TypeOK, Chain
  <1>16. ASSUME TriggerQuery \/ RenderSucceeded \/ RenderFailed \/ SetDatasources
         PROVE  FreshInv'
    <2>1. chart'.controller = chart.controller /\ chart'.shown = chart.shown
      <3>1. CASE TriggerQuery
        BY <1>0, <3>1 DEF TriggerQuery, Triggered, Charts
      <3>2. CASE RenderSucceeded
        BY <1>0, <3>2 DEF RenderSucceeded, Charts
      <3>3. CASE RenderFailed
        BY <1>0, <3>3 DEF RenderFailed, Charts
      <3>4. CASE SetDatasources
        BY <1>0, <3>4 DEF SetDatasources, Charts
      <3> QED BY <1>16, <3>1, <3>2, <3>3, <3>4
    <2>2. UNCHANGED <<used, pc, aborted, timer, newest>>
      BY <1>16 DEF TriggerQuery, RenderSucceeded, RenderFailed, SetDatasources
    <2> QED BY <1>0, <1>4, <2>1, <2>2 DEF InFlight, Chain
  <1>17. CASE UNCHANGED vars
    BY <1>0, <1>4, <1>17 DEF vars, InFlight, Chain
  <1> QED
    BY <1>1, <1>2, <1>3, <1>9, <1>10, <1>11, <1>12, <1>13, <1>14, <1>15, <1>16,
       <1>17 DEF Next, RemoveChart, HydrateChart

\* On a page without GlobalAsyncQueries, the rows of an entry that stays are never
\* replaced by those of an older request: exploreJSON aborts the request it
\* supersedes, and the timer that does so fires before the new request can be
\* answered.
THEOREM FreshDataAlways == Spec => []FreshData
  <1> DEFINE Guarded == ~Async /\ ~Removable => FreshInv
  <1>1. Init => Guarded
    BY FreshInit
  <1>2. LoadingInv /\ Guarded /\ [Next]_vars => Guarded'
    <2> SUFFICES ASSUME LoadingInv, Guarded, [Next]_vars, ~Async', ~Removable'
                 PROVE  FreshInv'
      OBVIOUS
    <2>1. setup' = setup
      BY DEF Next, vars
    <2>2. ~Async /\ ~Removable
      BY <2>1 DEF Async, Removable
    <2> QED BY <2>2, FreshStep DEF LoadingInv
  <1>3. Guarded => FreshData
    BY DEF FreshInv, FreshData
  <1> QED BY <1>1, <1>2, <1>3, LoadingInit, LoadingStep, PTL DEF Spec

=============================================================================
