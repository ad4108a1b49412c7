--------------------------- MODULE EvaluationProofs ---------------------------
(***************************************************************************)
(* For any ETFs, decisions of the strategy, limits and coverage.           *)
(***************************************************************************)
EXTENDS Evaluation, TLAPS

(* A plan is that of the present evidence, as UpToDate says of the stored  *)
(* one.                                                                    *)
Current(p) ==
  /\ DOMAIN p.rows = Tracked
  /\ \A s \in Tracked : p.rows[s] = Row(s, stale) \/ (s \in stale /\ p.rows[s].quote = quote[s])
  /\ p.targets = SelectTargets(p.rows)

(* What the worker knows of, and what its calculation knows: as long as no *)
(* change was noticed, one that is asked for has seen the latest quotes,   *)
(* one that has ended has a current plan, and one that is gone has left    *)
(* it.  Nothing but ageing then happens to the quotes.                     *)
Typed ==
  /\ noted \in BOOLEAN /\ quote \in [Etfs -> Nat]
  /\ watched \subseteq Etfs /\ held \subseteq Etfs /\ ordered \subseteq Etfs
Jobs ==
  /\ future = NoJob \/ future.state \in {"queued", "done", "void", "failed"}
  /\ future.state = "done" => "plan" \in DOMAIN future /\ {"late", "rows"} \subseteq DOMAIN future.plan
  /\ late # NoJob /\ late.state = "done" => late.plan.late
Known ==
  /\ noted /\ future.state = "queued" => future.quote = quote /\ future.stale \subseteq stale
  /\ noted /\ future.state = "done" => Current(future.plan)
  /\ noted => future.state # "void"
  /\ noted /\ future = NoJob /\ ~stored.late => Current(stored)
FollowInv == Typed /\ Jobs /\ Known

(* What has become too old only since its decision leaves it in force.     *)
LEMMA AgedPlan ==
  ASSUME Typed, NEW S, S \subseteq stale
  PROVE  Current(Plan(S))
<1> DEFINE p == Plan(S)
<1>1. /\ DOMAIN p.rows = Tracked /\ p.targets = SelectTargets(p.rows)
      /\ \A s \in Tracked : p.rows[s] = Row(s, S)
  BY Zenon DEF Plan
<1>2. ASSUME NEW s \in Tracked
      PROVE  p.rows[s] = Row(s, stale) \/ (s \in stale /\ p.rows[s].quote = quote[s])
  <2>1. p.rows[s] = Row(s, S)
    BY <1>1
  <2>2. CASE s \in complete /\ quote[s] > 0 /\ s \notin S /\ s \in stale
    BY <2>1, <2>2 DEF Row
  <2>3. CASE ~(s \in complete /\ quote[s] > 0 /\ s \notin S /\ s \in stale)
    <3>1. Row(s, S) = Row(s, stale)
      BY <2>3 DEF Row
    <3> QED
      BY <2>1, <3>1
  <2> QED
    BY <2>2, <2>3
<1> QED
  BY <1>1, <1>2 DEF Current

LEMMA FollowInvHolds == Spec => []FollowInv
<1>1. InitDay => FollowInv
  <2> SUFFICES ASSUME InitDay PROVE FollowInv
    OBVIOUS
  <2>1. Typed /\ noted = FALSE
    BY TargetsAssumption DEF InitDay, Init, Typed
  <2>2. Jobs
    BY DEF InitDay, Init, Jobs, NoJob
  <2> QED
    BY <2>1, <2>2 DEF FollowInv, Known
<1>2. FollowInv /\ [Next]_vars => FollowInv'
  <2> SUFFICES ASSUME FollowInv, [Next]_vars PROVE FollowInv'
    OBVIOUS
  <2> USE DEF FollowInv
  (* A step that is noticed leaves nothing to be known. *)
  <2>1. ASSUME noted' = FALSE, Typed', Jobs' PROVE FollowInv'
    BY <2>1 DEF Known
  (* One that touches neither evidence nor plans. *)
  <2>2. ASSUME UNCHANGED <<evidence, stale, noted, future, stored>>, late' = late \/ late' = NoJob
        PROVE  FollowInv'
    <3>1. Typed' /\ Jobs'
      BY <2>2 DEF evidence, Typed, Jobs
    <3>2. ASSUME NEW p, Current(p) PROVE Current(p)'
      BY <2>2, <3>2 DEF evidence, Current, Tracked, Row, SelectTargets, Eligible, Ahead
    <3>3. Known'
      BY <2>2, <3>2 DEF evidence, Known
    <3> QED
      BY <3>1, <3>3
  <2>3. CASE LiveStep
    <3>1. ASSUME NEW s \in Etfs, NewQuote(s) \/ NewBars(s) \/ Fill(s) \/ Expire(s) \/ StopOut(s)
          PROVE  FollowInv'
      <4>1. noted' = FALSE /\ UNCHANGED <<future, late, watched>>
        BY <3>1 DEF NewQuote, NewBars, Fill, Expire, StopOut
      <4>2. quote' \in [Etfs -> Nat] /\ held' \subseteq Etfs /\ ordered' \subseteq Etfs
        BY <3>1 DEF NewQuote, NewBars, Fill, Expire, StopOut, Typed
      <4> QED
        BY <2>1, <4>1, <4>2 DEF Typed, Jobs
    <3>2. ASSUME NEW s \in Etfs, Age(s) PROVE FollowInv'
      <4>1. UNCHANGED <<evidence, worker, late, stored>> /\ stale' = stale \cup {s}
        BY <3>2 DEF Age
      <4>2. quote[s] > 0 /\ s \notin stale
        BY <3>2 DEF Age
      <4>3. ASSUME NEW p, Current(p) PROVE Current(p)'
        <5>1. Tracked' = Tracked /\ SelectTargets(p.rows)' = SelectTargets(p.rows)
          BY <4>1 DEF evidence, Tracked, SelectTargets, Eligible, Ahead
        <5>2. ASSUME NEW t \in Tracked
              PROVE  p.rows[t] = Row(t, stale)' \/ (t \in stale' /\ p.rows[t].quote = quote[t])
          <6>1. CASE t # s
            <7>1. Row(t, stale)' = Row(t, stale)
              BY <4>1, <6>1 DEF evidence, Row
            <7> QED
              BY <4>1, <4>3, <7>1 DEF Current
          <6>2. CASE t = s /\ s \in complete
            <7>1. p.rows[s] = Row(s, stale)
              BY <4>2, <4>3, <5>2, <6>2 DEF Current
            <7> QED
              BY <4>1, <4>2, <6>2, <7>1 DEF Row
          <6>3. CASE t = s /\ s \notin complete
            <7>1. Row(s, stale)' = Row(s, stale)
              BY <4>1, <6>3 DEF evidence, Row
            <7> QED
              BY <4>1, <4>3, <5>2, <6>3, <7>1 DEF Current
          <6> QED
            BY <6>1, <6>2, <6>3
        <5> QED
          BY <4>1, <4>3, <5>1, <5>2 DEF evidence, Current
      <4> QED
        BY <4>1, <4>3 DEF evidence, worker, Typed, Jobs, Known
    <3>3. CASE CollectTargets
      <4>1. CASE future.state = "done"
        <5>1. future' = NoJob /\ stored' = future.plan /\ noted' = noted
          BY <3>3, <4>1 DEF CollectTargets
        <5>2. noted => Current(future.plan)
          BY <4>1 DEF Known
        <5>3. noted => Current(stored)'
          <6>1. PICK p : p = future.plan
            OBVIOUS
          <6>2. noted => Current(p)
            BY <5>2, <6>1 DEF Current
          <6>3. noted => Current(p)'
            BY <3>3, <6>2
            DEF CollectTargets, evidence, Current, Tracked, Row, SelectTargets, Eligible, Ahead
          <6> QED
            BY <5>1, <6>1, <6>3 DEF Current
        <5>4. Typed' /\ Jobs'
          BY <3>3, <5>1 DEF CollectTargets, evidence, Typed, Jobs, NoJob
        <5> QED
          BY <5>1, <5>3, <5>4 DEF Known, NoJob
      <4>2. CASE future.state \in {"void", "failed"}
        <5>1. noted' = FALSE
          BY <3>3, <4>2 DEF CollectTargets, Forgotten, Known, Typed
        <5>2. Typed' /\ Jobs'
          BY <3>3, <5>1 DEF CollectTargets, evidence, Typed, Jobs, NoJob
        <5> QED
          BY <2>1, <5>1, <5>2
      <4> QED
        BY <3>3, <4>1, <4>2 DEF CollectTargets
    <3>4. CASE Dispatch
      <4>1. future' = [state |-> "queued", quote |-> quote, stale |-> stale] /\ noted' = TRUE
        BY <3>4 DEF Dispatch
      <4>2. UNCHANGED <<quote, stale, watched, held, ordered, late>>
        BY <3>4 DEF Dispatch, evidence
      <4> QED
        BY <4>1, <4>2 DEF Typed, Jobs, Known, NoJob
    <3>5. CASE Calculate
      <4>1. PICK p \in Plans(future) : future' = [state |-> "done", plan |-> p]
        BY <3>5 DEF Calculate
      <4>2. PICK S : p = Plan(S) /\ (future.quote = quote => S = future.stale)
        BY <4>1 DEF Plans
      <4>3. future.state = "queued" /\ UNCHANGED <<evidence, stale, noted, late, stored>>
        BY <3>5 DEF Calculate
      <4>4. noted => Current(p)
        BY <4>2, <4>3, AgedPlan DEF Known
      <4>5. noted => Current(p)'
        BY <4>3, <4>4 DEF evidence, Current, Tracked, Row, SelectTargets, Eligible, Ahead
      <4>6. {"late", "rows"} \subseteq DOMAIN p
        BY <4>2 DEF Plan
      <4> QED
        BY <4>1, <4>3, <4>5, <4>6 DEF evidence, Typed, Jobs, Known, NoJob
    <3>6. CASE FailToCalculate
      <4>1. future' = [state |-> "failed"] /\ UNCHANGED <<evidence, noted, late>>
        BY <3>6 DEF FailToCalculate
      <4> QED
        BY <4>1 DEF evidence, Typed, Jobs, Known, NoJob
    <3>7. CASE CollectLate
      <4>1. CASE late.state = "done"
        <5>1. stored' = late.plan /\ stored'.late /\ late' = NoJob
          BY <3>7, <4>1 DEF CollectLate, Jobs
        <5>2. UNCHANGED <<evidence, stale, noted, future>>
          BY <3>7 DEF CollectLate, worker
        <5>3. ASSUME NEW p, Current(p) PROVE Current(p)'
          BY <5>2, <5>3 DEF evidence, Current, Tracked, Row, SelectTargets, Eligible, Ahead
        <5>4. Typed' /\ Jobs'
          BY <5>1, <5>2 DEF evidence, Typed, Jobs, NoJob
        <5> QED
          BY <5>1, <5>2, <5>3, <5>4 DEF evidence, Known
      <4>2. CASE late.state # "done"
        BY <2>2, <3>7, <4>2 DEF CollectLate, worker
      <4> QED
        BY <4>1, <4>2
    <3>8. CASE DecideOrders
      <4>1. CASE ordered' = ordered
        <5>1. noted' = noted /\ UNCHANGED <<evidence, stale, retry, future, late, stored>>
          BY <3>8, <4>1 DEF DecideOrders, Typed, evidence
        <5> QED
          BY <2>2, <5>1 DEF evidence
      <4>2. CASE ordered' # ordered
        <5>1. noted' = FALSE /\ UNCHANGED <<watched, held, quote, future, late>>
          BY <3>8, <4>2 DEF DecideOrders
        <5>2. ordered' \subseteq Etfs
          BY <3>8 DEF DecideOrders, Typed
        <5> QED
          BY <2>1, <5>1, <5>2 DEF Typed, Jobs
      <4> QED
        BY <4>1, <4>2
    <3>9. CASE NoDispatch \/ DecideNothing
      BY <2>2, <3>9 DEF NoDispatch, DecideNothing, worker
    <3>10. CASE RetryTime
      BY <2>2, <3>10 DEF RetryTime
    <3> QED
      BY <2>3, <3>1, <3>2, <3>3, <3>4, <3>5, <3>6, <3>7, <3>8, <3>9, <3>10
      DEF LiveStep, LiveNext, LiveTick
  <2>4. CASE Close
    <3>1. noted' = FALSE /\ future' = NoJob /\ late' = NoJob /\ UNCHANGED <<watched, held>>
      BY <2>4 DEF Close
    <3>2. quote' \in [Etfs -> Nat] /\ ordered' = {}
      BY <2>4 DEF Close
    <3> QED
      BY <2>1, <3>1, <3>2 DEF Typed, Jobs, NoJob
  <2>5. ASSUME Invalidate, ordered' = {}, watched' \subseteq Etfs PROVE FollowInv'
    <3>1. Voided(future).state # "done" /\ Voided(late).state # "done"
      BY DEF Voided
    <3>2. future' = NoJob \/ future'.state \in {"queued", "void", "failed"}
      BY <2>5 DEF Invalidate, Voided, Jobs
    <3>3. noted' = FALSE /\ UNCHANGED <<quote, held>>
      BY <2>5 DEF Invalidate
    <3> QED
      BY <2>1, <2>5, <3>1, <3>2, <3>3 DEF Invalidate, Typed, Jobs
  <2>6. CASE Configure
    BY <2>5, <2>6 DEF Configure, ChangeConfig, Typed
  <2>7. ASSUME NEW s \in Etfs, Repool(s) PROVE FollowInv'
    <3>1. watched' \subseteq Etfs
      BY <2>7 DEF Repool, ChangePool, Typed
    <3> QED
      BY <2>5, <2>7, <3>1 DEF Repool, ChangePool
  <2>8. CASE Restart
    <3>1. noted' = FALSE /\ future' = NoJob /\ UNCHANGED evidence
      BY <2>8 DEF Restart, TakeOver
    <3>2. late' # NoJob => late'.plan.late
      <4>1. CASE future.state = "queued"
        <5>1. ASSUME NEW p \in Plans(future) PROVE [p EXCEPT !.late = TRUE].late
          BY DEF Plans, Plan
        <5>2. late' = NoJob \/ \E p \in Plans(future) :
                late' = [state |-> "done", plan |-> [p EXCEPT !.late = TRUE]]
          BY <2>8, <4>1 DEF Restart, TakeOver
        <5>3. CASE late' # NoJob
          <6>1. PICK p \in Plans(future) : late' = [state |-> "done", plan |-> [p EXCEPT !.late = TRUE]]
            BY <5>2, <5>3
          <6>2. [p EXCEPT !.late = TRUE].late
            BY <5>1, <6>1
          <6>3. late'.plan = [p EXCEPT !.late = TRUE]
            BY <6>1
          <6> QED
            BY <6>2, <6>3
        <5> QED
          BY <5>3
      <4>2. CASE future.state = "done"
        <5>1. [future EXCEPT !.plan.late = TRUE].plan.late
          BY <4>2 DEF Jobs
        <5> QED
          BY <2>8, <4>2, <5>1 DEF Restart, TakeOver
      <4>3. CASE future.state \notin {"queued", "done"}
        BY <2>8, <4>3 DEF Restart, TakeOver
      <4> QED
        BY <4>1, <4>2, <4>3
    <3> QED
      BY <2>1, <3>1, <3>2 DEF evidence, Typed, Jobs, NoJob
  <2>9. ASSUME NEW s \in Etfs, BarsArrive(s) PROVE FollowInv'
    <3>1. noted' = FALSE /\ UNCHANGED <<quote, watched, held, ordered, future, late>>
      BY <2>9 DEF BarsArrive, NewBars
    <3> QED
      BY <2>1, <3>1 DEF Typed, Jobs
  <2>10. CASE UpdateReadiness \/ FreezePlan \/ SkipPlan \/ ScheduleReviews
    BY <2>2, <2>10 DEF UpdateReadiness, FreezePlan, SkipPlan, ScheduleReviews, worker
  <2>11. ASSUME NEW s \in Etfs, CollectReview(s) \/ Review(s) \/ FailToReview(s) \/ EndRest(s)
         PROVE  FollowInv'
    BY <2>2, <2>11 DEF CollectReview, Review, FailToReview, EndRest, liveVars, worker
  <2>12. CASE UNCHANGED vars
    BY <2>2, <2>12 DEF vars, liveVars, worker
  <2> QED
    BY <2>3, <2>4, <2>6, <2>7, <2>8, <2>9, <2>10, <2>11, <2>12 DEF Next
<1> QED
  BY <1>1, <1>2, PTL DEF Spec

(* docs/price-action-strategy.md: no change is lost that comes while the   *)
(* targets are being calculated (schedule_targets).                        *)
THEOREM ChangesAreFollowedUp == Spec => []FollowUp
<1>1. FollowInv => FollowUp
  BY DEF FollowInv, Known, Current, FollowUp, UpToDate
<1> QED
  BY <1>1, FollowInvHolds, PTL

(* What the evening's plan is frozen from.  Nothing is held or ordered but *)
(* what was at the close; the day counts as ready, until the list changes, *)
(* only if it is; and a plan is of the data it was judged by, or of more.  *)
EveningInv ==
  /\ session => plan = Unplanned /\ pc \in {"collect", "decide"}
  /\ ~session => ordered = {}
  /\ pc = "plan" /\ readiness = "ready" => Ready
  /\ PlanComplete

LEMMA EveningInvHolds == Spec => []EveningInv
<1>1. InitDay => EveningInv
  BY DEF InitDay, Init, EveningInv, PlanComplete
<1>2. EveningInv /\ [Next]_vars => EveningInv'
  <2> SUFFICES ASSUME EveningInv, [Next]_vars PROVE EveningInv'
    OBVIOUS
  <2> USE DEF EveningInv, PlanComplete
  <2>1. ASSUME UNCHANGED <<session, plan>>, session, pc' \in {"collect", "decide"}
        PROVE  EveningInv'
    BY <2>1
  <2>2. CASE LiveStep
    <3>1. session /\ UNCHANGED <<session, plan>>
      BY <2>2 DEF LiveStep, dayVars
    <3>2. pc' = pc \/ pc' \in {"collect", "decide"}
      BY <2>2 DEF LiveStep, LiveNext, LiveTick, CollectTargets, Dispatch, NoDispatch,
                  DecideOrders, DecideNothing, Calculate, FailToCalculate, CollectLate,
                  RetryTime, NewQuote, NewBars, Fill, Expire, StopOut, Age
    <3> QED
      BY <2>1, <3>1, <3>2
  <2>3. CASE Close
    BY <2>3 DEF Close, dayVars
  <2>4. CASE UpdateReadiness
    <3>1. readiness' = "ready" => Ready
      BY <2>4 DEF UpdateReadiness
    <3>2. UNCHANGED <<session, plan, evidence>> /\ ~session
      BY <2>4 DEF UpdateReadiness
    <3> QED
      BY <3>1, <3>2 DEF evidence, Ready, Tracked
  <2>5. CASE FreezePlan
    <3>1. Covered(Tracked, complete \cap Tracked) /\ held \subseteq complete
      BY <2>5 DEF FreezePlan, Ready
    <3>2. plan'.of = Tracked /\ plan'.with = complete \cap Tracked /\ held \subseteq Tracked
      BY <2>5 DEF FreezePlan, Tracked
    <3>3. Covered(plan'.of, plan'.with) /\ held \subseteq plan'.with
      BY <3>1, <3>2
    <3>4. UNCHANGED <<session, held, ordered>> /\ pc' = "reviews" /\ ~session
      BY <2>5 DEF FreezePlan, evidence
    <3> QED
      BY <3>3, <3>4 DEF Covered
  <2>6. ASSUME ~session, UNCHANGED <<session, plan, held, ordered>>, pc' # "plan"
        PROVE  EveningInv'
    BY <2>6 DEF Covered
  <2>7. CASE SkipPlan \/ ScheduleReviews
    <3>1. ~session /\ pc' # "plan"
      BY <2>7 DEF SkipPlan, ScheduleReviews
    <3> QED
      BY <2>6, <2>7, <3>1 DEF SkipPlan, ScheduleReviews, dayVars, evidence
  <2>8. CASE Configure
    <3>1. plan' = Unplanned /\ ordered' = {} /\ Tracked' \subseteq Tracked
      BY <2>8 DEF Configure, ChangeConfig, Invalidate, Tracked
    <3>2. UNCHANGED <<session, pc, readiness, complete, held, watched>>
      BY <2>8 DEF Configure, ChangeConfig, Invalidate
    <3>3. pc = "plan" => UNCHANGED Tracked
      BY <3>1, <3>2 DEF Tracked
    <3> QED
      BY <3>1, <3>2, <3>3 DEF Ready, Covered
  <2>9. ASSUME NEW s \in Etfs, Repool(s) PROVE EveningInv'
    BY <2>9 DEF Repool, ChangePool, Invalidate, ReadinessOfPool
  <2>10. CASE Restart
    BY <2>10 DEF Restart, TakeOver, evidence, Covered
  <2>11. ASSUME NEW s \in Etfs, BarsArrive(s) PROVE EveningInv'
    BY <2>6, <2>11 DEF BarsArrive, NewBars, dayVars
  <2>12. ASSUME UNCHANGED <<session, plan, readiness, pc, evidence>> PROVE EveningInv'
    BY <2>12 DEF evidence, Ready, Tracked, Covered
  <2>13. ASSUME NEW s \in Etfs, CollectReview(s) \/ Review(s) \/ FailToReview(s) \/ EndRest(s)
         PROVE  EveningInv'
    BY <2>12, <2>13 DEF CollectReview, Review, FailToReview, EndRest, liveVars
  <2>14. CASE UNCHANGED vars
    BY <2>12, <2>14 DEF vars, liveVars, dayVars
  <2> QED
    BY <2>2, <2>3, <2>4, <2>5, <2>7, <2>8, <2>9, <2>10, <2>11, <2>13, <2>14 DEF Next
<1> QED
  BY <1>1, <1>2, PTL DEF Spec

(* app/automation/service.py: no plan is frozen from less than the         *)
(* configuration requires, nor without an ETF that is held (Worker.plan).  *)
THEOREM PlansAreComplete == Spec => []PlanComplete
<1>1. EveningInv => PlanComplete
  BY DEF EveningInv
<1> QED
  BY <1>1, EveningInvHolds, PTL

----------------------------------------------------------------------------
(* No purchase on an old decision, for any number of confirmations.        *)

Acts == {"buy", "hold", "exit", "none"}
RowType == [quote : Nat, act : Acts, rr : Nat]
SignType == [quote : Nat, act : Acts, selected : BOOLEAN, count : Nat]
SeenType == {e \in [quote : Nat, n : Nat] : e.quote > 0 => e.n > 0}

(* What a plan says of a quote is what was decided on that quote, and it   *)
(* says nothing where no bars were.                                        *)
TrueRow(s, r) ==
  /\ r \in RowType /\ r.quote <= quote[s]
  /\ r.act = "buy" => r.quote > 0
  /\ r.quote > 0 => s \in complete
  /\ r.quote > 0 /\ r.quote = quote[s] => r.act = decided[s].act
TruePlan(p) == \A s \in DOMAIN p.rows : s \in Etfs /\ TrueRow(s, p.rows[s])

Decided ==
  /\ quote \in [Etfs -> Nat] /\ decided \in [Etfs -> [act : Acts, rr : Nat]]
  /\ confirmed \in [Etfs -> SignType] /\ seen \in [Etfs -> SeenType]
PlansTrue ==
  /\ TruePlan(stored)
  /\ future.state = "done" => TruePlan(future.plan)
  /\ late.state = "done" => TruePlan(late.plan)

(* A count of favourable observations is of quotes that ticks have seen,   *)
(* and the one that is seen but not yet decided on is not among them.      *)
CountTrue(c, e) ==
  c.act = "buy" /\ c.count > 0 =>
    e.n >= Capped(IF e.quote > c.quote THEN c.count + 1 ELSE c.count)
CountsTrue == \A s \in Etfs : CountTrue(confirmed[s], seen[s])
EntryInv == Decided /\ PlansTrue /\ CountsTrue

(* What one tick makes of one ETF of the plan.                             *)
LEMMA Observed ==
  ASSUME EntryInv, FollowInv, NEW s \in DOMAIN stored.rows, NEW paused \in BOOLEAN
  PROVE  /\ Observe(s, paused) \in SignType /\ Seen(s) \in SeenType
         /\ CountTrue(Observe(s, paused), Seen(s))
<1> USE DEF EntryInv, Decided
<1>1. s \in Etfs /\ TrueRow(s, stored.rows[s])
  BY DEF PlansTrue, TruePlan
<1>2. confirmed[s] \in SignType /\ seen[s] \in SeenType /\ quote[s] \in Nat
  BY <1>1
<1>3. Confirmations \in Nat \ {0}
  BY TargetsAssumption
<1>4. Confirm(s, paused) \in SignType
  <2>1. Signed(s).quote \in Nat /\ Signed(s).act \in Acts /\ Signed(s).selected \in BOOLEAN
    BY <1>1 DEF Signed, TrueRow, RowType
  <2> QED
    BY <1>2, <1>3, <2>1 DEF Confirm, SignType, Capped
<1>5. Observe(s, paused) \in SignType
  BY <1>2, <1>4 DEF Observe, SignType
<1>6. Seen(s) \in SeenType
  <2>1. CASE Seen(s) \in {Unseen, seen[s]}
    BY <1>2, <2>1 DEF SeenType, Unseen
  <2>2. CASE Seen(s) = [quote |-> quote[s],
                        n |-> IF seen[s].quote = quote[s] THEN seen[s].n ELSE Capped(seen[s].n + 1)]
    BY <1>2, <1>3, <2>2 DEF SeenType, Capped
  <2> QED
    BY <2>1, <2>2 DEF Seen
<1>7. CountTrue(Observe(s, paused), Seen(s))
  <2>1. CASE Evaluated(s) /\ stored.rows[s].act = "buy" /\ s \notin stale
    <3>1. Favourable(s) /\ stored.rows[s].quote = quote[s]
      BY <1>1, <2>1 DEF Favourable, Evaluated, TrueRow
    <3>2. Seen(s) = [quote |-> quote[s],
                     n |-> IF seen[s].quote = quote[s] THEN seen[s].n ELSE Capped(seen[s].n + 1)]
      BY <2>1, <3>1 DEF Seen, Judged
    <3> DEFINE old == confirmed[s]
               k == IF old.act = "buy" /\ quote[s] >= old.quote /\ old.quote > 0 /\ ~paused
                       /\ old.selected = (s \in stored.targets)
                    THEN IF quote[s] > old.quote THEN old.count + 1 ELSE old.count
                    ELSE 1
    <3>3. Observe(s, paused).quote = quote[s] /\ Observe(s, paused).count = Capped(k)
      BY <1>2, <2>1, <3>1 DEF Observe, Confirm, Signed, Evaluated
    <3>4. quote[s] \in Nat /\ old.quote \in Nat /\ old.count \in Nat
          /\ seen[s].quote \in Nat /\ seen[s].n \in Nat
          /\ quote[s] > 0 /\ (seen[s].quote > 0 => seen[s].n > 0)
      BY <1>2, <3>1 DEF SignType, SeenType, Favourable
    <3>5. CountTrue(old, seen[s])
      BY <1>1 DEF CountsTrue
    <3>6. Seen(s).quote = quote[s] /\ (Seen(s).n = seen[s].n \/ Seen(s).n = Capped(seen[s].n + 1))
          /\ (seen[s].quote # quote[s] => Seen(s).n = Capped(seen[s].n + 1))
      BY <3>2
    <3>7. k > 0 => Seen(s).n >= Capped(k)
      BY <1>3, <3>4, <3>5, <3>6 DEF CountTrue, Capped
    <3>8. Capped(k) > 0 => k > 0
      BY <1>3, <3>4 DEF Capped
    <3>9. Capped(Capped(k)) = Capped(k)
      BY <1>3, <3>4 DEF Capped
    <3>10. ~(Seen(s).quote > Observe(s, paused).quote)
      BY <3>3, <3>4, <3>6
    <3> HIDE DEF k
    <3> QED
      BY <3>3, <3>7, <3>8, <3>9, <3>10 DEF CountTrue
  <2>2. CASE Evaluated(s) /\ (stored.rows[s].act # "buy" \/ s \in stale)
    BY <1>3, <2>2 DEF Observe, Confirm, Signed, CountTrue, Capped
  <2>3. CASE ~Evaluated(s) /\ Observe(s, paused).count = 0
    BY <2>3 DEF CountTrue
  <2>4. CASE ~Evaluated(s) /\ Observe(s, paused) = confirmed[s] /\ ~Adverse(s)
    <3>1. s \notin stale /\ (stored.rows[s].act = "buy" => decided[s].act = "buy")
      BY <2>4 DEF Adverse
    <3>2. CASE stored.rows[s].act = "buy"
      <4>1. Favourable(s)
        BY <1>1, <1>2, <3>1, <3>2 DEF Favourable, TrueRow, RowType
      <4>2. Seen(s) = [quote |-> quote[s],
                       n |-> IF seen[s].quote = quote[s] THEN seen[s].n ELSE Capped(seen[s].n + 1)]
        BY <3>2, <4>1 DEF Seen, Judged
      <4> QED
        BY <1>1, <1>2, <1>3, <2>4, <4>2 DEF CountsTrue, CountTrue, Capped, SignType, SeenType
    <3>3. CASE stored.rows[s].act # "buy"
      <4>1. Seen(s) = seen[s]
        BY <2>4, <3>1, <3>3 DEF Seen, Judged
      <4> QED
        BY <1>1, <2>4, <4>1 DEF CountsTrue
    <3> QED
      BY <3>2, <3>3
  <2> QED
    BY <1>2, <1>4, <2>1, <2>2, <2>3, <2>4 DEF Observe, SignType
<1> QED
  BY <1>5, <1>6, <1>7

(* A plan remains true when evidence changes, and one that is made is.     *)
LEMMA PlanStaysTrue ==
  ASSUME Decided, Decided', NEW p, TruePlan(p), complete \subseteq complete',
         \A s \in Etfs : \/ quote'[s] = quote[s] /\ decided'[s] = decided[s]
                         \/ quote'[s] > quote[s]
  PROVE  TruePlan(p)'
<1> SUFFICES ASSUME NEW s \in DOMAIN p.rows PROVE s \in Etfs /\ TrueRow(s, p.rows[s])'
  BY DEF TruePlan
<1>1. s \in Etfs /\ TrueRow(s, p.rows[s])
  BY DEF TruePlan
<1>2. quote[s] \in Nat /\ quote'[s] \in Nat
  BY <1>1 DEF Decided
<1> QED
  BY <1>1, <1>2 DEF TrueRow, RowType

LEMMA PlansAreTrue ==
  ASSUME Decided, Typed, NEW unfit
  PROVE  TruePlan(Plan(unfit))
<1>1. DOMAIN Plan(unfit).rows = Tracked /\ \A s \in Tracked : Plan(unfit).rows[s] = Row(s, unfit)
  BY Zenon DEF Plan
<1>2. ASSUME NEW s \in Tracked PROVE s \in Etfs /\ TrueRow(s, Row(s, unfit))
  <2>1. s \in Etfs
    BY DEF Typed, Tracked
  <2>2. quote[s] \in Nat /\ decided[s].act \in Acts /\ decided[s].rr \in Nat
    BY <2>1 DEF Decided
  <2> QED
    BY <2>1, <2>2 DEF Row, TrueRow, RowType, Acts
<1> QED
  BY <1>1, <1>2 DEF TruePlan

LEMMA EntryInvHolds == Spec => []EntryInv
<1>1. InitDay => EntryInv
  <2> SUFFICES ASSUME InitDay PROVE EntryInv
    OBVIOUS
  <2>1. Decided
    BY DEF InitDay, Init, Decided, Acts, NoSign, SignType, Unseen, SeenType
  <2>2. PlansTrue
    BY DEF InitDay, Init, PlansTrue, TruePlan, NoPlan, NoJob
  <2>3. CountsTrue
    BY DEF InitDay, Init, CountsTrue, CountTrue, NoSign
  <2> QED
    BY <2>1, <2>2, <2>3 DEF EntryInv
<1>2. EntryInv /\ FollowInv /\ [Next]_vars => EntryInv'
  <2> SUFFICES ASSUME EntryInv, FollowInv, [Next]_vars PROVE EntryInv'
    OBVIOUS
  <2> USE DEF EntryInv
  (* Plans of before stay as they are or are dropped. *)
  <2>1. ASSUME Decided', complete \subseteq complete',
               \A s \in Etfs : \/ quote'[s] = quote[s] /\ decided'[s] = decided[s]
                               \/ quote'[s] > quote[s],
               UNCHANGED <<stored, future, late, confirmed, seen>>
        PROVE  EntryInv'
    <3>1. ASSUME NEW p, TruePlan(p) PROVE TruePlan(p)'
      BY <2>1, <3>1, PlanStaysTrue
    <3>2. PlansTrue'
      BY <2>1, <3>1 DEF PlansTrue
    <3>3. CountsTrue'
      BY <2>1 DEF CountsTrue
    <3> QED
      BY <2>1, <3>2, <3>3
  <2>2. ASSUME UNCHANGED <<quote, decided, complete, stored, confirmed, seen>>,
               future' = future \/ future'.state # "done" \/ TruePlan(future'.plan),
               late' = late \/ late'.state # "done" \/ TruePlan(late'.plan)
        PROVE  EntryInv'
    BY <2>2 DEF Decided, PlansTrue, TruePlan, TrueRow, CountsTrue
  <2>3. ASSUME NEW s \in Etfs, NewQuote(s) PROVE EntryInv'
    <3>1. PICK d \in Decisions[s] : decided' = [decided EXCEPT ![s] = d]
      BY <2>3 DEF NewQuote
    <3>2. d \in [act : Acts, rr : Nat]
      BY TargetsAssumption DEF Acts
    <3>3. quote' = [quote EXCEPT ![s] = @ + 1]
          /\ UNCHANGED <<complete, stored, future, late, confirmed, seen>>
      BY <2>3 DEF NewQuote
    <3>4. Decided'
      BY <3>1, <3>2, <3>3 DEF Decided
    <3>5. \A t \in Etfs : \/ quote'[t] = quote[t] /\ decided'[t] = decided[t]
                          \/ quote'[t] > quote[t]
      BY <3>1, <3>3 DEF Decided
    <3> QED
      BY <2>1, <3>3, <3>4, <3>5
  <2>4. ASSUME NEW s \in Etfs, NewBars(s) PROVE EntryInv'
    BY <2>1, <2>4 DEF NewBars, Decided
  <2>5. CASE LiveStep
    <3>1. CASE CollectTargets
      <4>1. stored' = stored \/ (future.state = "done" /\ stored' = future.plan)
        BY <3>1 DEF CollectTargets
      <4>2. UNCHANGED <<quote, decided, complete, late, confirmed, seen>> /\ future' = NoJob
        BY <3>1 DEF CollectTargets, evidence
      <4> QED
        BY <4>1, <4>2 DEF Decided, PlansTrue, TruePlan, TrueRow, CountsTrue, NoJob
    <3>2. CASE CollectLate
      <4>1. stored' = stored \/ (late.state = "done" /\ stored' = late.plan)
        BY <3>2 DEF CollectLate
      <4>2. UNCHANGED <<quote, decided, complete, future, confirmed, seen>> /\ late' = NoJob
        BY <3>2 DEF CollectLate, evidence, worker
      <4> QED
        BY <4>1, <4>2 DEF Decided, PlansTrue, TruePlan, TrueRow, CountsTrue, NoJob
    <3>3. CASE Calculate
      <4>1. PICK p \in Plans(future) : future' = [state |-> "done", plan |-> p]
        BY <3>3 DEF Calculate
      <4>2. TruePlan(p)
        BY PlansAreTrue DEF FollowInv, Plans
      <4>3. UNCHANGED <<quote, decided, complete, stored, confirmed, seen, late>>
        BY <3>3 DEF Calculate, evidence
      <4> QED
        BY <2>2, <4>1, <4>2, <4>3
    <3>4. CASE DecideOrders
      <4>1. PICK paused \in BOOLEAN :
              confirmed' = [s \in Etfs |-> IF s \in DOMAIN stored.rows THEN Observe(s, paused) ELSE NoSign]
        BY <3>4 DEF DecideOrders
      <4>2. seen' = [s \in Etfs |-> Seen(s)]
        BY <3>4 DEF DecideOrders
      <4>3. UNCHANGED <<quote, decided, complete, stored, future, late>>
        BY <3>4 DEF DecideOrders
      <4>4. ASSUME NEW s \in Etfs
            PROVE  confirmed'[s] \in SignType /\ seen'[s] \in SeenType /\ CountTrue(confirmed'[s], seen'[s])
        <5>1. CASE s \in DOMAIN stored.rows
          BY <4>1, <4>2, <5>1, Observed
        <5>2. CASE s \notin DOMAIN stored.rows
          BY <4>1, <4>2, <5>2 DEF Seen, NoSign, SignType, Acts, Unseen, SeenType, CountTrue
        <5> QED
          BY <5>1, <5>2
      <4>5. Decided'
        BY <4>1, <4>2, <4>3, <4>4 DEF Decided
      <4>6. CountsTrue'
        BY <4>4 DEF CountsTrue
      <4>7. PlansTrue'
        BY <4>3 DEF PlansTrue, TruePlan, TrueRow
      <4> QED
        BY <4>5, <4>6, <4>7
    <3>5. CASE Dispatch \/ FailToCalculate
      BY <2>2, <3>5 DEF Dispatch, FailToCalculate, evidence
    <3>6. CASE NoDispatch \/ DecideNothing \/ RetryTime
      BY <2>2, <3>6 DEF NoDispatch, DecideNothing, RetryTime, evidence, worker
    <3>7. ASSUME NEW s \in Etfs, Fill(s) \/ Expire(s) \/ StopOut(s) \/ Age(s) PROVE EntryInv'
      BY <2>2, <3>7 DEF Fill, Expire, StopOut, Age, evidence, worker
    <3> QED
      BY <2>3, <2>4, <2>5, <3>1, <3>2, <3>3, <3>4, <3>5, <3>6, <3>7
      DEF LiveStep, LiveNext, LiveTick
  (* A new session, configuration or list starts from nothing. *)
  <2>6. ASSUME stored' = NoPlan, future'.state # "done", late'.state # "done",
               confirmed' = [s \in Etfs |-> NoSign], seen' = [s \in Etfs |-> Unseen],
               quote' \in [Etfs -> Nat], decided' \in [Etfs -> [act : Acts, rr : Nat]]
        PROVE  EntryInv'
    <3>1. Decided'
      BY <2>6 DEF Decided, NoSign, SignType, Acts, Unseen, SeenType
    <3>2. PlansTrue'
      BY <2>6 DEF PlansTrue, TruePlan, NoPlan
    <3>3. CountsTrue'
      BY <2>6 DEF CountsTrue, CountTrue, NoSign
    <3> QED
      BY <3>1, <3>2, <3>3
  <2>7. CASE Close
    BY <2>6, <2>7 DEF Close, NoJob, Acts
  <2>8. ASSUME Invalidate, decided' \in [Etfs -> [act : Acts, rr : Nat]] PROVE EntryInv'
    BY <2>6, <2>8 DEF Invalidate, Voided, Decided
  <2>9. CASE Configure
    <3>1. UNION {Decisions[s] : s \in Etfs} \subseteq [act : Acts, rr : Nat]
      BY TargetsAssumption DEF Acts
    <3>2. decided' \in [Etfs -> UNION {Decisions[s] : s \in Etfs}]
      BY <2>9 DEF Configure, ChangeConfig
    <3> QED
      BY <2>8, <2>9, <3>1, <3>2 DEF Configure, ChangeConfig
  <2>10. ASSUME NEW s \in Etfs, Repool(s) PROVE EntryInv'
    BY <2>8, <2>10 DEF Repool, ChangePool, Decided
  <2>11. CASE Restart
    <3>1. late' = NoJob \/ TruePlan(late'.plan)
      <4>1. CASE future.state = "queued"
        <5>1. late' = NoJob \/ \E p \in Plans(future) :
                late' = [state |-> "done", plan |-> [p EXCEPT !.late = TRUE]]
          BY <2>11, <4>1 DEF Restart, TakeOver
        <5>2. CASE late' # NoJob
          <6>1. PICK S : late' = [state |-> "done", plan |-> [Plan(S) EXCEPT !.late = TRUE]]
            BY <5>1, <5>2 DEF Plans
          <6>2. late'.plan.rows = Plan(S).rows
            BY <6>1 DEF Plan
          <6>3. TruePlan(Plan(S))
            BY PlansAreTrue DEF FollowInv
          <6> QED
            BY <6>2, <6>3 DEF TruePlan
        <5> QED
          BY <5>2
      <4>2. CASE future.state = "done"
        <5>1. late' = NoJob \/ late' = [future EXCEPT !.plan.late = TRUE]
          BY <2>11, <4>2 DEF Restart, TakeOver
        <5>2. [future EXCEPT !.plan.late = TRUE].plan.rows = future.plan.rows
          BY <4>2 DEF FollowInv, Jobs
        <5> QED
          BY <4>2, <5>1, <5>2 DEF PlansTrue, TruePlan
      <4>3. CASE future.state \notin {"queued", "done"}
        BY <2>11, <4>3 DEF Restart, TakeOver
      <4> QED
        BY <4>1, <4>2, <4>3
    <3>2. UNCHANGED <<quote, decided, complete, stored, confirmed, seen>> /\ future' = NoJob
      BY <2>11 DEF Restart, TakeOver, evidence
    <3> QED
      BY <2>2, <3>1, <3>2 DEF NoJob
  <2>12. ASSUME NEW s \in Etfs, BarsArrive(s) PROVE EntryInv'
    BY <2>4, <2>12 DEF BarsArrive
  <2>13. CASE UpdateReadiness \/ FreezePlan \/ SkipPlan \/ ScheduleReviews
    BY <2>2, <2>13 DEF UpdateReadiness, FreezePlan, SkipPlan, ScheduleReviews, evidence, worker
  <2>14. ASSUME NEW s \in Etfs, CollectReview(s) \/ Review(s) \/ FailToReview(s) \/ EndRest(s)
         PROVE  EntryInv'
    BY <2>2, <2>14 DEF CollectReview, Review, FailToReview, EndRest, liveVars, evidence, worker
  <2>15. CASE UNCHANGED vars
    BY <2>2, <2>15 DEF vars, liveVars, evidence, worker
  <2> QED
    BY <2>5, <2>7, <2>9, <2>10, <2>11, <2>12, <2>13, <2>14, <2>15 DEF Next
<1> QED
  BY <1>1, <1>2, FollowInvHolds, PTL DEF Spec

(* docs/price-action-strategy.md: an old action never places an order      *)
(* (confirm_price_action and IntradayTrader.tick).                         *)
THEOREM EntriesAreConfirmed == Spec => EntryConfirmed
<1> DEFINE Fit(s) == Favourable(s) /\ seen'[s].n >= Confirmations /\ s \notin cooling
<1>1. ASSUME EntryInv, FollowInv, DecideOrders, NEW s \in (ordered' \ ordered) \ held
      PROVE  Fit(s)
  <2>1. s \in Etfs /\ Placeable(s)
    BY <1>1 DEF DecideOrders
  <2>2. s \in DOMAIN stored.rows /\ stored.rows[s].act = "buy" /\ Evaluated(s)
        /\ s \notin stale /\ s \notin cooling /\ confirmed'[s].count >= Confirmations
    BY <1>1, <2>1 DEF Placeable, Wanted
  <2>3. TrueRow(s, stored.rows[s])
    BY <1>1, <2>2 DEF EntryInv, PlansTrue, TruePlan
  <2>4. Favourable(s)
    BY <2>2, <2>3 DEF Favourable, Evaluated, TrueRow
  <2>5. PICK paused \in BOOLEAN : confirmed'[s] = Observe(s, paused)
    BY <1>1, <2>1, <2>2 DEF DecideOrders
  <2>6. seen'[s] = Seen(s)
    BY <1>1, <2>1 DEF DecideOrders
  <2>7. confirmed'[s] \in SignType /\ seen'[s] \in SeenType /\ CountTrue(confirmed'[s], seen'[s])
    BY <1>1, <2>2, <2>5, <2>6, Observed
  <2>8. confirmed'[s].act = "buy"
    BY <2>2, <2>5 DEF Observe, Confirm, Signed
  <2>9. seen'[s].n >= Confirmations
    BY <2>2, <2>7, <2>8, TargetsAssumption DEF CountTrue, Capped, SignType, SeenType
  <2> QED
    BY <2>2, <2>4, <2>9
<1>2. [Next]_vars => DecideOrders \/ ordered' \subseteq ordered
  BY DEF Next, LiveStep, LiveNext, LiveTick, CollectTargets, Dispatch, NoDispatch, DecideNothing,
         Calculate, FailToCalculate, CollectLate, RetryTime, NewQuote, NewBars, Fill, Expire, StopOut,
         Age, Close, UpdateReadiness, FreezePlan, SkipPlan, ScheduleReviews, CollectReview, Review,
         FailToReview, EndRest, BarsArrive, Configure, ChangeConfig, Repool, ChangePool, Restart,
         TakeOver, vars, liveVars, evidence
<1>3. EntryInv /\ FollowInv /\ [Next]_vars => [\A s \in (ordered' \ ordered) \ held : Fit(s)]_liveVars
  BY <1>1, <1>2
<1> QED
  BY <1>3, EntryInvHolds, FollowInvHolds, PTL DEF Spec, EntryConfirmed
=============================================================================
