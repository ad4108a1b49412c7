------------------------------ MODULE Evaluation ------------------------------
(***************************************************************************)
(* One trading session and the evening after it: Targets until the close,  *)
(* then what the worker makes of the completed day (readiness, Worker.plan *)
(* and Worker.schedule_reviews, strategies/buy_review.py), while bars      *)
(* still arrive and the user changes configuration and list.               *)
(*                                                                         *)
(* Readiness and plan are written during a session, too, from the day      *)
(* before; that repeats the evening's steps and is left out.               *)
(***************************************************************************)
EXTENDS Targets

CONSTANTS
  Required,  \* config.coverage_required, a fraction as <<numerator, denominator>>
  Places     \* reviews that run at a time

ASSUME EvaluationAssumption ==
  /\ Required \in Nat \X (Nat \ {0}) /\ Required[1] <= Required[2]
  /\ Places \in Nat \ {0}

VARIABLES
  session,    \* calendar.session
  tuned,      \* number of changes of the configuration's values
  readiness,  \* state readiness: "none", "waiting" or "ready"
  plan,       \* plans: the row of the completed day and the configuration in force
  review,     \* buy_reviews: per ETF, input_sha256 of the completed day's row
  job,        \* futures["buy_review:..."]
  resting     \* ETFs whose last review was asked for less than 60 s ago

dayVars == <<tuned, readiness, plan, review, job, resting>>
vars == <<liveVars, session, dayVars>>

NoInput == [bars |-> FALSE, tuned |-> -1]
Unplanned == [of |-> {}, with |-> {}]
Idle == [state |-> "none", of |-> NoInput]

(* review_request and its fingerprint: the bars and the settings it reads. *)
Input(s) == [bars |-> s \in complete, tuned |-> tuned]

InitDay ==
  /\ Init /\ session = TRUE /\ tuned = 0 /\ readiness = "none" /\ plan = Unplanned
  /\ review = [s \in Etfs |-> NoInput] /\ job = [s \in Etfs |-> Idle] /\ resting = {}

(* The session ends, orders expire; from 15:30 on its day is the completed *)
(* one.  Targets that are still being calculated are of the day before and *)
(* are not stored; what the session alone reads is set back.               *)
Close ==
  /\ session /\ pc = "collect" /\ session' = FALSE
  /\ complete' = {} /\ quote' = [s \in Etfs |-> 0]
  /\ decided' = [s \in Etfs |-> [act |-> "hold", rr |-> 0]]
  /\ stale' = {} /\ ordered' = {} /\ cooling' = {} /\ noted' = FALSE /\ retry' = FALSE
  /\ future' = NoJob /\ late' = NoJob /\ stored' = NoPlan
  /\ confirmed' = [s \in Etfs |-> NoSign] /\ seen' = [s \in Etfs |-> Unseen]
  /\ UNCHANGED <<pc, watched, held, troubles, dayVars>>

----------------------------------------------------------------------------
(* The worker's tick in the evening.                                       *)

(* readiness: enough of the tracked ETFs have the completed day's bars,    *)
(* and every ETF that is held has.                                         *)
Covered(of, with) == Required[1] * Cardinality(of) <= Required[2] * Cardinality(with)
Ready == watched # {} /\ Covered(Tracked, complete \cap Tracked) /\ held \subseteq complete
UpdateReadiness ==
  /\ ~session /\ pc = "collect" /\ \A s \in Etfs : job[s].state \notin {"done", "failed"}
  /\ pc' = "plan"
  /\ readiness' = IF Ready THEN "ready" ELSE "waiting"
  /\ UNCHANGED <<evidence, stale, worker, late, stored, confirmed, seen, troubles, session,
                 tuned, plan, review, job, resting>>

(* plan: once per day and configuration, from what the transaction reads.  *)
FreezePlan ==
  /\ pc = "plan" /\ readiness = "ready" /\ plan = Unplanned
  /\ pc' = "reviews" /\ plan' = [of |-> Tracked, with |-> complete \cap Tracked]
  /\ UNCHANGED <<evidence, stale, worker, late, stored, confirmed, seen, troubles, session,
                 tuned, readiness, review, job, resting>>
SkipPlan ==
  /\ pc = "plan" /\ (readiness # "ready" \/ plan # Unplanned) /\ pc' = "reviews"
  /\ UNCHANGED <<evidence, stale, worker, late, stored, confirmed, seen, troubles, session, dayVars>>

(* schedule_reviews: in the order of their codes, as many as there are     *)
(* places, those whose stored review is not of the present input.          *)
Unreviewed_Missing(s) == review[s] = NoInput
Unreviewed(s) == review[s] # Input(s)
Due == {s \in watched \ resting : job[s] = Idle /\ Unreviewed(s)}
Free == Places - Cardinality({s \in Etfs : job[s] # Idle})
Chosen == {s \in Due : Cardinality({t \in Due : t < s}) < Free}
ScheduleReviews ==
  /\ pc = "reviews" /\ pc' = "collect" /\ resting' = resting \cup Chosen
  /\ job' = [s \in Etfs |-> IF s \in Chosen THEN [state |-> "running", of |-> Input(s)] ELSE job[s]]
  /\ UNCHANGED <<evidence, stale, worker, late, stored, confirmed, seen, troubles, session,
                 tuned, readiness, plan, review>>

(* save_review: a review is stored only if its input is still the present  *)
(* one and the ETF is still on the list.                                   *)
CollectReview(s) ==
  /\ ~session /\ pc = "collect" /\ job[s].state \in {"done", "failed"}
  /\ job' = [job EXCEPT ![s] = Idle]
  /\ review' = IF job[s].state = "done" /\ job[s].of = Input(s) /\ s \in watched
               THEN [review EXCEPT ![s] = job[s].of] ELSE review
  /\ UNCHANGED <<liveVars, session, tuned, readiness, plan, resting>>

----------------------------------------------------------------------------
(* In the background, and from outside.                                    *)
Review(s) ==
  /\ job[s].state = "running" /\ job' = [job EXCEPT ![s].state = "done"]
  /\ UNCHANGED <<liveVars, session, tuned, readiness, plan, review, resting>>
FailToReview(s) ==
  /\ job[s].state = "running" /\ job' = [job EXCEPT ![s].state = "failed"]
  /\ UNCHANGED <<liveVars, session, tuned, readiness, plan, review, resting>>
EndRest(s) ==
  /\ s \in resting /\ resting' = resting \ {s}
  /\ UNCHANGED <<liveVars, session, tuned, readiness, plan, review, job>>

BarsArrive(s) == ~session /\ NewBars(s) /\ UNCHANGED <<session, dayVars>>

(* A row of plans belongs to its configuration: the new one has none yet.  *)
Configure ==
  /\ ChangeConfig /\ tuned' = tuned + 1 /\ plan' = Unplanned
  /\ UNCHANGED <<session, readiness, review, job, resting>>
(* invalidate_pool                                                         *)
ReadinessOfPool_Kept == readiness
ReadinessOfPool == "none"
Repool(s) ==
  /\ ChangePool(s) /\ plan' = Unplanned /\ readiness' = ReadinessOfPool
  /\ UNCHANGED <<session, tuned, review, job, resting>>

Restart ==
  /\ TakeOver /\ job' = [s \in Etfs |-> Idle] /\ resting' = {}
  /\ UNCHANGED <<session, tuned, readiness, plan, review>>

LiveStep == session /\ LiveNext /\ UNCHANGED <<session, dayVars>>
Next ==
  \/ LiveStep \/ Close \/ UpdateReadiness \/ FreezePlan \/ SkipPlan \/ ScheduleReviews
  \/ Configure \/ Restart
  \/ \E s \in Etfs : CollectReview(s) \/ Review(s) \/ FailToReview(s) \/ EndRest(s)
                     \/ BarsArrive(s) \/ Repool(s)

(* The worker's tick goes on; after market_interval there is another       *)
(* calculation; not every one fails, and no pause lasts for ever.          *)
InSession(A) == session /\ A /\ UNCHANGED <<session, dayVars>>
WorkerTick ==
  \/ InSession(LiveTick) \/ UpdateReadiness \/ FreezePlan \/ SkipPlan \/ ScheduleReviews
  \/ \E s \in Etfs : CollectReview(s)
Fairness ==
  /\ WF_vars(WorkerTick) /\ SF_vars(InSession(Dispatch)) /\ SF_vars(InSession(Calculate))
  /\ WF_vars(InSession(RetryTime))
  /\ (\A s \in Etfs : SF_vars(Review(s))) /\ WF_vars(\E s \in Etfs : EndRest(s))

Spec == InitDay /\ [][Next]_vars
FairSpec == Spec /\ Fairness

----------------------------------------------------------------------------
(* Properties of the evening; Targets has those of the session.            *)

(* service.py: no plan is frozen from a part of the ETFs.  A plan's data   *)
(* covers what the configuration requires of exactly the ETFs it was made  *)
(* for, and of every one that was held, although its data's coverage is    *)
(* judged in a transaction before and the list may change in between.      *)
PlanComplete == plan # Unplanned => Covered(plan.of, plan.with) /\ held \subseteq plan.with

(* docs/price-action-strategy.md: changed evidence is judged again.  Over  *)
(* and over, what is shown and stored catches up with it: in the session   *)
(* the targets, in the evening a review of the present bars and settings   *)
(* for each ETF of the list, and the plan once the data is there, whatever *)
(* changed while they were calculated and whichever of them failed.        *)
ShownIsCurrent ==
  []<>(IF session THEN UpToDate
       ELSE /\ \A s \in watched : review[s] = Input(s)
            /\ Ready => plan # Unplanned)
=============================================================================
