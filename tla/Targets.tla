------------------------------- MODULE Targets -------------------------------
(***************************************************************************)
(* The targets of a trading session (Worker.schedule_targets and           *)
(* automation/targets.py, strategies/price_action.py) and the orders that  *)
(* follow from them (confirm_price_action and IntradayTrader.tick).        *)
(*                                                                         *)
(* One calculation at a time runs in the background, on what it reads of   *)
(* the database; quotes, bars, fills, stops and configurations go on       *)
(* changing meanwhile.  The worker keeps the version of the evidence it    *)
(* has asked a calculation for; here that version is only compared:        *)
(* `noted` says that nothing it covers has changed since.  A plan of an    *)
(* earlier configuration is as good as none (live_problem) and is none.    *)
(*                                                                         *)
(* Prices are left out: `decided` is what price_decision says of the       *)
(* latest quote, given the completed bars.  Round trips, re-entry after a  *)
(* profit and quantities are Trading's.                                    *)
(***************************************************************************)
EXTENDS Integers, FiniteSets

CONSTANTS
  Etfs,           \* their codes, as numbers: the last criterion of a rank
  Decisions,      \* [Etfs -> records act, rr: action and reward to risk]
  MaxPositions,   \* config.max_positions
  Confirmations,  \* config.intraday_confirmations
  MaxQuotes,      \* [Etfs -> bound on the quotes of the session]
  Holdings,       \* what may be held at the open
  Missing,        \* ETFs whose bars may be missing then
  MaxTroubles     \* bound: changes of configuration or list, takeovers, quotes
                  \* that become too old and stops, together

ASSUME TargetsAssumption ==
  /\ Etfs \subseteq Nat /\ IsFiniteSet(Etfs)
  /\ \A s \in Etfs : Decisions[s] \subseteq [act : {"buy", "hold", "exit"}, rr : Nat]
  /\ \A s \in Etfs : Decisions[s] # {}
  /\ {MaxPositions, Confirmations} \subseteq Nat \ {0}
  /\ MaxQuotes \in [Etfs -> Nat] /\ MaxTroubles \in Nat
  /\ Holdings \subseteq SUBSET Etfs /\ Missing \subseteq Etfs

VARIABLES
  pc,        \* the tick: "collect", or "decide" once schedule_targets has run
  watched,   \* the manual list
  complete,  \* ETFs whose bars reach the last completed day
  quote,     \* [Etfs -> number of the latest quote, 0 before the first]
  decided,   \* [Etfs -> what price_decision says of it]
  stale,     \* ETFs whose latest quote is older than quote_max_age
  held,      \* ETFs with a position
  ordered,   \* ETFs with an open order of this strategy
  cooling,   \* cooldown: not bought again today
  noted,     \* target_version is the version of the present evidence
  retry,     \* target_retry_at lies in the future
  future,    \* futures["live_targets"]
  late,      \* that of a worker that was overtaken during its tick
  stored,    \* state live_targets
  confirmed, \* state intraday_confirmation
  seen,      \* per ETF: favourable quotes in a row that ticks have observed
  troubles   \* how many there were

evidence == <<watched, complete, quote, decided, held, ordered, cooling>>
worker == <<noted, retry, future>>
liveVars == <<pc, evidence, stale, worker, late, stored, confirmed, seen, troubles>>

NoPlan == [late |-> FALSE, rows |-> <<>>, targets |-> {}]
NoJob == [state |-> "none"]
NoSign == [quote |-> 0, act |-> "none", selected |-> FALSE, count |-> 0]
Unseen == [quote |-> 0, n |-> 0]

(* tracked_instruments                                                     *)
Tracked == watched \cup held \cup ordered

----------------------------------------------------------------------------
(* calculate_targets and build_plan.                                       *)

(* A row has a decision if its bars are complete and its quote is fresh at *)
(* the time the calculation was asked for.                                 *)
Row(s, unfit) ==
  IF s \in complete \ unfit /\ quote[s] > 0
  THEN [quote |-> quote[s], act |-> decided[s].act, rr |-> decided[s].rr]
  ELSE [quote |-> 0, act |-> "none", rr |-> 0]

(* select_targets: holdings that do not exit stay, and entries fill what   *)
(* places they leave, the best reward to risk first.                       *)
Eligible(rows) == {s \in DOMAIN rows : rows[s].act = "buy" /\ s \in watched \ cooling}
Ahead(rows, s, t) == rows[s].rr > rows[t].rr \/ (rows[s].rr = rows[t].rr /\ s < t)
SelectTargets(rows) ==
  LET kept == {s \in held \cap DOMAIN rows : rows[s].act # "exit"}
      room(s) == Cardinality(kept \cup {t \in Eligible(rows) : Ahead(rows, t, s)}) < MaxPositions
  IN kept \cup {s \in Eligible(rows) : room(s)}

Plan(unfit) ==
  LET rows == [s \in Tracked |-> Row(s, unfit)]
  IN [late |-> FALSE, rows |-> rows, targets |-> SelectTargets(rows)]
(* A quote that came after that time may bear a later one: it is not fresh *)
(* then, and the one before is not looked for.                             *)
Plans(job) ==
  LET newer == {s \in Etfs : quote[s] # job.quote[s]}
  IN {Plan((job.stale \ newer) \cup S) : S \in SUBSET newer}

Init ==
  /\ pc = "collect" /\ watched = Etfs /\ complete \in {Etfs \ S : S \in SUBSET Missing}
  /\ quote = [s \in Etfs |-> 0]
  /\ decided = [s \in Etfs |-> [act |-> "hold", rr |-> 0]]
  /\ stale = {} /\ held \in Holdings /\ ordered = {} /\ cooling = {}
  /\ noted = FALSE /\ retry = FALSE /\ future = NoJob /\ late = NoJob
  /\ stored = NoPlan /\ confirmed = [s \in Etfs |-> NoSign]
  /\ seen = [s \in Etfs |-> Unseen] /\ troubles = 0

----------------------------------------------------------------------------
(* The start of a tick: what arrives is ingested.                          *)

NewQuote(s) ==
  /\ pc = "collect" /\ s \in Tracked /\ quote[s] < MaxQuotes[s]
  /\ quote' = [quote EXCEPT ![s] = @ + 1]
  /\ \E d \in Decisions[s] : decided' = [decided EXCEPT ![s] = d]
  /\ stale' = stale \ {s} /\ noted' = FALSE
  /\ UNCHANGED <<pc, watched, complete, held, ordered, cooling, retry, future, late,
                 stored, confirmed, seen, troubles>>
(* source_revision                                                         *)
NewBars(s) ==
  /\ pc = "collect" /\ s \in Tracked \ complete
  /\ complete' = complete \cup {s} /\ noted' = FALSE
  /\ UNCHANGED <<pc, watched, quote, decided, stale, held, ordered, cooling, retry,
                 future, late, stored, confirmed, seen, troubles>>

(* collect, ingest: a result is stored if it is of the configuration in    *)
(* force; a failure forgets the version and waits a moment.                *)
Forgotten_Kept == noted
Forgotten == FALSE
CollectTargets ==
  /\ pc = "collect" /\ future.state \in {"done", "void", "failed"}
  /\ future' = NoJob
  /\ stored' = IF future.state = "done" THEN future.plan ELSE stored
  /\ IF future.state = "failed" THEN noted' = Forgotten /\ retry' = TRUE
     ELSE UNCHANGED <<noted, retry>>
  /\ UNCHANGED <<pc, evidence, stale, late, confirmed, seen, troubles>>

(* schedule_targets: the version is read before the calculation starts.    *)
(* With an unchanged one a calculation starts when market_interval is over.*)
(* One that ends after this tick's collect is as good as still running.    *)
Dispatch ==
  /\ pc = "collect" /\ future = NoJob /\ ~retry
  /\ pc' = "decide" /\ future' = [state |-> "queued", quote |-> quote, stale |-> stale] /\ noted' = TRUE
  /\ UNCHANGED <<evidence, stale, retry, late, stored, confirmed, seen, troubles>>
NoDispatch ==
  /\ pc = "collect" /\ (future.state = "queued" \/ (future = NoJob /\ (retry \/ noted)))
  /\ pc' = "decide"
  /\ UNCHANGED <<evidence, stale, worker, late, stored, confirmed, seen, troubles>>

----------------------------------------------------------------------------
(* In the background.                                                      *)
Calculate ==
  /\ future.state = "queued"
  /\ future' \in {[state |-> "done", plan |-> p] : p \in Plans(future)}
  /\ UNCHANGED <<pc, evidence, stale, noted, retry, late, stored, confirmed, seen, troubles>>
FailToCalculate ==
  /\ future.state = "queued" /\ future' = [state |-> "failed"]
  /\ UNCHANGED <<pc, evidence, stale, noted, retry, late, stored, confirmed, seen, troubles>>
(* The tick of an overtaken worker still collects.                         *)
CollectLate ==
  /\ late # NoJob /\ late' = NoJob
  /\ stored' = IF late.state = "done" THEN late.plan ELSE stored
  /\ UNCHANGED <<pc, evidence, stale, worker, confirmed, seen, troubles>>

----------------------------------------------------------------------------
(* IntradayTrader.tick                                                     *)

(* evaluated_quote: the plan's decision is the one on the latest quote.    *)
Evaluated(s) == s \in DOMAIN stored.rows /\ stored.rows[s].quote > 0 /\ stored.rows[s].quote = quote[s]

(* confirm_price_action: an observation counts when action and selection   *)
(* are those of the one before and the quote is a later one; too long a    *)
(* pause between the two starts again.                                     *)
Signed(s) ==
  [quote |-> stored.rows[s].quote, act |-> stored.rows[s].act, selected |-> s \in stored.targets]
Capped(n) == IF n > Confirmations THEN Confirmations ELSE n
Confirm(s, paused) ==
  LET new == Signed(s)
      old == confirmed[s]
      valid == new.quote > 0 /\ ~(s \in stale /\ Evaluated(s))
      consecutive ==
        /\ valid /\ ~paused /\ old.quote > 0 /\ new.quote >= old.quote
        /\ old.act = new.act /\ old.selected = new.selected
      count == IF ~valid THEN 0 ELSE IF ~consecutive THEN 1
               ELSE IF new.quote > old.quote THEN old.count + 1 ELSE old.count
  IN [quote |-> new.quote, act |-> new.act, selected |-> new.selected, count |-> Capped(count)]

(* A newer quote that no plan has decided on yet confirms nothing, but an  *)
(* adverse one ends the count, even if the next one is favourable again.   *)
(* An entry without a quote is as good as none: the next one counts 1.     *)
Adverse(s) == s \in stale \/ (stored.rows[s].act = "buy" /\ decided[s].act # "buy")
Observe_Unwatched(s, paused) == IF Evaluated(s) THEN Confirm(s, paused) ELSE confirmed[s]
Observe(s, paused) ==
  IF Evaluated(s) THEN Confirm(s, paused)
  ELSE IF confirmed[s].quote = 0 THEN [Confirm(s, paused) EXCEPT !.count = 0]
  ELSE IF Adverse(s) THEN [confirmed[s] EXCEPT !.count = 0]
  ELSE confirmed[s]

(* What the account and the plan call for, and what they no longer do.     *)
Wanted(s) ==
  \/ s \notin held /\ stored.rows[s].act = "buy" /\ s \in stored.targets
  \/ s \in held /\ stored.rows[s].act = "exit"
Obsolete(s) ==
  \/ s \in cooling
  \/ Evaluated(s) /\ stored.rows[s].act # (IF s \in held THEN "exit" ELSE "buy")
Placeable(s) ==
  /\ s \in DOMAIN stored.rows /\ s \notin ordered \cup cooling \cup stale
  /\ Evaluated(s) /\ confirmed'[s].count >= Confirmations /\ Wanted(s)

(* What the tick itself sees of the latest quotes: those that the plan has *)
(* decided on, and later ones while it calls for a purchase.               *)
Favourable(s) == s \in complete \ stale /\ quote[s] > 0 /\ decided[s].act = "buy"
Judged(s) == Evaluated(s) \/ s \in stale \/ stored.rows[s].act = "buy"
Seen(s) ==
  IF s \notin DOMAIN stored.rows THEN Unseen
  ELSE IF ~Judged(s) THEN seen[s]
  ELSE IF ~Favourable(s) THEN Unseen
  ELSE [quote |-> quote[s],
        n |-> IF seen[s].quote = quote[s] THEN seen[s].n ELSE Capped(seen[s].n + 1)]

(* The order of one ETF may be held up by what is not modelled here (day   *)
(* limit, pause after a fill, lot size).                                   *)
DecideOrders ==
  /\ pc = "decide" /\ stored # NoPlan /\ pc' = "collect"
  /\ \E paused \in BOOLEAN :
       confirmed' = [s \in Etfs |-> IF s \in DOMAIN stored.rows THEN Observe(s, paused) ELSE NoSign]
  /\ seen' = [s \in Etfs |-> Seen(s)]
  /\ \E S \in SUBSET {s \in Etfs : Placeable(s)} :
       ordered' = {s \in ordered : s \in DOMAIN stored.rows => ~Obsolete(s)} \cup S
  /\ noted' = (noted /\ ordered' = ordered)
  /\ UNCHANGED <<watched, complete, quote, decided, held, cooling, stale, retry, future,
                 late, stored, troubles>>
(* No plan, data not ready, or the tick has ended before.                  *)
DecideNothing ==
  /\ pc = "decide" /\ pc' = "collect"
  /\ UNCHANGED <<evidence, stale, worker, late, stored, confirmed, seen, troubles>>

----------------------------------------------------------------------------
(* What else changes the evidence.                                         *)
Trouble == troubles < MaxTroubles /\ troubles' = troubles + 1

Fill(s) ==
  /\ s \in ordered /\ ordered' = ordered \ {s}
  /\ held' = IF s \in held THEN held \ {s} ELSE held \cup {s}
  /\ noted' = FALSE
  /\ UNCHANGED <<pc, watched, complete, quote, decided, cooling, stale, retry, future,
                 late, stored, confirmed, seen, troubles>>
Expire(s) ==
  /\ s \in ordered /\ ordered' = ordered \ {s} /\ noted' = FALSE
  /\ UNCHANGED <<pc, watched, complete, quote, decided, held, cooling, stale, retry,
                 future, late, stored, confirmed, seen, troubles>>
(* risk_check and match: a structural stop sells out.                      *)
StopOut(s) ==
  /\ s \in held /\ Trouble /\ held' = held \ {s} /\ ordered' = ordered \ {s}
  /\ cooling' = cooling \cup {s} /\ noted' = FALSE
  /\ UNCHANGED <<pc, watched, complete, quote, decided, stale, retry, future, late, stored,
                 confirmed, seen>>
(* No new quote for quote_max_age: nothing in the version tells.           *)
Age(s) ==
  /\ quote[s] > 0 /\ s \notin stale /\ Trouble /\ stale' = stale \cup {s}
  /\ UNCHANGED <<pc, evidence, worker, late, stored, confirmed, seen>>

Voided(job) == IF job.state = "done" THEN [state |-> "void"] ELSE job
Invalidate ==
  /\ Trouble /\ noted' = FALSE
  /\ stored' = NoPlan /\ future' = Voided(future) /\ late' = Voided(late)
  /\ confirmed' = [s \in Etfs |-> NoSign] /\ seen' = [s \in Etfs |-> Unseen]
  /\ UNCHANGED <<pc, complete, quote, stale, held, cooling, retry>>
(* change_config: the same quotes may be judged differently.               *)
ChangeConfig ==
  /\ Invalidate /\ ordered' = {} /\ UNCHANGED watched
  /\ decided' \in {d \in [Etfs -> UNION {Decisions[s] : s \in Etfs}] :
                     \A s \in Etfs : IF quote[s] = 0 THEN d[s] = decided[s] ELSE d[s] \in Decisions[s]}
(* add_etf, remove_etf                                                     *)
ChangePool(s) ==
  /\ Invalidate /\ (s \in watched => s \notin held \cup ordered)
  /\ watched' = IF s \in watched THEN watched \ {s} ELSE watched \cup {s}
  /\ ordered' = {} /\ UNCHANGED decided

RetryTime ==
  /\ retry /\ retry' = FALSE
  /\ UNCHANGED <<pc, evidence, stale, noted, future, late, stored, confirmed, seen, troubles>>

(* A restart, or another worker, that knows of no calculation; if the one  *)
(* before still runs, it may yet store the plan that it has by now.        *)
TakeOver ==
  /\ Trouble /\ pc' = "collect" /\ noted' = FALSE /\ retry' = FALSE /\ future' = NoJob
  /\ late' \in {NoJob} \cup
       (CASE future.state = "queued" -> {[state |-> "done", plan |-> [p EXCEPT !.late = TRUE]] : p \in Plans(future)}
          [] future.state = "done" -> {[future EXCEPT !.plan.late = TRUE]}
          [] OTHER -> {})
  /\ UNCHANGED <<evidence, stale, stored, confirmed, seen>>

LiveTick == CollectTargets \/ Dispatch \/ NoDispatch \/ DecideOrders \/ DecideNothing
LiveNext ==
  \/ LiveTick \/ Calculate \/ FailToCalculate \/ CollectLate
  \/ RetryTime
  \/ \E s \in Etfs : NewQuote(s) \/ NewBars(s) \/ Fill(s) \/ Expire(s) \/ StopOut(s) \/ Age(s)

----------------------------------------------------------------------------
(* Properties.                                                             *)

(* The stored targets are those of the evidence, but for quotes that have  *)
(* become too old since, and were not left by an overtaken worker.         *)
UpToDate ==
  /\ DOMAIN stored.rows = Tracked
  /\ \A s \in Tracked : stored.rows[s] = Row(s, stale) \/ (s \in stale /\ stored.rows[s].quote = quote[s])
  /\ stored.targets = SelectTargets(stored.rows)

(* docs/price-action-strategy.md: a change during a calculation causes     *)
(* another one after it.  When the worker knows of nothing new and no      *)
(* calculation runs, whatever quote, bar, fill, stop, configuration or     *)
(* failure came at whatever moment of the last one, its targets are those  *)
(* of the present evidence.                                                *)
FollowUp == noted /\ future = NoJob /\ ~stored.late => UpToDate

(* docs/price-action-strategy.md: an old action never places an order.     *)
(* One that is placed to buy follows Confirmations different quotes that   *)
(* ticks saw in a row, all favourable, the latest included, and none of    *)
(* them too old; no takeover, late plan or quote that came and went in     *)
(* between makes up for one.                                               *)
EntryConfirmed ==
  [][\A s \in (ordered' \ ordered) \ held :
       Favourable(s) /\ seen'[s].n >= Confirmations /\ s \notin cooling]_liveVars
=============================================================================
