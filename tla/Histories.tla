------------------------------ MODULE Histories ------------------------------
(***************************************************************************)
(* The cache of daily bars and the queue that downloads them               *)
(* (Worker.schedule_histories, schedule_metrics, collect, ingest and       *)
(* market_data/history.py).  A download reads the cache in a thread of the *)
(* pool, asks the public sources and leaves a result, which a later tick   *)
(* collects and ingests; the cache may have changed in between.            *)
(*                                                                         *)
(* A bar is kept as the base of its prices (the source and the             *)
(* forward-adjustment they come from: bars of different bases have         *)
(* different prices) and whether its optional fields, amount, volume and   *)
(* turnover, are known.  Raw prices are the exchange's, the same from      *)
(* every source.  Time is left out but for its order: a retry time is a    *)
(* flag that some later moment clears.                                     *)
(***************************************************************************)
EXTENDS Integers, FiniteSets, FiniteSetsExt

CONSTANTS
  Etfs,          \* their codes, as numbers: the queue's last criterion
  Class,         \* [Etfs -> (not held or wanted, not tradable) as a number]
  Removable,     \* those the user removes from the watchlist and adds again
  Unreachable,   \* those for which no source ever answers
  FirstTarget, LastDay,  \* bound: the last completed day moves between these
  Window,        \* WINDOW: bars kept
  Overlap,       \* OVERLAP: bars an incremental download checks again
  MaxGap,        \* MAX_GAP: days an incremental download may add
  FullEvery,     \* days after which everything is downloaded again
  Capacity,      \* downloads at a time
  Bases, Rich,   \* price bases, and those whose answers have all fields
  MaxTakeovers   \* bound: restarts and takeovers by another worker

ASSUME HistoriesAssumption ==
  /\ Etfs \subseteq Nat /\ IsFiniteSet(Etfs) /\ Class \in [Etfs -> Nat]
  /\ Removable \subseteq Etfs /\ Unreachable \subseteq Etfs
  /\ {FirstTarget, LastDay, Window, Overlap, MaxGap, FullEvery, Capacity} \subseteq Nat \ {0}
  /\ FirstTarget <= LastDay /\ Overlap <= Window /\ Rich \subseteq Bases /\ Bases # {}
  /\ MaxTakeovers \in Nat

Days == 1 .. LastDay
Keys == {"history", "metrics"} \X Etfs

VARIABLES
  target,          \* history_target: the last completed trading day
  tracked,         \* tracked_instruments
  bars,            \* [Etfs -> function from days to bars]
  row,             \* state history:<etf>, for those downloaded once
  request,         \* state history_request:<etf>
  metricsRequest,  \* state metrics_request:<etf>
  futures,         \* function from keys to jobs: Worker.futures
  late,            \* jobs of a worker that was overtaken during its tick
  cooling,         \* history_cooldown_until lies in the future
  takeovers

tables == <<bars, row, request, metricsRequest>>
queue == <<futures, late, cooling>>
vars == <<target, tracked, tables, queue, takeovers>>

None == [x \in {} |-> x]
With(f, k, v) == [x \in DOMAIN f \cup {k} |-> IF x = k THEN v ELSE f[x]]
Without(f, k) == [x \in DOMAIN f \ {k} |-> f[x]]

(* Of the times of attempts only the order matters.                        *)
Newest(f) == 1 + Cardinality({f[s].at : s \in DOMAIN f})
Ordered(f) ==
  [s \in DOMAIN f |-> [f[s] EXCEPT !.at =
     Cardinality({f[t].at : t \in {u \in DOMAIN f : f[u].at <= f[s].at}})]]

Latest(series) == Max(DOMAIN series)
Missing(series) == \E d \in DOMAIN series : ~series[d].rich
(* price_source: the bases of a series.                                    *)
BasesOf(series) == {series[d].base : d \in DOMAIN series}

(* enrich_metrics: known fields of the same bar are taken over, prices     *)
(* never.                                                                  *)
Enriched(series, known) ==
  [d \in DOMAIN series |->
     [series[d] EXCEPT !.rich = @ \/ (d \in DOMAIN known /\ known[d].rich)]]
Fresh(base, first, last) == [d \in first .. last |-> [base |-> base, rich |-> base \in Rich]]
NewestDays(D, n) == {d \in D : Cardinality({e \in D : e > d}) < n}
Trimmed(series) == [d \in NewestDays(DOMAIN series, Window) |-> series[d]]

Init ==
  /\ target = FirstTarget /\ tracked = Etfs
  /\ bars = [s \in Etfs |-> None]
  /\ row = None /\ request = None /\ metricsRequest = None
  /\ futures = None /\ late = None /\ cooling = FALSE
  /\ takeovers = 0

----------------------------------------------------------------------------
(* schedule_histories: a pass over the queue fills the free places.        *)
At(s) == IF s \in DOMAIN request THEN request[s].at ELSE 0
Before_ByCode(s, t) == Class[s] < Class[t] \/ (Class[s] = Class[t] /\ s < t)
Before(s, t) ==
  \/ Class[s] < Class[t]
  \/ Class[s] = Class[t] /\ (At(s) < At(t) \/ (At(s) = At(t) /\ s < t))

Running(kind) == {s \in Etfs : <<kind, s>> \in DOMAIN futures}
(* In flight, at its target, or waiting for its retry time.                *)
Wanted(s) ==
  /\ s \in tracked \ Running("history")
  /\ ~(s \in DOMAIN row /\ row[s].target = target)
  /\ s \in DOMAIN request /\ request[s].target = target => ~request[s].wait
Places == Capacity - Cardinality(Running("history"))
Chosen ==
  LET W == {s \in Etfs : Wanted(s)}
  IN {s \in W : Cardinality({t \in W : Before(t, s)}) < Places}

Asked(f, S) ==
  Ordered([s \in DOMAIN f \cup S |->
             IF s \in S THEN [at |-> Newest(f), target |-> target, wait |-> TRUE] ELSE f[s]])
ScheduleHistories ==
  /\ ~cooling /\ Chosen # {}
  /\ request' = Asked(request, Chosen)
  /\ futures' = [k \in DOMAIN futures \cup ({"history"} \X Chosen) |->
       IF k \in DOMAIN futures THEN futures[k] ELSE [state |-> "queued", asof |-> target]]
  /\ UNCHANGED <<target, tracked, bars, row, metricsRequest, late, cooling, takeovers>>

(* schedule_metrics: one request for optional fields, while no download    *)
(* runs, for an ETF whose bars are complete but for them.                  *)
MetricsAt(s) == IF s \in DOMAIN metricsRequest THEN metricsRequest[s].at ELSE 0
Incomplete ==
  {s \in tracked :
     /\ s \in DOMAIN metricsRequest /\ metricsRequest[s].target = target
          => ~metricsRequest[s].wait
     /\ DOMAIN bars[s] # {} /\ Latest(bars[s]) = target /\ Missing(bars[s])}
ScheduleMetrics ==
  /\ Running("history") = {} /\ Running("metrics") = {}
  /\ \E s \in Incomplete :
       /\ \A t \in Incomplete :
            MetricsAt(s) < MetricsAt(t) \/ (MetricsAt(s) = MetricsAt(t) /\ s <= t)
       /\ futures' = With(futures, <<"metrics", s>>, [state |-> "queued", asof |-> target])
       /\ metricsRequest' = Asked(metricsRequest, {s})
  /\ UNCHANGED <<target, tracked, bars, row, request, late, cooling, takeovers>>

----------------------------------------------------------------------------
(* In the threads.                                                         *)

(* request_window: what has to be asked for.                               *)
Start(cached) == Min(NewestDays(DOMAIN cached, Overlap))
RequestWindow(cached, asof, full) ==
  IF DOMAIN cached = {} THEN "full"
  ELSE IF Latest(cached) = asof THEN "cached"
  ELSE IF \/ Cardinality(BasesOf(cached)) # 1
          \/ Cardinality(DOMAIN cached) < Overlap
          \/ asof < Latest(cached) \/ asof - Latest(cached) > MaxGap
          \/ asof - full >= FullEvery
       THEN "full"
  ELSE "incremental"

(* merge_history: the new bars, if the overlap shows the same base.        *)
MergeHistory(cached, base, asof) ==
  LET new == Enriched(Fresh(base, Start(cached), asof), cached)
  IN Trimmed([d \in DOMAIN cached \cup DOMAIN new |->
                IF d \in DOMAIN new THEN new[d] ELSE cached[d]])

FirstKept(asof) == IF asof > Window THEN asof - Window + 1 ELSE 1
Update(mode, series, cached, from) ==
  [state |-> "done", mode |-> mode, series |-> series, base |-> cached, from |-> from]
FullUpdates(cached, asof) ==
  {Update("full", Fresh(b, FirstKept(asof), asof), cached, 0) : b \in Bases}

(* update_history: the answers may come from any source that is not        *)
(* cooling, of whatever adjustment is current then; when the overlap has   *)
(* another base everything is asked for again.                             *)
Updates(cached, asof, full) ==
  LET w == RequestWindow(cached, asof, full)
  IN CASE w = "cached" -> {Update("cached", cached, cached, 0)}
       [] w = "full" -> FullUpdates(cached, asof)
       [] w = "incremental" ->
            {Update("incremental", MergeHistory(cached, b, asof), cached, Start(cached)) :
               b \in BasesOf(cached)}
            \cup (IF Bases \subseteq BasesOf(cached) THEN {} ELSE FullUpdates(cached, asof))

DownloadHistory(s, job) ==
  Updates(bars[s], job.asof, IF s \in DOMAIN row THEN row[s].full ELSE 0)

(* download_metrics: the sources know the fields of all days or of none.   *)
DownloadMetrics(s, job) ==
  {[state |-> "done", base |-> bars[s], asof |-> job.asof, donors |-> D] :
     D \in {{}, DOMAIN bars[s]}}

(* A thread reads the cache and leaves a result, or a failure; a source    *)
(* that refuses puts itself in a cooldown (SourceCooling).                 *)
Queued(F, k) == k \in DOMAIN F /\ F[k].state = "queued"
Results(F, k) ==
  IF k[2] \in Unreachable THEN {}
  ELSE IF k[1] = "history" THEN DownloadHistory(k[2], F[k]) ELSE DownloadMetrics(k[2], F[k])
Answer(k) ==
  /\ Queued(futures, k) /\ futures' \in {With(futures, k, j) : j \in Results(futures, k)}
  /\ UNCHANGED <<target, tracked, tables, late, cooling, takeovers>>
Fail(k) ==
  /\ Queued(futures, k)
  /\ \/ futures' = With(futures, k, [state |-> "failed"])
     \/ k[1] = "history" /\ futures' = With(futures, k, [state |-> "refused"])
  /\ UNCHANGED <<target, tracked, tables, late, cooling, takeovers>>
AnswerLate(k) ==
  /\ Queued(late, k)
  /\ late' \in {With(late, k, j) : j \in Results(late, k) \cup {[state |-> "failed"]}}
  /\ UNCHANGED <<target, tracked, tables, futures, cooling, takeovers>>

----------------------------------------------------------------------------
(* collect: a finished job is ingested, or its failure recorded.           *)

(* A result for another day than the request row asks is stale.            *)
Current(s, job) == s \in DOMAIN request => Latest(job.series) = request[s].target

Supplemented_Bare(s, job) == job.series
Supplemented(s, job) == Enriched(job.series, bars[s])
StoreHistory(s, job) ==
  LET series == Supplemented(s, job)
      kept   == {d \in DOMAIN bars[s] : d >= Min(DOMAIN series)}
      new    == {d \in DOMAIN series : d >= job.from}
  IN /\ bars' = CASE job.mode = "cached" -> bars
                  [] job.mode = "full" -> [bars EXCEPT ![s] = series]
                  [] job.mode = "incremental" ->
                       [bars EXCEPT ![s] = [d \in kept \cup new |->
                          IF d \in new THEN series[d] ELSE @[d]]]
     /\ row' = With(row, s,
          [target |-> Latest(series),
           full |-> IF job.mode = "full" \/ s \notin DOMAIN row THEN Latest(series)
                    ELSE row[s].full])
     /\ request' = Without(request, s)
     /\ UNCHANGED metricsRequest
(* ingest: only over the very cache the download started from.             *)
IngestHistory_Unsigned(s, job) == StoreHistory(s, job)
IngestHistory(s, job) == bars[s] = job.base /\ StoreHistory(s, job)

WithFields(series, D) == [d \in DOMAIN series |-> [series[d] EXCEPT !.rich = @ \/ d \in D]]
IngestMetrics(s, job) ==
  /\ bars[s] = job.base
  /\ (\E d \in job.donors : ~bars[s][d].rich) \/ ~Missing(bars[s])
  /\ bars' = [bars EXCEPT ![s] = WithFields(@, job.donors)]
  /\ metricsRequest' = Ordered(With(metricsRequest, s,
       [at |-> Newest(metricsRequest), target |-> job.asof, wait |-> TRUE]))
  /\ UNCHANGED <<row, request>>

(* A failure sets the retry time, over whatever row there is.              *)
Failure(f, s) ==
  Ordered(With(f, s, IF s \in DOMAIN f THEN [f[s] EXCEPT !.wait = TRUE]
                     ELSE [at |-> Newest(f), target |-> target, wait |-> TRUE]))

Ingested(k, job) ==
  /\ job.state = "done"
  /\ k[1] = "history" => Current(k[2], job)
  /\ \/ k[2] \notin tracked /\ UNCHANGED tables
     \/ k[2] \in tracked /\ k[1] = "history" /\ IngestHistory(k[2], job)
     \/ k[2] \in tracked /\ k[1] = "metrics" /\ IngestMetrics(k[2], job)
Rejected(k, job) ==
  \/ job.state \in {"failed", "refused"}
  \/ /\ job.state = "done"
     /\ \/ k[1] = "history" /\ ~Current(k[2], job)
        \/ k[2] \in tracked /\ bars[k[2]] # job.base
        \/ /\ k[2] \in tracked /\ k[1] = "metrics" /\ bars[k[2]] = job.base
           /\ Missing(bars[k[2]]) /\ \A d \in job.donors : bars[k[2]][d].rich
Recorded(k) ==
  /\ IF k[1] = "history"
     THEN request' = Failure(request, k[2]) /\ UNCHANGED metricsRequest
     ELSE metricsRequest' = Failure(metricsRequest, k[2]) /\ UNCHANGED request
  /\ UNCHANGED <<bars, row>>

Collect(k) ==
  /\ k \in DOMAIN futures /\ futures[k].state # "queued"
  /\ futures' = Without(futures, k)
  /\ \/ Ingested(k, futures[k]) /\ UNCHANGED cooling
     \/ /\ Rejected(k, futures[k]) /\ Recorded(k)
        /\ cooling' = (cooling \/ (k[1] = "history" /\ futures[k].state = "refused"))
  /\ UNCHANGED <<target, tracked, late, takeovers>>

(* The tick a worker was overtaken in still collects what is done.         *)
CollectLate(k) ==
  /\ k \in DOMAIN late /\ late[k].state # "queued"
  /\ late' = Without(late, k)
  /\ \/ Ingested(k, late[k])
     \/ Rejected(k, late[k]) /\ Recorded(k)
  /\ UNCHANGED <<target, tracked, futures, cooling, takeovers>>

----------------------------------------------------------------------------
(* The world around.                                                       *)
NextDay ==
  /\ target < LastDay /\ target' = target + 1
  /\ UNCHANGED <<tracked, tables, queue, takeovers>>
(* add_etf, remove_etf: the rows of a removed ETF stay.                    *)
ChangePool(s) ==
  /\ tracked' = IF s \in tracked THEN tracked \ {s} ELSE tracked \cup {s}
  /\ UNCHANGED <<target, tables, queue, takeovers>>
RetryTime(s) ==
  /\ s \in DOMAIN request /\ request[s].wait
  /\ request' = [request EXCEPT ![s].wait = FALSE]
  /\ UNCHANGED <<target, tracked, bars, row, metricsRequest, queue, takeovers>>
MetricsRetryTime(s) ==
  /\ s \in DOMAIN metricsRequest /\ metricsRequest[s].wait
  /\ metricsRequest' = [metricsRequest EXCEPT ![s].wait = FALSE]
  /\ UNCHANGED <<target, tracked, bars, row, request, queue, takeovers>>
CooldownEnds ==
  /\ cooling /\ cooling' = FALSE
  /\ UNCHANGED <<target, tracked, tables, futures, late, takeovers>>

(* Another worker takes over, or the same one starts again: its queue is   *)
(* empty, the cooldown is read from the state table.                       *)
TakeOver ==
  /\ takeovers < MaxTakeovers /\ futures # None /\ takeovers' = takeovers + 1
  /\ late' = futures /\ futures' = None
  /\ UNCHANGED <<target, tracked, tables, cooling>>
LateEnds ==
  /\ late # None /\ late' = None
  /\ UNCHANGED <<target, tracked, tables, futures, cooling, takeovers>>

Next ==
  \/ ScheduleHistories \/ ScheduleMetrics
  \/ \E k \in Keys : Answer(k) \/ Fail(k) \/ AnswerLate(k) \/ Collect(k) \/ CollectLate(k)
  \/ NextDay \/ CooldownEnds \/ TakeOver \/ LateEnds
  \/ \E s \in Removable : ChangePool(s)
  \/ \E s \in Etfs : RetryTime(s) \/ MetricsRetryTime(s)

Spec == Init /\ [][Next]_vars

(* The worker ticks, downloads come to an end (every request has a time    *)
(* limit), a reachable ETF's download that is tried again and again        *)
(* succeeds in the end, and time passes.                                   *)
Fairness ==
  /\ WF_vars(ScheduleHistories)
  /\ WF_vars(\E s \in Etfs : Answer(<<"history", s>>) \/ Fail(<<"history", s>>))
  /\ WF_vars(\E s \in Etfs : Collect(<<"history", s>>))
  /\ \A s \in Etfs \ Unreachable : SF_vars(Answer(<<"history", s>>)) /\ WF_vars(RetryTime(s))
  /\ WF_vars(NextDay) /\ WF_vars(CooldownEnds)
FairSpec == Spec /\ Fairness

----------------------------------------------------------------------------
(* Properties.                                                             *)

(* docs/data.md: one ETF's bars are of one source and one adjustment, never*)
(* spliced, whatever was ingested between a download's reading of the      *)
(* cache and its own ingestion, and whoever ingested it.                   *)
OneBase == \A s \in Etfs : \A d, e \in DOMAIN bars[s] : bars[s][d].base = bars[s][e].base

(* readiness takes an ETF as up to date when its state row names the day   *)
(* of its last bar: the row is never ahead of the bars or behind them, and *)
(* no day is missing between the first and the last.                       *)
RowIsTrue ==
  \A s \in Etfs :
    /\ s \in DOMAIN row <=> DOMAIN bars[s] # {}
    /\ s \in DOMAIN row =>
         /\ row[s].target = Latest(bars[s])
         /\ DOMAIN bars[s] = Min(DOMAIN bars[s]) .. Latest(bars[s])

(* "Optional fields omitted by a price refresh must not erase known        *)
(* values": a bar whose fields are known keeps them as long as it is kept, *)
(* over full downloads from sources without them too.                      *)
MetricsKept ==
  [][\A s \in Etfs : \A d \in DOMAIN bars[s] \cap DOMAIN bars'[s] :
       bars[s][d].rich => bars'[s][d].rich]_vars

(* docs/data.md: the rotation keeps failing ETFs from occupying the queue: *)
(* the history of every ETF some source answers for arrives, whatever the  *)
(* others of its class do, over takeovers, cooldowns and a changing day.   *)
HistoriesArrive ==
  \A s \in Etfs \ Unreachable :
    (\A t \in Unreachable : Class[t] >= Class[s]) =>
      (<>[](s \in tracked) => <>[](s \in DOMAIN row /\ row[s].target = LastDay))
=============================================================================
