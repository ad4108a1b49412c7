--------------------------- MODULE HistoriesProofs ---------------------------
(***************************************************************************)
(* For any ETFs, windows, bases of prices and capacity, with any number of *)
(* takeovers.                                                              *)
(***************************************************************************)
EXTENDS Histories, FiniteSetTheorems, TLAPS

(* A series of bars, all of one base.                                      *)
Bar == [base : Bases, rich : BOOLEAN]
IsSeries(f) == f = [d \in DOMAIN f |-> f[d]] /\ \A d \in DOMAIN f : f[d] \in Bar
SameBase(f, g) == \A d \in DOMAIN f : \A e \in DOMAIN g : f[d].base = g[e].base
Pure(f) == IsSeries(f) /\ SameBase(f, f)

(* What a download leaves: bars of one base, which is that of the cache it *)
(* read if it only adds to it.                                             *)
SoundUpdate(job) ==
  /\ job.mode \in {"cached", "full", "incremental"}
  /\ Pure(job.series)
  /\ job.mode = "incremental" => SameBase(job.base, job.series)
SoundJobs(F) ==
  \A k \in DOMAIN F : k[1] = "history" /\ F[k].state = "done" => SoundUpdate(F[k])
SoundBars(b) == b = [s \in Etfs |-> b[s]] /\ \A s \in Etfs : Pure(b[s])
CacheInv == SoundBars(bars) /\ SoundJobs(futures) /\ SoundJobs(late)

----------------------------------------------------------------------------
(* Fields never change a base.                                             *)
LEMMA EnrichedBase ==
  ASSUME NEW f, NEW known, IsSeries(f), IsSeries(known)
  PROVE  /\ IsSeries(Enriched(f, known)) /\ DOMAIN Enriched(f, known) = DOMAIN f
         /\ \A d \in DOMAIN f :
              /\ Enriched(f, known)[d].base = f[d].base
              /\ Enriched(f, known)[d].rich = (f[d].rich \/ (d \in DOMAIN known /\ known[d].rich))
<1> DEFINE g == Enriched(f, known)
<1>1. g = [d \in DOMAIN f |-> [f[d] EXCEPT !.rich = @ \/ (d \in DOMAIN known /\ known[d].rich)]]
  BY DEF Enriched
<1>2. DOMAIN g = DOMAIN f /\ g = [d \in DOMAIN g |-> g[d]]
  BY <1>1
<1>3. ASSUME NEW d \in DOMAIN f
      PROVE  /\ g[d] \in Bar /\ g[d].base = f[d].base
             /\ g[d].rich = (f[d].rich \/ (d \in DOMAIN known /\ known[d].rich))
  <2>1. g[d] = [f[d] EXCEPT !.rich = @ \/ (d \in DOMAIN known /\ known[d].rich)]
    BY <1>1
  <2>2. f[d] \in Bar
    BY DEF IsSeries
  <2> QED
    BY <2>1, <2>2 DEF Bar
<1> QED
  BY <1>2, <1>3 DEF IsSeries

LEMMA FreshPure ==
  ASSUME NEW b \in Bases, NEW first, NEW last
  PROVE  Pure(Fresh(b, first, last)) /\ \A d \in DOMAIN Fresh(b, first, last) : Fresh(b, first, last)[d].base = b
BY DEF Fresh, Pure, IsSeries, SameBase, Bar

LEMMA MergedPure ==
  ASSUME NEW cached, Pure(cached), NEW b \in BasesOf(cached), NEW asof
  PROVE  Pure(MergeHistory(cached, b, asof)) /\ SameBase(cached, MergeHistory(cached, b, asof))
<1> DEFINE new == Enriched(Fresh(b, Start(cached), asof), cached)
           all == [d \in DOMAIN cached \cup DOMAIN new |-> IF d \in DOMAIN new THEN new[d] ELSE cached[d]]
           m == Trimmed(all)
<1>1. b \in Bases /\ \A d \in DOMAIN cached : cached[d].base = b
  BY DEF BasesOf, Pure, IsSeries, SameBase, Bar
<1>2. IsSeries(new) /\ \A d \in DOMAIN new : new[d].base = b
  BY <1>1, FreshPure, EnrichedBase DEF Pure
<1>3. \A d \in DOMAIN all : all[d] \in Bar /\ all[d].base = b
  BY <1>1, <1>2 DEF IsSeries, Pure
<1>4. m = [d \in DOMAIN m |-> m[d]] /\ \A d \in DOMAIN m : m[d] \in Bar /\ m[d].base = b
  <2> HIDE DEF all
  <2> QED
    BY <1>3 DEF Trimmed, NewestDays
<1>5. m = MergeHistory(cached, b, asof)
  BY DEF MergeHistory
<1> HIDE DEF m
<1> QED
  BY <1>1, <1>4, <1>5 DEF Pure, IsSeries, SameBase

LEMMA UpdatesSound ==
  ASSUME NEW cached, Pure(cached), NEW asof, NEW full, NEW job \in Updates(cached, asof, full)
  PROVE  SoundUpdate(job)
<1> DEFINE w == RequestWindow(cached, asof, full)
<1>1. ASSUME NEW j \in FullUpdates(cached, asof) PROVE SoundUpdate(j)
  <2>1. PICK b \in Bases : j = Update("full", Fresh(b, FirstKept(asof), asof), cached, 0)
    BY DEF FullUpdates
  <2> QED
    BY <2>1, FreshPure DEF Update, SoundUpdate
<1>2. CASE w = "cached"
  <2>1. job = Update("cached", cached, cached, 0)
    BY <1>2 DEF Updates
  <2> QED
    BY <2>1 DEF Update, SoundUpdate
<1>3. CASE w = "full"
  BY <1>1, <1>3 DEF Updates
<1>4. CASE w = "incremental"
  <2>1. \/ \E b \in BasesOf(cached) :
             job = Update("incremental", MergeHistory(cached, b, asof), cached, Start(cached))
        \/ job \in FullUpdates(cached, asof)
    BY <1>4 DEF Updates
  <2>2. ASSUME NEW b \in BasesOf(cached),
               job = Update("incremental", MergeHistory(cached, b, asof), cached, Start(cached))
        PROVE  SoundUpdate(job)
    BY <2>2, MergedPure DEF Update, SoundUpdate
  <2> QED
    BY <1>1, <2>1, <2>2
<1> QED
  BY <1>2, <1>3, <1>4 DEF RequestWindow

----------------------------------------------------------------------------
(* An ingestion keeps the cache pure, and the fields that are known.       *)
FieldsKept(old, new) ==
  \A d \in DOMAIN old \cap DOMAIN new : old[d].rich => new[d].rich

LEMMA Stored ==
  ASSUME SoundBars(bars), NEW s \in Etfs, NEW job, SoundUpdate(job), IngestHistory(s, job)
  PROVE  SoundBars(bars') /\ \A t \in Etfs : FieldsKept(bars[t], bars'[t])
<1> DEFINE series == Supplemented(s, job)
<1>1. Pure(bars[s]) /\ bars[s] = job.base
  BY DEF SoundBars, IngestHistory
<1>2. /\ IsSeries(series) /\ DOMAIN series = DOMAIN job.series
      /\ \A d \in DOMAIN series :
           /\ series[d].base = job.series[d].base
           /\ d \in DOMAIN bars[s] /\ bars[s][d].rich => series[d].rich
  <2>1. IsSeries(job.series) /\ IsSeries(bars[s])
    BY <1>1 DEF SoundUpdate, Pure
  <2>2. series = Enriched(job.series, bars[s])
    BY DEF Supplemented
  <2>3. IsSeries(Enriched(job.series, bars[s]))
        /\ DOMAIN Enriched(job.series, bars[s]) = DOMAIN job.series
    BY <2>1, EnrichedBase
  <2>4. \A d \in DOMAIN job.series :
          /\ Enriched(job.series, bars[s])[d].base = job.series[d].base
          /\ Enriched(job.series, bars[s])[d].rich
               = (job.series[d].rich \/ (d \in DOMAIN bars[s] /\ bars[s][d].rich))
    BY <2>1, EnrichedBase
  <2> HIDE DEF series
  <2>5. \A d \in DOMAIN series : series[d].base = job.series[d].base
    BY <2>2, <2>3, <2>4
  <2>6. \A d \in DOMAIN series : d \in DOMAIN bars[s] /\ bars[s][d].rich => series[d].rich
    BY <2>2, <2>3, <2>4
  <2> QED
    BY <2>2, <2>3, <2>5, <2>6
<1>3. Pure(series) /\ FieldsKept(bars[s], series)
  BY <1>2 DEF Pure, SameBase, SoundUpdate, FieldsKept
<1>4. ASSUME NEW f, bars' = [bars EXCEPT ![s] = f], Pure(f), FieldsKept(bars[s], f)
      PROVE  SoundBars(bars') /\ \A t \in Etfs : FieldsKept(bars[t], bars'[t])
  <2>1. bars' = [t \in Etfs |-> IF t = s THEN f ELSE bars[t]]
    BY <1>4 DEF SoundBars
  <2>2. SoundBars(bars')
    BY <1>4, <2>1 DEF SoundBars
  <2> QED
    BY <1>4, <2>1, <2>2 DEF FieldsKept
<1>5. CASE job.mode = "cached"
  BY <1>5 DEF IngestHistory, StoreHistory, FieldsKept
<1>6. CASE job.mode = "full"
  <2>1. bars' = [bars EXCEPT ![s] = series]
    BY <1>6 DEF IngestHistory, StoreHistory
  <2> HIDE DEF series
  <2> QED
    BY <1>3, <1>4, <2>1
<1>7. CASE job.mode = "incremental"
  <2> DEFINE kept == {d \in DOMAIN bars[s] : d >= Min(DOMAIN series)}
             new == {d \in DOMAIN series : d >= job.from}
             f == [d \in kept \cup new |-> IF d \in new THEN series[d] ELSE bars[s][d]]
  <2>1. bars' = [bars EXCEPT ![s] = f]
    BY <1>7 DEF IngestHistory, StoreHistory, SoundBars
  <2>2. SameBase(bars[s], series)
    BY <1>1, <1>2, <1>7 DEF SoundUpdate, SameBase
  <2>3. \A d \in kept \cup new : f[d] = IF d \in new THEN series[d] ELSE bars[s][d]
    OBVIOUS
  <2>4. kept \subseteq DOMAIN bars[s] /\ new \subseteq DOMAIN series
        /\ DOMAIN f = kept \cup new /\ f = [d \in DOMAIN f |-> f[d]]
    OBVIOUS
  <2> HIDE DEF series, kept, new, f
  <2>5. Pure(f)
    BY <1>1, <1>3, <2>2, <2>3, <2>4 DEF Pure, IsSeries, SameBase
  <2>6. FieldsKept(bars[s], f)
    BY <1>3, <2>3, <2>4 DEF FieldsKept
  <2> QED
    BY <1>4, <2>1, <2>5, <2>6
<1> QED
  BY <1>5, <1>6, <1>7 DEF SoundUpdate

LEMMA Completed ==
  ASSUME SoundBars(bars), NEW s \in Etfs, NEW job, IngestMetrics(s, job)
  PROVE  SoundBars(bars') /\ \A t \in Etfs : FieldsKept(bars[t], bars'[t])
<1> DEFINE f == WithFields(bars[s], job.donors)
<1>1. bars' = [t \in Etfs |-> IF t = s THEN f ELSE bars[t]]
  <2>1. bars' = [bars EXCEPT ![s] = f]
    BY DEF IngestMetrics
  <2>2. DOMAIN bars = Etfs
    BY DEF SoundBars
  <2> HIDE DEF f
  <2> QED
    BY <2>1, <2>2
<1>2. Pure(bars[s])
  BY DEF SoundBars
<1>3. ASSUME NEW d \in DOMAIN bars[s]
      PROVE  f[d] \in Bar /\ f[d].base = bars[s][d].base /\ (bars[s][d].rich => f[d].rich)
  <2>1. bars[s][d] \in Bar
    BY <1>2 DEF Pure, IsSeries
  <2>2. f[d] = [bars[s][d] EXCEPT !.rich = @ \/ d \in job.donors]
    BY DEF WithFields
  <2> QED
    BY <2>1, <2>2 DEF Bar
<1>4. DOMAIN f = DOMAIN bars[s] /\ f = [d \in DOMAIN f |-> f[d]]
  BY DEF WithFields
<1> HIDE DEF f
<1>5. Pure(f) /\ FieldsKept(bars[s], f)
  BY <1>2, <1>3, <1>4 DEF Pure, IsSeries, SameBase, FieldsKept
<1> QED
  BY <1>1, <1>5 DEF SoundBars, FieldsKept

LEMMA Collected ==
  ASSUME SoundBars(bars), NEW k \in Keys, NEW job,
         k[1] = "history" /\ job.state = "done" => SoundUpdate(job),
         Ingested(k, job) \/ (Rejected(k, job) /\ Recorded(k))
  PROVE  SoundBars(bars') /\ \A t \in Etfs : FieldsKept(bars[t], bars'[t])
<1>1. k[2] \in Etfs
  BY DEF Keys
<1>2. CASE UNCHANGED bars
  BY <1>2 DEF FieldsKept
<1>3. CASE Ingested(k, job) /\ k[1] = "history" /\ IngestHistory(k[2], job)
  BY <1>1, <1>3, Stored DEF Ingested
<1>4. CASE IngestMetrics(k[2], job)
  BY <1>1, <1>4, Completed
<1> QED
  BY <1>2, <1>3, <1>4 DEF Ingested, Recorded, tables

LEMMA CacheInvHolds == Spec => []CacheInv
<1>1. Init => CacheInv
  BY DEF Init, CacheInv, SoundBars, SoundJobs, Pure, IsSeries, SameBase, None
<1>2. CacheInv /\ [Next]_vars => CacheInv'
  <2> SUFFICES ASSUME CacheInv, [Next]_vars PROVE CacheInv'
    OBVIOUS
  <2> USE DEF CacheInv
  (* What the pool leaves is sound for the cache it read. *)
  <2>1. ASSUME NEW F, NEW k \in Keys, NEW job \in Results(F, k), k[1] = "history"
        PROVE  SoundUpdate(job)
    <3>1. Pure(bars[k[2]])
      BY DEF Keys, SoundBars
    <3>2. job \in DownloadHistory(k[2], F[k])
      BY <2>1 DEF Results
    <3> QED
      BY <3>1, <3>2, UpdatesSound DEF DownloadHistory
  <2>2. ASSUME NEW F, SoundJobs(F), NEW k \in Keys, NEW job,
               job \in Results(F, k) \/ job.state # "done"
        PROVE  SoundJobs(With(F, k, job))
    BY <2>1, <2>2 DEF SoundJobs, With
  <2>3. ASSUME NEW F, SoundJobs(F), NEW k PROVE SoundJobs(Without(F, k))
    BY <2>3 DEF SoundJobs, Without
  <2>4. SoundJobs(None)
    BY DEF SoundJobs, None
  <2>5. CASE ScheduleHistories
    <3>1. \A k \in DOMAIN futures' :
            \/ k \in DOMAIN futures /\ futures'[k] = futures[k]
            \/ futures'[k].state = "queued"
      BY <2>5 DEF ScheduleHistories
    <3>2. UNCHANGED <<bars, late>>
      BY <2>5 DEF ScheduleHistories
    <3> QED
      BY <3>1, <3>2 DEF SoundJobs
  <2>6. CASE ScheduleMetrics
    BY <2>2, <2>6 DEF ScheduleMetrics, SoundJobs, With
  <2>7. ASSUME NEW k \in Keys, Answer(k) PROVE CacheInv'
    <3>1. SoundJobs(futures')
      BY <2>2, <2>7 DEF Answer
    <3> QED
      BY <2>7, <3>1 DEF Answer, tables
  <2>8. ASSUME NEW k \in Keys, Fail(k) PROVE CacheInv'
    <3>1. SoundJobs(futures')
      BY <2>2, <2>8 DEF Fail
    <3> QED
      BY <2>8, <3>1 DEF Fail, tables
  <2>9. ASSUME NEW k \in Keys, AnswerLate(k) PROVE CacheInv'
    <3>1. SoundJobs(late')
      BY <2>2, <2>9 DEF AnswerLate
    <3> QED
      BY <2>9, <3>1 DEF AnswerLate, tables
  <2>10. ASSUME NEW k \in Keys, Collect(k) PROVE CacheInv'
    <3>1. SoundBars(bars')
      BY <2>10, Collected DEF Collect, SoundJobs
    <3>2. SoundJobs(futures') /\ late' = late
      BY <2>3, <2>10 DEF Collect
    <3> QED
      BY <3>1, <3>2
  <2>11. ASSUME NEW k \in Keys, CollectLate(k) PROVE CacheInv'
    <3>1. SoundBars(bars')
      BY <2>11, Collected DEF CollectLate, SoundJobs
    <3>2. SoundJobs(late') /\ futures' = futures
      BY <2>3, <2>11 DEF CollectLate
    <3> QED
      BY <3>1, <3>2
  <2>12. CASE TakeOver
    BY <2>4, <2>12 DEF TakeOver, tables
  <2>13. CASE LateEnds
    BY <2>4, <2>13 DEF LateEnds, tables
  <2>14. ASSUME UNCHANGED <<bars, futures, late>> PROVE CacheInv'
    BY <2>14
  <2>15. CASE NextDay \/ CooldownEnds \/ UNCHANGED vars
    BY <2>14, <2>15 DEF NextDay, CooldownEnds, vars, tables, queue
  <2>16. ASSUME NEW s \in Etfs, ChangePool(s) \/ RetryTime(s) \/ MetricsRetryTime(s)
         PROVE  CacheInv'
    BY <2>14, <2>16 DEF ChangePool, RetryTime, MetricsRetryTime, tables, queue
  <2> QED
    BY HistoriesAssumption, <2>5, <2>6, <2>7, <2>8, <2>9, <2>10, <2>11, <2>12, <2>13, <2>15, <2>16
    DEF Next
<1> QED
  BY <1>1, <1>2, PTL DEF Spec

(* docs/data.md: bars of different sources or adjustments are never        *)
(* spliced (ingest, merge_history).                                        *)
THEOREM NeverSpliced == Spec => []OneBase
<1>1. CacheInv => OneBase
  BY DEF CacheInv, SoundBars, Pure, SameBase, OneBase
<1> QED
  BY <1>1, CacheInvHolds, PTL

(* The comment at app/market_data/history.py:160: optional fields omitted  *)
(* by a price refresh must not erase known values (enrich_metrics, ingest).*)
THEOREM FieldsAreKept == Spec => MetricsKept
<1> DEFINE Keeps == \A s \in Etfs : \A d \in DOMAIN bars[s] \cap DOMAIN bars'[s] :
                      bars[s][d].rich => bars'[s][d].rich
<1>1. CacheInv /\ [Next]_vars => Keeps
  <2> SUFFICES ASSUME CacheInv, [Next]_vars PROVE Keeps
    OBVIOUS
  <2>1. ASSUME NEW k \in Keys, Collect(k) PROVE Keeps
    BY <2>1, Collected DEF Collect, CacheInv, SoundJobs, FieldsKept
  <2>2. ASSUME NEW k \in Keys, CollectLate(k) PROVE Keeps
    BY <2>2, Collected DEF CollectLate, CacheInv, SoundJobs, FieldsKept
  <2>3. CASE UNCHANGED bars
    BY <2>3
  <2> HIDE DEF Keeps
  <2> QED
    BY <2>1, <2>2, <2>3
    DEF Next, ScheduleHistories, ScheduleMetrics, Answer, Fail, AnswerLate, NextDay, CooldownEnds,
        TakeOver, LateEnds, ChangePool, RetryTime, MetricsRetryTime, vars, tables, queue
<1>2. CacheInv /\ [Next]_vars => [Keeps]_vars
  BY <1>1
<1> QED
  BY <1>2, CacheInvHolds, PTL DEF Spec, MetricsKept

----------------------------------------------------------------------------
(* The days of a series follow one another without a gap; what a download  *)
(* leaves is such a series, and one that only adds to the cache it read    *)
(* begins among its days and starts to add there.                          *)
IsSpan(D) == \E a, z \in Days : a <= z /\ D = a .. z
Continues(old, from, new) ==
  \E a, l, first, asof \in Days :
    /\ a <= first /\ first <= asof /\ a <= from /\ from <= l /\ l <= asof
    /\ from \in Days /\ DOMAIN old = a .. l /\ DOMAIN new = first .. asof
DatedUpdate(job) ==
  /\ IsSpan(DOMAIN job.series)
  /\ job.mode = "cached" => job.series = job.base
  /\ job.mode = "incremental" => Continues(job.base, job.from, job.series)
DatedJobs(F) ==
  \A k \in DOMAIN F : k[1] = "history" =>
    /\ F[k].state = "queued" => F[k].asof \in Days
    /\ F[k].state = "done" => DatedUpdate(F[k])
RowSays(b, r) ==
  \A s \in Etfs :
    /\ s \in DOMAIN r <=> DOMAIN b[s] # {}
    /\ s \in DOMAIN r => IsSpan(DOMAIN b[s]) /\ r[s].target = Latest(b[s])
RowInv == target \in Days /\ RowSays(bars, row) /\ DatedJobs(futures) /\ DatedJobs(late)

LEMMA SpanEnds ==
  ASSUME NEW a \in Int, NEW z \in Int, a <= z
  PROVE  Min(a .. z) = a /\ Max(a .. z) = z
<1>1. a \in a .. z /\ z \in a .. z
  OBVIOUS
<1>2. (\A y \in a .. z : a <= y) /\ (\A y \in a .. z : z >= y)
  OBVIOUS
<1>3. Min(a .. z) \in a .. z /\ \A y \in a .. z : Min(a .. z) <= y
  BY <1>1, <1>2 DEF Min
<1>4. Max(a .. z) \in a .. z /\ \A y \in a .. z : Max(a .. z) >= y
  BY <1>1, <1>2 DEF Max
<1>5. Min(a .. z) <= a /\ Max(a .. z) >= z
  BY <1>1, <1>3, <1>4
<1> QED
  BY <1>3, <1>4, <1>5

LEMMA NewestOfSpan ==
  ASSUME NEW a \in Int, NEW z \in Int, a <= z, NEW n \in Nat \ {0}
  PROVE  \E first \in a .. z : NewestDays(a .. z, n) = first .. z
<1> DEFINE first == IF a <= z - n THEN z - n + 1 ELSE a
<1>1. first \in a .. z
  OBVIOUS
<1>2. ASSUME NEW d \in a .. z
      PROVE  Cardinality({e \in a .. z : e > d}) = z - d
  <2>0. d \in Int /\ d + 1 \in Int /\ a <= d /\ d <= z
    OBVIOUS
  <2>1. {e \in a .. z : e > d} = d + 1 .. z
    BY <2>0
  <2>2. Cardinality(d + 1 .. z) = IF d + 1 > z THEN 0 ELSE z - (d + 1) + 1
    BY <2>0, FS_Interval
  <2>3. (IF d + 1 > z THEN 0 ELSE z - (d + 1) + 1) = z - d
    BY <2>0
  <2> QED
    BY <2>1, <2>2, <2>3
<1>3. NewestDays(a .. z, n) = {d \in a .. z : z - d < n}
  BY <1>2 DEF NewestDays
<1>4. NewestDays(a .. z, n) = first .. z
  <2>1. {d \in a .. z : z - d < n} = first .. z
    <3>1. CASE a <= z - n
      BY <3>1
    <3>2. CASE ~(a <= z - n)
      BY <3>2
    <3> QED
      BY <3>1, <3>2
  <2> QED
    BY <1>3, <2>1
<1> QED
  BY <1>1, <1>4

LEMMA TheDays ==
  /\ Days = 1 .. LastDay /\ LastDay \in Nat \ {0} /\ Window \in Nat \ {0} /\ Overlap \in Nat \ {0}
  /\ FirstTarget \in Days /\ \A d \in Days : d \in Nat \ {0} /\ d <= LastDay
  /\ \A a, z, d \in Days : d \in a .. z => d \in Days
  /\ \A a, z \in Days : a .. z \subseteq Days
BY HistoriesAssumption DEF Days

(* merge_history adds the days after the cache and keeps the window.       *)
LEMMA MergedSpan ==
  ASSUME NEW cached, DOMAIN cached # {}, IsSpan(DOMAIN cached), NEW b, NEW asof \in Days,
         ~(asof < Latest(cached))
  PROVE  Continues(cached, Start(cached), MergeHistory(cached, b, asof))
<1>1. PICK a, l \in Days : a <= l /\ DOMAIN cached = a .. l
  BY DEF IsSpan
<1>2. Latest(cached) = l /\ a \in Int /\ l \in Int
  BY <1>1, SpanEnds, TheDays DEF Latest
<1>3. /\ a \in Nat /\ l \in Nat /\ asof \in Nat /\ a \in Int /\ l \in Int /\ asof \in Int
      /\ a <= l /\ l <= asof
  BY <1>1, <1>2, TheDays
<1>4. PICK x \in a .. l : NewestDays(a .. l, Overlap) = x .. l
  BY <1>3, NewestOfSpan, TheDays
<1>5. x \in Int /\ x <= l /\ a <= x
  BY <1>3
<1>6. Start(cached) = x
  BY <1>1, <1>4, <1>5, <1>3, SpanEnds DEF Start
<1>7. x \in Days
  BY <1>4, TheDays
<1> DEFINE new == Enriched(Fresh(b, Start(cached), asof), cached)
           all == [d \in DOMAIN cached \cup DOMAIN new |->
                     IF d \in DOMAIN new THEN new[d] ELSE cached[d]]
<1>8. DOMAIN new = x .. asof
  BY <1>6 DEF Enriched, Fresh
<1>9. DOMAIN all = a .. asof
  <2>1. a .. l \cup x .. asof = a .. asof
    BY <1>3, <1>5
  <2>2. DOMAIN all = DOMAIN cached \cup DOMAIN new
    OBVIOUS
  <2> QED
    BY <1>1, <1>8, <2>1, <2>2
<1>10. a <= asof /\ Window \in Nat \ {0}
  <2>1. Window \in Nat \ {0}
    BY TheDays
  <2> QED
    BY <1>3, <2>1
<1>11. PICK first \in a .. asof : NewestDays(a .. asof, Window) = first .. asof
  BY <1>3, <1>10, NewestOfSpan
<1>12. DOMAIN Trimmed(all) = first .. asof
  <2> HIDE DEF all
  <2> QED
    BY <1>9, <1>11 DEF Trimmed
<1>13. MergeHistory(cached, b, asof) = Trimmed(all)
  BY DEF MergeHistory
<1> HIDE DEF all
<1>14. first \in Days /\ a <= first /\ first <= asof
  BY <1>3, <1>11, TheDays
<1> QED
  BY <1>1, <1>3, <1>5, <1>6, <1>7, <1>12, <1>13, <1>14 DEF Continues

LEMMA UpdatesDated ==
  ASSUME NEW cached, DOMAIN cached # {} => IsSpan(DOMAIN cached),
         NEW asof \in Days, NEW full, NEW job \in Updates(cached, asof, full)
  PROVE  DatedUpdate(job)
<1> DEFINE w == RequestWindow(cached, asof, full)
<1>1. ASSUME NEW j \in FullUpdates(cached, asof) PROVE DatedUpdate(j)
  <2>1. PICK b \in Bases : j = Update("full", Fresh(b, FirstKept(asof), asof), cached, 0)
    BY DEF FullUpdates
  <2>2. DOMAIN Fresh(b, FirstKept(asof), asof) = FirstKept(asof) .. asof
    BY DEF Fresh
  <2>3. FirstKept(asof) \in Days /\ FirstKept(asof) <= asof
    BY TheDays DEF FirstKept
  <2>4. IsSpan(DOMAIN Fresh(b, FirstKept(asof), asof))
    BY <2>2, <2>3 DEF IsSpan
  <2> QED
    BY <2>1, <2>4 DEF Update, DatedUpdate
<1>2. CASE w = "cached"
  <2>1. job = Update("cached", cached, cached, 0) /\ DOMAIN cached # {}
    BY <1>2 DEF Updates, RequestWindow
  <2> QED
    BY <2>1 DEF Update, DatedUpdate
<1>3. CASE w = "full"
  BY <1>1, <1>3 DEF Updates
<1>4. CASE w = "incremental"
  <2>1. \/ \E b \in BasesOf(cached) :
             job = Update("incremental", MergeHistory(cached, b, asof), cached, Start(cached))
        \/ job \in FullUpdates(cached, asof)
    BY <1>4 DEF Updates
  <2>2. DOMAIN cached # {} /\ ~(asof < Latest(cached))
    BY <1>4 DEF RequestWindow
  <2>3. ASSUME NEW b \in BasesOf(cached),
               job = Update("incremental", MergeHistory(cached, b, asof), cached, Start(cached))
        PROVE  DatedUpdate(job)
    <3>1. Continues(cached, Start(cached), MergeHistory(cached, b, asof))
      BY <2>2, MergedSpan
    <3>2. /\ job.mode = "incremental" /\ job.series = MergeHistory(cached, b, asof)
          /\ job.base = cached /\ job.from = Start(cached)
      BY <2>3 DEF Update
    <3> QED
      BY <3>1, <3>2 DEF DatedUpdate, Continues, IsSpan
  <2> QED
    BY <1>1, <2>1, <2>3
<1> QED
  BY <1>2, <1>3, <1>4 DEF RequestWindow

(* What is ingested ends on the day the row gets.                          *)
LEMMA StoredDated ==
  ASSUME SoundBars(bars), RowSays(bars, row), NEW s \in Etfs, NEW job, SoundUpdate(job),
         DatedUpdate(job), IngestHistory(s, job)
  PROVE  RowSays(bars', row')
<1> DEFINE series == Supplemented(s, job)
<1>1. DOMAIN series = DOMAIN job.series /\ bars[s] = job.base
  BY DEF Supplemented, Enriched, IngestHistory
<1>2. PICK first, asof \in Days : first <= asof /\ DOMAIN series = first .. asof
  BY <1>1 DEF DatedUpdate, IsSpan
<1>3. Latest(series) = asof /\ Min(DOMAIN series) = first
  BY <1>2, SpanEnds, TheDays DEF Latest
<1>4. DOMAIN row' = DOMAIN row \cup {s} /\ row'[s].target = asof
      /\ \A t \in DOMAIN row : t # s => row'[t] = row[t]
  BY <1>3 DEF IngestHistory, StoreHistory, With
<1>5. ASSUME NEW f, bars' = [bars EXCEPT ![s] = f],
             \E a \in Days : a <= asof /\ DOMAIN f = a .. asof
      PROVE  RowSays(bars', row')
  <2>1. PICK a \in Days : a <= asof /\ DOMAIN f = a .. asof
    BY <1>5
  <2>2. IsSpan(DOMAIN f) /\ DOMAIN f # {} /\ Latest(f) = asof
    <3>1. a \in Int /\ asof \in Int /\ a \in a .. asof
      BY <2>1, TheDays
    <3> QED
      BY <2>1, <3>1, SpanEnds DEF IsSpan, Latest
  <2>3. bars'[s] = f /\ \A t \in Etfs : t # s => bars'[t] = bars[t]
    BY <1>5 DEF SoundBars
  <2> QED
    BY <1>4, <2>2, <2>3 DEF RowSays
<1>6. CASE job.mode = "cached"
  <2>1. bars' = bars /\ bars[s] = job.series
    BY <1>1, <1>6 DEF IngestHistory, StoreHistory, DatedUpdate
  <2>2. bars' = [bars EXCEPT ![s] = bars[s]]
    BY <2>1 DEF SoundBars
  <2>3. DOMAIN bars[s] = first .. asof
    BY <1>1, <1>2, <2>1
  <2> QED
    BY <1>2, <1>5, <2>2, <2>3
<1>7. CASE job.mode = "full"
  <2>1. bars' = [bars EXCEPT ![s] = series]
    BY <1>7 DEF IngestHistory, StoreHistory
  <2> HIDE DEF series
  <2> QED
    BY <1>2, <1>5, <2>1
<1>8. CASE job.mode = "incremental"
  <2> DEFINE kept == {d \in DOMAIN bars[s] : d >= Min(DOMAIN series)}
             new == {d \in DOMAIN series : d >= job.from}
             f == [d \in kept \cup new |-> IF d \in new THEN series[d] ELSE bars[s][d]]
  <2>1. bars' = [bars EXCEPT ![s] = f]
    BY <1>8 DEF IngestHistory, StoreHistory, SoundBars
  <2>2. PICK a, l, x, y \in Days :
          /\ a <= x /\ x <= y /\ a <= job.from /\ job.from <= l /\ l <= y
          /\ job.from \in Days /\ DOMAIN job.base = a .. l /\ DOMAIN job.series = x .. y
    BY <1>8 DEF DatedUpdate, Continues
  <2>3. /\ a \in Int /\ l \in Int /\ x \in Int /\ y \in Int /\ job.from \in Int
        /\ first \in Int /\ asof \in Int
    BY <2>2, TheDays
  <2>4. first = x /\ asof = y
    <3>1. x .. y = first .. asof
      BY <1>1, <1>2, <2>2
    <3>2. Min(x .. y) = x /\ Max(x .. y) = y
      BY <2>2, <2>3, SpanEnds
    <3>3. Min(first .. asof) = first /\ Max(first .. asof) = asof
      BY <1>2, <2>3, SpanEnds
    <3> QED
      BY <3>1, <3>2, <3>3
  <2>5. kept = {d \in a .. l : d >= x} /\ new = {d \in x .. y : d >= job.from}
    BY <1>1, <1>2, <1>3, <2>2, <2>4
  <2>6. kept \cup new = x .. y
    <3> HIDE DEF kept, new
    <3>1. {d \in a .. l : d >= x} \cup {d \in x .. y : d >= job.from} = x .. y
      BY <2>2, <2>3
    <3> QED
      BY <2>5, <3>1
  <2>7. DOMAIN f = first .. asof
    BY <2>4, <2>6
  <2> HIDE DEF f
  <2> QED
    BY <1>2, <1>5, <2>1, <2>7
<1> QED
  BY <1>6, <1>7, <1>8 DEF SoundUpdate

LEMMA CollectedDated ==
  ASSUME SoundBars(bars), RowSays(bars, row), NEW k \in Keys, NEW job,
         k[1] = "history" /\ job.state = "done" => SoundUpdate(job) /\ DatedUpdate(job),
         Ingested(k, job) \/ (Rejected(k, job) /\ Recorded(k))
  PROVE  RowSays(bars', row')
<1>1. k[2] \in Etfs
  BY DEF Keys
<1>2. CASE UNCHANGED <<bars, row>>
  BY <1>2
<1>3. CASE Ingested(k, job) /\ k[1] = "history" /\ IngestHistory(k[2], job)
  BY <1>1, <1>3, StoredDated DEF Ingested
<1>4. CASE IngestMetrics(k[2], job)
  <2>1. bars' = [bars EXCEPT ![k[2]] = WithFields(bars[k[2]], job.donors)] /\ row' = row
    BY <1>4 DEF IngestMetrics
  <2>2. DOMAIN WithFields(bars[k[2]], job.donors) = DOMAIN bars[k[2]]
    BY DEF WithFields
  <2>3. \A t \in Etfs : DOMAIN bars'[t] = DOMAIN bars[t]
    BY <1>1, <2>1, <2>2 DEF SoundBars
  <2> QED
    BY <2>1, <2>3 DEF RowSays, Latest
<1> QED
  BY <1>2, <1>3, <1>4 DEF Ingested, Recorded, tables

LEMMA RowInvHolds == Spec => []RowInv
<1>1. Init => RowInv
  <2> SUFFICES ASSUME Init PROVE RowInv
    OBVIOUS
  <2>1. target \in Days
    BY TheDays DEF Init
  <2>2. DOMAIN None = {}
    BY DEF None
  <2> QED
    BY <2>1, <2>2 DEF Init, RowInv, RowSays, DatedJobs
<1>2. RowInv /\ CacheInv /\ [Next]_vars => RowInv'
  <2> SUFFICES ASSUME RowInv, CacheInv, [Next]_vars PROVE RowInv'
    OBVIOUS
  <2> USE DEF RowInv
  <2>1. ASSUME NEW F, DatedJobs(F), NEW k \in Keys, Queued(F, k), NEW job \in Results(F, k),
               k[1] = "history"
        PROVE  DatedUpdate(job)
    <3>1. DOMAIN bars[k[2]] # {} => IsSpan(DOMAIN bars[k[2]])
      BY DEF Keys, RowSays
    <3>2. job \in DownloadHistory(k[2], F[k]) /\ F[k].asof \in Days
      BY <2>1 DEF Results, Queued, DatedJobs
    <3> QED
      BY <3>1, <3>2, UpdatesDated DEF DownloadHistory
  <2>2. ASSUME NEW F, DatedJobs(F), NEW k \in Keys, NEW job,
               \/ Queued(F, k) /\ job \in Results(F, k) /\ job.state # "queued"
               \/ job.state \notin {"queued", "done"}
        PROVE  DatedJobs(With(F, k, job))
    BY <2>1, <2>2 DEF DatedJobs, With
  <2>3. ASSUME NEW F, NEW k, NEW job \in Results(F, k) PROVE job.state = "done"
    <3>1. CASE job \in DownloadHistory(k[2], F[k])
      BY <3>1 DEF DownloadHistory, Updates, FullUpdates, Update, RequestWindow
    <3>2. CASE job \in DownloadMetrics(k[2], F[k])
      BY <3>2 DEF DownloadMetrics
    <3> QED
      BY <2>3, <3>1, <3>2 DEF Results
  <2>4. ASSUME NEW F, DatedJobs(F), NEW k PROVE DatedJobs(Without(F, k))
    BY <2>4 DEF DatedJobs, Without
  <2>5. DatedJobs(None)
    BY DEF DatedJobs, None
  <2>6. CASE ScheduleHistories
    <3>1. \A k \in DOMAIN futures' :
            \/ k \in DOMAIN futures /\ futures'[k] = futures[k]
            \/ futures'[k] = [state |-> "queued", asof |-> target]
      BY <2>6 DEF ScheduleHistories
    <3>2. UNCHANGED <<target, bars, row, late>>
      BY <2>6 DEF ScheduleHistories
    <3>3. DatedJobs(futures')
      BY <3>1 DEF DatedJobs
    <3> QED
      BY <3>2, <3>3
  <2>7. CASE ScheduleMetrics
    <3>1. PICK s : futures' = With(futures, <<"metrics", s>>, [state |-> "queued", asof |-> target])
      BY <2>7 DEF ScheduleMetrics
    <3>2. DatedJobs(futures')
      BY <3>1 DEF DatedJobs, With
    <3> QED
      BY <2>7, <3>2 DEF ScheduleMetrics
  <2>8. ASSUME NEW k \in Keys, Answer(k) PROVE RowInv'
    <3>1. PICK job \in Results(futures, k) : futures' = With(futures, k, job)
      BY <2>8 DEF Answer
    <3>2. DatedJobs(futures')
      BY <2>2, <2>3, <2>8, <3>1 DEF Answer
    <3> QED
      BY <2>8, <3>2 DEF Answer, tables
  <2>9. ASSUME NEW k \in Keys, Fail(k) PROVE RowInv'
    <3>1. DatedJobs(futures')
      BY <2>2, <2>9 DEF Fail
    <3> QED
      BY <2>9, <3>1 DEF Fail, tables
  <2>10. ASSUME NEW k \in Keys, AnswerLate(k) PROVE RowInv'
    <3>1. PICK job : late' = With(late, k, job) /\ (job \in Results(late, k) \/ job.state = "failed")
      BY <2>10 DEF AnswerLate
    <3>2. DatedJobs(late')
      BY <2>2, <2>3, <2>10, <3>1 DEF AnswerLate
    <3> QED
      BY <2>10, <3>2 DEF AnswerLate, tables
  <2>11. ASSUME NEW k \in Keys, Collect(k) PROVE RowInv'
    <3>1. RowSays(bars', row')
      BY <2>11, CollectedDated DEF Collect, CacheInv, SoundJobs, DatedJobs
    <3>2. DatedJobs(futures') /\ UNCHANGED <<late, target>>
      BY <2>4, <2>11 DEF Collect
    <3> QED
      BY <3>1, <3>2
  <2>12. ASSUME NEW k \in Keys, CollectLate(k) PROVE RowInv'
    <3>1. RowSays(bars', row')
      BY <2>12, CollectedDated DEF CollectLate, CacheInv, SoundJobs, DatedJobs
    <3>2. DatedJobs(late') /\ UNCHANGED <<futures, target>>
      BY <2>4, <2>12 DEF CollectLate
    <3> QED
      BY <3>1, <3>2
  <2>13. CASE TakeOver
    BY <2>5, <2>13 DEF TakeOver, tables
  <2>14. CASE LateEnds
    BY <2>5, <2>14 DEF LateEnds, tables
  <2>15. CASE NextDay
    BY <2>15, TheDays DEF NextDay, tables, queue
  <2>16. CASE UNCHANGED <<target, bars, row, futures, late>>
    BY <2>16
  <2>17. CASE CooldownEnds \/ UNCHANGED vars
    BY <2>16, <2>17 DEF CooldownEnds, vars, tables, queue
  <2>18. ASSUME NEW s \in Etfs, ChangePool(s) \/ RetryTime(s) \/ MetricsRetryTime(s)
         PROVE  RowInv'
    BY <2>16, <2>18 DEF ChangePool, RetryTime, MetricsRetryTime, tables, queue
  <2> QED
    BY HistoriesAssumption, <2>6, <2>7, <2>8, <2>9, <2>10, <2>11, <2>12, <2>13, <2>14, <2>15,
       <2>17, <2>18
    DEF Next
<1> QED
  BY <1>1, <1>2, CacheInvHolds, PTL DEF Spec

(* readiness believes the state row of an ETF: its target is the last day  *)
(* of the bars, which have no gap, whatever was ingested, rejected or      *)
(* overtaken in between.                                                   *)
THEOREM RowsAreTrue == Spec => []RowIsTrue
<1>1. RowInv => RowIsTrue
  <2> SUFFICES ASSUME RowInv, NEW s \in Etfs
               PROVE  /\ s \in DOMAIN row <=> DOMAIN bars[s] # {}
                      /\ s \in DOMAIN row =>
                           /\ row[s].target = Latest(bars[s])
                           /\ DOMAIN bars[s] = Min(DOMAIN bars[s]) .. Latest(bars[s])
    BY DEF RowIsTrue
  <2>1. s \in DOMAIN row <=> DOMAIN bars[s] # {}
    BY DEF RowInv, RowSays
  <2>2. ASSUME s \in DOMAIN row
        PROVE  DOMAIN bars[s] = Min(DOMAIN bars[s]) .. Latest(bars[s])
    <3>1. PICK a, z \in Days : a <= z /\ DOMAIN bars[s] = a .. z
      BY <2>2 DEF RowInv, RowSays, IsSpan
    <3>2. Min(a .. z) = a /\ Max(a .. z) = z
      BY <3>1, SpanEnds, TheDays
    <3> QED
      BY <3>1, <3>2 DEF Latest
  <2> QED
    BY <2>1, <2>2 DEF RowInv, RowSays
<1> QED
  BY <1>1, RowInvHolds, PTL
=============================================================================
