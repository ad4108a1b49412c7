---------------------------- MODULE WorkerLease ----------------------------
(***************************************************************************)
(* The lease by which one of several worker processes schedules: a row of  *)
(* the database that a worker takes or renews when its tick begins         *)
(* (src/app/automation/service.py, Worker.lease), and deletes when it      *)
(* closes.  The tick itself is a sequence of write transactions; none of   *)
(* them looks at the lease again.                                          *)
(*                                                                         *)
(* SQLite has one writer: BEGIN IMMEDIATE waits, for the busy timeout at   *)
(* most.  tick reads the clock BEFORE it waits, so a lease is judged, and  *)
(* dated, by a time that has passed.  Times here are relative: ages, and   *)
(* what is left of the lease, so that time itself is unbounded.  An owner  *)
(* is a process: one that is started again is not the owner of the row its *)
(* predecessor left.                                                       *)
(***************************************************************************)
EXTENDS Integers

CONSTANTS
  Workers,    \* worker processes
  LeaseTime,  \* the 30 seconds of Worker.lease, in units of time
  MaxWait     \* bound: from reading the clock to the busy timeout (15 seconds)

ASSUME TimesAssumption == LeaseTime \in Nat \ {0} /\ MaxWait \in Nat

VARIABLES
  stage,  \* [Workers -> what the process is doing]
  asked,  \* [Workers -> how long ago an "asking" worker has read the clock]
  held,   \* history: age of the last lease given to the process, LeaseTime if none
  owner,  \* the process the row names; {} if there is no row, or no such process
  left,   \* expires - now; -MaxWait if earlier than any clock still in use
  page    \* a request of the dashboard is in a write transaction

vars == <<stage, asked, held, owner, left, page>>

Stages == {"down", "idle", "asking", "tick", "writing", "closing"}
TypeOK ==
  /\ stage \in [Workers -> Stages]
  /\ asked \in [Workers -> 0 .. MaxWait]
  /\ held \in [Workers -> 0 .. LeaseTime]
  /\ owner \in SUBSET Workers
  /\ left \in -MaxWait .. LeaseTime
  /\ page \in BOOLEAN

Init ==
  /\ stage = [w \in Workers |-> "down"] /\ asked = [w \in Workers |-> 0]
  /\ held = [w \in Workers |-> LeaseTime]
  /\ owner = {} /\ left = -MaxWait /\ page = FALSE

(* No transaction holds the write lock.                                    *)
Free == ~page /\ \A w \in Workers : stage[w] # "writing"
Moves(w, from, to) == stage[w] = from /\ stage' = [stage EXCEPT ![w] = to]

----------------------------------------------------------------------------
Boot(w) == Moves(w, "down", "idle") /\ UNCHANGED <<asked, held, owner, left, page>>

(* tick: now_cn().  Then lease, whose transaction may have to wait.        *)
Ask(w) ==
  /\ Moves(w, "idle", "asking") /\ asked' = [asked EXCEPT ![w] = 0]
  /\ UNCHANGED <<held, owner, left, page>>

Taken(w) == owner # {w} /\ left + asked[w] > 0
Grant(w) ==
  /\ Free /\ ~Taken(w) /\ Moves(w, "asking", "tick")
  /\ owner' = {w} /\ left' = LeaseTime - asked[w]
  /\ held' = [held EXCEPT ![w] = IF asked[w] < LeaseTime THEN asked[w] ELSE LeaseTime]
  /\ UNCHANGED <<asked, page>>
Deny_Renews(w) ==
  /\ Free /\ Taken(w) /\ Moves(w, "asking", "idle")
  /\ left' = LeaseTime - asked[w]
  /\ UNCHANGED <<asked, held, owner, page>>
Deny(w) ==
  /\ Free /\ Taken(w) /\ Moves(w, "asking", "idle")
  /\ UNCHANGED <<asked, held, owner, left, page>>
GiveUp(w) ==
  /\ ~Free /\ asked[w] = MaxWait /\ Moves(w, "asking", "idle")
  /\ UNCHANGED <<asked, held, owner, left, page>>

(* A write transaction of one of the tick's handlers.                      *)
Begin(w) == Free /\ Moves(w, "tick", "writing") /\ UNCHANGED <<asked, held, owner, left, page>>
Commit(w) == Moves(w, "writing", "tick") /\ UNCHANGED <<asked, held, owner, left, page>>
(* The tick returns, or an exception leaves it.                            *)
EndTick(w) == Moves(w, "tick", "idle") /\ UNCHANGED <<asked, held, owner, left, page>>

(* SIGTERM: the loop ends, close waits for the threads and lets go.        *)
Close(w) == Moves(w, "idle", "closing") /\ UNCHANGED <<asked, held, owner, left, page>>
Release_AnyOwner(w) ==
  /\ Free /\ Moves(w, "closing", "down")
  /\ owner' = {} /\ left' = -MaxWait
  /\ held' = [held EXCEPT ![w] = LeaseTime]
  /\ UNCHANGED <<asked, page>>
Release(w) ==
  /\ Free /\ Moves(w, "closing", "down")
  /\ IF owner = {w} THEN owner' = {} /\ left' = -MaxWait ELSE UNCHANGED <<owner, left>>
  /\ held' = [held EXCEPT ![w] = LeaseTime]
  /\ UNCHANGED <<asked, page>>

(* The process dies, or close fails: its transaction rolls back, the row   *)
(* stays and names a process that is no more.                              *)
Crash(w) ==
  /\ stage[w] # "down" /\ stage' = [stage EXCEPT ![w] = "down"]
  /\ owner' = owner \ {w} /\ held' = [held EXCEPT ![w] = LeaseTime]
  /\ UNCHANGED <<asked, left, page>>

PageBegins == Free /\ page' = TRUE /\ UNCHANGED <<stage, asked, held, owner, left>>
PageEnds == page /\ page' = FALSE /\ UNCHANGED <<stage, asked, held, owner, left>>

TimePasses ==
  /\ \A w \in Workers : stage[w] = "asking" => asked[w] < MaxWait
  /\ asked' = [w \in Workers |-> IF stage[w] = "asking" THEN asked[w] + 1 ELSE 0]
  /\ held' = [w \in Workers |-> IF held[w] < LeaseTime THEN held[w] + 1 ELSE LeaseTime]
  /\ left' = IF left > -MaxWait THEN left - 1 ELSE left
  /\ UNCHANGED <<stage, owner, page>>

Run(w) ==
  \/ Boot(w) \/ Ask(w) \/ Grant(w) \/ Deny(w) \/ GiveUp(w)
  \/ Begin(w) \/ Commit(w) \/ EndTick(w) \/ Close(w) \/ Release(w) \/ Crash(w)
Next == TimePasses \/ PageBegins \/ PageEnds \/ \E w \in Workers : Run(w)
Spec == Init /\ [][Next]_vars

(* Transactions and ticks end, time passes, processes are started again.   *)
(* Requests of the dashboard do not for ever keep the database from the    *)
(* very moments at which a worker asks.                                    *)
FairSpec ==
  /\ Spec /\ WF_vars(TimePasses) /\ WF_vars(PageEnds)
  /\ SF_vars(PageEnds /\ \E w \in Workers : stage[w] = "idle")
  /\ \A w \in Workers :
       /\ WF_vars(Boot(w)) /\ WF_vars(Commit(w)) /\ SF_vars(EndTick(w))
       /\ SF_vars(Ask(w) /\ Free) /\ SF_vars(Grant(w) \/ Deny(w)) /\ SF_vars(Release(w))

----------------------------------------------------------------------------
Ticking == {w \in Workers : stage[w] \in {"tick", "writing"}}

(* For as long as a lease lasts, no other process has one: also when the   *)
(* clock was read long before, a process closes late, or dies and comes    *)
(* back.                                                                   *)
OneHolder ==
  \A v, w \in Workers : held[v] < LeaseTime /\ held[w] < LeaseTime => v = w

(* Whoever dies holding the lease, the work goes on.                       *)
KeepsScheduling == []<>(Ticking # {})

(* docs/operations.md: a second worker may be started, only one schedules. *)
OneScheduler == \A v, w \in Ticking : v = w
=============================================================================
