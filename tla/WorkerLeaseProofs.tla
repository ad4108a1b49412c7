------------------------- MODULE WorkerLeaseProofs -------------------------
(***************************************************************************)
(* For any number of processes, any lease and any busy timeout.            *)
(***************************************************************************)
EXTENDS WorkerLease, TLAPS

(* Every variable keeps its type; in particular what is left of the lease  *)
(* stays within the times that the model tells apart.                      *)
THEOREM Typing == Spec => []TypeOK
<1>1. Init => TypeOK
  <2>1. /\ -MaxWait \in -MaxWait .. LeaseTime
        /\ LeaseTime \in 0 .. LeaseTime /\ 0 \in 0 .. MaxWait
    BY TimesAssumption
  <2> QED
    BY <2>1 DEF Init, TypeOK, Stages
<1>2. TypeOK /\ [Next]_vars => TypeOK'
  <2> SUFFICES ASSUME TypeOK, [Next]_vars PROVE TypeOK'
    OBVIOUS
  <2> USE TimesAssumption DEF TypeOK, Stages
  <2>1. ASSUME NEW w \in Workers, Grant(w) PROVE TypeOK'
    BY <2>1 DEF Grant, Moves
  <2>2. ASSUME NEW w \in Workers, Release(w) PROVE TypeOK'
    BY <2>2 DEF Release, Moves
  <2>3. ASSUME NEW w \in Workers, Crash(w) PROVE TypeOK'
    BY <2>3 DEF Crash
  <2>4. ASSUME NEW w \in Workers, Ask(w) PROVE TypeOK'
    BY <2>4 DEF Ask, Moves
  <2>5. ASSUME NEW w \in Workers,
               Boot(w) \/ Deny(w) \/ GiveUp(w) \/ Begin(w) \/ Commit(w) \/ EndTick(w) \/ Close(w)
        PROVE  TypeOK'
    BY <2>5 DEF Boot, Deny, GiveUp, Begin, Commit, EndTick, Close, Moves
  <2>6. CASE TimePasses
    BY <2>6 DEF TimePasses
  <2>7. CASE PageBegins \/ PageEnds \/ UNCHANGED vars
    BY <2>7 DEF PageBegins, PageEnds, vars
  <2> QED
    BY <2>1, <2>2, <2>3, <2>4, <2>5, <2>6, <2>7 DEF Next, Run
<1> QED
  BY <1>1, <1>2, PTL DEF Spec

(* A process whose lease has not run out is the one the row names, and the *)
(* row dates the lease as the process does.                                *)
RowTells ==
  \A w \in Workers : held[w] < LeaseTime => owner = {w} /\ left = LeaseTime - held[w]

LEMMA RowTellsHolds == Spec => []RowTells
<1>1. Init => RowTells
  BY TimesAssumption DEF Init, RowTells
<1>2. TypeOK /\ RowTells /\ [Next]_vars => RowTells'
  <2> SUFFICES ASSUME TypeOK, RowTells, [Next]_vars PROVE RowTells'
    OBVIOUS
  <2> USE TimesAssumption DEF TypeOK, RowTells
  <2>1. ASSUME NEW w \in Workers, Grant(w) PROVE RowTells'
    (* Not taken: the row names w, or the lease of whoever it names is out. *)
    <3>1. \A v \in Workers \ {w} : held[v] = LeaseTime
      BY <2>1 DEF Grant, Taken
    <3>2. \A v \in Workers \ {w} : held'[v] = LeaseTime
      BY <2>1, <3>1 DEF Grant
    <3>3. held'[w] < LeaseTime => owner' = {w} /\ left' = LeaseTime - held'[w]
      BY <2>1 DEF Grant
    <3> QED
      BY <3>2, <3>3
  <2>2. ASSUME NEW w \in Workers, Release(w) PROVE RowTells'
    <3>1. held'[w] = LeaseTime /\ \A v \in Workers \ {w} : held'[v] = held[v]
      BY <2>2 DEF Release
    <3>2. ASSUME NEW v \in Workers, held'[v] < LeaseTime
          PROVE  owner' = {v} /\ left' = LeaseTime - held'[v]
      <4>1. v # w /\ held[v] < LeaseTime
        BY <3>1, <3>2
      <4>2. owner = {v} /\ owner # {w}
        BY <4>1
      <4> QED
        BY <2>2, <3>1, <4>1, <4>2 DEF Release
    <3> QED
      BY <3>2
  <2>3. ASSUME NEW w \in Workers, Crash(w) PROVE RowTells'
    BY <2>3 DEF Crash
  <2>4. CASE TimePasses
    BY <2>4 DEF TimePasses
  <2>5. ASSUME UNCHANGED <<held, owner, left>> PROVE RowTells'
    BY <2>5
  <2> QED
    BY <2>1, <2>2, <2>3, <2>4, <2>5
    DEF Next, Run, Boot, Ask, Deny, GiveUp, Begin, Commit, EndTick, Close,
        PageBegins, PageEnds, vars
<1> QED
  BY <1>1, <1>2, Typing, PTL DEF Spec

(* For as long as its lease lasts no other process is given one, however   *)
(* late its clock was read, and whoever closes, dies and comes back.       *)
THEOREM LeaseIsExclusive == Spec => []OneHolder
<1>1. RowTells => OneHolder
  <2> SUFFICES ASSUME RowTells,
                      NEW v \in Workers, NEW w \in Workers,
                      held[v] < LeaseTime, held[w] < LeaseTime
               PROVE  v = w
    BY DEF OneHolder
  <2>1. owner = {v} /\ owner = {w}
    BY DEF RowTells
  <2> QED
    BY <2>1, Zenon
<1> QED
  BY <1>1, RowTellsHolds, PTL
=============================================================================
