------------------------- MODULE TradingStepProofs -------------------------
(***************************************************************************)
(* What a step of Trading may never do, and the limits that orders of many *)
(* steps keep together: those of a day, of an entry and its attempts, of a *)
(* profit sale and of a round trip.  For every value of the constants.     *)
(***************************************************************************)
EXTENDS TradingProofs, FiniteSetTheorems

USE DEF Open, OpenOf

(* Only match fills orders.  Any other handler leaves what has been filled *)
(* as it is, or puts an unfilled order in a slot.                          *)
Quiet(new, old) ==
  \A i \in Slots :
    /\ new[i].filled <= old[i].filled
    /\ new[i].filled > 0 => /\ new[i].kind = old[i].kind
                            /\ new[i].today => old[i].today

LEMMA EndQuiet ==
  ASSUME NEW o \in Order, NEW retry \in BOOLEAN
  PROVE  /\ End(o, retry).filled = o.filled /\ End(o, retry).kind = o.kind
         /\ End(o, retry).today = o.today
BY DEF End, Order

LEMMA QuietSame ==
  ASSUME NEW os \in [Slots -> Order] PROVE Quiet(os, os)
<1>1. \A i \in Slots : os[i].filled \in Nat
  BY DEF Order
<1> QED
  BY <1>1 DEF Quiet

LEMMA EndAllQuiet ==
  ASSUME NEW old \in [Slots -> Order], NEW os \in [Slots -> Order], Quiet(os, old), NEW S
  PROVE  Quiet(EndAll(os, S), old)
<1>1. \A i \in Slots : /\ EndAll(os, S)[i].filled = os[i].filled
                       /\ EndAll(os, S)[i].kind = os[i].kind
                       /\ EndAll(os, S)[i].today = os[i].today
  BY EndQuiet DEF EndAll
<1> QED
  BY <1>1 DEF Quiet

LEMMA EndingQuiet ==
  ASSUME NEW old \in [Slots -> Order], NEW os \in [Slots -> Order], Quiet(os, old), NEW new,
         \A i \in Slots : new[i] = os[i] \/ \E retry \in BOOLEAN : new[i] = End(os[i], retry)
  PROVE  Quiet(new, old)
<1>1. \A i \in Slots : /\ new[i].filled = os[i].filled /\ new[i].kind = os[i].kind
                       /\ new[i].today = os[i].today
  BY EndQuiet
<1> QED
  BY <1>1 DEF Quiet

LEMMA PlacedQuiet ==
  ASSUME NEW old \in [Slots -> Order], NEW os \in [Slots -> Order], Quiet(os, old),
         NEW kind, NEW q, NEW i \in Slots, NEW new, new = [os EXCEPT ![i] = NewOrder(kind, q)]
  PROVE  Quiet(new, old)
<1>1. NewOrder(kind, q).filled = 0 /\ old[i].filled \in Nat
  BY DEF NewOrder, Order
<1> QED
  BY <1>1 DEF Quiet

----------------------------------------------------------------------------
(* The handlers.                                                           *)

LEMMA RiskCheckQuiet == TypeOK /\ RiskCheck => Quiet(orders', orders)
<1> SUFFICES ASSUME TypeOK, RiskCheck PROVE Quiet(orders', orders)
  OBVIOUS
<1>1. orders \in [Slots -> Order]
  BY DEF TypeOK
<1>2. Quiet(orders, orders)
  BY <1>1, QuietSame
<1>3. CASE UNCHANGED orders
  BY <1>2, <1>3
<1>4. ASSUME NEW lapsed, NEW os, os = EndAll(orders, lapsed),
             NEW was, NEW weak \in BOOLEAN, NEW core \in BOOLEAN,
             orders' = os \/ Protect(os, was, weak, core)
      PROVE  Quiet(orders', orders)
  <2> DEFINE os1 == IF zone = "broken"
                    THEN EndAll(os, OpenOf(os, {"profit"})) ELSE os
             os2 == WithoutOrdinary(os1)
  <2>1. os \in [Slots -> Order] /\ Quiet(os, orders)
    BY <1>1, <1>2, <1>4, EndAllEnds, EndAllQuiet
  <2>2. os1 \in [Slots -> Order] /\ Quiet(os1, orders)
    BY <1>1, <2>1, EndAllEnds, EndAllQuiet
  <2>3. os2 \in [Slots -> Order] /\ Quiet(os2, orders)
    BY <1>1, <2>2, EndAllEnds, EndAllQuiet DEF WithoutOrdinary
  <2>4. \/ orders' = os \/ orders' = os2
        \/ \E kind, q : Place(os2, kind, q)
    BY <1>4, Zenon DEF Protect
  <2> HIDE DEF os1, os2
  <2> QED
    BY <1>1, <2>1, <2>3, <2>4, PlacedQuiet DEF Place
<1> QED
  BY <1>3, <1>4, Zenon DEF RiskCheck

LEMMA IntradayTickQuiet ==
  TypeOK /\ CycleHasSell /\ IntradayTick => Quiet(orders', orders)
<1> SUFFICES ASSUME TypeOK, CycleHasSell, IntradayTick PROVE Quiet(orders', orders)
  OBVIOUS
<1>1. orders \in [Slots -> Order]
  BY DEF TypeOK
<1>2. Quiet(orders, orders)
  BY <1>1, QuietSame
<1>3. CASE IntradayWait
  BY <1>2, <1>3 DEF IntradayWait
<1>4. ASSUME NEW evaluated \in BOOLEAN, NEW confirmed \in BOOLEAN, NEW selected \in BOOLEAN,
             NEW away \in BOOLEAN, Decide(evaluated, confirmed, selected, away)
      PROVE  Quiet(orders', orders)
  <2> DEFINE block == blocked \/ Struck
             o1 == ObservedEntries(block)
             os == Cleared(o1, evaluated, selected, away)
  <2>1. o1 \in [Slots -> Order] /\ Quiet(o1, orders)
    BY <1>1, <1>2, EndAllEnds, EndAllQuiet DEF ObservedEntries
  <2>2. os \in [Slots -> Order]
    BY ClearedWeakens DEF Weakens
  <2>3. \A i \in Slots : os[i] = o1[i] \/ \E retry \in BOOLEAN : os[i] = End(o1[i], retry)
    <3>1. \A i \in Slots : os[i] = o1[i] \/ os[i] = End(o1[i], OffPrice(o1[i], away))
      BY Zenon DEF Cleared
    <3>2. \A i \in Slots : OffPrice(o1[i], away) \in BOOLEAN
      BY DEF OffPrice
    <3> QED
      BY <3>1, <3>2
  <2>4. Quiet(os, orders)
    <3> HIDE DEF o1, os
    <3> QED
      BY <1>1, <2>1, <2>3, EndingQuiet
  <2>5. \/ orders' = os
        \/ \E S : orders' = EndAll(os, S)
        \/ \E i \in Slots : \E kind, q : orders' = [os EXCEPT ![i] = NewOrder(kind, q)]
    <3>1. \/ CycleStep(os, evaluated, confirmed, selected) \/ orders' = os
          \/ SubmitBuy(os, block) \/ SubmitExit(os) \/ SubmitTSell(os)
      BY <1>4, Zenon DEF Decide
    <3> HIDE DEF os, block
    <3>2. CASE CycleStep(os, evaluated, confirmed, selected)
      BY <3>2, Zenon DEF CycleStep
    <3>3. CASE SubmitBuy(os, block)
      BY <3>3, Zenon DEF SubmitBuy, Place
    <3>4. CASE SubmitExit(os)
      BY <3>4, Zenon DEF SubmitExit, Place
    <3>5. CASE SubmitTSell(os)
      BY <3>5, Zenon DEF SubmitTSell
    <3> QED
      BY <3>1, <3>2, <3>3, <3>4, <3>5
  <2> HIDE DEF os
  <2> QED
    BY <1>1, <2>2, <2>4, <2>5, EndAllQuiet, PlacedQuiet
<1> QED
  BY <1>3, <1>4 DEF IntradayTick, IntradayRun

LEMMA OthersQuiet ==
  ASSUME TypeOK,
         Observe \/ ApplyActions \/ Expire \/ ChangeConfig \/ Abort \/ Overlap \/ PassTime
           \/ UNCHANGED vars
  PROVE  Quiet(orders', orders)
<1>1. orders \in [Slots -> Order]
  BY DEF TypeOK
<1>2. Quiet(orders, orders)
  BY <1>1, QuietSame
<1>3. CASE Observe
  <2>1. PICK quote, structure, bar \in BOOLEAN :
          orders' = [i \in Slots |-> Observed(orders[i], quote, structure, bar)]
    BY <1>3, Zenon DEF Observe
  <2>2. \A o \in Order : LET n == Observed(o, quote, structure, bar)
                         IN n.filled = o.filled /\ n.kind = o.kind /\ n.today = o.today
    BY DEF Observed, Order
  <2> QED
    BY <1>1, <1>2, <2>1, <2>2 DEF Quiet
<1>4. CASE ApplyActions
  BY <1>1, <1>2, <1>4, EndAllQuiet DEF ApplyActions
<1>5. CASE Expire
  <2>1. \A i \in Slots : orders'[i] = orders[i] \/ \E retry \in BOOLEAN : orders'[i] = End(orders[i], retry)
    BY <1>5 DEF Expire
  <2> QED
    BY <1>1, <1>2, <2>1, EndingQuiet
<1>6. CASE ChangeConfig
  <2> DEFINE os == EndAll(orders, OpenOf(orders, Ordinary))
             b(j) == os[j].basis /\ orders[j].kind = "stop"
  <2>1. os \in [Slots -> Order] /\ Quiet(os, orders)
    BY <1>1, <1>2, EndAllEnds, EndAllQuiet
  <2>2. orders' = [j \in Slots |-> [os[j] EXCEPT !.cur = FALSE, !.basis = b(j)]]
    BY <1>6, Zenon DEF ChangeConfig
  <2> HIDE DEF os, b
  <2>3. \A j \in Slots : /\ orders'[j].filled = os[j].filled /\ orders'[j].kind = os[j].kind
                         /\ orders'[j].today = os[j].today
    BY <2>1, <2>2 DEF Order
  <2> QED
    BY <1>1, <2>1, <2>3 DEF Quiet
<1>7. CASE Abort \/ Overlap \/ UNCHANGED vars
  BY <1>2, <1>7 DEF Abort, Overlap, vars
<1>8. CASE PassTime
  <2>1. CASE UNCHANGED orders
    BY <1>2, <2>1
  <2>2. CASE orders' = [i \in Slots |-> IF Kept(i) THEN Overnight(orders[i]) ELSE NoOrder]
    <3>1. \A o \in Order : /\ Overnight(o).filled = o.filled /\ Overnight(o).kind = o.kind
                           /\ Overnight(o).today = FALSE /\ o.filled \in Nat
      BY DEF Overnight, Order
    <3>2. NoOrder.filled = 0
      BY DEF NoOrder
    <3> QED
      BY <1>1, <2>2, <3>1, <3>2 DEF Quiet
  <2> QED
    BY <1>8, <2>1, <2>2 DEF PassTime
<1> QED
  BY <1>3, <1>4, <1>5, <1>6, <1>7, <1>8

(* A step is quiet, or one fill of one open order.                         *)
LEMMA StepQuiet ==
  Inv /\ [Next]_vars => Quiet(orders', orders) \/ (Match /\ \E i \in Slots : Filled(i))
<1> SUFFICES ASSUME Inv, [Next]_vars
             PROVE  Quiet(orders', orders) \/ (Match /\ \E i \in Slots : Filled(i))
  OBVIOUS
<1>1. TypeOK /\ CycleHasSell /\ orders \in [Slots -> Order]
  BY DEF Inv, TypeOK
<1>2. CASE Match /\ ~\E i \in Slots : Filled(i)
  <2>1. orders' = orders \/ \E i \in Slots : orders' = [orders EXCEPT ![i].seen = TRUE]
    BY <1>2 DEF Match, Blocked
  <2>2. \A j \in Slots : /\ orders'[j].filled = orders[j].filled
                         /\ orders'[j].kind = orders[j].kind /\ orders'[j].today = orders[j].today
    BY <1>1, <2>1 DEF Order
  <2> QED
    BY <1>1, <2>2, QuietSame DEF Quiet
<1> QED
  BY <1>1, <1>2, RiskCheckQuiet, IntradayTickQuiet, OthersQuiet DEF Next, OneWorker, Tick

----------------------------------------------------------------------------
(* A structural exit, once latched, is given up only by selling out:       *)
(* risk_check never overwrites it, the withdrawal of a profit order does   *)
(* not touch it, and a fill clears it only with the last share.            *)
THEOREM StopIsLatched == Spec => StopLatched
<1> DEFINE A == intent = "stop" => intent' = "stop" \/ avail' + locked' = 0
<1>1. Inv /\ [Next]_vars => A
  <2> SUFFICES ASSUME Inv, [Next]_vars, intent = "stop"
               PROVE  intent' = "stop" \/ avail' + locked' = 0
    OBVIOUS
  <2>1. CASE UNCHANGED intent
    BY <2>1
  <2>2. CASE RiskCheck
    <3>1. ASSUME NEW os, NEW weak \in BOOLEAN, NEW core \in BOOLEAN, Protect(os, "stop", weak, core)
          PROVE  intent' = "stop"
      <4> DEFINE signal == weak /\ "profit" \in Signals /\ zone = "high" /\ avail > 0
                           /\ (profit.sold = 0 \/ profit.sold < profit.budget)
      <4>1. Latched("stop", signal) = "stop"
        BY DEF Latched
      <4> HIDE DEF signal
      <4> QED
        BY <3>1, <4>1, Zenon DEF Protect, signal
    <3>2. PICK late, weak, core \in BOOLEAN : \E os, was :
            /\ was = "stop"
            /\ UNCHANGED intent \/ intent' = was \/ Protect(os, was, weak, core)
      BY <2>2, Zenon DEF RiskCheck
    <3> QED
      BY <3>1, <3>2
  <2>3. CASE Match /\ \E i \in Slots : Filled(i)
    <3>1. PICK i \in Slots : Filled(i)
      BY <2>3
    <3>2. PICK q : Fill(i, q)
      BY <3>1 DEF Filled
    <3>3. \/ intent' = intent
          \/ orders[i].kind \notin Buys /\ q = Held
      BY <3>2 DEF Fill
    <3>4. CASE orders[i].kind \notin Buys /\ q = Held
      <4>1. avail' = avail - q /\ locked' = locked
        BY <3>2, <3>4 DEF Fill
      <4>2. avail \in Nat /\ locked \in Nat
        BY DEF Inv, TypeOK
      <4> QED
        BY <3>4, <4>1, <4>2 DEF Held
    <3> QED
      BY <3>3, <3>4
  <2> QED
    BY <2>1, <2>2, <2>3
    DEF Next, OneWorker, Tick, Observe, ApplyActions, Expire, IntradayTick, IntradayWait, IntradayRun,
        Match, Blocked, ChangeConfig, Abort, Overlap, PassTime, vars
<1>2. Spec => [][A]_vars
  BY <1>1, Invariance, PTL DEF Spec
<1> QED
  BY <1>2 DEF StopLatched

----------------------------------------------------------------------------
(* A fill leaves every order but its own as it was.                        *)
LEMMA FilledStep ==
  ASSUME TypeOK, NEW i \in Slots, Filled(i)
  PROVE  /\ Executable(i)
         /\ \A j \in Slots : orders'[j].kind = orders[j].kind /\ orders'[j].today = orders[j].today
         /\ \A j \in Slots : j # i => orders'[j].filled = orders[j].filled
         /\ cooling' = (cooling \/ orders[i].kind = "stop")
         /\ intent' = "none" \/ UNCHANGED intent
<1>1. PICK q : Fill(i, q)
  BY DEF Filled
<1>2. \A j \in Slots : orders[j] \in Order
  BY DEF TypeOK
<1>3. \A j \in Slots : /\ orders'[j].kind = orders[j].kind /\ orders'[j].today = orders[j].today
                       /\ j # i => orders'[j].filled = orders[j].filled
  BY <1>1, <1>2 DEF Fill, Order
<1>4. cooling' = (cooling \/ orders[i].kind = "stop")
  BY <1>1, Zenon DEF Fill
<1>5. intent' = "none" \/ UNCHANGED intent
  BY <1>1 DEF Fill
<1> QED
  BY <1>3, <1>4, <1>5 DEF Filled

(* The risk check that latches an intent leaves only risk orders open.     *)
LEMMA LatchingLeavesRisk ==
  ASSUME TypeOK, OrderInv, RiskCheck, intent = "none", intent' # "none"
  PROVE  \A i \in Slots : Open(orders'[i]) => orders'[i].kind \in Risk
<1>1. orders \in [Slots -> Order]
  BY DEF TypeOK
<1>2. PICK late, weak, core \in BOOLEAN : \E lapsed, os :
        os = EndAll(orders, lapsed) /\ Protect(os, "none", weak, core)
  BY Zenon DEF RiskCheck
<1>3. PICK lapsed, os : os = EndAll(orders, lapsed) /\ Protect(os, "none", weak, core)
  BY <1>2
<1> DEFINE os1 == IF zone = "broken" THEN EndAll(os, OpenOf(os, {"profit"})) ELSE os
           os2 == WithoutOrdinary(os1)
<1>4. Weakens(os1, orders) /\ os1 \in [Slots -> Order]
  <2>1. Weakens(orders, orders)
    BY <1>1 DEF Weakens
  <2>2. Weakens(os, orders)
    BY <1>3, <2>1, EndAllWeakens
  <2>3. Weakens(os1, orders)
    BY <2>2, EndAllWeakens
  <2> QED
    BY <2>3 DEF Weakens
<1> HIDE DEF os1
<1>5. os2 \in [Slots -> Order] /\ \A i \in Slots : Open(os2[i]) => os2[i].kind \in Risk
  <2>1. os2 = EndAll(os1, OpenOf(os1, Ordinary))
    BY DEF WithoutOrdinary
  <2>2. \A i \in Slots : Open(os1[i]) => os1[i].kind \in Ordinary \cup Risk
    BY <1>4 DEF Weakens, OrderInv, OpenHasKind
  <2> DEFINE S == OpenOf(os1, Ordinary)
  <2>3. \A i \in Slots : Open(os1[i]) /\ i \notin S => os1[i].kind \in Risk
    BY <2>2
  <2> HIDE DEF S, os2
  <2>4. os2 = EndAll(os1, S)
    BY <2>1 DEF S
  <2> QED
    BY <1>4, <2>3, <2>4, EndAllEnds
<1>6. \/ orders' = os2
      \/ \E i \in Slots, kind \in Risk : \E q : orders' = [os2 EXCEPT ![i] = NewOrder(kind, q)]
  <2>1. orders' = os2 \/ \E q : Place(os2, "stop", q) \/ Place(os2, "profit", q)
    BY <1>3, Zenon DEF Protect, os1
  <2> HIDE DEF os2
  <2> QED
    BY <2>1 DEF Place, Risk
<1>7. \A kind, q : NewOrder(kind, q).kind = kind
  BY DEF NewOrder
<1> HIDE DEF os2
<1> QED
  BY <1>5, <1>6, <1>7

(* While an exit is latched nothing ordinary fills, and the step that      *)
(* latches it leaves no ordinary order open: match refuses what risk_check *)
(* and the intraday trader have not yet withdrawn.                         *)
THEOREM ExitsComeFirst == Spec => ExitBeforeOrdinary
<1> DEFINE A == /\ intent # "none" =>
                     \A i \in Slots : orders[i].kind \in Ordinary =>
                                        orders'[i].filled <= orders[i].filled
                /\ intent = "none" /\ intent' # "none" =>
                     \A i \in Slots : Open(orders'[i]) => orders'[i].kind \in Risk
<1>1. Inv /\ [Next]_vars => A
  <2> SUFFICES ASSUME Inv, [Next]_vars PROVE A
    OBVIOUS
  <2>1. TypeOK /\ OrderInv /\ \A i \in Slots : orders[i].filled \in Nat
    BY DEF Inv, TypeOK, Order
  <2>2. ASSUME intent # "none", NEW i \in Slots, orders[i].kind \in Ordinary
        PROVE  orders'[i].filled <= orders[i].filled
    <3>1. CASE Quiet(orders', orders)
      BY <3>1 DEF Quiet
    <3>2. ASSUME NEW k \in Slots, Filled(k) PROVE orders'[i].filled <= orders[i].filled
      <4>1. orders[k].kind \in Ordinary => intent = "none"
        BY <2>1, <3>2, FilledStep, Zenon DEF Executable
      <4>2. k # i
        BY <2>2, <4>1
      <4>3. orders'[i].filled = orders[i].filled
        BY <2>1, <3>2, <4>2, FilledStep
      <4> QED
        BY <2>1, <4>3
    <3> QED
      BY <3>1, <3>2, StepQuiet
  <2>3. ASSUME intent = "none", intent' # "none"
        PROVE  \A i \in Slots : Open(orders'[i]) => orders'[i].kind \in Risk
    <3>1. RiskCheck
      <4>1. \A i \in Slots : Filled(i) => intent' = "none"
        BY <2>1, <2>3, FilledStep
      <4> QED
        BY <2>3, <4>1
        DEF Next, OneWorker, Tick, Observe, ApplyActions, Expire, IntradayTick, IntradayWait, IntradayRun,
            Match, Blocked, ChangeConfig, Abort, Overlap, PassTime, vars
    <3> QED
      BY <2>1, <2>3, <3>1, LatchingLeavesRisk
  <2> QED
    BY <2>2, <2>3
<1>2. Spec => [][A]_vars
  BY <1>1, Invariance, PTL DEF Spec
<1> QED
  BY <1>2 DEF ExitBeforeOrdinary

----------------------------------------------------------------------------
(* A stop that has sold anything today has left the day's cooldown.        *)
StopCools ==
  (\E i \in Slots : orders[i].kind = "stop" /\ orders[i].today /\ orders[i].filled > 0) => cooling

LEMMA StopCoolsStep == Inv /\ StopCools /\ [Next]_vars => StopCools'
<1> SUFFICES ASSUME Inv, StopCools, [Next]_vars,
                    NEW i \in Slots, orders'[i].kind = "stop", orders'[i].today, orders'[i].filled > 0
             PROVE  cooling'
  BY DEF StopCools
<1>1. TypeOK /\ orders \in [Slots -> Order]
  BY DEF Inv, TypeOK
<1>2. ASSUME NEW k \in Slots, Filled(k) PROVE cooling'
  <2>1. k # i => cooling
    BY <1>1, <1>2, FilledStep DEF StopCools
  <2>2. k = i => orders[k].kind = "stop"
    BY <1>1, <1>2, FilledStep
  <2> QED
    BY <1>1, <1>2, <2>1, <2>2, FilledStep
<1>3. CASE Quiet(orders', orders)
  <2>1. orders[i].filled >= orders'[i].filled /\ orders[i].kind = "stop" /\ orders[i].today
    BY <1>3 DEF Quiet
  <2>2. cooling
    <3>1. orders[i].filled > 0
      <4>1. orders[i].filled \in Nat
        BY <1>1 DEF Order
      <4>2. orders'[i].filled \in Nat
        BY NextInv DEF Inv, TypeOK, Order
      <4> QED
        BY <2>1, <4>1, <4>2
    <3> QED
      BY <2>1, <3>1 DEF StopCools
  <2>3. CASE UNCHANGED cooling
    BY <2>2, <2>3
  <2>4. CASE RiskCheck
    <3>1. ASSUME NEW os, NEW was, NEW weak, NEW core, Protect(os, was, weak, core) PROVE cooling'
      <4>1. \/ UNCHANGED cooling
            \/ \E now : cooling' = (cooling \/ now = "stop")
            \/ cooling' = TRUE
        BY <3>1, Zenon DEF Protect
      <4> QED
        BY <2>2, <4>1
    <3>2. UNCHANGED cooling \/ \E os, was, weak, core : Protect(os, was, weak, core)
      BY <2>4, Zenon DEF RiskCheck
    <3> QED
      BY <2>2, <3>1, <3>2
  <2>5. CASE PassTime
    <3>1. UNCHANGED cooling \/ orders' = [j \in Slots |-> IF Kept(j) THEN Overnight(orders[j]) ELSE NoOrder]
      BY <2>5 DEF PassTime
    <3>2. \A o \in Order : Overnight(o).today = FALSE
      BY DEF Overnight, Order
    <3>3. NoOrder.today = FALSE
      BY DEF NoOrder
    <3> QED
      BY <1>1, <2>2, <3>1, <3>2, <3>3
  <2> QED
    BY <1>2, <2>3, <2>4, <2>5
    DEF Next, OneWorker, Tick, Observe, ApplyActions, Expire, IntradayTick, IntradayWait, IntradayRun,
        Match, Blocked, ChangeConfig, Abort, Overlap, vars
<1> QED
  BY <1>2, <1>3, StepQuiet

(* After a protective exit has sold anything, the day buys nothing back:   *)
(* not a new entry, not a re-entry, not the buyback of a round trip, and   *)
(* no change of configuration or restart forgets it.                       *)
THEOREM NoRebuy == Spec => NoRebuyAfterStop
<1> DEFINE A == (\E i \in Slots : orders[i].kind = "stop" /\ orders[i].today /\ orders[i].filled > 0)
                => \A i \in Slots : orders[i].kind \in Buys => orders'[i].filled <= orders[i].filled
<1>1. Init => StopCools
  BY DEF Init, StopCools, NoOrder
<1>2. Inv /\ StopCools /\ [Next]_vars => A
  <2> SUFFICES ASSUME Inv, StopCools, [Next]_vars, cooling,
                      NEW i \in Slots, orders[i].kind \in Buys
               PROVE  orders'[i].filled <= orders[i].filled
    BY DEF StopCools
  <2>1. TypeOK /\ \A j \in Slots : orders[j].filled \in Nat
    BY DEF Inv, TypeOK, Order
  <2>2. ASSUME NEW k \in Slots, Filled(k) PROVE orders'[i].filled <= orders[i].filled
    <3>1. ~(orders[k].kind \in Buys)
      <4>1. orders[k].kind \in Buys => ~cooling
        BY <2>1, <2>2, FilledStep, Zenon DEF Executable
      <4> QED
        BY <4>1
    <3>2. k # i
      BY <3>1
    <3>3. orders'[i].filled = orders[i].filled
      BY <2>1, <2>2, <3>2, FilledStep
    <3> QED
      BY <2>1, <3>3
  <2>3. CASE Quiet(orders', orders)
    BY <2>3 DEF Quiet
  <2> QED
    BY <2>2, <2>3, StepQuiet
<1>3. Spec => [](Inv /\ StopCools)
  BY <1>1, StopCoolsStep, Invariance, PTL DEF Spec
<1>4. Spec => [][A]_vars
  BY <1>2, <1>3, PTL DEF Spec
<1> QED
  BY <1>4 DEF NoRebuyAfterStop

----------------------------------------------------------------------------
(* What the limits of a day are judged by.  A handler that places no order *)
(* leaves each as it is or ends it: no order becomes one of today's or of  *)
(* the present configuration, opens again, or is filled, and none but an   *)
(* unfilled one may be retried.                                            *)
Succeeds(n, o) ==
  /\ n.kind = o.kind /\ n.filled = o.filled
  /\ n.today => o.today
  /\ n.cur => o.cur
  /\ Open(n) => Open(o) /\ n.left = o.left
  /\ n.status = "may_retry" => n.filled = 0
  /\ ~Open(o) => n.status = o.status
  /\ o.status # "none" => n.status # "none"
Follows(new, old) == new \in [Slots -> Order] /\ \A i \in Slots : Succeeds(new[i], old[i])

(* A new day leaves no order of today, and only open ones that were.       *)
Forgets(new, old) ==
  /\ new \in [Slots -> Order]
  /\ \A i \in Slots :
       /\ ~new[i].today
       /\ Open(new[i]) => Open(old[i]) /\ new[i].kind = old[i].kind /\ new[i].left = old[i].left
       /\ new[i].status = "may_retry" => new[i].filled = 0

(* Only what never filled may be retried.                                  *)
RetriesUnfilled(os) == \A i \in Slots : os[i].status = "may_retry" => os[i].filled = 0

LEMMA SameSucceeds ==
  ASSUME NEW n, NEW o, n.kind = o.kind, n.today => o.today, n.cur => o.cur, n.left = o.left,
         n.filled = o.filled, n.status = o.status, o.status = "may_retry" => o.filled = 0
  PROVE  Succeeds(n, o)
BY DEF Succeeds

LEMMA FollowsItself ==
  ASSUME NEW os \in [Slots -> Order], RetriesUnfilled(os) PROVE Follows(os, os)
BY DEF Follows, Succeeds, RetriesUnfilled

LEMMA FollowsTwice ==
  ASSUME NEW a, NEW b, NEW c \in [Slots -> Order], Follows(a, b), Follows(b, c)
  PROVE  Follows(a, c)
<1> SUFFICES ASSUME NEW i \in Slots PROVE Succeeds(a[i], c[i])
  BY DEF Follows
<1>1. Succeeds(a[i], b[i]) /\ Succeeds(b[i], c[i])
  BY DEF Follows
<1> QED
  BY <1>1 DEF Succeeds

LEMMA EndSucceeds ==
  ASSUME NEW o \in Order, Open(o), NEW retry \in BOOLEAN
  PROVE  Succeeds(End(o, retry), o) /\ End(o, retry) \in Order
<1> DEFINE n == End(o, retry)
<1>1. /\ n.kind = o.kind /\ n.today = o.today /\ n.cur = o.cur /\ n.filled = o.filled
      /\ n.status \in {"may_retry", "ended"} /\ (n.status = "may_retry" => n.filled = 0)
  <2> DEFINE st == IF retry /\ o.kind = "entry" /\ o.filled = 0 THEN "may_retry" ELSE "ended"
  <2>1. n = [o EXCEPT !.status = st, !.left = 0, !.seen = TRUE]
    BY DEF End
  <2>2. st \in {"may_retry", "ended"} /\ (st = "may_retry" => o.filled = 0)
    OBVIOUS
  <2> HIDE DEF st, n
  <2> QED
    BY <2>1, <2>2 DEF Order
<1>2. n \in Order
  BY EndType
<1> SUFFICES Succeeds(n, o) /\ n \in Order
  OBVIOUS
<1> HIDE DEF n
<1> QED
  BY <1>1, <1>2 DEF Succeeds

LEMMA EndingFollows ==
  ASSUME NEW os \in [Slots -> Order], RetriesUnfilled(os), NEW new, new = [i \in Slots |-> new[i]],
         \A i \in Slots : new[i] = os[i] \/ (Open(os[i]) /\ \E retry \in BOOLEAN : new[i] = End(os[i], retry))
  PROVE  Follows(new, os)
<1>1. \A i \in Slots : Succeeds(os[i], os[i])
  BY FollowsItself DEF Follows
<1>2. \A i \in Slots : Succeeds(new[i], os[i]) /\ new[i] \in Order
  BY <1>1, EndSucceeds
<1> QED
  BY <1>2 DEF Follows

LEMMA EndAllFollows ==
  ASSUME NEW os \in [Slots -> Order], RetriesUnfilled(os), NEW S,
         \A i \in S : i \in Slots => Open(os[i])
  PROVE  Follows(EndAll(os, S), os)
<1>1. \A i \in Slots : \/ EndAll(os, S)[i] = os[i]
                       \/ Open(os[i]) /\ EndAll(os, S)[i] = End(os[i], FALSE)
  BY DEF EndAll
<1>2. EndAll(os, S) = [i \in Slots |-> EndAll(os, S)[i]]
  BY DEF EndAll
<1> HIDE DEF EndAll
<1> QED
  BY <1>1, <1>2, EndingFollows

LEMMA FollowsRetries ==
  ASSUME NEW new, NEW old, Follows(new, old) PROVE RetriesUnfilled(new)
BY DEF Follows, Succeeds, RetriesUnfilled

LEMMA EndAllOf ==
  ASSUME NEW old \in [Slots -> Order], NEW os, Follows(os, old), NEW S,
         \A i \in S : i \in Slots => Open(os[i])
  PROVE  Follows(EndAll(os, S), old)
BY EndAllFollows, FollowsRetries, FollowsTwice DEF Follows

(* What the handlers place, and when.                                      *)
Placed(os, kind, q) ==
  /\ Follows(os, orders)
  /\ \E i \in Slots : os[i].status = "none" /\ orders' = [os EXCEPT ![i] = NewOrder(kind, q)]

LEMMA RiskShape ==
  ASSUME TypeOK, RetriesUnfilled(orders), RiskCheck
  PROVE  \/ Follows(orders', orders) /\ UNCHANGED profit
         \/ UNCHANGED profit /\ \E os : Placed(os, "stop", Held)
         \/ \E core \in BOOLEAN : \E os :
              /\ profit' = FrozenBudget(core)
              /\ Follows(os, orders) /\ OpenOf(os, {"profit"}) = {}
              /\ \/ orders' = os
                 \/ /\ ~LimitReached(os) /\ ProfitQuantity(profit', avail) > 0
                    /\ Placed(os, "profit", ProfitQuantity(profit', avail))
<1>1. orders \in [Slots -> Order]
  BY DEF TypeOK
<1>2. CASE UNCHANGED <<orders, intent, cooling, profit>>
  BY <1>1, <1>2, FollowsItself
<1>3. ASSUME NEW late, NEW weak, NEW core \in BOOLEAN, NEW was, NEW os,
             os = EndAll(orders, {i \in OpenOf(orders, {"profit"}) : ProfitProblem(orders[i], late)}),
             \/ orders' = os /\ UNCHANGED profit
             \/ Protect(os, was, weak, core)
      PROVE  \/ Follows(orders', orders) /\ UNCHANGED profit
             \/ UNCHANGED profit /\ \E o2 : Placed(o2, "stop", Held)
             \/ \E o2 :
                  /\ profit' = FrozenBudget(core)
                  /\ Follows(o2, orders) /\ OpenOf(o2, {"profit"}) = {}
                  /\ \/ orders' = o2
                     \/ /\ ~LimitReached(o2) /\ ProfitQuantity(profit', avail) > 0
                        /\ Placed(o2, "profit", ProfitQuantity(profit', avail))
  <2> DEFINE os1 == IF zone = "broken" THEN EndAll(os, OpenOf(os, {"profit"})) ELSE os
             os2 == WithoutOrdinary(os1)
  <2>1. Follows(os, orders)
    BY <1>1, <1>3, EndAllFollows
  <2>2. Follows(EndAll(os, OpenOf(os, {"profit"})), orders)
    BY <1>1, <2>1, EndAllOf
  <2>3. Follows(os1, orders)
    BY <2>1, <2>2
  <2>4. Follows(os2, orders)
    <3> HIDE DEF os1
    <3>1. Follows(EndAll(os1, OpenOf(os1, Ordinary)), orders)
      BY <1>1, <2>3, EndAllOf
    <3> QED
      BY <3>1 DEF WithoutOrdinary
  <2>5. CASE orders' = os /\ UNCHANGED profit
    BY <2>1, <2>5
  <2>6. CASE Protect(os, was, weak, core)
    <3>1. \/ (orders' = os \/ orders' = os2) /\ UNCHANGED profit
          \/ Place(os2, "stop", Held) /\ UNCHANGED profit
          \/ /\ OpenOf(os2, Risk) = {} /\ profit' = FrozenBudget(core) /\ ~LimitReached(os2)
             /\ \/ orders' = os2
                \/ /\ ProfitQuantity(FrozenBudget(core), avail) > 0
                   /\ Place(os2, "profit", ProfitQuantity(FrozenBudget(core), avail))
      BY <2>6, Zenon DEF Protect
    <3> HIDE DEF os1, os2
    <3>2. OpenOf(os2, Risk) = {} => OpenOf(os2, {"profit"}) = {}
      BY DEF Risk
    <3> QED
      BY <2>1, <2>4, <3>1, <3>2 DEF Place, Placed, NextSlot
  <2> QED
    BY <1>3, <2>5, <2>6
<1>4. \/ UNCHANGED <<orders, intent, cooling, profit>>
      \/ \E late, weak, core \in BOOLEAN : \E was, os :
           /\ os = EndAll(orders, {i \in OpenOf(orders, {"profit"}) : ProfitProblem(orders[i], late)})
           /\ \/ orders' = os /\ UNCHANGED profit
              \/ Protect(os, was, weak, core)
  BY Zenon DEF RiskCheck
<1> QED
  BY <1>2, <1>3, <1>4, Zenon

(* An ordinary order is placed, an entry only if it is a first or a        *)
(* permitted attempt.                                                      *)
Submitted ==
  \E os, kind, q, block :
    /\ kind \in Ordinary /\ ~LimitReached(os) /\ Placed(os, kind, q)
    /\ kind = "entry" => MayRetry(os, block)

LEMMA Submits ==
  ASSUME NEW os, Follows(os, orders), ~LimitReached(os), NEW kind \in Ordinary, NEW q, NEW block,
         kind = "entry" => MayRetry(os, block),
         NEW i \in Slots, NextSlot(os, i), orders' = [os EXCEPT ![i] = NewOrder(kind, q)]
  PROVE  Submitted
<1>1. Placed(os, kind, q)
  BY DEF Placed, NextSlot
<1> QED
  BY <1>1, Zenon DEF Submitted

LEMMA ClearedFollows ==
  ASSUME TypeOK, RetriesUnfilled(orders), NEW block, NEW evaluated, NEW selected,
         NEW away \in BOOLEAN
  PROVE  Follows(Cleared(ObservedEntries(block), evaluated, selected, away), orders)
<1> DEFINE o1 == ObservedEntries(block)
           os == Cleared(o1, evaluated, selected, away)
<1>1. orders \in [Slots -> Order]
  BY DEF TypeOK
<1>2. Follows(o1, orders)
  BY <1>1, EndAllFollows DEF ObservedEntries, Attempts
<1>3. \A i \in Slots : \/ os[i] = o1[i]
                       \/ i \in OpenOf(o1, Ordinary) /\ os[i] = End(o1[i], OffPrice(o1[i], away))
  BY Zenon DEF Cleared
<1>4. \A i \in Slots : OffPrice(o1[i], away) \in BOOLEAN
  BY DEF OffPrice
<1>5. os = [i \in Slots |-> os[i]]
  BY DEF Cleared
<1> HIDE DEF o1, os
<1>6. Follows(os, o1)
  BY <1>2, <1>3, <1>4, <1>5, EndingFollows, FollowsRetries DEF Follows
<1>7. Follows(os, orders)
  BY <1>1, <1>2, <1>6, FollowsTwice
<1> QED
  BY <1>7 DEF os, o1

LEMMA IntradayShape ==
  ASSUME TypeOK, RetriesUnfilled(orders), IntradayTick
  PROVE  UNCHANGED profit /\ (Follows(orders', orders) \/ Submitted)
<1>1. orders \in [Slots -> Order]
  BY DEF TypeOK
<1>2. CASE IntradayWait
  BY <1>1, <1>2, FollowsItself DEF IntradayWait, account
<1>3. ASSUME NEW evaluated \in BOOLEAN, NEW confirmed \in BOOLEAN, NEW selected \in BOOLEAN,
             NEW away \in BOOLEAN, Decide(evaluated, confirmed, selected, away)
      PROVE  Follows(orders', orders) \/ Submitted
  <2> DEFINE block == blocked \/ Struck
             os == Cleared(ObservedEntries(block), evaluated, selected, away)
  <2>2. Follows(os, orders)
    BY ClearedFollows
  <2>3. \/ orders' = os
        \/ CycleStep(os, evaluated, confirmed, selected)
        \/ ~LimitReached(os) /\ (SubmitBuy(os, block) \/ SubmitExit(os) \/ SubmitTSell(os))
    BY <1>3, Zenon DEF Decide
  <2>4. {"entry", "reentry", "t_buy", "exit", "t_sell"} = Ordinary
    BY DEF Ordinary, Buys
  <2> HIDE DEF os, block
  <2>5. CASE orders' = os
    BY <2>2, <2>5
  <2>6. CASE CycleStep(os, evaluated, confirmed, selected)
    <3>1. \/ orders' = os
          \/ \E S : orders' = EndAll(os, {i \in S : Open(os[i])})
          \/ /\ ~LimitReached(os)
             /\ \E i \in Slots : \E q : NextSlot(os, i) /\ orders' = [os EXCEPT ![i] = NewOrder("t_buy", q)]
      BY <2>6, Zenon DEF CycleStep
    <3>2. ASSUME NEW S, orders' = EndAll(os, {i \in S : Open(os[i])})
          PROVE  Follows(orders', orders)
      BY <1>1, <2>2, <3>2, EndAllOf
    <3>3. ASSUME ~LimitReached(os), NEW i \in Slots, NextSlot(os, i), NEW q,
                 orders' = [os EXCEPT ![i] = NewOrder("t_buy", q)]
          PROVE  Submitted
      BY <2>2, <2>4, <3>3, Submits
    <3> QED
      BY <2>5, <3>1, <3>2, <3>3, Zenon
  <2>7. CASE ~LimitReached(os) /\ SubmitBuy(os, block)
    <3>1. \E i \in Slots : \E q :
            /\ NextSlot(os, i)
            /\ \/ MayRetry(os, block) /\ orders' = [os EXCEPT ![i] = NewOrder("entry", q)]
               \/ orders' = [os EXCEPT ![i] = NewOrder("reentry", q)]
      BY <2>7, Zenon DEF SubmitBuy, Place
    <3> QED
      BY <2>2, <2>4, <2>7, <3>1, Submits
  <2>8. CASE ~LimitReached(os) /\ SubmitExit(os)
    <3>1. \E i \in Slots : \E q : NextSlot(os, i) /\ orders' = [os EXCEPT ![i] = NewOrder("exit", q)]
      BY <2>8, Zenon DEF SubmitExit, Place
    <3> QED
      BY <2>2, <2>4, <2>8, <3>1, Submits
  <2>9. CASE ~LimitReached(os) /\ SubmitTSell(os)
    <3>1. \E i \in Slots : \E q : NextSlot(os, i) /\ orders' = [os EXCEPT ![i] = NewOrder("t_sell", q)]
      BY <2>9, Zenon DEF SubmitTSell
    <3> QED
      BY <2>2, <2>4, <2>9, <3>1, Submits
  <2> QED
    BY <2>3, <2>5, <2>6, <2>7, <2>8, <2>9
<1>4. UNCHANGED profit
  BY DEF IntradayTick, IntradayWait, IntradayRun, account
<1> QED
  BY <1>2, <1>3, <1>4, Zenon DEF IntradayTick, IntradayRun

LEMMA OthersFollow ==
  ASSUME TypeOK, RetriesUnfilled(orders),
         Observe \/ ApplyActions \/ Expire \/ ChangeConfig \/ Abort \/ Overlap
           \/ UNCHANGED vars \/ (Match /\ ~\E i \in Slots : Filled(i))
  PROVE  Follows(orders', orders)
<1>1. orders \in [Slots -> Order]
  BY DEF TypeOK
<1>2. Follows(orders, orders)
  BY <1>1, FollowsItself
<1>3. CASE Observe
  <2>1. PICK quote, structure, bar \in BOOLEAN :
          orders' = [i \in Slots |-> Observed(orders[i], quote, structure, bar)]
    BY <1>3, Zenon DEF Observe
  <2>2. ASSUME NEW o \in Order
        PROVE  LET n == Observed(o, quote, structure, bar)
               IN n.filled = o.filled /\ n.today = o.today /\ n.cur = o.cur
    <3> DEFINE s == o.seen /\ ~(quote /\ o.status \in {"open", "may_retry"})
               b == o.basis /\ ~(structure /\ o.kind = "entry") /\ ~(bar /\ o.kind \in BarKinds)
    <3>1. Observed(o, quote, structure, bar) = [o EXCEPT !.seen = s, !.basis = b]
      BY Zenon DEF Observed
    <3> HIDE DEF s, b
    <3> QED
      BY <3>1 DEF Order
  <2>3. ASSUME NEW i \in Slots PROVE Succeeds(orders'[i], orders[i]) /\ orders'[i] \in Order
    <3>1. orders[i] \in Order /\ orders'[i] = Observed(orders[i], quote, structure, bar)
      BY <1>1, <2>1
    <3> DEFINE o == orders[i]
               n == Observed(o, quote, structure, bar)
    <3> HIDE DEF o
    <3>0. quote \in BOOLEAN /\ structure \in BOOLEAN /\ bar \in BOOLEAN /\ o \in Order
      BY <3>1 DEF o
    <3>2. n \in Order /\ n.kind = o.kind /\ n.left = o.left /\ n.status = o.status
      BY <3>0, ObservedType
    <3>3. n.filled = o.filled /\ n.today = o.today /\ n.cur = o.cur
      BY <2>2, <3>0
    <3>4. o.status = "may_retry" => o.filled = 0
      BY DEF RetriesUnfilled, o
    <3> SUFFICES Succeeds(n, o) /\ n \in Order
      BY <3>1 DEF o
    <3> HIDE DEF n
    <3> QED
      BY <3>2, <3>3, <3>4, SameSucceeds
  <2> QED
    BY <2>1, <2>3 DEF Follows
<1>4. CASE ApplyActions
  <2>1. orders' = orders \/ orders' = EndAll(orders, OpenOf(orders, Ordinary \cup Risk))
    BY <1>4, Zenon DEF ApplyActions
  <2> QED
    BY <1>1, <1>2, <2>1, EndAllFollows
<1>5. CASE Expire
  <2>1. ASSUME NEW i \in Slots
        PROVE  \/ orders'[i] = orders[i]
               \/ Open(orders[i]) /\ \E retry \in BOOLEAN : orders'[i] = End(orders[i], retry)
    BY <1>5, Zenon DEF Expire
  <2>2. orders' = [i \in Slots |-> orders'[i]]
    BY <1>5 DEF Expire
  <2> QED
    BY <1>1, <2>1, <2>2, EndingFollows
<1>6. CASE ChangeConfig
  <2> DEFINE os == EndAll(orders, OpenOf(orders, Ordinary))
             b(j) == os[j].basis /\ orders[j].kind = "stop"
  <2>1. Follows(os, orders)
    BY <1>1, EndAllFollows
  <2>2. orders' = [j \in Slots |-> [os[j] EXCEPT !.cur = FALSE, !.basis = b(j)]]
    BY <1>6, Zenon DEF ChangeConfig
  <2>3. \A j \in Slots : b(j) \in BOOLEAN
    BY <2>1 DEF Follows, Order
  <2> HIDE DEF os, b
  <2>4. \A j \in Slots : /\ orders'[j].filled = os[j].filled /\ orders'[j].kind = os[j].kind
                         /\ orders'[j].today = os[j].today /\ orders'[j].cur = FALSE
                         /\ orders'[j].status = os[j].status /\ orders'[j].left = os[j].left
                         /\ orders'[j] \in Order
    BY <2>1, <2>2, <2>3 DEF Follows, Order
  <2>5. orders' \in [Slots -> Order]
    BY <2>2, <2>4
  <2> QED
    BY <2>1, <2>4, <2>5 DEF Follows, Succeeds
<1>7. CASE Abort \/ Overlap \/ UNCHANGED vars
  BY <1>2, <1>7 DEF Abort, Overlap, vars
<1>9. CASE Match /\ ~\E i \in Slots : Filled(i)
  <2>1. orders' = orders \/ \E i \in Slots : orders' = [orders EXCEPT ![i].seen = TRUE]
    BY <1>9, Zenon DEF Match, Blocked
  <2>2. ASSUME NEW i \in Slots, orders' = [orders EXCEPT ![i].seen = TRUE]
        PROVE  Follows(orders', orders)
    <3>1. \A o \in Order : LET n == [o EXCEPT !.seen = TRUE]
                           IN /\ n.filled = o.filled /\ n.kind = o.kind /\ n.today = o.today
                              /\ n.cur = o.cur /\ n.status = o.status /\ n.left = o.left
                              /\ n \in Order
      BY DEF Order
    <3>2. orders'[i] = [orders[i] EXCEPT !.seen = TRUE] /\ \A j \in Slots \ {i} : orders'[j] = orders[j]
      BY <1>1, <2>2
    <3>3. Succeeds(orders'[i], orders[i])
      <4> DEFINE o == orders[i]
                 n == [o EXCEPT !.seen = TRUE]
      <4>1. /\ n.filled = o.filled /\ n.kind = o.kind /\ n.today = o.today
            /\ n.cur = o.cur /\ n.status = o.status /\ n.left = o.left
        BY <1>1, <3>1
      <4>2. orders'[i] = n /\ (o.status = "may_retry" => o.filled = 0)
        BY <3>2 DEF RetriesUnfilled
      <4> SUFFICES Succeeds(n, o)
        BY <4>2
      <4> HIDE DEF n, o
      <4> QED
        BY <4>1, <4>2, SameSucceeds
    <3>4. orders' \in [Slots -> Order]
      BY <1>1, <2>2, <3>1
    <3>5. \A j \in Slots : Succeeds(orders'[j], orders[j])
      BY <1>2, <3>2, <3>3 DEF Follows
    <3> QED
      BY <3>4, <3>5 DEF Follows
  <2> QED
    BY <1>2, <2>1, <2>2
<1> QED
  BY <1>3, <1>4, <1>5, <1>6, <1>7, <1>9

LEMMA NightForgets ==
  ASSUME TypeOK, RetriesUnfilled(orders), PassTime
  PROVE  Follows(orders', orders) \/ Forgets(orders', orders)
<1>1. orders \in [Slots -> Order]
  BY DEF TypeOK
<1>2. CASE UNCHANGED orders
  BY <1>1, <1>2, FollowsItself
<1>3. CASE orders' = [i \in Slots |-> IF Kept(i) THEN Overnight(orders[i]) ELSE NoOrder]
  <2>1. \A o \in Order : LET n == Overnight(o)
                         IN /\ n.filled = o.filled /\ n.kind = o.kind /\ n.today = FALSE
                            /\ n.status = o.status /\ n.left = o.left /\ n \in Order
    BY DEF Overnight, Order
  <2>2. NoOrder \in Order /\ NoOrder.today = FALSE /\ NoOrder.status = "none"
    BY DEF NoOrder, Order, Statuses
  <2>3. orders' \in [Slots -> Order]
    BY <1>1, <1>3, <2>1, <2>2
  <2>4. \A i \in Slots : orders'[i] = Overnight(orders[i]) \/ orders'[i] = NoOrder
    BY <1>3
  <2> QED
    BY <1>1, <2>1, <2>2, <2>3, <2>4 DEF Forgets, RetriesUnfilled
<1> QED
  BY <1>2, <1>3 DEF PassTime

----------------------------------------------------------------------------
(* A fill is the one other kind of step.                                   *)
LEMMA FilledOrders ==
  ASSUME TypeOK, NEW i \in Slots, Filled(i)
  PROVE  \E q \in Nat \ {0} :
           /\ Fill(i, q) /\ q <= orders[i].left /\ (orders[i].kind \notin Buys => q <= avail)
           /\ Open(orders[i]) /\ orders'[i].left = orders[i].left - q
           /\ orders'[i].status = IF orders[i].left = q THEN "ended" ELSE "open"
           /\ \A j \in Slots :
                /\ orders'[j].kind = orders[j].kind /\ orders'[j].today = orders[j].today
                /\ orders'[j].cur = orders[j].cur
           /\ \A j \in Slots \ {i} :
                /\ orders'[j].status = orders[j].status /\ orders'[j].filled = orders[j].filled
                /\ orders'[j].left = orders[j].left
<1>1. PICK desired \in 0 .. MaxTarget : \E q \in Fillable(orders[i], desired) : Fill(i, q)
  BY DEF Filled
<1>2. PICK q \in Fillable(orders[i], desired) : Fill(i, q)
  BY <1>1
<1>3. Open(orders[i]) /\ orders[i] \in Order
  BY DEF Filled, Matchable, TypeOK
<1>4. q \in Nat \ {0} /\ q <= orders[i].left /\ (orders[i].kind \notin Buys => q <= avail)
  BY <1>2, <1>3 DEF Fillable, Order
<1>5. /\ orders'[i].left = orders[i].left - q
      /\ orders'[i].status = IF orders[i].left = q THEN "ended" ELSE "open"
      /\ \A j \in Slots \ {i} : orders'[j].left = orders[j].left /\ orders'[j].status = orders[j].status
  BY <1>2, <1>3, <1>4, FillOrders
<1>6. /\ \A j \in Slots : orders'[j].kind = orders[j].kind /\ orders'[j].today = orders[j].today
      /\ \A j \in Slots : j # i => orders'[j].filled = orders[j].filled
  BY FilledStep
<1>7. \A j \in Slots : orders'[j].cur = orders[j].cur
  BY <1>2 DEF TypeOK, Fill, Order
<1> QED
  BY <1>2, <1>3, <1>4, <1>5, <1>6, <1>7

(* Every step places an order, fills one, or lets the orders be.           *)
Moves ==
  \/ Follows(orders', orders)
  \/ Forgets(orders', orders)
  \/ \E os, kind, q :
       /\ Placed(os, kind, q)
       /\ kind # "stop" => ~LimitReached(os)
       /\ kind = "entry" => \E block : MayRetry(os, block)
  \/ \E i \in Slots : Filled(i)

LEMMA StepMoves ==
  ASSUME TypeOK, RetriesUnfilled(orders), [Next]_vars PROVE Moves
<1>1. CASE RiskCheck
  <2>1. \/ Follows(orders', orders)
        \/ \E os : Placed(os, "stop", Held)
        \/ \E os, q : ~LimitReached(os) /\ Placed(os, "profit", q)
    BY <1>1, RiskShape, Zenon
  <2>2. ASSUME NEW os, Placed(os, "stop", Held) PROVE Moves
    BY <2>2 DEF Moves
  <2>3. ASSUME NEW os, NEW q, ~LimitReached(os), Placed(os, "profit", q) PROVE Moves
    BY <2>3 DEF Moves
  <2>4. CASE Follows(orders', orders)
    BY <2>4 DEF Moves
  <2> QED
    BY <2>1, <2>2, <2>3, <2>4
<1>2. CASE IntradayTick
  <2>1. Follows(orders', orders) \/ Submitted
    BY <1>2, IntradayShape
  <2>2. CASE Submitted
    <3>1. PICK os, kind, q, block :
            /\ ~LimitReached(os) /\ Placed(os, kind, q)
            /\ kind = "entry" => MayRetry(os, block)
      BY <2>2, Zenon DEF Submitted
    <3> QED
      BY <3>1 DEF Moves
  <2> QED
    BY <2>1, <2>2 DEF Moves
<1>3. CASE Match /\ \E i \in Slots : Filled(i)
  BY <1>3 DEF Moves
<1>4. CASE \/ Observe \/ ApplyActions \/ Expire \/ ChangeConfig \/ Abort \/ Overlap
           \/ UNCHANGED vars \/ (Match /\ ~\E i \in Slots : Filled(i))
  BY <1>4, OthersFollow DEF Moves
<1>5. CASE PassTime
  BY <1>5, NightForgets DEF Moves
<1> QED
  BY <1>1, <1>2, <1>3, <1>4, <1>5 DEF Next, OneWorker, Tick

----------------------------------------------------------------------------
(* The day's orders.                                                       *)
LEMMA TodayFinite == ASSUME NEW os PROVE IsFiniteSet(Today(os, Limited))
<1>1. IsFiniteSet(Slots)
  BY BoundsAssumption, FS_Interval DEF Slots
<1>2. Today(os, Limited) \in SUBSET Slots
  BY DEF Today
<1> QED
  BY <1>1, <1>2, FS_Subset

LEMMA TodayShrinks ==
  ASSUME NEW new, NEW old,
         \A i \in Slots : new[i].today /\ new[i].kind \in Limited
                           => old[i].today /\ old[i].kind \in Limited
  PROVE  Cardinality(Today(new, Limited)) <= Cardinality(Today(old, Limited))
<1>1. Today(new, Limited) \in SUBSET Today(old, Limited)
  BY DEF Today
<1> QED
  BY <1>1, TodayFinite, FS_Subset

LEMMA TodayGrows ==
  ASSUME NEW os \in [Slots -> Order], ~LimitReached(os), NEW i \in Slots, NEW n
  PROVE  Cardinality(Today([os EXCEPT ![i] = n], Limited)) <= MaxDaily
<1> DEFINE T == Today(os, Limited)
           N == Today([os EXCEPT ![i] = n], Limited)
<1>1. N \in SUBSET (T \cup {i})
  BY DEF Today
<1>2. IsFiniteSet(T)
  BY TodayFinite
<1>3. Cardinality(T) \in Nat /\ Cardinality(T) < MaxDaily
  <2>1. Cardinality(T) \in Nat
    BY <1>2, FS_CardinalityType
  <2> QED
    BY <2>1, BoundsAssumption DEF LimitReached
<1>4. IsFiniteSet(T \cup {i}) /\ Cardinality(T \cup {i}) <= Cardinality(T) + 1
  <2> HIDE DEF T
  <2> QED
    <3>1. /\ IsFiniteSet(T \cup {i})
          /\ Cardinality(T \cup {i}) = IF i \in T THEN Cardinality(T) ELSE Cardinality(T) + 1
      BY <1>2, FS_AddElement
    <3> QED
      BY <1>3, <3>1
<1>5. Cardinality(N) \in Nat /\ Cardinality(N) <= Cardinality(T \cup {i})
  <2> HIDE DEF T, N
  <2> QED
    BY <1>1, <1>4, FS_Subset, FS_CardinalityType
<1>6. Cardinality(T \cup {i}) \in Nat
  <2> HIDE DEF T
  <2> QED
    BY <1>4, FS_CardinalityType
<1> HIDE DEF T, N
<1>7. Cardinality(N) <= MaxDaily
  BY <1>3, <1>4, <1>5, <1>6, BoundsAssumption
<1> QED
  BY <1>7 DEF N

LEMMA CardinalTypes ==
  ASSUME NEW os PROVE Cardinality(Today(os, Limited)) \in Nat
BY TodayFinite, FS_CardinalityType

LEMMA FollowsToday ==
  ASSUME NEW new, NEW old, Follows(new, old)
  PROVE  Cardinality(Today(new, Limited)) <= Cardinality(Today(old, Limited))
<1>1. \A i \in Slots : new[i].today /\ new[i].kind \in Limited => old[i].today /\ old[i].kind \in Limited
  BY DEF Follows, Succeeds
<1> QED
  BY <1>1, TodayShrinks

LEMMA DailyBudgetStep ==
  ASSUME TypeOK, Moves, DailyBudget PROVE DailyBudget'
<1>1. CASE Follows(orders', orders)
  BY <1>1, FollowsToday, CardinalTypes, BoundsAssumption DEF DailyBudget
<1>2. ASSUME NEW os, NEW kind, NEW q, Placed(os, kind, q), kind # "stop" => ~LimitReached(os)
      PROVE  DailyBudget'
  <2>1. PICK i \in Slots : orders' = [os EXCEPT ![i] = NewOrder(kind, q)]
    BY <1>2 DEF Placed
  <2>2. Follows(os, orders) /\ os \in [Slots -> Order]
    BY <1>2 DEF Placed, Follows
  <2>3. CASE ~LimitReached(os)
    BY <2>1, <2>2, <2>3, TodayGrows DEF DailyBudget
  <2>4. CASE kind = "stop"
    <3>1. NewOrder(kind, q).kind \notin Limited
      BY <2>4 DEF NewOrder, Limited, Ordinary, Buys
    <3>2. \A j \in Slots : orders'[j].today /\ orders'[j].kind \in Limited
                           => os[j].today /\ os[j].kind \in Limited
      BY <2>1, <2>2, <3>1
    <3> QED
      BY <2>2, <3>2, TodayShrinks, FollowsToday, CardinalTypes, BoundsAssumption DEF DailyBudget
  <2> QED
    BY <1>2, <2>3, <2>4
<1>3. ASSUME NEW i \in Slots, Filled(i) PROVE DailyBudget'
  <2>1. \A j \in Slots : orders'[j].kind = orders[j].kind /\ orders'[j].today = orders[j].today
    BY <1>3, FilledStep
  <2> QED
    BY <2>1, TodayShrinks, CardinalTypes, BoundsAssumption DEF DailyBudget
<1>4. CASE Forgets(orders', orders)
  <2>1. \A i \in Slots : ~orders'[i].today
    BY <1>4 DEF Forgets
  <2> QED
    BY <2>1, TodayShrinks, CardinalTypes, BoundsAssumption DEF DailyBudget
<1> QED
  BY <1>1, <1>2, <1>3, <1>4 DEF Moves

----------------------------------------------------------------------------
(* The attempts of an entry.                                               *)
LEMMA RetriesStep ==
  ASSUME TypeOK, Moves, RetriesUnfilled(orders) PROVE RetriesUnfilled(orders)'
<1>1. CASE Follows(orders', orders)
  BY <1>1, FollowsRetries DEF RetriesUnfilled
<1>2. ASSUME NEW os, NEW kind, NEW q, Placed(os, kind, q)
      PROVE  RetriesUnfilled(orders)'
  <2>1. PICK i \in Slots : orders' = [os EXCEPT ![i] = NewOrder(kind, q)]
    BY <1>2 DEF Placed
  <2>2. RetriesUnfilled(os) /\ os \in [Slots -> Order]
    BY <1>2, FollowsRetries DEF Placed, Follows
  <2>3. NewOrder(kind, q).filled = 0
    BY DEF NewOrder
  <2> QED
    BY <2>1, <2>2, <2>3 DEF RetriesUnfilled
<1>3. ASSUME NEW i \in Slots, Filled(i) PROVE RetriesUnfilled(orders)'
  <2>1. /\ \A j \in Slots \ {i} :
             orders'[j].status = orders[j].status /\ orders'[j].filled = orders[j].filled
        /\ orders'[i].status # "may_retry"
    BY <1>3, FilledOrders
  <2> QED
    BY <2>1 DEF RetriesUnfilled
<1>4. CASE Forgets(orders', orders)
  BY <1>4 DEF Forgets, RetriesUnfilled
<1> QED
  BY <1>1, <1>2, <1>3, <1>4 DEF Moves

LEMMA AttemptsStep ==
  ASSUME TypeOK, Moves, RetriesUnfilled(orders), OneEntryPerIntent PROVE OneEntryPerIntent'
<1> DEFINE Void(o) == o.status = "may_retry" /\ o.filled = 0
           Single(os) == \A i, j \in Attempts(os) : i # j => \E k \in {i, j} : Void(os[k])
<1>1. Single(orders)
  BY DEF OneEntryPerIntent
<1>2. ASSUME NEW os, Follows(os, orders) PROVE Single(os)
  <2>1. Attempts(os) \subseteq Attempts(orders)
    BY <1>2 DEF Attempts, Follows, Succeeds
  <2>2. \A k \in Attempts(os) : Void(orders[k]) => Void(os[k])
    BY <1>2 DEF Attempts, Follows, Succeeds
  <2> QED
    BY <1>1, <2>1, <2>2
<1>3. SUFFICES Single(orders')
  BY DEF OneEntryPerIntent, Attempts
<1>4. CASE Follows(orders', orders)
  BY <1>2, <1>4
<1>5. ASSUME NEW os, NEW kind, NEW q, Placed(os, kind, q),
             kind = "entry" => \E block : MayRetry(os, block)
      PROVE  Single(orders')
  <2>1. PICK i \in Slots : orders' = [os EXCEPT ![i] = NewOrder(kind, q)]
    BY <1>5 DEF Placed
  <2>2. Single(os) /\ RetriesUnfilled(os) /\ os \in [Slots -> Order]
    BY <1>2, <1>5, FollowsRetries DEF Placed, Follows
  <2>3. \A j \in Slots \ {i} : orders'[j] = os[j]
    BY <2>1, <2>2
  <2>4. \A j \in Attempts(orders') \ {i} : j \in Attempts(os)
    BY <2>3 DEF Attempts
  <2>5. CASE kind = "entry"
    <3>1. \A j \in Attempts(os) : Void(os[j])
      <4>1. PICK block : MayRetry(os, block)
        BY <1>5, <2>5
      <4> QED
        BY <2>2, <4>1 DEF MayRetry, RetriesUnfilled, Attempts
    <3>2. \A j \in Attempts(orders') \ {i} : Void(orders'[j])
      BY <2>3, <2>4, <3>1 DEF Attempts
    <3> QED
      BY <3>2
  <2>6. CASE kind # "entry"
    <3>1. i \notin Attempts(orders')
      BY <2>1, <2>2, <2>6 DEF Attempts, NewOrder
    <3> QED
      BY <2>2, <2>3, <2>4, <3>1 DEF Attempts
  <2> QED
    BY <2>5, <2>6
<1>6. ASSUME NEW i \in Slots, Filled(i) PROVE Single(orders')
  <2>1. /\ Open(orders[i])
        /\ \A j \in Slots :
             /\ orders'[j].kind = orders[j].kind /\ orders'[j].today = orders[j].today
             /\ orders'[j].cur = orders[j].cur
        /\ \A j \in Slots \ {i} :
             orders'[j].status = orders[j].status /\ orders'[j].filled = orders[j].filled
    BY <1>6, FilledOrders
  <2>2. Attempts(orders') = Attempts(orders)
    BY <2>1 DEF Attempts
  <2>3. \A k \in Attempts(orders) : Void(orders[k]) => Void(orders'[k])
    BY <2>1 DEF Attempts
  <2> QED
    BY <1>1, <2>2, <2>3
<1>7. CASE Forgets(orders', orders)
  BY <1>7 DEF Forgets, Attempts
<1> QED
  BY <1>4, <1>5, <1>6, <1>7 DEF Moves

----------------------------------------------------------------------------
(* The frozen budget of profit taking.                                     *)
WithinFrozen(p, os) ==
  /\ p.sold <= p.budget
  /\ \A i \in OpenOf(os, {"profit"}) : p.sold + os[i].left <= p.budget

LEMMA FollowsFrozen ==
  ASSUME NEW p, NEW new, NEW old, Follows(new, old), WithinFrozen(p, old)
  PROVE  WithinFrozen(p, new)
BY DEF WithinFrozen, Follows, Succeeds

LEMMA ForgetsFrozen ==
  ASSUME NEW p, NEW new, NEW old, Forgets(new, old), WithinFrozen(p, old)
  PROVE  WithinFrozen(p, new)
BY DEF WithinFrozen, Forgets

LEMMA OtherPlacedFrozen ==
  ASSUME WithinFrozen(profit, orders), UNCHANGED profit,
         NEW os, NEW kind, NEW q, Placed(os, kind, q), kind # "profit"
  PROVE  WithinFrozen(profit, orders)'
<1>1. PICK i \in Slots : orders' = [os EXCEPT ![i] = NewOrder(kind, q)]
  BY DEF Placed
<1>2. Follows(os, orders) /\ os \in [Slots -> Order]
  BY DEF Placed, Follows
<1>3. WithinFrozen(profit, os)
  BY <1>2, FollowsFrozen
<1>4. NewOrder(kind, q).kind # "profit"
  BY DEF NewOrder
<1>5. \A j \in OpenOf(orders', {"profit"}) : j \in OpenOf(os, {"profit"}) /\ orders'[j] = os[j]
  BY <1>1, <1>2, <1>4
<1> QED
  BY <1>3, <1>5 DEF WithinFrozen

(* What is placed is at most what is left of the budget.                   *)
LEMMA ProfitQuantityWithin ==
  ASSUME NEW p \in [budget : Nat, sold : Nat, core : BOOLEAN], NEW available \in Nat
  PROVE  p.sold + ProfitQuantity(p, available) <= p.budget
<1> DEFINE q == Least(available, p.budget - p.sold)
<1>1. p.budget \in Nat /\ p.sold \in Nat
  OBVIOUS
<1>2. q \in Int /\ q <= p.budget - p.sold
  BY <1>1 DEF Least
<1>3. Lots(q) \in Int /\ Lots(q) <= q
  BY <1>2, LotsInt, BoundsAssumption DEF Lots
<1>4. ProfitQuantity(p, available) = IF p.core THEN Lots(q) ELSE q
  BY DEF ProfitQuantity
<1> HIDE DEF q
<1> QED
  BY <1>1, <1>2, <1>3, <1>4

LEMMA RiskFrozen ==
  ASSUME Inv, RetriesUnfilled(orders), WithinFrozen(profit, orders), RiskCheck
  PROVE  WithinFrozen(profit, orders)'
<1>1. TypeOK /\ profit \in [budget : Nat, sold : Nat, core : BOOLEAN] /\ avail \in Nat
  BY DEF Inv, TypeOK
<1>2. CASE Follows(orders', orders) /\ UNCHANGED profit
  BY <1>2, FollowsFrozen DEF WithinFrozen
<1>3. ASSUME UNCHANGED profit, NEW os, Placed(os, "stop", Held) PROVE WithinFrozen(profit, orders)'
  BY <1>3, OtherPlacedFrozen
<1>4. ASSUME NEW core \in BOOLEAN, NEW os, profit' = FrozenBudget(core),
             Follows(os, orders), OpenOf(os, {"profit"}) = {},
             \/ orders' = os
             \/ ProfitQuantity(profit', avail) > 0 /\ Placed(os, "profit", ProfitQuantity(profit', avail))
      PROVE  WithinFrozen(profit, orders)'
  <2>1. profit' \in [budget : Nat, sold : Nat, core : BOOLEAN]
    BY <1>1, <1>4, FrozenBudgetType
  <2>2. profit'.sold <= profit'.budget
    <3>1. CASE profit.sold > 0
      BY <1>4, <3>1 DEF FrozenBudget, WithinFrozen
    <3>2. CASE ~(profit.sold > 0)
      <4>1. profit'.sold = 0
        BY <1>4, <3>2 DEF FrozenBudget
      <4> QED
        BY <2>1, <4>1
    <3> QED
      BY <3>1, <3>2
  <2>3. CASE orders' = os
    BY <1>4, <2>2, <2>3 DEF WithinFrozen
  <2>4. CASE Placed(os, "profit", ProfitQuantity(profit', avail))
    <3> DEFINE q == ProfitQuantity(profit', avail)
    <3>1. profit'.sold + q <= profit'.budget
      BY <1>1, <2>1, ProfitQuantityWithin
    <3> HIDE DEF q
    <3>2. PICK i \in Slots : orders' = [os EXCEPT ![i] = NewOrder("profit", q)]
      BY <2>4 DEF Placed, q
    <3>3. os \in [Slots -> Order] /\ NewOrder("profit", q).left = q
      BY <1>4 DEF Follows, NewOrder
    <3>4. \A j \in OpenOf(orders', {"profit"}) : orders'[j].left = q
      BY <1>4, <3>2, <3>3
    <3> QED
      BY <2>2, <3>1, <3>4 DEF WithinFrozen
  <2> QED
    BY <1>4, <2>3, <2>4
<1> QED
  BY <1>1, <1>2, <1>3, <1>4, RiskShape

LEMMA FillFrozen ==
  ASSUME Inv, WithinFrozen(profit, orders), NEW i \in Slots, Filled(i)
  PROVE  WithinFrozen(profit, orders)'
<1>1. /\ profit \in [budget : Nat, sold : Nat, core : BOOLEAN] /\ Held \in Nat
      /\ orders[i].left \in Nat
  BY DEF Inv, TypeOK, Held, Order
<1>2. PICK q \in Nat \ {0} :
        /\ Fill(i, q) /\ q <= orders[i].left /\ (orders[i].kind \notin Buys => q <= avail)
        /\ Open(orders[i]) /\ orders'[i].left = orders[i].left - q
        /\ orders'[i].status = IF orders[i].left = q THEN "ended" ELSE "open"
        /\ \A j \in Slots : orders'[j].kind = orders[j].kind
        /\ \A j \in Slots \ {i} : orders'[j].status = orders[j].status
  BY FilledOrders DEF Inv
<1> DEFINE flat == orders[i].kind \notin Buys /\ q = Held
<1>3. profit' = IF flat THEN NoProfit
                ELSE IF orders[i].kind = "profit" THEN [profit EXCEPT !.sold = profit.sold + q]
                ELSE profit
  BY <1>2, Zenon DEF Fill
<1>4. \A j \in OpenOf(orders', {"profit"}) : /\ j = i /\ orders[i].kind = "profit"
                                            /\ orders[i].left # q
  BY <1>2 DEF Inv, OrderInv, OneOpenOrder
<1>5. orders[i].kind = "profit" =>
        orders[i].left <= Held /\ profit.sold + orders[i].left <= profit.budget
  BY <1>2 DEF Inv, OrderInv, ProfitCovered, WithinFrozen
<1>6. CASE flat
  <2>1. OpenOf(orders', {"profit"}) = {}
    BY <1>1, <1>2, <1>4, <1>5, <1>6
  <2>2. profit'.sold = 0 /\ profit'.budget = 0
    BY <1>3, <1>6 DEF NoProfit
  <2> QED
    BY <2>1, <2>2 DEF WithinFrozen
<1>7. CASE ~flat /\ orders[i].kind = "profit"
  <2>1. profit'.sold = profit.sold + q /\ profit'.budget = profit.budget
    BY <1>1, <1>3, <1>7
  <2>2. profit.sold + orders[i].left <= profit.budget
    BY <1>5, <1>7
  <2> QED
    BY <1>1, <1>2, <1>4, <2>1, <2>2 DEF WithinFrozen
<1>8. CASE ~flat /\ orders[i].kind # "profit"
  BY <1>3, <1>4, <1>8 DEF WithinFrozen
<1> QED
  BY <1>6, <1>7, <1>8

LEMMA ActionsFrozen ==
  ASSUME Inv, RetriesUnfilled(orders), WithinFrozen(profit, orders), ApplyActions
  PROVE  WithinFrozen(profit, orders)'
<1>1. profit \in [budget : Nat, sold : Nat, core : BOOLEAN] /\ orders \in [Slots -> Order]
  BY DEF Inv, TypeOK
<1>2. CASE UNCHANGED <<orders, profit>>
  BY <1>2 DEF WithinFrozen
<1>3. ASSUME NEW r \in Ratios,
             profit' = [profit EXCEPT !.budget = profit.budget * r, !.sold = profit.sold * r],
             orders' = EndAll(orders, OpenOf(orders, Ordinary \cup Risk))
      PROVE  WithinFrozen(profit, orders)'
  <2>1. profit'.sold = profit.sold * r /\ profit'.budget = profit.budget * r
    BY <1>1, <1>3
  <2>2. \A a, b, c \in Nat : a <= b => a * c <= b * c
    OBVIOUS
  <2>3. profit'.sold <= profit'.budget
    <3>1. r \in Nat /\ profit.sold \in Nat /\ profit.budget \in Nat /\ profit.sold <= profit.budget
      BY <1>1, BoundsAssumption DEF WithinFrozen
    <3> QED
      BY <2>1, <2>2, <3>1
  <2>4. \A i \in Slots : ~Open(orders'[i])
    BY <1>1, <1>3, EndAllEnds DEF Inv, OrderInv, OpenHasKind
  <2> QED
    BY <2>3, <2>4 DEF WithinFrozen
<1> QED
  BY <1>2, <1>3, Zenon DEF ApplyActions

LEMMA FrozenStep ==
  ASSUME Inv, RetriesUnfilled(orders), WithinFrozen(profit, orders), [Next]_vars
  PROVE  WithinFrozen(profit, orders)'
<1>0. TypeOK
  BY DEF Inv
<1>1. CASE RiskCheck
  BY <1>1, RiskFrozen
<1>2. CASE ApplyActions
  BY <1>2, ActionsFrozen
<1>3. CASE IntradayTick
  <2>1. UNCHANGED profit /\ (Follows(orders', orders) \/ Submitted)
    BY <1>0, <1>3, IntradayShape
  <2>2. CASE Follows(orders', orders)
    BY <2>1, <2>2, FollowsFrozen DEF WithinFrozen
  <2>3. CASE Submitted
    <3>1. PICK os, kind, q : Placed(os, kind, q) /\ kind \in Ordinary
      BY <2>3, Zenon DEF Submitted
    <3>2. kind # "profit"
      BY <3>1 DEF Ordinary, Buys
    <3> QED
      BY <2>1, <3>1, <3>2, OtherPlacedFrozen
  <2> QED
    BY <2>1, <2>2, <2>3
<1>4. CASE Match /\ \E i \in Slots : Filled(i)
  BY <1>4, FillFrozen
<1>5. CASE \/ Observe \/ Expire \/ ChangeConfig \/ Abort \/ Overlap
           \/ UNCHANGED vars \/ (Match /\ ~\E i \in Slots : Filled(i))
  <2>1. Follows(orders', orders)
    BY <1>0, <1>5, OthersFollow
  <2>2. UNCHANGED profit
    BY <1>5 DEF Observe, Expire, ChangeConfig, Abort, Overlap, Match, Blocked, account, vars
  <2> QED
    BY <2>1, <2>2, FollowsFrozen DEF WithinFrozen
<1>6. CASE PassTime
  <2>1. UNCHANGED profit
    BY <1>6 DEF PassTime
  <2> QED
    BY <1>0, <1>6, <2>1, NightForgets, FollowsFrozen, ForgetsFrozen DEF WithinFrozen
<1> QED
  BY <1>1, <1>2, <1>3, <1>4, <1>5, <1>6 DEF Next, OneWorker, Tick

----------------------------------------------------------------------------
(* The buyback of a round trip.                                            *)
SellRow(c, os) == Active(c) => c.sell \in Slots /\ os[c.sell].status # "none"
Covers(c, os) ==
  Active(c) /\ c.today =>
    /\ c.bought <= os[c.sell].filled
    /\ \A i \in OpenOf(os, {"t_buy"}) : c.bought + os[i].left <= os[c.sell].filled
Buyback(c, os) == SellRow(c, os) /\ Covers(c, os)

(* What a handler may make of the round trip while it orders nothing.      *)
Same(new, old) ==
  Active(new) => /\ Active(old) /\ new.sell = old.sell /\ new.bought = old.bought
                 /\ new.today = old.today

LEMMA FollowsBuyback ==
  ASSUME NEW new, NEW old, Follows(new, old), NEW c, NEW d, Same(d, c), Buyback(c, old)
  PROVE  Buyback(d, new)
BY DEF Buyback, SellRow, Covers, Same, Follows, Succeeds

LEMMA PlacedBuyback ==
  ASSUME Buyback(cycle, orders), NEW os, NEW kind, NEW q, Placed(os, kind, q), kind # "t_buy",
         NEW d, Same(d, cycle)
  PROVE  Buyback(d, orders')
<1>1. PICK i \in Slots : os[i].status = "none" /\ orders' = [os EXCEPT ![i] = NewOrder(kind, q)]
  BY DEF Placed
<1>2. Follows(os, orders) /\ os \in [Slots -> Order]
  BY DEF Placed, Follows
<1>3. Buyback(d, os)
  BY <1>2, FollowsBuyback
<1>4. NewOrder(kind, q).kind # "t_buy"
  BY DEF NewOrder
<1>5. \A j \in OpenOf(orders', {"t_buy"}) : j \in OpenOf(os, {"t_buy"}) /\ orders'[j] = os[j]
  BY <1>1, <1>2, <1>4
<1>6. Active(d) => d.sell # i /\ orders'[d.sell] = os[d.sell]
  BY <1>1, <1>2, <1>3 DEF Buyback, SellRow
<1> QED
  BY <1>3, <1>5, <1>6 DEF Buyback, SellRow, Covers

LEMMA LotsAtMost == ASSUME NEW q \in Int PROVE Lots(q) <= q
BY BoundsAssumption DEF Lots

(* One step of the round trip buys back at most what is left to buy.       *)
LEMMA CycleBuyback ==
  ASSUME Inv, Buyback(cycle, orders), NEW os, Follows(os, orders), Active(cycle),
         NEW evaluated, NEW confirmed, NEW selected,
         CycleStep(os, evaluated, confirmed, selected)
  PROVE  Buyback(cycle', orders')
<1>1. /\ cycle \in Cycle /\ Held \in Nat /\ orders \in [Slots -> Order]
      /\ os \in [Slots -> Order] /\ cycle.sell \in Slots
  BY DEF Inv, TypeOK, Held, Follows, CycleHasSell
<1>2. Buyback(cycle, os)
  BY FollowsBuyback DEF Same
<1>3. ASSUME cycle' \in {Finished("abandoned"), Finished("complete")} PROVE ~Active(cycle')
  BY <1>3 DEF Finished, NoCycle, Active
<1>4. ASSUME orders' = os, NEW st, cycle' = [cycle EXCEPT !.status = st] PROVE Buyback(cycle', orders')
  <2>1. Same(cycle', cycle)
    BY <1>1, <1>4 DEF Same, Cycle
  <2> QED
    BY <1>4, <2>1, FollowsBuyback
<1>5. ASSUME ~Lapsed(evaluated, selected), {cycle.sell, cycle.buy} \cap OpenOf(os, Ordinary) = {},
             NEW desired \in 0 .. MaxTarget, NEW i \in Slots,
             os[cycle.sell].filled > 0,
             BuybackQuantity(os[cycle.sell].filled - cycle.bought, desired - Held) > 0,
             NextSlot(os, i),
             orders' = [os EXCEPT ![i] = NewOrder("t_buy",
               BuybackQuantity(os[cycle.sell].filled - cycle.bought, desired - Held))],
             cycle' = [cycle EXCEPT !.status = "buying", !.buy = i]
      PROVE  Buyback(cycle', orders')
  <2> DEFINE sold == os[cycle.sell].filled
             room == desired - Held
             q == BuybackQuantity(sold - cycle.bought, room)
  <2>1. sold \in Nat /\ cycle.bought \in Nat /\ room \in Int
    <3>1. desired \in Int
      BY <1>5, BoundsAssumption
    <3> QED
      BY <1>1, <3>1 DEF Order, Cycle
  <2>2. q \in Int /\ q <= sold - cycle.bought
    <3> DEFINE least == Least(sold - cycle.bought, room)
    <3>1. least \in Int /\ least <= sold - cycle.bought
      BY <2>1 DEF Least
    <3>2. q = Lots(least)
      BY DEF BuybackQuantity
    <3> HIDE DEF least, q
    <3>3. Lots(least) \in Int /\ Lots(least) <= least
      BY <3>1, LotsInt, LotsAtMost
    <3> QED
      BY <2>1, <3>1, <3>2, <3>3
  <2>3. /\ cycle'.sell = cycle.sell /\ cycle'.bought = cycle.bought
        /\ cycle'.today = cycle.today /\ cycle.today
    BY <1>1, <1>5 DEF Cycle, Lapsed
  <2>4. os[i].status = "none" /\ os[cycle.sell].status # "none"
    BY <1>2, <1>5 DEF NextSlot, Buyback, SellRow
  <2>5. cycle.sell # i /\ orders'[cycle.sell] = os[cycle.sell]
    BY <1>1, <1>5, <2>4
  <2> HIDE DEF q
  <2>6. NewOrder("t_buy", q).left = q
    BY DEF NewOrder
  <2>7. orders' = [os EXCEPT ![i] = NewOrder("t_buy", q)]
    BY <1>5 DEF q
  <2>8. \A j \in OpenOf(orders', {"t_buy"}) :
          orders'[j].left = q \/ (j \in OpenOf(os, {"t_buy"}) /\ orders'[j] = os[j])
    BY <1>1, <2>6, <2>7
  <2>9. cycle.bought <= sold
    BY <1>2, <2>3 DEF Buyback, Covers
  <2> QED
    BY <1>1, <1>2, <2>1, <2>2, <2>3, <2>4, <2>5, <2>8, <2>9 DEF Buyback, SellRow, Covers
<1>6. \/ cycle' \in {Finished("abandoned"), Finished("complete")}
      \/ orders' = os /\ \E st : cycle' = [cycle EXCEPT !.status = st]
      \/ /\ ~Lapsed(evaluated, selected) /\ {cycle.sell, cycle.buy} \cap OpenOf(os, Ordinary) = {}
         /\ \E desired \in 0 .. MaxTarget, i \in Slots :
              /\ os[cycle.sell].filled > 0
              /\ BuybackQuantity(os[cycle.sell].filled - cycle.bought, desired - Held) > 0
              /\ NextSlot(os, i)
              /\ orders' = [os EXCEPT ![i] = NewOrder("t_buy",
                   BuybackQuantity(os[cycle.sell].filled - cycle.bought, desired - Held))]
              /\ cycle' = [cycle EXCEPT !.status = "buying", !.buy = i]
  BY Zenon DEF CycleStep
<1>7. CASE cycle' \in {Finished("abandoned"), Finished("complete")}
  BY <1>3, <1>7 DEF Buyback, SellRow, Covers
<1> QED
  BY <1>4, <1>5, <1>6, <1>7, Zenon

LEMMA IntradayBuyback ==
  ASSUME Inv, RetriesUnfilled(orders), Buyback(cycle, orders), IntradayTick
  PROVE  Buyback(cycle, orders)'
<1>0. TypeOK
  BY DEF Inv
<1>1. CASE IntradayWait
  BY <1>1 DEF IntradayWait, Buyback, SellRow, Covers
<1>2. ASSUME NEW evaluated \in BOOLEAN, NEW confirmed \in BOOLEAN, NEW selected \in BOOLEAN,
             NEW away \in BOOLEAN, Decide(evaluated, confirmed, selected, away)
      PROVE  Buyback(cycle', orders')
  <2> DEFINE block == blocked \/ Struck
             os == Cleared(ObservedEntries(block), evaluated, selected, away)
  <2>1. Follows(os, orders) /\ os \in [Slots -> Order]
    BY <1>0, ClearedFollows DEF Follows
  <2>2. \/ Active(cycle) /\ CycleStep(os, evaluated, confirmed, selected)
        \/ /\ orders' = os
           /\ cycle' = IF Active(cycle) /\ AtRisk THEN Finished("abandoned") ELSE cycle
        \/ ~Active(cycle) /\ (SubmitBuy(os, block) \/ SubmitExit(os))
        \/ /\ ~Active(cycle) /\ OpenOf(os, Ordinary \cup Risk) = {} /\ SubmitTSell(os)
    BY <1>2, Zenon DEF Decide
  <2> HIDE DEF os, block
  <2>3. CASE Active(cycle) /\ CycleStep(os, evaluated, confirmed, selected)
    BY <2>1, <2>3, CycleBuyback
  <2>4. CASE /\ orders' = os
             /\ cycle' = IF Active(cycle) /\ AtRisk THEN Finished("abandoned") ELSE cycle
    <3>1. ~Active(Finished("abandoned"))
      BY DEF Active, Finished, NoCycle
    <3>2. Same(cycle', cycle)
      BY <2>4, <3>1 DEF Same
    <3> QED
      BY <2>1, <2>4, <3>2, FollowsBuyback
  <2>5. CASE ~Active(cycle) /\ (SubmitBuy(os, block) \/ SubmitExit(os))
    <3>1. UNCHANGED cycle
      BY <2>5, Zenon DEF SubmitBuy, SubmitExit
    <3> QED
      BY <2>5, <3>1 DEF Buyback, SellRow, Covers
  <2>6. CASE /\ ~Active(cycle) /\ OpenOf(os, Ordinary \cup Risk) = {} /\ SubmitTSell(os)
    <3>1. PICK i, q :
            /\ i \in Slots
            /\ orders' = [os EXCEPT ![i] = NewOrder("t_sell", q)]
            /\ cycle' = [status |-> "selling", sell |-> i, buy |-> NoSlot, bought |-> 0, today |-> TRUE]
      BY <2>6, Zenon DEF SubmitTSell
    <3>2. /\ NewOrder("t_sell", q).kind = "t_sell" /\ NewOrder("t_sell", q).filled = 0
          /\ NewOrder("t_sell", q).status = "open"
      BY DEF NewOrder
    <3>3. OpenOf(orders', {"t_buy"}) = {}
      BY <2>1, <2>6, <3>1, <3>2 DEF Ordinary, Buys
    <3>4. i \in Slots /\ cycle'.sell = i /\ cycle'.bought = 0 /\ orders'[i] = NewOrder("t_sell", q)
      BY <2>1, <3>1
    <3> QED
      BY <3>2, <3>3, <3>4 DEF Buyback, SellRow, Covers
  <2> QED
    BY <2>2, <2>3, <2>4, <2>5, <2>6
<1> QED
  BY <1>1, <1>2, Zenon DEF IntradayTick, IntradayRun

LEMMA FillBuyback ==
  ASSUME Inv, Buyback(cycle, orders), NEW i \in Slots, Filled(i)
  PROVE  Buyback(cycle, orders)'
<1>1. TypeOK /\ cycle \in Cycle /\ orders \in [Slots -> Order]
  BY DEF Inv, TypeOK
<1>2. PICK q \in Nat \ {0} :
        /\ Fill(i, q) /\ q <= orders[i].left
        /\ Open(orders[i]) /\ orders'[i].left = orders[i].left - q
        /\ orders'[i].status = IF orders[i].left = q THEN "ended" ELSE "open"
        /\ \A j \in Slots : orders'[j].kind = orders[j].kind
        /\ \A j \in Slots \ {i} :
             /\ orders'[j].status = orders[j].status /\ orders'[j].filled = orders[j].filled
             /\ orders'[j].left = orders[j].left
  BY <1>1, FilledOrders
<1>3. orders'[i].filled = orders[i].filled + q
  BY <1>1, <1>2, FillOrders
<1>4. cycle' = IF orders[i].kind = "t_buy" THEN [cycle EXCEPT !.bought = cycle.bought + q] ELSE cycle
  BY <1>2, Zenon DEF Fill
<1>5. /\ cycle'.status = cycle.status /\ cycle'.sell = cycle.sell /\ cycle'.today = cycle.today
      /\ cycle'.bought = IF orders[i].kind = "t_buy" THEN cycle.bought + q ELSE cycle.bought
  BY <1>1, <1>4 DEF Cycle
<1>6. \A j \in Slots : /\ orders[j].status # "none" => orders'[j].status # "none"
                       /\ orders[j].filled \in Nat /\ orders'[j].filled \in Nat
                       /\ orders[j].filled <= orders'[j].filled
  BY <1>1, <1>2, <1>3 DEF Order
<1>7. SellRow(cycle', orders')
  BY <1>5, <1>6 DEF Buyback, SellRow, Active
<1>8. ASSUME Active(cycle), cycle.today
      PROVE  /\ cycle'.bought <= orders[cycle.sell].filled
             /\ \A j \in OpenOf(orders', {"t_buy"}) :
                  cycle'.bought + orders'[j].left <= orders[cycle.sell].filled
  <2>1. /\ cycle.sell \in Slots /\ cycle.bought <= orders[cycle.sell].filled
        /\ \A j \in OpenOf(orders, {"t_buy"}) :
             cycle.bought + orders[j].left <= orders[cycle.sell].filled
    BY <1>8 DEF Buyback, SellRow, Covers
  <2>2. cycle.bought \in Nat /\ orders[i].left \in Nat /\ orders[cycle.sell].filled \in Nat
    BY <1>1, <2>1 DEF Cycle, Order
  <2>3. CASE orders[i].kind = "t_buy"
    <3>1. cycle'.bought = cycle.bought + q
      BY <1>5, <2>3
    <3>2. cycle.bought + orders[i].left <= orders[cycle.sell].filled
      BY <1>2, <2>1, <2>3
    <3>3. \A j \in OpenOf(orders', {"t_buy"}) : j = i
      BY <1>2 DEF Inv, OrderInv, OneOpenOrder
    <3> QED
      BY <1>2, <2>2, <3>1, <3>2, <3>3
  <2>4. CASE orders[i].kind # "t_buy"
    <3>1. cycle'.bought = cycle.bought
      BY <1>5, <2>4
    <3>2. \A j \in OpenOf(orders', {"t_buy"}) :
            j \in OpenOf(orders, {"t_buy"}) /\ orders'[j].left = orders[j].left
      BY <1>2, <2>4
    <3> QED
      BY <2>1, <3>1, <3>2
  <2> QED
    BY <2>3, <2>4
<1>9. Covers(cycle', orders')
  <2> SUFFICES ASSUME Active(cycle'), cycle'.today
               PROVE  /\ cycle'.bought <= orders'[cycle'.sell].filled
                      /\ \A j \in OpenOf(orders', {"t_buy"}) :
                           cycle'.bought + orders'[j].left <= orders'[cycle'.sell].filled
    BY DEF Covers
  <2>1. Active(cycle) /\ cycle.today /\ cycle.sell \in Slots
    BY <1>5 DEF Active, Buyback, SellRow
  <2>2. /\ orders[cycle.sell].filled \in Nat /\ orders'[cycle.sell].filled \in Nat
        /\ orders[cycle.sell].filled <= orders'[cycle.sell].filled
    BY <1>6, <2>1
  <2>3. cycle'.bought \in Nat
    BY <1>1, <1>5 DEF Cycle
  <2>4. \A j \in Slots : orders'[j].left \in Nat
    <3>1. \A j \in Slots : orders[j].left \in Nat
      BY <1>1 DEF Order
    <3> QED
      BY <1>2, <3>1
  <2> QED
    BY <1>5, <1>8, <2>1, <2>2, <2>3, <2>4
<1> QED
  BY <1>7, <1>9 DEF Buyback, SellRow, Covers

LEMMA BuybackStep ==
  ASSUME Inv, RetriesUnfilled(orders), Buyback(cycle, orders), [Next]_vars
  PROVE  Buyback(cycle, orders)'
<1>0. TypeOK
  BY DEF Inv
<1>1. CASE RiskCheck
  <2>1. UNCHANGED cycle
    BY <1>1 DEF RiskCheck
  <2>2. Same(cycle', cycle)
    BY <2>1 DEF Same
  <2>3. CASE Follows(orders', orders)
    BY <2>2, <2>3, FollowsBuyback DEF Buyback, SellRow, Covers
  <2>4. ASSUME NEW os, NEW kind, NEW q, Placed(os, kind, q), kind \in {"stop", "profit"}
        PROVE  Buyback(cycle, orders)'
    BY <2>2, <2>4, PlacedBuyback DEF Buyback, SellRow, Covers
  <2>5. \/ Follows(orders', orders)
        \/ \E os : Placed(os, "stop", Held)
        \/ \E os, q : Placed(os, "profit", q)
    BY <1>0, <1>1, RiskShape, Zenon
  <2> QED
    BY <2>3, <2>4, <2>5
<1>2. CASE IntradayTick
  BY <1>2, IntradayBuyback
<1>3. CASE Match /\ \E i \in Slots : Filled(i)
  BY <1>3, FillBuyback
<1>4. CASE \/ Observe \/ ApplyActions \/ Expire \/ ChangeConfig \/ Abort \/ Overlap
           \/ UNCHANGED vars \/ (Match /\ ~\E i \in Slots : Filled(i))
  <2>1. Follows(orders', orders)
    BY <1>0, <1>4, OthersFollow
  <2>2. Same(cycle', cycle)
    <3>1. cycle' = cycle \/ cycle' = Finished("abandoned")
      BY <1>4
      DEF Observe, ApplyActions, Expire, ChangeConfig, Abort, Overlap, Match, Blocked, vars
    <3>2. ~Active(Finished("abandoned"))
      BY DEF Active, Finished, NoCycle
    <3> QED
      BY <3>1, <3>2 DEF Same
  <2>3. Buyback(cycle', orders')
    BY <2>1, <2>2, FollowsBuyback
  <2> QED
    BY <2>3 DEF Buyback, SellRow, Covers
<1>5. CASE PassTime
  <2>1. CASE UNCHANGED <<orders, cycle>>
    BY <2>1 DEF Buyback, SellRow, Covers
  <2>2. CASE ~Active(cycle')
    BY <2>2 DEF Buyback, SellRow, Covers
  <2>3. ASSUME Active(cycle'), ~UNCHANGED <<orders, cycle>> PROVE Buyback(cycle, orders)'
    <3>1. /\ orders' = [i \in Slots |-> IF Kept(i) THEN Overnight(orders[i]) ELSE NoOrder]
          /\ cycle' = IF ~Active(cycle) THEN NoCycle
                      ELSE [cycle EXCEPT !.today = FALSE,
                              !.buy = IF cycle.buy \in OpenOf(orders, {"t_buy"}) THEN cycle.buy ELSE NoSlot]
      BY <1>5, <2>3, Zenon DEF PassTime
    <3>2. Active(cycle)
      BY <2>3, <3>1 DEF Active, NoCycle
    <3>3. cycle'.today = FALSE /\ cycle'.sell = cycle.sell
      BY <1>0, <3>1, <3>2 DEF TypeOK, Cycle
    <3>4. cycle.sell \in Slots /\ orders[cycle.sell].status # "none"
      BY <3>2 DEF Buyback, SellRow
    <3>5. orders'[cycle.sell] = Overnight(orders[cycle.sell])
      BY <3>1, <3>2, <3>4 DEF Kept
    <3>6. Overnight(orders[cycle.sell]).status = orders[cycle.sell].status
      BY <1>0, <3>4 DEF Overnight, TypeOK, Order
    <3> QED
      BY <3>3, <3>4, <3>5, <3>6 DEF Buyback, SellRow, Covers
  <2> QED
    BY <2>1, <2>2, <2>3
<1> QED
  BY <1>1, <1>2, <1>3, <1>4, <1>5 DEF Next, OneWorker, Tick

----------------------------------------------------------------------------
Limits ==
  /\ RetriesUnfilled(orders) /\ DailyBudget /\ OneEntryPerIntent
  /\ WithinFrozen(profit, orders) /\ Buyback(cycle, orders)

LEMMA LimitsInit == Init => Limits
<1> SUFFICES ASSUME Init PROVE Limits
  OBVIOUS
<1>1. \A i \in Slots : /\ ~Open(orders[i]) /\ orders[i].status = "none"
                       /\ ~orders[i].today /\ orders[i].kind = "none"
  BY DEF Init, NoOrder
<1>2. DailyBudget
  <2>1. Today(orders, Limited) = {}
    BY <1>1 DEF Today
  <2> QED
    BY <2>1, FS_EmptySet, BoundsAssumption DEF DailyBudget
<1>3. OneEntryPerIntent
  BY <1>1 DEF OneEntryPerIntent, Attempts
<1>4. WithinFrozen(profit, orders)
  BY <1>1 DEF WithinFrozen, Init, NoProfit
<1>5. Buyback(cycle, orders)
  <2>1. ~Active(cycle)
    BY DEF Init, NoCycle, Active
  <2> QED
    BY <2>1 DEF Buyback, SellRow, Covers
<1> QED
  BY <1>1, <1>2, <1>3, <1>4, <1>5 DEF Limits, RetriesUnfilled

LEMMA LimitsNext == Inv /\ Limits /\ [Next]_vars => Limits'
<1> SUFFICES ASSUME Inv, Limits, [Next]_vars PROVE Limits'
  OBVIOUS
<1>1. TypeOK /\ Moves
  BY StepMoves DEF Inv, Limits
<1> QED
  BY <1>1, RetriesStep, DailyBudgetStep, AttemptsStep, FrozenStep, BuybackStep DEF Limits

LEMMA LimitsKept == Spec => []Limits
BY LimitsInit, LimitsNext, Invariance, PTL DEF Spec

(* The ordinary and profit orders of a day never exceed                    *)
(* intraday_max_orders: submit and the profit branch of risk_check insert  *)
(* only under the limit, and no handler makes an order one of today's.     *)
THEOREM DayWithinBudget == Spec => []DailyBudget
<1>1. Limits => DailyBudget
  BY DEF Limits
<1> QED
  BY <1>1, LimitsKept, PTL

(* Of the attempts at an entry that next_attempt allows only one may have  *)
(* bought: a new one needs every earlier one to be ended and unfilled, and *)
(* what has ended never fills.                                             *)
THEOREM EntriesOnce == Spec => []OneEntryPerIntent
<1>1. Limits => OneEntryPerIntent
  BY DEF Limits
<1> QED
  BY <1>1, LimitsKept, PTL

(* Profit taking never sells beyond the budget risk_check froze, over all  *)
(* orders and part fills of the intent.                                    *)
THEOREM ProfitKeepsBudget == Spec => []ProfitWithinBudget
<1>1. TypeOK /\ Limits => ProfitWithinBudget
  BY DEF Limits, WithinFrozen, ProfitWithinBudget, TypeOK
<1> QED
  BY <1>1, LimitsKept, Typing, PTL

(* A round trip never buys back more than its sale sold: what _fill has    *)
(* booked as bought and what the open buyback may still buy.               *)
THEOREM BuybackIsCovered == Spec => []BuybackWithinSale
<1>1. TypeOK /\ Limits => BuybackWithinSale
  <2> SUFFICES ASSUME TypeOK, Limits, Active(cycle), cycle.today,
                      NEW open, open = OpenOf(orders, {"t_buy"})
               PROVE  cycle.bought + (IF open = {} THEN 0 ELSE orders[CHOOSE i \in open : TRUE].left)
                        <= orders[cycle.sell].filled
    BY DEF BuybackWithinSale
  <2>1. CASE open = {}
    <3>1. cycle.bought \in Nat
      BY DEF TypeOK, Cycle
    <3> QED
      BY <2>1, <3>1 DEF Limits, Buyback, Covers
  <2>2. CASE open # {}
    <3> DEFINE k == CHOOSE i \in open : TRUE
    <3>1. k \in open
      BY <2>2
    <3> HIDE DEF k
    <3>2. cycle.bought + orders[k].left <= orders[cycle.sell].filled
      BY <3>1 DEF Limits, Buyback, Covers
    <3> QED
      BY <2>2, <3>2 DEF k
  <2> QED
    BY <2>1, <2>2
<1> QED
  BY <1>1, LimitsKept, Typing, PTL
=============================================================================
