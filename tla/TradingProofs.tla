--------------------------- MODULE TradingProofs ---------------------------
(***************************************************************************)
(* Theorems about Trading, for every value of its constants.               *)
(***************************************************************************)
EXTENDS Trading, TLAPS

----------------------------------------------------------------------------
(* Arithmetic.                                                             *)

(* A number of whole lots is a whole number; it is zero when below a lot.  *)
LEMMA LotsInt == ASSUME NEW q \in Int PROVE Lots(q) \in Int
<1>1. Lot \in Int /\ Lot > 0
  BY BoundsAssumption
<1>2. q % Lot \in Int
  BY <1>1
<1> QED
  BY <1>2 DEF Lots

LEMMA LotsNat == ASSUME NEW q \in Nat PROVE Lots(q) \in Nat /\ Lots(q) <= q
<1>1. Lot \in Int /\ Lot > 0
  BY BoundsAssumption
<1>2. q % Lot \in Nat /\ q % Lot <= q
  BY <1>1
<1> QED
  BY <1>2 DEF Lots

LEMMA ProfitQuantityInt ==
  ASSUME NEW p \in [budget : Nat, sold : Nat, core : BOOLEAN], NEW available \in Nat
  PROVE  ProfitQuantity(p, available) \in Int /\ (ProfitQuantity(p, available) > 0
           => ProfitQuantity(p, available) <= available)
<1> DEFINE q == Least(available, p.budget - p.sold)
<1>1. q \in Int /\ q <= available
  <2>1. p.budget - p.sold \in Int
    OBVIOUS
  <2> QED
    BY <2>1 DEF Least
<1>2. Lots(q) \in Int
  BY <1>1, LotsInt
<1>3. CASE q >= 0
  BY <1>1, <1>2, <1>3, LotsNat DEF ProfitQuantity
<1>4. CASE q < 0
  <2>1. Lots(q) <= q
    BY <1>1, BoundsAssumption DEF Lots
  <2> QED
    BY <1>1, <1>2, <1>4, <2>1 DEF ProfitQuantity
<1> QED
  BY <1>1, <1>3, <1>4

----------------------------------------------------------------------------
(* Ending orders.                                                          *)

LEMMA EndType ==
  ASSUME NEW o \in Order, NEW retry \in BOOLEAN
  PROVE  /\ End(o, retry) \in Order /\ ~Open(End(o, retry))
         /\ End(o, retry).kind = o.kind
BY DEF End, Order, Open, Statuses

(* EndAll ends the orders it is told to and leaves every other as it is.   *)
LEMMA EndAllEnds ==
  ASSUME NEW os \in [Slots -> Order], NEW S
  PROVE  /\ EndAll(os, S) \in [Slots -> Order]
         /\ \A i \in Slots : i \in S => ~Open(EndAll(os, S)[i])
         /\ \A i \in Slots : i \notin S => EndAll(os, S)[i] = os[i]
         /\ \A i \in Slots : EndAll(os, S)[i].kind = os[i].kind
<1>1. \A i \in Slots : /\ End(os[i], FALSE) \in Order
                       /\ ~Open(End(os[i], FALSE))
                       /\ End(os[i], FALSE).kind = os[i].kind
  BY EndType
<1> QED
  BY <1>1 DEF EndAll

(* new is what handlers leave of the orders of old when they place none.   *)
Weakens(new, old) ==
  /\ new \in [Slots -> Order]
  /\ \A i \in Slots : Open(new[i]) =>
       Open(old[i]) /\ new[i].kind = old[i].kind /\ new[i].left = old[i].left

LEMMA EndAllWeakens ==
  ASSUME NEW old, NEW os, Weakens(os, old), NEW S
  PROVE  Weakens(EndAll(os, S), old)
BY EndAllEnds DEF Weakens

LEMMA EndingWeakens ==
  ASSUME NEW old \in [Slots -> Order], NEW new, new = [i \in Slots |-> new[i]],
         \A i \in Slots : new[i] = old[i] \/ \E retry \in BOOLEAN : new[i] = End(old[i], retry)
  PROVE  Weakens(new, old)
<1>1. \A i \in Slots : new[i] \in Order
  BY EndType
<1>2. \A i \in Slots : Open(new[i]) => new[i] = old[i]
  BY EndType
<1> QED
  BY <1>1, <1>2 DEF Weakens

(* A new order placed where nothing is open is the only open one.          *)
LEMMA PlacedAlone ==
  ASSUME NEW os \in [Slots -> Order], \A j \in Slots : ~Open(os[j]),
         NEW i \in Slots, NEW kind \in Ordinary \cup Risk, NEW q \in Nat,
         NEW new, new = [os EXCEPT ![i] = NewOrder(kind, q)]
  PROVE  /\ new \in [Slots -> Order]
         /\ new[i].kind = kind /\ new[i].left = q
         /\ \A j \in Slots : Open(new[j]) <=> j = i
<1>1. NewOrder(kind, q) \in Order /\ Open(NewOrder(kind, q))
  BY DEF NewOrder, Order, Open, Statuses
<1> QED
  BY <1>1 DEF NewOrder

----------------------------------------------------------------------------
(* The inductive invariant adds to the type and the checked invariants:    *)
(* OpenHasKind, so that ordinary and risk orders are all there is;         *)
(* ProfitCovered: a profit order never asks for more than is held, so that *)
(* selling out ends it; CycleHasSell and CycleAlone: a running round trip  *)
(* has its sale, and no ordinary order but its own is open meanwhile, so   *)
(* that its buyback is placed alone.                                       *)
OpenHasKind == \A i \in Slots : Open(orders[i]) => orders[i].kind \in Ordinary \cup Risk
ProfitCovered == \A i \in OpenOf(orders, {"profit"}) : orders[i].left <= Held
CycleHasSell == Active(cycle) => cycle.sell \in Slots
CycleAlone == Active(cycle) => OpenOf(orders, {"entry", "reentry", "exit"}) = {}
OrderInv == /\ OneOpenOrder /\ ExitHasIntent /\ StopCoversPosition
            /\ OpenHasKind /\ ProfitCovered /\ TOrderHasCycle /\ CycleAlone
Inv == TypeOK /\ CycleHasSell /\ OrderInv

USE DEF Open, OpenOf

(* With no open order the invariant asks for nothing, now or next.         *)
LEMMA NoneOpen == (\A i \in Slots : ~Open(orders[i])) => OrderInv
BY DEF OrderInv, OneOpenOrder, ExitHasIntent, StopCoversPosition, OpenHasKind,
       ProfitCovered, TOrderHasCycle, CycleAlone

LEMMA NoneOpenNext == (\A i \in Slots : ~Open(orders'[i])) => OrderInv'
BY DEF OrderInv, OneOpenOrder, ExitHasIntent, StopCoversPosition, OpenHasKind,
       ProfitCovered, TOrderHasCycle, CycleAlone

(* A handler that only ends orders, and keeps the position, keeps the      *)
(* invariant, if the intents and the round trip still fit the open orders. *)
LEMMA WeakensKeeps ==
  ASSUME OrderInv, Weakens(orders', orders), UNCHANGED <<avail, locked>>,
         ExitHasIntent', TOrderHasCycle', CycleAlone'
  PROVE  OrderInv'
BY DEF Weakens, OrderInv, OneOpenOrder, StopCoversPosition, OpenHasKind, ProfitCovered, Held

LEMMA WeakensInv ==
  ASSUME OrderInv, Weakens(orders', orders), UNCHANGED <<intent, avail, locked, cycle>>
  PROVE  OrderInv'
<1>1. ExitHasIntent'
  BY DEF Weakens, OrderInv, ExitHasIntent
<1>2. TOrderHasCycle' /\ CycleAlone'
  BY DEF Weakens, OrderInv, TOrderHasCycle, CycleAlone
<1> QED
  BY <1>1, <1>2, WeakensKeeps

LEMMA InitInv == Init => Inv
<1> SUFFICES ASSUME Init PROVE Inv
  OBVIOUS
<1>1. TypeOK
  <2>1. NoOrder \in Order /\ NoProfit \in [budget : Nat, sold : Nat, core : BOOLEAN]
        /\ NoSale \in [qty : Nat, used : BOOLEAN]
    BY DEF NoOrder, Order, Statuses, NoProfit, NoSale
  <2>2. avail \in Nat /\ locked \in Nat /\ cycles \in Nat
    BY BoundsAssumption DEF Init
  <2>3. orders \in [Slots -> Order]
    BY <2>1 DEF Init
  <2>4. session \in BOOLEAN /\ cooling \in BOOLEAN /\ blocked \in BOOLEAN
    BY DEF Init
  <2>5. cycle \in Cycle
    BY DEF Init, NoCycle, NoSlot, Cycle
  <2> QED
    BY <2>1, <2>2, <2>3, <2>4, <2>5 DEF Init, TypeOK, Zones, Plans
<1>2. \A i \in Slots : ~Open(orders[i])
  BY DEF Init, NoOrder
<1>3. CycleHasSell
  BY DEF Init, NoCycle, CycleHasSell, Active
<1> QED
  BY <1>1, <1>2, <1>3, NoneOpen DEF Inv

----------------------------------------------------------------------------
(* Observe.                                                                *)
LEMMA ObservedType ==
  ASSUME NEW o \in Order, NEW quote \in BOOLEAN, NEW structure \in BOOLEAN, NEW bar \in BOOLEAN
  PROVE  /\ Observed(o, quote, structure, bar) \in Order
         /\ Observed(o, quote, structure, bar).kind = o.kind
         /\ Observed(o, quote, structure, bar).left = o.left
         /\ Observed(o, quote, structure, bar).status = o.status
<1> DEFINE s == o.seen /\ ~(quote /\ o.status \in {"open", "may_retry"})
           b == o.basis /\ ~(structure /\ o.kind = "entry") /\ ~(bar /\ o.kind \in BarKinds)
<1>1. s \in BOOLEAN /\ b \in BOOLEAN
  OBVIOUS
<1>2. Observed(o, quote, structure, bar) = [o EXCEPT !.seen = s, !.basis = b]
  BY Zenon DEF Observed
<1> HIDE DEF s, b
<1> QED
  BY <1>1, <1>2 DEF Order

LEMMA ObserveInv == Inv /\ Observe => Inv'
<1> SUFFICES ASSUME Inv, Observe PROVE Inv'
  OBVIOUS
<1> USE DEF Inv
<1>1. PICK z \in Zones, p \in Plans, quote, structure, bar \in BOOLEAN :
        /\ zone' = z /\ plan' = p
        /\ orders' = [i \in Slots |-> Observed(orders[i], quote, structure, bar)]
  BY Zenon DEF Observe
<1>2. Weakens(orders', orders)
  <2>1. orders \in [Slots -> Order]
    BY DEF TypeOK
  <2>2. \A i \in Slots : /\ orders'[i] \in Order /\ orders'[i].kind = orders[i].kind
                         /\ orders'[i].left = orders[i].left
                         /\ orders'[i].status = orders[i].status
    BY <1>1, <2>1, ObservedType
  <2> HIDE DEF Inv
  <2> QED
    BY <1>1, <2>2 DEF Weakens
<1>3. TypeOK'
  <2>1. orders' \in [Slots -> Order]
    BY <1>2 DEF Weakens
  <2>2. zone' \in Zones /\ plan' \in Plans
    BY <1>1
  <2>3. pc' = "apply" /\ UNCHANGED <<session, intent, cooling, account, cycle, cycles, blocked>>
    BY DEF Observe
  <2>4. /\ pc' \in {"idle", "apply", "expire", "risk", "intraday", "match"}
        /\ session' \in BOOLEAN /\ cooling' \in BOOLEAN /\ blocked' \in BOOLEAN
    BY <2>3 DEF TypeOK
  <2>5. intent' \in {"none", "stop", "profit"}
    BY <2>3 DEF TypeOK
  <2>6. /\ avail' \in Nat /\ locked' \in Nat /\ sale' \in [qty : Nat, used : BOOLEAN]
        /\ profit' \in [budget : Nat, sold : Nat, core : BOOLEAN]
    BY <2>3 DEF TypeOK, account
  <2>7. cycle' \in Cycle /\ cycles' \in Nat
    BY <2>3 DEF TypeOK
  <2> QED
    BY <2>1, <2>2, <2>4, <2>5, <2>6, <2>7 DEF TypeOK
<1>4. OrderInv' /\ CycleHasSell'
  <2>1. UNCHANGED <<intent, avail, locked, cycle>>
    BY DEF Observe, account
  <2> QED
    BY <1>2, <2>1, WeakensInv DEF CycleHasSell
<1> QED
  BY <1>3, <1>4

----------------------------------------------------------------------------
(* apply_actions and expire.                                               *)
LEMMA ApplyActionsInv == Inv /\ ApplyActions => Inv'
<1> SUFFICES ASSUME Inv, ApplyActions PROVE Inv'
  OBVIOUS
<1>1. TypeOK /\ OrderInv /\ CycleHasSell
  BY DEF Inv
<1>2. /\ pc' = "expire" /\ UNCHANGED <<session, zone, plan, intent, cooling>>
      /\ UNCHANGED <<locked, sale, cycle, cycles, blocked>>
  BY DEF ApplyActions, market
<1>3. CASE UNCHANGED <<orders, avail, profit>>
  <2>1. TypeOK'
    BY <1>1, <1>2, <1>3 DEF TypeOK
  <2>2. Weakens(orders', orders)
    BY <1>1, <1>3 DEF TypeOK, Weakens
  <2> QED
    BY <1>1, <1>2, <1>3, <2>1, <2>2, WeakensInv DEF Inv, CycleHasSell
<1>4. CASE \E r \in Ratios :
             /\ avail' = avail * r
             /\ profit' = [profit EXCEPT !.budget = @ * r, !.sold = @ * r]
             /\ orders' = EndAll(orders, OpenOf(orders, Ordinary \cup Risk))
  <2>1. PICK r \in Ratios :
          /\ avail' = avail * r
          /\ profit' = [profit EXCEPT !.budget = @ * r, !.sold = @ * r]
          /\ orders' = EndAll(orders, OpenOf(orders, Ordinary \cup Risk))
    BY <1>4
  <2>2. r \in Nat
    BY BoundsAssumption
  <2>3. avail' \in Nat /\ profit' \in [budget : Nat, sold : Nat, core : BOOLEAN]
    <3>1. \A n \in Nat : n * r \in Nat
      BY <2>2
    <3> QED
      BY <1>1, <2>1, <3>1 DEF TypeOK
  <2>4. orders' \in [Slots -> Order] /\ \A i \in Slots : ~Open(orders'[i])
    <3>1. orders \in [Slots -> Order]
      BY <1>1 DEF TypeOK
    <3> QED
      BY <1>1, <2>1, <3>1, EndAllEnds DEF OrderInv, OpenHasKind
  <2>5. TypeOK'
    BY <1>1, <1>2, <2>3, <2>4 DEF TypeOK
  <2> QED
    BY <1>1, <1>2, <2>4, <2>5, NoneOpenNext DEF Inv, CycleHasSell
<1> QED
  BY <1>3, <1>4 DEF ApplyActions

LEMMA ExpireInv == Inv /\ Expire => Inv'
<1> SUFFICES ASSUME Inv, Expire PROVE Inv'
  OBVIOUS
<1>1. TypeOK /\ OrderInv /\ CycleHasSell
  BY DEF Inv
<1>2. /\ pc' = "risk" /\ UNCHANGED <<session, zone, plan, intent, cooling>>
      /\ UNCHANGED <<avail, locked, profit, sale, cycle, cycles, blocked>>
  BY DEF Expire, market, account
<1>3. orders \in [Slots -> Order]
  BY <1>1 DEF TypeOK
<1>4. \A i \in Slots : orders'[i] = orders[i] \/ \E retry \in BOOLEAN : orders'[i] = End(orders[i], retry)
  BY DEF Expire
<1>5. orders' = [i \in Slots |-> orders'[i]]
  BY Zenon DEF Expire
<1>6. Weakens(orders', orders)
  BY <1>3, <1>4, <1>5, EndingWeakens
<1>7. TypeOK'
  BY <1>1, <1>2, <1>6 DEF TypeOK, Weakens
<1> QED
  BY <1>1, <1>2, <1>6, <1>7, WeakensInv DEF Inv, CycleHasSell

----------------------------------------------------------------------------
(* An order placed where nothing is open keeps the invariant, if it is     *)
(* what its kind asks for.                                                 *)
LEMMA PlacedInv ==
  ASSUME NEW os \in [Slots -> Order], \A j \in Slots : ~Open(os[j]),
         NEW kind \in Ordinary \cup Risk, NEW q \in Nat, NEW i \in Slots,
         orders' = [os EXCEPT ![i] = NewOrder(kind, q)],
         kind \in Risk => intent' = kind,
         kind = "stop" => q = Held',
         kind = "profit" => q <= Held',
         kind = "t_sell" => cycle'.status = "selling" /\ cycle'.sell = i,
         kind = "t_buy" => cycle'.status = "buying" /\ cycle'.buy = i,
         kind \in {"entry", "reentry", "exit"} => ~Active(cycle')
  PROVE  orders' \in [Slots -> Order] /\ OrderInv'
<1>1. /\ orders' \in [Slots -> Order]
      /\ orders'[i].kind = kind /\ orders'[i].left = q
      /\ \A j \in Slots : Open(orders'[j]) <=> j = i
  BY PlacedAlone
<1>2. OneOpenOrder' /\ OpenHasKind' /\ ExitHasIntent'
  BY <1>1 DEF OneOpenOrder, OpenHasKind, ExitHasIntent
<1>3. StopCoversPosition' /\ ProfitCovered'
  BY <1>1 DEF StopCoversPosition, ProfitCovered
<1>4. TOrderHasCycle' /\ CycleAlone'
  BY <1>1 DEF TOrderHasCycle, CycleAlone
<1> QED
  BY <1>1, <1>2, <1>3, <1>4 DEF OrderInv

(* risk_check.                                                             *)

(* What is frozen as the budget of profit taking is a number.              *)
LEMMA FrozenBudgetType ==
  ASSUME TypeOK, NEW core \in BOOLEAN
  PROVE  FrozenBudget(core) \in [budget : Nat, sold : Nat, core : BOOLEAN]
<1>1. Held \in Nat /\ CoreParts \in Nat /\ CoreWhole \in Nat \ {0}
  BY BoundsAssumption DEF TypeOK, Held
<1>2. Held * CoreParts \in Nat
  BY <1>1
<1>3. (Held * CoreParts) \div CoreWhole \in Nat
  BY <1>1, <1>2
<1>4. Lots((Held * CoreParts) \div CoreWhole) \in Nat
  <2>1. \A n \in Nat : Lots(n) \in Nat
    <3>1. Lot \in Int /\ Lot > 0
      BY BoundsAssumption
    <3>2. \A n \in Nat : n % Lot \in Nat /\ n % Lot <= n
      BY <3>1
    <3> QED
      BY <3>2 DEF Lots
  <2> QED
    BY <1>3, <2>1
<1>5. (IF core THEN Lots((Held * CoreParts) \div CoreWhole) ELSE Held) \in Nat
  BY <1>1, <1>4
<1> QED
  BY <1>5 DEF FrozenBudget, TypeOK

(* os, was: orders and intent once a profit order without grounds is gone. *)
LEMMA ProtectInv ==
  ASSUME TypeOK, OrderInv, UNCHANGED <<avail, locked, cycle>>,
         NEW os, Weakens(os, orders), NEW was \in {"none", "stop", "profit"},
         \A i \in Slots : Open(os[i]) /\ os[i].kind \in Risk => os[i].kind = was,
         NEW weak \in BOOLEAN, NEW core \in BOOLEAN, Protect(os, was, weak, core)
  PROVE  /\ OrderInv' /\ orders' \in [Slots -> Order]
         /\ intent' \in {"none", "stop", "profit"} /\ cooling' \in BOOLEAN
         /\ profit' \in [budget : Nat, sold : Nat, core : BOOLEAN]
<1> DEFINE signal == weak /\ "profit" \in Signals /\ zone = "high" /\ avail > 0
                     /\ (profit.sold = 0 \/ profit.sold < profit.budget)
           now    == Latched(was, signal)
           os1    == IF zone = "broken"
                     THEN EndAll(os, OpenOf(os, {"profit"})) ELSE os
           os2    == WithoutOrdinary(os1)
           budget == FrozenBudget(core)
           alone  == OpenOf(os2, Risk) = {}
<1>1. /\ now \in {"none", "stop", "profit"}
      /\ zone = "broken" => now = "stop"
      /\ zone # "broken" /\ was # "none" => now = was
  BY DEF Latched
<1>2. Weakens(os1, os) /\ Weakens(os2, os1) /\ Weakens(os1, orders) /\ Weakens(os2, orders)
  <2>1. os \in [Slots -> Order]
    BY DEF Weakens
  <2>2. Weakens(os, os)
    BY <2>1 DEF Weakens
  <2>3. Weakens(os1, os) /\ Weakens(os1, orders)
    BY <2>2, EndAllWeakens
  <2>4. Weakens(os1, os1)
    BY <2>3 DEF Weakens
  <2> QED
    BY <2>3, <2>4, EndAllWeakens DEF WithoutOrdinary
<1>3. \A i \in Slots : Open(os2[i]) => os2[i].kind \in Risk
  <2>1. os1 \in [Slots -> Order]
    BY <1>2 DEF Weakens
  <2>2. \A i \in Slots : Open(os2[i]) => os2[i] = os1[i] /\ i \notin OpenOf(os1, Ordinary)
    <3> HIDE DEF os1
    <3>1. os2 = EndAll(os1, OpenOf(os1, Ordinary))
      BY DEF WithoutOrdinary
    <3> QED
      BY <2>1, <3>1, EndAllEnds
  <2>3. \A i \in Slots : Open(os1[i]) => os1[i].kind \in Ordinary \cup Risk
    BY <1>2 DEF Weakens, OrderInv, OpenHasKind
  <2> QED
    BY <2>2, <2>3
<1>4. \A i \in Slots : Open(os2[i]) => os2[i].kind = now
  <2>1. \A i \in Slots : Open(os2[i]) => /\ Open(os1[i]) /\ Open(os[i]) /\ os2[i].kind = was
                                       /\ os1[i].kind = was
    BY <1>2, <1>3 DEF Weakens
  <2>2. zone = "broken" => \A i \in Slots : Open(os1[i]) => os1[i].kind # "profit"
    <3>1. os \in [Slots -> Order]
      BY DEF Weakens
    <3> QED
      BY <3>1, EndAllEnds
  <2> QED
    BY <1>1, <1>3, <2>1, <2>2 DEF Risk
<1>5. budget \in [budget : Nat, sold : Nat, core : BOOLEAN]
  BY FrozenBudgetType
<1>6. \/ now = "none" /\ orders' = os /\ intent' = "none" /\ UNCHANGED <<cooling, profit>>
      \/ /\ now # "none" /\ orders' = os2 /\ intent' = now
         /\ cooling' = (cooling \/ now = "stop") /\ UNCHANGED profit
      \/ /\ now = "stop" /\ alone /\ Place(os2, "stop", Held) /\ intent' = "stop"
         /\ cooling' = TRUE /\ UNCHANGED profit
      \/ /\ alone /\ orders' = os2 /\ intent' = "none"
         /\ UNCHANGED cooling /\ (UNCHANGED profit \/ profit' = budget)
      \/ /\ alone /\ profit' = budget /\ UNCHANGED cooling /\ intent' = "profit"
         /\ ProfitQuantity(budget, avail) > 0
         /\ Place(os2, "profit", ProfitQuantity(budget, avail))
  BY Zenon DEF Protect
<1> HIDE DEF signal, now, os2, os1, budget
<1>7. ASSUME Weakens(orders', orders), ExitHasIntent'
      PROVE  OrderInv' /\ orders' \in [Slots -> Order]
  <2>1. TOrderHasCycle' /\ CycleAlone'
    BY <1>7 DEF Weakens, OrderInv, TOrderHasCycle, CycleAlone
  <2> QED
    BY <1>7, <2>1, WeakensKeeps DEF Weakens
<1>8. profit \in [budget : Nat, sold : Nat, core : BOOLEAN] /\ cooling \in BOOLEAN
      /\ avail \in Nat /\ locked \in Nat
  BY DEF TypeOK
<1>9. alone => (\A i \in Slots : ~Open(os2[i])) /\ os2 \in [Slots -> Order]
  BY <1>2, <1>3 DEF Weakens
<1>10. CASE now = "none" /\ orders' = os /\ intent' = "none" /\ UNCHANGED <<cooling, profit>>
  <2>1. was = "none"
    BY <1>1, <1>10
  <2>2. ExitHasIntent'
    BY <1>10, <2>1 DEF ExitHasIntent
  <2> QED
    BY <1>7, <1>8, <1>10, <2>2
<1>11. CASE /\ now # "none" /\ orders' = os2 /\ intent' = now
            /\ cooling' = (cooling \/ now = "stop") /\ UNCHANGED profit
  <2>1. ExitHasIntent'
    BY <1>4, <1>11 DEF ExitHasIntent
  <2>2. cooling' \in BOOLEAN
    BY <1>8, <1>11, Zenon
  <2> QED
    BY <1>1, <1>2, <1>7, <1>8, <1>11, <2>1, <2>2
<1>12. CASE /\ now = "stop" /\ alone /\ Place(os2, "stop", Held) /\ intent' = "stop"
            /\ cooling' = TRUE /\ UNCHANGED profit
  <2>1. PICK i \in Slots : orders' = [os2 EXCEPT ![i] = NewOrder("stop", Held)]
    BY <1>12 DEF Place
  <2>2. Held \in Nat /\ Held' = Held /\ "stop" \in Ordinary \cup Risk /\ "stop" \notin Ordinary
    BY <1>8 DEF Held, Risk, Ordinary, Buys
  <2>3. OrderInv' /\ orders' \in [Slots -> Order]
    BY <1>9, <1>12, <2>1, <2>2, PlacedInv
  <2> QED
    BY <1>8, <1>12, <2>3
<1>13. CASE /\ alone /\ orders' = os2 /\ intent' = "none"
            /\ UNCHANGED cooling /\ (UNCHANGED profit \/ profit' = budget)
  <2>1. ExitHasIntent'
    BY <1>9, <1>13 DEF ExitHasIntent
  <2> QED
    BY <1>2, <1>5, <1>7, <1>8, <1>13, <2>1
<1>14. CASE /\ alone /\ profit' = budget /\ UNCHANGED cooling /\ intent' = "profit"
            /\ ProfitQuantity(budget, avail) > 0
            /\ Place(os2, "profit", ProfitQuantity(budget, avail))
  <2> DEFINE q == ProfitQuantity(budget, avail)
  <2>1. q \in Nat /\ q <= avail
    BY <1>5, <1>8, <1>14, ProfitQuantityInt
  <2>2. q <= Held' /\ "profit" \in Ordinary \cup Risk
    BY <1>8, <2>1 DEF Held, Risk
  <2>3. PICK i \in Slots : orders' = [os2 EXCEPT ![i] = NewOrder("profit", q)]
    BY <1>14 DEF Place
  <2> HIDE DEF q
  <2>4. OrderInv' /\ orders' \in [Slots -> Order]
    BY <1>9, <1>14, <2>1, <2>2, <2>3, PlacedInv
  <2> QED
    BY <1>5, <1>8, <1>14, <2>4
<1> QED
  BY <1>6, <1>10, <1>11, <1>12, <1>13, <1>14

LEMMA RiskCheckInv == Inv /\ RiskCheck => Inv'
<1> SUFFICES ASSUME Inv, RiskCheck PROVE Inv'
  OBVIOUS
<1>1. TypeOK /\ OrderInv /\ CycleHasSell
  BY DEF Inv
<1>2. /\ pc' = "intraday" /\ UNCHANGED <<session, zone, plan>>
      /\ UNCHANGED <<avail, locked, sale, cycle, cycles, blocked>>
  BY DEF RiskCheck, market
<1>3. orders \in [Slots -> Order] /\ intent \in {"none", "stop", "profit"}
  BY <1>1 DEF TypeOK
<1>4. SUFFICES /\ OrderInv' /\ orders' \in [Slots -> Order]
               /\ intent' \in {"none", "stop", "profit"} /\ cooling' \in BOOLEAN
               /\ profit' \in [budget : Nat, sold : Nat, core : BOOLEAN]
  BY <1>1, <1>2 DEF Inv, TypeOK, CycleHasSell
<1>5. CASE ~session /\ UNCHANGED <<orders, intent, cooling, profit>>
  <2>1. Weakens(orders', orders)
    BY <1>3, <1>5 DEF Weakens
  <2> QED
    BY <1>1, <1>2, <1>5, <2>1, WeakensInv DEF TypeOK
<1>6. ASSUME NEW late \in BOOLEAN, NEW weak \in BOOLEAN, NEW core \in BOOLEAN,
             NEW lapsed, lapsed = {i \in OpenOf(orders, {"profit"}) : ProfitProblem(orders[i], late)},
             NEW os, os = EndAll(orders, lapsed),
             NEW was, was = IF lapsed # {} /\ intent = "profit" THEN "none" ELSE intent,
             IF Held = 0 \/ zone = "none"
             THEN orders' = os /\ intent' = was /\ UNCHANGED <<cooling, profit>>
             ELSE Protect(os, was, weak, core)
      PROVE  /\ OrderInv' /\ orders' \in [Slots -> Order]
             /\ intent' \in {"none", "stop", "profit"} /\ cooling' \in BOOLEAN
             /\ profit' \in [budget : Nat, sold : Nat, core : BOOLEAN]
  <2>1. Weakens(orders, orders)
    BY <1>3 DEF Weakens
  <2>2. Weakens(os, orders)
    BY <1>6, <2>1, EndAllWeakens
  <2>3. \A i \in Slots : Open(os[i]) => i \notin lapsed /\ os[i] = orders[i]
    BY <1>3, <1>6, EndAllEnds
  <2>4. \A i \in Slots : Open(os[i]) /\ os[i].kind \in Risk => os[i].kind = was
    <3>1. SUFFICES ASSUME NEW i \in Slots, Open(os[i]), os[i].kind \in Risk, was # intent
                   PROVE  FALSE
      BY <1>1, <2>3 DEF OrderInv, ExitHasIntent
    <3>2. PICK k \in lapsed : TRUE
      BY <1>6, <3>1
    <3>3. k \in Slots /\ Open(orders[k])
      BY <1>6, <3>2
    <3>4. i = k
      BY <1>1, <2>3, <3>1, <3>3 DEF OrderInv, OneOpenOrder
    <3> QED
      BY <2>3, <3>1, <3>2, <3>4
  <2>5. was \in {"none", "stop", "profit"}
    BY <1>3, <1>6
  <2>6. CASE Held = 0 \/ zone = "none"
    <3>1. orders' = os /\ intent' = was /\ UNCHANGED <<cooling, profit>>
      BY <1>6, <2>6
    <3>2. ExitHasIntent'
      BY <2>4, <3>1 DEF ExitHasIntent
    <3>3. TOrderHasCycle' /\ CycleAlone'
      BY <1>1, <1>2, <2>2, <3>1 DEF Weakens, OrderInv, TOrderHasCycle, CycleAlone
    <3>4. OrderInv'
      BY <1>1, <1>2, <2>2, <3>1, <3>2, <3>3, WeakensKeeps
    <3> QED
      BY <1>1, <2>2, <2>5, <3>1, <3>4 DEF TypeOK, Weakens
  <2>7. CASE ~(Held = 0 \/ zone = "none")
    <3>1. Protect(os, was, weak, core)
      BY <1>6, <2>7
    <3> QED
      BY <1>1, <1>2, <1>6, <2>2, <2>4, <2>5, <3>1, ProtectInv
  <2> QED
    BY <2>6, <2>7
<1> QED
  BY <1>5, <1>6, Zenon DEF RiskCheck

----------------------------------------------------------------------------
(* The intraday trader.                                                    *)

(* Its cancellations only end orders, and all ordinary ones at risk.       *)
LEMMA ClearedWeakens ==
  ASSUME TypeOK, NEW block, NEW evaluated, NEW selected, NEW away,
         NEW os, os = Cleared(ObservedEntries(block), evaluated, selected, away)
  PROVE  /\ Weakens(os, orders)
         /\ AtRisk => \A i \in Slots : ~(Open(os[i]) /\ os[i].kind \in Ordinary)
<1> DEFINE o1 == ObservedEntries(block)
<1>1. orders \in [Slots -> Order]
  BY DEF TypeOK
<1>2. Weakens(orders, orders)
  BY <1>1 DEF Weakens
<1>3. Weakens(o1, orders)
  BY <1>2, EndAllWeakens DEF ObservedEntries
<1>4. o1 \in [Slots -> Order]
  BY <1>3 DEF Weakens
<1> HIDE DEF o1
<1> DEFINE retry(i) == OffPrice(o1[i], away)
<1>5. \A i \in Slots : retry(i) \in BOOLEAN
  BY DEF OffPrice
<1>6. \A i \in Slots : os[i] = IF i \in OpenOf(o1, Ordinary) /\ Unwanted(o1[i], evaluated, selected)
                               THEN End(o1[i], retry(i)) ELSE o1[i]
  BY Zenon DEF Cleared, o1
<1>7. os = [i \in Slots |-> os[i]]
  BY Zenon DEF Cleared
<1> HIDE DEF retry
<1>8. Weakens(os, o1)
  BY <1>4, <1>5, <1>6, <1>7, EndingWeakens
<1>9. Weakens(os, orders)
  BY <1>3, <1>8 DEF Weakens
<1>10. ASSUME AtRisk, NEW i \in Slots, Open(os[i]), os[i].kind \in Ordinary PROVE FALSE
  <2>1. Unwanted(o1[i], evaluated, selected)
    BY <1>10 DEF Unwanted
  <2>2. i \in OpenOf(o1, Ordinary)
    BY <1>8, <1>10 DEF Weakens
  <2>3. os[i] = End(o1[i], retry(i)) /\ o1[i] \in Order
    BY <1>4, <1>6, <2>1, <2>2
  <2> QED
    BY <1>5, <1>10, <2>3, EndType
<1> QED
  BY <1>9, <1>10

(* One step of the running round trip.                                     *)
LEMMA CycleStepInv ==
  ASSUME TypeOK, OrderInv, CycleHasSell, UNCHANGED <<intent, avail, locked>>,
         NEW os, Weakens(os, orders), Active(cycle), intent = "none",
         NEW evaluated \in BOOLEAN, NEW confirmed \in BOOLEAN, NEW selected \in BOOLEAN,
         CycleStep(os, evaluated, confirmed, selected)
  PROVE  /\ OrderInv' /\ orders' \in [Slots -> Order]
         /\ CycleHasSell' /\ cycle' \in Cycle
<1> DEFINE sold == os[cycle.sell].filled
           rest == sold - cycle.bought
           waiting == {cycle.sell, cycle.buy} \cap OpenOf(os, Ordinary) # {}
           ended == EndAll(os, {i \in {cycle.sell, cycle.buy} \ {NoSlot} : Open(os[i])})
<1>1. cycle \in Cycle /\ os \in [Slots -> Order] /\ avail \in Nat /\ locked \in Nat
  BY DEF TypeOK, Weakens
<1>2. cycle.sell \in Slots /\ cycle.bought \in Nat /\ sold \in Nat /\ rest \in Int
  BY <1>1 DEF CycleHasSell, Cycle, Order
<1>3. \A i \in Slots : Open(os[i]) => i \in {cycle.sell, cycle.buy} /\ os[i].kind \in Ordinary
  BY DEF Weakens, OrderInv, OpenHasKind, ExitHasIntent, CycleAlone, TOrderHasCycle,
         Ordinary, Buys, Risk
<1>4. \/ orders' = ended /\ cycle' = Finished("abandoned")
      \/ waiting /\ orders' = os /\ cycle' = [cycle EXCEPT !.status = cycle.status]
      \/ ~waiting /\ orders' = os /\ cycle' = Finished("abandoned")
      \/ ~waiting /\ orders' = os /\ cycle' = Finished("complete")
      \/ ~waiting /\ orders' = os /\ cycle' = [cycle EXCEPT !.status = "waiting_buy"]
      \/ ~waiting /\ \E desired \in 0 .. MaxTarget, i \in Slots :
            /\ BuybackQuantity(rest, desired - Held) > 0
            /\ orders' = [os EXCEPT ![i] =
                 NewOrder("t_buy", BuybackQuantity(rest, desired - Held))]
            /\ cycle' = [cycle EXCEPT !.status = "buying", !.buy = i]
  BY Zenon DEF CycleStep
<1>5. ~waiting => \A i \in Slots : ~Open(os[i])
  BY <1>3
<1>6. \A status \in {"complete", "abandoned"} :
        Finished(status) \in Cycle /\ ~Active(Finished(status))
  BY DEF Finished, NoCycle, Cycle, Active, NoSlot
<1>7. CASE orders' = ended /\ cycle' = Finished("abandoned")
  <2>1. orders' \in [Slots -> Order] /\ \A i \in Slots : ~Open(orders'[i])
    <3> DEFINE S == {i \in {cycle.sell, cycle.buy} \ {NoSlot} : Open(os[i])}
    <3>1. NoSlot \notin Slots
      BY DEF NoSlot, Slots
    <3>2. \A i \in Slots : Open(os[i]) => i \in S
      BY <1>3, <3>1
    <3> HIDE DEF S
    <3>3. orders' = EndAll(os, S)
      BY <1>7 DEF S
    <3> QED
      BY <1>1, <3>2, <3>3, EndAllEnds
  <2> QED
    BY <1>6, <1>7, <2>1, NoneOpenNext DEF CycleHasSell
<1>8. CASE waiting /\ orders' = os /\ cycle' = [cycle EXCEPT !.status = cycle.status]
  <2>1. cycle' = cycle
    BY <1>1, <1>8 DEF Cycle
  <2> QED
    BY <1>1, <1>8, <2>1, WeakensInv DEF CycleHasSell
<1>9. CASE /\ ~waiting /\ orders' = os
           /\ cycle' = Finished("abandoned") \/ cycle' = Finished("complete")
  BY <1>1, <1>5, <1>6, <1>9, NoneOpenNext DEF CycleHasSell
<1>10. CASE ~waiting /\ orders' = os /\ cycle' = [cycle EXCEPT !.status = "waiting_buy"]
  <2>1. cycle' \in Cycle /\ cycle'.sell = cycle.sell
    BY <1>1, <1>10 DEF Cycle
  <2> QED
    BY <1>1, <1>2, <1>5, <1>10, <2>1, NoneOpenNext DEF CycleHasSell
<1>11. CASE ~waiting /\ \E desired \in 0 .. MaxTarget, i \in Slots :
            /\ BuybackQuantity(rest, desired - Held) > 0
            /\ orders' = [os EXCEPT ![i] =
                 NewOrder("t_buy", BuybackQuantity(rest, desired - Held))]
            /\ cycle' = [cycle EXCEPT !.status = "buying", !.buy = i]
  <2>1. PICK desired \in 0 .. MaxTarget, i \in Slots :
            /\ BuybackQuantity(rest, desired - Held) > 0
            /\ orders' = [os EXCEPT ![i] =
                 NewOrder("t_buy", BuybackQuantity(rest, desired - Held))]
            /\ cycle' = [cycle EXCEPT !.status = "buying", !.buy = i]
    BY <1>11
  <2> DEFINE q == BuybackQuantity(rest, desired - Held)
  <2>2. q \in Nat
    <3>1. desired - Held \in Int
      BY <1>1, BoundsAssumption DEF Held
    <3>2. Least(rest, desired - Held) \in Int
      BY <1>2, <3>1 DEF Least
    <3>3. q \in Int
      BY <3>2, LotsInt DEF BuybackQuantity
    <3> QED
      BY <2>1, <3>3
  <2>3. /\ cycle' \in Cycle /\ cycle'.sell = cycle.sell
        /\ cycle'.status = "buying" /\ cycle'.buy = i
    BY <1>1, <2>1 DEF Cycle
  <2>4. "t_buy" \in Ordinary \cup Risk /\ "t_buy" \notin Risk
    BY DEF Ordinary, Buys, Risk
  <2>5. orders' = [os EXCEPT ![i] = NewOrder("t_buy", q)]
    BY <2>1
  <2> HIDE DEF q, waiting, sold, rest
  <2>6. OrderInv' /\ orders' \in [Slots -> Order]
    BY <1>1, <1>5, <1>11, <2>2, <2>3, <2>4, <2>5, PlacedInv
  <2> QED
    BY <1>2, <2>3, <2>6 DEF CycleHasSell
<1> QED
  BY <1>4, <1>7, <1>8, <1>9, <1>10, <1>11

(* A new entry, re-entry, exit or round trip, where nothing is open.       *)
LEMMA SubmitInv ==
  ASSUME TypeOK, CycleHasSell, ~Active(cycle), UNCHANGED <<avail, locked>>,
         NEW block, NEW os \in [Slots -> Order], \A j \in Slots : ~Open(os[j]),
         SubmitBuy(os, block) \/ SubmitExit(os) \/ SubmitTSell(os)
  PROVE  /\ OrderInv' /\ orders' \in [Slots -> Order]
         /\ CycleHasSell' /\ cycle' \in Cycle /\ cycles' \in Nat
         /\ sale' \in [qty : Nat, used : BOOLEAN]
<1>1. /\ avail \in Nat /\ locked \in Nat /\ Held \in Nat /\ cycles \in Nat
      /\ cycle \in Cycle /\ sale \in [qty : Nat, used : BOOLEAN]
  BY DEF TypeOK, Held
<1>2. \A n \in Nat : Lots(n) \in Nat
  <2>1. ASSUME NEW n \in Nat PROVE Lots(n) \in Nat
    BY LotsNat
  <2> QED
    BY <2>1
<1>3. CASE SubmitBuy(os, block)
  <2>1. UNCHANGED <<cycle, cycles>>
    BY <1>3 DEF SubmitBuy
  <2>2. PICK desired \in 1 .. MaxHeld :
          \/ Place(os, "entry", Lots(desired)) /\ UNCHANGED sale
          \/ /\ Place(os, "reentry", Least(Lots(desired), sale.qty))
             /\ sale' = [sale EXCEPT !.used = TRUE]
    BY <1>3 DEF SubmitBuy
  <2>3. desired \in Nat
    BY BoundsAssumption
  <2>4. Lots(desired) \in Nat /\ Least(Lots(desired), sale.qty) \in Nat
    BY <1>1, <1>2, <2>3 DEF Least
  <2>5. sale' \in [qty : Nat, used : BOOLEAN]
    BY <1>1, <2>2
  <2>6. PICK i \in Slots, kind \in {"entry", "reentry"}, q \in Nat :
          orders' = [os EXCEPT ![i] = NewOrder(kind, q)]
    BY <2>2, <2>4 DEF Place
  <2>7. kind \in Ordinary \cup Risk /\ kind \notin Risk
    BY DEF Ordinary, Buys, Risk
  <2>8. OrderInv' /\ orders' \in [Slots -> Order]
    BY <2>1, <2>6, <2>7, PlacedInv
  <2> QED
    BY <1>1, <2>1, <2>5, <2>8 DEF CycleHasSell
<1>4. CASE SubmitExit(os)
  <2> DEFINE q == IF avail = Held THEN Held ELSE Lots(avail)
  <2>1. UNCHANGED <<sale, cycle, cycles>> /\ Place(os, "exit", q)
    BY <1>4 DEF SubmitExit
  <2>2. q \in Nat
    BY <1>1, <1>2
  <2>3. "exit" \in Ordinary \cup Risk /\ "exit" \notin Risk
    BY DEF Ordinary, Buys, Risk
  <2> HIDE DEF q
  <2>4. OrderInv' /\ orders' \in [Slots -> Order]
    BY <2>1, <2>2, <2>3, PlacedInv DEF Place
  <2> QED
    BY <1>1, <2>1, <2>4 DEF CycleHasSell
<1>5. CASE SubmitTSell(os)
  <2> DEFINE q == Lots(Least(avail, Held \div TDivisor))
  <2>1. PICK i \in Slots :
          /\ orders' = [os EXCEPT ![i] = NewOrder("t_sell", q)]
          /\ cycle' = [status |-> "selling", sell |-> i, buy |-> NoSlot, bought |-> 0,
                       today |-> TRUE]
    BY <1>5 DEF SubmitTSell
  <2>2. cycles' = cycles + 1 /\ UNCHANGED sale
    BY <1>5 DEF SubmitTSell
  <2>3. q \in Nat
    <3>1. Held \div TDivisor \in Nat
      BY <1>1, BoundsAssumption
    <3>2. Least(avail, Held \div TDivisor) \in Nat
      BY <1>1, <3>1 DEF Least
    <3> QED
      BY <1>2, <3>2
  <2>4. "t_sell" \in Ordinary \cup Risk /\ "t_sell" \notin Risk
    BY DEF Ordinary, Buys, Risk
  <2>5. cycle' \in Cycle /\ cycle'.sell = i /\ cycle'.status = "selling"
    BY <2>1 DEF Cycle
  <2> HIDE DEF q
  <2>6. OrderInv' /\ orders' \in [Slots -> Order]
    BY <2>1, <2>3, <2>4, <2>5, PlacedInv
  <2> QED
    BY <1>1, <2>2, <2>5, <2>6 DEF CycleHasSell
<1> QED
  BY <1>3, <1>4, <1>5

LEMMA DecideInv ==
  ASSUME TypeOK, OrderInv, CycleHasSell, UNCHANGED <<intent, avail, locked>>,
         NEW evaluated \in BOOLEAN, NEW confirmed \in BOOLEAN, NEW selected \in BOOLEAN,
         NEW away \in BOOLEAN, Decide(evaluated, confirmed, selected, away)
  PROVE  /\ OrderInv' /\ orders' \in [Slots -> Order]
         /\ CycleHasSell' /\ cycle' \in Cycle /\ cycles' \in Nat
         /\ sale' \in [qty : Nat, used : BOOLEAN] /\ blocked' \in BOOLEAN
<1> DEFINE block   == blocked \/ Struck
           os      == Cleared(ObservedEntries(block), evaluated, selected, away)
<1>1. Weakens(os, orders) /\ (AtRisk => \A i \in Slots : ~(Open(os[i]) /\ os[i].kind \in Ordinary))
  BY ClearedWeakens
<1>2. cycle \in Cycle /\ cycles \in Nat /\ sale \in [qty : Nat, used : BOOLEAN]
      /\ os \in [Slots -> Order]
  BY <1>1 DEF TypeOK, Weakens
<1>3. blocked' = block
  BY Zenon DEF Decide
<1>4. block \in BOOLEAN
  BY DEF TypeOK
<1>5. \/ /\ Active(cycle) /\ ~AtRisk /\ CycleStep(os, evaluated, confirmed, selected)
         /\ UNCHANGED <<sale, cycles>>
      \/ /\ orders' = os /\ UNCHANGED <<sale, cycles>>
         /\ cycle' = IF Active(cycle) /\ AtRisk THEN Finished("abandoned") ELSE cycle
      \/ /\ ~Active(cycle) /\ OpenOf(os, Ordinary \cup Risk) = {}
         /\ SubmitBuy(os, block) \/ SubmitExit(os) \/ SubmitTSell(os)
  BY Zenon DEF Decide
<1> HIDE DEF os, block
<1>6. CASE /\ Active(cycle) /\ ~AtRisk /\ CycleStep(os, evaluated, confirmed, selected)
           /\ UNCHANGED <<sale, cycles>>
  <2>1. intent = "none"
    BY <1>6 DEF AtRisk
  <2> QED
    BY <1>1, <1>2, <1>3, <1>4, <1>6, <2>1, CycleStepInv
<1>7. CASE /\ orders' = os /\ UNCHANGED <<sale, cycles>>
           /\ cycle' = IF Active(cycle) /\ AtRisk THEN Finished("abandoned") ELSE cycle
  <2>1. CASE Active(cycle) /\ AtRisk
    <3>1. cycle' \in Cycle /\ ~Active(cycle')
      BY <1>7, <2>1 DEF Finished, NoCycle, NoSlot, Cycle, Active
    <3>2. TOrderHasCycle' /\ CycleAlone' /\ CycleHasSell'
      BY <1>1, <1>7, <2>1, <3>1 DEF TOrderHasCycle, CycleAlone, CycleHasSell, Ordinary, Buys
    <3>3. ExitHasIntent'
      BY <1>1, <1>7 DEF Weakens, OrderInv, ExitHasIntent
    <3>4. OrderInv'
      BY <1>1, <1>7, <3>2, <3>3, WeakensKeeps
    <3> QED
      BY <1>2, <1>3, <1>4, <1>7, <3>1, <3>2, <3>4
  <2>2. CASE ~(Active(cycle) /\ AtRisk)
    BY <1>1, <1>2, <1>3, <1>4, <1>7, <2>2, WeakensInv DEF CycleHasSell
  <2> QED
    BY <2>1, <2>2
<1>8. CASE /\ ~Active(cycle) /\ OpenOf(os, Ordinary \cup Risk) = {}
           /\ SubmitBuy(os, block) \/ SubmitExit(os) \/ SubmitTSell(os)
  <2>1. \A j \in Slots : ~Open(os[j])
    BY <1>1, <1>8 DEF Weakens, OrderInv, OpenHasKind
  <2> QED
    BY <1>2, <1>3, <1>4, <1>8, <2>1, SubmitInv
<1> QED
  BY <1>5, <1>6, <1>7, <1>8

LEMMA IntradayTickInv == Inv /\ IntradayTick => Inv'
<1> SUFFICES ASSUME Inv, IntradayTick PROVE Inv'
  OBVIOUS
<1>1. TypeOK /\ OrderInv /\ CycleHasSell /\ orders \in [Slots -> Order]
  BY DEF Inv, TypeOK
<1>2. CASE IntradayWait
  <2>1. /\ pc' = "match" /\ UNCHANGED <<session, zone, plan, orders, intent, cooling>>
        /\ UNCHANGED <<avail, locked, profit, sale, cycle, cycles, blocked>>
    BY <1>2 DEF IntradayWait, market, account
  <2>2. Weakens(orders', orders)
    BY <1>1, <2>1 DEF Weakens
  <2>3. OrderInv' /\ CycleHasSell'
    BY <1>1, <2>1, <2>2, WeakensInv DEF CycleHasSell
  <2> QED
    BY <1>1, <2>1, <2>3 DEF Inv, TypeOK
<1>3. ASSUME NEW evaluated \in BOOLEAN, NEW confirmed \in BOOLEAN, NEW selected \in BOOLEAN,
             NEW away \in BOOLEAN, IntradayRun(evaluated, confirmed, selected, away)
      PROVE  Inv'
  <2>1. /\ pc' = "match" /\ UNCHANGED <<session, zone, plan, intent, cooling>>
        /\ UNCHANGED <<avail, locked, profit>>
        /\ Decide(evaluated, confirmed, selected, away)
    BY <1>3 DEF IntradayRun, market
  <2>2. /\ OrderInv' /\ orders' \in [Slots -> Order]
        /\ CycleHasSell' /\ cycle' \in Cycle /\ cycles' \in Nat
        /\ sale' \in [qty : Nat, used : BOOLEAN] /\ blocked' \in BOOLEAN
    BY <1>1, <2>1, DecideInv
  <2> QED
    BY <1>1, <2>1, <2>2 DEF Inv, TypeOK
<1> QED
  BY <1>2, <1>3 DEF IntradayTick

----------------------------------------------------------------------------
(* match: a fill of q shares of the open order i.                          *)

LEMMA FillOrders ==
  ASSUME TypeOK, NEW i \in Slots, NEW q \in Nat, q <= orders[i].left, Fill(i, q)
  PROVE  /\ orders' \in [Slots -> Order]
         /\ \A j \in Slots : orders'[j].kind = orders[j].kind
         /\ \A j \in Slots : j # i => /\ orders'[j].left = orders[j].left
                                     /\ orders'[j].status = orders[j].status
         /\ orders'[i].left = orders[i].left - q
         /\ orders'[i].filled = orders[i].filled + q
         /\ orders'[i].status = IF orders[i].left = q THEN "ended" ELSE orders[i].status
<1> DEFINE o    == orders[i]
           flat == o.kind \notin Buys /\ q = Held
           b(j) == orders[j].basis /\ ~(flat /\ orders[j].kind = "stop")
           st   == IF o.left = q THEN "ended" ELSE o.status
           new  == [o EXCEPT !.left = o.left - q, !.filled = o.filled + q, !.seen = TRUE,
                             !.status = st, !.basis = b(i)]
           rest(j) == [orders[j] EXCEPT !.basis = b(j)]
<1>1. orders' = [j \in Slots |-> IF j = i THEN new ELSE rest(j)]
  BY Zenon DEF Fill
<1>2. \A j \in Slots : orders[j] \in Order /\ b(j) \in BOOLEAN
  BY DEF TypeOK
<1> HIDE DEF flat, b
<1>3. \A j \in Slots : /\ rest(j) \in Order /\ rest(j).kind = orders[j].kind
                       /\ rest(j).left = orders[j].left /\ rest(j).status = orders[j].status
  BY <1>2 DEF Order
<1>4. st \in Statuses /\ o.left - q \in Nat /\ o.filled + q \in Nat
  BY <1>2 DEF Order, Statuses
<1> HIDE DEF st
<1>5. /\ new \in Order /\ new.kind = o.kind /\ new.left = o.left - q
      /\ new.filled = o.filled + q /\ new.status = st
  BY <1>2, <1>4 DEF Order
<1> HIDE DEF new, rest
<1> QED
  BY <1>1, <1>3, <1>5 DEF st

LEMMA FilledInv ==
  ASSUME TypeOK, OrderInv, CycleHasSell, NEW i \in Slots, Filled(i)
  PROVE  /\ OrderInv' /\ CycleHasSell' /\ orders' \in [Slots -> Order]
         /\ avail' \in Nat /\ locked' \in Nat /\ cooling' \in BOOLEAN
         /\ intent' \in {"none", "stop", "profit"}
         /\ profit' \in [budget : Nat, sold : Nat, core : BOOLEAN]
         /\ sale' \in [qty : Nat, used : BOOLEAN] /\ cycle' \in Cycle
<1> DEFINE o == orders[i]
<1>1. PICK desired \in 0 .. MaxTarget : \E q \in Fillable(o, desired) : Fill(i, q)
  BY DEF Filled
<1>2. PICK q \in Fillable(o, desired) : Fill(i, q)
  BY <1>1
<1>3. /\ o \in Order /\ Open(o) /\ avail \in Nat /\ locked \in Nat
      /\ profit \in [budget : Nat, sold : Nat, core : BOOLEAN]
      /\ cycle \in Cycle /\ intent \in {"none", "stop", "profit"}
  BY DEF TypeOK, Filled, Matchable
<1>4. /\ q \in Nat /\ q > 0 /\ q <= o.left /\ o.left \in Nat /\ o.filled \in Nat
      /\ o.kind \notin Buys => q <= avail
  BY <1>2, <1>3 DEF Fillable, Order
<1>5. /\ orders' \in [Slots -> Order]
      /\ \A j \in Slots : orders'[j].kind = orders[j].kind
      /\ \A j \in Slots : j # i => orders'[j].status = orders[j].status
      /\ o.left = q => orders'[i].status = "ended"
      /\ orders'[i].left = o.left - q
  BY <1>2, <1>4, FillOrders
<1>6. /\ avail' \in Nat /\ locked' \in Nat
      /\ Held' = IF o.kind \in Buys THEN Held + q ELSE Held - q
  BY <1>2, <1>3, <1>4 DEF Fill, Held
<1>7. cooling' \in BOOLEAN
  <2>1. cooling' = (cooling \/ o.kind = "stop")
    BY <1>2, Zenon DEF Fill
  <2> QED
    BY <2>1
<1>8. intent' = IF (o.kind \notin Buys /\ q = Held)
                    \/ (o.kind = "profit" /\ o.left = q /\ intent = "profit")
                THEN "none" ELSE intent
  BY <1>2, Zenon DEF Fill
<1>9. profit' \in [budget : Nat, sold : Nat, core : BOOLEAN]
  <2>1. \/ profit' = NoProfit
        \/ profit' = [profit EXCEPT !.sold = profit.sold + q]
        \/ profit' = profit
    BY <1>2 DEF Fill
  <2>2. NoProfit \in [budget : Nat, sold : Nat, core : BOOLEAN]
    BY DEF NoProfit
  <2>3. profit.sold + q \in Nat
    BY <1>3, <1>4
  <2>4. [profit EXCEPT !.sold = profit.sold + q] \in [budget : Nat, sold : Nat, core : BOOLEAN]
    BY <1>3, <2>3
  <2> QED
    BY <1>3, <2>1, <2>2, <2>4
<1>10. sale' \in [qty : Nat, used : BOOLEAN]
  BY <1>2, <1>3, <1>4 DEF Fill, NoSale
<1>11. /\ cycle' \in Cycle /\ cycle'.status = cycle.status
       /\ cycle'.sell = cycle.sell /\ cycle'.buy = cycle.buy
  <2>1. cycle' = cycle \/ cycle' = [cycle EXCEPT !.bought = cycle.bought + q]
    BY <1>2 DEF Fill
  <2> QED
    BY <1>3, <1>4, <2>1 DEF Cycle
<1>12. \A j \in Slots : Open(orders'[j]) => j = i /\ o.left # q
  BY <1>3, <1>5 DEF OrderInv, OneOpenOrder
<1>13. OneOpenOrder' /\ OpenHasKind'
  BY <1>3, <1>5, <1>12 DEF OrderInv, OneOpenOrder, OpenHasKind
<1>14. "stop" \notin Buys /\ "profit" \notin Buys
  BY DEF Buys
<1>15. StopCoversPosition' /\ ProfitCovered'
  BY <1>3, <1>4, <1>5, <1>6, <1>12, <1>14
  DEF OrderInv, StopCoversPosition, ProfitCovered, Held
<1>16. ExitHasIntent'
  <2>1. SUFFICES ASSUME Open(orders'[i]), o.kind \in Risk, o.kind # intent' PROVE FALSE
    BY <1>5, <1>12 DEF ExitHasIntent
  <2>2. o.kind = intent /\ o.left # q
    BY <1>3, <1>12, <2>1 DEF OrderInv, ExitHasIntent
  <2>3. q = Held
    BY <1>8, <2>1, <2>2
  <2>4. o.left <= Held
    BY <1>3, <1>4, <2>1 DEF OrderInv, StopCoversPosition, ProfitCovered, Risk, Held
  <2> QED
    BY <1>4, <2>2, <2>3, <2>4
<1>17. TOrderHasCycle' /\ CycleAlone' /\ CycleHasSell'
  BY <1>3, <1>5, <1>11, <1>12
  DEF OrderInv, TOrderHasCycle, CycleAlone, CycleHasSell, Active
<1>18. OrderInv'
  BY <1>13, <1>15, <1>16, <1>17 DEF OrderInv
<1> QED
  BY <1>3, <1>5, <1>6, <1>7, <1>8, <1>9, <1>10, <1>11, <1>17, <1>18

LEMMA MatchInv == Inv /\ Match => Inv'
<1> SUFFICES ASSUME Inv, Match PROVE Inv'
  OBVIOUS
<1>1. TypeOK /\ OrderInv /\ CycleHasSell /\ orders \in [Slots -> Order]
  BY DEF Inv, TypeOK
<1>2. pc' = "idle" /\ zone' \in Zones /\ plan' \in Plans /\ UNCHANGED <<session, cycles, blocked>>
  BY DEF Match, EndTick, Zones, Plans
<1>3. ASSUME Weakens(orders', orders), UNCHANGED <<intent, cooling, account, cycle>>
      PROVE  Inv'
  <2>1. UNCHANGED <<avail, locked, profit, sale>>
    BY <1>3 DEF account
  <2>2. OrderInv' /\ CycleHasSell'
    BY <1>1, <1>3, <2>1, WeakensInv DEF CycleHasSell
  <2>3. orders' \in [Slots -> Order]
    BY <1>3 DEF Weakens
  <2> QED
    BY <1>1, <1>2, <1>3, <2>1, <2>2, <2>3 DEF Inv, TypeOK
<1>4. CASE UNCHANGED <<orders, intent, cooling, account, cycle>>
  BY <1>1, <1>3, <1>4 DEF Weakens
<1>5. ASSUME NEW i \in Slots, Blocked(i) PROVE Inv'
  <2>1. orders' = [orders EXCEPT ![i] = [orders[i] EXCEPT !.seen = TRUE]]
    BY <1>5 DEF Blocked
  <2>2. \A o \in Order : /\ [o EXCEPT !.seen = TRUE] \in Order
                         /\ [o EXCEPT !.seen = TRUE].kind = o.kind
                         /\ [o EXCEPT !.seen = TRUE].left = o.left
                         /\ [o EXCEPT !.seen = TRUE].status = o.status
    BY DEF Order
  <2>3. Weakens(orders', orders)
    BY <1>1, <2>1, <2>2 DEF Weakens
  <2> QED
    BY <1>3, <1>5, <2>3 DEF Blocked
<1>6. ASSUME NEW i \in Slots, Filled(i) PROVE Inv'
  <2>1. /\ OrderInv' /\ CycleHasSell' /\ orders' \in [Slots -> Order]
        /\ avail' \in Nat /\ locked' \in Nat /\ cooling' \in BOOLEAN
        /\ intent' \in {"none", "stop", "profit"}
        /\ profit' \in [budget : Nat, sold : Nat, core : BOOLEAN]
        /\ sale' \in [qty : Nat, used : BOOLEAN] /\ cycle' \in Cycle
    BY <1>1, <1>6, FilledInv
  <2> QED
    BY <1>1, <1>2, <2>1 DEF Inv, TypeOK
<1> QED
  BY <1>4, <1>5, <1>6 DEF Match

----------------------------------------------------------------------------
(* The dashboard's change of configuration or pool, an abandoned tick and  *)
(* the passing of the day.                                                 *)

LEMMA ChangeConfigInv == Inv /\ ChangeConfig => Inv'
<1> SUFFICES ASSUME Inv, ChangeConfig PROVE Inv'
  OBVIOUS
<1>1. TypeOK /\ OrderInv /\ CycleHasSell /\ orders \in [Slots -> Order]
  BY DEF Inv, TypeOK
<1>2. /\ plan' = "none" /\ blocked' = FALSE
      /\ UNCHANGED <<pc, session, zone, intent, cooling, avail, locked, profit, sale, cycles>>
      /\ cycle' = IF Active(cycle) THEN Finished("abandoned") ELSE cycle
  BY DEF ChangeConfig, account
<1> DEFINE os == EndAll(orders, OpenOf(orders, Ordinary))
           b(j) == os[j].basis /\ orders[j].kind = "stop"
<1>3. orders' = [j \in Slots |-> [os[j] EXCEPT !.cur = FALSE, !.basis = b(j)]]
  BY Zenon DEF ChangeConfig
<1>4. /\ os \in [Slots -> Order]
      /\ \A j \in Slots : j \in OpenOf(orders, Ordinary) => ~Open(os[j])
      /\ \A j \in Slots : j \notin OpenOf(orders, Ordinary) => os[j] = orders[j]
  BY <1>1, EndAllEnds
<1> HIDE DEF os
<1>5. \A j \in Slots : b(j) \in BOOLEAN
  BY <1>4 DEF Order
<1> HIDE DEF b
<1>6. \A j \in Slots : /\ orders'[j] \in Order /\ orders'[j].kind = os[j].kind
                       /\ orders'[j].left = os[j].left /\ orders'[j].status = os[j].status
  BY <1>3, <1>4, <1>5 DEF Order
<1>7. Weakens(orders', orders)
  BY <1>3, <1>4, <1>6 DEF Weakens
<1>8. \A j \in Slots : Open(orders'[j]) => orders'[j].kind \notin Ordinary
  BY <1>4, <1>6
<1>9. cycle' \in Cycle /\ (Active(cycle') => cycle' = cycle)
  BY <1>1, <1>2 DEF TypeOK, Finished, NoCycle, NoSlot, Cycle, Active
<1>10. TOrderHasCycle' /\ CycleAlone' /\ CycleHasSell'
  BY <1>1, <1>8, <1>9 DEF TOrderHasCycle, CycleAlone, CycleHasSell, Ordinary, Buys
<1>11. ExitHasIntent'
  BY <1>1, <1>2, <1>7 DEF Weakens, OrderInv, ExitHasIntent
<1>12. OrderInv'
  BY <1>1, <1>2, <1>7, <1>10, <1>11, WeakensKeeps
<1>13. orders' \in [Slots -> Order] /\ plan' \in Plans /\ blocked' \in BOOLEAN
  BY <1>2, <1>7 DEF Weakens, Plans
<1> QED
  BY <1>1, <1>2, <1>9, <1>10, <1>12, <1>13 DEF Inv, TypeOK

LEMMA AbortInv == Inv /\ Abort => Inv'
<1> SUFFICES ASSUME Inv, Abort PROVE Inv'
  OBVIOUS
<1>1. TypeOK /\ OrderInv /\ CycleHasSell /\ orders \in [Slots -> Order]
  BY DEF Inv, TypeOK
<1>2. /\ pc' = "idle" /\ zone' \in Zones /\ plan' \in Plans
      /\ UNCHANGED <<session, orders, intent, cooling, avail, locked, profit, sale>>
      /\ UNCHANGED <<cycle, cycles, blocked>>
  BY DEF Abort, EndTick, Zones, Plans, account
<1>3. Weakens(orders', orders)
  BY <1>1, <1>2 DEF Weakens
<1>4. OrderInv' /\ CycleHasSell'
  BY <1>1, <1>2, <1>3, WeakensInv DEF CycleHasSell
<1> QED
  BY <1>1, <1>2, <1>4 DEF Inv, TypeOK

LEMMA PassTimeInv == Inv /\ PassTime => Inv'
<1> SUFFICES ASSUME Inv, PassTime PROVE Inv'
  OBVIOUS
<1>1. TypeOK /\ OrderInv /\ CycleHasSell /\ orders \in [Slots -> Order]
  BY DEF Inv, TypeOK
<1>2. /\ pc' = "idle" /\ session' = ~session /\ UNCHANGED <<zone, plan, intent, profit>>
  BY DEF PassTime
<1>3. session' \in BOOLEAN
  BY <1>2
<1>4. CASE UNCHANGED <<orders, cooling, avail, locked, sale, cycle, cycles, blocked>>
  <2>1. Weakens(orders', orders)
    BY <1>1, <1>4 DEF Weakens
  <2>2. OrderInv' /\ CycleHasSell'
    BY <1>1, <1>2, <1>4, <2>1, WeakensInv DEF CycleHasSell
  <2> QED
    BY <1>1, <1>2, <1>3, <1>4, <2>2 DEF Inv, TypeOK
<1>5. CASE /\ avail' = Held /\ locked' = 0
           /\ orders' = [i \in Slots |-> IF Kept(i) THEN Overnight(orders[i]) ELSE NoOrder]
           /\ cooling' = FALSE /\ blocked' = FALSE
           /\ sale' = NoSale /\ cycles' = 0
           /\ cycle' = IF ~Active(cycle) THEN NoCycle
                       ELSE [cycle EXCEPT !.today = FALSE,
                               !.buy = IF @ \in OpenOf(orders, {"t_buy"}) THEN @ ELSE NoSlot]
  <2>1. ASSUME NEW i \in Slots
        PROVE  /\ Overnight(orders[i]) \in Order /\ Overnight(orders[i]).kind = orders[i].kind
               /\ Overnight(orders[i]).left = orders[i].left
               /\ Overnight(orders[i]).status = orders[i].status
    <3> DEFINE b == orders[i].basis /\ orders[i].kind \notin BarKinds
    <3>1. b \in BOOLEAN /\ orders[i] \in Order
      BY <1>1
    <3>2. Overnight(orders[i]) = [orders[i] EXCEPT !.today = FALSE, !.seen = TRUE, !.basis = b]
      BY Zenon DEF Overnight
    <3> HIDE DEF b
    <3> QED
      BY <3>1, <3>2 DEF Order
  <2>2. NoOrder \in Order /\ ~Open(NoOrder)
    BY DEF NoOrder, Order, Statuses
  <2>3. \A i \in Slots : /\ orders'[i] \in Order
                         /\ Open(orders'[i]) => /\ Open(orders[i])
                                                 /\ orders'[i].kind = orders[i].kind
                                                 /\ orders'[i].left = orders[i].left
    BY <1>5, <2>1, <2>2
  <2>4. Weakens(orders', orders)
    BY <1>5, <2>3 DEF Weakens
  <2>5. avail' \in Nat /\ locked' \in Nat /\ Held' = Held
    BY <1>1, <1>5 DEF TypeOK, Held
  <2>6. /\ cycle' \in Cycle /\ (Active(cycle') <=> Active(cycle))
        /\ Active(cycle) => cycle'.status = cycle.status /\ cycle'.sell = cycle.sell
        /\ Active(cycle) /\ cycle.buy \in OpenOf(orders, {"t_buy"}) => cycle'.buy = cycle.buy
    <3>1. CASE ~Active(cycle)
      BY <1>5, <3>1 DEF NoCycle, NoSlot, Cycle, Active
    <3>2. CASE Active(cycle)
      <4>1. cycle \in Cycle
        BY <1>1 DEF TypeOK
      <4>2. PICK b \in {cycle.buy, NoSlot} :
              /\ cycle' = [cycle EXCEPT !.today = FALSE, !.buy = b]
              /\ cycle.buy \in OpenOf(orders, {"t_buy"}) => b = cycle.buy
        BY <1>5, <3>2
      <4> QED
        BY <3>2, <4>1, <4>2 DEF Cycle, NoSlot, Active
    <3> QED
      BY <3>1, <3>2
  <2>7. TOrderHasCycle'
    <3>1. ASSUME NEW i \in Slots, Open(orders'[i]), orders'[i].kind = "t_sell"
          PROVE  cycle'.status = "selling" /\ cycle'.sell = i
      BY <1>1, <2>3, <2>6, <3>1 DEF OrderInv, TOrderHasCycle, Active
    <3>2. ASSUME NEW i \in Slots, Open(orders'[i]), orders'[i].kind = "t_buy"
          PROVE  cycle'.status = "buying" /\ cycle'.buy = i
      BY <1>1, <2>3, <2>6, <3>2 DEF OrderInv, TOrderHasCycle, Active
    <3> QED
      BY <3>1, <3>2 DEF TOrderHasCycle
  <2>8. CycleAlone' /\ CycleHasSell'
    BY <1>1, <2>3, <2>6 DEF OrderInv, CycleAlone, CycleHasSell
  <2>9. OrderInv'
    <3>1. OneOpenOrder' /\ OpenHasKind'
      BY <1>1, <2>3 DEF OrderInv, OneOpenOrder, OpenHasKind
    <3>2. ExitHasIntent'
      BY <1>1, <1>2, <2>3 DEF OrderInv, ExitHasIntent
    <3>3. StopCoversPosition' /\ ProfitCovered'
      BY <1>1, <2>3, <2>5 DEF OrderInv, StopCoversPosition, ProfitCovered
    <3> QED
      BY <2>7, <2>8, <3>1, <3>2, <3>3 DEF OrderInv
  <2>10. /\ cooling' \in BOOLEAN /\ blocked' \in BOOLEAN /\ cycles' \in Nat
         /\ sale' \in [qty : Nat, used : BOOLEAN]
    BY <1>5 DEF NoSale
  <2>11. orders' \in [Slots -> Order]
    BY <2>4 DEF Weakens
  <2> QED
    BY <1>1, <1>2, <1>3, <2>5, <2>6, <2>8, <2>9, <2>10, <2>11 DEF Inv, TypeOK
<1> QED
  BY <1>4, <1>5 DEF PassTime

LEMMA StutterInv == Inv /\ UNCHANGED vars => Inv'
<1> SUFFICES ASSUME Inv, UNCHANGED vars PROVE Inv'
  OBVIOUS
<1>1. TypeOK /\ OrderInv /\ CycleHasSell /\ orders \in [Slots -> Order]
  BY DEF Inv, TypeOK
<1>2. /\ UNCHANGED <<pc, session, zone, plan, orders, intent, cooling, avail, locked>>
      /\ UNCHANGED <<profit, sale, cycle, cycles, blocked>>
  BY DEF vars, market, account
<1>3. Weakens(orders', orders)
  BY <1>1, <1>2 DEF Weakens
<1>4. OrderInv' /\ CycleHasSell'
  BY <1>1, <1>2, <1>3, WeakensInv DEF CycleHasSell
<1> QED
  BY <1>1, <1>2, <1>4 DEF Inv, TypeOK

LEMMA OverlapInv == Inv /\ Overlap => Inv'
<1> SUFFICES ASSUME Inv, Overlap PROVE Inv'
  OBVIOUS
<1>1. TypeOK /\ OrderInv /\ CycleHasSell /\ orders \in [Slots -> Order]
  BY DEF Inv, TypeOK
<1>2. /\ pc' \in {"apply", "expire", "risk", "intraday", "match"} /\ zone' \in Zones /\ plan' \in Plans
      /\ UNCHANGED <<session, orders, intent, cooling, avail, locked, profit, sale>>
      /\ UNCHANGED <<cycle, cycles, blocked>>
  BY <1>1 DEF Overlap, TypeOK, market, account
<1>3. Weakens(orders', orders)
  BY <1>1, <1>2 DEF Weakens
<1>4. OrderInv' /\ CycleHasSell'
  BY <1>1, <1>2, <1>3, WeakensInv DEF CycleHasSell
<1> QED
  BY <1>1, <1>2, <1>4 DEF Inv, TypeOK

(* Every step keeps the invariant.                                         *)
LEMMA NextInv == Inv /\ [Next]_vars => Inv'
BY ObserveInv, ApplyActionsInv, ExpireInv, RiskCheckInv, IntradayTickInv, MatchInv,
   ChangeConfigInv, AbortInv, OverlapInv, PassTimeInv, StutterInv DEF Next, OneWorker, Tick

LEMMA Invariance == Spec => []Inv
<1>1. Init => Inv
  BY InitInv
<1>2. Inv /\ [Next]_vars => Inv'
  BY NextInv
<1> QED
  BY <1>1, <1>2, PTL DEF Spec

----------------------------------------------------------------------------
(* What it gives, for every lot size, limit, core fraction, settlement,    *)
(* set of corporate actions and set of signals.                            *)

(* Every variable keeps its type: above all shares never become negative,  *)
(* in the account, in an order and in the profit budget.                   *)
THEOREM Typing == Spec => []TypeOK
BY Invariance, PTL DEF Inv

(* The ETF never has two open orders.  match and the position arithmetic   *)
(* of every handler rest on it.                                            *)
THEOREM AtMostOneOpenOrder == Spec => []OneOpenOrder
<1>1. Inv => OneOpenOrder
  BY DEF Inv, OrderInv
<1> QED
  BY <1>1, Invariance, PTL

(* An open protective or profit exit is the order of the latched intent.   *)
THEOREM ExitOrderHasItsIntent == Spec => []ExitHasIntent
<1>1. Inv => ExitHasIntent
  BY DEF Inv, OrderInv
<1> QED
  BY <1>1, Invariance, PTL

(* An open protective exit covers exactly the whole position, over part    *)
(* fills, corporate actions and days.                                      *)
THEOREM StopCoversWholePosition == Spec => []StopCoversPosition
<1>1. Inv => StopCoversPosition
  BY DEF Inv, OrderInv
<1> QED
  BY <1>1, Invariance, PTL

(* An open order of a round trip belongs to the running round trip.        *)
THEOREM RoundTripOrdersOwned == Spec => []TOrderHasCycle
<1>1. Inv => TOrderHasCycle
  BY DEF Inv, OrderInv
<1> QED
  BY <1>1, Invariance, PTL
=============================================================================
