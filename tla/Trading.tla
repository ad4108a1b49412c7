------------------------------ MODULE Trading ------------------------------
(***************************************************************************)
(* The life of the orders of ONE ETF inside the worker's tick              *)
(* (src/app/automation/service.py, Worker.tick).  Every tick runs its      *)
(* handlers in a fixed order, each one a database transaction of its own:  *)
(*                                                                         *)
(*   collect - apply_actions - expire - risk_check - intraday.tick - match *)
(*                                                                         *)
(* The dashboard's requests (here: a configuration or pool change) commit  *)
(* between any two of them, an exception or a crash abandons the rest of   *)
(* the tick, and the trading day passes between ticks.                     *)
(*                                                                         *)
(* What the code computes from prices is an input of the handlers: the     *)
(* zone the latest quote lies in relative to the frozen levels, the        *)
(* action of the live plan, whether confirmation and trigger hold.  What   *)
(* the handlers do with it is modelled whole.  The pause after a fill      *)
(* (intraday_min_interval), the 14:45 limit on new round trips and the     *)
(* day's verification of corporate actions are more reasons to wait.       *)
(***************************************************************************)
EXTENDS Integers, FiniteSets

CONSTANTS
  MaxHeld,      \* bound: shares held at first, bought at once or after a split
  MaxTarget,    \* bound: shares the target quantity may ask for
  Lot,          \* instrument.lot_size
  MaxDaily,     \* config.intraday_max_orders
  TCycles,      \* config.intraday_t_cycles
  TDivisor,     \* 1 / config.intraday_t_fraction
  CoreParts, CoreWhole,  \* PROFIT_FRACTION = CoreParts / CoreWhole
  Settlement,   \* instrument.settlement: 1 locks what is bought till next day
  Ratios,       \* what a corporate action multiplies shares by; 1 is a dividend
  Signals       \* the orders the market asks for, besides structural exits

ASSUME BoundsAssumption ==
  /\ MaxHeld \in Nat /\ MaxTarget \in Nat /\ Lot \in Nat \ {0}
  /\ MaxDaily \in Nat \ {0} /\ TCycles \in Nat
  /\ TDivisor \in Nat \ {0}
  /\ CoreParts \in Nat /\ CoreWhole \in Nat \ {0} /\ Settlement \in {0, 1}
  /\ Ratios \subseteq Nat \ {0}
  /\ Signals \subseteq {"entry", "reentry", "exit", "t_sell", "profit"}

Slots == 1 .. MaxDaily + 3   \* a day's orders, its stop, two carried over
NoSlot == 0

(* KINDS in intraday.py; "intraday" is split by side, a buy after a profit *)
(* sale being "reentry", and kind 'risk' is split by its reason.           *)
Buys     == {"entry", "reentry", "t_buy"}
Ordinary == Buys \cup {"exit", "t_sell"}
Risk     == {"stop", "profit"}
Limited  == Ordinary \cup {"profit"}
(* "open" is pending or partial.  Of the ways an order ends the handlers   *)
(* tell one apart: an entry that never filled and was withdrawn for its    *)
(* price or its time to live "may_retry"; every other end is final.        *)
Statuses == {"none", "open", "ended", "may_retry"}

(* "low": in the entry range, or at the support a round trip buys back at; *)
(* "high": at the resistance it sells at, or at the profit target;         *)
(* "broken": at or under the structural stop.                              *)
Zones == {"none", "broken", "low", "high"}
Plans == {"none", "buy", "hold", "exit"}

VARIABLES
  pc,        \* the handler the tick runs next, "idle" between ticks
  session,   \* calendar.session: the exchange is trading
  zone,      \* where the latest quote lies; "none": stale or not trading
  plan,      \* action of the live plan; "none": live_problem names a problem
  orders,    \* [Slots -> order]: rows of today and every open one
  intent,    \* risk_intents: "none", "stop" (structural) or "profit"
  cooling,   \* the cooldown row of today
  avail,     \* shares that may be sold today
  locked,    \* shares bought today (T+1)
  profit,    \* profit_budget, profit_sold, profit_preserve_core of pa_position
  sale,      \* latest_profit_sale: shares sold, and whether re-entry was tried
  cycle,     \* the latest t_cycles row
  cycles,    \* t_cycles rows of today
  blocked    \* entry_retry_blocks has today's entry intent

market == <<session, zone, plan>>
account == <<avail, locked, profit, sale>>
vars == <<pc, market, orders, intent, cooling, account, cycle, cycles,
          blocked>>

NoOrder == [kind |-> "none", left |-> 0, filled |-> 0, status |-> "none",
            seen |-> TRUE, today |-> FALSE, cur |-> FALSE, basis |-> FALSE]
NoProfit == [budget |-> 0, sold |-> 0, core |-> FALSE]
NoSale   == [qty |-> 0, used |-> FALSE]
NoCycle  == [status |-> "none", sell |-> NoSlot, buy |-> NoSlot, bought |-> 0,
             today |-> FALSE]

Finished(status) == [NoCycle EXCEPT !.status = status]

Held      == avail + locked
Open(o)   == o.status = "open"
Active(c) == c.status \in {"selling", "waiting_buy", "buying"}
Least(a, b) == IF a < b THEN a ELSE b
Lots(q)   == q - (q % Lot)
OpenOf(os, K) == {i \in Slots : Open(os[i]) /\ os[i].kind \in K}

(* Rows of _limit: ordinary and profit orders of today.                    *)
Today(os, K) == {i \in Slots : os[i].today /\ os[i].kind \in K}
LimitReached_OrdinaryOnly(os) == Cardinality(Today(os, Ordinary)) >= MaxDaily
LimitReached(os) == Cardinality(Today(os, Limited)) >= MaxDaily

(* Orders whose key a new order would repeat: INSERT OR IGNORE keeps them. *)
SameKey(os, kind) ==
  {i \in Slots : os[i].kind = kind /\ CASE
     kind = "stop"               -> os[i].today /\ os[i].basis
  [] kind \in {"entry", "exit"}  -> os[i].today /\ os[i].cur
  [] OTHER                       -> os[i].cur /\ os[i].basis}

NewOrder(kind, q) ==
  [kind |-> kind, left |-> q, filled |-> 0, status |-> "open",
   seen |-> TRUE, today |-> TRUE, cur |-> TRUE, basis |-> TRUE]
NextSlot(os, i) ==
  os[i].status = "none" /\ \A j \in Slots : j < i => os[j].status # "none"
End_TodayOnly(o, retry) ==
  IF ~o.today THEN o
  ELSE [o EXCEPT !.status = IF retry /\ o.kind = "entry" /\ o.filled = 0
                            THEN "may_retry" ELSE "ended", !.left = 0, !.seen = TRUE]
End(o, retry) ==
  [o EXCEPT !.status = IF retry /\ o.kind = "entry" /\ o.filled = 0
                       THEN "may_retry" ELSE "ended",
            !.left = 0, !.seen = TRUE]
EndAll_PendingOnly(os, S) ==
  [i \in Slots |-> IF i \in S /\ os[i].filled = 0 THEN End(os[i], FALSE) ELSE os[i]]
EndAll(os, S) == [i \in Slots |-> IF i \in S THEN End(os[i], FALSE) ELSE os[i]]

Order ==
  [kind : Ordinary \cup Risk \cup {"none"}, left : Nat, filled : Nat, status : Statuses,
   seen : BOOLEAN, today : BOOLEAN, cur : BOOLEAN, basis : BOOLEAN]
Cycle ==
  [status : {"none", "selling", "waiting_buy", "buying", "complete", "abandoned"},
   sell : Slots \cup {NoSlot}, buy : Slots \cup {NoSlot}, bought : Nat, today : BOOLEAN]
TypeOK ==
  /\ pc \in {"idle", "apply", "expire", "risk", "intraday", "match"}
  /\ session \in BOOLEAN /\ zone \in Zones /\ plan \in Plans
  /\ cooling \in BOOLEAN /\ blocked \in BOOLEAN
  /\ orders \in [Slots -> Order]
  /\ intent \in {"none", "stop", "profit"}
  /\ avail \in Nat /\ locked \in Nat
  /\ profit \in [budget : Nat, sold : Nat, core : BOOLEAN]
  /\ sale \in [qty : Nat, used : BOOLEAN]
  /\ cycle \in Cycle
  /\ cycles \in Nat

Init ==
  /\ pc = "idle" /\ session = TRUE /\ zone = "none" /\ plan = "none"
  /\ cooling = FALSE /\ blocked = FALSE
  /\ orders = [i \in Slots |-> NoOrder] /\ intent = "none"
  /\ avail \in 0 .. MaxHeld /\ avail % Lot = 0 /\ locked = 0
  /\ profit = NoProfit /\ sale = NoSale /\ cycle = NoCycle /\ cycles = 0

----------------------------------------------------------------------------
(* The tick begins: answers collected since the last one are in the        *)
(* database.  A newer quote may be matched again; a new daily structure or *)
(* a new closed bar takes the ground from orders frozen on the old one.    *)
BarKinds == {"reentry", "t_sell", "t_buy", "profit"}
Observed(o, quote, structure, bar) ==
  [o EXCEPT !.seen  = @ /\ ~(quote /\ o.status \in {"open", "may_retry"}),
            !.basis = @ /\ ~(structure /\ o.kind = "entry") /\ ~(bar /\ o.kind \in BarKinds)]
Observe ==
  /\ pc = "idle" /\ pc' = "apply"
  /\ \E z \in Zones, p \in Plans, quote, structure, bar \in BOOLEAN :
       /\ ~session => z = "none" /\ p = "none" /\ ~quote
       /\ zone' = z /\ plan' = p
       /\ orders' = [i \in Slots |-> Observed(orders[i], quote, structure, bar)]
  /\ UNCHANGED <<session, intent, cooling, account, cycle, cycles, blocked>>

(* apply_actions: an action due today rescales shares held before it and   *)
(* the protection state, and cancels every open order of the ETF.  (A      *)
(* split that leaves fractions freezes the ETF instead and is not here.)   *)
ApplyActions_OrdersStay ==
  /\ pc = "apply" /\ pc' = "expire"
  /\ \/ UNCHANGED <<avail, profit>>
     \/ \E r \in Ratios :
          /\ (Held + profit.sold) * r <= MaxHeld /\ profit.budget * r <= MaxHeld
          /\ avail' = avail * r
          /\ profit' = [profit EXCEPT !.budget = @ * r, !.sold = @ * r]
  /\ UNCHANGED <<market, orders, intent, cooling, locked, sale, cycle, cycles, blocked>>
ApplyActions ==
  /\ pc = "apply" /\ pc' = "expire"
  /\ \/ UNCHANGED <<orders, avail, profit>>
     \/ \E r \in Ratios :
          /\ (Held + profit.sold) * r <= MaxHeld /\ profit.budget * r <= MaxHeld
          /\ avail' = avail * r
          /\ profit' = [profit EXCEPT !.budget = @ * r, !.sold = @ * r]
          /\ orders' = EndAll(orders, OpenOf(orders, Ordinary \cup Risk))
  /\ UNCHANGED <<market, intent, cooling, locked, sale, cycle, cycles, blocked>>

(* Engine.expire: ordinary orders only; a risk order never expires.        *)
Expire ==
  /\ pc = "expire" /\ pc' = "risk"
  /\ \E late \in BOOLEAN :
       orders' = [i \in Slots |->
         IF i \in OpenOf(orders, Ordinary) /\ (late \/ ~orders[i].today \/ ~session)
         THEN End(orders[i], late) ELSE orders[i]]
  /\ UNCHANGED <<market, intent, cooling, account, cycle, cycles, blocked>>

----------------------------------------------------------------------------
(* Engine.risk_check.                                                      *)

(* profit_order_problem: a profit order lives while its config, its day,   *)
(* its signal bar and the price confirm it; `late` is its time to live.    *)
ProfitProblem(o, late) ==
  late \/ ~o.cur \/ ~o.today \/ ~o.basis \/ zone # "high"

ProfitQuantity_SoldIgnored(p, available) ==
  IF p.core THEN Lots(Least(available, p.budget)) ELSE Least(available, p.budget)
ProfitQuantity(p, available) ==
  LET q == Least(available, p.budget - p.sold)
  IN IF p.core THEN Lots(q) ELSE q

(* profit_budget is frozen anew until a share of it has been sold.         *)
FrozenBudget(core) ==
  IF profit.sold > 0 THEN profit
  ELSE [budget |-> IF core THEN Lots((Held * CoreParts) \div CoreWhole) ELSE Held,
        sold |-> 0, core |-> core]

Place(os, kind, q) ==
  \E i \in Slots : NextSlot(os, i) /\ orders' = [os EXCEPT ![i] = NewOrder(kind, q)]

(* The intent a usable quote leaves: INSERT OR IGNORE keeps an older one,  *)
(* a broken structure first deletes the profit intent.                     *)
Latched_Afresh(was, signal) ==
  IF zone = "broken" THEN "stop" ELSE IF signal THEN "profit" ELSE "none"
Latched(was, signal) ==
  IF zone = "broken" THEN "stop" ELSE IF was = "none" /\ signal THEN "profit" ELSE was

WithoutOrdinary_BuysOnly(os) == EndAll(os, OpenOf(os, Buys))
WithoutOrdinary(os) == EndAll(os, OpenOf(os, Ordinary))

(* From here on the position is monitored: the quote is usable.  `weak` is *)
(* the confirmed weakness of the last closed bar near the target.          *)
Protect(os, was, weak, core) ==
  LET signal == weak /\ "profit" \in Signals /\ zone = "high" /\ avail > 0
                /\ (profit.sold = 0 \/ profit.sold < profit.budget)
      now    == Latched(was, signal)
      os1    == IF zone = "broken"
                THEN EndAll(os, OpenOf(os, {"profit"})) ELSE os
      os2    == WithoutOrdinary(os1)
      budget == FrozenBudget(core)
  IN \/ /\ now = "none"
        /\ orders' = os /\ intent' = "none" /\ UNCHANGED <<cooling, profit>>
     \/ /\ now # "none"
        /\ OpenOf(os2, Risk) # {} \/ (now = "stop" /\ SameKey(os2, "stop") # {})
        /\ orders' = os2 /\ intent' = now
        /\ cooling' = (cooling \/ now = "stop") /\ UNCHANGED profit
     \/ /\ now = "stop" /\ OpenOf(os2, Risk) = {} /\ SameKey(os2, "stop") = {}
        /\ Place(os2, "stop", Held) /\ intent' = "stop"
        /\ cooling' = TRUE /\ UNCHANGED profit
     \/ /\ now = "profit" /\ OpenOf(os2, Risk) = {}
        /\ ~signal \/ LimitReached(os2) \/ SameKey(os2, "profit") # {}
        /\ orders' = os2 /\ intent' = "none" /\ UNCHANGED <<cooling, profit>>
     \/ /\ now = "profit" /\ OpenOf(os2, Risk) = {} /\ signal
        /\ ~LimitReached(os2) /\ SameKey(os2, "profit") = {}
        /\ profit' = budget /\ UNCHANGED cooling
        /\ \/ /\ ProfitQuantity(budget, avail) > 0 /\ intent' = "profit"
              /\ Place(os2, "profit", ProfitQuantity(budget, avail))
           \/ /\ ProfitQuantity(budget, avail) = 0 /\ intent' = "none"
              /\ orders' = os2

RiskCheck ==
  /\ pc = "risk" /\ pc' = "intraday"
  /\ \/ ~session /\ UNCHANGED <<orders, intent, cooling, profit>>
     \/ /\ session
        /\ \E late, weak, core \in BOOLEAN :
             LET lapsed == {i \in OpenOf(orders, {"profit"}) : ProfitProblem(orders[i], late)}
                 os     == EndAll(orders, lapsed)
                 was    == IF lapsed # {} /\ intent = "profit" THEN "none" ELSE intent
             IN IF Held = 0 \/ zone = "none"
                THEN orders' = os /\ intent' = was /\ UNCHANGED <<cooling, profit>>
                ELSE Protect(os, was, weak, core)
  /\ UNCHANGED <<market, avail, locked, sale, cycle, cycles, blocked>>

----------------------------------------------------------------------------
(* IntradayTrader.tick.                                                    *)

(* observe_entries: an unfilled entry whose frozen stop was crossed blocks *)
(* its intent for the day, also after the order has ended.                 *)
Attempts(os) == {i \in Slots : os[i].kind = "entry" /\ os[i].today /\ os[i].cur}
Struck == zone = "broken" /\ \E i \in Attempts(orders) : orders[i].filled = 0
ObservedEntries(block) ==
  EndAll(orders, {i \in Attempts(orders) : block /\ Open(orders[i]) /\ orders[i].filled = 0})

AtRisk == intent # "none" \/ cooling

(* Pending orders the evaluated plan no longer wants.  An unfilled entry   *)
(* that only the price has left may be retried.                            *)
Unwanted(o, evaluated, selected) ==
  \/ AtRisk
  \/ evaluated /\ o.kind \in {"entry", "reentry"} /\ plan # "buy"
  \/ evaluated /\ o.kind = "exit" /\ plan # "exit"
  \/ evaluated /\ o.kind \in {"t_sell", "t_buy"} /\ ~selected
OffPrice(o, away) ==
  /\ o.kind = "entry" /\ o.filled = 0 /\ o.basis /\ plan = "hold"
  /\ ~AtRisk /\ zone # "none" /\ away
Cleared(os, evaluated, selected, away) ==
  [i \in Slots |->
     IF i \in OpenOf(os, Ordinary) /\ Unwanted(os[i], evaluated, selected)
     THEN End(os[i], OffPrice(os[i], away))
     ELSE os[i]]

(* _cycle: one step of the running sell-first round trip.                  *)
Lapsed_SameDayOnly(evaluated, selected) == evaluated /\ ~selected
Lapsed(evaluated, selected) == ~cycle.today \/ (evaluated /\ ~selected)
BuybackQuantity_Target(rest, room) == Lots(room)
BuybackQuantity(rest, room) == Lots(Least(rest, room))
CycleStep(os, evaluated, confirmed, selected) ==
  LET sold   == os[cycle.sell].filled
      rest   == sold - cycle.bought
      Conclude(status) == orders' = os /\ cycle' = Finished(status)
      Become(status) == orders' = os /\ cycle' = [cycle EXCEPT !.status = status]
      lapsed == Lapsed(evaluated, selected)
      waiting == {cycle.sell, cycle.buy} \cap OpenOf(os, Ordinary) # {}
  IN \/ /\ lapsed
        /\ orders' = EndAll(os, {i \in {cycle.sell, cycle.buy} \ {NoSlot} : Open(os[i])})
        /\ cycle' = Finished("abandoned")
     \/ /\ ~lapsed /\ waiting /\ Become(cycle.status)
     \/ /\ ~lapsed /\ ~waiting
        /\ \/ sold = 0 /\ Conclude("abandoned")
           \/ sold > 0 /\ rest <= 0 /\ Conclude("complete")
           \/ sold > 0 /\ rest > 0 /\ Become("waiting_buy")
           \/ \* the target leaves no room for the buyback, or its support broke
              sold > 0 /\ rest > 0 /\ evaluated /\ confirmed /\ Conclude("abandoned")
           \/ \E desired \in 0 .. MaxTarget, i \in Slots :
                /\ sold > 0 /\ evaluated /\ confirmed /\ zone = "low"
                /\ BuybackQuantity(rest, desired - Held) > 0
                /\ ~LimitReached(os) /\ SameKey(os, "t_buy") = {}
                /\ NextSlot(os, i)
                /\ orders' = [os EXCEPT ![i] =
                     NewOrder("t_buy", BuybackQuantity(rest, desired - Held))]
                /\ cycle' = [cycle EXCEPT !.status = "buying", !.buy = i]

(* next_attempt: every earlier attempt of the intent ended unfilled, safely *)
(* and on the same structure, and a quote has come since the last end.     *)
MayRetry_AnyEnd(os, block) ==
  Attempts(os) # {} => ~block /\ \A i \in Attempts(os) : os[i].filled = 0 /\ os[i].basis
MayRetry(os, block) ==
  Attempts(os) # {} =>
    ~block /\ \A i \in Attempts(os) :
      os[i].status = "may_retry" /\ os[i].basis /\ ~os[i].seen

SubmitBuy(os, block) ==
  /\ Held = 0 /\ plan = "buy" /\ zone = "low"
  /\ \E desired \in 1 .. MaxHeld :
       \/ /\ "entry" \in Signals /\ sale.qty = 0 /\ MayRetry(os, block) /\ Lots(desired) > 0
          /\ Place(os, "entry", Lots(desired)) /\ UNCHANGED sale
       \/ /\ "reentry" \in Signals /\ sale.qty > 0 /\ ~sale.used /\ Lots(desired) > 0
          /\ Place(os, "reentry", Least(Lots(desired), sale.qty))
          /\ sale' = [sale EXCEPT !.used = TRUE]
  /\ UNCHANGED <<cycle, cycles>>

SubmitExit(os) ==
  LET q == IF avail = Held THEN Held ELSE Lots(avail)
  IN /\ "exit" \in Signals /\ Held > 0 /\ plan = "exit" /\ q > 0 /\ SameKey(os, "exit") = {}
     /\ Place(os, "exit", q)
     /\ UNCHANGED <<sale, cycle, cycles>>

(* A new round sells part of the shares held overnight.  The handler keeps *)
(* a daily order for the buyback, counting ordinary orders only.           *)
SubmitTSell(os) ==
  LET q == Lots(Least(avail, Held \div TDivisor))
  IN /\ "t_sell" \in Signals /\ Held > 0 /\ plan \in {"buy", "hold"} /\ q > 0
     /\ zone = "high"
     /\ cycles < TCycles /\ Cardinality(Today(os, Ordinary)) + 2 <= MaxDaily
     /\ SameKey(os, "t_sell") = {}
     /\ \E i \in Slots :
          /\ NextSlot(os, i) /\ orders' = [os EXCEPT ![i] = NewOrder("t_sell", q)]
          /\ cycle' = [status |-> "selling", sell |-> i, buy |-> NoSlot, bought |-> 0,
                       today |-> TRUE]
     /\ cycles' = cycles + 1 /\ UNCHANGED sale

Decide(evaluated, confirmed, selected, away) ==
  LET block   == blocked \/ Struck
      os      == Cleared(ObservedEntries(block), evaluated, selected, away)
      running == Active(cycle) /\ ~AtRisk
  IN /\ blocked' = block
     /\ \/ /\ running /\ zone # "none"
           /\ CycleStep(os, evaluated, confirmed, selected)
           /\ UNCHANGED <<sale, cycles>>
        \/ /\ ~running \/ zone = "none" \/ ~selected
           /\ orders' = os /\ UNCHANGED <<sale, cycles>>
           /\ cycle' = IF Active(cycle) /\ AtRisk
                       THEN Finished("abandoned") ELSE cycle
        \/ /\ ~Active(cycle) /\ ~AtRisk /\ zone # "none" /\ evaluated /\ confirmed
           /\ OpenOf(os, Ordinary \cup Risk) = {} /\ ~LimitReached(os)
           /\ \/ selected /\ SubmitBuy(os, block)
              \/ SubmitExit(os)
              \/ selected /\ SubmitTSell(os)

(* The tick waits while the plan, the data or the valuation is not ready.  *)
IntradayWait ==
  /\ pc = "intraday" /\ pc' = "match"
  /\ UNCHANGED <<market, orders, intent, cooling, account, cycle, cycles, blocked>>
IntradayRun(evaluated, confirmed, selected, away) ==
  /\ pc = "intraday" /\ pc' = "match"
  /\ session /\ plan # "none" /\ (plan = "exit" => ~selected)
  /\ Decide(evaluated, confirmed, selected, away)
  /\ UNCHANGED <<market, intent, cooling, avail, locked, profit>>
IntradayTick ==
  \/ IntradayWait
  \/ \E evaluated, confirmed, selected, away \in BOOLEAN :
       IntradayRun(evaluated, confirmed, selected, away)

----------------------------------------------------------------------------
(* Engine.match.  An order sees a quote once, and only a quote newer than  *)
(* its submission.  The handler loops over the open orders of every ETF;   *)
(* OneOpenOrder says that this ETF contributes one.                        *)
Matchable(i) == session /\ Open(orders[i]) /\ ~orders[i].seen

(* _blocker and order_problem, as far as they read this module's state.    *)
Executable_StopRechecked(i) ==
  LET o == orders[i]
  IN zone # "none" /\ o.kind \notin {"profit", "entry", "reentry"}
     /\ (o.kind = "stop" => zone = "broken")
     /\ (o.kind \in Ordinary => o.cur /\ o.today /\ plan # "none" /\ intent = "none")
Executable(i) ==
  LET o == orders[i]
  IN /\ zone # "none"
     /\ o.kind = "profit" => ~ProfitProblem(o, FALSE)
     /\ o.kind \in Ordinary => o.cur /\ o.today /\ plan # "none" /\ intent = "none"
     /\ o.kind \in {"entry", "reentry"} => o.basis /\ plan = "buy" /\ zone = "low"
     /\ o.kind = "t_sell" => zone = "high"
     /\ o.kind = "t_buy" => /\ zone = "low" /\ cycle.status = "buying"
                            /\ cycle.buy = i /\ orders[cycle.sell].filled > 0
     /\ o.kind \in Buys =>
          ~cooling /\ OpenOf(orders, {"exit", "t_sell"}) = {}

(* What one match may fill: volume, cash and weight limits take any part;  *)
(* a sale is a number of lots unless it is all that is left of order and   *)
(* position; intraday orders and buybacks stop at the target quantity.     *)
Fillable_LockedToo(o, desired) ==
  {q \in 1 .. o.left : o.kind \in Buys => q <= desired - Held /\ q % Lot = 0}
Fillable(o, desired) ==
  {q \in 1 .. o.left :
     /\ o.kind \notin Buys =>
          q <= avail /\ (q % Lot = 0 \/ (q = o.left /\ q = avail))
     /\ o.kind = "exit" => q <= Held - desired
     /\ o.kind \in Buys => q <= desired - Held /\ q % Lot = 0}

(* Engine._fill.                                                           *)
Fill(i, q) ==
  LET o    == orders[i]
      done == o.left = q
      flat == o.kind \notin Buys /\ q = Held
      sold == profit.sold + q
  IN /\ orders' = [j \in Slots |->
          IF j = i
          THEN [o EXCEPT !.left = @ - q, !.filled = @ + q, !.seen = TRUE,
                         !.status = IF done THEN "ended" ELSE @,
                         !.basis = @ /\ ~(flat /\ o.kind = "stop")]
          ELSE [orders[j] EXCEPT !.basis = @ /\ ~(flat /\ orders[j].kind = "stop")]]
     /\ IF o.kind \in Buys /\ Settlement = 1
        THEN locked' = locked + q /\ UNCHANGED avail
        ELSE UNCHANGED locked /\ avail' = IF o.kind \in Buys THEN avail + q ELSE avail - q
     /\ cooling' = (cooling \/ o.kind = "stop")
     /\ intent' = IF flat \/ (o.kind = "profit" /\ done /\ intent = "profit")
                  THEN "none" ELSE intent
     /\ profit' = IF flat THEN NoProfit
                  ELSE IF o.kind = "profit" THEN [profit EXCEPT !.sold = sold]
                  ELSE profit
     /\ sale' = IF o.kind = "profit" THEN [qty |-> o.filled + q, used |-> FALSE]
                ELSE NoSale
     /\ cycle' = IF o.kind = "t_buy" THEN [cycle EXCEPT !.bought = @ + q] ELSE cycle

Blocked(i) ==
  /\ Matchable(i)
  /\ orders' = [orders EXCEPT ![i].seen = TRUE]
  /\ UNCHANGED <<intent, cooling, account, cycle>>
Filled(i) ==
  /\ Matchable(i) /\ Executable(i)
  /\ \E desired \in 0 .. MaxTarget : \E q \in Fillable(orders[i], desired) : Fill(i, q)

EndTick == pc' = "idle" /\ zone' = "none" /\ plan' = "none"

Match ==
  /\ pc = "match" /\ EndTick
  /\ \/ /\ \A i \in Slots : ~Matchable(i)
        /\ UNCHANGED <<orders, intent, cooling, account, cycle>>
     \/ \E i \in Slots : Blocked(i)
     \/ \E i \in Slots : Filled(i)
  /\ UNCHANGED <<session, cycles, blocked>>

----------------------------------------------------------------------------
(* Database.change_config and invalidate_pool, from the dashboard.         *)
ChangeConfig_CooldownLost ==
  /\ orders' = [i \in Slots |-> [EndAll(orders, OpenOf(orders, Ordinary))[i]
                                 EXCEPT !.cur = FALSE, !.basis = @ /\ orders[i].kind = "stop"]]
  /\ cycle' = IF Active(cycle) THEN Finished("abandoned") ELSE cycle
  /\ plan' = "none" /\ blocked' = FALSE /\ cooling' = FALSE
  /\ UNCHANGED <<pc, session, zone, intent, account, cycles>>
ChangeConfig_TOrdersStay ==
  /\ orders' = [i \in Slots |-> [EndAll(orders, OpenOf(orders, {"entry", "reentry", "exit"}))[i]
                                 EXCEPT !.cur = FALSE, !.basis = @ /\ orders[i].kind = "stop"]]
  /\ cycle' = IF Active(cycle) THEN Finished("abandoned") ELSE cycle
  /\ plan' = "none" /\ blocked' = FALSE
  /\ UNCHANGED <<pc, session, zone, intent, cooling, account, cycles>>
ChangeConfig ==
  /\ orders' = [i \in Slots |-> [EndAll(orders, OpenOf(orders, Ordinary))[i]
                                 EXCEPT !.cur = FALSE, !.basis = @ /\ orders[i].kind = "stop"]]
  /\ cycle' = IF Active(cycle) THEN Finished("abandoned") ELSE cycle
  /\ plan' = "none" /\ blocked' = FALSE
  /\ UNCHANGED <<pc, session, zone, intent, cooling, account, cycles>>

(* An exception in a handler, or a crash and restart: the transactions     *)
(* already committed stay, the rest of the tick does not run.              *)
Abort ==
  /\ pc # "idle" /\ EndTick
  /\ UNCHANGED <<session, orders, intent, cooling, account, cycle, cycles,
                 blocked>>

(* A tick that outlasts the lease meets the ticks of another worker (see   *)
(* WorkerLease): with Abort and Observe, any handler may follow any other. *)
Overlap ==
  /\ pc # "idle" /\ pc' \in {"apply", "expire", "risk", "intraday", "match"}
  /\ UNCHANGED <<market, orders, intent, cooling, account, cycle, cycles, blocked>>

(* The exchange's day.  At dawn today's shares unlock, the rows of today   *)
(* become rows of an earlier day, and ended orders no key, limit or        *)
(* attempt can name any more are forgotten.                                *)
Kept(i) == Open(orders[i]) \/ (Active(cycle) /\ i = cycle.sell)
Overnight(o) ==
  [o EXCEPT !.today = FALSE, !.seen = TRUE, !.basis = @ /\ o.kind \notin BarKinds]
PassTime ==
  /\ pc = "idle" /\ session' = ~session
  /\ IF session
     THEN UNCHANGED <<orders, cooling, avail, locked, sale, cycle, cycles, blocked>>
     ELSE /\ avail' = Held /\ locked' = 0
          /\ orders' = [i \in Slots |-> IF Kept(i) THEN Overnight(orders[i])
                                        ELSE NoOrder]
          /\ cooling' = FALSE /\ blocked' = FALSE
          /\ sale' = NoSale /\ cycles' = 0
          /\ cycle' = IF ~Active(cycle) THEN NoCycle
                      ELSE [cycle EXCEPT !.today = FALSE,
                              !.buy = IF @ \in OpenOf(orders, {"t_buy"}) THEN @ ELSE NoSlot]
  /\ UNCHANGED <<pc, zone, plan, intent, profit>>

Tick == Observe \/ ApplyActions \/ Expire \/ RiskCheck \/ IntradayTick \/ Match
OneWorker == Tick \/ ChangeConfig \/ Abort \/ PassTime
Next == OneWorker \/ Overlap
Spec == Init /\ [][Next]_vars
OneWorkerSpec == Init /\ [][OneWorker]_vars

(* One worker loops and days pass; a handler always returns.  Of the       *)
(* market: again and again a session brings a fresh quote and a live plan, *)
(* the plan covers the ETF, and a stop finds volume.                       *)
FreshQuote ==
  /\ Observe /\ zone' # "none" /\ plan' \notin {"none", "exit"}
  /\ \A i \in Slots : Open(orders[i]) => ~orders'[i].seen
StopFill ==
  Match /\ \E i \in OpenOf(orders, {"stop"}) : orders'[i].filled > orders[i].filled
FairSpec ==
  /\ Init /\ [][Tick \/ ChangeConfig \/ PassTime]_vars
  /\ WF_vars(Tick) /\ SF_vars(PassTime)
  /\ SF_vars(FreshQuote) /\ SF_vars(StopFill)
  /\ SF_vars(zone # "none" /\ IntradayRun(TRUE, TRUE, TRUE, FALSE))

----------------------------------------------------------------------------
(* Safety.                                                                 *)

(* The ETF never has two open orders: a risk exit is placed only after the *)
(* ordinary orders are cancelled, an ordinary one only when none is open,  *)
(* across config changes, aborted ticks, corporate actions and new days.   *)
OneOpenOrder ==
  \A i, j \in Slots : Open(orders[i]) /\ Open(orders[j]) => i = j

(* An open exit is the order of the latched intent, so that whatever       *)
(* withdraws the intent has withdrawn the order too.                       *)
ExitHasIntent ==
  \A i \in Slots : Open(orders[i]) /\ orders[i].kind \in Risk => orders[i].kind = intent

(* An open protective exit covers exactly the whole position, locked       *)
(* shares included, however often it was partly filled.                    *)
StopCoversPosition ==
  \A i \in OpenOf(orders, {"stop"}) : orders[i].left = Held

(* No order of a round trip is alive without its running round trip.       *)
TOrderHasCycle ==
  /\ \A i \in OpenOf(orders, {"t_sell"}) : cycle.status = "selling" /\ cycle.sell = i
  /\ \A i \in OpenOf(orders, {"t_buy"}) : cycle.status = "buying" /\ cycle.buy = i

(* A round trip never buys back more than it sold, counting what its open  *)
(* buyback may still buy.                                                  *)
BuybackWithinSale ==
  Active(cycle) /\ cycle.today =>
    LET open == OpenOf(orders, {"t_buy"})
    IN cycle.bought + (IF open = {} THEN 0 ELSE orders[CHOOSE i \in open : TRUE].left)
         <= orders[cycle.sell].filled

(* The day's ordinary and profit orders stay within intraday_max_orders.   *)
DailyBudget == Cardinality(Today(orders, Limited)) <= MaxDaily

(* Profit taking never sells beyond the budget frozen before its first     *)
(* share, over cancelled, renewed and partly filled profit orders.         *)
ProfitWithinBudget ==
  \A i \in Slots :
    profit.sold + (IF i \in OpenOf(orders, {"profit"}) THEN orders[i].left ELSE 0)
      <= profit.budget

(* Of the attempts of an entry intent only the last may have bought: what  *)
(* has filled in part, or ended for another reason, is never retried.      *)
OneEntryPerIntent ==
  \A i, j \in Attempts(orders) :
    i # j => \E k \in {i, j} : orders[k].status = "may_retry" /\ orders[k].filled = 0

(* A structural exit, once latched, is given up only by selling out.       *)
StopLatched == [][intent = "stop" => intent' = "stop" \/ avail' + locked' = 0]_vars

(* While an exit is latched no ordinary order fills, and none is left open *)
(* by the handler that latched it.                                         *)
ExitBeforeOrdinary ==
  [][/\ intent # "none" =>
          \A i \in Slots : orders[i].kind \in Ordinary => orders'[i].filled <= orders[i].filled
     /\ intent = "none" /\ intent' # "none" =>
          \A i \in Slots : Open(orders'[i]) => orders'[i].kind \in Risk]_vars

(* After a protective exit has sold anything, the day buys nothing back.   *)
NoRebuyAfterStop ==
  [][(\E i \in Slots : orders[i].kind = "stop" /\ orders[i].today /\ orders[i].filled > 0)
     => \A i \in Slots : orders[i].kind \in Buys => orders'[i].filled <= orders[i].filled]_vars

(* Liveness, under FairSpec.                                               *)

(* A latched structural stop sells the whole position in the end, over T+1 *)
(* locks, part fills, config changes and days.                             *)
StopSoldOut == intent = "stop" ~> avail + locked = 0

(* No order but a stop lingers: it fills, expires or is withdrawn.         *)
OrdersEnd == OpenOf(orders, Limited) # {} ~> OpenOf(orders, Limited) = {}

(* A round trip never stays running for ever, whatever happens to its      *)
(* orders: it completes or is abandoned.                                   *)
CycleEnds == Active(cycle) ~> ~Active(cycle)

----------------------------------------------------------------------------
(* What the documents and a comment promise and the code does not keep.    *)

(* docs/price-action-strategy.md: a latched structural stop stays in force *)
(* and waits for shares it may sell.  After risk_check has seen a usable   *)
(* quote of a held position with that intent, its exit is open.            *)
StopStaysInForce ==
  pc = "intraday" /\ session /\ zone # "none" /\ intent = "stop" /\ Held > 0 =>
    OpenOf(orders, {"stop"}) # {}

(* intraday.py: "Reserve a daily order slot for the eventual buyback."     *)
(* A round trip that has no buyback order yet has a daily order left.      *)
BuybackSlotReserved ==
  pc = "match" /\ intent = "none" /\ Active(cycle) /\ cycle.today /\ cycle.buy = NoSlot =>
    ~LimitReached(orders)
=============================================================================
