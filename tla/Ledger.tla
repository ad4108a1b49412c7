-------------------------------- MODULE Ledger --------------------------------
(***************************************************************************)
(* The account of all ETFs: the orders share its cash and its limits       *)
(* (Engine.match), sales consume lots first in, first out (Engine._fill),  *)
(* corporate actions rescale and pay (apply_actions), and `reconcile`      *)
(* compares the tables before anything is matched.                         *)
(*                                                                         *)
(* match and apply_actions are one transaction each, a loop over rows:     *)
(* here one step per row, with `todo` the rows left, during which nothing  *)
(* else happens.  Prices have no spread (bid = ask = last), lot-level risk *)
(* references are left out.  Why an order is placed or withdrawn, and that *)
(* an ETF has one open order at a time, is Trading's business: `orders`    *)
(* holds the latest row of each ETF, and which of two orders of the same   *)
(* side is the older one is left open.                                     *)
(***************************************************************************)
EXTENDS Integers, Sequences, FiniteSets, Functions

CONSTANTS
  Etfs,
  Days,          \* bound: the days are 1 .. Days; the last one does not end
  Prices,        \* [Etfs -> what a quote may say]
  Rooms,         \* [Etfs -> volume a quote may let be matched, in shares]
  Capitals,      \* values of config.initial_cash
  Lot,           \* instrument.lot_size
  MaxShares,     \* bound: shares of one order, and of one lot after a split
  MaxFills,      \* bound: fills
  FeeParts,      \* 1 / config.commission_rate
  MinFee,        \* config.minimum_commission
  MaxPositions,  \* config.max_positions
  WeightParts, ExposureParts, Whole,
                 \* max_weight, max_exposure as fractions of Whole
  Settlement,    \* [Etfs -> days until what is bought may be sold]
  Splits,        \* records etf, id, ex, num, den
  Dividends      \* records etf, id, record, ex, pay, value

Actions == Splits \cup Dividends

ASSUME LedgerAssumption ==
  /\ IsFiniteSet(Etfs) /\ IsFiniteSet(Dividends)
  /\ Days \in Nat \ {0} /\ \A e \in Etfs : Rooms[e] \subseteq Nat
  /\ \A e \in Etfs : Prices[e] \subseteq Nat \ {0} /\ Prices[e] # {}
  /\ Capitals \subseteq Nat \ {0} /\ Lot \in Nat \ {0} /\ MaxShares \in Nat
  /\ MaxFills \in Nat /\ FeeParts \in Nat \ {0} /\ MinFee \in Nat
  /\ MaxPositions \in Nat /\ WeightParts \in Nat /\ ExposureParts \in Nat
  /\ Whole \in Nat \ {0} /\ Settlement \in [Etfs -> {0, 1}]
  /\ \A s \in Splits : s.etf \in Etfs /\ {s.ex, s.num, s.den} \subseteq Nat \ {0}
  /\ \A s, t \in Splits : s.etf = t.etf /\ s.ex = t.ex => s = t
  /\ Splits \cap Dividends = {}
  /\ \A d \in Dividends :
       /\ d.etf \in Etfs /\ {d.record, d.ex, d.pay, d.value} \subseteq Nat \ {0}
       /\ d.record < d.ex /\ d.ex <= d.pay

VARIABLES
  pc,        \* handler of the tick whose loop is running, "idle" between ticks
  todo,      \* rows the running loop has left
  day,       \* 1 .. Days
  closed,    \* 15:00 has passed
  price,     \* [Etfs -> price of the latest quote]
  room,      \* [Etfs -> volume of the latest quote not yet consumed]
  usable,    \* [Etfs -> the latest quote is fresh]
  checked,   \* [Etfs -> today's actions were downloaded]
  frozen,    \* [Etfs -> accounting_block]
  status,    \* [Actions -> status of the actions row, "unknown" before it]
  owed,      \* [Dividends -> entitlement]
  orders,    \* [Etfs -> its latest order row, with the sums of its fills]
  traded,    \* the table orders has a row
  lots,      \* sequence of lots rows
  held,      \* [Etfs -> [1 .. Days -> position_ledger up to that day]]
  cash,      \* balance of cash_ledger
  capital,   \* its rows initial and capital_adjustment
  fills,     \* number of fills
  net,       \* cash of the fills: reconcile's `fills`
  basis,     \* [Etfs -> cost of the fills' shares: reconcile's `basis`]
  real,      \* shares an account at the exchange would hold
  due        \* [Dividends -> what the exchange would pay]

clock  == <<day, closed>>
market == <<price, room, usable>>
corporate == <<checked, frozen, status, owed>>
evidence == <<fills, net, basis>>
books == <<orders, traded, lots, held, cash, capital, evidence>>
truth == <<real, due>>
vars == <<pc, todo, clock, market, corporate, books, truth>>

Least(a, b) == IF a < b THEN a ELSE b
Most(a, b)  == IF a > b THEN a ELSE b
Total(f, S) == SumFunctionOnSet(f, S)
Lots(q) == q - (q % Lot)

Rows == 1 .. Len(lots)
LotsOf(e) == {l \in Rows : lots[l].etf = e /\ lots[l].qty > 0}
Sellable_Locked(e) == LotsOf(e)
Sellable(e) == {l \in LotsOf(e) : lots[l].avail <= day}
Quantity == [l \in Rows |-> lots[l].qty]
Cost     == [l \in Rows |-> lots[l].cost]
Shares(S) == Total(Quantity, S)
Held(e) == Shares(LotsOf(e))
Positions == {e \in Etfs : LotsOf(e) # {}}
OpenOrders == {e \in Etfs : orders[e].open}

(* snapshot: value of the holdings, and with cash and receivables the NAV. *)
Value(e)   == Held(e) * price[e]
Market     == Total([e \in Etfs |-> Value(e)], Positions)
With(st)   == {d \in Dividends : status[d] = st}
Receivable == Total(owed, With("entitled"))
Nav        == cash + Market + Receivable

(* reconcile: the tables agree and the balance is not negative.            *)
Paid == Total(owed, With("paid"))
Agree ==
  /\ \A e \in Etfs : Held(e) = held[e][Days]
  /\ \A e \in Etfs : Total(Cost, LotsOf(e)) = basis[e]
  /\ cash = capital + net + Paid
Reconciles == Agree /\ cash >= 0

Side == {"buy", "sell", "stop"}
OrderRow ==
  [side : Side, left : Nat, gross : Nat, fee : Nat, open : BOOLEAN, seen : BOOLEAN]
NoOrder == [side |-> "stop", left |-> 0, gross |-> 0, fee |-> 0, open |-> FALSE, seen |-> TRUE]
LotRow == [etf : Etfs, acquired : 1 .. Days, avail : Nat, qty : Nat, cost : Nat]
Status == {"unknown", "pending", "recorded", "entitled", "paid", "applied"}

TypeOK ==
  /\ pc \in {"idle", "apply", "match"}
  /\ todo \subseteq IF pc = "apply" THEN Actions ELSE Etfs
  /\ day \in 1 .. Days /\ closed \in BOOLEAN
  /\ price \in [Etfs -> Nat] /\ room \in [Etfs -> Nat]
  /\ usable \in [Etfs -> BOOLEAN]
  /\ checked \in [Etfs -> BOOLEAN] /\ frozen \in [Etfs -> BOOLEAN]
  /\ status \in [Actions -> Status] /\ owed \in [Dividends -> Int]
  /\ orders \in [Etfs -> OrderRow] /\ traded \in BOOLEAN /\ lots \in Seq(LotRow)
  /\ cash \in Int /\ capital \in Nat
  /\ fills \in Nat /\ net \in Int

Init ==
  /\ pc = "idle" /\ todo = {} /\ day = 1 /\ closed = FALSE
  /\ price = [e \in Etfs |-> CHOOSE p \in Prices[e] : TRUE]
  /\ room = [e \in Etfs |-> 0]
  /\ usable = [e \in Etfs |-> FALSE] /\ checked = [e \in Etfs |-> FALSE]
  /\ frozen = [e \in Etfs |-> FALSE]
  /\ status = [a \in Actions |-> "unknown"] /\ owed = [d \in Dividends |-> 0]
  /\ orders = [e \in Etfs |-> NoOrder] /\ traded = FALSE /\ lots = <<>>
  /\ held = [e \in Etfs |-> [d \in 1 .. Days |-> 0]]
  /\ capital \in Capitals /\ cash = capital
  /\ fills = 0 /\ net = 0 /\ basis = [e \in Etfs |-> 0]
  /\ real = [e \in Etfs |-> 0] /\ due = [d \in Dividends |-> 0]

----------------------------------------------------------------------------
(* Between ticks.                                                          *)

(* IntradayTrader and risk_check place orders; a sale is for whole lots or *)
(* for everything.                                                         *)
Submit(e, side, q) ==
  /\ pc = "idle" /\ ~closed /\ ~orders[e].open /\ q \in 1 .. MaxShares
  /\ IF side = "buy" THEN q % Lot = 0
     ELSE q = Held(e) \/ (side = "sell" /\ q < Held(e) /\ q % Lot = 0)
  /\ orders' = [orders EXCEPT ![e] = [NoOrder EXCEPT !.side = side, !.left = q, !.open = TRUE]]
  /\ traded' = TRUE
  /\ UNCHANGED <<pc, todo, clock, market, corporate, lots, held, cash, capital, evidence, truth>>

Ended(e) == [orders EXCEPT ![e] = NoOrder]
Withdraw(e) ==
  /\ pc = "idle" /\ orders[e].open /\ orders' = Ended(e)
  /\ UNCHANGED <<pc, todo, clock, market, corporate, traded, lots, held, cash, capital,
                 evidence, truth>>

(* change_config: the capital may change while there is no order.          *)
SetCapital_AnyTime(c) ==
  /\ pc = "idle" /\ c # capital
  /\ capital' = c /\ cash' = cash + (c - capital)
  /\ UNCHANGED <<pc, todo, clock, market, corporate, orders, traded, lots, held, evidence, truth>>
SetCapital(c) ==
  /\ pc = "idle" /\ c # capital /\ ~traded
  /\ capital' = c /\ cash' = cash + (c - capital)
  /\ UNCHANGED <<pc, todo, clock, market, corporate, orders, traded, lots, held, evidence, truth>>

(* The day goes by at the exchange, whether or not the worker runs: at the *)
(* close of the record day a dividend is due, at dawn a split is in force. *)
PassTime ==
  /\ pc = "idle" /\ day < Days
  /\ closed' = ~closed
  /\ usable' = [e \in Etfs |-> FALSE]
  /\ IF ~closed
     THEN /\ due' = [d \in Dividends |->
               IF d.record = day THEN d.value * real[d.etf] ELSE due[d]]
          /\ UNCHANGED <<day, checked, real>>
     ELSE /\ day' = day + 1 /\ checked' = [e \in Etfs |-> FALSE]
          /\ real' = [e \in Etfs |->
               IF \E s \in Splits : s.etf = e /\ s.ex = day + 1
               THEN LET s == CHOOSE s \in Splits : s.etf = e /\ s.ex = day + 1
                    IN (real[e] * s.num) \div s.den
               ELSE real[e]]
          /\ UNCHANGED due
  /\ UNCHANGED <<pc, todo, price, room, frozen, status, owed, books>>

----------------------------------------------------------------------------
(* The tick: collect - apply_actions - match.                              *)

(* A collected quote: open orders of the ETF may be matched against it.    *)
NewQuote(e) ==
  /\ ~closed
  /\ \E p \in Prices[e], r \in Rooms[e] :
       price' = [price EXCEPT ![e] = p] /\ room' = [room EXCEPT ![e] = r]
  /\ usable' = [usable EXCEPT ![e] = TRUE]
  /\ orders' = [orders EXCEPT ![e].seen = @ /\ ~orders[e].open]
  /\ UNCHANGED <<corporate, traded, lots, held, cash, capital, evidence>>

(* ingest_actions: the day's download brings what the exchange has         *)
(* published, at the latest a split on its ex-day and a dividend the day   *)
(* after its record day; a known action that is revised, or one the source *)
(* does not confirm, freezes the ETF for good.  What is announced early is *)
(* announced after the splits up to the day whose shares it is about.      *)
Published(e) ==
  {s \in Splits : s.etf = e /\ s.ex <= day} \cup
  {d \in Dividends : d.etf = e /\ d.record < day}
ShareDay(a) == IF a \in Dividends THEN a.record ELSE a.ex
Verify(e) ==
  /\ checked' = [checked EXCEPT ![e] = TRUE]
  /\ \E early \in SUBSET {a \in Actions : a.etf = e} :
       /\ status' = [a \in Actions |->
            IF a \in Published(e) \cup early /\ status[a] = "unknown"
            THEN "pending" ELSE status[a]]
       /\ \A a \in early, s \in Splits :
            s.etf = e /\ s.ex <= ShareDay(a) => status'[s] # "unknown"
  /\ \E revised \in BOOLEAN :
       /\ revised => \E a \in Actions : a.etf = e /\ status[a] # "unknown"
       /\ frozen' = [frozen EXCEPT ![e] = @ \/ revised]
  /\ UNCHANGED <<market, owed, books>>

(* After its collecting the tick goes on with the rows apply_actions       *)
(* selects, ORDER BY ex_day, id, or it ends there by an exception.         *)
Due(st) == {a \in Actions : st[a] \notin {"unknown", "paid", "applied"}}
Collect ==
  /\ pc = "idle"
  /\ \/ UNCHANGED <<market, corporate, books>>
     \/ \E e \in Etfs : NewQuote(e)
     \/ \E e \in Etfs : ~checked[e] /\ Verify(e)
  /\ \/ pc' = "apply" /\ todo' = Due(status')
     \/ UNCHANGED <<pc, todo>>
  /\ UNCHANGED <<clock, truth>>
FirstAction(a) ==
  a \in todo /\ \A b \in todo : a.ex < b.ex \/ (a.ex = b.ex /\ a.id <= b.id)

Entitlement_Now(d) == d.value * Held(d.etf)
Entitlement(d) == d.value * held[d.etf][d.record]
ApplyDividend(d) ==
  LET recorded == status[d] = "pending" /\ (d.record < day \/ (d.record = day /\ closed))
      entitled == (recorded \/ status[d] = "recorded") /\ d.ex <= day
      paid     == (entitled \/ status[d] = "entitled") /\ d.pay <= day
      amount   == IF recorded THEN Entitlement(d) ELSE owed[d]
  IN /\ owed' = [owed EXCEPT ![d] = amount]
     /\ status' = [status EXCEPT ![d] = IF paid THEN "paid" ELSE IF entitled THEN "entitled"
                                         ELSE IF recorded THEN "recorded" ELSE @]
     /\ orders' = IF entitled THEN Ended(d.etf) ELSE orders
     /\ cash' = IF paid THEN cash + amount ELSE cash
     /\ UNCHANGED <<frozen, lots, held>>

OldLots(s) == {l \in Rows : lots[l].etf = s.etf /\ lots[l].qty > 0 /\ lots[l].acquired < s.ex}
Scaled(s, q) == (q * s.num) \div s.den
ApplySplit(s) ==
  LET old   == OldLots(s)
      added == Total([l \in Rows |-> Scaled(s, lots[l].qty) - lots[l].qty], old)
  IN \/ s.ex > day /\ UNCHANGED <<frozen, status, orders, lots, held>>
     \/ /\ s.ex <= day /\ \E l \in old : (lots[l].qty * s.num) % s.den # 0
        /\ frozen' = [frozen EXCEPT ![s.etf] = TRUE]
        /\ UNCHANGED <<status, orders, lots, held>>
     \/ /\ s.ex <= day /\ \A l \in old : (lots[l].qty * s.num) % s.den = 0
        /\ lots' = [l \in Rows |-> IF l \in old
                                   THEN [lots[l] EXCEPT !.qty = Scaled(s, @)] ELSE lots[l]]
        /\ held' = [held EXCEPT ![s.etf] =
                      [d \in 1 .. Days |-> IF d >= s.ex THEN @[d] + added ELSE @[d]]]
        /\ status' = [status EXCEPT ![s] = "applied"]
        /\ orders' = Ended(s.etf)
        /\ UNCHANGED frozen
ApplyOne ==
  /\ pc = "apply" /\ UNCHANGED <<pc, clock, market, checked, traded, capital, evidence, truth>>
  /\ \E a \in todo :
       /\ FirstAction(a) /\ todo' = todo \ {a}
       /\ \/ a \in Dividends /\ ApplyDividend(a)
          \/ a \in Splits /\ ApplySplit(a) /\ UNCHANGED <<owed, cash>>

(* Engine.match: sales before purchases, older orders first, and nothing   *)
(* at all while the tables disagree.                                       *)
Selected == IF closed \/ ~Reconciles THEN {} ELSE OpenOrders
Go(rest) == todo' = rest /\ pc' = IF rest = {} THEN "idle" ELSE "match"
MatchStart_ActionsPending ==
  /\ pc = "apply" /\ Go(Selected)
  /\ UNCHANGED <<clock, market, corporate, books, truth>>
MatchStart ==
  /\ pc = "apply" /\ todo = {} /\ Go(Selected)
  /\ UNCHANGED <<clock, market, corporate, books, truth>>
Sale(o) == o.side # "buy"
FirstOrder(e) == e \in todo /\ (Sale(orders[e]) \/ \A f \in todo : ~Sale(orders[f]))

(* fee_for rounds half up; an order pays it on the sum of its fills.       *)
FeeFor(gross) == Most((2 * gross + FeeParts) \div (2 * FeeParts), MinFee)
FeeOf(e, q) == Most(0, FeeFor(orders[e].gross + price[e] * q) - orders[e].fee)

Stale == \E e \in Positions : ~usable[e] \/ frozen[e]
BuyBlocked(e) ==
  \/ \E f \in OpenOrders : orders[f].side = "sell"
  \/ Stale
  \/ e \notin Positions /\ Cardinality(Positions) >= MaxPositions
Blocked_Unverified(e) ==
  frozen[e] \/ ~usable[e] \/ (orders[e].side = "buy" /\ BuyBlocked(e))
Blocked(e) ==
  frozen[e] \/ ~checked[e] \/ ~usable[e] \/ (orders[e].side = "buy" /\ BuyBlocked(e))

(* The limits a purchase keeps after its own fee.                          *)
Within_BeforeFee(part, value, e, q) == (value + price[e] * q) * Whole <= Nav * part
Within(part, value, e, q) ==
  (value + price[e] * q) * Whole <= (Nav - FeeOf(e, q)) * part
Affordable(e, q) ==
  /\ price[e] * q + FeeOf(e, q) <= cash
  /\ Within(WeightParts, Value(e), e, q) /\ Within(ExposureParts, Market, e, q)

(* How much of an order one quote fills.                                   *)
SaleQuantity(e) ==
  LET left == orders[e].left
      can  == Shares(Sellable(e))
      q    == Least(Least(left, room[e]), can)
  IN IF q < left \/ q < can THEN Lots(q) ELSE q
Fits_OrderIgnored(e) ==
  {q \in 1 .. MaxShares : q % Lot = 0 /\ q <= room[e] /\ Affordable(e, q)}
Fits(e) ==
  {q \in 1 .. MaxShares :
     q % Lot = 0 /\ q <= orders[e].left /\ q <= room[e] /\ Affordable(e, q)}
Filled(e, q) ==
  IF Sale(orders[e]) THEN q = SaleQuantity(e)
  ELSE q \in Fits(e) /\ \A p \in Fits(e) : p <= q

(* _fill takes lots in the order they were acquired, each one whole before *)
(* the next; of a lot taken in part the cost is floored.                   *)
Fifo(take, e, q) ==
  /\ \A l \in Rows : take[l] <= IF l \in Sellable(e) THEN lots[l].qty ELSE 0
  /\ Total(take, Rows) = q
  /\ \A l \in Rows : take[l] > 0 =>
       \A k \in Sellable(e) : k < l => take[k] = lots[k].qty
CostOf(l, take) ==
  IF take = lots[l].qty THEN lots[l].cost ELSE (lots[l].cost * take) \div lots[l].qty
Reduced_Ceil(take) ==
  [l \in Rows |-> IF take[l] = 0 THEN lots[l]
     ELSE [lots[l] EXCEPT !.qty = @ - take[l],
                          !.cost = @ + ((-@ * take[l]) \div lots[l].qty)]]
Reduced(take) ==
  [l \in Rows |-> IF take[l] = 0 THEN lots[l]
     ELSE [lots[l] EXCEPT !.qty = @ - take[l], !.cost = @ - CostOf(l, take[l])]]

Move(e, q) ==
  /\ held' = [held EXCEPT ![e] = [d \in 1 .. Days |-> IF d >= day THEN @[d] + q ELSE @[d]]]
  /\ real' = [real EXCEPT ![e] = @ + q]
Executed(e, q, fee) ==
  LET o == orders[e]
  IN /\ orders' = [orders EXCEPT ![e] =
          IF q = o.left THEN NoOrder
          ELSE [o EXCEPT !.left = @ - q, !.seen = TRUE,
                         !.gross = @ + price[e] * q, !.fee = @ + fee]]
     /\ room' = [room EXCEPT ![e] = @ - q] /\ fills' = fills + 1

FillBuy(e, q) ==
  LET paid == price[e] * q + FeeOf(e, q)
  IN /\ Executed(e, q, FeeOf(e, q)) /\ Move(e, q)
     /\ lots' = Append(lots, [etf |-> e, acquired |-> day, avail |-> day + Settlement[e],
                              qty |-> q, cost |-> paid])
     /\ cash' = cash - paid /\ net' = net - paid
     /\ basis' = [basis EXCEPT ![e] = @ + paid]
FillSale(e, q) ==
  LET got == price[e] * q - FeeOf(e, q)
  IN /\ Executed(e, q, FeeOf(e, q)) /\ Move(e, -q)
     /\ \E take \in [Rows -> 0 .. MaxShares] :
          /\ Fifo(take, e, q)
          /\ lots' = Reduced(take)
          /\ basis' = [basis EXCEPT ![e] =
               @ - Total([l \in Rows |-> CostOf(l, take[l])], {l \in Rows : take[l] > 0})]
     /\ cash' = cash + got /\ net' = net + got

(* An order meets a quote once.  It may be left alone by a blocker that is *)
(* not modelled here.                                                      *)
MatchOne ==
  /\ pc = "match" /\ UNCHANGED <<clock, price, usable, corporate, traded, capital, due>>
  /\ \E e \in todo :
       /\ FirstOrder(e) /\ Go(todo \ {e})
       /\ \/ /\ orders' = [orders EXCEPT ![e].seen = TRUE]
             /\ UNCHANGED <<room, lots, held, cash, evidence, real>>
          \/ /\ ~orders[e].seen /\ ~Blocked(e) /\ fills < MaxFills
             /\ \E q \in 1 .. MaxShares :
                  /\ Filled(e, q)
                  /\ \/ Sale(orders[e]) /\ FillSale(e, q)
                     \/ ~Sale(orders[e]) /\ FillBuy(e, q)

(* The tick may end before its next handler begins.                        *)
Abort ==
  /\ pc = "apply" /\ todo = {} /\ pc' = "idle"
  /\ UNCHANGED <<todo, clock, market, corporate, books, truth>>

Next ==
  \/ \E e \in Etfs, side \in Side, q \in 1 .. MaxShares : Submit(e, side, q)
  \/ \E e \in Etfs : Withdraw(e)
  \/ \E c \in Capitals : SetCapital(c)
  \/ PassTime
  \/ Collect \/ ApplyOne \/ MatchStart \/ MatchOne \/ Abort

Spec == Init /\ [][Next]_vars

----------------------------------------------------------------------------
(* Properties.                                                             *)

(* Lots, fills, position ledger and cash agree after every step that can   *)
(* be committed, over part sales with floored costs, splits applied late   *)
(* and dividends: only a negative balance ever makes reconcile complain.   *)
TablesAgree == Agree

(* Once the day's actions are in and applied, the lots hold what the       *)
(* account would hold at the exchange, however late they came.             *)
SharesAreReal ==
  \A e \in Etfs :
    /\ checked[e] /\ ~frozen[e]
    /\ \A s \in Splits : s.etf = e /\ s.ex <= day => status[s] = "applied"
    => Held(e) = real[e]

(* docs/strategy.md: the day's actions come before its first fill.  While  *)
(* match runs, an ETF it may trade has no split in force that its lots do  *)
(* not show: a download, an abandoned tick or a new day never comes        *)
(* between.                                                                *)
SplitBeforeTrade ==
  pc = "match" => \A s \in Splits :
    checked[s.etf] /\ ~frozen[s.etf] /\ s.ex <= day => status[s] = "applied"

(* docs/strategy.md: the shares at the close of the record day determine   *)
(* the dividend, whenever the worker records it and whatever was sold,     *)
(* bought or split since.                                                  *)
DividendIsDue ==
  \A d \in Dividends :
    status[d] \notin {"unknown", "pending"} /\ ~frozen[d.etf] => owed[d] = due[d]

(* docs/strategy.md: positions, cash and the limits after fees are checked *)
(* anew for every purchase: the second one of a match counts the first.    *)
(* Only a sale whose fee exceeds its proceeds makes the balance negative.  *)
PurchasesWithinLimits ==
  [][/\ cash' < cash /\ cash' < 0 => Len(lots') = Len(lots)
     /\ Len(lots') > Len(lots) =>
          /\ Market' * Whole <= Nav' * ExposureParts
          /\ \A e \in Etfs : held[e] # held'[e] => Value(e)' * Whole <= Nav' * WeightParts
          /\ Cardinality(Positions') <= Most(MaxPositions, Cardinality(Positions))]_vars

(* T+1: no share is sold on the day it was bought, not even one that a     *)
(* later lot of the same ETF could have delivered in its place.            *)
LockedTillNextDay ==
  [][\A l \in Rows : pc = "match" /\ lots'[l].qty < lots[l].qty =>
       /\ lots[l].acquired + Settlement[lots[l].etf] <= day
       /\ \A k \in Rows : lots[k].etf = lots[l].etf /\ k < l => lots'[k].qty = 0]_vars

(* The ledger implements the account the documents describe.               *)
Promise ==
  INSTANCE Account WITH
    shares <- [e \in Etfs |-> Held(e)],
    traded <- traded,
    done   <- {a \in Actions : status[a] \in {"paid", "applied"}}
AccountKept == Promise!Spec
=============================================================================
