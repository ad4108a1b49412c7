----------------------------- MODULE LedgerProofs -----------------------------
(***************************************************************************)
(* For any ETFs, prices, volumes, fees, limits and corporate actions.      *)
(***************************************************************************)
EXTENDS LedgerTables, WellFoundedInduction

(* What apply_actions has left undone while its loop runs, and when match  *)
(* begins: nothing that is in force, known, and not frozen.                *)
InForce(s) == checked[s.etf] /\ ~frozen[s.etf] /\ s.ex <= day /\ status[s] # "applied"
Listed ==
  /\ checked \in [Etfs -> BOOLEAN] /\ frozen \in [Etfs -> BOOLEAN]
  /\ status \in [Actions -> Status] /\ day \in 1 .. Days
  /\ \A s \in Splits : status[s] \in {"unknown", "pending", "applied"}
  /\ \A s \in Splits : checked[s.etf] /\ s.ex <= day => status[s] # "unknown"
SplitsKnown ==
  /\ Listed
  /\ pc = "apply" => \A s \in Splits : InForce(s) => s \in todo
  /\ pc = "match" => \A s \in Splits : ~InForce(s)

LEMMA SplitsKnownHolds == Spec => []SplitsKnown
<1> USE LedgerAssumption DEF Actions, Status
<1>1. Init => SplitsKnown
  BY DEF Init, SplitsKnown, InForce, Listed
<1>2. SplitsKnown /\ [Next]_vars => SplitsKnown'
  <2> SUFFICES ASSUME SplitsKnown, [Next]_vars PROVE SplitsKnown'
    OBVIOUS
  <2> USE DEF SplitsKnown, InForce, Listed
  <2>1. ASSUME NEW e \in Etfs, NEW side \in Side, NEW q \in 1 .. MaxShares, Submit(e, side, q)
        PROVE  SplitsKnown'
    BY <2>1 DEF Submit, corporate, clock
  <2>2. ASSUME NEW e \in Etfs, Withdraw(e) PROVE SplitsKnown'
    BY <2>2 DEF Withdraw, corporate, clock
  <2>3. ASSUME NEW c \in Capitals, SetCapital(c) PROVE SplitsKnown'
    BY <2>3 DEF SetCapital, corporate, clock
  <2>4. CASE PassTime
    <3>1. pc' = "idle" /\ UNCHANGED <<frozen, status>>
      BY <2>4 DEF PassTime
    <3>2. CASE ~closed
      <4>1. UNCHANGED <<day, checked>>
        BY <2>4, <3>2 DEF PassTime
      <4> QED
        BY <3>1, <4>1
    <3>3. CASE closed
      <4>1. day' = day + 1 /\ day < Days /\ checked' = [e \in Etfs |-> FALSE]
        BY <2>4, <3>3 DEF PassTime
      <4>2. \A s \in Splits : ~checked'[s.etf]
        BY <4>1
      <4>3. day' \in 1 .. Days
        BY <4>1
      <4> QED
        BY <3>1, <4>1, <4>2, <4>3
    <3> QED
      BY <3>2, <3>3
  <2>5. CASE Collect
    <3>1. Listed'
      <4>1. CASE \E e \in Etfs : ~checked[e] /\ Verify(e)
        <5>1. PICK e \in Etfs : Verify(e)
          BY <4>1
        <5>2. PICK early \in SUBSET {a \in Actions : a.etf = e} :
                status' = [a \in Actions |->
                  IF a \in Published(e) \cup early /\ status[a] = "unknown"
                  THEN "pending" ELSE status[a]]
          BY <5>1 DEF Verify
        <5>3. checked' = [checked EXCEPT ![e] = TRUE] /\ day' = day
          BY <2>5, <5>1 DEF Verify, Collect, clock
        <5>4. frozen' \in [Etfs -> BOOLEAN]
          BY <5>1 DEF Verify
        <5>5. \A s \in Splits : s.etf = e /\ s.ex <= day => s \in Published(e)
          BY DEF Published
        <5>6. status' \in [Actions -> Status]
          BY <5>2
        <5>7. \A s \in Splits : status'[s] \in {"unknown", "pending", "applied"}
          BY <5>2
        <5>8. \A s \in Splits : checked'[s.etf] /\ s.ex <= day' => status'[s] # "unknown"
          BY <5>2, <5>3, <5>5
        <5> QED
          BY <5>3, <5>4, <5>6, <5>7, <5>8
      <4>2. CASE UNCHANGED corporate
        BY <2>5, <4>2 DEF Collect, corporate, clock
      <4> QED
        BY <2>5, <4>1, <4>2 DEF Collect, NewQuote
    <3>2. pc' = "apply" => \A s \in Splits : InForce(s)' => s \in todo'
      <4>1. pc' = "apply" => todo' = Due(status')
        BY <2>5 DEF Collect
      <4> QED
        BY <3>1, <4>1, <2>5 DEF Due, Collect, clock
    <3>3. pc' # "match"
      BY <2>5 DEF Collect
    <3> QED
      BY <3>1, <3>2, <3>3
  <2>6. CASE ApplyOne
    <3>1. PICK a \in todo : /\ todo' = todo \ {a}
                            /\ \/ a \in Dividends /\ ApplyDividend(a)
                               \/ a \in Splits /\ ApplySplit(a)
      BY <2>6 DEF ApplyOne
    <3>2. pc = "apply" /\ pc' = "apply" /\ UNCHANGED <<checked, day>>
      BY <2>6 DEF ApplyOne, clock
    <3>3. CASE a \in Dividends /\ ApplyDividend(a)
      BY <3>1, <3>2, <3>3 DEF ApplyDividend
    <3>4. CASE a \in Splits /\ ApplySplit(a)
      <4>1. \/ a.ex > day /\ UNCHANGED <<frozen, status>>
            \/ frozen' = [frozen EXCEPT ![a.etf] = TRUE] /\ UNCHANGED status
            \/ status' = [status EXCEPT ![a] = "applied"] /\ UNCHANGED frozen
        BY <3>4 DEF ApplySplit
      <4>2. \A s \in Splits : s \in todo /\ s # a => s \in todo'
        BY <3>1
      <4>3. CASE a.ex > day /\ UNCHANGED <<frozen, status>>
        BY <3>2, <4>2, <4>3
      <4>4. CASE frozen' = [frozen EXCEPT ![a.etf] = TRUE] /\ UNCHANGED status
        BY <3>2, <3>4, <4>2, <4>4
      <4>5. CASE status' = [status EXCEPT ![a] = "applied"] /\ UNCHANGED frozen
        BY <3>2, <3>4, <4>2, <4>5
      <4> QED
        BY <4>1, <4>3, <4>4, <4>5
    <3> QED
      BY <3>1, <3>3, <3>4
  <2>7. CASE MatchStart
    BY <2>7 DEF MatchStart, Go, corporate, clock
  <2>8. CASE MatchOne
    <3>1. UNCHANGED <<checked, frozen, status, day>> /\ pc = "match" /\ pc' \in {"idle", "match"}
      BY <2>8 DEF MatchOne, Go, corporate, clock
    <3> QED
      BY <3>1
  <2>9. CASE Abort
    BY <2>9 DEF Abort, corporate, clock
  <2>10. CASE UNCHANGED vars
    BY <2>10 DEF vars, corporate, clock
  <2> QED
    BY <2>1, <2>2, <2>3, <2>4, <2>5, <2>6, <2>7, <2>8, <2>9, <2>10 DEF Next
<1> QED
  BY <1>1, <1>2, PTL DEF Spec

(* No ETF is matched before the splits in force are in its lots: the tick  *)
(* applies what the day's download brought before it matches, whatever is  *)
(* downloaded when, and however many ticks are abandoned.                  *)
THEOREM ActionsFirst == Spec => []SplitBeforeTrade
<1>1. SplitsKnown => SplitBeforeTrade
  BY DEF SplitsKnown, SplitBeforeTrade, InForce
<1> QED
  BY <1>1, SplitsKnownHolds, PTL

----------------------------------------------------------------------------
(* Lots are kept in the order they were bought, and become available in    *)
(* that order too.                                                         *)
Dated(row, n) ==
  /\ {"etf", "qty", "acquired", "avail"} \subseteq DOMAIN row
  /\ row.etf \in Etfs /\ row.qty \in Nat /\ row.acquired \in 1 .. n
  /\ row.avail = row.acquired + Settlement[row.etf]
LotsInOrder ==
  /\ day \in 1 .. Days
  /\ Len(lots) \in Nat /\ lots = [l \in 1 .. Len(lots) |-> lots[l]]
  /\ \A l \in 1 .. Len(lots) : Dated(lots[l], day)
  /\ \A k, l \in 1 .. Len(lots) : k < l => lots[k].acquired <= lots[l].acquired

(* One step for all the handlers that leave the lots' dates alone.         *)
SameLots ==
  /\ Len(lots') = Len(lots) /\ lots' = [l \in 1 .. Len(lots) |-> lots'[l]]
  /\ \A l \in 1 .. Len(lots) :
       /\ DOMAIN lots'[l] = DOMAIN lots[l]
       /\ lots'[l].etf = lots[l].etf /\ lots'[l].qty \in Nat
       /\ lots'[l].acquired = lots[l].acquired /\ lots'[l].avail = lots[l].avail

LEMMA SameLotsInOrder ==
  ASSUME LotsInOrder, SameLots, day' = day \/ (day' = day + 1 /\ day < Days)
  PROVE  LotsInOrder'
<1> USE LedgerAssumption DEF LotsInOrder, SameLots
<1>1. day' \in 1 .. Days /\ day <= day'
  OBVIOUS
<1>2. \A l \in 1 .. Len(lots) : Dated(lots[l], day)'
  BY <1>1 DEF Dated
<1>3. \A k, l \in 1 .. Len(lots) : k < l => lots'[k].acquired <= lots'[l].acquired
  OBVIOUS
<1> QED
  BY <1>1, <1>2, <1>3

MatchesEtfs == pc = "match" => todo \subseteq Etfs
LEMMA MatchesEtfsHolds == Spec => []MatchesEtfs
<1>1. Init => MatchesEtfs
  BY DEF Init, MatchesEtfs
<1>2. MatchesEtfs /\ [Next]_vars => MatchesEtfs'
  BY DEF MatchesEtfs, Next, Submit, Withdraw, SetCapital, PassTime, Collect, ApplyOne,
         MatchStart, MatchOne, Go, Selected, OpenOrders, Abort, vars
<1> QED
  BY <1>1, <1>2, PTL DEF Spec

LEMMA LotsInOrderHolds == Spec => []LotsInOrder
<1> USE LedgerAssumption
<1>1. Init => LotsInOrder
  BY DEF Init, LotsInOrder
<1>2. LotsInOrder /\ MatchesEtfs /\ [Next]_vars => LotsInOrder'
  <2> SUFFICES ASSUME LotsInOrder, MatchesEtfs, [Next]_vars PROVE LotsInOrder'
    OBVIOUS
  <2>1. ASSUME UNCHANGED lots, day' = day \/ (day' = day + 1 /\ day < Days)
        PROVE  LotsInOrder'
    <3>1. SameLots
      BY <2>1 DEF SameLots, LotsInOrder, Dated
    <3> QED
      BY <2>1, <3>1, SameLotsInOrder
  <2>2. ASSUME NEW s \in Splits, day' = day, lots' = lots \/
                 lots' = [l \in Rows |-> IF l \in OldLots(s)
                            THEN [lots[l] EXCEPT !.qty = Scaled(s, @)] ELSE lots[l]]
        PROVE  LotsInOrder'
    <3>1. CASE lots' = lots
      BY <2>1, <2>2, <3>1
    <3>2. CASE lots' # lots
      <4>1. lots' = [l \in Rows |-> IF l \in OldLots(s)
                       THEN [lots[l] EXCEPT !.qty = Scaled(s, @)] ELSE lots[l]]
        BY <2>2, <3>2
      <4>2. \A l \in Rows : Dated(lots[l], day)
        BY DEF LotsInOrder, Rows
      <4>3. \A n \in Nat : Scaled(s, n) \in Nat
        BY DEF Scaled
      <4>4. \A l \in Rows : /\ DOMAIN lots'[l] = DOMAIN lots[l]
                            /\ lots'[l].etf = lots[l].etf /\ lots'[l].qty \in Nat
                            /\ lots'[l].acquired = lots[l].acquired
                            /\ lots'[l].avail = lots[l].avail
        BY <4>1, <4>2, <4>3 DEF Dated
      <4>5. lots' = [l \in 1 .. Len(lots) |-> lots'[l]]
        BY <4>1 DEF Rows
      <4>6. Len(lots') = Len(lots)
        BY <4>5, LengthOfFunction DEF LotsInOrder
      <4>7. SameLots
        BY <4>4, <4>5, <4>6 DEF SameLots, Rows
      <4> QED
        BY <2>2, <4>7, SameLotsInOrder
    <3> QED
      BY <3>1, <3>2
  <2>3. ASSUME NEW e \in Etfs, NEW q \in 1 .. MaxShares, FillBuy(e, q), day' = day
        PROVE  LotsInOrder'
    <3> DEFINE row == [etf |-> e, acquired |-> day, avail |-> day + Settlement[e],
                       qty |-> q, cost |-> price[e] * q + FeeOf(e, q)]
               S == {lots[l] : l \in 1 .. Len(lots)} \cup {row}
               n == Len(lots)
    <3>1. lots \in Seq(S) /\ row \in S /\ lots' = Append(lots, row) /\ n \in Nat
      <4>1. n \in Nat /\ lots = [l \in 1 .. n |-> lots[l]]
        BY DEF LotsInOrder
      <4>2. lots \in [1 .. n -> S]
        BY <4>1
      <4>3. lots' = Append(lots, row)
        BY <2>3 DEF FillBuy
      <4>4. row \in S
        OBVIOUS
      <4> HIDE DEF S, row
      <4>5. lots \in Seq(S)
        BY <4>1, <4>2
      <4> QED
        BY <4>1, <4>3, <4>4, <4>5
    <3>2. Len(lots') = n + 1 /\ lots'[n + 1] = row /\ lots' \in Seq(S)
          /\ \A l \in 1 .. n : lots'[l] = lots[l]
      BY <3>1, AppendProperties
    <3>3. lots' = [l \in 1 .. n + 1 |-> lots'[l]]
      BY <3>2, LenProperties
    <3>4. Dated(row, day)
      BY <2>3 DEF Dated, LotsInOrder
    <3>5. \A l \in 1 .. n + 1 : Dated(lots'[l], day)
      <4> SUFFICES ASSUME NEW l \in 1 .. n + 1 PROVE Dated(lots'[l], day)
        OBVIOUS
      <4>1. CASE l = n + 1
        BY <4>1, <3>2, <3>4
      <4>2. CASE l # n + 1
        BY <4>2, <3>1, <3>2 DEF LotsInOrder
      <4> QED
        BY <4>1, <4>2
    <3>6. \A l \in 1 .. n : lots[l].acquired <= row.acquired
      BY DEF LotsInOrder, Dated
    <3>7. \A k, l \in 1 .. n + 1 : k < l => lots'[k].acquired <= lots'[l].acquired
      <4> SUFFICES ASSUME NEW k \in 1 .. n + 1, NEW l \in 1 .. n + 1, k < l
                   PROVE  lots'[k].acquired <= lots'[l].acquired
        OBVIOUS
      <4>1. k \in 1 .. n /\ lots'[k] = lots[k]
        BY <3>1, <3>2
      <4>2. CASE l = n + 1
        BY <4>1, <4>2, <3>2, <3>6
      <4>3. CASE l # n + 1
        BY <4>1, <4>3, <3>1, <3>2 DEF LotsInOrder
      <4> QED
        BY <4>2, <4>3
    <3>8. day' \in 1 .. Days
      BY <2>3 DEF LotsInOrder
    <3>9. Len(lots') \in Nat /\ lots' = [l \in 1 .. Len(lots') |-> lots'[l]]
      BY <3>1, <3>2, <3>3
    <3>10. \A l \in 1 .. Len(lots') : Dated(lots[l], day)'
      BY <2>3, <3>2, <3>5 DEF Dated
    <3>11. \A k, l \in 1 .. Len(lots') : k < l => lots'[k].acquired <= lots'[l].acquired
      BY <3>2, <3>7
    <3> QED
      BY <3>8, <3>9, <3>10, <3>11 DEF LotsInOrder
  <2>4. ASSUME NEW e \in Etfs, NEW q \in 1 .. MaxShares, FillSale(e, q), day' = day
        PROVE  LotsInOrder'
    <3>1. PICK take \in [Rows -> 0 .. MaxShares] : Fifo(take, e, q) /\ lots' = Reduced(take)
      BY <2>4 DEF FillSale
    <3>2. \A l \in Rows : Dated(lots[l], day)
      BY DEF LotsInOrder, Rows
    <3>3. \A l \in Rows : take[l] > 0 => lots[l].qty - take[l] \in Nat
      <4> SUFFICES ASSUME NEW l \in Rows, take[l] > 0 PROVE lots[l].qty - take[l] \in Nat
        OBVIOUS
      <4>1. take[l] \in Nat /\ lots[l].qty \in Nat
        BY <3>1, <3>2 DEF Dated
      <4>2. take[l] <= lots[l].qty
        BY <3>1, <4>1 DEF Fifo
      <4> QED
        BY <4>1, <4>2
    <3>4. lots' = [l \in Rows |-> IF take[l] = 0 THEN lots[l]
                     ELSE [lots[l] EXCEPT !.qty = @ - take[l], !.cost = @ - CostOf(l, take[l])]]
      BY <3>1 DEF Reduced
    <3>5. \A l \in Rows : /\ DOMAIN lots'[l] = DOMAIN lots[l]
                          /\ lots'[l].etf = lots[l].etf /\ lots'[l].qty \in Nat
                          /\ lots'[l].acquired = lots[l].acquired
                          /\ lots'[l].avail = lots[l].avail
      <4> SUFFICES ASSUME NEW l \in Rows
                   PROVE  /\ DOMAIN lots'[l] = DOMAIN lots[l]
                          /\ lots'[l].etf = lots[l].etf /\ lots'[l].qty \in Nat
                          /\ lots'[l].acquired = lots[l].acquired
                          /\ lots'[l].avail = lots[l].avail
        OBVIOUS
      <4>1. CASE take[l] = 0
        BY <3>2, <3>4, <4>1 DEF Dated
      <4>2. CASE take[l] # 0
        <5>1. take[l] > 0
          BY <3>1, <4>2
        <5> QED
          BY <3>2, <3>3, <3>4, <4>2, <5>1 DEF Dated
      <4> QED
        BY <4>1, <4>2
    <3>6. lots' = [l \in 1 .. Len(lots) |-> lots'[l]]
      BY <3>4 DEF Rows
    <3>7. Len(lots') = Len(lots)
      BY <3>6, LengthOfFunction DEF LotsInOrder
    <3>8. SameLots
      BY <3>5, <3>6, <3>7 DEF SameLots, Rows
    <3> QED
      BY <2>4, <3>8, SameLotsInOrder
  <2>5. CASE PassTime
    <3>1. UNCHANGED lots
      BY <2>5 DEF PassTime, books
    <3>2. day' = day \/ (day' = day + 1 /\ day < Days)
      BY <2>5 DEF PassTime
    <3> QED
      BY <2>1, <3>1, <3>2
  <2>6. CASE Collect
    <3>1. UNCHANGED <<lots, day>>
      BY <2>6 DEF Collect, NewQuote, Verify, books, clock
    <3> QED
      BY <2>1, <3>1
  <2>7. CASE ApplyOne
    <3>1. PICK a \in todo : \/ a \in Dividends /\ ApplyDividend(a)
                            \/ a \in Splits /\ ApplySplit(a)
      BY <2>7 DEF ApplyOne
    <3>2. day' = day
      BY <2>7 DEF ApplyOne, clock
    <3>3. CASE a \in Dividends /\ ApplyDividend(a)
      BY <2>1, <3>2, <3>3 DEF ApplyDividend
    <3>4. CASE a \in Splits /\ ApplySplit(a)
      BY <2>2, <3>2, <3>4 DEF ApplySplit
    <3> QED
      BY <3>1, <3>3, <3>4
  <2>8. CASE MatchOne
    <3>1. day' = day
      BY <2>8 DEF MatchOne, clock
    <3>2. PICK e \in todo : \/ UNCHANGED lots
                            \/ \E q \in 1 .. MaxShares : FillSale(e, q) \/ FillBuy(e, q)
      BY <2>8 DEF MatchOne
    <3>3. e \in Etfs
      BY <2>8 DEF MatchOne, MatchesEtfs
    <3> QED
      BY <2>1, <2>3, <2>4, <3>1, <3>2, <3>3
  <2>9. CASE UNCHANGED <<lots, clock>>
    BY <2>1, <2>9 DEF clock
  <2> QED
    BY <2>5, <2>6, <2>7, <2>8, <2>9
    DEF Next, Submit, Withdraw, SetCapital, MatchStart, Abort, books, vars
<1> QED
  BY <1>1, <1>2, MatchesEtfsHolds, PTL DEF Spec

(* First in, first out, from lots that are available, never sells a share  *)
(* on the day it was bought, and leaves none of the lots before it: lots   *)
(* of one ETF become available in the order they were acquired.            *)
THEOREM NoEarlySale == Spec => LockedTillNextDay
<1> USE LedgerAssumption
<1>1. ASSUME LotsInOrder, MatchesEtfs, [Next]_vars, pc = "match",
             NEW l \in Rows, lots'[l].qty < lots[l].qty
      PROVE  /\ lots[l].acquired + Settlement[lots[l].etf] <= day
             /\ \A k \in Rows : lots[k].etf = lots[l].etf /\ k < l => lots'[k].qty = 0
  <2>1. \A k \in Rows : Dated(lots[k], day) /\ k \in 1 .. Len(lots)
    BY <1>1 DEF LotsInOrder, Rows
  <2>2. ~UNCHANGED lots
    BY <1>1, <2>1 DEF Dated
  <2>3. MatchOne
    BY <1>1, <2>2 DEF Next, Submit, Withdraw, SetCapital, PassTime, Collect, ApplyOne,
                      MatchStart, Abort, vars, books
  <2>4. PICK e \in Etfs : \E q \in 1 .. MaxShares : FillSale(e, q) \/ FillBuy(e, q)
    BY <1>1, <2>2, <2>3 DEF MatchOne, MatchesEtfs
  <2>5. PICK q \in 1 .. MaxShares : FillSale(e, q) \/ FillBuy(e, q)
    BY <2>4
  <2>6. CASE FillBuy(e, q)
    <3> DEFINE row == [etf |-> e, acquired |-> day, avail |-> day + Settlement[e],
                       qty |-> q, cost |-> price[e] * q + FeeOf(e, q)]
               S == {lots[k] : k \in 1 .. Len(lots)} \cup {row}
    <3>1. lots \in [1 .. Len(lots) -> S] /\ Len(lots) \in Nat /\ row \in S
      BY <1>1 DEF LotsInOrder
    <3>2. lots' = Append(lots, row)
      BY <2>6 DEF FillBuy
    <3>3. \A k \in 1 .. Len(lots) : lots'[k] = lots[k]
      <4> HIDE DEF S, row
      <4> QED
        BY <3>1, <3>2, AppendProperties
    <3>4. lots'[l].qty = lots[l].qty /\ lots[l].qty \in Nat
      BY <2>1, <3>3 DEF Dated
    <3> QED
      BY <1>1, <3>4
  <2>7. CASE FillSale(e, q)
    <3>1. PICK take \in [Rows -> 0 .. MaxShares] : Fifo(take, e, q) /\ lots' = Reduced(take)
      BY <2>7 DEF FillSale
    <3>2. lots' = [k \in Rows |-> IF take[k] = 0 THEN lots[k]
                     ELSE [lots[k] EXCEPT !.qty = @ - take[k], !.cost = @ - CostOf(k, take[k])]]
      BY <3>1 DEF Reduced
    <3>3. take[l] > 0
      <4>1. take[l] = 0 => lots'[l] = lots[l]
        BY <3>2
      <4>2. lots[l].qty \in Nat /\ take[l] \in Nat
        BY <2>1, <3>1 DEF Dated
      <4> QED
        BY <1>1, <4>1, <4>2
    <3>4. l \in Sellable(e)
      BY <3>1, <3>3 DEF Fifo
    <3>5. lots[l].etf = e /\ lots[l].avail <= day
      BY <3>4 DEF Sellable, LotsOf
    <3>6. lots[l].acquired + Settlement[lots[l].etf] <= day
      BY <2>1, <3>5 DEF Dated
    <3>7. ASSUME NEW k \in Rows, lots[k].etf = e, k < l PROVE lots'[k].qty = 0
      <4>1. lots[k].acquired <= lots[l].acquired
        BY <1>1, <3>7 DEF LotsInOrder, Rows
      <4>2. lots[k].avail <= day
        <5>1. lots[k].avail = lots[k].acquired + Settlement[e] /\ Settlement[e] \in Int
          BY <2>1, <3>7 DEF Dated
        <5>2. lots[l].acquired \in Int /\ lots[k].acquired \in Int /\ day \in Int
          BY <1>1, <2>1 DEF Dated, LotsInOrder
        <5>3. lots[l].acquired + Settlement[e] <= day
          BY <3>5, <3>6
        <5> QED
          BY <4>1, <5>1, <5>2, <5>3
      <4>3. CASE lots[k].qty = 0
        <5>1. take[k] = 0
          BY <3>1, <4>3 DEF Fifo, Sellable, LotsOf
        <5> QED
          BY <3>2, <4>3, <5>1
      <4>4. CASE lots[k].qty # 0
        <5>1. k \in Sellable(e)
          BY <2>1, <3>7, <4>2, <4>4 DEF Dated, Sellable, LotsOf
        <5>2. take[k] = lots[k].qty
          BY <3>1, <3>3, <3>7, <5>1 DEF Fifo
        <5>3. lots[k].qty \in Nat /\ "qty" \in DOMAIN lots[k] /\ take[k] # 0
          BY <2>1, <4>4, <5>2 DEF Dated
        <5>4. lots'[k] = [lots[k] EXCEPT !.qty = @ - take[k], !.cost = @ - CostOf(k, take[k])]
          BY <3>2, <5>3
        <5>5. lots'[k].qty = lots[k].qty - take[k]
          BY <5>3, <5>4
        <5> QED
          BY <5>2, <5>3, <5>5
      <4> QED
        BY <4>3, <4>4
    <3> QED
      BY <3>5, <3>6, <3>7
  <2> QED
    BY <2>5, <2>6, <2>7
<1>2. LotsInOrder /\ MatchesEtfs /\ [Next]_vars =>
        [\A l \in Rows : pc = "match" /\ lots'[l].qty < lots[l].qty =>
           /\ lots[l].acquired + Settlement[lots[l].etf] <= day
           /\ \A k \in Rows : lots[k].etf = lots[l].etf /\ k < l => lots'[k].qty = 0]_vars
  BY <1>1
<1> QED
  BY <1>2, LotsInOrderHolds, MatchesEtfsHolds, PTL DEF Spec, LockedTillNextDay

----------------------------------------------------------------------------
USE DEF Total

(* Before the first order there is nothing but the capital, and before a   *)
(* dividend is recorded nothing is owed.                                   *)
Untraded ==
  /\ pc # "match" /\ lots = <<>> /\ cash = capital
  /\ \A e \in Etfs : ~orders[e].open /\ \A x \in 1 .. Days : held[e][x] = 0
  /\ \A d \in Dividends : owed[d] = 0
Started ==
  /\ traded \/ Untraded
  /\ \A d \in Dividends : status[d] \in {"unknown", "pending"} => owed[d] = 0
  /\ \A e \in Etfs : price[e] \in Prices[e]

LEMMA StartedHolds == Spec => []Started
<1>1. Init => Started
  <2> SUFFICES ASSUME Init PROVE Started
    OBVIOUS
  <2>1. Untraded
    BY DEF Init, Untraded, NoOrder
  <2>2. \A e \in Etfs : price[e] \in Prices[e]
    BY LedgerAssumption DEF Init
  <2> QED
    BY <2>1, <2>2 DEF Init, Started
<1>2. Started /\ Typed /\ LeftToDo /\ [Next]_vars => Started'
  <2> SUFFICES ASSUME Started, Typed, LeftToDo, [Next]_vars PROVE Started'
    OBVIOUS
  <2>1. ASSUME NEW e \in Etfs, NEW side \in Side, NEW q \in 1 .. MaxShares, Submit(e, side, q)
        PROVE  Started'
    BY <2>1 DEF Submit, market, corporate, Started
  <2>2. ASSUME NEW e \in Etfs, Withdraw(e) PROVE Started'
    <3>1. traded
      BY <2>2 DEF Withdraw, Started, Untraded
    <3> QED
      BY <2>2, <3>1 DEF Withdraw, market, corporate, Started
  <2>3. ASSUME NEW c \in Capitals, SetCapital(c) PROVE Started'
    <3>1. cash' = capital' /\ Untraded
      BY <2>3, LedgerAssumption DEF SetCapital, Started, Untraded, Typed, TypeOK
    <3> QED
      BY <2>3, <3>1 DEF SetCapital, market, corporate, Started, Untraded
  <2>4. CASE PassTime
    BY <2>4 DEF PassTime, books, Started, Untraded
  <2>5. CASE Collect
    <3>1. /\ UNCHANGED <<owed, traded, lots, held, cash, capital>> /\ pc' # "match"
          /\ \A a \in Actions :
               status'[a] = status[a] \/ (status[a] = "unknown" /\ status'[a] = "pending")
      BY <2>5, CollectSays
    <3>2. \A d \in Dividends : status'[d] \in {"unknown", "pending"} => owed'[d] = 0
      BY <3>1 DEF Started, Actions
    <3>3. /\ \A e \in Etfs : price'[e] \in Prices[e]
          /\ \A e \in Etfs : ~orders[e].open => ~orders'[e].open
      <4>1. CASE UNCHANGED <<market, corporate, books>>
        BY <4>1 DEF market, books, Started
      <4>2. ASSUME NEW e \in Etfs, NewQuote(e)
            PROVE  /\ \A f \in Etfs : price'[f] \in Prices[f]
                   /\ \A f \in Etfs : ~orders[f].open => ~orders'[f].open
        <5>1. PICK p \in Prices[e] : price' = [price EXCEPT ![e] = p]
          BY <4>2 DEF NewQuote
        <5>2. orders' = [orders EXCEPT ![e] =
                           [orders[e] EXCEPT !.seen = orders[e].seen /\ ~orders[e].open]]
          BY <4>2 DEF NewQuote, Typed, TypeOK
        <5>3. \A f \in Etfs : orders'[f].open = orders[f].open
          BY <5>2 DEF Typed, TypeOK, OrderRow
        <5>4. \A f \in Etfs : price'[f] \in Prices[f]
          BY <5>1 DEF Started, Typed, TypeOK
        <5> QED
          BY <5>3, <5>4
      <4>3. ASSUME NEW e \in Etfs, Verify(e) PROVE UNCHANGED <<price, orders>>
        BY <4>3 DEF Verify, market, books
      <4> QED
        BY <2>5, <4>1, <4>2, <4>3 DEF Collect, Started
    <3> QED
      BY <3>1, <3>2, <3>3 DEF Started, Untraded
  <2>6. CASE ApplyOne
    <3>1. PICK a \in todo : \/ a \in Dividends /\ ApplyDividend(a)
                            \/ a \in Splits /\ ApplySplit(a) /\ UNCHANGED <<owed, cash>>
      BY <2>6 DEF ApplyOne
    <3>2. /\ UNCHANGED <<day, capital, traded, price>> /\ pc' = "apply"
          /\ status[a] \notin {"unknown", "paid", "applied"}
      BY <2>6 DEF ApplyOne, clock, market, LeftToDo
    <3>3. ASSUME NEW f \in Etfs, orders' = Ended(f) PROVE \A e \in Etfs : ~orders[e].open => ~orders'[e].open
      BY <3>3 DEF Ended, NoOrder, Typed, TypeOK
    <3>4. CASE a \in Dividends /\ ApplyDividend(a)
      <4>1. PICK b \in Int, st \in {"pending", "recorded", "entitled", "paid"} :
              /\ b = IF Recorded(a) THEN Entitlement(a) ELSE owed[a]
              /\ owed' = [owed EXCEPT ![a] = b] /\ status' = [status EXCEPT ![a] = st]
              /\ st = "pending" <=> status[a] = "pending" /\ ~Recorded(a)
              /\ cash' = cash + (IF st = "paid" THEN b ELSE 0) /\ UNCHANGED <<lots, held>>
        BY <3>2, <3>4, ApplyDividendSays
      <4>2. a \in Actions /\ a.etf \in Etfs /\ a.value \in Nat /\ a.record \in Nat \ {0}
        BY <3>4, LedgerAssumption DEF Actions
      <4>3. \A d \in Dividends : status'[d] \in {"unknown", "pending"} => owed'[d] = 0
        <5>1. st \in {"unknown", "pending"} => b = 0
          BY <3>4, <4>1 DEF Started
        <5> QED
          BY <3>4, <4>1, <5>1 DEF Started, Typed, TypeOK, Actions
      <4>4. Untraded => Untraded'
        <5> SUFFICES ASSUME Untraded PROVE Untraded'
          OBVIOUS
        <5>1. b = 0
          <6>1. CASE Recorded(a)
            <7>1. a.record \in 1 .. Days
              <8>1. day \in 1 .. Days /\ Days \in Nat
                BY LedgerAssumption DEF Typed, TypeOK
              <8>2. a.record <= day
                BY <4>2, <6>1, <8>1 DEF Recorded
              <8> QED
                BY <4>2, <8>1, <8>2
            <7>2. held[a.etf][a.record] = 0
              BY <4>2, <7>1 DEF Untraded
            <7> QED
              BY <4>1, <4>2, <6>1, <7>2 DEF Entitlement
          <6>2. CASE ~Recorded(a)
            BY <3>4, <4>1, <6>2 DEF Untraded
          <6> QED
            BY <6>1, <6>2
        <5>2. \A d \in Dividends : owed'[d] = 0
          BY <4>1, <5>1 DEF Untraded, Typed, TypeOK
        <5>3. cash' = capital'
          BY <3>2, <4>1, <5>1 DEF Untraded, Typed, TypeOK
        <5>4. \A e \in Etfs : ~orders'[e].open
          <6>1. orders' = orders \/ orders' = Ended(a.etf)
            BY <3>4 DEF ApplyDividend
          <6> QED
            BY <3>3, <4>2, <6>1 DEF Untraded
        <5> QED
          BY <3>2, <4>1, <5>2, <5>3, <5>4 DEF Untraded
      <4> QED
        BY <3>2, <4>3, <4>4 DEF Started
    <3>5. CASE a \in Splits /\ ApplySplit(a) /\ UNCHANGED <<owed, cash>>
      <4>1. a.etf \in Etfs
        BY <3>5, LedgerAssumption
      <4>2. Untraded => Untraded'
        <5> SUFFICES ASSUME Untraded PROVE Untraded'
          OBVIOUS
        <5>1. Rows = {} /\ OldLots(a) = {}
          BY DEF Untraded, Rows, OldLots
        <5>2. Split(a) = <<>> /\ Added(a) = 0
          <6>1. Split(a) = <<>>
            BY <5>1 DEF Split
          <6>2. Added(a) = 0
            BY <5>1, SumOfEmpty DEF Added
          <6> QED
            BY <6>1, <6>2
        <5>3. lots' = <<>> /\ \A e \in Etfs, x \in 1 .. Days : held'[e][x] = 0
          <6>1. CASE UNCHANGED <<lots, held>>
            BY <6>1 DEF Untraded
          <6>2. CASE /\ lots' = Split(a) /\ \A l \in OldLots(a) : (lots[l].qty * a.num) % a.den = 0
                     /\ held' = [held EXCEPT ![a.etf] =
                          [d \in 1 .. Days |-> IF d >= a.ex THEN held[a.etf][d] + Added(a)
                                               ELSE held[a.etf][d]]]
            <7>1. \A e \in Etfs, x \in 1 .. Days :
                    held'[e][x] = held[e][x] + (IF e = a.etf /\ a.ex <= x THEN Added(a) ELSE 0)
              BY <3>5, <6>2, SplitSays
            <7> QED
              BY <5>2, <6>2, <7>1 DEF Untraded
          <6> QED
            BY <3>5, <6>1, <6>2, ApplySplitSays
        <5>4. \A e \in Etfs : ~orders'[e].open
          <6>1. orders' = orders \/ orders' = Ended(a.etf)
            BY <3>5 DEF ApplySplit
          <6> QED
            BY <3>3, <4>1, <6>1 DEF Untraded
        <5> QED
          BY <3>2, <3>5, <5>3, <5>4 DEF Untraded
      <4>3. \A d \in Dividends : status'[d] = status[d]
        <5>1. status' = status \/ status' = [status EXCEPT ![a] = "applied"]
          BY <3>5, ApplySplitSays
        <5>2. a \notin Dividends
          BY <3>5, LedgerAssumption
        <5> QED
          BY <5>1, <5>2 DEF Typed, TypeOK, Actions
      <4> QED
        BY <3>2, <3>5, <4>2, <4>3 DEF Started
    <3> QED
      BY <3>1, <3>4, <3>5
  <2>7. CASE MatchStart
    <3>1. Untraded => pc' # "match"
      BY <2>7 DEF MatchStart, Go, Selected, OpenOrders, Untraded
    <3> QED
      BY <2>7, <3>1 DEF MatchStart, market, corporate, books, Started, Untraded
  <2>8. CASE MatchOne
    <3>1. traded /\ traded' /\ UNCHANGED <<owed, status, price>>
      BY <2>8 DEF MatchOne, corporate, Started, Untraded
    <3> QED
      BY <3>1 DEF Started
  <2>9. CASE Abort
    BY <2>9 DEF Abort, market, corporate, books, Started, Untraded
  <2>10. CASE UNCHANGED vars
    BY <2>10 DEF vars, market, corporate, books, Started, Untraded
  <2> QED
    BY <2>1, <2>2, <2>3, <2>4, <2>5, <2>6, <2>7, <2>8, <2>9, <2>10 DEF Next
<1> QED
  BY <1>1, <1>2, TypedHolds, LeftToDoHolds, PTL DEF Spec

----------------------------------------------------------------------------
(* A split that is not applied yet is younger than every lot of its ETF:   *)
(* a purchase on its ex-day or later comes after it.                       *)
LotsOld ==
  \A s \in Splits : status[s] # "applied" =>
    \A l \in Its(lots, s.etf) : lots[l].acquired < s.ex

LEMMA LotsOldHolds == Spec => []LotsOld
<1>1. Init => LotsOld
  BY DEF Init, LotsOld, Its, RowsOf
<1>2. ASSUME LotsOld, \A s \in Splits : status[s] = "applied" => status'[s] = "applied",
             \A f : Its(lots', f) \subseteq Its(lots, f),
             \A l \in Rows : lots'[l].acquired = lots[l].acquired
      PROVE  LotsOld'
  <2>1. \A f : Its(lots, f) \subseteq Rows
    BY DEF Its, RowsOf, Rows
  <2> QED
    BY <1>2, <2>1 DEF LotsOld
<1>3. LotsOld /\ Typed /\ LeftToDo /\ SplitsKnown /\ [Next]_vars => LotsOld'
  <2> SUFFICES ASSUME LotsOld, Typed, LeftToDo, SplitsKnown, [Next]_vars PROVE LotsOld'
    OBVIOUS
  <2>1. CASE UNCHANGED lots /\ \A s \in Splits : status[s] = "applied" => status'[s] = "applied"
    BY <1>2, <2>1
  <2>2. CASE Collect
    <3>1. /\ UNCHANGED lots
          /\ \A a \in Actions :
               status'[a] = status[a] \/ (status[a] = "unknown" /\ status'[a] = "pending")
      BY <2>2, CollectSays
    <3> QED
      BY <2>1, <3>1 DEF Actions
  <2>3. CASE ApplyOne
    <3>1. PICK a \in todo : \/ a \in Dividends /\ ApplyDividend(a)
                            \/ a \in Splits /\ ApplySplit(a)
      BY <2>3 DEF ApplyOne
    <3>2. status[a] \notin {"unknown", "paid", "applied"}
      BY <2>3 DEF ApplyOne, LeftToDo
    <3>3. CASE a \in Dividends /\ ApplyDividend(a)
      <4>1. PICK st \in {"pending", "recorded", "entitled", "paid"} :
              status' = [status EXCEPT ![a] = st] /\ UNCHANGED lots
        BY <3>2, <3>3, ApplyDividendSays
      <4>2. a \notin Splits
        BY <3>3, LedgerAssumption
      <4> QED
        BY <2>1, <4>1, <4>2 DEF Typed, TypeOK, Actions
    <3>4. CASE a \in Splits /\ ApplySplit(a)
      <4>1. CASE UNCHANGED <<lots, status>>
        BY <2>1, <4>1
      <4>2. CASE /\ lots' = Split(a) /\ \A l \in OldLots(a) : (lots[l].qty * a.num) % a.den = 0
                 /\ status' = [status EXCEPT ![a] = "applied"]
        <5>1. \A f : /\ Its(Split(a), f) = Its(lots, f)
                     /\ \A l \in Rows : Split(a)[l].acquired = lots[l].acquired
          BY <3>4, <4>2, LotsScaled DEF Typed, TypeOK
        <5>2. \A s \in Splits : status[s] = "applied" => status'[s] = "applied"
          BY <4>2 DEF Typed, TypeOK, Actions
        <5> QED
          BY <1>2, <4>2, <5>1, <5>2
      <4> QED
        BY <3>4, <4>1, <4>2, ApplySplitSays
    <3> QED
      BY <3>1, <3>3, <3>4
  <2>4. CASE MatchOne
    <3>1. PICK e \in Etfs :
            \/ UNCHANGED lots
            \/ /\ ~Blocked(e)
               /\ \E q \in 1 .. MaxShares : Filled(e, q) /\ (FillSale(e, q) \/ FillBuy(e, q))
      BY <2>4, MatchOneSays
    <3>2. UNCHANGED <<status, day>> /\ pc = "match"
      BY <2>4 DEF MatchOne, clock, corporate
    <3>3. ASSUME NEW q \in 1 .. MaxShares, Filled(e, q), FillSale(e, q) PROVE LotsOld'
      <4>1. /\ \A f : Its(lots', f) \subseteq Its(lots, f)
            /\ \A l \in Rows : lots'[l].acquired = lots[l].acquired
        BY <3>3, FillSaleSays
      <4> QED
        BY <1>2, <3>2, <4>1
    <3>4. ASSUME NEW q \in 1 .. MaxShares, Filled(e, q), ~Blocked(e), FillBuy(e, q)
          PROVE  LotsOld'
      <4> DEFINE row == [etf |-> e, acquired |-> day, avail |-> day + Settlement[e],
                         qty |-> q, cost |-> price[e] * q + FeeOf(e, q)]
      <4>1. lots' = Append(lots, row) /\ lots' \in Seq(LotRow) /\ lots \in Seq(LotRow)
        BY <3>4, FillBuyTyped DEF FillBuy, Typed, TypeOK
      <4>2. row.etf = e /\ row.acquired = day /\ row.qty = q /\ row.qty > 0 /\ row \in LotRow
        <5>1. q > 0 /\ q \in Nat /\ price[e] * q + FeeOf(e, q) \in Nat
          BY <3>4, FilledFits
        <5>2. day + Settlement[e] \in Nat /\ day \in 1 .. Days
          <6>1. Settlement[e] \in {0, 1} /\ Days \in Nat /\ day \in 1 .. Days
            BY LedgerAssumption DEF Typed, TypeOK
          <6> QED
            BY <6>1
        <5> DEFINE c == price[e] * q + FeeOf(e, q)
        <5>3. c \in Nat
          BY <5>1
        <5> HIDE DEF c
        <5>4. [etf |-> e, acquired |-> day, avail |-> day + Settlement[e],
               qty |-> q, cost |-> c] \in LotRow
          BY <5>1, <5>2, <5>3 DEF LotRow
        <5> QED
          BY <5>1, <5>4 DEF c
      <4> HIDE DEF row
      <4>3. \A f : Its(lots', f) = Its(lots, f) \cup (IF row.etf = f THEN {Len(lots) + 1} ELSE {})
        BY <4>1, <4>2, LotAdded
      <4>4. /\ \A l \in Rows : lots'[l] = lots[l]
            /\ lots'[Len(lots) + 1] = row
        BY <4>1, <4>2, AppendProperties DEF Rows
      <4>5. \A f : Its(lots, f) \subseteq Rows
        BY DEF Its, RowsOf, Rows
      <4>6. checked[e] /\ ~frozen[e]
        BY <3>4 DEF Blocked
      <4>7. ASSUME NEW s \in Splits, status'[s] # "applied", NEW l \in Its(lots', s.etf)
            PROVE  lots'[l].acquired < s.ex
        <5>1. CASE l \in Its(lots, s.etf)
          BY <3>2, <4>4, <4>5, <4>7, <5>1 DEF LotsOld
        <5>2. CASE l \notin Its(lots, s.etf)
          <6>1. s.etf = e /\ l = Len(lots) + 1 /\ lots'[l].acquired = day
            BY <4>2, <4>3, <4>4, <4>7, <5>2
          <6>2. ~InForce(s)
            BY <3>2 DEF SplitsKnown
          <6>3. ~(s.ex <= day)
            BY <3>2, <4>6, <4>7, <6>1, <6>2 DEF InForce
          <6>4. s.ex \in Int /\ day \in Int
            BY LedgerAssumption DEF Typed, TypeOK
          <6> QED
            BY <6>1, <6>3, <6>4
        <5> QED
          BY <5>1, <5>2
      <4> QED
        BY <4>7 DEF LotsOld
    <3> QED
      BY <2>1, <3>1, <3>2, <3>3, <3>4
  <2> QED
    BY <2>1, <2>2, <2>3, <2>4
    DEF Next, Submit, Withdraw, SetCapital, PassTime, MatchStart, Abort, vars, corporate, books
<1> QED
  BY <1>1, <1>3, TypedHolds, LeftToDoHolds, SplitsKnownHolds, PTL DEF Spec

----------------------------------------------------------------------------
(* The account of the documents, read off the tables.                      *)
SharesOf(ls) == [e \in Etfs |-> HeldIn(ls, e)]
DoneIn(st) == {a \in Actions : st[a] \in {"paid", "applied"}}
LEMMA TheAccount ==
  /\ [e \in Etfs |-> Held(e)] = SharesOf(lots)
  /\ [e \in Etfs |-> Held(e)]' = SharesOf(lots')
  /\ {a \in Actions : status[a] \in {"paid", "applied"}} = DoneIn(status)
  /\ {a \in Actions : status[a] \in {"paid", "applied"}}' = DoneIn(status')
BY TheTable, TheTableAfter DEF SharesOf, DoneIn

LEMMA AccountRests ==
  ASSUME UNCHANGED <<cash, traded, owed>>, SharesOf(lots') = SharesOf(lots),
         DoneIn(status') = DoneIn(status)
  PROVE  UNCHANGED Promise!vars
BY TheAccount DEF Promise!vars

LEMMA FillIsTrade ==
  ASSUME Typed, Typed', Started, pc = "match", NEW e \in Etfs, NEW q \in 1 .. MaxShares,
         Filled(e, q), UNCHANGED <<status, owed, traded>>,
         \/ Sale(orders[e]) /\ FillSale(e, q)
         \/ ~Sale(orders[e]) /\ FillBuy(e, q)
  PROVE  Promise!Next
<1>1. /\ q \in Nat \ {0} /\ FeeOf(e, q) \in Nat /\ price[e] * q \in Nat
      /\ lots \in Seq(LotRow) /\ lots' \in Seq(LotRow) /\ cash \in Int
  BY FilledFits DEF Typed, TypeOK
<1>2. traded
  BY DEF Started, Untraded
<1>3. ASSUME NEW m \in Int, NEW c \in Int, NEW g \in Int, FillOf(e, m, c, g)
      PROVE  /\ SharesOf(lots') = [SharesOf(lots) EXCEPT ![e] = SharesOf(lots)[e] + m]
             /\ SharesOf(lots')[e] - SharesOf(lots)[e] = m
             /\ SharesOf(lots)[e] \in Nat /\ SharesOf(lots)[e] + m \in Nat
             /\ cash' = cash + g
  <2>1. \A f \in Etfs : /\ HeldIn(lots, f) \in Nat /\ HeldIn(lots', f) \in Nat
                        /\ HeldIn(lots', f) = HeldIn(lots, f) + (IF f = e THEN m ELSE 0)
    BY <1>1, <1>3, OwnRows DEF FillOf
  <2>2. SharesOf(lots)[e] = HeldIn(lots, e) /\ SharesOf(lots')[e] = HeldIn(lots, e) + m
    BY <2>1 DEF SharesOf
  <2>3. SharesOf(lots') = [SharesOf(lots) EXCEPT ![e] = SharesOf(lots)[e] + m]
    <3>1. \A f \in Etfs : f # e => HeldIn(lots', f) = HeldIn(lots, f)
      BY <2>1
    <3>2. HeldIn(lots', e) = HeldIn(lots, e) + m
      BY <2>1
    <3>3. [f \in Etfs |-> HeldIn(lots', f)] =
            [[f \in Etfs |-> HeldIn(lots, f)] EXCEPT ![e] = HeldIn(lots, e) + m]
      BY <3>1, <3>2
    <3>4. SharesOf(lots)[e] = HeldIn(lots, e)
      BY DEF SharesOf
    <3> QED
      BY <3>3, <3>4 DEF SharesOf
  <2>4. cash' = cash + g
    BY <1>3 DEF FillOf
  <2> QED
    BY <2>1, <2>2, <2>3, <2>4
<1>4. DoneIn(status') = DoneIn(status)
  OBVIOUS
<1>5. CASE ~Sale(orders[e]) /\ FillBuy(e, q)
  <2> DEFINE c == price[e] * q + FeeOf(e, q)
  <2>1. FillOf(e, q, c, -c)
    BY <1>5, FillBuySays
  <2>2. c \in Nat /\ c > 0 /\ c <= cash
    <3>1. price[e] \in Nat \ {0}
      BY LedgerAssumption DEF Started
    <3>2. price[e] * q \in Nat \ {0}
      BY <1>1, <3>1, ProductIsPositive
    <3>3. c <= cash
      BY <1>5 DEF Filled, Fits, Affordable
    <3> QED
      BY <1>1, <3>2, <3>3
  <2> HIDE DEF c
  <2>3. -c \in Int /\ q \in Int
    BY <1>1, <2>2
  <2>4. /\ SharesOf(lots') = [SharesOf(lots) EXCEPT ![e] = SharesOf(lots)[e] + q]
        /\ SharesOf(lots')[e] - SharesOf(lots)[e] = q
        /\ cash' = cash + (-c)
    BY <1>3, <2>1, <2>2, <2>3
  <2>5. cash' = cash - c /\ cash - cash' = c
    BY <1>1, <2>2, <2>4
  <2>6. Promise!Buy(e, q, c)
    BY <1>1, <1>2, <1>4, <2>2, <2>4, <2>5, TheAccount DEF Promise!Buy
  <2>7. Promise!Buy(e, SharesOf(lots')[e] - SharesOf(lots)[e], cash - cash')
    BY <2>4, <2>5, <2>6
  <2> QED
    BY <2>7, TheAccount DEF Promise!Next
<1>6. CASE Sale(orders[e]) /\ FillSale(e, q)
  <2> DEFINE g == price[e] * q - FeeOf(e, q)
  <2>1. PICK c \in Int : FillOf(e, -q, c, g)
    BY <1>6, FillSaleSays
  <2>2. g \in Int /\ -q \in Int
    BY <1>1
  <2> HIDE DEF g
  <2>3. /\ SharesOf(lots') = [SharesOf(lots) EXCEPT ![e] = SharesOf(lots)[e] + (-q)]
        /\ SharesOf(lots')[e] - SharesOf(lots)[e] = -q
        /\ SharesOf(lots)[e] \in Nat /\ SharesOf(lots)[e] + (-q) \in Nat
        /\ cash' = cash + g
    BY <1>3, <2>1, <2>2
  <2>4. cash' - cash = g /\ q <= SharesOf(lots)[e] /\ -(-q) = q
        /\ SharesOf(lots)[e] + (-q) = SharesOf(lots)[e] - q
    <3> DEFINE h == SharesOf(lots)[e]
    <3>1. h \in Nat /\ h + (-q) \in Nat /\ q \in Nat
      BY <1>1, <2>3
    <3>2. cash \in Int /\ g \in Int /\ cash' = cash + g
      BY <1>1, <2>2, <2>3
    <3> HIDE DEF h
    <3>3. q <= h /\ -(-q) = q /\ h + (-q) = h - q
      BY <3>1
    <3>4. cash' - cash = g
      BY <3>2
    <3> QED
      BY <3>3, <3>4 DEF h
  <2>5. SharesOf(lots') = [SharesOf(lots) EXCEPT ![e] = SharesOf(lots)[e] - q]
    BY <2>3, <2>4
  <2>6. Promise!Sell(e, q, g)
    <3>1. q > 0 /\ q <= SharesOf(lots)[e] /\ cash' = cash + g
      BY <1>1, <2>3, <2>4
    <3>2. traded /\ UNCHANGED <<traded, owed>> /\ DoneIn(status') = DoneIn(status)
      BY <1>2, <1>4
    <3> QED
      BY <2>5, <3>1, <3>2, TheAccount DEF Promise!Sell
  <2>7. Promise!Sell(e, -(SharesOf(lots')[e] - SharesOf(lots)[e]), cash' - cash)
    BY <2>3, <2>4, <2>6
  <2> QED
    BY <2>7, TheAccount DEF Promise!Next
<1> QED
  BY <1>5, <1>6

LEMMA MultipleDivides ==
  ASSUME NEW k \in Nat, NEW b \in Nat \ {0}
  PROVE  (k * b) % b = 0 /\ (k * b) \div b = k
OBVIOUS

LEMMA SplitIsWhole ==
  ASSUME Typed, LotsOld, NEW s \in Splits, status[s] # "applied", status[s] # "paid",
         \A l \in OldLots(s) : (lots[l].qty * s.num) % s.den = 0,
         lots' = Split(s)
  PROVE  /\ (SharesOf(lots)[s.etf] * s.num) % s.den = 0
         /\ SharesOf(lots') =
              [SharesOf(lots) EXCEPT ![s.etf] = (SharesOf(lots)[s.etf] * s.num) \div s.den]
<1> DEFINE h == HeldIn(lots, s.etf)
           k == HeldIn(Split(s), s.etf)
           a == s.num
           b == s.den
<1>1. s.etf \in Etfs /\ a \in Nat \ {0} /\ b \in Nat \ {0}
  BY LedgerAssumption
<1>2. Its(lots, s.etf) \subseteq OldLots(s)
  <2>1. \A l \in Its(lots, s.etf) : lots[l].acquired < s.ex
    BY DEF LotsOld
  <2> QED
    BY <2>1 DEF Its, OldLots, Rows, RowsOf
<1>3. /\ \A f : HeldIn(Split(s), f) = HeldIn(lots, f) + (IF f = s.etf THEN Added(s) ELSE 0)
      /\ b * k = a * h /\ Split(s) \in Seq(LotRow)
  BY <1>2, LotsScaled DEF Typed, TypeOK
<1>4. h \in Nat /\ k \in Nat
  BY <1>3, OwnRows DEF Typed, TypeOK
<1>5. \A f \in Etfs : HeldIn(lots, f) \in Nat
  BY OwnRows DEF Typed, TypeOK
<1>6. SharesOf(lots') = [SharesOf(lots) EXCEPT ![s.etf] = k]
  <2>1. \A f \in Etfs : f # s.etf => HeldIn(Split(s), f) = HeldIn(lots, f)
    BY <1>3, <1>5
  <2> QED
    BY <1>1, <2>1 DEF SharesOf
<1>7. SharesOf(lots)[s.etf] = h
  BY <1>1 DEF SharesOf
<1> HIDE DEF h, k, a, b
<1>8. (h * a) % b = 0 /\ (h * a) \div b = k
  <2>1. h * a = k * b
    BY <1>1, <1>3, <1>4
  <2>2. (k * b) % b = 0 /\ (k * b) \div b = k
    BY <1>1, <1>4, MultipleDivides
  <2> QED
    BY <2>1, <2>2
<1> QED
  BY <1>6, <1>7, <1>8 DEF a, b

(* The ledger implements the account of docs/strategy.md: every step of    *)
(* the tables is one step of it or none.  A fill is one purchase the cash  *)
(* pays for, fee included, or one sale of shares there are; a split        *)
(* rescales all the shares of its ETF, once, because every lot is older    *)
(* than it; a dividend is owed once and paid once.                         *)
THEOREM AccountImplemented == Spec => AccountKept
<1>1. Init => Promise!Init
  <2> SUFFICES ASSUME Init PROVE Promise!Init
    OBVIOUS
  <2>1. SharesOf(lots) = [e \in Etfs |-> 0]
    <3>1. \A e : Its(lots, e) = {}
      BY DEF Init, Its, RowsOf
    <3>2. \A e : HeldIn(lots, e) = 0
      BY <3>1, SumOfEmpty DEF HeldIn
    <3> QED
      BY <3>2 DEF SharesOf
  <2>2. DoneIn(status) = {} /\ cash \in Nat
    BY LedgerAssumption DEF Init, DoneIn
  <2> QED
    BY <2>1, <2>2, TheAccount DEF Init, Promise!Init
<1>2. Typed /\ Typed' /\ LeftToDo /\ Started /\ LotsOld /\ [Next]_vars
        => [Promise!Next]_(Promise!vars)
  <2> SUFFICES ASSUME Typed, Typed', LeftToDo, Started, LotsOld, [Next]_vars
               PROVE  [Promise!Next]_(Promise!vars)
    OBVIOUS
  <2>1. CASE UNCHANGED <<cash, traded, owed, lots, status>>
    BY <2>1, AccountRests
  <2>2. ASSUME NEW e \in Etfs, NEW side \in Side, NEW q \in 1 .. MaxShares, Submit(e, side, q)
        PROVE  [Promise!Next]_(Promise!vars)
    <3>1. UNCHANGED <<cash, owed, lots, status>> /\ traded' = TRUE
      BY <2>2 DEF Submit, corporate
    <3>2. CASE traded
      BY <2>1, <3>1, <3>2 DEF Typed, TypeOK
    <3>3. CASE ~traded
      <4>1. Promise!FirstOrder
        BY <3>1, <3>3, TheAccount DEF Promise!FirstOrder
      <4> QED
        BY <4>1 DEF Promise!Next
    <3> QED
      BY <3>2, <3>3
  <2>3. ASSUME NEW c \in Capitals, SetCapital(c) PROVE [Promise!Next]_(Promise!vars)
    <3>1. /\ ~traded /\ UNCHANGED <<traded, owed, lots, status>> /\ cash = capital
          /\ cash' = cash + (c - capital)
      BY <2>3 DEF SetCapital, corporate, Started, Untraded
    <3>2. cash' = c /\ c \in Nat
      BY <3>1, LedgerAssumption DEF Typed, TypeOK
    <3>3. Promise!Capital
      BY <3>1, <3>2, TheAccount DEF Promise!Capital
    <3> QED
      BY <3>3 DEF Promise!Next
  <2>4. CASE Collect
    <3>1. /\ UNCHANGED <<cash, traded, owed, lots>>
          /\ \A a \in Actions :
               status'[a] = status[a] \/ (status[a] = "unknown" /\ status'[a] = "pending")
      BY <2>4, CollectSays
    <3>2. DoneIn(status') = DoneIn(status)
      BY <3>1 DEF DoneIn
    <3> QED
      BY <3>1, <3>2, AccountRests
  <2>5. CASE ApplyOne
    <3>1. PICK a \in todo : \/ a \in Dividends /\ ApplyDividend(a)
                            \/ a \in Splits /\ ApplySplit(a) /\ UNCHANGED <<owed, cash>>
      BY <2>5 DEF ApplyOne
    <3>2. UNCHANGED traded /\ status[a] \notin {"unknown", "paid", "applied"}
      BY <2>5 DEF ApplyOne, LeftToDo
    <3>3. CASE a \in Dividends /\ ApplyDividend(a)
      <4>1. PICK b \in Int, st \in {"pending", "recorded", "entitled", "paid"} :
              /\ b = IF Recorded(a) THEN Entitlement(a) ELSE owed[a]
              /\ owed' = [owed EXCEPT ![a] = b] /\ status' = [status EXCEPT ![a] = st]
              /\ cash' = cash + (IF st = "paid" THEN b ELSE 0) /\ UNCHANGED lots
        BY <3>2, <3>3, ApplyDividendSays
      <4>2. a \in Actions /\ a \notin DoneIn(status) /\ SharesOf(lots') = SharesOf(lots)
        BY <3>2, <3>3, <4>1 DEF Actions, DoneIn
      <4>3. owed'[a] = b /\ (b = owed[a] => owed' = owed)
        BY <3>3, <4>1 DEF Typed, TypeOK
      <4>4. owed[a] = 0 \/ b = owed[a]
        BY <3>3, <4>1 DEF Recorded, Started
      <4>5. DoneIn(status') = IF st = "paid" THEN DoneIn(status) \cup {a} ELSE DoneIn(status)
        BY <4>1, <4>2 DEF DoneIn, Typed, TypeOK
      <4>6. CASE st = "paid"
        <5>1. Promise!Pay(a)
          BY <3>2, <4>1, <4>2, <4>3, <4>4, <4>5, <4>6, TheAccount DEF Promise!Pay, Promise!Owe
        <5> QED
          BY <3>3, <5>1 DEF Promise!Next
      <4>7. CASE st # "paid" /\ b # owed[a]
        <5>1. cash' = cash
          BY <4>1, <4>7 DEF Typed, TypeOK
        <5>2. Promise!Record(a)
          BY <3>2, <4>1, <4>2, <4>3, <4>4, <4>5, <4>7, <5>1, TheAccount
          DEF Promise!Record, Promise!Owe
        <5> QED
          BY <3>3, <5>2 DEF Promise!Next
      <4>8. CASE st # "paid" /\ b = owed[a]
        <5>1. cash' = cash
          BY <4>1, <4>8 DEF Typed, TypeOK
        <5> QED
          BY <3>2, <4>2, <4>3, <4>5, <4>8, <5>1, AccountRests
      <4> QED
        BY <4>6, <4>7, <4>8
    <3>4. CASE a \in Splits /\ ApplySplit(a) /\ UNCHANGED <<owed, cash>>
      <4>1. CASE UNCHANGED <<lots, status>>
        BY <2>1, <3>2, <3>4, <4>1
      <4>2. CASE /\ \A l \in OldLots(a) : (lots[l].qty * a.num) % a.den = 0
                 /\ lots' = Split(a) /\ status' = [status EXCEPT ![a] = "applied"]
        <5>1. /\ (SharesOf(lots)[a.etf] * a.num) % a.den = 0
              /\ SharesOf(lots') =
                   [SharesOf(lots) EXCEPT ![a.etf] = (SharesOf(lots)[a.etf] * a.num) \div a.den]
          BY <3>2, <3>4, <4>2, SplitIsWhole
        <5>2. a \in Actions /\ a \notin DoneIn(status)
          BY <3>2, <3>4 DEF Actions, DoneIn
        <5>3. DoneIn(status') = DoneIn(status) \cup {a}
          BY <4>2, <5>2 DEF DoneIn, Typed, TypeOK
        <5>4. Promise!Split(a)
          BY <3>2, <3>4, <5>1, <5>2, <5>3, TheAccount DEF Promise!Split
        <5> QED
          BY <3>4, <5>4 DEF Promise!Next
      <4> QED
        BY <3>4, <4>1, <4>2, ApplySplitSays
    <3> QED
      BY <3>1, <3>3, <3>4
  <2>6. CASE MatchOne
    <3>1. PICK e \in Etfs :
            \/ UNCHANGED <<lots, cash>>
            \/ \E q \in 1 .. MaxShares :
                 /\ Filled(e, q)
                 /\ \/ Sale(orders[e]) /\ FillSale(e, q)
                    \/ ~Sale(orders[e]) /\ FillBuy(e, q)
      BY <2>6, MatchOneSays
    <3>2. pc = "match" /\ UNCHANGED <<status, owed, traded>>
      BY <2>6 DEF MatchOne, corporate
    <3> QED
      BY <2>1, <3>1, <3>2, FillIsTrade
  <2> QED
    BY <2>1, <2>2, <2>3, <2>4, <2>5, <2>6
    DEF Next, Withdraw, PassTime, MatchStart, Abort, vars, corporate, books
<1> QED
  BY <1>1, <1>2, TypedHolds, LeftToDoHolds, StartedHolds, LotsOldHolds, PTL
  DEF Spec, AccountKept, Promise!Spec

----------------------------------------------------------------------------
(* The value of the positions, of any table of lots.                       *)
Worth(ls) == [e \in Etfs |-> HeldIn(ls, e) * price[e]]
HeldOf(ls) == {e \in Etfs : Its(ls, e) # {}}
LEMMA TheValue ==
  /\ \A e \in Etfs : Value(e) = Worth(lots)[e]
  /\ Positions = HeldOf(lots) /\ Market = Total(Worth(lots), HeldOf(lots))
  /\ UNCHANGED price =>
       /\ \A e \in Etfs : Value(e)' = Worth(lots')[e]
       /\ Positions' = HeldOf(lots') /\ Market' = Total(Worth(lots'), HeldOf(lots'))
<1>1. [e \in Etfs |-> Value(e)] = Worth(lots) /\ Positions = HeldOf(lots)
  BY TheTable DEF Value, Positions, HeldOf, Worth
<1>2. Positions' = HeldOf(lots')
  BY TheTableAfter DEF Positions, HeldOf
<1>3. ASSUME UNCHANGED price PROVE [e \in Etfs |-> Value(e)]' = Worth(lots')
  BY <1>3, TheTableAfter DEF Value, Worth
<1>4. \A e \in Etfs : Value(e) = Worth(lots)[e]
  BY TheTable DEF Value, Worth
<1>5. ASSUME UNCHANGED price, NEW e \in Etfs PROVE Value(e)' = Worth(lots')[e]
  BY <1>5, TheTableAfter DEF Value, Worth
<1> QED
  BY <1>1, <1>2, <1>3, <1>4, <1>5 DEF Market

LEMMA WorthOfAll ==
  ASSUME Typed, NEW ls \in Seq(LotRow)
  PROVE  /\ \A e \in Etfs : Worth(ls)[e] \in Nat
         /\ Total(Worth(ls), HeldOf(ls)) = Total(Worth(ls), Etfs)
         /\ Total(Worth(ls), Etfs) \in Nat /\ IsFiniteSet(HeldOf(ls))
<1>1. IsFiniteSet(Etfs) /\ IsFiniteSet(HeldOf(ls)) /\ HeldOf(ls) \in SUBSET Etfs
  BY LedgerAssumption, FS_Subset DEF HeldOf
<1>2. ASSUME NEW e \in Etfs
      PROVE  Worth(ls)[e] \in Nat /\ (e \notin HeldOf(ls) => Worth(ls)[e] = 0)
  <2>1. HeldIn(ls, e) \in Nat /\ price[e] \in Nat
    BY OwnRows, OrderType
  <2>2. Worth(ls)[e] = HeldIn(ls, e) * price[e] /\ Worth(ls)[e] \in Nat
    BY <2>1, ProductIsNat DEF Worth
  <2>3. ASSUME e \notin HeldOf(ls) PROVE HeldIn(ls, e) = 0
    <3>1. Its(ls, e) = {}
      BY <2>3 DEF HeldOf
    <3> QED
      BY <3>1, SumOfEmpty DEF HeldIn
  <2> QED
    BY <2>1, <2>2, <2>3
<1>3. Total(Worth(ls), Etfs) = Total(Worth(ls), HeldOf(ls))
  <2>1. /\ \A e \in Etfs : Worth(ls)[e] \in Int
        /\ \A e \in Etfs \ HeldOf(ls) : Worth(ls)[e] = 0
    BY <1>2
  <2> QED
    BY <1>1, <2>1, SumOfSupport
<1>4. Total(Worth(ls), Etfs) \in Nat
  BY <1>1, <1>2, SumIsNat
<1> QED
  BY <1>1, <1>2, <1>3, <1>4

(* What a purchase makes of the positions, their value and the NAV.        *)
LEMMA PurchaseSays ==
  ASSUME Typed, Typed', NEW e \in Etfs, NEW q \in 1 .. MaxShares, Filled(e, q), FillBuy(e, q),
         UNCHANGED <<price, status, owed>>
  PROVE  /\ Market' = Market + price[e] * q /\ Nav' = Nav - FeeOf(e, q)
         /\ Value(e)' = Value(e) + price[e] * q
         /\ Positions' = Positions \cup {e} /\ IsFiniteSet(Positions)
         /\ \A f \in Etfs : held[f] # held'[f] => f = e
         /\ Market \in Nat /\ Nav \in Int /\ Value(e) \in Nat
<1> DEFINE p == price[e]
           c == p * q + FeeOf(e, q)
           row == [etf |-> e, acquired |-> day, avail |-> day + Settlement[e],
                   qty |-> q, cost |-> c]
           V == Worth(lots)
           W == Worth(lots')
<1>1. /\ q \in Nat \ {0} /\ FeeOf(e, q) \in Nat /\ p * q \in Nat /\ p \in Nat
      /\ lots \in Seq(LotRow) /\ lots' \in Seq(LotRow) /\ cash \in Int
  BY FilledFits, OrderType DEF Typed, TypeOK
<1>2. FillOf(e, q, c, -c)
  BY FillBuySays
<1>3. \A f \in Etfs :
        /\ HeldIn(lots, f) \in Nat
        /\ HeldIn(lots', f) = HeldIn(lots, f) + (IF f = e THEN q ELSE 0)
  BY <1>1, <1>2, OwnRows DEF FillOf
<1>4. W[e] = V[e] + p * q /\ \A f \in Etfs \ {e} : W[f] = V[f]
  <2> DEFINE h == HeldIn(lots, e)
  <2>1. HeldIn(lots', e) = h + q /\ h \in Nat
    BY <1>3
  <2>2. W[e] = HeldIn(lots', e) * p /\ V[e] = h * p
    BY DEF Worth
  <2> HIDE DEF h, p
  <2>3. (h + q) * p = h * p + p * q
    BY <1>1, <2>1
  <2>4. ASSUME NEW f \in Etfs, f # e PROVE W[f] = V[f]
    <3>1. HeldIn(lots', f) = HeldIn(lots, f)
      BY <1>3, <2>4
    <3> QED
      BY <3>1 DEF Worth
  <2>5. W[e] = V[e] + p * q
    BY <2>1, <2>2, <2>3
  <2> QED
    BY <2>4, <2>5
<1>5. /\ \A f \in Etfs : V[f] \in Nat /\ W[f] \in Nat
      /\ Market = Total(V, Etfs) /\ Market' = Total(W, Etfs) /\ Market \in Nat
      /\ IsFiniteSet(Positions)
  <2>1. /\ \A f \in Etfs : V[f] \in Nat
        /\ Total(V, HeldOf(lots)) = Total(V, Etfs) /\ Total(V, Etfs) \in Nat
        /\ IsFiniteSet(HeldOf(lots))
    BY <1>1, WorthOfAll
  <2>2. /\ \A f \in Etfs : W[f] \in Nat
        /\ Total(W, HeldOf(lots')) = Total(W, Etfs)
    BY <1>1, WorthOfAll
  <2> QED
    BY <2>1, <2>2, TheValue
<1> HIDE DEF V, W, c
<1>6. Market' = Market + p * q
  <2>1. IsFiniteSet(Etfs) /\ \A f \in Etfs : V[f] \in Int /\ W[f] \in Int
    BY <1>5, LedgerAssumption
  <2>2. Total(W, Etfs) = Total(V, Etfs) + (W[e] - V[e])
    BY <1>4, <2>1, SumChangesBy
  <2> HIDE DEF p
  <2> QED
    BY <1>1, <1>4, <1>5, <2>1, <2>2
<1>7. Receivable' = Receivable /\ Receivable \in Int
  <2>1. With("entitled")' = With("entitled")
    BY DEF With
  <2>2. IsFiniteSet(With("entitled")) /\ With("entitled") \subseteq Dividends
    BY LedgerAssumption, FS_Subset DEF With
  <2>3. \A d \in With("entitled") : owed[d] \in Int
    BY <2>2 DEF Typed, TypeOK
  <2>4. Receivable \in Int
    BY <2>2, <2>3, SumIsInt DEF Receivable
  <2> QED
    BY <2>1, <2>4 DEF Receivable
<1>8. cash' = cash - (p * q + FeeOf(e, q))
  BY <1>1, <1>2 DEF FillOf, c
<1>9. Nav' = Nav - FeeOf(e, q) /\ Nav \in Int
  <2> DEFINE n == p * q
             x == FeeOf(e, q)
             m == Market
  <2>1. n \in Nat /\ x \in Nat /\ m \in Nat
    BY <1>1, <1>5
  <2>2. Market' = m + n /\ cash' = cash - (n + x)
    BY <1>6, <1>8
  <2>3. Nav' = (cash - (n + x)) + (m + n) + Receivable /\ Nav = cash + m + Receivable
    BY <1>7, <2>2 DEF Nav
  <2> HIDE DEF n, x, m
  <2>4. Nav' = Nav - x /\ Nav \in Int
    BY <1>1, <1>7, <2>1, <2>3
  <2> QED
    BY <2>4 DEF x
<1>10. Value(e)' = Value(e) + p * q /\ Value(e) \in Nat
  BY <1>4, <1>5, TheValue DEF V, W
<1>11. Positions' = Positions \cup {e}
  <2>1. row \in LotRow /\ row.etf = e /\ row.qty = q /\ row.qty > 0
    <3>1. day + Settlement[e] \in Nat /\ day \in 1 .. Days
      <4>1. Settlement[e] \in {0, 1} /\ Days \in Nat /\ day \in 1 .. Days
        BY LedgerAssumption DEF Typed, TypeOK
      <4> QED
        BY <4>1
    <3>2. c \in Nat
      BY <1>1 DEF c
    <3>3. row \in LotRow
      BY <1>1, <3>1, <3>2 DEF LotRow
    <3> QED
      BY <1>1, <3>3
  <2>2. lots' = Append(lots, row)
    BY DEF FillBuy, c
  <2> HIDE DEF row
  <2>3. \A f : Its(lots', f) = Its(lots, f) \cup (IF row.etf = f THEN {Len(lots) + 1} ELSE {})
    BY <1>1, <2>1, <2>2, LotAdded
  <2>4. \A f \in Etfs : Its(lots', f) # {} <=> (Its(lots, f) # {} \/ f = e)
    BY <2>1, <2>3
  <2>5. HeldOf(lots') = HeldOf(lots) \cup {e}
    BY <2>4 DEF HeldOf
  <2> QED
    BY <2>5, TheValue
<1>12. ASSUME NEW f \in Etfs, held[f] # held'[f] PROVE f = e
  <2> SUFFICES ASSUME f # e PROVE held'[f] = held[f]
    BY <1>12
  <2>1. held[f] \in [1 .. Days -> Int] /\ held'[f] \in [1 .. Days -> Int]
    BY DEF Typed
  <2>2. \A x \in 1 .. Days : held'[f][x] = held[f][x] + 0
    BY <1>2 DEF FillOf
  <2>3. \A x \in 1 .. Days : held'[f][x] = held[f][x]
    <3> SUFFICES ASSUME NEW x \in 1 .. Days PROVE held'[f][x] = held[f][x]
      OBVIOUS
    <3>1. held[f][x] \in Int
      BY <2>1
    <3> QED
      BY <2>2, <3>1
  <2> DEFINE a == held[f]
             b == held'[f]
  <2>4. /\ a \in [1 .. Days -> Int] /\ b \in [1 .. Days -> Int]
        /\ \A x \in 1 .. Days : b[x] = a[x]
    BY <2>1, <2>3
  <2> HIDE DEF a, b
  <2>5. a = b
    <3>1. a = [x \in 1 .. Days |-> a[x]] /\ b = [x \in 1 .. Days |-> b[x]]
      BY <2>4
    <3>2. [x \in 1 .. Days |-> a[x]] = [x \in 1 .. Days |-> b[x]]
      BY <2>4
    <3> QED
      BY <3>1, <3>2
  <2> QED
    BY <2>5 DEF a, b
<1> QED
  BY <1>5, <1>6, <1>9, <1>10, <1>11, <1>12

(* Every purchase of a match leaves the account within the limits of the   *)
(* value it then has, its own fee and the purchases before it counted, and *)
(* is paid from the cash there is; only a sale can make the cash negative. *)
THEOREM PurchasesKeepLimits == Spec => PurchasesWithinLimits
<1> DEFINE Fair ==
      /\ cash' < cash /\ cash' < 0 => Len(lots') = Len(lots)
      /\ Len(lots') > Len(lots) =>
           /\ Market' * Whole <= Nav' * ExposureParts
           /\ \A e \in Etfs : held[e] # held'[e] => Value(e)' * Whole <= Nav' * WeightParts
           /\ Cardinality(Positions') <= Most(MaxPositions, Cardinality(Positions))
<1>1. ASSUME Typed, Typed', [Next]_vars PROVE Fair \/ UNCHANGED vars
  <2>1. Len(lots) \in Nat
    BY <1>1, RowsAreLots DEF Typed, TypeOK
  <2>2. CASE Len(lots') = Len(lots)
    BY <2>1, <2>2
  <2>3. CASE MatchOne
    <3>1. PICK e \in Etfs :
            \/ UNCHANGED lots
            \/ /\ ~Blocked(e)
               /\ \E q \in 1 .. MaxShares :
                    /\ Filled(e, q)
                    /\ \/ Sale(orders[e]) /\ FillSale(e, q)
                       \/ ~Sale(orders[e]) /\ FillBuy(e, q)
      BY <1>1, <2>3, MatchOneSays
    <3>2. UNCHANGED <<price, status, owed>>
      BY <2>3 DEF MatchOne, corporate
    <3>3. ASSUME NEW q \in 1 .. MaxShares, Filled(e, q), FillSale(e, q) PROVE Fair
      <4>1. Len(lots') = Len(lots)
        BY <1>1, <3>3, FillSaleSays
      <4> QED
        BY <2>1, <4>1
    <3>4. ASSUME NEW q \in 1 .. MaxShares, Filled(e, q), ~Blocked(e), ~Sale(orders[e]), FillBuy(e, q)
          PROVE  Fair
      <4>1. /\ Market' = Market + price[e] * q /\ Nav' = Nav - FeeOf(e, q)
            /\ Value(e)' = Value(e) + price[e] * q
            /\ Positions' = Positions \cup {e} /\ IsFiniteSet(Positions)
            /\ \A f \in Etfs : held[f] # held'[f] => f = e
        BY <1>1, <3>2, <3>4, PurchaseSays
      <4>2. Affordable(e, q)
        BY <3>4 DEF Filled, Fits
      <4>3. cash' >= 0
        <5>1. cash' = cash - (price[e] * q + FeeOf(e, q))
          BY <3>4 DEF FillBuy
        <5>2. price[e] * q + FeeOf(e, q) <= cash /\ price[e] * q \in Nat /\ FeeOf(e, q) \in Nat
              /\ cash \in Int
          BY <1>1, <3>4, <4>2, FilledFits DEF Affordable, Typed, TypeOK
        <5> QED
          BY <5>1, <5>2
      <4>4. Market' * Whole <= Nav' * ExposureParts
        BY <4>1, <4>2 DEF Affordable, Within
      <4>5. Value(e)' * Whole <= Nav' * WeightParts
        BY <4>1, <4>2 DEF Affordable, Within
      <4>6. Cardinality(Positions') <= Most(MaxPositions, Cardinality(Positions))
        <5>1. Cardinality(Positions) \in Nat /\ MaxPositions \in Nat
          BY <4>1, FS_CardinalityType, LedgerAssumption
        <5>2. CASE e \in Positions
          <6>1. Positions' = Positions
            BY <4>1, <5>2
          <6> QED
            BY <5>1, <6>1 DEF Most
        <5>3. CASE e \notin Positions
          <6>1. Cardinality(Positions') = Cardinality(Positions) + 1
            BY <4>1, <5>3, FS_AddElement
          <6>2. orders[e].side = "buy"
            BY <3>4 DEF Sale
          <6>3. ~(Cardinality(Positions) >= MaxPositions)
            BY <3>4, <5>3, <6>2 DEF Blocked, BuyBlocked
          <6> QED
            BY <5>1, <6>1, <6>3 DEF Most
        <5> QED
          BY <5>2, <5>3
      <4>7. cash' \in Int
        BY <1>1 DEF Typed, TypeOK
      <4> QED
        BY <4>1, <4>3, <4>4, <4>5, <4>6, <4>7
    <3>5. CASE UNCHANGED lots
      BY <2>2, <3>5
    <3> QED
      BY <3>1, <3>3, <3>4, <3>5
  <2>4. CASE ApplyOne
    <3>1. PICK a \in todo : \/ a \in Dividends /\ ApplyDividend(a)
                            \/ a \in Splits /\ ApplySplit(a)
      BY <2>4 DEF ApplyOne
    <3>2. CASE a \in Dividends /\ ApplyDividend(a)
      BY <2>2, <3>2 DEF ApplyDividend
    <3>3. CASE a \in Splits /\ ApplySplit(a)
      <4>1. CASE UNCHANGED lots
        BY <2>2, <4>1
      <4>2. CASE /\ lots' = Split(a) /\ \A l \in OldLots(a) : (lots[l].qty * a.num) % a.den = 0
        <5>1. Len(lots') = Len(lots)
          BY <1>1, <3>3, <4>2, LotsScaled DEF Typed, TypeOK
        <5> QED
          BY <2>2, <5>1
      <4> QED
        BY <3>3, <4>1, <4>2, ApplySplitSays
    <3> QED
      BY <3>1, <3>2, <3>3
  <2>5. CASE Collect
    <3>1. UNCHANGED lots
      BY <1>1, <2>5, CollectSays
    <3> QED
      BY <2>2, <3>1
  <2> HIDE DEF Fair
  <2> QED
    BY <1>1, <2>2, <2>3, <2>4, <2>5
    DEF Next, Submit, Withdraw, SetCapital, PassTime, MatchStart, Abort, vars, books
<1>2. Typed /\ Typed' /\ [Next]_vars => [Fair]_vars
  BY <1>1
<1> QED
  BY <1>2, TypedHolds, PTL DEF Spec, PurchasesWithinLimits

----------------------------------------------------------------------------
(* Actions of one ETF become known in the order of their ex-days, and none *)
(* is applied before it is in force; apply_actions has left what is known, *)
(* in force and not applied; nothing is matched after the close.           *)
KnownInOrder ==
  /\ \A s, t \in Splits :
       s.etf = t.etf /\ s.ex <= t.ex /\ status[t] # "unknown" => status[s] # "unknown"
  /\ \A d \in Dividends, s \in Splits :
       s.etf = d.etf /\ s.ex <= d.record /\ status[d] # "unknown" => status[s] # "unknown"
AppliedInForce == \A s \in Splits : status[s] = "applied" => s.ex <= day
PendingLeft ==
  pc = "apply" => \A s \in Splits :
    status[s] = "pending" /\ ~frozen[s.etf] /\ s.ex <= day => s \in todo
Ordered ==
  KnownInOrder /\ AppliedInForce /\ PendingLeft /\ (pc = "match" => ~closed)

LEMMA KnownInOrderStays ==
  ASSUME Typed, KnownInOrder,
         \A a \in Actions : status'[a] # "unknown" <=> status[a] # "unknown"
  PROVE  KnownInOrder'
BY DEF KnownInOrder, Actions

LEMMA DownloadInOrder ==
  ASSUME Typed, KnownInOrder, NEW e \in Etfs, Verify(e)
  PROVE  KnownInOrder'
<1>1. PICK early \in SUBSET {a \in Actions : a.etf = e} :
        /\ status' = [a \in Actions |->
             IF a \in Published(e) \cup early /\ status[a] = "unknown"
             THEN "pending" ELSE status[a]]
        /\ \A a \in early, s \in Splits :
             s.etf = e /\ s.ex <= ShareDay(a) => status'[s] # "unknown"
  BY DEF Verify
<1>2. day \in Int /\ \A s \in Splits : s.ex \in Int /\ s.etf \in Etfs /\ s \in Actions
  BY LedgerAssumption DEF Typed, TypeOK, Actions
<1>3. \A d \in Dividends : d.record \in Int /\ d.ex \in Int /\ d.record < d.ex /\ d \in Actions
  BY LedgerAssumption DEF Actions
<1>4. \A a \in Actions : status[a] # "unknown" => status'[a] # "unknown"
  BY <1>1
<1>5. \A s \in Splits : s \in Published(e) => status'[s] # "unknown"
  BY <1>1, <1>2
<1>6. ASSUME NEW s \in Splits, NEW t \in Splits, s.etf = t.etf, s.ex <= t.ex,
             status'[t] # "unknown"
      PROVE  status'[s] # "unknown"
  <2>1. CASE status[t] # "unknown"
    BY <1>2, <1>4, <1>6, <2>1 DEF KnownInOrder
  <2>2. CASE status[t] = "unknown"
    <3>1. t \in Published(e) \cup early
      BY <1>1, <1>2, <1>6, <2>2
    <3>2. CASE t \in early
      <4>1. ShareDay(t) = t.ex /\ s.etf = e
        BY <1>6, <3>2, LedgerAssumption DEF ShareDay
      <4> QED
        BY <1>1, <1>6, <3>2, <4>1
    <3>3. CASE t \in Published(e)
      <4>1. t.etf = e /\ t.ex <= day
        BY <1>6, <3>3, LedgerAssumption DEF Published
      <4>2. s \in Published(e)
        BY <1>2, <1>6, <4>1 DEF Published
      <4> QED
        BY <1>5, <4>2
    <3> QED
      BY <3>1, <3>2, <3>3
  <2> QED
    BY <2>1, <2>2
<1>7. ASSUME NEW d \in Dividends, NEW s \in Splits, s.etf = d.etf, s.ex <= d.record,
             status'[d] # "unknown"
      PROVE  status'[s] # "unknown"
  <2>1. CASE status[d] # "unknown"
    BY <1>2, <1>4, <1>7, <2>1 DEF KnownInOrder
  <2>2. CASE status[d] = "unknown"
    <3>1. d \in Published(e) \cup early
      BY <1>1, <1>3, <1>7, <2>2
    <3>2. CASE d \in early
      <4>1. s.etf = e /\ s.ex <= ShareDay(d)
        BY <1>7, <3>2 DEF ShareDay
      <4> QED
        BY <1>1, <3>2, <4>1
    <3>3. CASE d \in Published(e)
      <4>1. d.etf = e /\ d.record < day
        BY <1>7, <3>3, LedgerAssumption DEF Published
      <4>2. s \in Published(e)
        BY <1>2, <1>3, <1>7, <4>1 DEF Published
      <4> QED
        BY <1>5, <4>2
    <3> QED
      BY <3>1, <3>2, <3>3
  <2> QED
    BY <2>1, <2>2
<1> QED
  BY <1>6, <1>7 DEF KnownInOrder

LEMMA OrderedHolds == Spec => []Ordered
<1>1. Init => Ordered
  BY DEF Init, Ordered, KnownInOrder, AppliedInForce, PendingLeft, Actions
<1>2. Ordered /\ Typed /\ LeftToDo /\ [Next]_vars => Ordered'
  <2> SUFFICES ASSUME Ordered, Typed, LeftToDo, [Next]_vars PROVE Ordered'
    OBVIOUS
  <2>1. CASE /\ UNCHANGED <<status, frozen, day, closed>> /\ pc' \in {"idle", pc}
             /\ (pc = "apply" => pc' = "idle" \/ todo' = todo)
    BY <2>1 DEF Ordered, KnownInOrder, AppliedInForce, PendingLeft
  <2>2. CASE PassTime
    <3>1. pc' = "idle" /\ UNCHANGED status /\ (day' = day \/ day' = day + 1)
      BY <2>2 DEF PassTime
    <3>2. AppliedInForce'
      <4>1. day \in Int /\ \A s \in Splits : s.ex \in Int
        BY LedgerAssumption DEF Typed, TypeOK
      <4> QED
        BY <3>1, <4>1 DEF Ordered, AppliedInForce
    <3> QED
      BY <3>1, <3>2 DEF Ordered, KnownInOrder, PendingLeft
  <2>3. CASE Collect
    <3>1. /\ UNCHANGED <<day, closed>>
          /\ \A a \in Actions :
               status'[a] = status[a] \/ (status[a] = "unknown" /\ status'[a] = "pending")
          /\ ((pc' = "apply" /\ todo' = Due(status')) \/ pc' = "idle")
      BY <2>3, CollectSays DEF clock
    <3>2. KnownInOrder'
      <4>1. CASE UNCHANGED status
        BY <4>1 DEF Ordered, KnownInOrder
      <4>2. ASSUME NEW e \in Etfs, Verify(e) PROVE KnownInOrder'
        BY <4>2, DownloadInOrder DEF Ordered
      <4> QED
        BY <2>3, <4>1, <4>2 DEF Collect, NewQuote, corporate
    <3>3. AppliedInForce'
      BY <3>1 DEF Ordered, AppliedInForce, Actions
    <3>4. PendingLeft'
      BY <3>1 DEF PendingLeft, Due, Actions
    <3> QED
      BY <3>1, <3>2, <3>3, <3>4 DEF Ordered
  <2>4. CASE ApplyOne
    <3>1. PICK a \in todo : /\ todo' = todo \ {a}
                            /\ \/ a \in Dividends /\ ApplyDividend(a)
                               \/ a \in Splits /\ ApplySplit(a)
      BY <2>4 DEF ApplyOne
    <3>2. /\ UNCHANGED <<day, closed>> /\ pc = "apply" /\ pc' = "apply"
          /\ status[a] \notin {"unknown", "paid", "applied"} /\ a \in Actions
      BY <2>4, <3>1 DEF ApplyOne, clock, LeftToDo, Typed, TypeOK
    <3>3. CASE a \in Dividends /\ ApplyDividend(a)
      <4>1. PICK st \in {"pending", "recorded", "entitled", "paid"} :
              status' = [status EXCEPT ![a] = st] /\ UNCHANGED frozen
        BY <3>2, <3>3, ApplyDividendSays
      <4>2. /\ \A s \in Splits : s # a /\ status'[s] = status[s]
            /\ \A b \in Actions : status'[b] # "unknown" <=> status[b] # "unknown"
        BY <3>2, <3>3, <4>1, LedgerAssumption DEF Typed, TypeOK, Actions
      <4>3. KnownInOrder'
        BY <4>2, KnownInOrderStays DEF Ordered
      <4>4. AppliedInForce' /\ PendingLeft'
        BY <3>1, <3>2, <4>1, <4>2 DEF Ordered, AppliedInForce, PendingLeft
      <4> QED
        BY <3>2, <4>3, <4>4 DEF Ordered
    <3>4. CASE a \in Splits /\ ApplySplit(a)
      <4>1. \/ a.ex > day /\ UNCHANGED <<frozen, status>>
            \/ frozen' = [frozen EXCEPT ![a.etf] = TRUE] /\ UNCHANGED status
            \/ a.ex <= day /\ status' = [status EXCEPT ![a] = "applied"] /\ UNCHANGED frozen
        BY <3>4, ApplySplitSays
      <4>2. a.etf \in Etfs /\ a.ex \in Int /\ day \in Int
        BY <3>4, LedgerAssumption DEF Typed, TypeOK
      <4>3. \A b \in Actions : status'[b] # "unknown" <=> status[b] # "unknown"
        BY <3>2, <4>1 DEF Typed, TypeOK
      <4>4. KnownInOrder'
        BY <4>3, KnownInOrderStays DEF Ordered
      <4>5. AppliedInForce'
        BY <3>2, <4>1 DEF Ordered, AppliedInForce, Typed, TypeOK, Actions
      <4>6. PendingLeft'
        <5> SUFFICES ASSUME NEW s \in Splits, status'[s] = "pending", ~frozen'[s.etf], s.ex <= day
                     PROVE  s \in todo'
          BY <3>2 DEF PendingLeft
        <5>1. s \in Actions /\ s.etf \in Etfs
          BY LedgerAssumption DEF Actions
        <5>2. s # a
          BY <3>2, <4>1, <4>2, <5>1 DEF Typed, TypeOK
        <5>3. status[s] = "pending" /\ ~frozen[s.etf]
          BY <4>1, <4>2, <5>1, <5>2 DEF Typed, TypeOK
        <5> QED
          BY <3>1, <3>2, <5>2, <5>3 DEF Ordered, PendingLeft
      <4> QED
        BY <3>2, <4>4, <4>5, <4>6 DEF Ordered
    <3> QED
      BY <3>1, <3>3, <3>4
  <2>5. CASE MatchStart
    <3>1. UNCHANGED <<status, frozen, day, closed>> /\ pc' \in {"idle", "match"}
          /\ (pc' = "match" => ~closed)
      BY <2>5 DEF MatchStart, Go, Selected, corporate, clock
    <3> QED
      BY <3>1 DEF Ordered, KnownInOrder, AppliedInForce, PendingLeft
  <2>6. CASE MatchOne
    <3>1. UNCHANGED <<status, frozen, day, closed>> /\ pc = "match" /\ pc' \in {"idle", "match"}
      BY <2>6 DEF MatchOne, Go, corporate, clock
    <3> QED
      BY <2>1, <3>1
  <2> QED
    BY <2>1, <2>2, <2>3, <2>4, <2>5, <2>6
    DEF Next, Submit, Withdraw, SetCapital, Abort, vars, corporate, clock
<1> QED
  BY <1>1, <1>2, TypedHolds, LeftToDoHolds, PTL DEF Spec

(* When apply_actions comes to a row, the splits of its ETF that were      *)
(* before it are in the lots, unless the ETF is frozen.                    *)
LEMMA EarlierApplied ==
  ASSUME Typed, Ordered, LeftToDo, pc = "apply", NEW a \in Actions, FirstAction(a),
         ~frozen[a.etf], NEW s \in Splits, s.etf = a.etf, s.ex < a.ex, s.ex <= day,
         status[s] # "unknown"
  PROVE  status[s] = "applied"
<1> SUFFICES ASSUME status[s] # "applied" PROVE FALSE
  OBVIOUS
<1>1. status[s] = "pending"
  BY DEF LeftToDo
<1>2. s \in todo
  BY <1>1 DEF Ordered, PendingLeft
<1>3. a.ex \in Int /\ s.ex \in Int
  BY LedgerAssumption DEF Actions
<1>4. a.ex < s.ex \/ a.ex = s.ex
  BY <1>2 DEF FirstAction
<1> QED
  BY <1>3, <1>4

(* From the ex-day of a split on that the lots do not show, the position   *)
(* ledger says the same for every day: nothing is traded in between.       *)
SameSince ==
  \A s \in Splits : status[s] # "applied" /\ ~frozen[s.etf] =>
    \A x \in 1 .. Days : s.ex <= x => held[s.etf][x] = held[s.etf][Days]

LEMMA SameSinceHolds == Spec => []SameSince
<1>1. Init => SameSince
  BY LedgerAssumption DEF Init, SameSince
<1>2. SameSince /\ Typed /\ Typed' /\ LeftToDo /\ Ordered /\ SplitsKnown /\ [Next]_vars => SameSince'
  <2> SUFFICES ASSUME SameSince, Typed, Typed', LeftToDo, Ordered, SplitsKnown, [Next]_vars
               PROVE  SameSince'
    OBVIOUS
  <2>1. CASE /\ UNCHANGED held
             /\ \A s \in Splits : /\ status[s] = "applied" => status'[s] = "applied"
                                  /\ frozen[s.etf] => frozen'[s.etf]
    BY <2>1 DEF SameSince
  <2>2. CASE Collect
    <3>1. /\ UNCHANGED held /\ \A e \in Etfs : frozen[e] => frozen'[e]
          /\ \A a \in Actions :
               status'[a] = status[a] \/ (status[a] = "unknown" /\ status'[a] = "pending")
      BY <2>2, CollectSays
    <3> QED
      BY <2>1, <3>1, LedgerAssumption DEF Actions
  <2>3. CASE ApplyOne
    <3>1. PICK a \in todo : /\ FirstAction(a)
                            /\ \/ a \in Dividends /\ ApplyDividend(a)
                               \/ a \in Splits /\ ApplySplit(a)
      BY <2>3 DEF ApplyOne
    <3>2. pc = "apply" /\ status[a] \notin {"unknown", "paid", "applied"} /\ a \in Actions
      BY <2>3, <3>1 DEF ApplyOne, LeftToDo, Typed, TypeOK
    <3>3. CASE a \in Dividends /\ ApplyDividend(a)
      <4>1. PICK st \in {"pending", "recorded", "entitled", "paid"} :
              status' = [status EXCEPT ![a] = st] /\ UNCHANGED <<frozen, held>>
        BY <3>2, <3>3, ApplyDividendSays
      <4>2. \A s \in Splits : s # a /\ status'[s] = status[s]
        BY <3>2, <3>3, <4>1, LedgerAssumption DEF Typed, TypeOK, Actions
      <4> QED
        BY <2>1, <4>1, <4>2
    <3>4. CASE a \in Splits /\ ApplySplit(a)
      <4>1. CASE UNCHANGED <<held, status, frozen>>
        BY <2>1, <4>1
      <4>2. CASE frozen' = [frozen EXCEPT ![a.etf] = TRUE] /\ UNCHANGED <<held, status>>
        BY <2>1, <4>2, LedgerAssumption DEF Typed, TypeOK
      <4>3. CASE /\ a.ex <= day /\ \A l \in OldLots(a) : (lots[l].qty * a.num) % a.den = 0
                 /\ lots' = Split(a)
                 /\ held' = [held EXCEPT ![a.etf] =
                      [d \in 1 .. Days |-> IF d >= a.ex THEN held[a.etf][d] + Added(a)
                                           ELSE held[a.etf][d]]]
                 /\ status' = [status EXCEPT ![a] = "applied"] /\ UNCHANGED frozen
        <5> SUFFICES ASSUME NEW s \in Splits, status'[s] # "applied", ~frozen'[s.etf],
                            NEW x \in 1 .. Days, s.ex <= x
                     PROVE  held'[s.etf][x] = held'[s.etf][Days]
          BY DEF SameSince
        <5>1. /\ s # a /\ status[s] # "applied" /\ ~frozen[s.etf] /\ s.etf \in Etfs
              /\ s.ex \in Int /\ a.ex \in Int /\ day \in 1 .. Days /\ Days \in Nat
          <6>1. /\ s.etf \in Etfs /\ s.ex \in Int /\ s \in Actions /\ Days \in Nat
                /\ a.ex \in Int
            BY <3>4, LedgerAssumption DEF Actions
          <6>2. day \in 1 .. Days /\ status \in [Actions -> Status]
            BY DEF Typed, TypeOK
          <6>3. s # a /\ status[s] # "applied"
            BY <3>2, <4>3, <6>1, <6>2
          <6> QED
            BY <4>3, <6>1, <6>2, <6>3
        <5>2. held[s.etf][x] = held[s.etf][Days]
          BY <5>1 DEF SameSince
        <5>3. \A y \in 1 .. Days : held'[s.etf][y] =
                held[s.etf][y] + (IF s.etf = a.etf /\ a.ex <= y THEN Added(a) ELSE 0)
          BY <3>4, <4>3, <5>1, SplitSays
        <5>4. x \in Int /\ Days \in 1 .. Days /\ a.ex <= Days
          BY <4>3, <5>1
        <5>5. CASE s.etf # a.etf
          BY <5>2, <5>3, <5>4, <5>5
        <5>6. CASE s.etf = a.etf
          <6>1. s.ex # a.ex
            BY <3>4, <5>1, <5>6, LedgerAssumption
          <6>2. ~(s.ex < a.ex)
            <7> SUFFICES ASSUME s.ex < a.ex PROVE FALSE
              OBVIOUS
            <7>1. status[s] # "unknown"
              BY <3>2, <3>4, <5>1, <5>6 DEF Ordered, KnownInOrder
            <7>2. s.ex <= day
              BY <4>3, <5>1
            <7> QED
              BY <3>1, <3>2, <5>1, <5>6, <7>1, <7>2, EarlierApplied
          <6>3. a.ex <= x
            BY <5>1, <5>4, <6>1, <6>2
          <6> QED
            BY <5>2, <5>3, <5>4, <6>3
        <5> QED
          BY <5>5, <5>6
      <4> QED
        BY <3>4, <4>1, <4>2, <4>3, ApplySplitSays
    <3> QED
      BY <3>1, <3>3, <3>4
  <2>4. CASE MatchOne
    <3>1. PICK e \in Etfs :
            \/ UNCHANGED held
            \/ /\ ~Blocked(e)
               /\ \E q \in 1 .. MaxShares : Filled(e, q) /\ (FillSale(e, q) \/ FillBuy(e, q))
      BY <2>4, MatchOneSays
    <3>2. UNCHANGED <<status, day, frozen>> /\ pc = "match"
      BY <2>4 DEF MatchOne, clock, corporate
    <3>3. ASSUME NEW q \in 1 .. MaxShares, Filled(e, q), FillSale(e, q) \/ FillBuy(e, q), ~Blocked(e)
          PROVE  SameSince'
      <4>1. PICK m \in Int : \A f \in Etfs, x \in 1 .. Days :
              held'[f][x] = held[f][x] + (IF f = e /\ day <= x THEN m ELSE 0)
        <5>1. q \in Int /\ -q \in Int
          BY <3>3, FilledFits
        <5>2. CASE FillSale(e, q)
          <6>1. PICK c \in Int : FillOf(e, -q, c, price[e] * q - FeeOf(e, q))
            BY <3>3, <5>2, FillSaleSays
          <6> QED
            BY <5>1, <6>1 DEF FillOf
        <5>3. CASE FillBuy(e, q)
          <6>1. FillOf(e, q, price[e] * q + FeeOf(e, q), -(price[e] * q + FeeOf(e, q)))
            BY <3>3, <5>3, FillBuySays
          <6> QED
            BY <5>1, <6>1 DEF FillOf
        <5> QED
          BY <3>3, <5>2, <5>3
      <4> SUFFICES ASSUME NEW s \in Splits, status'[s] # "applied", ~frozen'[s.etf],
                          NEW x \in 1 .. Days, s.ex <= x
                   PROVE  held'[s.etf][x] = held'[s.etf][Days]
        BY DEF SameSince
      <4>2. /\ status[s] # "applied" /\ ~frozen[s.etf] /\ s.etf \in Etfs
            /\ s.ex \in Int /\ day \in 1 .. Days /\ Days \in Nat /\ Days \in 1 .. Days
        <5>1. s.etf \in Etfs /\ s.ex \in Int /\ Days \in Nat /\ Days \in 1 .. Days
          BY LedgerAssumption
        <5>2. day \in 1 .. Days
          BY DEF Typed, TypeOK
        <5> QED
          BY <3>2, <5>1, <5>2
      <4>3. held[s.etf][x] = held[s.etf][Days]
        BY <4>2 DEF SameSince
      <4>4. CASE s.etf # e
        BY <4>1, <4>2, <4>3, <4>4
      <4>5. CASE s.etf = e
        <5>1. ~(s.ex <= day)
          BY <3>2, <3>3, <4>2, <4>5 DEF SplitsKnown, InForce, Blocked
        <5>2. day <= x /\ day <= Days
          BY <4>2, <5>1
        <5> QED
          BY <4>1, <4>2, <4>3, <4>5, <5>2
      <4> QED
        BY <4>4, <4>5
    <3> QED
      BY <2>1, <3>1, <3>2, <3>3
  <2> QED
    BY <2>1, <2>2, <2>3, <2>4
    DEF Next, Submit, Withdraw, SetCapital, PassTime, MatchStart, Abort, vars, corporate, books
<1> QED
  BY <1>1, <1>2, TypedHolds, LeftToDoHolds, OrderedHolds, SplitsKnownHolds, PTL DEF Spec

----------------------------------------------------------------------------
(* What v shares of an ETF are after the first n days, if on each day the  *)
(* split of that day the tables do not show yet rescales them: there is a  *)
(* sequence of numbers from v to r, one for each day.                      *)
Rescaled(st, e, x, v, w) ==
  /\ \A s \in Splits : s.etf = e /\ s.ex = x /\ st[s] # "applied" => w = (v * s.num) \div s.den
  /\ (\A s \in Splits : s.etf = e /\ s.ex = x => st[s] = "applied") => w = v
Chain(st, e, v, n, r, c) ==
  /\ c \in [0 .. n -> Int] /\ c[0] = v /\ c[n] = r
  /\ \A x \in 1 .. n : Rescaled(st, e, x, c[x - 1], c[x])
Becomes(st, e, v, n, r) == \E c : Chain(st, e, v, n, r, c)

LEMMA NatMin ==
  ASSUME NEW S \in SUBSET Nat, NEW n \in S
  PROVE  \E x \in S : \A y \in S : x <= y
<1>1. IsWellFoundedOn(OpToRel(<, Nat), Nat)
  BY NatLessThanWellFounded
<1>2. \E x \in S : \A y \in S : ~(<<y, x>> \in OpToRel(<, Nat))
  BY <1>1, WFMin
<1>3. \A x, y \in Nat : y < x => <<y, x>> \in OpToRel(<, Nat)
  BY Zenon DEF OpToRel
<1>4. \E x \in S : \A y \in S : ~(y < x)
  BY <1>2, <1>3, Zenon
<1>5. \A x, y \in Nat : ~(y < x) => x <= y
  BY SMT
<1> QED
  BY <1>4, <1>5, Zenon

LEMMA ConstantPrefix ==
  ASSUME NEW n \in Nat, NEW m \in 0 .. n, NEW c \in [0 .. n -> Int],
         \A x \in 1 .. m : c[x] = c[x - 1]
  PROVE  \A x \in 0 .. m : c[x] = c[0]
<1> SUFFICES ASSUME NEW y \in 0 .. m, c[y] # c[0] PROVE FALSE
  OBVIOUS
<1> DEFINE S == {x \in 0 .. m : c[x] # c[0]}
<1>1. S \in SUBSET Nat /\ y \in S
  OBVIOUS
<1>2. PICK x \in S : \A z \in S : x <= z
  <2> HIDE DEF S
  <2> QED
    BY <1>1, NatMin
<1>3. x \in 1 .. m /\ x - 1 \in 0 .. m /\ x - 1 < x
  BY <1>2
<1>4. c[x - 1] = c[0]
  <2>1. x - 1 \notin S
    <3>1. x - 1 \in S => x <= x - 1
      BY <1>2
    <3> QED
      BY <1>3, <3>1
  <2> QED
    BY <1>3, <2>1
<1> QED
  BY <1>2, <1>3, <1>4

(* While the splits of the first n days are the same ones.                 *)
LEMMA BecomesSame ==
  ASSUME NEW st, NEW tt, NEW e, NEW v, NEW n \in Nat, NEW r, Becomes(st, e, v, n, r),
         \A s \in Splits : s.etf = e /\ s.ex <= n => (st[s] = "applied" <=> tt[s] = "applied")
  PROVE  Becomes(tt, e, v, n, r)
<1>1. PICK c : Chain(st, e, v, n, r, c)
  BY DEF Becomes
<1>2. ASSUME NEW x \in 1 .. n PROVE Rescaled(tt, e, x, c[x - 1], c[x])
  <2>1. Rescaled(st, e, x, c[x - 1], c[x])
    BY <1>1 DEF Chain
  <2>2. \A s \in Splits : s.etf = e /\ s.ex = x => (st[s] = "applied" <=> tt[s] = "applied")
    <3>1. x <= n
      OBVIOUS
    <3> QED
      BY <3>1
  <2> QED
    BY <2>1, <2>2 DEF Rescaled
<1>3. Chain(tt, e, v, n, r, c)
  BY <1>1, <1>2 DEF Chain
<1> QED
  BY <1>3 DEF Becomes

(* When the tables show them all, nothing is rescaled.                     *)
LEMMA BecomesAll ==
  ASSUME NEW st, NEW e, NEW v \in Int, NEW n \in Nat, NEW r,
         \A s \in Splits : s.etf = e /\ s.ex <= n => st[s] = "applied"
  PROVE  Becomes(st, e, v, n, r) <=> r = v
<1>1. ASSUME Becomes(st, e, v, n, r) PROVE r = v
  <2>1. PICK c : Chain(st, e, v, n, r, c)
    BY <1>1 DEF Becomes
  <2>2. \A x \in 1 .. n : c[x] = c[x - 1]
    <3> SUFFICES ASSUME NEW x \in 1 .. n PROVE c[x] = c[x - 1]
      OBVIOUS
    <3>1. Rescaled(st, e, x, c[x - 1], c[x]) /\ x <= n
      BY <2>1 DEF Chain
    <3> QED
      BY <3>1 DEF Rescaled
  <2>3. c \in [0 .. n -> Int] /\ n \in 0 .. n
    BY <2>1 DEF Chain
  <2>4. \A x \in 0 .. n : c[x] = c[0]
    BY <2>2, <2>3, ConstantPrefix
  <2> QED
    BY <2>1, <2>3, <2>4 DEF Chain
<1>2. Becomes(st, e, v, n, v)
  <2> DEFINE c == [x \in 0 .. n |-> v]
  <2>1. \A x \in 1 .. n : c[x - 1] = v /\ c[x] = v /\ x <= n
    OBVIOUS
  <2>2. c \in [0 .. n -> Int] /\ c[0] = v /\ c[n] = v
    OBVIOUS
  <2> HIDE DEF c
  <2>3. \A x \in 1 .. n : Rescaled(st, e, x, c[x - 1], c[x])
    BY <2>1 DEF Rescaled
  <2>4. Chain(st, e, v, n, v, c)
    BY <2>2, <2>3 DEF Chain
  <2> QED
    BY <2>4 DEF Becomes
<1> QED
  BY <1>1, <1>2

(* One day more.                                                           *)
LEMMA BecomesNext ==
  ASSUME NEW st, NEW e, NEW v, NEW n \in Nat, NEW r, Becomes(st, e, v, n, r),
         NEW w \in Int, Rescaled(st, e, n + 1, r, w)
  PROVE  Becomes(st, e, v, n + 1, w)
<1>1. PICK c : Chain(st, e, v, n, r, c)
  BY DEF Becomes
<1> DEFINE d == [x \in 0 .. n + 1 |-> IF x <= n THEN c[x] ELSE w]
<1>2. c \in [0 .. n -> Int] /\ c[0] = v /\ c[n] = r
  BY <1>1 DEF Chain
<1>3. /\ d \in [0 .. n + 1 -> Int] /\ d[0] = v /\ d[n] = r /\ d[n + 1] = w
      /\ \A x \in 0 .. n : d[x] = c[x]
  BY <1>2
<1> HIDE DEF d
<1>4. ASSUME NEW x \in 1 .. n + 1 PROVE Rescaled(st, e, x, d[x - 1], d[x])
  <2>1. CASE x <= n
    <3>1. Rescaled(st, e, x, c[x - 1], c[x])
      BY <1>1, <2>1 DEF Chain
    <3>2. d[x - 1] = c[x - 1] /\ d[x] = c[x]
      BY <1>3, <2>1
    <3> QED
      BY <3>1, <3>2
  <2>2. CASE x = n + 1
    <3>1. x - 1 = n
      BY <2>2
    <3> QED
      BY <1>3, <2>2, <3>1
  <2> QED
    BY <2>1, <2>2
<1>5. Chain(st, e, v, n + 1, w, d)
  BY <1>3, <1>4 DEF Chain
<1> QED
  BY <1>5 DEF Becomes

(* The oldest split the tables do not show is applied to them.             *)
LEMMA BecomesSplit ==
  ASSUME NEW st \in [Actions -> Status], NEW s \in Splits, st[s] # "applied",
         NEW n \in Nat, s.ex <= n, NEW v \in Int, NEW r, Becomes(st, s.etf, v, n, r),
         \A t \in Splits : t.etf = s.etf /\ t.ex < s.ex => st[t] = "applied"
  PROVE  Becomes([st EXCEPT ![s] = "applied"], s.etf, (v * s.num) \div s.den, n, r)
<1> DEFINE tt == [st EXCEPT ![s] = "applied"]
           k == s.ex
           w == (v * s.num) \div s.den
<1>1. PICK c : Chain(st, s.etf, v, n, r, c)
  BY DEF Becomes
<1>2. c \in [0 .. n -> Int] /\ c[0] = v /\ c[n] = r
  BY <1>1 DEF Chain
<1>3. k \in 1 .. n /\ k - 1 \in 0 .. n /\ s \in Actions
  BY LedgerAssumption DEF Actions
<1>4. c[k - 1] = v /\ c[k] = w
  <2>1. \A x \in 1 .. k - 1 : c[x] = c[x - 1]
    <3> SUFFICES ASSUME NEW x \in 1 .. k - 1 PROVE c[x] = c[x - 1]
      OBVIOUS
    <3>1. x \in 1 .. n /\ x < k
      BY <1>3
    <3>2. Rescaled(st, s.etf, x, c[x - 1], c[x])
      BY <1>1, <3>1 DEF Chain
    <3>3. \A t \in Splits : t.etf = s.etf /\ t.ex = x => st[t] = "applied"
      BY <3>1
    <3> QED
      BY <3>2, <3>3 DEF Rescaled
  <2>2. c[k - 1] = c[0]
    <3> HIDE DEF k
    <3>1. \A x \in 0 .. k - 1 : c[x] = c[0]
      BY <1>2, <1>3, <2>1, ConstantPrefix
    <3> QED
      BY <1>3, <3>1
  <2>3. Rescaled(st, s.etf, k, c[k - 1], c[k])
    BY <1>1, <1>3 DEF Chain
  <2> QED
    BY <1>2, <2>2, <2>3 DEF Rescaled
<1> DEFINE d == [x \in 0 .. n |-> IF x < k THEN w ELSE c[x]]
<1>5. w \in Int
  BY <1>2, <1>3, <1>4
<1> HIDE DEF w
<1>6. /\ d \in [0 .. n -> Int] /\ d[0] = w /\ d[n] = r /\ d[k - 1] = w /\ d[k] = w
      /\ \A x \in 0 .. n : x < k => d[x] = w
      /\ \A x \in 0 .. n : k <= x => d[x] = c[x]
  BY <1>2, <1>3, <1>4, <1>5
<1>7. /\ \A t \in Splits : t.etf = s.etf /\ t.ex <= k => tt[t] = "applied"
      /\ \A t \in Splits : t # s => tt[t] = st[t]
  <2>1. \A t \in Splits : t \in Actions /\ t.ex \in Int
    BY LedgerAssumption DEF Actions
  <2>2. \A t \in Splits : t.etf = s.etf /\ t.ex = k => t = s
    BY LedgerAssumption
  <2> QED
    BY <1>3, <2>1, <2>2
<1> HIDE DEF d, tt
<1>8. ASSUME NEW x \in 1 .. n PROVE Rescaled(tt, s.etf, x, d[x - 1], d[x])
  <2>1. CASE x <= k
    <3>1. d[x - 1] = w /\ d[x] = w
      <4>1. x < k \/ x = k
        BY <1>3, <2>1
      <4>2. x - 1 \in 0 .. n /\ x - 1 < k /\ x \in 0 .. n
        BY <1>3, <2>1
      <4> QED
        BY <1>6, <4>1, <4>2
    <3>2. \A t \in Splits : t.etf = s.etf /\ t.ex = x => tt[t] = "applied"
      BY <1>7, <2>1
    <3> QED
      BY <3>1, <3>2 DEF Rescaled
  <2>2. CASE ~(x <= k)
    <3>1. d[x - 1] = c[x - 1] /\ d[x] = c[x]
      <4>1. x - 1 \in 0 .. n /\ k <= x - 1 /\ x \in 0 .. n /\ k <= x
        BY <1>3, <2>2
      <4> QED
        BY <1>6, <4>1
    <3>2. Rescaled(st, s.etf, x, c[x - 1], c[x])
      BY <1>1 DEF Chain
    <3>3. \A t \in Splits : t.etf = s.etf /\ t.ex = x => tt[t] = st[t]
      <4>1. x # k
        BY <1>3, <2>2
      <4> QED
        BY <1>7, <4>1
    <3> QED
      BY <3>1, <3>2, <3>3 DEF Rescaled
  <2> QED
    BY <2>1, <2>2
<1>9. Chain(tt, s.etf, w, n, r, d)
  BY <1>6, <1>8 DEF Chain
<1> QED
  BY <1>9 DEF Becomes, tt, w

----------------------------------------------------------------------------
(* What the account at the exchange holds is what the lots hold, rescaled  *)
(* by the splits in force that the lots do not show.                       *)
RealInv == \A e \in Etfs : ~frozen[e] => Becomes(status, e, HeldIn(lots, e), day, real[e])

LEMMA DayIsNat == ASSUME Typed PROVE day \in Nat /\ day \in 1 .. Days /\ Days \in Nat
BY LedgerAssumption DEF Typed, TypeOK

LEMMA NothingBecomes ==
  ASSUME Init PROVE RealInv
<1> SUFFICES ASSUME NEW e \in Etfs PROVE Becomes(status, e, HeldIn(lots, e), 1, real[e])
  BY DEF Init, RealInv
<1> DEFINE c == [x \in 0 .. 1 |-> 0]
<1>1. HeldIn(lots, e) = 0
  <2>1. Its(lots, e) = {}
    BY DEF Init, Its, RowsOf
  <2> QED
    BY <2>1, SumOfEmpty DEF HeldIn
<1>2. real[e] = 0
  BY DEF Init
<1>3. \A s \in Splits : (0 * s.num) \div s.den = 0
  <2>1. \A s \in Splits : s.num \in Nat /\ s.den \in Nat \ {0}
    BY LedgerAssumption
  <2> QED
    BY <2>1
<1>4. \A x \in 1 .. 1 : Rescaled(status, e, x, 0, 0)
  BY <1>3 DEF Rescaled
<1>5. c \in [0 .. 1 -> Int] /\ c[0] = 0 /\ c[1] = 0
  OBVIOUS
<1>6. \A x \in 1 .. 1 : c[x - 1] = 0 /\ c[x] = 0
  OBVIOUS
<1> HIDE DEF c
<1>7. Chain(status, e, 0, 1, 0, c)
  BY <1>4, <1>5, <1>6 DEF Chain
<1> QED
  BY <1>1, <1>2, <1>7 DEF Becomes

(* At dawn the exchange rescales what it holds, and nothing can have shown *)
(* the split of that day before.                                           *)
LEMMA DawnBecomes ==
  ASSUME Typed, Typed', Ordered, RealInv, PassTime
  PROVE  RealInv'
<1> SUFFICES ASSUME NEW e \in Etfs, ~frozen[e]
             PROVE  Becomes(status, e, HeldIn(lots, e), day', real'[e])
  BY DEF PassTime, books, RealInv
<1>1. Becomes(status, e, HeldIn(lots, e), day, real[e])
  BY DEF RealInv
<1>2. day \in Nat /\ real' \in [Etfs -> Int] /\ Days \in Nat
  BY LedgerAssumption DEF Typed, TypeOK
<1>3. CASE UNCHANGED <<day, real>>
  BY <1>1, <1>3
<1>4. CASE /\ day' = day + 1
           /\ real' = [f \in Etfs |->
                IF \E s \in Splits : s.etf = f /\ s.ex = day + 1
                THEN LET s == CHOOSE s \in Splits : s.etf = f /\ s.ex = day + 1
                     IN (real[f] * s.num) \div s.den
                ELSE real[f]]
  <2>1. real'[e] \in Int
    BY <1>2
  <2>2. \A s \in Splits : s.ex = day + 1 => status[s] # "applied"
    BY <1>2 DEF Ordered, AppliedInForce
  <2>3. Rescaled(status, e, day + 1, real[e], real'[e])
    <3>1. CASE \E s \in Splits : s.etf = e /\ s.ex = day + 1
      <4> DEFINE t == CHOOSE s \in Splits : s.etf = e /\ s.ex = day + 1
      <4>1. t \in Splits /\ t.etf = e /\ t.ex = day + 1
        BY <3>1
      <4>2. real'[e] = (real[e] * t.num) \div t.den
        BY <1>4, <3>1
      <4> HIDE DEF t
      <4>3. \A s \in Splits : s.etf = e /\ s.ex = day + 1 => s = t
        BY <4>1, LedgerAssumption
      <4> QED
        BY <2>2, <4>1, <4>2, <4>3 DEF Rescaled
    <3>2. CASE ~ \E s \in Splits : s.etf = e /\ s.ex = day + 1
      <4>1. real'[e] = real[e]
        BY <1>4, <3>2
      <4> QED
        BY <3>2, <4>1 DEF Rescaled
    <3> QED
      BY <3>1, <3>2
  <2>4. Becomes(status, e, HeldIn(lots, e), day + 1, real'[e])
    BY <1>1, <1>2, <2>1, <2>3, BecomesNext
  <2> QED
    BY <1>4, <2>4
<1> QED
  BY <1>3, <1>4 DEF PassTime

(* A split put into the lots is no longer ahead of them.                   *)
LEMMA AppliedBecomes ==
  ASSUME Typed, Ordered, LeftToDo, LotsOld, pc = "apply", NEW s \in Splits, FirstAction(s),
         ~frozen[s.etf], status[s] \notin {"unknown", "paid", "applied"},
         NEW v \in Int, NEW w, NEW n \in Nat, s.ex <= n, n <= day, NEW r,
         Becomes(status, s.etf, v, n, r), w = (v * s.num) \div s.den
  PROVE  Becomes([status EXCEPT ![s] = "applied"], s.etf, w, n, r)
<1>1. \A t \in Splits : t.etf = s.etf /\ t.ex < s.ex => status[t] = "applied"
  <2> SUFFICES ASSUME NEW t \in Splits, t.etf = s.etf, t.ex < s.ex
               PROVE  status[t] = "applied"
    OBVIOUS
  <2>1. s \in Actions /\ t \in Actions /\ s.ex \in Int /\ t.ex \in Int /\ day \in Int
    <3>1. day \in 1 .. Days /\ Days \in Nat
      BY LedgerAssumption DEF Typed, TypeOK
    <3>2. s.ex \in Int /\ t.ex \in Int
      BY LedgerAssumption
    <3> QED
      BY <3>1, <3>2 DEF Actions
  <2>2. status[t] # "unknown" /\ t.ex <= day
    BY <2>1 DEF Ordered, KnownInOrder
  <2> QED
    BY <2>1, <2>2, EarlierApplied
<1>2. status \in [Actions -> Status]
  BY DEF Typed, TypeOK
<1> QED
  BY <1>1, <1>2, BecomesSplit

(* A fill moves as many shares at the exchange as in the lots.             *)
LEMMA TradedBecomes ==
  ASSUME Typed, Typed', SplitsKnown, RealInv, pc = "match", NEW e \in Etfs, ~Blocked(e),
         NEW m \in Int, NEW c \in Int, NEW g \in Int, FillOf(e, m, c, g),
         UNCHANGED <<day, status, frozen>>
  PROVE  RealInv'
<1> SUFFICES ASSUME NEW f \in Etfs, ~frozen[f]
             PROVE  Becomes(status, f, HeldIn(lots', f), day, real'[f])
  BY DEF RealInv
<1>1. Becomes(status, f, HeldIn(lots, f), day, real[f])
  BY DEF RealInv
<1>2. /\ HeldIn(lots, f) \in Int /\ HeldIn(lots', f) \in Int
      /\ real[f] \in Int /\ real'[f] \in Int /\ day \in Nat
  <2>1. lots \in Seq(LotRow) /\ lots' \in Seq(LotRow)
    BY DEF Typed, TypeOK
  <2>2. day \in Nat
    BY DayIsNat
  <2>3. HeldIn(lots, f) \in Int /\ HeldIn(lots', f) \in Int
    BY <2>1, OwnRows
  <2> QED
    BY <2>2, <2>3 DEF Typed
<1>3. /\ HeldIn(lots', f) = HeldIn(lots, f) + (IF f = e THEN m ELSE 0)
      /\ real'[f] = real[f] + (IF f = e THEN m ELSE 0)
  BY DEF FillOf
<1>4. CASE f # e
  BY <1>1, <1>2, <1>3, <1>4
<1>5. CASE f = e
  <2>1. \A s \in Splits : s.etf = e /\ s.ex <= day => status[s] = "applied"
    BY DEF SplitsKnown, InForce, Blocked
  <2>2. real[f] = HeldIn(lots, f)
    BY <1>1, <1>2, <1>5, <2>1, BecomesAll
  <2>3. real'[f] = HeldIn(lots', f)
    BY <1>2, <1>3, <2>2
  <2> QED
    BY <1>2, <1>5, <2>1, <2>3, BecomesAll
<1> QED
  BY <1>4, <1>5

LEMMA RealHolds == Spec => []RealInv
<1>1. Init => RealInv
  BY NothingBecomes
<1>2. RealInv /\ Typed /\ Typed' /\ Ordered /\ LeftToDo /\ LotsOld /\ SplitsKnown /\ [Next]_vars
        => RealInv'
  <2> SUFFICES ASSUME RealInv, Typed, Typed', Ordered, LeftToDo, LotsOld, SplitsKnown, [Next]_vars
               PROVE  RealInv'
    OBVIOUS
  <2>0. day \in Nat
    BY LedgerAssumption DEF Typed, TypeOK
  <2>1. CASE /\ UNCHANGED <<lots, day, real>>
             /\ \A s \in Splits : status[s] = "applied" <=> status'[s] = "applied"
             /\ \A e \in Etfs : frozen[e] => frozen'[e]
    <3> SUFFICES ASSUME NEW e \in Etfs, ~frozen[e]
                 PROVE  Becomes(status', e, HeldIn(lots, e), day, real[e])
      BY <2>1 DEF RealInv
    <3>1. Becomes(status, e, HeldIn(lots, e), day, real[e])
      BY DEF RealInv
    <3> QED
      BY <2>0, <2>1, <3>1, BecomesSame
  <2>2. CASE PassTime
    BY <2>2, DawnBecomes
  <2>3. CASE Collect
    <3>1. /\ UNCHANGED <<lots, day, real>> /\ \A e \in Etfs : frozen[e] => frozen'[e]
          /\ \A a \in Actions :
               status'[a] = status[a] \/ (status[a] = "unknown" /\ status'[a] = "pending")
      BY <2>3, CollectSays DEF clock, truth
    <3>2. \A s \in Splits : status[s] = "applied" <=> status'[s] = "applied"
      BY <3>1 DEF Actions
    <3> QED
      BY <2>1, <3>1, <3>2
  <2>4. CASE ApplyOne
    <3>1. PICK a \in todo : /\ FirstAction(a)
                            /\ \/ a \in Dividends /\ ApplyDividend(a)
                               \/ a \in Splits /\ ApplySplit(a)
      BY <2>4 DEF ApplyOne
    <3>2. /\ pc = "apply" /\ status[a] \notin {"unknown", "paid", "applied"} /\ a \in Actions
          /\ UNCHANGED <<day, real>>
      BY <2>4, <3>1 DEF ApplyOne, LeftToDo, Typed, TypeOK, clock, truth
    <3>3. CASE a \in Dividends /\ ApplyDividend(a)
      <4>1. PICK st \in {"pending", "recorded", "entitled", "paid"} :
              status' = [status EXCEPT ![a] = st] /\ UNCHANGED <<frozen, lots>>
        BY <3>2, <3>3, ApplyDividendSays
      <4>2. \A s \in Splits : status'[s] = status[s]
        BY <3>2, <3>3, <4>1, LedgerAssumption DEF Typed, TypeOK, Actions
      <4> QED
        BY <2>1, <3>2, <4>1, <4>2
    <3>4. CASE a \in Splits /\ ApplySplit(a)
      <4>1. CASE UNCHANGED <<lots, status, frozen>>
        BY <2>1, <3>2, <4>1
      <4>2. CASE frozen' = [frozen EXCEPT ![a.etf] = TRUE] /\ UNCHANGED <<lots, status>>
        <5>1. \A e \in Etfs : frozen[e] => frozen'[e]
          BY <4>2 DEF Typed, TypeOK
        <5> QED
          BY <2>1, <3>2, <4>2, <5>1
      <4>3. CASE /\ a.ex <= day /\ \A l \in OldLots(a) : (lots[l].qty * a.num) % a.den = 0
                 /\ lots' = Split(a) /\ status' = [status EXCEPT ![a] = "applied"]
                 /\ UNCHANGED frozen
        <5>1. SharesOf(lots') =
                [SharesOf(lots) EXCEPT ![a.etf] = (SharesOf(lots)[a.etf] * a.num) \div a.den]
          BY <3>2, <3>4, <4>3, SplitIsWhole
        <5> SUFFICES ASSUME NEW e \in Etfs, ~frozen[e]
                     PROVE  Becomes(status', e, HeldIn(lots', e), day, real[e])
          BY <3>2, <4>3 DEF RealInv
        <5>2. Becomes(status, e, HeldIn(lots, e), day, real[e])
          BY DEF RealInv
        <5>3. CASE e # a.etf
          <6>1. HeldIn(lots', e) = HeldIn(lots, e)
            <7>1. SharesOf(lots')[e] = SharesOf(lots)[e]
              BY <5>1, <5>3 DEF SharesOf
            <7> QED
              BY <7>1 DEF SharesOf
          <6>2. \A s \in Splits : s.etf = e => status'[s] = status[s]
            BY <4>3, <5>3 DEF Typed, TypeOK, Actions
          <6> QED
            BY <2>0, <5>2, <6>1, <6>2, BecomesSame
        <5>4. CASE e = a.etf
          <6>1. HeldIn(lots', e) = (HeldIn(lots, e) * a.num) \div a.den
            <7>1. SharesOf(lots')[e] = (SharesOf(lots)[e] * a.num) \div a.den
              BY <5>1, <5>4 DEF SharesOf
            <7> QED
              BY <7>1 DEF SharesOf
          <6>2. HeldIn(lots, e) \in Int /\ day <= day
            BY <2>0, OwnRows DEF Typed, TypeOK
          <6>3. Becomes([status EXCEPT ![a] = "applied"], a.etf, HeldIn(lots', e), day, real[e])
            BY <2>0, <3>1, <3>2, <3>4, <4>3, <5>2, <5>4, <6>1, <6>2, AppliedBecomes
          <6> QED
            BY <4>3, <5>4, <6>3
        <5> QED
          BY <5>3, <5>4
      <4> QED
        BY <3>4, <4>1, <4>2, <4>3, ApplySplitSays
    <3> QED
      BY <3>1, <3>3, <3>4
  <2>5. CASE MatchOne
    <3>1. PICK e \in Etfs :
            \/ UNCHANGED <<lots, real>>
            \/ /\ ~Blocked(e)
               /\ \E q \in 1 .. MaxShares : Filled(e, q) /\ (FillSale(e, q) \/ FillBuy(e, q))
      BY <2>5, MatchOneSays
    <3>2. UNCHANGED <<status, day, frozen>> /\ pc = "match"
      BY <2>5 DEF MatchOne, clock, corporate
    <3>3. CASE UNCHANGED <<lots, real>>
      BY <2>1, <3>2, <3>3
    <3>4. ASSUME NEW q \in 1 .. MaxShares, Filled(e, q), FillSale(e, q) \/ FillBuy(e, q), ~Blocked(e)
          PROVE  RealInv'
      <4>1. q \in Int /\ -q \in Int /\ price[e] * q + FeeOf(e, q) \in Int
            /\ -(price[e] * q + FeeOf(e, q)) \in Int /\ price[e] * q - FeeOf(e, q) \in Int
        BY <3>4, FilledFits
      <4>2. CASE FillSale(e, q)
        <5>1. PICK c \in Int : FillOf(e, -q, c, price[e] * q - FeeOf(e, q))
          BY <3>4, <4>2, FillSaleSays
        <5> QED
          BY <3>2, <3>4, <4>1, <5>1, TradedBecomes
      <4>3. CASE FillBuy(e, q)
        <5>1. FillOf(e, q, price[e] * q + FeeOf(e, q), -(price[e] * q + FeeOf(e, q)))
          BY <3>4, <4>3, FillBuySays
        <5> QED
          BY <3>2, <3>4, <4>1, <5>1, TradedBecomes
      <4> QED
        BY <3>4, <4>2, <4>3
    <3> QED
      BY <3>1, <3>3, <3>4
  <2> QED
    BY <2>1, <2>2, <2>3, <2>4, <2>5
    DEF Next, Submit, Withdraw, SetCapital, MatchStart, Abort, vars, corporate, books, clock, truth
<1> QED
  BY <1>1, <1>2, TypedHolds, LeftToDoHolds, OrderedHolds, LotsOldHolds, SplitsKnownHolds, PTL
  DEF Spec

(* Once the day's actions are in and applied, the lots hold what the       *)
(* account would hold at the exchange: whatever was downloaded late, in    *)
(* whatever tick the rows were applied.                                    *)
THEOREM LotsAreReal == Spec => []SharesAreReal
<1>1. RealInv /\ Typed => SharesAreReal
  <2> SUFFICES ASSUME RealInv, Typed, NEW e \in Etfs, ~frozen[e],
                      \A s \in Splits : s.etf = e /\ s.ex <= day => status[s] = "applied"
               PROVE  Held(e) = real[e]
    BY DEF SharesAreReal
  <2>1. Becomes(status, e, HeldIn(lots, e), day, real[e])
    BY DEF RealInv
  <2>2. HeldIn(lots, e) \in Int /\ day \in Nat
    BY OwnRows, LedgerAssumption DEF Typed, TypeOK
  <2>3. real[e] = HeldIn(lots, e)
    BY <2>1, <2>2, BecomesAll
  <2> QED
    BY <2>3, TheTable
<1> QED
  BY <1>1, TypedHolds, RealHolds, PTL

----------------------------------------------------------------------------
(* After the close of the record day a dividend is due for the shares the  *)
(* position ledger had on that day, rescaled by the splits up to then that *)
(* it does not show yet; a recorded dividend is owed what is due.          *)
AfterRecord(d) == d.record < day \/ (d.record = day /\ closed)
DueFor(st, d, v, amount) ==
  \E r \in Int : amount = d.value * r /\ Becomes(st, d.etf, v, d.record, r)
DueInv ==
  \A d \in Dividends : ~frozen[d.etf] =>
    IF status[d] \in {"unknown", "pending"}
    THEN AfterRecord(d) => DueFor(status, d, held[d.etf][d.record], due[d])
    ELSE AfterRecord(d) /\ owed[d] = due[d]

LEMMA RecordDay ==
  ASSUME Typed, NEW d \in Dividends
  PROVE  /\ d.etf \in Etfs /\ d.record \in Nat /\ d.value \in Nat /\ d.ex \in Nat
         /\ d.record < d.ex /\ d \in Actions /\ d \notin Splits
         /\ AfterRecord(d) => d.record \in 1 .. Days /\ d.record <= day
<1>1. /\ d.etf \in Etfs /\ d.record \in Nat \ {0} /\ d.value \in Nat /\ d.ex \in Nat
      /\ d.record < d.ex /\ d \in Actions /\ d \notin Splits
  BY LedgerAssumption DEF Actions
<1>2. day \in 1 .. Days /\ Days \in Nat
  BY DayIsNat
<1> QED
  BY <1>1, <1>2 DEF AfterRecord

LEMMA DueForSame ==
  ASSUME Typed, NEW st, NEW tt, NEW d \in Dividends, NEW v, NEW amount, DueFor(st, d, v, amount),
         \A s \in Splits : s.etf = d.etf /\ s.ex <= d.record =>
           (st[s] = "applied" <=> tt[s] = "applied")
  PROVE  DueFor(tt, d, v, amount)
<1>1. PICK r \in Int : amount = d.value * r /\ Becomes(st, d.etf, v, d.record, r)
  BY DEF DueFor
<1>2. d.record \in Nat
  BY RecordDay
<1>3. Becomes(tt, d.etf, v, d.record, r)
  BY <1>1, <1>2, BecomesSame
<1> QED
  BY <1>1, <1>3 DEF DueFor

(* At the close of the record day.                                         *)
LEMMA DueAtClose ==
  ASSUME Typed, Typed', LeftToDo, Books, RealInv, DueInv, PassTime
  PROVE  DueInv'
<1>1. UNCHANGED <<status, frozen, owed, held>>
  BY DEF PassTime, books
<1>2. day \in Nat /\ day \in 1 .. Days /\ Days \in Nat /\ closed \in BOOLEAN
  BY DayIsNat DEF Typed, TypeOK
<1> SUFFICES ASSUME NEW d \in Dividends, ~frozen[d.etf]
             PROVE  IF status[d] \in {"unknown", "pending"}
                    THEN AfterRecord(d)' => DueFor(status, d, held[d.etf][d.record], due'[d])
                    ELSE AfterRecord(d)' /\ owed[d] = due'[d]
  BY <1>1 DEF DueInv
<1>3. IF status[d] \in {"unknown", "pending"}
      THEN AfterRecord(d) => DueFor(status, d, held[d.etf][d.record], due[d])
      ELSE AfterRecord(d) /\ owed[d] = due[d]
  BY DEF DueInv
<1>4. d.record \in Nat /\ d.etf \in Etfs
  BY RecordDay
<1>5. CASE closed /\ day' = day + 1 /\ closed' = FALSE /\ UNCHANGED due
  <2>1. AfterRecord(d)' <=> AfterRecord(d)
    BY <1>2, <1>4, <1>5 DEF AfterRecord
  <2> QED
    BY <1>3, <1>5, <2>1
<1>6. CASE /\ ~closed /\ closed' /\ UNCHANGED day
           /\ due' = [x \in Dividends |->
                IF x.record = day THEN x.value * real[x.etf] ELSE due[x]]
  <2>1. CASE d.record # day
    <3>1. (AfterRecord(d)' <=> AfterRecord(d)) /\ due'[d] = due[d]
      BY <1>6, <2>1 DEF AfterRecord
    <3> QED
      BY <1>3, <3>1
  <2>2. CASE d.record = day
    <3>1. ~AfterRecord(d)
      BY <1>2, <1>6, <2>2 DEF AfterRecord
    <3>2. status[d] \in {"unknown", "pending"}
      BY <1>3, <3>1
    <3>3. Becomes(status, d.etf, HeldIn(lots, d.etf), day, real[d.etf])
      BY <1>4 DEF RealInv
    <3>4. HeldIn(lots, d.etf) = held[d.etf][d.record]
      BY <1>2, <1>4, <2>2 DEF Books
    <3>5. due'[d] = d.value * real[d.etf] /\ real[d.etf] \in Int
      BY <1>4, <1>6, <2>2 DEF Typed
    <3>6. DueFor(status, d, held[d.etf][d.record], due'[d])
      BY <2>2, <3>3, <3>4, <3>5 DEF DueFor
    <3> QED
      BY <3>2, <3>6
  <2> QED
    BY <2>1, <2>2
<1> QED
  BY <1>2, <1>5, <1>6 DEF PassTime

(* apply_actions records a dividend after the splits that come before it.  *)
LEMMA DueWhenRecorded ==
  ASSUME Typed, Ordered, LeftToDo, DueInv, pc = "apply", NEW a \in Dividends, FirstAction(a),
         status[a] \notin {"unknown", "paid", "applied"}, ApplyDividend(a),
         UNCHANGED <<day, closed, due>>
  PROVE  DueInv'
<1>1. PICK b \in Int, st \in {"pending", "recorded", "entitled", "paid"} :
        /\ b = IF Recorded(a) THEN Entitlement(a) ELSE owed[a]
        /\ owed' = [owed EXCEPT ![a] = b] /\ status' = [status EXCEPT ![a] = st]
        /\ st = "pending" <=> status[a] = "pending" /\ ~Recorded(a)
        /\ UNCHANGED <<frozen, held>>
  BY ApplyDividendSays
<1>2. \A s \in Splits : status'[s] = status[s]
  BY <1>1, RecordDay
<1> SUFFICES ASSUME NEW d \in Dividends, ~frozen[d.etf]
             PROVE  IF status'[d] \in {"unknown", "pending"}
                    THEN AfterRecord(d) => DueFor(status', d, held[d.etf][d.record], due[d])
                    ELSE AfterRecord(d) /\ owed'[d] = due[d]
  BY <1>1 DEF DueInv, AfterRecord
<1>3. IF status[d] \in {"unknown", "pending"}
      THEN AfterRecord(d) => DueFor(status, d, held[d.etf][d.record], due[d])
      ELSE AfterRecord(d) /\ owed[d] = due[d]
  BY DEF DueInv
<1>4. CASE status'[d] = status[d] /\ owed'[d] = owed[d]
  <2>1. DueFor(status, d, held[d.etf][d.record], due[d])
          => DueFor(status', d, held[d.etf][d.record], due[d])
    BY <1>2, DueForSame
  <2> QED
    BY <1>3, <1>4, <2>1
<1>5. CASE d = a /\ ~(status'[d] = status[d] /\ owed'[d] = owed[d])
  <2>1. d \in Actions /\ status'[d] = st /\ owed'[d] = b
    BY <1>1, <1>5, RecordDay DEF Typed, TypeOK
  <2>2. CASE ~Recorded(d)
    <3>1. b = owed[d] /\ status[d] \notin {"unknown", "pending"}
      BY <1>1, <1>5, <2>1, <2>2
    <3>2. st \notin {"unknown", "pending"}
      BY <1>1, <1>5, <3>1
    <3> QED
      BY <1>3, <2>1, <3>1, <3>2
  <2>3. CASE Recorded(d)
    <3>1. status[d] = "pending" /\ AfterRecord(d)
      BY <2>3 DEF Recorded, AfterRecord
    <3>2. PICK r \in Int : /\ due[d] = d.value * r
                           /\ Becomes(status, d.etf, held[d.etf][d.record], d.record, r)
      BY <1>3, <3>1 DEF DueFor
    <3>3. /\ d.record \in 1 .. Days /\ d.record \in Nat /\ d.etf \in Etfs /\ d.record <= day
          /\ d.ex \in Nat /\ d.record < d.ex /\ day \in Nat
      BY <3>1, RecordDay, DayIsNat
    <3>4. \A s \in Splits : s.etf = d.etf /\ s.ex <= d.record => status[s] = "applied"
      <4> SUFFICES ASSUME NEW s \in Splits, s.etf = d.etf, s.ex <= d.record
                   PROVE  status[s] = "applied"
        OBVIOUS
      <4>1. status[s] # "unknown"
        BY <3>1 DEF Ordered, KnownInOrder
      <4>2. s.ex \in Int /\ s.ex < d.ex /\ s.ex <= day
        <5>1. s.ex \in Int
          BY LedgerAssumption
        <5> QED
          BY <3>3, <5>1
      <4> QED
        BY <1>5, <2>1, <4>1, <4>2, EarlierApplied
    <3>5. held[d.etf][d.record] \in Int
      BY <3>3 DEF Typed
    <3>6. r = held[d.etf][d.record]
      BY <3>2, <3>3, <3>4, <3>5, BecomesAll
    <3>7. b = d.value * r
      BY <1>1, <1>5, <2>3, <3>6 DEF Entitlement
    <3>8. st # "pending"
      BY <1>1, <1>5, <2>3
    <3> QED
      BY <1>1, <2>1, <3>1, <3>2, <3>7, <3>8
  <2> QED
    BY <2>2, <2>3
<1>6. d # a => status'[d] = status[d] /\ owed'[d] = owed[d]
  BY <1>1 DEF Typed, TypeOK
<1> QED
  BY <1>4, <1>5, <1>6

(* A split applied after the record day of a dividend, but in force before *)
(* it, rescales what the position ledger says of that day.                 *)
LEMMA DueWhenSplit ==
  ASSUME Typed, Ordered, LeftToDo, LotsOld, SameSince, Books, DueInv, pc = "apply",
         NEW a \in Splits, FirstAction(a), status[a] \notin {"unknown", "paid", "applied"},
         a.ex <= day, \A l \in OldLots(a) : (lots[l].qty * a.num) % a.den = 0,
         lots' = Split(a),
         held' = [held EXCEPT ![a.etf] =
                    [d \in 1 .. Days |-> IF d >= a.ex THEN held[a.etf][d] + Added(a)
                                         ELSE held[a.etf][d]]],
         status' = [status EXCEPT ![a] = "applied"],
         UNCHANGED <<frozen, owed, day, closed, due>>
  PROVE  DueInv'
<1>1. a.etf \in Etfs /\ a.ex \in Nat /\ a \in Actions /\ a \notin Dividends
  BY LedgerAssumption DEF Actions
<1>2. \A x \in Actions : x # a => status'[x] = status[x]
  BY <1>1 DEF Typed, TypeOK
<1> SUFFICES ASSUME NEW d \in Dividends, ~frozen[d.etf]
             PROVE  IF status'[d] \in {"unknown", "pending"}
                    THEN AfterRecord(d) => DueFor(status', d, held'[d.etf][d.record], due[d])
                    ELSE AfterRecord(d) /\ owed[d] = due[d]
  BY DEF DueInv, AfterRecord
<1>3. IF status[d] \in {"unknown", "pending"}
      THEN AfterRecord(d) => DueFor(status, d, held[d.etf][d.record], due[d])
      ELSE AfterRecord(d) /\ owed[d] = due[d]
  BY DEF DueInv
<1>4. status'[d] = status[d]
  BY <1>1, <1>2, RecordDay
<1> SUFFICES ASSUME status[d] \in {"unknown", "pending"}, AfterRecord(d)
             PROVE  DueFor(status', d, held'[d.etf][d.record], due[d])
  BY <1>3, <1>4
<1>5. /\ d.etf \in Etfs /\ d.record \in 1 .. Days /\ d.record \in Nat /\ d.record <= day
      /\ day \in 1 .. Days /\ Days \in 1 .. Days
  <2>1. day \in 1 .. Days /\ Days \in Nat
    BY DayIsNat
  <2>2. Days \in 1 .. Days
    BY <2>1
  <2> QED
    BY <2>1, <2>2, RecordDay
<1>6. PICK r \in Int : /\ due[d] = d.value * r
                       /\ Becomes(status, d.etf, held[d.etf][d.record], d.record, r)
  BY <1>3 DEF DueFor
<1>7. /\ held[d.etf][d.record] \in Int
      /\ held'[d.etf][d.record] = held[d.etf][d.record]
           + (IF d.etf = a.etf /\ a.ex <= d.record THEN Added(a) ELSE 0)
  BY <1>5, SplitSays DEF Typed
<1>8. CASE ~(d.etf = a.etf /\ a.ex <= d.record)
  <2>1. held'[d.etf][d.record] = held[d.etf][d.record]
    BY <1>7, <1>8
  <2>2. \A s \in Splits : s.etf = d.etf /\ s.ex <= d.record =>
          (status[s] = "applied" <=> status'[s] = "applied")
    BY <1>2, <1>8 DEF Actions
  <2>3. DueFor(status, d, held[d.etf][d.record], due[d])
    BY <1>3
  <2>4. DueFor(status', d, held[d.etf][d.record], due[d])
    BY <2>2, <2>3, DueForSame
  <2> QED
    BY <2>1, <2>4
<1>9. CASE d.etf = a.etf /\ a.ex <= d.record
  <2>1. held[d.etf][d.record] = HeldIn(lots, d.etf)
    BY <1>5, <1>9 DEF SameSince, Books
  <2>2. held'[d.etf][d.record] = HeldIn(lots', d.etf)
    <3>1. HeldIn(lots', d.etf) = HeldIn(lots, d.etf) + Added(a)
      BY <1>5, <1>9, SplitSays
    <3> QED
      BY <1>7, <1>9, <2>1, <3>1
  <2>3. HeldIn(lots', a.etf) = (HeldIn(lots, a.etf) * a.num) \div a.den
    <3>1. SharesOf(lots') =
            [SharesOf(lots) EXCEPT ![a.etf] = (SharesOf(lots)[a.etf] * a.num) \div a.den]
      BY SplitIsWhole
    <3>2. SharesOf(lots')[a.etf] = (SharesOf(lots)[a.etf] * a.num) \div a.den
      BY <1>1, <3>1 DEF SharesOf
    <3> QED
      BY <1>1, <3>2 DEF SharesOf
  <2>4. held'[d.etf][d.record] = (held[d.etf][d.record] * a.num) \div a.den
    BY <1>9, <2>1, <2>2, <2>3
  <2>5. Becomes([status EXCEPT ![a] = "applied"], a.etf, held'[d.etf][d.record], d.record, r)
    BY <1>5, <1>6, <1>7, <1>9, <2>4, AppliedBecomes
  <2> QED
    BY <1>6, <1>9, <2>5 DEF DueFor
<1> QED
  BY <1>8, <1>9

LEMMA DueHolds == Spec => []DueInv
<1>1. Init => DueInv
  <2> SUFFICES ASSUME Init, NEW d \in Dividends PROVE ~AfterRecord(d) /\ status[d] = "unknown"
    BY DEF DueInv
  <2>1. d.record \in Nat \ {0} /\ day = 1 /\ ~closed
    BY LedgerAssumption DEF Init
  <2> QED
    BY <2>1 DEF Init, AfterRecord, Actions
<1>2. DueInv /\ Typed /\ Typed' /\ LeftToDo /\ Ordered /\ LotsOld /\ SameSince /\ Books
        /\ RealInv /\ [Next]_vars => DueInv'
  <2> SUFFICES ASSUME DueInv, Typed, Typed', LeftToDo, Ordered, LotsOld, SameSince, Books,
                      RealInv, [Next]_vars
               PROVE  DueInv'
    OBVIOUS
  <2>1. CASE /\ UNCHANGED <<day, closed, due, owed>>
             /\ \A e \in Etfs : frozen[e] => frozen'[e]
             /\ \A a \in Actions :
                  status'[a] = status[a] \/ (status[a] = "unknown" /\ status'[a] = "pending")
             /\ \A d \in Dividends :
                  AfterRecord(d) => held'[d.etf][d.record] = held[d.etf][d.record]
    <3> SUFFICES ASSUME NEW d \in Dividends, ~frozen'[d.etf]
                 PROVE  IF status'[d] \in {"unknown", "pending"}
                        THEN AfterRecord(d) => DueFor(status', d, held'[d.etf][d.record], due[d])
                        ELSE AfterRecord(d) /\ owed[d] = due[d]
      BY <2>1 DEF DueInv, AfterRecord
    <3>1. d.etf \in Etfs /\ d \in Actions
      BY RecordDay
    <3>2. IF status[d] \in {"unknown", "pending"}
          THEN AfterRecord(d) => DueFor(status, d, held[d.etf][d.record], due[d])
          ELSE AfterRecord(d) /\ owed[d] = due[d]
      BY <2>1, <3>1 DEF DueInv
    <3>3. \A s \in Splits : status[s] = "applied" <=> status'[s] = "applied"
      BY <2>1 DEF Actions
    <3>4. DueFor(status, d, held[d.etf][d.record], due[d])
            => DueFor(status', d, held[d.etf][d.record], due[d])
      BY <3>3, DueForSame
    <3>5. status'[d] \in {"unknown", "pending"} <=> status[d] \in {"unknown", "pending"}
      BY <2>1, <3>1
    <3> QED
      BY <2>1, <3>2, <3>4, <3>5
  <2>2. CASE PassTime
    BY <2>2, DueAtClose
  <2>3. CASE Collect
    <3>1. /\ UNCHANGED <<day, closed, due, owed, held>> /\ \A e \in Etfs : frozen[e] => frozen'[e]
          /\ \A a \in Actions :
               status'[a] = status[a] \/ (status[a] = "unknown" /\ status'[a] = "pending")
      BY <2>3, CollectSays DEF clock, truth
    <3> QED
      BY <2>1, <3>1
  <2>4. CASE ApplyOne
    <3>1. PICK a \in todo : /\ FirstAction(a)
                            /\ \/ a \in Dividends /\ ApplyDividend(a)
                               \/ a \in Splits /\ ApplySplit(a) /\ UNCHANGED owed
      BY <2>4 DEF ApplyOne
    <3>2. /\ pc = "apply" /\ status[a] \notin {"unknown", "paid", "applied"}
          /\ UNCHANGED <<day, closed, due>>
      BY <2>4, <3>1 DEF ApplyOne, LeftToDo, clock, truth
    <3>3. CASE a \in Dividends /\ ApplyDividend(a)
      BY <3>1, <3>2, <3>3, DueWhenRecorded
    <3>4. CASE a \in Splits /\ ApplySplit(a) /\ UNCHANGED owed
      <4>1. CASE UNCHANGED <<held, status, frozen>>
        BY <2>1, <3>2, <3>4, <4>1
      <4>2. CASE frozen' = [frozen EXCEPT ![a.etf] = TRUE] /\ UNCHANGED <<held, status>>
        <5>1. \A e \in Etfs : frozen[e] => frozen'[e]
          BY <4>2 DEF Typed, TypeOK
        <5> QED
          BY <2>1, <3>2, <3>4, <4>2, <5>1
      <4>3. CASE /\ a.ex <= day /\ \A l \in OldLots(a) : (lots[l].qty * a.num) % a.den = 0
                 /\ lots' = Split(a)
                 /\ held' = [held EXCEPT ![a.etf] =
                      [d \in 1 .. Days |-> IF d >= a.ex THEN held[a.etf][d] + Added(a)
                                           ELSE held[a.etf][d]]]
                 /\ status' = [status EXCEPT ![a] = "applied"] /\ UNCHANGED frozen
        BY <3>1, <3>2, <3>4, <4>3, DueWhenSplit
      <4> QED
        BY <3>4, <4>1, <4>2, <4>3, ApplySplitSays
    <3> QED
      BY <3>1, <3>3, <3>4
  <2>5. CASE MatchOne
    <3>1. PICK e \in Etfs :
            \/ UNCHANGED held
            \/ \E q \in 1 .. MaxShares : Filled(e, q) /\ (FillSale(e, q) \/ FillBuy(e, q))
      BY <2>5, MatchOneSays
    <3>2. UNCHANGED <<status, day, closed, frozen, owed, due>> /\ pc = "match" /\ ~closed
      BY <2>5 DEF MatchOne, clock, corporate, Ordered
    <3>3. CASE UNCHANGED held
      BY <2>1, <3>2, <3>3
    <3>4. ASSUME NEW q \in 1 .. MaxShares, Filled(e, q), FillSale(e, q) \/ FillBuy(e, q)
          PROVE  DueInv'
      <4>1. PICK m \in Int : \A f \in Etfs, x \in 1 .. Days :
              held'[f][x] = held[f][x] + (IF f = e /\ day <= x THEN m ELSE 0)
        <5>1. q \in Int /\ -q \in Int
          BY <3>4, FilledFits
        <5>2. CASE FillSale(e, q)
          <6>1. PICK c \in Int : FillOf(e, -q, c, price[e] * q - FeeOf(e, q))
            BY <3>4, <5>2, FillSaleSays
          <6> QED
            BY <5>1, <6>1 DEF FillOf
        <5>3. CASE FillBuy(e, q)
          <6>1. FillOf(e, q, price[e] * q + FeeOf(e, q), -(price[e] * q + FeeOf(e, q)))
            BY <3>4, <5>3, FillBuySays
          <6> QED
            BY <5>1, <6>1 DEF FillOf
        <5> QED
          BY <3>4, <5>2, <5>3
      <4>2. ASSUME NEW d \in Dividends, AfterRecord(d)
            PROVE  held'[d.etf][d.record] = held[d.etf][d.record]
        <5>1. d.record \in 1 .. Days /\ d.record \in Nat /\ d.etf \in Etfs /\ day \in Nat
          BY <4>2, RecordDay, DayIsNat
        <5>2. ~(day <= d.record)
          BY <3>2, <4>2, <5>1 DEF AfterRecord
        <5>3. held[d.etf][d.record] \in Int
          BY <5>1 DEF Typed
        <5> QED
          BY <4>1, <5>1, <5>2, <5>3
      <4> QED
        BY <2>1, <3>2, <4>2
    <3> QED
      BY <3>1, <3>3, <3>4
  <2>6. CASE UNCHANGED <<day, closed, due, owed, status, frozen, held>>
    BY <2>1, <2>6
  <2>7. CASE \/ \E e \in Etfs, side \in Side, q \in 1 .. MaxShares : Submit(e, side, q)
             \/ \E e \in Etfs : Withdraw(e)
             \/ \E c \in Capitals : SetCapital(c)
    BY <2>6, <2>7 DEF Submit, Withdraw, SetCapital, corporate, clock, truth
  <2>8. CASE MatchStart \/ Abort \/ UNCHANGED vars
    BY <2>6, <2>8 DEF MatchStart, Abort, vars, corporate, books, clock, truth
  <2> QED
    BY <2>2, <2>3, <2>4, <2>5, <2>7, <2>8 DEF Next
<1> QED
  BY <1>1, <1>2, TypedHolds, LeftToDoHolds, OrderedHolds, LotsOldHolds, SameSinceHolds, BooksHold,
     RealHolds, PTL DEF Spec

(* The shares at the close of the record day determine the dividend,       *)
(* whenever apply_actions records it and whatever was sold, bought or      *)
(* split since: the position ledger keeps that day's shares, and a split   *)
(* that comes late corrects them before the dividend is recorded.          *)
THEOREM DividendsAreDue == Spec => []DividendIsDue
<1>1. DueInv => DividendIsDue
  BY DEF DueInv, DividendIsDue
<1> QED
  BY <1>1, DueHolds, PTL
=============================================================================
