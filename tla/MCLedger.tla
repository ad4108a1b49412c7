------------------------------- MODULE MCLedger -------------------------------
(***************************************************************************)
(* The instance of Ledger that TLC checks: the first ETF pays a dividend   *)
(* recorded on day 1 and is merged 4 into 1 on day 2, the second one has   *)
(* no actions but shares the cash and the limits.                          *)
(***************************************************************************)
EXTENDS Ledger

MCPrices    == [A |-> {1, 2}, B |-> {1}]
MCRooms     == [e \in {"A", "B"} |-> {4}]
MCSettlement == [A |-> 1, B |-> 0]
MCSplits    == {[etf |-> "A", id |-> 1, ex |-> 2, num |-> 1, den |-> 4]}
MCDividends == {[etf |-> "A", id |-> 2, record |-> 1, ex |-> 2, pay |-> 2, value |-> 1]}
=============================================================================
