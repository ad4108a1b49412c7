------------------------------- MODULE Account -------------------------------
(***************************************************************************)
(* What docs/strategy.md promises of the simulated account, without lots,  *)
(* orders, quotes or days: cash and shares change by whole trades that the *)
(* account can pay for or deliver, a corporate action counts once, and a   *)
(* dividend pays what was owed.  Ledger implements it.                     *)
(***************************************************************************)
EXTENDS Integers

CONSTANTS Etfs, Splits, Dividends

VARIABLES
  cash,    \* the balance of the cash ledger
  shares,  \* [Etfs -> Nat]
  traded,  \* has any order been placed: the capital is fixed from then on
  owed,    \* [Dividends -> Int]
  done     \* corporate actions whose effect is in cash or shares

vars == <<cash, shares, traded, owed, done>>

Init ==
  /\ cash \in Nat /\ shares = [e \in Etfs |-> 0] /\ traded = FALSE
  /\ owed = [d \in Dividends |-> 0] /\ done = {}

Capital == ~traded /\ cash' \in Nat /\ UNCHANGED <<shares, traded, owed, done>>
FirstOrder == ~traded /\ traded' = TRUE /\ UNCHANGED <<cash, shares, owed, done>>

(* A purchase is paid from the cash there is, its fee included.            *)
Buy(e, q, paid) ==
  /\ traded /\ q > 0 /\ paid > 0 /\ paid <= cash
  /\ cash' = cash - paid /\ shares' = [shares EXCEPT ![e] = @ + q]
  /\ UNCHANGED <<traded, owed, done>>
(* A sale delivers shares there are; `got` is what its fee leaves.         *)
Sell(e, q, got) ==
  /\ traded /\ q > 0 /\ q <= shares[e]
  /\ cash' = cash + got /\ shares' = [shares EXCEPT ![e] = @ - q]
  /\ UNCHANGED <<traded, owed, done>>

(* A split rescales every share of its ETF, once.                          *)
Split(s) ==
  /\ s \notin done /\ done' = done \cup {s}
  /\ (shares[s.etf] * s.num) % s.den = 0
  /\ shares' = [shares EXCEPT ![s.etf] = (@ * s.num) \div s.den]
  /\ UNCHANGED <<cash, traded, owed>>

(* What a dividend owes is fixed before it pays, possibly in the same step *)
(* of the worker, and is paid once and in full.                            *)
Owe(d) == owed[d] = 0 /\ owed' = [owed EXCEPT ![d] = owed'[d]]
Record(d) == d \notin done /\ Owe(d) /\ UNCHANGED <<cash, shares, traded, done>>
Pay(d) ==
  /\ d \notin done /\ done' = done \cup {d}
  /\ UNCHANGED owed \/ Owe(d)
  /\ cash' = cash + owed'[d]
  /\ UNCHANGED <<shares, traded>>

Next ==
  \/ Capital \/ FirstOrder
  \/ \E e \in Etfs :
       LET q == shares'[e] - shares[e]
       IN Buy(e, q, cash - cash') \/ Sell(e, -q, cash' - cash)
  \/ \E s \in Splits : Split(s)
  \/ \E d \in Dividends : Record(d) \/ Pay(d)

Spec == Init /\ [][Next]_vars
=============================================================================
