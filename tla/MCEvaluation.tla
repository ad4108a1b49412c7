---------------------------- MODULE MCEvaluation ----------------------------
(***************************************************************************)
(* The instance of Evaluation that TLC checks: two ETFs compete for one    *)
(* position; the quotes of the first come and go.                          *)
(***************************************************************************)
EXTENDS Evaluation

MCDecisions ==
  [s \in Etfs |-> IF s = 1 THEN {[act |-> "buy", rr |-> 2], [act |-> "exit", rr |-> 0]}
                  ELSE {[act |-> "buy", rr |-> 3]}]
MCMaxQuotes == [s \in Etfs |-> IF s = 1 THEN 3 ELSE 1]
MCRequired == <<1, 2>>
=============================================================================
