----------------------------- MODULE MCHistories -----------------------------
(***************************************************************************)
(* The instance of Histories that TLC checks: the ETF with the lower code  *)
(* never gets an answer, in the same class as one that does.               *)
(***************************************************************************)
EXTENDS Histories

MCClass == [s \in Etfs |-> 0]
=============================================================================
