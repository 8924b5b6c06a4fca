----------------------------- MODULE MCFlowCredit -----------------------------
(* Instances of FlowCredit for TLC, in units of 128us: the cap is scaled    *)
(* down so that deposits reach it.                                          *)
EXTENDS FlowCredit

(* A head with room, and one past its deadline: a head with a positive      *)
(* exceeding time has no laxity (FlowMathProofs!ExceedHasNoLaxity).         *)
MCHeads == {[exceed |-> 0, laxity |-> 1], [exceed |-> 3, laxity |-> 0]}
=============================================================================
