------------------------------ MODULE MCFlowTask ------------------------------
(* One task, in microseconds: every constant of enum flow_consts keeps its  *)
(* value, a u64 has 30 bits.                                                *)
EXTENDS FlowTask

(* No row, and the bands of a light and a heavy cgroup.                      *)
MCHints == {[us |-> 0, w |-> 128], [us |-> 4000, w |-> 1024]}
=============================================================================
