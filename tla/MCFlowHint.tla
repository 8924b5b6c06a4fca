------------------------------ MODULE MCFlowHint ------------------------------
(* Instances of FlowHint for TLC: three cgroups for two rows, two pids for  *)
(* one cache entry.                                                         *)
EXTENDS FlowHint, TLC

CONSTANTS g, h, t, u, p, q

(* A pid or a task is as good as any other.                                 *)
HintSymmetry == Permutations({t, u}) \cup Permutations({p, q})
=============================================================================
