------------------------------ MODULE MCFlowScan ------------------------------
(* Instances of FlowScan for TLC.                                            *)
EXTENDS FlowScan

CONSTANTS a, b, d

(* Seven CPUs, half windows: overlapping masks around the waker CPU 0.      *)
MaskMix == (a :> {0, 2, 4}) @@ (b :> {0, 2, 5}) @@ (d :> {2})
NodeTwo == [c \in Cpus |-> IF c \in {0, 4, 5} THEN 0 ELSE 1]

(* Ten CPUs, the real windows: two tasks of one cpuset of CPUs 0 and 9.     *)
MaskFar == (a :> {0, 9}) @@ (b :> {0, 9})
NodeEach == [c \in Cpus |-> IF c = 9 THEN 1 ELSE 0]
=============================================================================
