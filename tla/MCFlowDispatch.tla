---------------------------- MODULE MCFlowDispatch ----------------------------
(* Instances of FlowDispatch for TLC: two CPUs and up to three tasks.       *)
EXTENDS FlowDispatch

CONSTANTS a, b, d

(* Two tasks free to move and one pinned to CPU 1.                          *)
MaskMixed == (a :> {0, 1}) @@ (b :> {0, 1}) @@ (d :> {1})

(* Two tasks free to move.                                                  *)
MaskFree == (a :> {0, 1}) @@ (b :> {0, 1})

(* Every task pinned: two share CPU 0, one has CPU 1.                       *)
MaskPinned == (a :> {0}) @@ (b :> {0}) @@ (d :> {1})

(* Both CPUs on the one node, or CPU 1 past the live nodes.                 *)
NodeOne == (0 :> 0) @@ (1 :> 0)
NodeLost == (0 :> 0) @@ (1 :> 1)

(* The two free tasks are interchangeable.                                  *)
FreeSymmetry == Permutations({a, b})
=============================================================================
