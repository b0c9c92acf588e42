---------------------------- MODULE MCJobRuntime ----------------------------
(* Values for TLC: up to two jobs of one scope, the first of them with the  *)
(* conservative recovery policy, and up to two workers with three slots.   *)
EXTENDS JobRuntime, TLC

CONSTANTS j1, j2, s1, w1, w2, x1, x2, x3

MCScopeOf == [j \in Jobs |-> s1]
MCUncertain == {j1}

Symmetry == Permutations(Workers) \cup Permutations(Slots)
=============================================================================
