---------------------------- MODULE MCRunStreams ----------------------------
(* Values for TLC: two runs of one floor, connections of its session, of   *)
(* another session and of an admin.  Run ids are fresh nanoids, and        *)
(* handlers only have names, so both are symmetric.                        *)
EXTENDS RunStreams, TLC

CONSTANTS r1, r2, f1, f2, s1, s2, c1, c2, c3, h1, h2

FloorOfRuns == r1 :> f1 @@ r2 :> f1
SessionOfFloors == f1 :> s1 @@ f2 :> s2
ContextOfConns == c1 :> s1 @@ c2 :> AdminContext @@ c3 :> s2

Symmetry == Permutations({h1, h2}) \cup Permutations({r1, r2})

=============================================================================
