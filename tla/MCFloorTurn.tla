---------------------------- MODULE MCFloorTurn -----------------------------
(* Values for TLC.  Floor ids are fresh nanoids, so they are symmetric.    *)
EXTENDS FloorTurn, TLC

CONSTANTS f1, f2, f3, f4

Symmetry == Permutations({f1, f2, f3, f4})

=============================================================================
