---------------------- MODULE MCGenerationCoordinator -----------------------
(* Values for TLC: three callers that queue and one that does not share a  *)
(* branch; a second branch shows that keys are independent.                *)
EXTENDS GenerationCoordinator, TLC

CONSTANTS q1, q2, q3, n1, o1, main, alt

MCKeyOf  == [r \in Requests |-> IF r = o1 THEN alt ELSE main]
MCModeOf == [r \in Requests |-> IF r = n1 THEN "reject" ELSE "queue"]

Symmetry == Permutations({q1, q2, q3})

=============================================================================
