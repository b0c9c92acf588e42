--------------------------- MODULE MCSessionState ---------------------------
EXTENDS SessionState, TLC

\* Floors are interchangeable names.
Symmetry == Permutations(Floors)

=============================================================================
