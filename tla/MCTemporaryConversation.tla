---------------------- MODULE MCTemporaryConversation ----------------------
EXTENDS TemporaryConversation, TLC

\* Requests and ways to end are interchangeable names.
Symmetry == Permutations(Requests) \cup Permutations(Endings)

=============================================================================
