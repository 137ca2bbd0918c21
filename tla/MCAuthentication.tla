-------------------------- MODULE MCAuthentication --------------------------
EXTENDS Authentication, TLC

Symmetry == Permutations(Requests) \cup Permutations(Kids)
=============================================================================
