-------------------------- MODULE MCAndroidClient --------------------------
EXTENDS AndroidClient, TLC

Symmetry == Permutations(Coroutines) \union Permutations(Idents) \union Permutations(Accounts)

=============================================================================
