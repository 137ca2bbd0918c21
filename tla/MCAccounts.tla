----------------------------- MODULE MCAccounts -----------------------------
(* Instances of Accounts for TLC.                                          *)
EXTENDS Accounts, TLC

Symmetry ==
    Permutations(Subs) \union Permutations(Idents) \union
    Permutations(UserIds) \union Permutations(Requests)

=============================================================================
