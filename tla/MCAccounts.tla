----------------------------- MODULE MCAccounts -----------------------------
(* Finite instances of Accounts: model values come from the .cfg files.    *)
EXTENDS Accounts, TLC

Interchangeable ==
    Permutations(Browsers) \cup Permutations(Requests) \cup Permutations(Links)
=============================================================================
