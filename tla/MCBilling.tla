----------------------------- MODULE MCBilling -----------------------------
(* Finite instances of Billing: model values come from the .cfg files.     *)
EXTENDS Billing, TLC

Symmetry == Permutations(Requests) \cup Permutations(Tiers)
============================================================================
