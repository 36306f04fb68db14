----------------------------- MODULE MCRecovery -----------------------------
(* Finite instances of Recovery: model values come from the .cfg files.    *)
EXTENDS Recovery, TLC

(* Ladder slots and POSTs are interchangeable.                             *)
Interchangeable == Permutations(Ladders) \cup Permutations(Posts)
============================================================================
