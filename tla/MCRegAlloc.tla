----------------------------- MODULE MCRegAlloc -----------------------------
(* RegAlloc for TLC: values and names are interchangeable. *)
EXTENDS RegAlloc, TLC
Symmetry == Permutations(Values) \cup Permutations(Names)
=============================================================================
