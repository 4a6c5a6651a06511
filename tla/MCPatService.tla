---------------------------- MODULE MCPatService ----------------------------
EXTENDS PatRegistry, TLC

(* Calls are interchangeable, and so are the PATs.                         *)
Symmetry == Permutations(Calls) \cup Permutations(Pats)
=============================================================================
