--------------------------- MODULE MCSearchLifecycle ---------------------------
(* Small instances of the Search lifecycle.                                *)
EXTENDS SearchLifecycle, TLC

Symmetry == Permutations(Workers) \cup Permutations(Searches)
=============================================================================
