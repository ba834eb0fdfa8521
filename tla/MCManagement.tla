----------------------------- MODULE MCManagement -----------------------------
(* The plugins are interchangeable, and so are the LSIs.  *)
EXTENDS Management, TLC

Symmetry == Permutations(Plugins) \cup Permutations(Dpids)

=============================================================================
