-------------------------- MODULE MCCircularQueue --------------------------
(* Instances of CircularQueue for TLC: threads, and elements, are alike. *)
EXTENDS CircularQueue, TLC

Symmetry == Permutations(Writers) \cup Permutations(Readers) \cup Permutations(Elem)

=============================================================================
