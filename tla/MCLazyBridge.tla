---------------------------- MODULE MCLazyBridge ----------------------------
(* Small instances of the lazy bridge for TLC.                               *)
EXTENDS LazyBridge, TLC

Symmetry == Permutations(Handler) \cup Permutations(Worker)
=============================================================================
