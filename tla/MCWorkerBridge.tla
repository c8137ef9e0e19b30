--------------------------- MODULE MCWorkerBridge ---------------------------
(* Small instances of the worker bridge for TLC.                             *)
EXTENDS WorkerBridge, TLC

Symmetry == Permutations(Handler) \cup Permutations(Thread)
=============================================================================
