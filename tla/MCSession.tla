------------------------------ MODULE MCSession ------------------------------
(* A small instance of the session package for TLC.                          *)
EXTENDS Session, TLC

Symmetry == Permutations(Threads) \cup Permutations(Clients) \cup Permutations(Ids)
=============================================================================
