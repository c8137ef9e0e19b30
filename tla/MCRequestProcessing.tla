------------------------ MODULE MCRequestProcessing ------------------------
(* Small instances of the request processor and its caches for TLC.          *)
EXTENDS RequestProcessing

(* Scripts around the page, or scripts for what goes wrong with it.          *)
SomeScripts == {{"before", "after"}, {"abort", "error", "every"}}

(* Directories without a RivetDirConf, with and without a RivetUserConf.     *)
UserOrPlain == [dir : {FALSE}, user : BOOLEAN]
AnyPlace    == [dir : BOOLEAN, user : BOOLEAN]

(* The caches of separate interpreters have no memory in common: TLC looks   *)
(* at children that serve the host of one of them, and the root's with up to *)
(* one script in it.                                                         *)
Used(i) == free[i] < CacheSize \/ tableFreed[i]
OneCacheUsed ==
    /\ \A i, j \in Interps : Used(i) /\ Used(j) => i = j
    /\ \A i \in Interps : Used(i) /\ req # None => i = req.host
    /\ free[Root] >= size[Root] - 1
=============================================================================
