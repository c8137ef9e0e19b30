----------------------------- MODULE ScriptCache -----------------------------
(* The caches of compiled scripts of one Tcl thread (mod_rivet_cache.c and   *)
(* its callers in rivetCore.c): one cache per rivet_thread_interp, a hash    *)
(* table from keys to scripts, the array objCacheList of the keys filled     *)
(* from its end, and cache_free, the number of slots left.                   *)
(*                                                                           *)
(* The module has no next-state relation of its own: RequestProcessing       *)
(* calls its operations as the request processor does.  Script texts are     *)
(* abstracted to what they were made from; file times to a version that      *)
(* grows with every write; an APR pool to the interpreter object it was      *)
(* created for.                                                              *)
EXTENDS Integers, FiniteSets

CONSTANTS
    Interps,      \* the rivet_thread_interp objects of the thread
    Root,         \* the one of the root server
    Separate,     \* module_globals->separate_virtual_interps
    CacheSize,    \* cache_size the configuration asks for
    Files,        \* files that can be requested or parsed
    TclFiles,     \* those handled as plain Tcl scripts when requested
    Encodings,    \* values of parse's -encoding option
    MaxVersion,   \* bound on the number of times a file is written
    EditedFiles,  \* files that are written while the server runs
    None          \* the null pointer

ASSUME CacheAssumption ==
    /\ CacheSize \in Nat /\ MaxVersion \in Nat /\ Separate \in BOOLEAN
    /\ TclFiles \cup EditedFiles \subseteq Files
    /\ None \notin Interps \cup Files \cup Encodings
    /\ Separate \/ Root \in Interps

VARIABLES
    ver,         \* what the file system holds: the version of each file
    table,       \* objCache: from the keys stored to scripts
    list,        \* objCacheList: slots 0..CacheSize-1
    free, size,  \* cache_free, cache_size
    pool,        \* whose pool `pool` points to; None once it was destroyed
    tableFreed   \* the pool the hash table was allocated from is destroyed

cacheVars == <<table, list, free, size, pool, tableFreed>>

Slots   == 0..CacheSize - 1
Version == 0..MaxVersion

Keys    == [file : Files, enc : Encodings \cup {None}, stat : Version,
            top : BOOLEAN, user : BOOLEAN]
Scripts == [file : Files, enc : Encodings \cup {None}, read : Version,
            kind : {"template", "tcl"}]

(* RivetCache_MakeKey; parse puts the encoding behind the file name.         *)
\* mutant: the times are not part of the key
MakeKey_NoTimes(f, e, v, t, u) == [file |-> f, enc |-> e, stat |-> 0, top |-> t, user |-> u]
MakeKey(f, e, v, t, u) == [file |-> f, enc |-> e, stat |-> v, top |-> t, user |-> u]

(* The kind of translation: only a toplevel file may be plain Tcl.           *)
KindOf(f, t) == IF t /\ f \in TclFiles THEN "tcl" ELSE "template"

(* What reading and parsing file f gives now.                                *)
Translate(f, e, t) == [file |-> f, enc |-> e, read |-> ver[f], kind |-> KindOf(f, t)]

CacheTypeOK ==
    /\ ver \in [Files -> Version]
    /\ DOMAIN table = Interps
    /\ \A i \in Interps : \A k \in DOMAIN table[i] : k \in Keys /\ table[i][k] \in Scripts
    /\ list \in [Interps -> [Slots -> Keys \cup {None}]]
    /\ size \in [Interps -> 0..CacheSize]
    /\ free \in [Interps -> 0..CacheSize]
    /\ pool \in [Interps -> Interps \cup {None}]
    /\ tableFreed \in [Interps -> BOOLEAN]

Empty == [k \in {} |-> None]

(* Rivet_VirtualHostsInterps: with separate interpreters each virtual host   *)
(* has an object of its own, otherwise it gets a duplicate of the root's.    *)
CacheInit ==
    /\ ver \in [Files -> {0}]
    /\ table = [i \in Interps |-> Empty]
    /\ list = [i \in Interps |-> [s \in Slots |-> None]]
    /\ size = [i \in Interps |-> CacheSize]
    /\ free = size
    /\ pool = [i \in Interps |-> IF Separate THEN i ELSE Root]
    /\ tableFreed = [i \in Interps |-> FALSE]

(* The hash table of i was made: Rivet_NewVHostInterp makes none for a cache *)
(* of size 0, Rivet_VirtualHostsInterps makes one for the root in any case.  *)
HasTable(i) == CacheSize > 0 \/ i = Root

(* The memory of the table is still there, and that of the list and the keys *)
(* too.                                                                      *)
TableLives(i) == HasTable(i) /\ ~tableFreed[i]
Lives(i)      == TableLives(i) /\ (size[i] > 0 => pool[i] # None)

(* RivetCache_EntryLookup.                                                   *)
Cached(i, k) == k \in DOMAIN table[i]

(* RivetCache_CreateEntry and RivetCache_StoreScript.                        *)
StoreScript(i, k, s) ==
    /\ table' = [table EXCEPT ![i] = [x \in DOMAIN @ \cup {k} |->
                                          IF x = k THEN s ELSE @[x]]]
    /\ list' = [list EXCEPT ![i][free[i] - 1] = k]
    /\ free' = [free EXCEPT ![i] = @ - 1]
    /\ UNCHANGED <<size, pool, tableFreed>>

(* Script s was read for a key that is not cached: keep it if a slot is left.*)
\* mutant: a full cache is not noticed
KeepScript_Full(i, k, s) == IF size[i] > 0 THEN StoreScript(i, k, s) ELSE UNCHANGED cacheVars
KeepScript(i, k, s) == IF free[i] > 0 THEN StoreScript(i, k, s) ELSE UNCHANGED cacheVars

(* Looking up k in the cache of i, and keeping the script if it is not there, *)
(* touches memory that was given back, or a table that was never made.       *)
UsesFreed(i, k) == ~TableLives(i) \/ (~Cached(i, k) /\ free[i] > 0 /\ ~Lives(i))

(* RivetCache_Cleanup: the listed entries are deleted and the pool is        *)
(* destroyed, with all that lives in it, and made anew; without a new pool   *)
(* the cache is disabled.  The table of the root interpreter was allocated   *)
(* from the pool (worker_prefork_common.c) and is not made again, the others *)
(* are in the thread's pool.                                                 *)
\* mutant: the loop starts one slot too high
Cleanup_OneLess(i, poolMade) ==
    LET listed == {list[i][s] : s \in free[i] + 1..size[i] - 1}
        shared == {j \in Interps \ {i} : pool[j] = pool[i]}
    IN /\ table' = [table EXCEPT ![i] = [x \in DOMAIN @ \ listed |-> @[x]]]
       /\ list' = [list EXCEPT ![i] = [s \in Slots |-> None]]
       /\ size' = [size EXCEPT ![i] = IF poolMade THEN @ ELSE 0]
       /\ free' = [free EXCEPT ![i] = size'[i]]
       /\ pool' = [j \in Interps |-> IF j \in shared THEN None
                                     ELSE IF j # i THEN pool[j]
                                     ELSE IF poolMade THEN i ELSE None]
       /\ tableFreed' = [j \in Interps |-> tableFreed[j] \/ (j = Root /\ pool[i] = Root)]

Cleanup(i, poolMade) ==
    LET listed == {list[i][s] : s \in free[i]..size[i] - 1}
        shared == {j \in Interps \ {i} : pool[j] = pool[i]}
    IN /\ table' = [table EXCEPT ![i] = [x \in DOMAIN @ \ listed |-> @[x]]]
       /\ list' = [list EXCEPT ![i] = [s \in Slots |-> None]]
       /\ size' = [size EXCEPT ![i] = IF poolMade THEN @ ELSE 0]
       /\ free' = [free EXCEPT ![i] = size'[i]]
       /\ pool' = [j \in Interps |-> IF j \in shared THEN None
                                     ELSE IF j # i THEN pool[j]
                                     ELSE IF poolMade THEN i ELSE None]
       /\ tableFreed' = [j \in Interps |-> tableFreed[j] \/ (j = Root /\ pool[i] = Root)]

(* Somebody edits a file.                                                    *)
Write(f) ==
    /\ ver[f] < MaxVersion
    /\ ver' = [ver EXCEPT ![f] = @ + 1]
-----------------------------------------------------------------------------
(* What is counted in a cache: the slots in use name each entry exactly once *)
(* and no slot below cache_free names any.                                   *)
Accounted(i) ==
    /\ free[i] <= size[i]
    /\ DOMAIN table[i] = {list[i][s] : s \in free[i]..size[i] - 1}
    /\ Cardinality(DOMAIN table[i]) = size[i] - free[i]
    /\ \A s \in Slots : s < free[i] => list[i][s] = None

(* The list of keys and the table of a cache whose memory is there never     *)
(* disagree, so that a cleanup forgets everything and no store overwrites a  *)
(* key in use.  Which memory is there: with separate interpreters that of    *)
(* every virtual host, cleaned up or not, whether a new pool could be made   *)
(* or not.  It is not that of the root server once its cache was cleaned up, *)
(* nor that of a pool shared by interpreter objects once one of them was.    *)
CacheAccounting ==
    \A i \in Interps :
        /\ Lives(i) => Accounted(i)
        /\ Separate /\ i # Root /\ CacheSize > 0 => Lives(i)

(* A script is kept under a key only if it is the translation, of the kind   *)
(* and with the encoding asked for, of that file as it was when its times    *)
(* were read or later.                                                       *)
EntriesSound(i) ==
    \A k \in DOMAIN table[i] :
        LET s == table[i][k] IN
        /\ s.file = k.file /\ s.enc = k.enc
        /\ s.kind = KindOf(k.file, k.top)
        /\ k.stat <= s.read /\ s.read <= ver[k.file]

=============================================================================
