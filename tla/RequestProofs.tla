---------------------------- MODULE RequestProofs ----------------------------
(* Theorems about the request processor and the script caches, for every     *)
(* cache size, every set of interpreters, files, encodings, directories and  *)
(* configured scripts, and any sequence of requests, commands and edits.     *)
EXTENDS RequestProcessing, FiniteSetTheorems,
        SequenceTheorems, TLAPS

(* The caches: what is promised of them, and that they are finite.           *)
AllAccounted == \A i \in Interps : Accounted(i)
AllSound     == \A i \in Interps : EntriesSound(i)
FiniteTables == \A i \in Interps : IsFiniteSet(DOMAIN table[i])

(* Only the root's table is ever given back; a cache in use that shares no   *)
(* memory with another has its pool.                                         *)
PoolsOwned ==
    \A i \in Interps :
        /\ tableFreed[i] => i = Root
        /\ Separate => pool[i] \in {i, None} /\ (size[i] > 0 => pool[i] = i)

CacheInv == CacheTypeOK /\ AllAccounted /\ FiniteTables /\ AllSound /\ PoolsOwned

(* The times in a request and in a key being looked up are not from the      *)
(* future, which is what keeps AllSound when a script is stored.         *)
TimesSound ==
    /\ phase \notin {"idle", "gone"} => req \in Request /\ req.stat <= ver[req.file]
    /\ loading # None => loading.stat <= ver[loading.file] /\ ~loading.top

(* What the place of the thread in Rivet_SendContent says of its data.       *)
Responding == ScriptName \cup {"load", "flush"}
Responses  == {<<>>, <<"headers">>, <<"headers", "body">>}

ResponseSound ==
    /\ sent \in Responses
    /\ phase \in Responding => (headersPrinted <=> sent # <<>>)
    /\ phase = "cleanup" /\ ran # <<>> => sent # <<>>

ThreadClean ==
    /\ phase \in {"idle", "gone", "admitted"} =>
         /\ sent = <<>> /\ ran = <<>> /\ ~buffer /\ ~contentSent
         /\ ~pageAborting /\ abortCode = None
    /\ phase \in {"idle", "admitted"} => ~threadExit
    /\ phase = "cleanup" => ~buffer
    /\ phase \notin ScriptName => loading = None
    /\ phase \in ScriptName => ran # <<>>

(* The inductive invariant.                                                  *)
RInv == TypeOK /\ CacheInv /\ TimesSound /\ ResponseSound /\ ThreadClean
-----------------------------------------------------------------------------
(* The operations of the cache.                                              *)

LEMMA InitCache == CacheInit => CacheInv
<1> SUFFICES ASSUME CacheInit PROVE CacheInv
  OBVIOUS
<1>1. CacheTypeOK
  BY CacheAssumption DEF CacheInit, CacheTypeOK, Empty, Slots, Version
<1>2. \A i \in Interps : DOMAIN table[i] = {}
  BY DEF CacheInit, Empty
<1>3. AllAccounted
  <2> SUFFICES ASSUME NEW i \in Interps
               PROVE  /\ free[i] <= size[i]
                      /\ DOMAIN table[i] = {list[i][s] : s \in free[i]..size[i] - 1}
                      /\ Cardinality(DOMAIN table[i]) = size[i] - free[i]
                      /\ \A s \in Slots : s < free[i] => list[i][s] = None
    BY DEF AllAccounted, Accounted
  <2>1. size[i] = CacheSize /\ free[i] = CacheSize /\ list[i] = [s \in Slots |-> None]
    BY DEF CacheInit
  <2>2. {list[i][s] : s \in free[i]..size[i] - 1} = {}
    BY <2>1, CacheAssumption
  <2>3. Cardinality(DOMAIN table[i]) = 0
    BY <1>2, FS_EmptySet
  <2> QED
    BY <1>2, <2>1, <2>2, <2>3, CacheAssumption
<1>4. FiniteTables /\ AllSound
  BY <1>2, FS_EmptySet DEF FiniteTables, AllSound, EntriesSound
<1>5. PoolsOwned
  BY DEF CacheInit, PoolsOwned
<1> QED
  BY <1>1, <1>3, <1>4, <1>5 DEF CacheInv

(* The tables, lists and counters after a store, one interpreter at a time.  *)
LEMMA StoreEffect ==
    ASSUME CacheInv, NEW i \in Interps, NEW k \in Keys, NEW s \in Scripts,
           k \notin DOMAIN table[i], free[i] > 0, StoreScript(i, k, s)
    PROVE  /\ DOMAIN table' = Interps
           /\ DOMAIN table'[i] = DOMAIN table[i] \cup {k}
           /\ table'[i][k] = s
           /\ \A x \in DOMAIN table[i] : table'[i][x] = table[i][x]
           /\ free'[i] = free[i] - 1 /\ free[i] - 1 \in Slots
           /\ \A n \in Slots : list'[i][n] = IF n = free[i] - 1 THEN k ELSE list[i][n]
           /\ \A j \in Interps \ {i} : /\ table'[j] = table[j]
                                       /\ list'[j] = list[j] /\ free'[j] = free[j]
           /\ list' \in [Interps -> [Slots -> Keys \cup {None}]]
           /\ free' \in [Interps -> 0..CacheSize]
           /\ UNCHANGED <<size, pool, tableFreed>>
<1>1. free[i] - 1 \in Slots /\ free[i] \in 1..CacheSize
  BY CacheAssumption DEF CacheInv, CacheTypeOK, Slots
<1> QED
  BY <1>1, CacheAssumption DEF CacheInv, CacheTypeOK, StoreScript

LEMMA StoreKeepsCache ==
    ASSUME CacheInv, NEW i \in Interps, NEW k \in Keys, NEW s \in Scripts,
           k \notin DOMAIN table[i], free[i] > 0, StoreScript(i, k, s),
           s.file = k.file, s.enc = k.enc, s.kind = KindOf(k.file, k.top),
           k.stat <= s.read, s.read <= ver[k.file], ver' = ver
    PROVE  CacheInv'
<1>1. CacheTypeOK'
  <2>1. CacheTypeOK
    BY DEF CacheInv
  <2>2. /\ DOMAIN table' = Interps
        /\ list' \in [Interps -> [Slots -> Keys \cup {None}]]
        /\ free' \in [Interps -> 0..CacheSize]
        /\ UNCHANGED <<size, pool, tableFreed>>
    BY StoreEffect
  <2>3. \A j \in Interps : \A x \in DOMAIN table'[j] : x \in Keys /\ table'[j][x] \in Scripts
    BY <2>1, StoreEffect DEF CacheTypeOK
  <2> QED BY <2>1, <2>2, <2>3 DEF CacheTypeOK
<1>2. AllAccounted'
  <2> SUFFICES ASSUME NEW j \in Interps
               PROVE  /\ free'[j] <= size'[j]
                      /\ DOMAIN table'[j] = {list'[j][n] : n \in free'[j]..size'[j] - 1}
                      /\ Cardinality(DOMAIN table'[j]) = size'[j] - free'[j]
                      /\ \A n \in Slots : n < free'[j] => list'[j][n] = None
    BY DEF AllAccounted, Accounted
  <2>1. CASE j # i
    <3>1. /\ table'[j] = table[j] /\ list'[j] = list[j]
          /\ free'[j] = free[j] /\ size' = size
      BY <2>1, StoreEffect
    <3> QED
      BY <3>1 DEF CacheInv, AllAccounted, Accounted
  <2>2. CASE j = i
    <3>1. free[i] \in 0..CacheSize /\ size[i] \in 0..CacheSize /\ free[i] <= size[i]
      BY DEF CacheInv, CacheTypeOK, AllAccounted, Accounted
    <3>2. free'[i] <= size'[i] /\ free'[i] = free[i] - 1 /\ size'[i] = size[i]
      BY <3>1, StoreEffect, CacheAssumption
    <3>3. \A n \in free[i]..size[i] - 1 : n \in Slots /\ list'[i][n] = list[i][n]
      BY <3>1, StoreEffect, CacheAssumption DEF Slots
    <3>4. list'[i][free[i] - 1] = k
      BY StoreEffect
    <3>5. {list'[i][n] : n \in free[i] - 1..size[i] - 1}
             = {list[i][n] : n \in free[i]..size[i] - 1} \cup {k}
      BY <3>1, <3>3, <3>4, CacheAssumption
    <3>6. DOMAIN table'[i] = {list'[i][n] : n \in free'[i]..size'[i] - 1}
      <4>1. DOMAIN table[i] = {list[i][n] : n \in free[i]..size[i] - 1}
        BY DEF CacheInv, AllAccounted, Accounted
      <4>2. DOMAIN table'[i] = DOMAIN table[i] \cup {k}
        BY StoreEffect
      <4>3. free'[i] = free[i] - 1 /\ size'[i] = size[i]
        BY <3>2
      <4> QED BY <3>5, <4>1, <4>2, <4>3
    <3>7. Cardinality(DOMAIN table'[i]) = Cardinality(DOMAIN table[i]) + 1
      <4>1. IsFiniteSet(DOMAIN table[i])
        BY DEF CacheInv, FiniteTables
      <4>2. Cardinality(DOMAIN table[i] \cup {k}) = Cardinality(DOMAIN table[i]) + 1
        BY <4>1, FS_AddElement
      <4> QED
        BY <4>2, StoreEffect
    <3>8. Cardinality(DOMAIN table'[i]) = size'[i] - free'[i]
      BY <3>1, <3>2, <3>7, CacheAssumption DEF CacheInv, AllAccounted, Accounted
    <3>9. \A n \in Slots : n < free'[i] => list'[i][n] = None
      <4>1. \A n \in Slots : n < free[i] => list[i][n] = None
        BY DEF CacheInv, AllAccounted, Accounted
      <4>2. \A n \in Slots : list'[i][n] = IF n = free[i] - 1 THEN k ELSE list[i][n]
        BY StoreEffect
      <4>3. \A n \in Slots : n \in Int
        BY DEF Slots
      <4> QED
        BY <3>1, <3>2, <4>1, <4>2, <4>3
    <3> QED
      BY <2>2, <3>2, <3>6, <3>8, <3>9
  <2> QED
    BY <2>1, <2>2
<1>3. FiniteTables'
  BY StoreEffect, FS_AddElement DEF CacheInv, FiniteTables
<1>4. AllSound'
  BY StoreEffect DEF CacheInv, AllSound, EntriesSound, KindOf
<1>5. PoolsOwned'
  BY StoreEffect DEF CacheInv, PoolsOwned
<1> QED
  BY <1>1, <1>2, <1>3, <1>4, <1>5 DEF CacheInv

LEMMA KeepKeepsCache ==
    ASSUME CacheInv, NEW i \in Interps, NEW k \in Keys, ~Cached(i, k),
           KeepScript(i, k, Translate(k.file, k.enc, k.top)),
           k.stat <= ver[k.file], ver' = ver
    PROVE  CacheInv'
<1> DEFINE s == Translate(k.file, k.enc, k.top)
<1>1. /\ s \in Scripts /\ s.file = k.file /\ s.enc = k.enc
      /\ s.kind = KindOf(k.file, k.top) /\ s.read = ver[k.file]
      /\ ver[k.file] \in Nat
  BY CacheAssumption DEF CacheInv, CacheTypeOK, Keys, Scripts, Translate, KindOf, Version
<1>2. CASE free[i] > 0
  <2>1. StoreScript(i, k, s)
    BY <1>2 DEF KeepScript
  <2> HIDE DEF s
  <2> QED
    BY <1>1, <1>2, <2>1, StoreKeepsCache DEF Cached
<1>3. CASE ~(free[i] > 0)
  BY <1>3 DEF KeepScript, cacheVars, CacheInv, CacheTypeOK, AllAccounted, Accounted,
     FiniteTables, AllSound, EntriesSound, KindOf, PoolsOwned
<1> QED
  BY <1>2, <1>3

LEMMA CleanupKeepsCache ==
    ASSUME CacheInv, NEW i \in Interps, NEW made \in BOOLEAN, Cleanup(i, made),
           size[i] # 0, ver' = ver
    PROVE  CacheInv'
<1>1. /\ DOMAIN table' = Interps /\ DOMAIN table'[i] = {}
      /\ \A j \in Interps \ {i} : table'[j] = table[j]
  <2>1. table' = [table EXCEPT ![i] =
                    [x \in DOMAIN @ \ {list[i][s] : s \in free[i]..size[i] - 1} |-> @[x]]]
    BY DEF Cleanup
  <2>2. DOMAIN table[i] = {list[i][s] : s \in free[i]..size[i] - 1}
    BY DEF CacheInv, AllAccounted, Accounted
  <2> QED
    BY <2>1, <2>2 DEF CacheInv, CacheTypeOK
<1>2. /\ size' \in [Interps -> 0..CacheSize] /\ free' \in [Interps -> 0..CacheSize]
      /\ free'[i] = size'[i]
      /\ \A j \in Interps \ {i} : size'[j] = size[j] /\ free'[j] = free[j]
  BY CacheAssumption DEF Cleanup, CacheInv, CacheTypeOK
<1>3. /\ list' = [list EXCEPT ![i] = [s \in Slots |-> None]]
      /\ list' \in [Interps -> [Slots -> Keys \cup {None}]]
  BY DEF Cleanup, CacheInv, CacheTypeOK
<1>4. pool' \in [Interps -> Interps \cup {None}] /\ tableFreed' \in [Interps -> BOOLEAN]
  BY DEF Cleanup, CacheInv, CacheTypeOK
<1>5. CacheTypeOK'
  BY <1>1, <1>2, <1>3, <1>4 DEF CacheInv, CacheTypeOK
<1>6. AllAccounted'
  <2> SUFFICES ASSUME NEW j \in Interps
               PROVE  /\ free'[j] <= size'[j]
                      /\ DOMAIN table'[j] = {list'[j][n] : n \in free'[j]..size'[j] - 1}
                      /\ Cardinality(DOMAIN table'[j]) = size'[j] - free'[j]
                      /\ \A n \in Slots : n < free'[j] => list'[j][n] = None
    BY DEF AllAccounted, Accounted
  <2>1. CASE j # i
    BY <2>1, <1>1, <1>2, <1>3 DEF CacheInv, CacheTypeOK, AllAccounted, Accounted
  <2>2. CASE j = i
    <3>1. size'[i] \in Nat /\ free'[i] = size'[i]
      BY <1>2, CacheAssumption
    <3>2. {list'[i][n] : n \in free'[i]..size'[i] - 1} = {}
      BY <3>1
    <3>3. \A n \in Slots : list'[i][n] = None
      BY <1>3 DEF CacheInv, CacheTypeOK
    <3> QED
      BY <2>2, <3>1, <3>2, <3>3, <1>1, FS_EmptySet
  <2> QED
    BY <2>1, <2>2
<1>7. FiniteTables'
  BY <1>1, FS_EmptySet DEF CacheInv, FiniteTables
<1>8. AllSound'
  BY <1>1 DEF CacheInv, AllSound, EntriesSound, KindOf
<1>9. PoolsOwned'
  <2> SUFFICES ASSUME NEW j \in Interps
               PROVE  /\ tableFreed'[j] => j = Root
                      /\ Separate => pool'[j] \in {j, None} /\ (size'[j] > 0 => pool'[j] = j)
    BY DEF PoolsOwned
  <2>1. tableFreed'[j] => j = Root
    BY DEF Cleanup, CacheInv, PoolsOwned
  <2>2. CASE j # i
    <3>1. Separate => pool[i] # pool[j]
      <4>1. size[i] > 0
        BY CacheAssumption DEF CacheInv, CacheTypeOK
      <4> QED BY <2>2, <4>1, CacheAssumption DEF CacheInv, PoolsOwned
    <3>2. Separate => pool'[j] = pool[j]
      BY <2>2, <3>1 DEF Cleanup
    <3> QED BY <1>2, <2>1, <2>2, <3>2 DEF CacheInv, PoolsOwned
  <2>3. CASE j = i
    <3>1. pool'[i] = IF made THEN i ELSE None
      BY DEF Cleanup
    <3>2. ~made => size'[i] = 0
      BY DEF Cleanup, CacheInv, CacheTypeOK
    <3> QED BY <2>1, <2>3, <3>1, <3>2
  <2> QED BY <2>2, <2>3
<1> QED
  BY <1>5, <1>6, <1>7, <1>8, <1>9 DEF CacheInv

LEMMA SameCache ==
    ASSUME CacheInv, UNCHANGED cacheVars, UNCHANGED ver
    PROVE  CacheInv'
BY DEF CacheInv, cacheVars, CacheTypeOK, AllAccounted, Accounted, FiniteTables,
   AllSound, EntriesSound, KindOf, PoolsOwned
-----------------------------------------------------------------------------
(* The Tcl request handler.                                                  *)

History == Seq([script : ScriptName, end : Ends])

LEMMA LastElement ==
    ASSUME NEW S, NEW s \in Seq(S), s # <<>>
    PROVE  Len(s) \in 1..Len(s) /\ s[Len(s)] \in S
OBVIOUS

LEMMA EndedHistory ==
    ASSUME TypeOK, ThreadClean, phase \in ScriptName,
           NEW e \in {"ok", "return", "error", "raised"}
    PROVE  Ended(e) \in History /\ Ended(e) # <<>>
<1>1. ran \in History /\ ran # <<>>
  BY DEF TypeOK, ThreadClean, History
<1>2. Len(ran) \in 1..Len(ran) /\ ran[Len(ran)] \in [script : ScriptName, end : Ends]
  <2> DEFINE S == [script : ScriptName, end : Ends]
  <2>1. ran \in Seq(S)
    BY <1>1 DEF History
  <2> HIDE DEF S
  <2>2. Len(ran) \in 1..Len(ran) /\ ran[Len(ran)] \in S
    BY <1>1, <2>1, LastElement
  <2> QED
    BY <2>2 DEF S
<1>3. [ran[Len(ran)] EXCEPT !.end = e] \in [script : ScriptName, end : Ends]
  BY <1>2 DEF Ends
<1>4. Ended(e) = [ran EXCEPT ![Len(ran)] = [ran[Len(ran)] EXCEPT !.end = e]]
  BY DEF Ended
<1>5. Ended(e) \in History /\ Len(Ended(e)) = Len(ran)
  BY <1>1, <1>2, <1>3, <1>4, ExceptSeq DEF History
<1> QED
  BY <1>2, <1>5

(* Wherever the handler goes next, what it leaves has its type.              *)
Proceeds == /\ phase' \in Responding /\ ran' \in History
            /\ phase' \in ScriptName => ran' # <<>>

LEMMA StartProceeds ==
    ASSUME NEW s \in ScriptName, NEW h \in History, Start(s, h)
    PROVE  Proceeds
<1>1. [script |-> s, end |-> "open"] \in [script : ScriptName, end : Ends]
  BY DEF Ends
<1>2. /\ Append(h, [script |-> s, end |-> "open"]) \in History
      /\ Append(h, [script |-> s, end |-> "open"]) # <<>>
  BY <1>1 DEF History
<1> QED
  BY <1>2 DEF Start, Proceeds, Responding

LEMMA EveryProceeds ==
    ASSUME NEW h \in History, StartEvery(h)
    PROVE  Proceeds
<1>1. CASE Start("every", h)
  BY <1>1, StartProceeds DEF ScriptName
<1>2. CASE phase' = "flush" /\ ran' = h
  BY <1>2 DEF Proceeds, Responding, ScriptName, Main
<1> QED
  BY <1>1, <1>2 DEF StartEvery

LEMMA ScriptEndsProceeds ==
    ASSUME TypeOK, ThreadClean, phase \in ScriptName,
           NEW e \in {"ok", "return", "error", "raised"}, ScriptEnds(e)
    PROVE  Proceeds /\ buffer' \in BOOLEAN
<1> DEFINE h == Ended(e)
<1>1. h \in History
  BY EndedHistory
<1>2. buffer \in BOOLEAN
  BY DEF TypeOK
<1> HIDE DEF h
<1>3. ASSUME StartPage(h)
      PROVE  Proceeds
  BY <1>1, <1>3 DEF StartPage, Proceeds, Responding, ScriptName, Main
<1>4. ASSUME StartAfter(h)
      PROVE  Proceeds
  BY <1>1, <1>4, StartProceeds, EveryProceeds DEF StartAfter, ScriptName, Main
<1>5. ASSUME StartAbort(h)
      PROVE  Proceeds
  BY <1>1, <1>5, StartProceeds, EveryProceeds DEF StartAbort, ScriptName
<1>6. ASSUME StartError(h)
      PROVE  Proceeds /\ buffer' \in BOOLEAN
  BY <1>1, <1>2, <1>6, StartProceeds, EveryProceeds DEF StartError, ScriptName
<1>7. ASSUME MainEnds(e)
      PROVE  Proceeds /\ buffer' \in BOOLEAN
  <2>1. \/ StartPage(h) /\ UNCHANGED buffer
        \/ StartAfter(h) /\ UNCHANGED buffer
        \/ StartAbort(h) /\ UNCHANGED buffer
        \/ StartError(h)
        \/ StartEvery(h) /\ UNCHANGED buffer
    BY <1>7 DEF MainEnds, h
  <2> QED
    BY <2>1, <1>1, <1>2, <1>3, <1>4, <1>5, <1>6, EveryProceeds
<1>8. ASSUME ClosingEnds(e)
      PROVE  Proceeds /\ buffer' \in BOOLEAN
  <2>1. /\ StartEvery(h) \/ Start("error", h)
        /\ buffer' \in {buffer, TRUE}
    BY <1>8 DEF ClosingEnds, h
  <2> QED
    BY <2>1, <1>1, <1>2, StartProceeds, EveryProceeds DEF ScriptName
<1> QED
  BY <1>7, <1>8 DEF ScriptEnds
-----------------------------------------------------------------------------
(* The output channel.                                                       *)

(* What the prover has to know of the three sequences.                       *)
LEMMA ResponseValues ==
    /\ Append(<<>>, "headers") = <<"headers">>
    /\ Append(<<"headers">>, "body") = <<"headers", "body">>
    /\ Responses \subseteq Seq({"headers", "body"})
    /\ \A r \in Responses : r # <<>> => Len(r) \in {1, 2}
    /\ \A r \in Responses : r # <<>> => r[1] = "headers"
    /\ \A r \in Responses : Len(r) = 2 => r[2] = "body" /\ r = <<"headers", "body">>
    /\ \A r \in Responses : Len(r) = 1 => r = <<"headers">>
    /\ Len(<<"headers">>) = 1 /\ <<"headers">> # <<>>
    /\ Len(<<"headers", "body">>) = 2 /\ <<"headers", "body">> # <<>>
<1> DEFINE a == Append(<<"headers">>, "body")
           b == <<"headers", "body">>
<1>1. /\ a \in Seq({"headers", "body"}) /\ Len(a) = 2
      /\ a[1] = "headers" /\ a[2] = "body"
  OBVIOUS
<1>2. /\ b \in Seq({"headers", "body"}) /\ Len(b) = 2
      /\ b[1] = "headers" /\ b[2] = "body"
  OBVIOUS
<1> HIDE DEF a, b
<1>3. a = b
  BY <1>1, <1>2, SeqEqual
<1>4. Append(<<"headers">>, "body") = <<"headers", "body">>
  BY <1>3 DEF a, b
<1>5. Append(<<>>, "headers") = <<"headers">>
  OBVIOUS
<1>6. <<>> \in Seq({"headers", "body"}) /\ <<"headers">> \in Seq({"headers", "body"})
  OBVIOUS
<1>7. <<"headers", "body">> \in Seq({"headers", "body"})
  OBVIOUS
<1>8. Len(<<>>) = 0 /\ Len(<<"headers">>) = 1 /\ <<"headers">> # <<>> /\ <<"headers">>[1] = "headers"
  OBVIOUS
<1>9. /\ Len(<<"headers", "body">>) = 2 /\ <<"headers", "body">> # <<>>
      /\ <<"headers", "body">>[1] = "headers" /\ <<"headers", "body">>[2] = "body"
  OBVIOUS
<1> QED
  BY <1>4, <1>5, <1>6, <1>7, <1>8, <1>9 DEF Responses

LEMMA OutputSound ==
    ASSUME ResponseSound, phase \in Responding
    PROVE  /\ PrintHeaders(sent) \in Responses \ {<<>>}
           /\ Output(sent) \in Responses \ {<<>>}
<1>1. sent \in Responses /\ (headersPrinted <=> sent # <<>>)
  BY DEF ResponseSound
<1>2. PrintHeaders(sent) = IF sent = <<>> THEN <<"headers">> ELSE sent
  BY <1>1, ResponseValues DEF PrintHeaders
<1> DEFINE h == PrintHeaders(sent)
<1>3. h \in Responses \ {<<>>}
  BY <1>1, <1>2, ResponseValues DEF Responses
<1>4. Output(sent) = IF contentSent \/ (h # <<>> /\ h[Len(h)] = "body")
                     THEN h ELSE Append(h, "body")
  BY DEF Output
<1> HIDE DEF h
<1>5. CASE h = <<"headers">>
  <2>1. Append(h, "body") = <<"headers", "body">> /\ <<"headers", "body">> # <<>>
    BY <1>5, ResponseValues
  <2> QED
    BY <1>3, <1>4, <2>1 DEF h, Responses
<1>6. CASE h = <<"headers", "body">>
  <2>1. Len(h) = 2 /\ h[2] = "body"
    BY <1>3, <1>6, ResponseValues
  <2> QED
    BY <1>3, <1>4, <2>1 DEF h
<1> QED
  BY <1>3, <1>5, <1>6 DEF h, Responses
-----------------------------------------------------------------------------
(* The initial states.                                                       *)

LEMMA EmptyHistory == <<>> \in History
BY EmptySeq DEF History

LEMMA InitRInv == Init => RInv
<1> SUFFICES ASSUME Init PROVE RInv
  OBVIOUS
<1>1. CacheInv
  BY InitCache DEF Init
<1>2. TypeOK
  BY <1>1, ResponseValues, EmptyHistory DEF Init, TypeOK, CacheInv, Responses, History
<1>3. TimesSound /\ ResponseSound /\ ThreadClean
  BY DEF Init, TimesSound, ResponseSound, ThreadClean, Responding, ScriptName, Main,
     Responses
<1> QED
  BY <1>1, <1>2, <1>3 DEF RInv
-----------------------------------------------------------------------------
(* Steps outside the handler.                                                *)

LEMMA AdmitStep ==
    ASSUME RInv, NEW i \in Interps, NEW f \in Files, NEW p \in Places,
           NEW S \in ScriptSets, Admit(i, f, p, S)
    PROVE  RInv'
<1>1. CacheInv'
  BY SameCache DEF RInv, Admit
<1>2. req' \in Request /\ req'.stat = ver'[f] /\ req'.file = f
  BY DEF RInv, CacheInv, CacheTypeOK, Admit, Request
<1>3. ver'[f] \in Nat
  BY <1>1, CacheAssumption DEF CacheInv, CacheTypeOK, Version
<1>4. TypeOK'
  BY <1>1, <1>2 DEF RInv, TypeOK, CacheInv, Admit, abortVars
<1>5. TimesSound'
  BY <1>2, <1>3 DEF RInv, TimesSound, ThreadClean, Admit, ScriptName, Main
<1>6. ResponseSound' /\ ThreadClean'
  BY DEF RInv, ResponseSound, ThreadClean, Admit, abortVars, Responding,
     ScriptName, Main, Responses
<1> QED
  BY <1>1, <1>4, <1>5, <1>6 DEF RInv

LEMMA DismissStep ==
    ASSUME RInv, Refuse \/ ParseFails \/ HeadOnly
    PROVE  RInv'
<1>1. CacheInv'
  BY SameCache DEF RInv, Refuse, ParseFails, HeadOnly
<1>2. /\ phase = "admitted" /\ phase' = "cleanup"
      /\ UNCHANGED <<confVars, loading, abortVars, contentSent, buffer, ran, ver>>
      /\ headersPrinted' \in BOOLEAN
  BY DEF RInv, TypeOK, Refuse, ParseFails, HeadOnly, outputVars
<1>2a. sent' \in Responses
  <2>1. sent = <<>>
    BY <1>2 DEF RInv, ThreadClean
  <2>2. sent' \in {sent, Append(sent, "headers")}
    BY DEF Refuse, ParseFails, HeadOnly, outputVars
  <2> QED
    BY <2>1, <2>2, ResponseValues DEF Responses
<1>3. TypeOK'
  BY <1>1, <1>2, <1>2a, ResponseValues DEF RInv, TypeOK, CacheInv, confVars, abortVars
<1>4. TimesSound'
  BY <1>2 DEF RInv, TimesSound, confVars
<1>5. ResponseSound' /\ ThreadClean'
  BY <1>2, <1>2a DEF RInv, ResponseSound, ThreadClean, abortVars, Responding,
     ScriptName, Main
<1> QED
  BY <1>1, <1>3, <1>4, <1>5 DEF RInv

LEMMA EvaluateStep ==
    ASSUME RInv, NEW made \in BOOLEAN, Evaluate(made)
    PROVE  RInv'
<1>1. req \in Request /\ req.host \in Interps
  BY DEF RInv, TimesSound, Evaluate, Request
<1>2. CacheInv'
  <2>1. CASE CleansUp
    BY <1>1, <2>1, CleanupKeepsCache DEF RInv, Evaluate, CleansUp
  <2>2. CASE ~CleansUp
    BY <2>2, SameCache DEF RInv, Evaluate
  <2> QED
    BY <2>1, <2>2
<1>3. Proceeds
  <2>1. ran \in History
    BY DEF RInv, TypeOK, History
  <2>2. Start("before", ran) \/ (phase' = "load" /\ ran' = ran)
    <3>1. \/ Start("before", ran)
          \/ StartPage(ran)
      BY DEF Evaluate
    <3> QED
      BY <3>1 DEF StartPage
  <2> QED
    BY <2>1, <2>2, StartProceeds DEF Proceeds, Responding, ScriptName, Main
<1>4. /\ phase = "admitted" /\ headersPrinted' = FALSE
      /\ UNCHANGED <<ver, confVars, loading, abortVars, contentSent, buffer, sent>>
  BY DEF Evaluate
<1>5. TypeOK'
  BY <1>2, <1>3, <1>4 DEF RInv, TypeOK, CacheInv, Proceeds, History, Responding,
     confVars, abortVars
<1>6. TimesSound'
  BY <1>4 DEF RInv, TimesSound, confVars
<1>7. ResponseSound' /\ ThreadClean'
  BY <1>3, <1>4 DEF RInv, ResponseSound, ThreadClean, Proceeds, Responding,
     ScriptName, Main
<1> QED
  BY <1>2, <1>5, <1>6, <1>7 DEF RInv

LEMMA FinishStep ==
    ASSUME RInv, Finish
    PROVE  RInv'
<1>1. CacheInv'
  BY SameCache DEF RInv, Finish
<1>2. sent' \in Responses \ {<<>>}
  BY OutputSound DEF RInv, Finish, Responding
<1>3. TypeOK'
  BY <1>1, <1>2, ResponseValues DEF RInv, TypeOK, CacheInv, Finish, confVars, abortVars
<1>4. TimesSound'
  BY DEF RInv, TimesSound, Finish, confVars
<1>5. ResponseSound' /\ ThreadClean'
  BY <1>2 DEF RInv, ResponseSound, ThreadClean, Finish, abortVars, Responding,
     ScriptName, Main
<1> QED
  BY <1>1, <1>3, <1>4, <1>5 DEF RInv

LEMMA SendCleanupStep ==
    ASSUME RInv, SendCleanup
    PROVE  RInv'
<1>1. CacheInv'
  BY SameCache DEF RInv, SendCleanup
<1>2. TypeOK'
  BY <1>1, ResponseValues, EmptyHistory DEF RInv, TypeOK, CacheInv, SendCleanup,
     Responses, History
<1>3. TimesSound'
  BY DEF RInv, TimesSound, ThreadClean, SendCleanup, ScriptName, Main
<1>4. ResponseSound' /\ ThreadClean'
  BY DEF RInv, TypeOK, ResponseSound, ThreadClean, SendCleanup, Responding,
     Responses, ScriptName, Main
<1> QED
  BY <1>1, <1>2, <1>3, <1>4 DEF RInv

LEMMA ChildCrashesStep ==
    ASSUME RInv, ChildCrashes
    PROVE  RInv'
<1>1. CacheInv'
  BY SameCache DEF RInv, ChildCrashes
<1>2. TypeOK'
  BY <1>1, ResponseValues, EmptyHistory DEF RInv, TypeOK, CacheInv, ChildCrashes,
     Responses, History
<1>3. TimesSound'
  BY DEF RInv, TimesSound, ChildCrashes, ScriptName, Main
<1>4. ResponseSound' /\ ThreadClean'
  BY DEF RInv, TypeOK, ResponseSound, ThreadClean, ChildCrashes, Responding,
     Responses, ScriptName, Main
<1> QED
  BY <1>1, <1>2, <1>3, <1>4 DEF RInv

LEMMA NewThreadStep ==
    ASSUME RInv, NewThread
    PROVE  RInv'
<1>1. CacheTypeOK'
  BY CacheAssumption DEF RInv, CacheInv, CacheTypeOK, NewThread, Empty, Slots
<1>2. \A i \in Interps : DOMAIN table'[i] = {}
  BY DEF NewThread, Empty
<1>3. AllAccounted'
  <2> SUFFICES ASSUME NEW i \in Interps
               PROVE  /\ free'[i] <= size'[i]
                      /\ DOMAIN table'[i] = {list'[i][s] : s \in free'[i]..size'[i] - 1}
                      /\ Cardinality(DOMAIN table'[i]) = size'[i] - free'[i]
                      /\ \A s \in Slots : s < free'[i] => list'[i][s] = None
    BY DEF AllAccounted, Accounted
  <2>1. /\ size'[i] = CacheSize /\ free'[i] = CacheSize
        /\ list'[i] = [s \in Slots |-> None]
    BY DEF NewThread
  <2>2. {list'[i][s] : s \in free'[i]..size'[i] - 1} = {}
    BY <2>1, CacheAssumption
  <2>3. Cardinality(DOMAIN table'[i]) = 0
    BY <1>2, FS_EmptySet
  <2> QED
    BY <1>2, <2>1, <2>2, <2>3, CacheAssumption
<1>4. FiniteTables' /\ AllSound' /\ PoolsOwned'
  BY <1>2, FS_EmptySet DEF FiniteTables, AllSound, EntriesSound, PoolsOwned, NewThread
<1>5. CacheInv'
  BY <1>1, <1>3, <1>4 DEF CacheInv
<1>6. TypeOK'
  BY <1>5 DEF RInv, TypeOK, CacheInv, NewThread
<1>7. TimesSound'
  BY DEF RInv, TimesSound, ThreadClean, NewThread, ScriptName, Main
<1>8. ResponseSound' /\ ThreadClean'
  BY DEF RInv, ResponseSound, ThreadClean, NewThread, Responding, ScriptName, Main
<1> QED
  BY <1>5, <1>6, <1>7, <1>8 DEF RInv

LEMMA EditFileStep ==
    ASSUME RInv, EditFile
    PROVE  RInv'
<1>1. PICK f \in EditedFiles : Write(f)
  BY DEF EditFile
<1>2. /\ ver' \in [Files -> Version]
      /\ \A g \in Files : ver[g] \in Nat /\ ver[g] <= ver'[g] /\ ver'[g] \in Nat
  <2>1. ver \in [Files -> Version] /\ f \in Files
    BY CacheAssumption DEF RInv, CacheInv, CacheTypeOK
  <2> QED
    BY <1>1, <2>1, CacheAssumption DEF Write, Version
<1>3. UNCHANGED cacheVars
  BY DEF EditFile
<1>4. AllSound'
  <2> SUFFICES ASSUME NEW i \in Interps, NEW k \in DOMAIN table[i]
               PROVE  /\ table[i][k].file = k.file /\ table[i][k].enc = k.enc
                      /\ table[i][k].kind = KindOf(k.file, k.top)
                      /\ k.stat <= table[i][k].read
                      /\ table[i][k].read <= ver'[k.file]
    BY <1>3 DEF AllSound, EntriesSound, cacheVars, KindOf
  <2>1. k.file \in Files /\ table[i][k].read \in Nat
    BY CacheAssumption DEF RInv, CacheInv, CacheTypeOK, Keys, Scripts, Version
  <2> QED
    BY <1>2, <2>1 DEF RInv, CacheInv, AllSound, EntriesSound
<1>5. CacheInv'
  BY <1>2, <1>3, <1>4 DEF RInv, CacheInv, CacheTypeOK, AllAccounted, Accounted,
     FiniteTables, PoolsOwned, cacheVars
<1>6. TypeOK'
  BY <1>5 DEF RInv, TypeOK, CacheInv, EditFile, confVars, abortVars, outputVars
<1>7. TimesSound'
  <2>1. req \in Request => req.file \in Files /\ req.stat \in Nat
    BY CacheAssumption DEF Request, Version
  <2>2. loading # None => loading.file \in Files /\ loading.stat \in Nat
    BY CacheAssumption DEF RInv, TypeOK, Keys, Version
  <2> QED
    BY <1>2, <2>1, <2>2 DEF RInv, TimesSound, EditFile, confVars
<1>8. ResponseSound' /\ ThreadClean'
  BY DEF RInv, ResponseSound, ThreadClean, EditFile, abortVars, outputVars,
     Responding
<1> QED
  BY <1>5, <1>6, <1>7, <1>8 DEF RInv
-----------------------------------------------------------------------------
(* Commands of a running script.                                             *)

(* A command that ends the script, or leaves it running.                     *)
LEMMA CommandStep ==
    ASSUME RInv, Running, Proceeds, buffer' \in BOOLEAN,
           abortVars' \in BOOLEAN \X BOOLEAN \X (Codes \cup {None, "exit"}),
           UNCHANGED <<ver, cacheVars, confVars, loading, headersPrinted,
                       contentSent, sent>>
    PROVE  RInv'
<1>1. CacheInv'
  BY SameCache DEF RInv
<1>2. /\ pageAborting' \in BOOLEAN /\ threadExit' \in BOOLEAN
      /\ abortCode' \in Codes \cup {None, "exit"}
  BY DEF abortVars
<1>3. TypeOK'
  BY <1>1, <1>2 DEF RInv, TypeOK, CacheInv, Proceeds, History, Responding, confVars
<1>4. TimesSound'
  BY DEF RInv, TimesSound, Running, Proceeds, confVars, Responding, ScriptName, Main
<1>5. ResponseSound' /\ ThreadClean'
  BY DEF RInv, ResponseSound, ThreadClean, Running, Proceeds, Responding,
     ScriptName, Main
<1> QED
  BY <1>1, <1>3, <1>4, <1>5 DEF RInv

LEMMA StaysProceeds ==
    ASSUME RInv, Running, UNCHANGED <<phase, ran>>
    PROVE  Proceeds
BY DEF RInv, TypeOK, ThreadClean, Running, Proceeds, Responding, History

LEMMA AbortPageStep ==
    ASSUME RInv, NEW c \in Codes \cup {None}, NEW caught \in BOOLEAN,
           AbortPage(c, caught)
    PROVE  RInv'
<1>1. Proceeds /\ buffer' \in BOOLEAN
  <2>1. CASE UNCHANGED <<phase, ran, buffer>>
    BY <2>1, StaysProceeds DEF AbortPage, RInv, TypeOK
  <2>2. CASE ScriptEnds("raised")
    BY <2>2, ScriptEndsProceeds DEF AbortPage, Running, RInv
  <2> QED
    BY <2>1, <2>2 DEF AbortPage
<1>2. abortVars' \in BOOLEAN \X BOOLEAN \X (Codes \cup {None, "exit"})
  BY DEF AbortPage, RInv, TypeOK, abortVars
<1> QED
  BY <1>1, <1>2, CommandStep DEF AbortPage

LEMMA ExitStep ==
    ASSUME RInv, NEW caught \in BOOLEAN, Exit(caught)
    PROVE  RInv'
<1>1. Proceeds /\ buffer' \in BOOLEAN
  <2>1. CASE UNCHANGED <<phase, ran, buffer>>
    BY <2>1, StaysProceeds DEF Exit, RInv, TypeOK
  <2>2. CASE ScriptEnds("raised")
    BY <2>2, ScriptEndsProceeds DEF Exit, Running, RInv
  <2> QED
    BY <2>1, <2>2 DEF Exit
<1>2. abortVars' \in BOOLEAN \X BOOLEAN \X (Codes \cup {None, "exit"})
  BY DEF Exit, abortVars
<1> QED
  BY <1>1, <1>2, CommandStep DEF Exit

LEMMA EndScriptStep ==
    ASSUME RInv, NEW e \in {"ok", "return", "error"}, EndScript(e)
    PROVE  RInv'
<1>1. Proceeds /\ buffer' \in BOOLEAN
  BY ScriptEndsProceeds DEF EndScript, Running, RInv
<1>2. abortVars' \in BOOLEAN \X BOOLEAN \X (Codes \cup {None, "exit"})
  BY DEF EndScript, RInv, TypeOK, abortVars
<1> QED
  BY <1>1, <1>2, CommandStep DEF EndScript

LEMMA ChannelStep ==
    ASSUME RInv, Puts \/ Flush \/ NoBody
    PROVE  RInv'
<1>1. CacheInv'
  BY SameCache DEF RInv, Puts, Flush, NoBody
<1>2. /\ phase \in ScriptName
      /\ UNCHANGED <<ver, phase, confVars, loading, abortVars, ran>>
  BY DEF Puts, Flush, NoBody, Running
<1>3. buffer' \in BOOLEAN /\ headersPrinted' \in BOOLEAN /\ contentSent' \in BOOLEAN
  BY DEF RInv, TypeOK, Puts, Flush, NoBody, FlushChannel
<1>4. \/ UNCHANGED <<sent, headersPrinted>>
      \/ headersPrinted' /\ sent' \in Responses \ {<<>>}
  <2>1. CASE Puts \/ NoBody
    BY <2>1 DEF Puts, NoBody
  <2>2. CASE Flush
    BY <2>2, <1>2, OutputSound DEF Flush, FlushChannel, RInv, Responding
  <2> QED
    BY <2>1, <2>2
<1>5. TypeOK'
  BY <1>1, <1>2, <1>3, <1>4, ResponseValues DEF RInv, TypeOK, CacheInv, confVars, abortVars
<1>6. TimesSound'
  BY <1>2 DEF RInv, TimesSound, confVars
<1>7. ResponseSound' /\ ThreadClean'
  BY <1>2, <1>4 DEF RInv, ResponseSound, ThreadClean, Responding, ScriptName, Main
<1> QED
  BY <1>1, <1>5, <1>6, <1>7 DEF RInv

LEMMA ParseStep ==
    ASSUME RInv, NEW f \in Files, NEW e \in Encodings \cup {None}, Parse(f, e)
    PROVE  RInv'
<1>1. CacheInv'
  BY SameCache DEF RInv, Parse
<1>2. ver[f] \in Version /\ ver[f] \in Nat
  BY CacheAssumption DEF RInv, CacheInv, CacheTypeOK, Version
<1>3. phase \in ScriptName /\ req \in Request
  BY DEF RInv, TimesSound, Parse, Running, ScriptName, Main
<1>4. req.place.user \in BOOLEAN
  BY <1>3, RequestAssumption DEF Request
<1>5. /\ loading' \in Keys /\ loading'.file = f /\ loading'.stat = ver[f]
      /\ ~loading'.top
  BY <1>2, <1>4 DEF Parse, MakeKey, Keys
<1>6. TypeOK'
  BY <1>1, <1>5 DEF RInv, TypeOK, CacheInv, Parse, confVars, abortVars, outputVars
<1>7. TimesSound'
  <2>1. UNCHANGED <<ver, phase, req>>
    BY DEF Parse, confVars
  <2>2. loading'.stat <= ver'[loading'.file]
    BY <1>2, <1>5, <2>1
  <2> QED
    BY <1>5, <2>1, <2>2 DEF RInv, TimesSound
<1>8. ResponseSound' /\ ThreadClean'
  BY <1>3 DEF RInv, ResponseSound, ThreadClean, Parse, abortVars, outputVars,
     Responding, ScriptName, Main
<1> QED
  BY <1>1, <1>6, <1>7, <1>8 DEF RInv

LEMMA ParseLoadStep ==
    ASSUME RInv, NEW readable \in BOOLEAN, ParseLoad(readable)
    PROVE  RInv'
<1>1. phase \in ScriptName /\ loading \in Keys
  BY DEF RInv, TypeOK, ThreadClean, ParseLoad
<1>2. req \in Request /\ req.host \in Interps
  BY <1>1 DEF RInv, TimesSound, Request, ScriptName, Main
<1>3. CacheInv'
  <2>1. CASE UNCHANGED cacheVars
    BY <2>1, SameCache DEF RInv, ParseLoad
  <2>2. CASE /\ ~Cached(req.host, loading)
             /\ KeepScript(req.host, loading, Translate(loading.file, loading.enc, FALSE))
    <3>1. loading.stat <= ver[loading.file] /\ loading.top = FALSE
      BY <1>1 DEF RInv, TimesSound, ParseLoad, Keys
    <3> QED
      BY <1>1, <1>2, <2>2, <3>1, KeepKeepsCache DEF RInv, ParseLoad
  <2> QED
    BY <2>1, <2>2 DEF ParseLoad
<1>4. TypeOK'
  BY <1>3 DEF RInv, TypeOK, CacheInv, ParseLoad, confVars, abortVars, outputVars
<1>5. TimesSound'
  BY DEF RInv, TimesSound, ParseLoad, confVars
<1>6. ResponseSound' /\ ThreadClean'
  BY DEF RInv, ResponseSound, ThreadClean, ParseLoad, abortVars, outputVars, Responding
<1> QED
  BY <1>3, <1>4, <1>5, <1>6 DEF RInv

(* The page's key is a key, with the times of the request.                   *)
LEMMA PageKeySound ==
    ASSUME RInv, phase = "load"
    PROVE  /\ req \in Request /\ req.host \in Interps
           /\ PageKey \in Keys /\ PageKey.file = req.file /\ PageKey.enc = None
           /\ PageKey.top = TRUE /\ PageKey.stat = req.stat
           /\ req.stat <= ver[req.file]
<1>1. req \in Request /\ req.stat <= ver[req.file]
  BY DEF RInv, TimesSound
<1>2. req.place.user \in BOOLEAN
  BY <1>1, RequestAssumption DEF Request
<1> QED
  BY <1>1, <1>2 DEF Request, PageKey, MakeKey, Keys

LEMMA UrlScriptStep ==
    ASSUME RInv, NEW readable \in BOOLEAN, UrlScript(readable)
    PROVE  RInv'
<1>1. phase = "load"
  BY DEF UrlScript
<1>2. CacheInv'
  <2>1. CASE UNCHANGED cacheVars
    BY <2>1, SameCache DEF RInv, UrlScript
  <2>2. CASE /\ ~Cached(req.host, PageKey)
             /\ KeepScript(req.host, PageKey, Translate(req.file, None, TRUE))
    BY <1>1, <2>2, PageKeySound, KeepKeepsCache DEF RInv, UrlScript
  <2> QED
    BY <2>1, <2>2 DEF UrlScript
<1>3. Proceeds
  <2>1. ran \in History
    BY DEF RInv, TypeOK, History
  <2>2. Start("page", ran) \/ StartAfter(ran)
    BY DEF UrlScript
  <2> QED
    BY <2>1, <2>2, StartProceeds, EveryProceeds DEF StartAfter, ScriptName, Main
<1>4. UNCHANGED <<ver, confVars, loading, abortVars, outputVars>>
  BY DEF UrlScript
<1>5. TypeOK'
  BY <1>2, <1>3, <1>4 DEF RInv, TypeOK, CacheInv, Proceeds, History, Responding,
     confVars, abortVars, outputVars
<1>6. TimesSound'
  BY <1>1, <1>3, <1>4 DEF RInv, TimesSound, confVars
<1>7. ResponseSound' /\ ThreadClean'
  BY <1>1, <1>3, <1>4 DEF RInv, ResponseSound, ThreadClean, Proceeds, outputVars,
     Responding, ScriptName, Main
<1> QED
  BY <1>2, <1>5, <1>6, <1>7 DEF RInv
-----------------------------------------------------------------------------
(* The theorems.                                                             *)

LEMMA NextRInv == RInv /\ [Next]_vars => RInv'
<1> SUFFICES ASSUME RInv, [Next]_vars PROVE RInv'
  OBVIOUS
<1>1. CASE \E i \in Interps, f \in Files, p \in Places, S \in ScriptSets : Admit(i, f, p, S)
  BY <1>1, AdmitStep
<1>2. CASE Refuse \/ ParseFails \/ HeadOnly
  BY <1>2, DismissStep
<1>3. CASE \E made \in BOOLEAN : Evaluate(made)
  BY <1>3, EvaluateStep
<1>4. CASE Puts \/ Flush \/ NoBody
  BY <1>4, ChannelStep
<1>5. CASE \E c \in Codes \cup {None}, caught \in BOOLEAN : AbortPage(c, caught)
  BY <1>5, AbortPageStep
<1>6. CASE \E caught \in BOOLEAN : Exit(caught)
  BY <1>6, ExitStep
<1>7. CASE \E e \in {"ok", "return", "error"} : EndScript(e)
  BY <1>7, EndScriptStep
<1>8. CASE \E f \in Files, e \in Encodings \cup {None} : Parse(f, e)
  BY <1>8, ParseStep
<1>9. CASE \E readable \in BOOLEAN : ParseLoad(readable) \/ UrlScript(readable)
  BY <1>9, ParseLoadStep, UrlScriptStep
<1>10. CASE Finish
  BY <1>10, FinishStep
<1>11. CASE SendCleanup
  BY <1>11, SendCleanupStep
<1>12. CASE NewThread
  BY <1>12, NewThreadStep
<1>13. CASE EditFile
  BY <1>13, EditFileStep
<1>14. CASE ChildCrashes
  BY <1>14, ChildCrashesStep
<1>15. CASE UNCHANGED vars
  <2>1. CacheInv'
    BY <1>15, SameCache DEF RInv, vars
  <2> QED
    BY <1>15, <2>1 DEF RInv, vars, confVars, abortVars, outputVars, CacheInv,
       TypeOK, TimesSound, ResponseSound, ThreadClean, Responding
<1> QED
  BY <1>1, <1>2, <1>3, <1>4, <1>5, <1>6, <1>7, <1>8, <1>9, <1>10, <1>11, <1>12,
     <1>13, <1>14, <1>15 DEF Next

LEMMA SpecRInv == Spec => []RInv
BY InitRInv, NextRInv, PTL DEF Spec

(* Every variable of the thread, the channel and the caches keeps its type.  *)
THEOREM RequestTypes == Spec => []TypeOK
<1>1. RInv => TypeOK
  BY DEF RInv
<1> QED
  BY <1>1, SpecRInv, PTL

(* The headers of a response go out once, first, and always.                 *)
THEOREM HeadersGoFirst == Spec => []HeadersFirst
<1>1. RInv => HeadersFirst
  <2> SUFFICES ASSUME RInv PROVE HeadersFirst
    OBVIOUS
  <2>1. sent \in Responses /\ DOMAIN sent = 1..Len(sent)
    BY ResponseValues, LenProperties DEF RInv, ResponseSound
  <2>2. \A n \in DOMAIN sent : (sent[n] = "headers") <=> (n = 1)
    BY <2>1, ResponseValues DEF Responses
  <2> QED
    BY <2>2 DEF RInv, ResponseSound, HeadersFirst
<1> QED
  BY <1>1, SpecRInv, PTL

(* An idle thread holds nothing of an earlier request, and has not been told *)
(* to exit.                                                                  *)
THEOREM NoCarryOver == Spec => []NothingCarriedOver
<1>1. RInv => NothingCarriedOver
  BY DEF RInv, ThreadClean, NothingCarriedOver, ScriptName, Main
<1> QED
  BY <1>1, SpecRInv, PTL

(* The list of keys, the table and the counters of every cache whose memory  *)
(* is there agree, and with separate interpreters that is the cache of every *)
(* virtual host: it loses neither pool nor table, whatever is cleaned up.    *)
(* Nothing is said of a table whose memory was given back, the root server's *)
(* after its clean-up among them.                                            *)
THEOREM CachesAccounted == Spec => []CacheAccounting
<1>1. RInv => CacheAccounting
  <2> SUFFICES ASSUME RInv, NEW i \in Interps
               PROVE  /\ Lives(i) => Accounted(i)
                      /\ Separate /\ i # Root /\ CacheSize > 0 => Lives(i)
    BY DEF CacheAccounting
  <2>1. Accounted(i)
    BY DEF RInv, CacheInv, AllAccounted
  <2>2. Separate /\ i # Root /\ CacheSize > 0 => Lives(i)
    BY CacheAssumption DEF RInv, CacheInv, PoolsOwned, Lives, TableLives, HasTable
  <2> QED BY <2>1, <2>2
<1> QED
  BY <1>1, SpecRInv, PTL

(* A page is never older than the request for it, and no entry is under the  *)
(* key of another file, encoding or kind.                                    *)
THEOREM PagesAreFresh == Spec => []PagesFresh
<1>1. RInv => PagesFresh
  <2> SUFFICES ASSUME RInv PROVE PagesFresh
    OBVIOUS
  <2>1. \A i \in Interps : EntriesSound(i)
    BY DEF RInv, CacheInv, AllSound
  <2>2. ASSUME phase = "load", Cached(req.host, PageKey)
        PROVE  LET s == table[req.host][PageKey] IN
               /\ s.file = req.file /\ s.kind = KindOf(req.file, TRUE)
               /\ s.read >= req.stat
    <3>1. /\ req \in Request /\ req.host \in Interps /\ PageKey \in Keys
          /\ PageKey.file = req.file /\ PageKey.top = TRUE /\ PageKey.stat = req.stat
      BY <2>2, PageKeySound
    <3>2. table[req.host][PageKey] \in Scripts
      BY <2>2, <3>1 DEF Cached, RInv, CacheInv, CacheTypeOK
    <3>3. req.stat \in Nat /\ table[req.host][PageKey].read \in Nat
      BY <3>1, <3>2, CacheAssumption DEF Request, Scripts, Version
    <3> QED
      BY <2>1, <2>2, <3>1, <3>3 DEF EntriesSound, Cached
  <2> QED
    BY <2>1, <2>2 DEF PagesFresh
<1> QED
  BY <1>1, SpecRInv, PTL

(* The first abort code of a request is replaced by `exit` only, unless the  *)
(* child crashes.                                                            *)
THEOREM AbortCodeKept == Spec => FirstCodeKept
<1>1. [Next]_vars => [phase # "cleanup" /\ phase' # "gone" /\ abortCode # None =>
                           abortCode' \in {abortCode, "exit"}]_vars
  BY DEF Next, vars, abortVars, Admit, Refuse, ParseFails, HeadOnly, Evaluate, Puts,
     Flush, NoBody, AbortPage, Exit, EndScript, Parse, ParseLoad, UrlScript, Finish,
     ChildCrashes, SendCleanup, NewThread, EditFile
<1> QED
  BY <1>1, PTL DEF Spec, FirstCodeKept
-----------------------------------------------------------------------------
(* The order of the scripts of a request, for every set of scripts that may   *)
(* be configured and whatever a script does: return, fail, call abort_page or *)
(* exit, catch them or not.                                                  *)

OpenRun(s) == [script |-> s, end |-> "open"]

Rank(s) == CASE s = "before" -> 1 [] s = "page" -> 2 [] s = "after" -> 3
             [] s = "abort" -> 4 [] OTHER -> 5

(* Script s may come next after the run r.                                   *)
Follows(r, s) ==
    /\ s = "error" \/ r.script = "error" \/ Rank(r.script) < Rank(s)
    /\ s \in Main => r.end = "ok"
    /\ s = "abort" => r.script \in Main /\ r.end = "raised"
    /\ s = "error" => r.end = "error" \/ (r.script \notin Main /\ r.end = "raised")

AtMostOnce(s, h) ==
    \A m, n \in DOMAIN h : h[m].script = s /\ h[n].script = s => m = n

(* What holds of the history h at any time, when S is configured.            *)
Ordered(h, S) ==
    /\ \A n \in DOMAIN h : n > 1 => Follows(h[n - 1], h[n].script)
    /\ AtMostOnce("abort", h) /\ AtMostOnce("every", h)
    /\ \A n \in DOMAIN h : h[n].script \notin Main => h[n].script \in S
    /\ \A m, n \in DOMAIN h : h[n].script = "every" /\ m > n => h[m].script = "error"

(* AbortScript has run if one of the main scripts was interrupted.           *)
Interrupted(h) == \E n \in DOMAIN h : h[n].script \in Main /\ h[n].end = "raised"
AbortRun(h, S) == "abort" \in S => (HasRun("abort", h) <=> Interrupted(h))

(* The main scripts of h all went well.                                      *)
WentWell(h) == \A n \in DOMAIN h : h[n].script \in Main /\ h[n].end = "ok"
OnlyBefore(h) == \A n \in DOMAIN h : h[n].script = "before" /\ h[n].end = "ok"

(* What the place of the handler says of the history.                        *)
OrderInv ==
    /\ Ordered(ran, req.scripts) /\ AbortRun(ran, req.scripts)
    /\ phase \in ScriptName => ran # <<>> /\ ran[Len(ran)] = OpenRun(phase)
    /\ phase = "load" => OnlyBefore(ran)
    /\ phase \in Main => \A n \in DOMAIN ran : n < Len(ran) =>
                             ran[n].script \in Main /\ ran[n].end = "ok"
    /\ phase \in {"flush", "cleanup"} /\ ran # <<>> /\ "every" \in req.scripts =>
          HasRun("every", ran)
-----------------------------------------------------------------------------
LEMMA HistoryFacts ==
    ASSUME NEW h \in History
    PROVE  /\ Len(h) \in Nat /\ DOMAIN h = 1..Len(h)
           /\ \A n \in DOMAIN h : h[n].script \in ScriptName /\ h[n].end \in Ends
           /\ h # <<>> <=> Len(h) > 0
<1> DEFINE R == [script : ScriptName, end : Ends]
<1>1. h \in Seq(R)
  BY DEF History
<1>2. \A r \in R : r.script \in ScriptName /\ r.end \in Ends
  OBVIOUS
<1> HIDE DEF R
<1>3. /\ Len(h) \in Nat /\ DOMAIN h = 1..Len(h)
      /\ \A n \in DOMAIN h : h[n] \in R
      /\ h # <<>> <=> Len(h) > 0
  BY <1>1
<1> QED BY <1>2, <1>3

(* A history with one more script.                                           *)
LEMMA AppendFacts ==
    ASSUME NEW h \in History, NEW s, NEW g, g = Append(h, OpenRun(s))
    PROVE  /\ Len(g) = Len(h) + 1 /\ DOMAIN g = DOMAIN h \cup {Len(h) + 1}
           /\ g # <<>> /\ g[Len(h) + 1] = OpenRun(s)
           /\ \A n \in DOMAIN h : g[n] = h[n]
<1> DEFINE r == OpenRun(s)
<1>1. h \in Seq([script : ScriptName, end : Ends])
  BY DEF History
<1> HIDE DEF r
<1>2. /\ Len(g) = Len(h) + 1 /\ DOMAIN g = 1..(Len(h) + 1)
      /\ g[Len(h) + 1] = r /\ \A n \in 1..Len(h) : g[n] = h[n]
  <2>1. g = Append(h, r)
    BY DEF r
  <2> QED BY <1>1, <2>1
<1>3. DOMAIN h = 1..Len(h) /\ Len(h) \in Nat
  BY <1>1
<1>4. g # <<>>
  BY <1>2, <1>3
<1> QED BY <1>2, <1>3, <1>4 DEF r

LEMMA OrderedAppend ==
    ASSUME NEW h \in History, NEW S, Ordered(h, S), NEW s \in ScriptName,
           h # <<>> => Follows(h[Len(h)], s),
           s \notin Main => s \in S,
           s \in {"abort", "every"} => ~HasRun(s, h),
           s # "error" => ~HasRun("every", h),
           NEW g, g = Append(h, OpenRun(s))
    PROVE  Ordered(g, S)
<1> DEFINE L == Len(h)
<1>1. /\ L \in Nat /\ DOMAIN h = 1..L /\ DOMAIN g = DOMAIN h \cup {L + 1}
      /\ g[L + 1].script = s /\ \A n \in DOMAIN h : g[n] = h[n]
      /\ h # <<>> <=> L > 0
  BY HistoryFacts, AppendFacts DEF OpenRun
<1> HIDE DEF L
<1>2. ASSUME NEW n \in DOMAIN g, n > 1 PROVE Follows(g[n - 1], g[n].script)
  <2>1. CASE n \in DOMAIN h
    <3>1. n - 1 \in DOMAIN h
      BY <1>1, <1>2, <2>1
    <3> QED BY <1>1, <1>2, <2>1, <3>1 DEF Ordered
  <2>2. CASE n = L + 1
    <3>1. n - 1 = L /\ L \in DOMAIN h
      BY <1>1, <1>2, <2>2
    <3> QED BY <1>1, <2>2, <3>1 DEF L
  <2> QED BY <1>1, <2>1, <2>2
<1>3. AtMostOnce("abort", g) /\ AtMostOnce("every", g)
  BY <1>1 DEF Ordered, AtMostOnce, HasRun
<1>4. \A n \in DOMAIN g : g[n].script \notin Main => g[n].script \in S
  BY <1>1 DEF Ordered
<1>5. \A m, n \in DOMAIN g : g[n].script = "every" /\ m > n => g[m].script = "error"
  BY <1>1 DEF Ordered, HasRun
<1> QED BY <1>2, <1>3, <1>4, <1>5 DEF Ordered

LEMMA AbortRunAppend ==
    ASSUME NEW h \in History, NEW S, NEW s \in ScriptName,
           IF s = "abort" THEN Interrupted(h) ELSE AbortRun(h, S),
           NEW g, g = Append(h, OpenRun(s))
    PROVE  AbortRun(g, S)
<1>1. /\ DOMAIN g = DOMAIN h \cup {Len(h) + 1}
      /\ g[Len(h) + 1].script = s /\ g[Len(h) + 1].end = "open"
      /\ \A n \in DOMAIN h : g[n] = h[n]
  BY AppendFacts DEF OpenRun
<1>2. Interrupted(g) <=> Interrupted(h)
  BY <1>1 DEF Interrupted
<1>3. HasRun("abort", g) <=> HasRun("abort", h) \/ s = "abort"
  BY <1>1 DEF HasRun
<1> QED BY <1>2, <1>3 DEF AbortRun

-----------------------------------------------------------------------------
(* The request handler starts script s after the history h.                  *)
LEMMA StartKeeps ==
    ASSUME NEW h \in History, NEW s \in ScriptName, req' = req, Start(s, h),
           Ordered(h, req.scripts),
           IF s = "abort" THEN Interrupted(h) ELSE AbortRun(h, req.scripts),
           h # <<>> => Follows(h[Len(h)], s),
           s \notin Main => s \in req.scripts,
           s \in {"abort", "every"} => ~HasRun(s, h),
           s # "error" => ~HasRun("every", h),
           s \in Main => WentWell(h)
    PROVE  OrderInv'
<1>1. ran' = Append(h, OpenRun(s)) /\ phase' = s
  BY DEF Start, OpenRun
<1>2. Ordered(ran', req.scripts) /\ AbortRun(ran', req.scripts)
  BY <1>1, OrderedAppend, AbortRunAppend
<1>3. /\ ran' # <<>> /\ Len(ran') = Len(h) + 1 /\ ran'[Len(ran')] = OpenRun(s)
      /\ DOMAIN ran' = DOMAIN h \cup {Len(h) + 1} /\ \A n \in DOMAIN h : ran'[n] = h[n]
  BY <1>1, AppendFacts
<1>4. s \in Main => \A n \in DOMAIN ran' : n < Len(ran') => ran'[n].script \in Main
                                                           /\ ran'[n].end = "ok"
  BY <1>3, HistoryFacts DEF WentWell
<1>5. s \notin {"load", "flush", "cleanup"}
  BY DEF ScriptName, Main
<1> QED BY <1>1, <1>2, <1>3, <1>4, <1>5 DEF OrderInv

(* AfterEveryScript runs, or has run, or there is none.                      *)
LEMMA EveryKeeps ==
    ASSUME NEW h \in History, req' = req, StartEvery(h),
           Ordered(h, req.scripts), AbortRun(h, req.scripts)
    PROVE  OrderInv'
<1>1. CASE "every" \in req.scripts /\ ~HasRun("every", h)
  <2>1. Start("every", h)
    BY <1>1 DEF StartEvery, Configured
  <2>2. h # <<>> => Follows(h[Len(h)], "every")
    <3>1. h # <<>> => Len(h) \in DOMAIN h
      BY HistoryFacts
    <3>2. h # <<>> => h[Len(h)].script \in ScriptName \ {"every"}
      BY <1>1, <3>1, HistoryFacts DEF HasRun
    <3> QED BY <3>2 DEF Follows, Rank, ScriptName, Main
  <2> QED BY <1>1, <2>1, <2>2, StartKeeps DEF ScriptName, Main
<1>2. CASE ~("every" \in req.scripts /\ ~HasRun("every", h))
  <2>1. phase' = "flush" /\ ran' = h
    BY <1>2 DEF StartEvery, Configured
  <2> QED BY <1>2, <2>1 DEF OrderInv, ScriptName, Main
<1> QED BY <1>1, <1>2

(* ErrorScript, if there is one, after a script that went wrong.             *)
LEMMA ErrorKeeps ==
    ASSUME NEW h \in History, req' = req, Start("error", h), "error" \in req.scripts,
           Ordered(h, req.scripts), AbortRun(h, req.scripts),
           Follows(h[Len(h)], "error")
    PROVE  OrderInv'
BY StartKeeps DEF ScriptName, Main

(* The history when the running script has ended.                            *)
LEMMA EndedFacts ==
    ASSUME RInv, OrderInv, phase \in ScriptName,
           NEW e \in {"ok", "return", "error", "raised"}, NEW h, h = Ended(e)
    PROVE  /\ h \in History /\ h # <<>> /\ Len(h) = Len(ran) /\ Len(h) \in DOMAIN h
           /\ DOMAIN h = DOMAIN ran
           /\ \A n \in DOMAIN h : n # Len(h) => h[n] = ran[n]
           /\ h[Len(h)].script = phase /\ h[Len(h)].end = e
           /\ Ordered(h, req.scripts)
<1> DEFINE L == Len(ran)
<1>1. ran \in History /\ h \in History /\ h # <<>>
  BY EndedHistory DEF RInv, TypeOK, History
<1>2. /\ L \in Nat /\ L > 0 /\ DOMAIN ran = 1..L /\ ran[L] = OpenRun(phase)
  BY <1>1, HistoryFacts DEF OrderInv
<1>3. h = [ran EXCEPT ![L] = [ran[L] EXCEPT !.end = e]]
  BY DEF Ended
<1> HIDE DEF L
<1>4. DOMAIN h = 1..L /\ L \in DOMAIN h /\ \A n \in DOMAIN h : n # L => h[n] = ran[n]
  BY <1>2, <1>3
<1>5. h[L].script = phase /\ h[L].end = e
  BY <1>2, <1>3 DEF OpenRun
<1>6. Len(h) = L
  BY <1>1, <1>2, <1>4, HistoryFacts
<1>7. Ordered(h, req.scripts)
  <2>1. Ordered(ran, req.scripts)
    BY DEF OrderInv
  <2>2. \A n \in DOMAIN h : h[n].script = ran[n].script
    BY <1>2, <1>4, <1>5 DEF OpenRun
  <2>3. ASSUME NEW n \in DOMAIN h, n > 1 PROVE Follows(h[n - 1], h[n].script)
    <3>1. n - 1 \in DOMAIN h /\ n - 1 # L /\ n \in DOMAIN ran
      BY <1>2, <1>4, <2>3
    <3>2. h[n - 1] = ran[n - 1] /\ h[n].script = ran[n].script
      BY <1>4, <2>2, <3>1
    <3> QED BY <2>1, <2>3, <3>1, <3>2 DEF Ordered
  <2> QED BY <1>2, <1>4, <2>1, <2>2, <2>3 DEF Ordered, AtMostOnce
<1> QED BY <1>1, <1>2, <1>4, <1>5, <1>6, <1>7 DEF L

LEMMA MainEndsKeeps ==
    ASSUME RInv, OrderInv, phase \in Main, req' = req,
           NEW e \in {"ok", "return", "error", "raised"}, MainEnds(e)
    PROVE  OrderInv'
<1> DEFINE h == Ended(e)
<1>1. phase \in ScriptName
  BY DEF ScriptName
<1>2. /\ h \in History /\ h # <<>> /\ Len(h) = Len(ran) /\ Len(h) \in DOMAIN h
      /\ DOMAIN h = DOMAIN ran
      /\ \A n \in DOMAIN h : n # Len(h) => h[n] = ran[n]
      /\ h[Len(h)].script = phase /\ h[Len(h)].end = e
      /\ Ordered(h, req.scripts)
  BY <1>1, EndedFacts
<1>3. \/ e = "ok" /\ phase = "before" /\ StartPage(h)
      \/ e = "ok" /\ phase = "page" /\ StartAfter(h)
      \/ e = "raised" /\ StartAbort(h)
      \/ e = "error" /\ StartError(h)
      \/ e \in {"ok", "return"} /\ StartEvery(h)
  BY DEF MainEnds
<1> HIDE DEF h
<1>4. \A n \in DOMAIN h : h[n].script \in Main /\ (n # Len(h) => h[n].end = "ok")
  <2>1. \A n \in DOMAIN h : n # Len(h) => n < Len(ran)
    BY <1>2, HistoryFacts
  <2> QED BY <1>2, <2>1 DEF OrderInv
<1>5. ~HasRun("abort", h) /\ ~HasRun("every", h)
  BY <1>4 DEF HasRun, Main
<1>6. Interrupted(h) <=> e = "raised"
  BY <1>2, <1>4 DEF Interrupted
<1>7. e # "raised" => AbortRun(h, req.scripts)
  BY <1>5, <1>6 DEF AbortRun
<1>8. CASE e = "ok" /\ phase = "before" /\ StartPage(h)
  <2>1. phase' = "load" /\ ran' = h
    BY <1>8 DEF StartPage
  <2>2. OnlyBefore(h)
    <3>1. ASSUME NEW n \in DOMAIN h, n # Len(h) PROVE FALSE
      <4>1. n + 1 \in DOMAIN h /\ n + 1 > 1 /\ n \in Nat
        BY <1>2, <3>1, HistoryFacts
      <4>2. \A m \in DOMAIN h : m > 1 => Rank(h[m].script) > 1
        <5> SUFFICES ASSUME NEW m \in DOMAIN h, m > 1 PROVE Rank(h[m].script) > 1
          OBVIOUS
        <5>1. m - 1 \in DOMAIN h
          BY <1>2, HistoryFacts
        <5>2. Follows(h[m - 1], h[m].script) /\ h[m].script \in Main /\ h[m - 1].script \in Main
          BY <1>2, <1>4, <5>1 DEF Ordered
        <5> QED BY <5>2 DEF Follows, Rank, Main
      <4>3. Len(h) > 1
        BY <1>2, <3>1, HistoryFacts
      <4> QED BY <1>2, <1>8, <4>2, <4>3 DEF Rank
    <3> QED BY <1>2, <1>8, <3>1 DEF OnlyBefore
  <2> QED BY <1>2, <1>7, <1>8, <2>1, <2>2 DEF OrderInv, ScriptName, Main
<1>9. CASE e = "ok" /\ phase = "page" /\ StartAfter(h)
  <2>1. CASE "after" \in req.scripts
    <3>1. Start("after", h)
      BY <1>9, <2>1 DEF StartAfter, Configured
    <3>2. Follows(h[Len(h)], "after")
      BY <1>2, <1>9 DEF Follows, Rank
    <3>3. WentWell(h)
      BY <1>2, <1>4, <1>9 DEF WentWell
    <3> QED BY <1>2, <1>5, <1>7, <1>9, <3>1, <3>2, <3>3, StartKeeps DEF ScriptName, Main
  <2>2. CASE "after" \notin req.scripts
    BY <1>2, <1>7, <1>9, <2>2, EveryKeeps DEF StartAfter, Configured
  <2> QED BY <2>1, <2>2
<1>10. CASE e = "raised" /\ StartAbort(h)
  <2>1. CASE "abort" \in req.scripts
    <3>1. Start("abort", h)
      BY <1>10, <2>1 DEF StartAbort, Configured
    <3>2. Follows(h[Len(h)], "abort")
      BY <1>2, <1>10 DEF Follows, Rank, Main
    <3> QED BY <1>2, <1>5, <1>6, <1>10, <2>1, <3>1, <3>2, StartKeeps DEF ScriptName, Main
  <2>2. CASE "abort" \notin req.scripts
    BY <1>2, <1>10, <2>2, EveryKeeps DEF StartAbort, Configured, AbortRun
  <2> QED BY <2>1, <2>2
<1>11. CASE e = "error" /\ StartError(h)
  <2>1. Follows(h[Len(h)], "error")
    BY <1>2, <1>11 DEF Follows, Main
  <2> QED BY <1>2, <1>7, <1>11, <2>1, ErrorKeeps, EveryKeeps DEF StartError, Configured
<1>12. CASE e \in {"ok", "return"} /\ StartEvery(h)
  BY <1>2, <1>7, <1>12, EveryKeeps
<1> QED BY <1>3, <1>8, <1>9, <1>10, <1>11, <1>12

LEMMA ClosingEndsKeeps ==
    ASSUME RInv, OrderInv, phase \in ScriptName \ Main, req' = req,
           NEW e \in {"ok", "return", "error", "raised"}, ClosingEnds(e)
    PROVE  OrderInv'
<1> DEFINE h == Ended(e)
<1>1. /\ h \in History /\ h # <<>> /\ Len(h) = Len(ran) /\ Len(h) \in DOMAIN h
      /\ DOMAIN h = DOMAIN ran
      /\ \A n \in DOMAIN h : n # Len(h) => h[n] = ran[n]
      /\ h[Len(h)].script = phase /\ h[Len(h)].end = e
      /\ Ordered(h, req.scripts)
  BY EndedFacts
<1>2. StartEvery(h) \/ (/\ e \in {"error", "raised"} /\ "error" \in req.scripts
                        /\ Start("error", h))
  BY DEF ClosingEnds, Configured
<1> HIDE DEF h
<1>3. AbortRun(h, req.scripts)
  <2>1. ran[Len(h)].script = phase
    BY <1>1 DEF OrderInv, OpenRun
  <2>2. Interrupted(h) <=> Interrupted(ran)
    BY <1>1, <2>1 DEF Interrupted
  <2>3. HasRun("abort", h) <=> HasRun("abort", ran)
    BY <1>1, <2>1 DEF HasRun
  <2> QED BY <2>2, <2>3 DEF OrderInv, AbortRun
<1>4. e \in {"error", "raised"} => Follows(h[Len(h)], "error")
  BY <1>1 DEF Follows, Main
<1> QED BY <1>1, <1>2, <1>3, <1>4, EveryKeeps, ErrorKeeps

LEMMA ScriptEndsKeeps ==
    ASSUME RInv, OrderInv, phase \in ScriptName, req' = req,
           NEW e \in {"ok", "return", "error", "raised"}, ScriptEnds(e)
    PROVE  OrderInv'
BY MainEndsKeeps, ClosingEndsKeeps DEF ScriptEnds

(* Steps that run no script and end none.                                    *)
LEMMA SameOrder ==
    ASSUME OrderInv, UNCHANGED <<phase, ran, req>>
    PROVE  OrderInv'
BY DEF OrderInv

(* Steps between two requests, and those that admit or dismiss one.          *)
LEMMA NothingRan ==
    ASSUME ran' = <<>>, phase' \notin ScriptName \cup {"load"}
    PROVE  OrderInv'
<1>1. Ordered(<<>>, req'.scripts) /\ AbortRun(<<>>, req'.scripts)
  BY DEF Ordered, AbortRun, AtMostOnce, HasRun, Interrupted
<1> QED BY <1>1 DEF OrderInv, ScriptName

LEMMA EvaluateKeeps ==
    ASSUME RInv, NEW made \in BOOLEAN, Evaluate(made)
    PROVE  OrderInv'
<1>1. ran = <<>> /\ req' = req
  BY DEF Evaluate, RInv, ThreadClean, confVars
<1>2. <<>> \in History /\ DOMAIN <<>> = {}
  BY EmptyHistory
<1>3. Ordered(<<>>, req.scripts) /\ AbortRun(<<>>, req.scripts)
  BY DEF Ordered, AbortRun, AtMostOnce, HasRun, Interrupted
<1>4. CASE Start("before", ran)
  BY <1>1, <1>2, <1>3, <1>4, StartKeeps DEF WentWell, HasRun, ScriptName, Main
<1>5. CASE StartPage(ran)
  BY <1>1, <1>2, <1>3, <1>5 DEF StartPage, OrderInv, OnlyBefore, ScriptName, Main
<1> QED BY <1>4, <1>5 DEF Evaluate

(* url_script found the page, or there is none and AfterScript is next.      *)
LEMMA UrlScriptKeeps ==
    ASSUME RInv, OrderInv, NEW readable \in BOOLEAN, UrlScript(readable)
    PROVE  OrderInv'
<1>1. phase = "load" /\ req' = req /\ (Start("page", ran) \/ StartAfter(ran))
  BY DEF UrlScript, confVars
<1>2. ran \in History
  BY DEF RInv, TypeOK, History
<1>3. /\ Ordered(ran, req.scripts) /\ AbortRun(ran, req.scripts) /\ OnlyBefore(ran)
  BY <1>1 DEF OrderInv
<1>4. WentWell(ran) /\ ~HasRun("every", ran)
  BY <1>3 DEF OnlyBefore, WentWell, HasRun, Main
<1>5. ran # <<>> => Follows(ran[Len(ran)], "page") /\ Follows(ran[Len(ran)], "after")
  <2>1. ran # <<>> => Len(ran) \in DOMAIN ran
    BY <1>2, HistoryFacts
  <2> QED BY <1>3, <2>1 DEF OnlyBefore, Follows, Rank
<1>6. CASE Start("page", ran)
  BY <1>1, <1>2, <1>3, <1>4, <1>5, <1>6, StartKeeps DEF ScriptName, Main
<1>7. CASE StartAfter(ran) /\ "after" \in req.scripts
  BY <1>1, <1>2, <1>3, <1>4, <1>5, <1>7, StartKeeps DEF StartAfter, Configured, ScriptName, Main
<1>8. CASE StartAfter(ran) /\ "after" \notin req.scripts
  BY <1>1, <1>2, <1>3, <1>8, EveryKeeps DEF StartAfter, Configured
<1> QED BY <1>1, <1>6, <1>7, <1>8

LEMMA FinishKeeps == ASSUME OrderInv, Finish PROVE OrderInv'
BY DEF Finish, OrderInv, confVars, ScriptName, Main

LEMMA StepKeepsOrder == RInv /\ OrderInv /\ [Next]_vars => OrderInv'
<1> SUFFICES ASSUME RInv, OrderInv, [Next]_vars PROVE OrderInv'
  OBVIOUS
<1>1. CASE \E i \in Interps, f \in Files, p \in Places, S \in ScriptSets : Admit(i, f, p, S)
  BY <1>1, NothingRan DEF Admit, ScriptName, Main
<1>2. CASE Refuse \/ ParseFails \/ HeadOnly
  <2>1. ran' = <<>> /\ phase' = "cleanup"
    BY <1>2 DEF Refuse, ParseFails, HeadOnly, outputVars, RInv, ThreadClean
  <2> QED BY <2>1, NothingRan DEF ScriptName, Main
<1>3. CASE \E made \in BOOLEAN : Evaluate(made)
  BY <1>3, EvaluateKeeps
<1>4. CASE Puts \/ Flush \/ NoBody
  BY <1>4, SameOrder DEF Puts, Flush, NoBody, confVars
<1>5. ASSUME NEW c \in Codes \cup {None}, NEW caught \in BOOLEAN, AbortPage(c, caught)
      PROVE  OrderInv'
  BY <1>5, SameOrder, ScriptEndsKeeps DEF AbortPage, Running, confVars
<1>6. ASSUME NEW caught \in BOOLEAN, Exit(caught)
      PROVE  OrderInv'
  BY <1>6, SameOrder, ScriptEndsKeeps DEF Exit, Running, confVars
<1>7. CASE \E e \in {"ok", "return", "error"} : EndScript(e)
  BY <1>7, ScriptEndsKeeps DEF EndScript, Running, confVars
<1>8. CASE \E f \in Files, e \in Encodings \cup {None} : Parse(f, e)
  BY <1>8, SameOrder DEF Parse, confVars, outputVars
<1>9. CASE \E readable \in BOOLEAN : ParseLoad(readable)
  BY <1>9, SameOrder DEF ParseLoad, confVars, outputVars
<1>10. CASE \E readable \in BOOLEAN : UrlScript(readable)
  BY <1>10, UrlScriptKeeps
<1>11. CASE Finish
  BY <1>11, FinishKeeps
<1>12. CASE SendCleanup
  BY <1>12, NothingRan DEF SendCleanup, ScriptName, Main
<1>13. CASE NewThread
  <2>1. ran' = <<>> /\ phase' = "idle"
    BY <1>13 DEF NewThread, RInv, ThreadClean
  <2> QED BY <2>1, NothingRan DEF ScriptName, Main
<1>14. CASE EditFile
  BY <1>14, SameOrder DEF EditFile, confVars, outputVars
<1>15. CASE ChildCrashes
  BY <1>15, NothingRan DEF ChildCrashes, ScriptName, Main
<1>16. CASE UNCHANGED vars
  BY <1>16, SameOrder DEF vars, confVars
<1> QED
  BY <1>1, <1>2, <1>3, <1>4, <1>5, <1>6, <1>7, <1>8, <1>9, <1>10, <1>11, <1>12,
     <1>13, <1>14, <1>15, <1>16 DEF Next

(* A script that runs at most once is counted as one or none.                *)
LEMMA CountOnce ==
    ASSUME NEW s, AtMostOnce(s, ran)
    PROVE  Count(s) = IF HasRun(s, ran) THEN 1 ELSE 0
<1> DEFINE C == {n \in DOMAIN ran : ran[n].script = s}
<1>1. CASE HasRun(s, ran)
  <2>1. PICK n \in DOMAIN ran : ran[n].script = s
    BY <1>1 DEF HasRun
  <2>2. C = {n}
    BY <2>1 DEF AtMostOnce
  <2> QED BY <1>1, <2>2, FS_Singleton DEF Count
<1>2. CASE ~HasRun(s, ran)
  <2>1. C = {}
    BY <1>2 DEF HasRun
  <2> QED BY <1>2, <2>1, FS_EmptySet DEF Count
<1> QED BY <1>1, <1>2

LEMMA OrderImplies == RInv /\ OrderInv => ScriptsInOrder
<1> SUFFICES ASSUME RInv, OrderInv PROVE ScriptsInOrder
  OBVIOUS
<1>1. \A n \in DOMAIN ran : n > 1 => Follows(ran[n - 1], ran[n].script)
  BY DEF OrderInv, Ordered
<1>2. Count("every") = IF HasRun("every", ran) THEN 1 ELSE 0
  BY CountOnce DEF OrderInv, Ordered
<1>3. Count("abort") = IF HasRun("abort", ran) THEN 1 ELSE 0
  BY CountOnce DEF OrderInv, Ordered
<1>4. HasRun("every", ran) => Configured("every")
  BY DEF OrderInv, Ordered, HasRun, Configured, Main
<1>5. phase \in {"flush", "cleanup"} /\ ran # <<>> =>
        /\ Count("every") = IF Configured("every") THEN 1 ELSE 0
        /\ Configured("abort") => (Count("abort") = 1 <=> Interrupted(ran))
  BY <1>2, <1>3, <1>4 DEF OrderInv, AbortRun, Configured
<1>6. \A m, n \in DOMAIN ran : ran[n].script = "every" /\ m > n => ran[m].script = "error"
  BY DEF OrderInv, Ordered
<1> QED BY <1>1, <1>5, <1>6 DEF ScriptsInOrder, Follows, Rank, Interrupted

(* The scripts of every request run as the manual says, whichever are         *)
(* configured and however they end: AbortScript exactly after an interrupted  *)
(* main script, AfterEveryScript once and with nothing but ErrorScript behind.*)
THEOREM ScriptsKeepOrder == Spec => []ScriptsInOrder
<1>1. Init => OrderInv
  BY DEF Init, OrderInv, Ordered, AbortRun, AtMostOnce, HasRun, Interrupted,
     ScriptName, Main
<1>2. Spec => []OrderInv
  BY <1>1, StepKeepsOrder, SpecRInv, PTL DEF Spec
<1> QED BY <1>2, SpecRInv, OrderImplies, PTL
=============================================================================
