------------------------ MODULE ServerLifecycleProofs ------------------------
(* Theorems about the life of a server, for every set of directives,         *)
(* directories and virtual hosts and any numbers of edits, restarts,         *)
(* children and requests.  IInv has a part for the reading of the file, for  *)
(* the records made of it, for the child's objects and for what was          *)
(* evaluated in its interpreters.  The types, the indexes and the scripts    *)
(* that run once follow from it; for what a request runs and what inspect    *)
(* answers, the walk to a directory is compared with what the file says, and *)
(* CacheInv tells what is kept of earlier requests.  That a request runs the *)
(* closest definitions needs UserAlone.                                      *)
EXTENDS ServerLifecycle, FoldFacts, FiniteSetTheorems, SequenceTheorems

ReadState ==
    [globals : Globals, server : [Hosts -> Conf \cup {None}],
     section : [Hosts -> [Dirs -> Conf \cup {None}]]]

(* Reading the file is a walk over its lines.                                *)
LEMMA ReadSteps ==
    ASSUME file \in Seq(Directives), NEW start \in ReadState,
           \A st \in ReadState : \A i \in 1..Len(file) : Directive(st, i) \in ReadState
    PROVE  \E g \in [0..Len(file) -> ReadState] :
               /\ g[0] = start
               /\ \A k \in 1..Len(file) : g[k] = Directive(g[k-1], k)
               /\ ReadLines(start) = g[Len(file)]
<1> DEFINE n == Len(file)
           seq == [i \in DOMAIN file |-> i]
           G == [p \in ReadState \X (1..n) |-> Directive(p[1], p[2])]
           Eq(u) == u = [s \in SUBSET (DOMAIN seq) |->
                      IF s = {} THEN start ELSE Directive(u[s \ {Max(s)}], seq[Max(s)])]
<1>1. n \in Nat /\ DOMAIN seq = 1..n /\ \A i \in 1..n : seq[i] = i
  OBVIOUS
<1>2. G \in [ReadState \X (1..n) -> ReadState]
  OBVIOUS
<1>3. PICK f \in [SUBSET (1..n) -> ReadState] : Iterates(f, n, start, G)
  <2> HIDE DEF G, n
  <2> QED BY <1>1, <1>2, IterationExists
<1>4. Eq(f)
  <2>1. ASSUME NEW s \in SUBSET (1..n), s # {}
        PROVE  f[s] = Directive(f[s \ {Max(s)}], seq[Max(s)])
    <3>1. Max(s) \in s
      <4> HIDE DEF n
      <4> QED BY <2>1, <1>1, MaxIn
    <3>2. f[s] = G[<<f[s \ {Max(s)}], Max(s)>>]
      BY <2>1, <1>3 DEF Iterates
    <3> QED BY <3>1, <3>2, <1>1
  <2>2. f[{}] = start
    BY <1>3 DEF Iterates
  <2>3. f = [s \in SUBSET (1..n) |-> f[s]]
    OBVIOUS
  <2> HIDE DEF n, G
  <2> QED BY <2>1, <2>2, <2>3, <1>1
<1>5. PICK h : Eq(h) /\ ReadLines(start) = h[1..n]
  <2>1. ReadLines(start) = (CHOOSE u : Eq(u))[DOMAIN seq]
    BY DEF ReadLines, FoldLeft, MapThenFoldSet
  <2> HIDE DEF Eq, n
  <2> QED BY <1>1, <1>4, <2>1
<1>6. h[1..0] = start
  <2>1. {} \in SUBSET (DOMAIN seq) /\ 1..0 = {}
    OBVIOUS
  <2> QED BY <1>5, <2>1
<1>7. ASSUME NEW k \in 1..n PROVE h[1..k] = Directive(h[1..(k-1)], k)
  <2>1. k \in Nat /\ k > 0 /\ 1..k \in SUBSET (1..n)
    BY <1>1
  <2>2. Max(1..k) = k /\ (1..k) \ {k} = 1..(k - 1) /\ 1..k # {}
    BY <2>1, MaxOfPrefix
  <2>3. \A s \in SUBSET (DOMAIN seq) :
            h[s] = IF s = {} THEN start ELSE Directive(h[s \ {Max(s)}], seq[Max(s)])
    BY <1>5
  <2>4. 1..k \in SUBSET (DOMAIN seq) /\ seq[k] = k
    BY <1>1
  <2> HIDE DEF n, Eq
  <2> QED BY <2>2, <2>3, <2>4
<1> DEFINE T == {k \in 0..n : h[1..k] \in ReadState}
<1>8. \A k \in 0..n : k \in T
  <2>1. 0 \in T
    BY <1>1, <1>6
  <2>2. \A k \in 0..n : k \in T /\ k < n => k + 1 \in T
    <3> SUFFICES ASSUME NEW k \in 0..n, k \in T, k < n PROVE k + 1 \in T
      OBVIOUS
    <3>1. k + 1 \in 1..n /\ k + 1 \in 0..n /\ (k + 1) - 1 = k
      BY <1>1
    <3>2. h[1..(k+1)] = Directive(h[1..k], k+1) /\ h[1..k] \in ReadState
      BY <3>1, <1>7
    <3> QED BY <3>1, <3>2
  <2> HIDE DEF T, n
  <2> QED BY <2>1, <2>2, <1>1, Induction
<1> DEFINE g == [k \in 0..n |-> h[1..k]]
<1>9. g \in [0..n -> ReadState]
  BY <1>8
<1>10. g[0] = start /\ g[n] = h[1..n]
  BY <1>1, <1>6
<1>11. ASSUME NEW k \in 1..n PROVE g[k] = Directive(g[k-1], k)
  <2>1. k \in 0..n /\ k - 1 \in 0..n
    BY <1>1
  <2> QED BY <2>1, <1>7
<1> HIDE DEF g
<1> QED BY <1>9, <1>10, <1>11, <1>5

(* The text that some lines of the file give: the texts of these lines.      *)
LEMMA TextUpToFacts ==
    ASSUME file \in Seq(Directives), NEW own, NEW t, t = TextUpTo(file, own)
    PROVE  /\ t \in [0..Len(file) -> Seq(TextItem)]
           /\ t[0] = <<>>
           /\ \A k \in 1..Len(file) :
                  t[k] = IF k \in own THEN Append(t[k - 1], Text(k)) ELSE t[k - 1]
<1> DEFINE n == Len(file)
           V == Seq(TextItem)
           G == [p \in V \X (1..n) |-> IF p[2] \in own THEN Append(p[1], Text(p[2])) ELSE p[1]]
           Eq(u) == u = [m \in 0..n |->
                            IF m = 0 THEN <<>>
                            ELSE IF m \in own THEN Append(u[m - 1], Text(m)) ELSE u[m - 1]]
<1>1. n \in Nat /\ <<>> \in V
  OBVIOUS
<1>2. G \in [V \X (1..n) -> V]
  <2>1. ASSUME NEW q \in V, NEW i \in 1..n PROVE Append(q, Text(i)) \in V
    BY <1>1 DEF Text, TextItem
  <2> HIDE DEF V
  <2> QED BY <2>1
<1>3. PICK f \in [0..n -> V] : Recurses(f, n, <<>>, G)
  <2> HIDE DEF G, n, V
  <2> QED BY <1>1, <1>2, RecursionExists
<1>4. Eq(f)
  <2>1. ASSUME NEW m \in 0..n, m # 0
        PROVE  f[m] = IF m \in own THEN Append(f[m - 1], Text(m)) ELSE f[m - 1]
    <3>1. m \in 1..n /\ m - 1 \in 0..n
      BY <1>1, <2>1
    <3>2. f[m] = G[<<f[m - 1], m>>] /\ f[m - 1] \in V
      BY <2>1, <3>1, <1>3 DEF Recurses
    <3> HIDE DEF V, n
    <3> QED BY <3>1, <3>2
  <2>2. f[0] = <<>>
    <3>1. 0 \in 0..n
      BY <1>1
    <3> HIDE DEF n, G, V
    <3> QED BY <3>1, <1>3 DEF Recurses
  <2>3. f = [m \in 0..n |-> f[m]]
    OBVIOUS
  <2> HIDE DEF n, G, V
  <2> QED BY <2>1, <2>2, <2>3
<1>5. Eq(t)
  <2>1. t = CHOOSE u : Eq(u)
    BY DEF TextUpTo
  <2> HIDE DEF Eq
  <2> QED BY <1>4, <2>1
<1>6. /\ t[0] = <<>>
      /\ \A k \in 1..n : t[k] = IF k \in own THEN Append(t[k - 1], Text(k)) ELSE t[k - 1]
  <2>1. \A m \in 0..n : t[m] = IF m = 0 THEN <<>>
                            ELSE IF m \in own THEN Append(t[m - 1], Text(m)) ELSE t[m - 1]
    BY <1>5
  <2>2. 0 \in 0..n /\ \A k \in 1..n : k \in 0..n /\ k # 0
    BY <1>1
  <2> HIDE DEF n, Eq
  <2> QED BY <2>1, <2>2
<1> DEFINE T == {k \in 0..n : t[k] \in V}
<1>7. \A k \in 0..n : k \in T
  <2>1. 0 \in T
    <3> HIDE DEF n, V
    <3> QED BY <1>1, <1>6
  <2>2. \A k \in 0..n : k \in T /\ k < n => k + 1 \in T
    <3> SUFFICES ASSUME NEW k \in 0..n, k \in T, k < n PROVE k + 1 \in T
      OBVIOUS
    <3>1. k + 1 \in 1..n /\ k + 1 \in 0..n /\ (k + 1) - 1 = k /\ t[k] \in V
      BY <1>1
    <3>2. t[k+1] = IF k + 1 \in own THEN Append(t[k], Text(k + 1)) ELSE t[k]
      BY <3>1, <1>6
    <3>3. Text(k + 1) \in TextItem
      BY <3>1 DEF Text, TextItem
    <3>4. t[k+1] \in V
      BY <3>1, <3>2, <3>3
    <3> HIDE DEF V, n
    <3> QED BY <3>1, <3>4
  <2> HIDE DEF T, n
  <2> QED BY <2>1, <2>2, <1>1, Induction
<1>8. t = [m \in 0..n |-> t[m]]
  <2>1. DOMAIN t = 0..n
    BY <1>5
  <2> QED BY <1>5, <2>1
<1>9. t \in [0..n -> V]
  <2> HIDE DEF Eq, n, V
  <2> QED BY <1>7, <1>8
<1> QED BY <1>6, <1>9

(* It holds the texts of these lines and no other.                           *)
LEMMA TextUpToContent ==
    ASSUME file \in Seq(Directives), NEW own, NEW t, t = TextUpTo(file, own), NEW k \in 0..Len(file)
    PROVE  /\ \A j \in 1..Len(t[k]) : \E i \in own \cap (1..k) : t[k][j] = Text(i)
           /\ \A i \in own \cap (1..k) : \E j \in 1..Len(t[k]) : t[k][j] = Text(i)
           /\ t[k] = <<>> <=> own \cap (1..k) = {}
<1> DEFINE n == Len(file)
           C(m) == /\ \A j \in 1..Len(t[m]) : \E i \in own \cap (1..m) : t[m][j] = Text(i)
                   /\ \A i \in own \cap (1..m) : \E j \in 1..Len(t[m]) : t[m][j] = Text(i)
           T == {m \in 0..n : C(m)}
<1>1. n \in Nat
  OBVIOUS
<1>2. /\ t \in [0..n -> Seq(TextItem)] /\ t[0] = <<>>
      /\ \A m \in 1..n : t[m] = IF m \in own THEN Append(t[m - 1], Text(m)) ELSE t[m - 1]
  BY TextUpToFacts
<1> HIDE DEF n
<1>3. 0 \in T
  BY <1>1, <1>2
<1>4. \A m \in 0..n : m \in T /\ m < n => m + 1 \in T
  <2> SUFFICES ASSUME NEW m \in 0..n, m \in T, m < n PROVE m + 1 \in T
    OBVIOUS
  <2> SUFFICES C(m + 1)
    BY <1>1
  <2>0. C(m)
    OBVIOUS
  <2> HIDE DEF T
  <2>1. m + 1 \in 1..n /\ (m + 1) - 1 = m /\ t[m] \in Seq(TextItem)
    BY <1>1, <1>2
  <2>2. t[m + 1] = IF m + 1 \in own THEN Append(t[m], Text(m + 1)) ELSE t[m]
    BY <1>2, <2>1
  <2>3. CASE m + 1 \in own
    <3>1. t[m + 1] = Append(t[m], Text(m + 1))
      BY <2>2, <2>3
    <3>2. /\ Len(t[m + 1]) = Len(t[m]) + 1 /\ t[m + 1][Len(t[m]) + 1] = Text(m + 1)
          /\ \A j \in 1..Len(t[m]) : t[m + 1][j] = t[m][j]
      BY <2>1, <3>1
    <3>3. own \cap (1..(m + 1)) = (own \cap (1..m)) \cup {m + 1}
      BY <1>1, <2>3
    <3>4. Len(t[m]) \in Nat
      BY <2>1
    <3>5. ASSUME NEW j \in 1..Len(t[m + 1])
          PROVE  \E i \in own \cap (1..(m + 1)) : t[m + 1][j] = Text(i)
      <4>1. j \in 1..Len(t[m]) \/ j = Len(t[m]) + 1
        BY <3>2, <3>4
      <4>2. CASE j \in 1..Len(t[m])
        <5>1. PICK i \in own \cap (1..m) : t[m][j] = Text(i)
          BY <4>2, <2>0
        <5> QED BY <5>1, <4>2, <3>2, <3>3
      <4>3. CASE j = Len(t[m]) + 1
        BY <4>3, <3>2, <3>3
      <4> QED BY <4>1, <4>2, <4>3
    <3>6. ASSUME NEW i \in own \cap (1..(m + 1))
          PROVE  \E j \in 1..Len(t[m + 1]) : t[m + 1][j] = Text(i)
      <4>1. CASE i = m + 1
        BY <4>1, <3>2, <3>4
      <4>2. CASE i # m + 1
        <5>1. PICK j \in 1..Len(t[m]) : t[m][j] = Text(i)
          BY <4>2, <3>3, <2>0
        <5>2. t[m + 1][j] = Text(i)
          BY <5>1, <3>2
        <5>3. j \in 1..Len(t[m + 1])
          BY <3>2, <3>4
        <5> QED BY <5>2, <5>3
      <4> QED BY <4>1, <4>2
    <3> QED BY <3>5, <3>6
  <2>4. CASE m + 1 \notin own
    <3>1. own \cap (1..(m + 1)) = own \cap (1..m)
      BY <1>1, <2>4
    <3>2. t[m + 1] = t[m]
      BY <2>2, <2>4
    <3> QED BY <2>0, <3>1, <3>2
  <2> QED BY <2>3, <2>4
<1>5. C(k)
  <2>1. \A m \in 0..n : m \in T
    <3> HIDE DEF T
    <3> QED BY <1>1, <1>3, <1>4, Induction
  <2> QED BY <2>1 DEF n
<1>6. t[k] \in Seq(TextItem)
  BY <1>2 DEF n
<1>7. t[k] = <<>> <=> own \cap (1..k) = {}
  <2>1. t[k] = <<>> <=> Len(t[k]) = 0
    BY <1>6
  <2>2. Len(t[k]) \in Nat
    BY <1>6
  <2> QED BY <1>5, <2>1, <2>2
<1> QED BY <1>5, <1>7

-----------------------------------------------------------------------------
(* The handlers of the directives: what they do to a record.                 *)

(* A directive's line is appended to its script and to no other.             *)
LEMMA SetScriptFacts ==
    ASSUME NEW conf \in Conf, NEW name, NEW t \in TextItem,
           NEW new, new = SetScript(conf, name, t)
    PROVE  /\ new \in Conf /\ new.path = conf.path /\ (new.user <=> conf.user)
           /\ \A s \in Script : new.script[s] = IF s = name THEN Append(conf.script[s], t)
                                                ELSE conf.script[s]
<1> DEFINE texts == [s \in Script |-> IF s = name THEN Append(conf.script[s], t)
                                      ELSE conf.script[s]]
<1>1. conf.script \in [Script -> Seq(TextItem)]
  BY DEF Conf
<1>2. texts \in [Script -> Seq(TextItem)]
  BY <1>1
<1>3. texts = [conf.script EXCEPT ![name] = Append(@, t)]
  BY <1>1
<1>4. new = [conf EXCEPT !.script = texts]
  <2> HIDE DEF texts
  <2> QED BY <1>3 DEF SetScript
<1>5. \A s \in Script : texts[s] = IF s = name THEN Append(conf.script[s], t) ELSE conf.script[s]
  OBVIOUS
<1> HIDE DEF texts
<1> QED BY <1>2, <1>4, <1>5 DEF Conf

(* RivetServerConf changes its script only.                                  *)
LEMMA ServerConfFacts ==
    ASSUME NEW conf \in Conf, NEW var, NEW val \in ValueOf(var), NEW t \in TextItem,
           NEW new, new = ServerConf(conf, var, val, t)
    PROVE  /\ new \in Conf /\ new.path = conf.path /\ (new.user <=> conf.user)
           /\ \A s \in Script : new.script[s] = IF s = var THEN Append(conf.script[s], t)
                                                ELSE conf.script[s]
<1>1. CASE var = "CacheSize"
  BY <1>1 DEF ServerConf, ValueOf, Conf, Script, MergedScript, SectionScript
<1>2. CASE var = "UploadDirectory"
  BY <1>2 DEF ServerConf, ValueOf, Conf, Script, MergedScript, SectionScript
<1>3. CASE var = "HonorHeadRequests"
  BY <1>3 DEF ServerConf, ValueOf, Conf, Script, MergedScript, SectionScript
<1>4. CASE var \in Script
  <2>1. new = SetScript(conf, var, t)
    BY <1>4 DEF ServerConf, Script, MergedScript, SectionScript
  <2> QED BY <2>1, SetScriptFacts
<1>5. CASE var \notin Script /\ var \notin {"CacheSize", "UploadDirectory", "HonorHeadRequests"}
  BY <1>5 DEF ServerConf
<1> QED BY <1>1, <1>2, <1>3, <1>4, <1>5

(* RivetDirConf changes its script and marks the section's path.             *)
LEMMA DirConfFacts ==
    ASSUME NEW conf \in Conf, NEW dir \in Dirs, NEW var, var \notin Script \ SectionScript,
           NEW val \in ValueOf(var), NEW t \in TextItem,
           NEW new, new = DirConf(conf, dir, var, val, t)
    PROVE  /\ new \in Conf /\ new.path = dir /\ (new.user <=> conf.user)
           /\ \A s \in Script : new.script[s] = IF s = var THEN Append(conf.script[s], t)
                                                ELSE conf.script[s]
<1>1. CASE var = "UploadDirectory"
  BY <1>1 DEF DirConf, ValueOf, Conf, Script, MergedScript, SectionScript
<1>2. CASE var # "UploadDirectory"
  <2> DEFINE set == SetScript(conf, var, t)
  <2>1. /\ set \in Conf /\ set.path = conf.path /\ (set.user <=> conf.user)
        /\ \A s \in Script : set.script[s] = IF s = var THEN Append(conf.script[s], t)
                                             ELSE conf.script[s]
    BY SetScriptFacts
  <2>2. new = [set EXCEPT !.path = dir]
    BY <1>2 DEF DirConf
  <2> HIDE DEF set
  <2> QED BY <2>1, <2>2 DEF Conf
<1> QED BY <1>1, <1>2

(* RivetUserConf changes the scripts of sections and sets the user's mark.   *)
LEMMA UserConfFacts ==
    ASSUME NEW conf \in Conf, NEW var, var \notin Script \ SectionScript, NEW t \in TextItem,
           NEW new, new = UserConf(conf, var, t)
    PROVE  /\ new \in Conf /\ new.path = conf.path /\ new.user
           /\ \A s \in Script : new.script[s] = IF s = var THEN Append(conf.script[s], t)
                                                ELSE conf.script[s]
<1>1. CASE var \in SectionScript
  <2> DEFINE set == SetScript(conf, var, t)
  <2>1. /\ set \in Conf /\ set.path = conf.path /\ (set.user <=> conf.user)
        /\ \A s \in Script : set.script[s] = IF s = var THEN Append(conf.script[s], t)
                                             ELSE conf.script[s]
    BY SetScriptFacts
  <2>2. new = [set EXCEPT !.user = TRUE]
    BY <1>1 DEF UserConf
  <2> HIDE DEF set
  <2> QED BY <2>1, <2>2 DEF Conf
<1>2. CASE var \notin SectionScript
  BY <1>2 DEF UserConf, Conf
<1> QED BY <1>1, <1>2

(* A record that no directive has changed defines nothing.                   *)
LEMMA NewRecords ==
    /\ CreateConfig \in Conf /\ CreateConfig.path = None /\ CreateConfig.user = FALSE
    /\ CreateDirConfig \in Conf /\ CreateDirConfig.path = None /\ CreateDirConfig.user = FALSE
    /\ \A s \in Script : CreateConfig.script[s] = <<>> /\ CreateDirConfig.script[s] = <<>>
    /\ Zeroed \in Conf
<1> DEFINE none == [s \in Script |-> <<>>]
<1>1. none \in [Script -> Seq(TextItem)] /\ \A s \in Script : none[s] = <<>>
  OBVIOUS
<1>2. Zeroed = [script |-> none, cache |-> 0, settings |-> FALSE, upload |-> None,
                user |-> FALSE, path |-> None, idx |-> 0]
  BY DEF Zeroed
<1> HIDE DEF none
<1>3. Zeroed \in Conf /\ Zeroed.path = None /\ Zeroed.user = FALSE /\ Zeroed.script = none
  BY <1>1, <1>2 DEF Conf
<1>4. PICK n \in Int : CreateConfig = [[Zeroed EXCEPT !.cache = n] EXCEPT !.upload = "default"]
  <2>1. PICK n \in Int : n = -1
    OBVIOUS
  <2>2. CreateConfig = [[Zeroed EXCEPT !.cache = n] EXCEPT !.upload = "default"]
    BY <1>2, <2>1 DEF CreateConfig
  <2> QED BY <2>2
<1>5. ASSUME NEW z \in Conf, NEW y, y = [z EXCEPT !.cache = n],
             NEW new, new = [y EXCEPT !.upload = "default"]
      PROVE  new \in Conf /\ new.path = z.path /\ new.user = z.user /\ new.script = z.script
  <2>1. y \in Conf /\ y.path = z.path /\ y.user = z.user /\ y.script = z.script
    BY <1>5 DEF Conf
  <2> QED BY <1>5, <2>1 DEF Conf
<1>6. /\ CreateConfig \in Conf /\ CreateConfig.path = None /\ CreateConfig.user = FALSE
      /\ CreateConfig.script = none
  BY <1>3, <1>4, <1>5
<1> QED BY <1>1, <1>3, <1>6 DEF CreateDirConfig

(* What RivetServerConf sets in module_globals.                              *)
LEMMA SetGlobalFacts ==
    ASSUME NEW g \in Globals, NEW var, NEW val \in ValueOf(var), NEW t \in TextItem,
           NEW new, new = SetGlobal(g, var, val, t)
    PROVE  /\ new \in Globals /\ new.bridge = g.bridge
           /\ new.serverInit = IF var = "ServerInitScript" THEN Append(g.serverInit, t)
                               ELSE g.serverInit
<1>1. CASE var = "ServerInitScript"
  <2>1. Append(g.serverInit, t) \in Seq(TextItem)
    BY DEF Globals
  <2>2. new = [g EXCEPT !.serverInit = Append(g.serverInit, t)]
    BY <1>1 DEF SetGlobal
  <2> DEFINE q == Append(g.serverInit, t)
  <2> HIDE DEF q
  <2> QED BY <1>1, <2>1, <2>2 DEF Globals
<1>2. CASE var = "SeparateVirtualInterps"
  BY <1>2 DEF SetGlobal, Globals, ValueOf
<1>3. CASE var = "SingleThreadExit"
  BY <1>3 DEF SetGlobal, Globals, ValueOf
<1>4. CASE var = "MpmBridge"
  BY <1>4 DEF SetGlobal, Globals, ValueOf
<1>5. CASE var \notin {"ServerInitScript", "SeparateVirtualInterps", "SingleThreadExit", "MpmBridge"}
  BY <1>5 DEF SetGlobal
<1> QED BY <1>1, <1>2, <1>3, <1>4, <1>5

(* What one line does, member by member.                                     *)
LEMMA DirectiveShape ==
    ASSUME file \in Seq(Directives), NEW st \in ReadState, NEW i \in 1..Len(file),
           NEW new, new = Directive(st, i), NEW l, l = file[i]
    PROVE  /\ new \in ReadState
           /\ new.globals = IF l.kind = "server"
                            THEN SetGlobal(st.globals, l.var, l.val, Text(i)) ELSE st.globals
           /\ \A h \in Hosts : new.server[h] =
                  IF h # l.host THEN st.server[h]
                  ELSE IF l.kind # "server" THEN RecordOf(st.server, h)
                  ELSE ServerConf(RecordOf(st.server, h), l.var, l.val, Text(i))
           /\ \A h \in Hosts, d \in Dirs : new.section[h][d] =
                  IF l.kind = "server" \/ h # l.host \/ d # l.dir THEN st.section[h][d]
                  ELSE IF l.kind = "dir"
                  THEN DirConf(SectionOf(st.section, h, d), d, l.var, l.val, Text(i))
                  ELSE UserConf(SectionOf(st.section, h, d), l.var, Text(i))
<1>1. /\ l.host \in Hosts /\ l.val \in ValueOf(l.var)
      /\ l.kind # "server" => l.dir \in Dirs /\ l.var \notin Script \ SectionScript
  <2>1. l \in Directives
    OBVIOUS
  <2> QED BY <2>1, DirectiveAssumption
<1>2. Text(i) \in TextItem
  BY DEF Text, TextItem
<1>3. /\ st.globals \in Globals /\ st.server \in [Hosts -> Conf \cup {None}]
      /\ st.section \in [Hosts -> [Dirs -> Conf \cup {None}]]
      /\ st = [globals |-> st.globals, server |-> st.server, section |-> st.section]
  BY DEF ReadState
<1> DEFINE rec == RecordOf(st.server, l.host)
           sec == SectionOf(st.section, l.host, l.dir)
<1>4. rec \in Conf
  BY <1>1, <1>3, NewRecords DEF RecordOf
<1>5. CASE l.kind = "server"
  <2> DEFINE g == SetGlobal(st.globals, l.var, l.val, Text(i))
             r == ServerConf(rec, l.var, l.val, Text(i))
             servers == [st.server EXCEPT ![l.host] = r]
  <2>1. g \in Globals
    BY <1>1, <1>2, <1>3, SetGlobalFacts
  <2>2. r \in Conf
    <3> HIDE DEF rec
    <3> QED BY <1>1, <1>2, <1>4, ServerConfFacts
  <2>3. new = [globals |-> g, server |-> servers, section |-> st.section]
    <3>1. new = [st EXCEPT !.globals = SetGlobal(@, l.var, l.val, Text(i)), !.server[l.host] = r]
      BY <1>5 DEF Directive
    <3> HIDE DEF r
    <3> QED BY <3>1, <1>3
  <2>4. servers \in [Hosts -> Conf \cup {None}]
    <3> HIDE DEF r
    <3> QED BY <1>3, <2>2
  <2>5. \A h \in Hosts : servers[h] = IF h = l.host THEN r ELSE st.server[h]
    <3> HIDE DEF r
    <3> QED BY <1>3
  <2>6. new \in ReadState
    <3> HIDE DEF g, servers
    <3> QED BY <1>3, <2>1, <2>3, <2>4 DEF ReadState
  <2>7. new.globals = g /\ new.server = servers /\ new.section = st.section
    <3> HIDE DEF g, servers
    <3> QED BY <2>3
  <2> HIDE DEF servers
  <2> QED BY <2>5, <2>6, <2>7, <1>5
<1>6. CASE l.kind # "server"
  <2> DEFINE c == IF l.kind = "dir" THEN DirConf(sec, l.dir, l.var, l.val, Text(i))
                  ELSE UserConf(sec, l.var, Text(i))
             servers == [st.server EXCEPT ![l.host] = rec]
             sections == [st.section EXCEPT ![l.host][l.dir] = c]
  <2>1. l.dir \in Dirs /\ sec \in Conf
    BY <1>1, <1>3, <1>6, NewRecords DEF SectionOf
  <2>2. c \in Conf
    <3> HIDE DEF sec
    <3> QED BY <1>1, <1>2, <1>6, <2>1, DirConfFacts, UserConfFacts
  <2>3. new = [globals |-> st.globals, server |-> servers, section |-> sections]
    <3>1. new = [st EXCEPT !.server[l.host] = rec, !.section[l.host][l.dir] = c]
      BY <1>6 DEF Directive
    <3> HIDE DEF c, rec
    <3> QED BY <3>1, <1>3
  <2>4. /\ servers \in [Hosts -> Conf \cup {None}]
        /\ \A h \in Hosts : servers[h] = IF h = l.host THEN rec ELSE st.server[h]
    <3> HIDE DEF rec
    <3> QED BY <1>3, <1>4
  <2>5. /\ sections \in [Hosts -> [Dirs -> Conf \cup {None}]]
        /\ \A h \in Hosts, d \in Dirs :
               sections[h][d] = IF h = l.host /\ d = l.dir THEN c ELSE st.section[h][d]
    <3> HIDE DEF c
    <3> QED BY <1>1, <1>3, <2>1, <2>2
  <2>6. new \in ReadState
    <3> HIDE DEF sections, servers
    <3> QED BY <1>3, <2>3, <2>4, <2>5 DEF ReadState
  <2>7. new.globals = st.globals /\ new.server = servers /\ new.section = sections
    <3> HIDE DEF sections, servers
    <3> QED BY <2>3
  <2> HIDE DEF servers, sections
  <2> QED BY <2>4, <2>5, <2>6, <2>7, <1>6
<1> QED BY <1>5, <1>6

(* What the records hold after the first k lines, told from these lines.     *)
ServerInitLines(f) == {i \in DOMAIN f : f[i].kind = "server" /\ f[i].var = "ServerInitScript"}

HostSeen(f, h, k) == \E i \in 1..k : f[i].host = h
SectionSeen(f, kinds, h, d, k) ==
    \E i \in 1..k : f[i].kind \in kinds /\ f[i].host = h /\ f[i].dir = d

ServerUpTo(f, r, h, k) ==
    /\ r = None <=> h # Root /\ ~HostSeen(f, h, k)
    /\ r # None => /\ r.path = None /\ r.user = FALSE
                   /\ \A s \in Script : r.script[s] = TextUpTo(f, ServerLines(f, h, s))[k]
SectionUpTo(f, r, h, d, k) ==
    /\ r = None <=> ~SectionSeen(f, {"dir", "user"}, h, d, k)
    /\ r # None => /\ \A s \in Script : r.script[s] = TextUpTo(f, SectionLines(f, h, d, s))[k]
                   /\ r.path = IF SectionSeen(f, {"dir"}, h, d, k) THEN d ELSE None
                   /\ (r.user <=> SectionSeen(f, {"user"}, h, d, k))
ReadUpTo(f, st, k) ==
    /\ st.globals.serverInit = TextUpTo(f, ServerInitLines(f))[k]
    /\ \A h \in Hosts : ServerUpTo(f, st.server[h], h, k)
    /\ \A h \in Hosts, d \in Dirs : SectionUpTo(f, st.section[h][d], h, d, k)

(* The text of the first k lines is that of k - 1 and the k-th if it counts. *)
LEMMA TextStep ==
    ASSUME file \in Seq(Directives), NEW own, NEW k \in 1..Len(file)
    PROVE  TextUpTo(file, own)[k] = IF k \in own THEN Append(TextUpTo(file, own)[k - 1], Text(k))
                              ELSE TextUpTo(file, own)[k - 1]
BY TextUpToFacts

(* Lines none of which counts make no text.                                  *)
LEMMA NoText ==
    ASSUME file \in Seq(Directives), NEW own, NEW k \in 0..Len(file), own \cap (1..k) = {}
    PROVE  TextUpTo(file, own)[k] = <<>>
BY TextUpToContent

(* After a line more the records are what the lines read so far define.      *)
LEMMA ReadStep ==
    ASSUME file \in Seq(Directives), NEW st \in ReadState, NEW i \in 1..Len(file),
           ReadUpTo(file, st, i - 1), NEW new, new = Directive(st, i)
    PROVE  ReadUpTo(file, new, i)
<1> DEFINE l == file[i]
<1>1. /\ l.kind \in {"server", "dir", "user"} /\ l.host \in Hosts /\ l.val \in ValueOf(l.var)
      /\ l.kind # "server" => l.dir \in Dirs /\ l.var \notin Script \ SectionScript
  <2>1. l \in Directives
    OBVIOUS
  <2> QED BY <2>1, DirectiveAssumption
<1>2. Text(i) \in TextItem
  BY DEF Text, TextItem
<1>3. /\ st.globals \in Globals /\ st.server \in [Hosts -> Conf \cup {None}]
      /\ st.section \in [Hosts -> [Dirs -> Conf \cup {None}]]
  BY DEF ReadState
<1>4. /\ new.globals = IF l.kind = "server"
                       THEN SetGlobal(st.globals, l.var, l.val, Text(i)) ELSE st.globals
      /\ \A h \in Hosts : new.server[h] =
             IF h # l.host THEN st.server[h]
             ELSE IF l.kind # "server" THEN RecordOf(st.server, h)
             ELSE ServerConf(RecordOf(st.server, h), l.var, l.val, Text(i))
      /\ \A h \in Hosts, d \in Dirs : new.section[h][d] =
             IF l.kind = "server" \/ h # l.host \/ d # l.dir THEN st.section[h][d]
             ELSE IF l.kind = "dir"
             THEN DirConf(SectionOf(st.section, h, d), d, l.var, l.val, Text(i))
             ELSE UserConf(SectionOf(st.section, h, d), l.var, Text(i))
  BY DirectiveShape
<1>5. /\ \A own : TextUpTo(file, own)[i] = IF i \in own THEN Append(TextUpTo(file, own)[i - 1], Text(i))
                                      ELSE TextUpTo(file, own)[i - 1]
      /\ \A own : own \cap (1..(i - 1)) = {} => TextUpTo(file, own)[i - 1] = <<>>
  <2>1. i - 1 \in 0..Len(file)
    OBVIOUS
  <2> QED BY <2>1, TextStep, NoText
<1>6. i \in Nat /\ 1..i = (1..(i - 1)) \cup {i} /\ i \in DOMAIN file /\ 1..(i - 1) \subseteq DOMAIN file
  OBVIOUS
<1> HIDE DEF l
<1>7. new.globals.serverInit = TextUpTo(file, ServerInitLines(file))[i]
  <2>1. i \in ServerInitLines(file) <=> l.kind = "server" /\ l.var = "ServerInitScript"
    BY <1>6 DEF ServerInitLines, l
  <2>2. st.globals.serverInit = TextUpTo(file, ServerInitLines(file))[i - 1]
    BY DEF ReadUpTo
  <2>3. CASE l.kind = "server"
    <3>1. new.globals.serverInit = IF l.var = "ServerInitScript"
                                   THEN Append(st.globals.serverInit, Text(i))
                                   ELSE st.globals.serverInit
      BY <1>1, <1>2, <1>3, <1>4, <2>3, SetGlobalFacts
    <3> QED BY <3>1, <2>1, <2>2, <2>3, <1>5
  <2>4. CASE l.kind # "server"
    BY <2>1, <2>2, <2>4, <1>4, <1>5
  <2> QED BY <2>3, <2>4
<1>8. ASSUME NEW h \in Hosts PROVE ServerUpTo(file, new.server[h], h, i)
  <2>1. ServerUpTo(file, st.server[h], h, i - 1)
    BY DEF ReadUpTo
  <2>2. HostSeen(file, h, i) <=> HostSeen(file, h, i - 1) \/ l.host = h
    BY <1>6 DEF HostSeen, l
  <2>3. \A s : i \in ServerLines(file, h, s) <=> l.kind = "server" /\ l.host = h /\ l.var = s
    BY <1>6 DEF ServerLines, l
  <2>4. CASE h # l.host
    <3>1. new.server[h] = st.server[h]
      BY <1>4, <2>4
    <3> QED BY <3>1, <2>1, <2>2, <2>3, <2>4, <1>5 DEF ServerUpTo
  <2>5. CASE h = l.host
    <3> DEFINE r == RecordOf(st.server, h)
    <3>1. /\ r \in Conf /\ r # None /\ r.path = None /\ r.user = FALSE
          /\ \A s \in Script : r.script[s] = TextUpTo(file, ServerLines(file, h, s))[i - 1]
      <4>1. CASE st.server[h] = None
        <5>1. \A s : ServerLines(file, h, s) \cap (1..(i - 1)) = {}
          BY <4>1, <2>1, <1>6 DEF ServerUpTo, HostSeen, ServerLines
        <5> QED BY <4>1, <5>1, <1>5, NewRecords, NullAssumption DEF RecordOf
      <4>2. CASE st.server[h] # None
        BY <4>2, <2>1, <1>3 DEF RecordOf, ServerUpTo
      <4> QED BY <4>1, <4>2
    <3>2. CASE l.kind = "server"
      <4>1. new.server[h] = ServerConf(r, l.var, l.val, Text(i))
        BY <1>4, <2>5, <3>2
      <4> HIDE DEF r
      <4>2. /\ new.server[h] \in Conf /\ new.server[h].path = None /\ new.server[h].user = FALSE
            /\ \A s \in Script : new.server[h].script[s] =
                   IF s = l.var THEN Append(r.script[s], Text(i)) ELSE r.script[s]
        BY <3>1, <4>1, <1>1, <1>2, ServerConfFacts
      <4>3. \A s \in Script : new.server[h].script[s] = TextUpTo(file, ServerLines(file, h, s))[i]
        BY <3>1, <3>2, <4>2, <2>3, <2>5, <1>5
      <4> QED BY <4>2, <4>3, <2>2, <2>5, NullAssumption DEF ServerUpTo
    <3>3. CASE l.kind # "server"
      <4>1. new.server[h] = r
        BY <1>4, <2>5, <3>3
      <4>2. \A s \in Script : r.script[s] = TextUpTo(file, ServerLines(file, h, s))[i]
        BY <3>1, <3>3, <2>3, <1>5
      <4> HIDE DEF r
      <4> QED BY <3>1, <4>1, <4>2, <2>2, <2>5 DEF ServerUpTo
    <3> QED BY <3>2, <3>3
  <2> QED BY <2>4, <2>5
<1>9. ASSUME NEW h \in Hosts, NEW d \in Dirs PROVE SectionUpTo(file, new.section[h][d], h, d, i)
  <2>1. SectionUpTo(file, st.section[h][d], h, d, i - 1)
    BY DEF ReadUpTo
  <2> DEFINE here == l.kind # "server" /\ l.host = h /\ l.dir = d
  <2>2. \A kinds : SectionSeen(file, kinds, h, d, i) <=>
            SectionSeen(file, kinds, h, d, i - 1) \/ (l.kind \in kinds /\ l.host = h /\ l.dir = d)
    BY <1>6 DEF SectionSeen, l
  <2>3. \A s : i \in SectionLines(file, h, d, s) <=> here /\ l.var = s
    BY <1>6 DEF SectionLines, l
  <2>4. CASE ~here
    <3>1. new.section[h][d] = st.section[h][d]
      BY <1>4, <2>4
    <3>2. \A kinds \in {{"dir", "user"}, {"dir"}, {"user"}} :
              SectionSeen(file, kinds, h, d, i) <=> SectionSeen(file, kinds, h, d, i - 1)
      BY <2>2, <2>4
    <3>3. \A s : TextUpTo(file, SectionLines(file, h, d, s))[i] = TextUpTo(file, SectionLines(file, h, d, s))[i - 1]
      BY <2>3, <2>4, <1>5
    <3>4. /\ SectionSeen(file, {"dir", "user"}, h, d, i) <=> SectionSeen(file, {"dir", "user"}, h, d, i - 1)
          /\ SectionSeen(file, {"dir"}, h, d, i) <=> SectionSeen(file, {"dir"}, h, d, i - 1)
          /\ SectionSeen(file, {"user"}, h, d, i) <=> SectionSeen(file, {"user"}, h, d, i - 1)
      BY <3>2
    <3> QED BY <3>1, <3>3, <3>4, <2>1 DEF SectionUpTo
  <2>5. CASE here
    <3> DEFINE r == SectionOf(st.section, h, d)
    <3>1. /\ r \in Conf
          /\ \A s \in Script : r.script[s] = TextUpTo(file, SectionLines(file, h, d, s))[i - 1]
          /\ r.path = IF SectionSeen(file, {"dir"}, h, d, i - 1) THEN d ELSE None
          /\ r.user <=> SectionSeen(file, {"user"}, h, d, i - 1)
      <4>1. CASE st.section[h][d] = None
        <5>1. ~SectionSeen(file, {"dir", "user"}, h, d, i - 1)
          BY <4>1, <2>1 DEF SectionUpTo
        <5>2. ~SectionSeen(file, {"dir"}, h, d, i - 1) /\ ~SectionSeen(file, {"user"}, h, d, i - 1)
          BY <5>1 DEF SectionSeen
        <5>3. \A s : SectionLines(file, h, d, s) \cap (1..(i - 1)) = {}
          <6>1. \A j \in 1..(i - 1) : file[j].kind \in {"server", "dir", "user"}
            BY <1>6, DirectiveAssumption
          <6> QED BY <5>1, <6>1 DEF SectionSeen, SectionLines
        <5>4. r = CreateDirConfig
          BY <4>1 DEF SectionOf
        <5>5. \A s : TextUpTo(file, SectionLines(file, h, d, s))[i - 1] = <<>>
          BY <5>3, <1>5
        <5> HIDE DEF r
        <5> QED BY <5>2, <5>4, <5>5, NewRecords
      <4>2. CASE st.section[h][d] # None
        BY <4>2, <2>1, <1>3 DEF SectionOf, SectionUpTo
      <4> QED BY <4>1, <4>2
    <3>2. SectionSeen(file, {"dir", "user"}, h, d, i)
      BY <2>2, <2>5, <1>1
    <3>3. CASE l.kind = "dir"
      <4>1. new.section[h][d] = DirConf(r, d, l.var, l.val, Text(i))
        BY <1>4, <2>5, <3>3
      <4> HIDE DEF r
      <4>2. /\ new.section[h][d] \in Conf /\ new.section[h][d].path = d
            /\ (new.section[h][d].user <=> r.user)
            /\ \A s \in Script : new.section[h][d].script[s] =
                   IF s = l.var THEN Append(r.script[s], Text(i)) ELSE r.script[s]
        BY <3>1, <3>3, <4>1, <1>1, <1>2, DirConfFacts
      <4>3. \A s \in Script : new.section[h][d].script[s] = TextUpTo(file, SectionLines(file, h, d, s))[i]
        BY <3>1, <4>2, <2>3, <2>5, <1>5
      <4>4. SectionSeen(file, {"dir"}, h, d, i)
            /\ (SectionSeen(file, {"user"}, h, d, i) <=> SectionSeen(file, {"user"}, h, d, i - 1))
        BY <2>2, <2>5, <3>3
      <4>5. new.section[h][d] # None
        BY <4>2, NullAssumption
      <4>6. new.section[h][d].user <=> SectionSeen(file, {"user"}, h, d, i)
        BY <4>2, <4>4, <3>1
      <4> QED BY <4>2, <4>3, <4>4, <4>5, <4>6, <3>2 DEF SectionUpTo
    <3>4. CASE l.kind # "dir"
      <4>1. new.section[h][d] = UserConf(r, l.var, Text(i))
        BY <1>4, <2>5, <3>4
      <4> HIDE DEF r
      <4>2. /\ new.section[h][d] \in Conf /\ new.section[h][d].path = r.path
            /\ new.section[h][d].user
            /\ \A s \in Script : new.section[h][d].script[s] =
                   IF s = l.var THEN Append(r.script[s], Text(i)) ELSE r.script[s]
        <5>1. l.var \notin Script \ SectionScript /\ r \in Conf
          BY <2>5, <1>1, <3>1
        <5> DEFINE c == UserConf(r, l.var, Text(i))
        <5>2. /\ c \in Conf /\ c.path = r.path /\ c.user
              /\ \A s \in Script : c.script[s] = IF s = l.var THEN Append(r.script[s], Text(i))
                                               ELSE r.script[s]
          BY <5>1, <1>2, UserConfFacts
        <5> HIDE DEF c
        <5> QED BY <5>2, <4>1 DEF c
      <4>3. \A s \in Script : new.section[h][d].script[s] = TextUpTo(file, SectionLines(file, h, d, s))[i]
        BY <3>1, <4>2, <2>3, <2>5, <1>5
      <4>4. /\ SectionSeen(file, {"user"}, h, d, i)
            /\ SectionSeen(file, {"dir"}, h, d, i) <=> SectionSeen(file, {"dir"}, h, d, i - 1)
        BY <2>2, <2>5, <3>4, <1>1
      <4>5. new.section[h][d] # None
        BY <4>2, NullAssumption
      <4>6. new.section[h][d].user <=> SectionSeen(file, {"user"}, h, d, i)
        BY <4>2, <4>4 DEF SectionSeen
      <4>7. new.section[h][d].path = IF SectionSeen(file, {"dir"}, h, d, i) THEN d ELSE None
        BY <4>2, <4>4, <3>1
      <4> QED BY <4>3, <4>5, <4>6, <4>7, <3>2 DEF SectionUpTo
    <3> QED BY <3>3, <3>4
  <2> QED BY <2>4, <2>5
<1> QED BY <1>7, <1>8, <1>9 DEF ReadUpTo

NewServers == [h \in Hosts |-> IF h = Root THEN CreateConfig ELSE None]
NoSections == [h \in Hosts |-> [d \in Dirs |-> None]]

(* What reading the whole file leaves.                                       *)
LEMMA ReadAll ==
    ASSUME file \in Seq(Directives),
           NEW start, start = [globals |-> CreateModuleGlobals, server |-> NewServers,
                               section |-> NoSections],
           NEW read, read = ReadLines(start)
    PROVE  read \in ReadState /\ ReadUpTo(file, read, Len(file))
<1>1. start \in ReadState
  <2>1. CreateModuleGlobals \in Globals
    BY DEF CreateModuleGlobals, Globals
  <2>2. NewServers \in [Hosts -> Conf \cup {None}]
    BY NewRecords DEF NewServers
  <2>3. NoSections \in [Hosts -> [Dirs -> Conf \cup {None}]]
    BY DEF NoSections
  <2> QED BY <2>1, <2>2, <2>3 DEF ReadState
<1>2. \A st \in ReadState : \A i \in 1..Len(file) : Directive(st, i) \in ReadState
  BY DirectiveShape
<1>3. PICK g \in [0..Len(file) -> ReadState] :
          /\ g[0] = start
          /\ \A k \in 1..Len(file) : g[k] = Directive(g[k-1], k)
          /\ read = g[Len(file)]
  BY <1>1, <1>2, ReadSteps
<1> DEFINE n == Len(file)
           T == {k \in 0..n : ReadUpTo(file, g[k], k)}
<1>4. n \in Nat
  OBVIOUS
<1>5. 0 \in T
  <2>1. \A own : TextUpTo(file, own)[0] = <<>>
    BY TextUpToFacts
  <2>2. \A h : ~HostSeen(file, h, 0)
    BY DEF HostSeen
  <2>3. \A kinds, h, d : ~SectionSeen(file, kinds, h, d, 0)
    BY DEF SectionSeen
  <2>4. g[0].globals.serverInit = <<>> /\ g[0].server = NewServers /\ g[0].section = NoSections
    BY <1>3 DEF CreateModuleGlobals
  <2>5. ASSUME NEW h \in Hosts PROVE ServerUpTo(file, g[0].server[h], h, 0)
    <3>1. g[0].server[h] = IF h = Root THEN CreateConfig ELSE None
      BY <2>4 DEF NewServers
    <3> QED BY <3>1, <2>1, <2>2, NewRecords, NullAssumption DEF ServerUpTo
  <2>6. ASSUME NEW h \in Hosts, NEW d \in Dirs PROVE SectionUpTo(file, g[0].section[h][d], h, d, 0)
    BY <2>3, <2>4 DEF NoSections, SectionUpTo
  <2> QED BY <1>4, <2>1, <2>4, <2>5, <2>6 DEF ReadUpTo
<1>6. \A k \in 0..n : k \in T /\ k < n => k + 1 \in T
  <2> SUFFICES ASSUME NEW k \in 0..n, k \in T, k < n PROVE k + 1 \in T
    OBVIOUS
  <2>1. k + 1 \in 1..n /\ k + 1 \in 0..n /\ (k + 1) - 1 = k /\ ReadUpTo(file, g[k], k)
    BY <1>4
  <2>2. g[k + 1] = Directive(g[k], k + 1) /\ g[k] \in ReadState
    BY <1>3, <2>1
  <2>3. ReadUpTo(file, g[k + 1], k + 1)
    <3> DEFINE i == k + 1
    <3>1. i \in 1..Len(file) /\ ReadUpTo(file, g[k], i - 1) /\ g[i] = Directive(g[k], i)
      BY <2>1, <2>2
    <3> HIDE DEF i
    <3>2. ReadUpTo(file, g[i], i)
      BY <3>1, <2>2, ReadStep
    <3> QED BY <3>2 DEF i
  <2> QED BY <2>1, <2>3
<1>7. n \in T
  <2>1. n \in 0..n
    BY <1>4
  <2> HIDE DEF T, n
  <2> QED BY <2>1, <1>4, <1>5, <1>6, Induction
<1> QED BY <1>3, <1>7

-----------------------------------------------------------------------------
(* The inductive invariant: what the records hold is told from the file; the *)
(* child's records, objects and logs from the server's records and from how  *)
(* far the loops over the virtual hosts are.                                 *)
OwnText(f, h, s) == LinesText(f, ServerLines(f, h, s))

ServerMerged(f, r, h) ==
    /\ r = None <=> h # Root /\ ~HostSeen(f, h, Len(f))
    /\ r # None => /\ r.path = None /\ r.user = FALSE
                   /\ \A s \in Script : r.script[s] =
                          IF h = Root THEN OwnText(f, Root, s)
                          ELSE IF s \in MergedScript
                          THEN Selected(OwnText(f, Root, s), OwnText(f, h, s)) ELSE <<>>

ReadingInv ==
    phase = "reading" => globals = CreateModuleGlobals /\ server = NewServers /\ section = NoSections
RecordsInv ==
    phase \in {"read", "up"} =>
        /\ globals \in Globals /\ globals.serverInit = LinesText(file, ServerInitLines(file))
        /\ \A h \in Hosts : ServerMerged(file, server[h], h)
        /\ \A h \in Hosts, d \in Dirs : SectionUpTo(file, section[h][d], h, d, Len(file))
MasterInv ==
    phase = "up" => master = Eval(PerInterpInit(<<>>), globals.serverInit)

TclOf(h) == IF globals.separate THEN h ELSE Root
Made(h)  == /\ interps[h] # None /\ interps[h].tcl = TclOf(h)
            /\ interps[h].scripts = RunningScripts(crec[h])
ChildInv ==
    /\ child = "none" => crec = [h \in Hosts |-> None]
    /\ child # "none" => phase = "up" /\ crec = ChildRecords
    /\ child \in {"none", "thread", "serving", "gone"} => pos = Root
    /\ child \in {"none", "thread"} => interps = NoInterps /\ evald = NoTexts /\ req_cnt = 0 /\ last = None
    /\ child = "hosts" => \A h \in Hosts : IF h < pos THEN Made(h) ELSE interps[h] = None
    /\ child \in {"init", "serving", "exit", "gone"} => \A h \in Hosts : Made(h)

(* How far the child scripts are, and whether host g's are over in x.        *)
InitPos == IF child \in {"serving", "exit", "gone"} THEN VHosts + 1
           ELSE IF child = "init" THEN pos ELSE 0
ExitPos == IF child = "gone" THEN VHosts + 1 ELSE IF child = "exit" THEN pos ELSE 0
Over(sep, x, g, p) == IF sep THEN x < p ELSE x = Root /\ g < p

(* A line that may have been evaluated by now in the interpreter of x.       *)
Allowed(f, sep, i, x, initPos, exitPos) ==
    /\ i \in DOMAIN f /\ f[i].kind = "server"
    /\ \/ f[i].var \in {"ServerInitScript", "GlobalInitScript"}
       \/ f[i].var = "ChildInitScript" /\ Over(sep, x, f[i].host, initPos)
       \/ f[i].var = "ChildExitScript" /\ Over(sep, x, f[i].host, exitPos)

Item(log, n, t) == n \in DOMAIN log /\ \E k \in DOMAIN log[n] : log[n][k] = t
LogOnce(log) ==
    /\ log # <<>> => log[1] = RivetInit
    /\ \A t \in TextItem : \A n, m \in DOMAIN log : Item(log, n, t) /\ Item(log, m, t) => n = m
LogFrom(log, f, sep, x, initPos, exitPos) ==
    \A n \in DOMAIN log : n # 1 => \A k \in DOMAIN log[n] :
        \E i \in DOMAIN f : log[n][k] = Text(i) /\ Allowed(f, sep, i, x, initPos, exitPos)
LogInv ==
    child \notin {"none", "thread"} =>
        /\ \A h \in Hosts : LogOnce(evald[h])
        /\ \A h \in Hosts : LogFrom(evald[h], file, globals.separate, h, InitPos, ExitPos)
        /\ \A h \in Hosts : child = "hosts" => (evald[h] # <<>> <=> h = Root \/ (globals.separate /\ h < pos))
        /\ \A h \in Hosts : child # "hosts" => evald[TclOf(h)] # <<>>
        /\ \A h \in Hosts : h < InitPos =>
               \A i \in ServerLines(file, h, "ChildInitScript") :
                   \E n \in DOMAIN evald[TclOf(h)] : Item(evald[TclOf(h)], n, Text(i))

FileInv == file \in Seq(Directives)

IInv == FileInv /\ TypeOK /\ ReadingInv /\ RecordsInv /\ MasterInv /\ ChildInv /\ LogInv
-----------------------------------------------------------------------------
(* What the merge, the copy and the child's records keep of the texts.       *)
ScriptsMerged(new, base, over) ==
    \A s \in Script : new.script[s] =
        IF s \in MergedScript THEN Selected(base.script[s], over.script[s]) ELSE <<>>

(* A merge takes each script from the virtual host, or else from the root.   *)
LEMMA MergeFacts ==
    ASSUME NEW base \in Conf, NEW over \in Conf, NEW new, new = MergeConfig(base, over)
    PROVE  /\ new \in Conf /\ new.user = FALSE /\ new.path = SelectDir(base.path, over.path)
           /\ ScriptsMerged(new, base, over)
<1> DEFINE texts == [s \in Script |-> IF s \in MergedScript
                                      THEN Selected(base.script[s], over.script[s]) ELSE <<>>]
<1>1. texts \in [Script -> Seq(TextItem)]
  BY DEF Selected, Conf
<1>2. new = [script |-> texts, cache |-> SelectInt(base.cache, over.cache),
             settings |-> base.settings, upload |-> SelectDir(base.upload, over.upload),
             user |-> FALSE, path |-> SelectDir(base.path, over.path), idx |-> 0]
  <2> HIDE DEF texts
  <2>1. new = [Zeroed EXCEPT !.script = texts, !.cache = SelectInt(base.cache, over.cache),
                             !.settings = base.settings,
                             !.upload = SelectDir(base.upload, over.upload),
                             !.path = SelectDir(base.path, over.path)]
    BY DEF MergeConfig, texts
  <2> QED BY <2>1 DEF Zeroed
<1>3. \A s \in Script : texts[s] = IF s \in MergedScript
                                  THEN Selected(base.script[s], over.script[s]) ELSE <<>>
  OBVIOUS
<1> HIDE DEF texts
<1>4. new \in Conf
  <2>1. /\ SelectInt(base.cache, over.cache) \in Int /\ base.settings \in BOOLEAN
        /\ SelectDir(base.upload, over.upload) \in Names \cup {"default", None}
        /\ SelectDir(base.path, over.path) \in Dirs \cup {None}
    BY DEF Conf, SelectInt, SelectDir
  <2> QED BY <1>1, <1>2, <2>1 DEF Conf
<1>5. ScriptsMerged(new, base, over)
  BY <1>2, <1>3 DEF ScriptsMerged
<1> QED BY <1>2, <1>4, <1>5

(* A copy has the scripts of its source but for those of a child.            *)
LEMMA CopyFacts ==
    ASSUME NEW old \in Conf, NEW new, new = CopyConfig(old, Zeroed)
    PROVE  /\ new \in Conf /\ (new.user <=> old.user) /\ new.path = old.path
           /\ \A s \in Script : new.script[s] =
                  IF s \in {"ChildInitScript", "ChildExitScript"} THEN <<>> ELSE old.script[s]
<1> DEFINE texts == [s \in Script |-> IF s \in {"ChildInitScript", "ChildExitScript"}
                                      THEN Zeroed.script[s] ELSE old.script[s]]
<1>0. \A s \in Script : Zeroed.script[s] = <<>>
  BY DEF Zeroed
<1>1. texts \in [Script -> Seq(TextItem)]
  <2>1. \A s \in Script : old.script[s] \in Seq(TextItem) /\ Zeroed.script[s] \in Seq(TextItem)
    BY NewRecords DEF Conf
  <2> QED BY <2>1
<1>2. new = [old EXCEPT !.script = texts]
  BY DEF CopyConfig
<1>3. \A s \in Script : texts[s] = IF s \in {"ChildInitScript", "ChildExitScript"}
                                  THEN <<>> ELSE old.script[s]
  BY <1>0
<1> HIDE DEF texts
<1> QED BY <1>1, <1>2, <1>3 DEF Conf

(* The text of a server's script in the record its child has.                *)
HostScript(f, h, s) ==
    IF h = Root THEN OwnText(f, Root, s)
    ELSE IF HostSeen(f, h, Len(f))
    THEN IF s \in MergedScript THEN Selected(OwnText(f, Root, s), OwnText(f, h, s)) ELSE <<>>
    ELSE IF s \in {"ChildInitScript", "ChildExitScript"} THEN <<>> ELSE OwnText(f, Root, s)

(* The records of a child: an index each, and the texts of HostScript.       *)
LEMMA ChildRecordsFacts ==
    ASSUME TypeOK, RecordsInv, phase = "up"
    PROVE  /\ ChildRecords \in [Hosts -> Conf]
           /\ \A h \in Hosts :
                  /\ ChildRecords[h].idx = h /\ ChildRecords[h].path = None
                  /\ ChildRecords[h].user = FALSE
                  /\ \A s \in Script : ChildRecords[h].script[s] = HostScript(file, h, s)
<1> DEFINE r(h) == IF server[h] = None THEN CopyConfig(server[Root], Zeroed) ELSE server[h]
<1>0. Root \in Hosts /\ \A h \in Hosts : h \in Nat
  BY LifecycleAssumption DEF Root, Hosts
<1>1. /\ server \in [Hosts -> Conf \cup {None}]
      /\ \A h \in Hosts : ServerMerged(file, server[h], h)
  BY DEF TypeOK, RecordsInv
<1>2. server[Root] \in Conf /\ server[Root].path = None /\ server[Root].user = FALSE
      /\ \A s \in Script : server[Root].script[s] = OwnText(file, Root, s)
  BY <1>0, <1>1 DEF ServerMerged
<1>3. ASSUME NEW h \in Hosts
      PROVE  /\ r(h) \in Conf /\ r(h).path = None /\ r(h).user = FALSE
             /\ \A s \in Script : r(h).script[s] = HostScript(file, h, s)
  <2>1. CASE server[h] = None
    <3> DEFINE c == CopyConfig(server[Root], Zeroed)
    <3>1. /\ c \in Conf /\ (c.user <=> server[Root].user) /\ c.path = server[Root].path
          /\ \A s \in Script : c.script[s] =
                 IF s \in {"ChildInitScript", "ChildExitScript"} THEN <<>> ELSE server[Root].script[s]
      BY <1>2, CopyFacts
    <3>2. h # Root /\ ~HostSeen(file, h, Len(file))
      BY <1>1, <2>1 DEF ServerMerged
    <3>3. c.user = FALSE
      <4>1. c.user \in BOOLEAN
        <5> HIDE DEF c
        <5> QED BY <3>1 DEF Conf
      <4> QED BY <3>1, <1>2, <4>1
    <3> HIDE DEF c
    <3> QED BY <2>1, <3>1, <3>2, <3>3, <1>2 DEF HostScript, c
  <2>2. CASE server[h] # None
    BY <2>2, <1>1 DEF ServerMerged, HostScript
  <2> QED BY <2>1, <2>2
<1>4. ASSUME NEW h \in Hosts
      PROVE  /\ ChildRecords[h] \in Conf /\ ChildRecords[h].idx = h
             /\ ChildRecords[h].path = r(h).path /\ (ChildRecords[h].user <=> r(h).user)
             /\ ChildRecords[h].script = r(h).script
  <2>1. ChildRecords[h] = [r(h) EXCEPT !.idx = h]
    BY DEF ChildRecords
  <2>2. r(h) \in Conf /\ h \in Nat
    BY <1>0, <1>3
  <2> HIDE DEF r
  <2> QED BY <2>1, <2>2 DEF Conf
<1>5. ASSUME NEW h \in Hosts PROVE ChildRecords[h].user = FALSE
  <2>1. ChildRecords[h].user \in BOOLEAN
    BY <1>4 DEF Conf
  <2> QED BY <2>1, <1>3, <1>4
<1>6. ChildRecords \in [Hosts -> Conf]
  <2>1. ChildRecords = [h \in Hosts |-> ChildRecords[h]]
    BY DEF ChildRecords
  <2> QED BY <2>1, <1>4
<1>7. ASSUME NEW h \in Hosts
      PROVE  /\ ChildRecords[h].path = None
             /\ \A s \in Script : ChildRecords[h].script[s] = HostScript(file, h, s)
  <2>1. ChildRecords[h].path = r(h).path /\ ChildRecords[h].script = r(h).script
    BY <1>4
  <2>2. r(h).path = None /\ \A s \in Script : r(h).script[s] = HostScript(file, h, s)
    BY <1>3
  <2> HIDE DEF r
  <2> QED BY <2>1, <2>2
<1> QED BY <1>4, <1>5, <1>6, <1>7

(* The texts of a server's script come from lines of its own or the root's.  *)
LEMMA LinesTextFacts ==
    ASSUME file \in Seq(Directives), NEW own \in SUBSET DOMAIN file, NEW t, t = LinesText(file, own)
    PROVE  /\ t \in Seq(TextItem)
           /\ \A k \in 1..Len(t) : \E i \in own : t[k] = Text(i)
           /\ \A i \in own : \E k \in 1..Len(t) : t[k] = Text(i)
           /\ t = <<>> <=> own = {}
<1> DEFINE n == Len(file)
           u == TextUpTo(file, own)
<1>1. n \in 0..n /\ own \cap (1..n) = own
  OBVIOUS
<1>2. u \in [0..n -> Seq(TextItem)]
  BY TextUpToFacts
<1>3. /\ \A j \in 1..Len(u[n]) : \E i \in own \cap (1..n) : u[n][j] = Text(i)
      /\ \A i \in own \cap (1..n) : \E j \in 1..Len(u[n]) : u[n][j] = Text(i)
      /\ u[n] = <<>> <=> own \cap (1..n) = {}
  BY <1>1, TextUpToContent
<1>4. t = u[n]
  BY DEF LinesText
<1> HIDE DEF u, n
<1> QED BY <1>1, <1>2, <1>3, <1>4

(* A host's text consists of lines of its own and of the root's.             *)
LEMMA HostScriptFacts ==
    ASSUME file \in Seq(Directives), NEW h \in Hosts, NEW s \in Script,
           NEW t, t = HostScript(file, h, s)
    PROVE  /\ t \in Seq(TextItem)
           /\ \A k \in 1..Len(t) : \E i \in DOMAIN file :
                  /\ t[k] = Text(i) /\ file[i].kind = "server" /\ file[i].var = s
                  /\ file[i].host \in {Root, h}
<1> DEFINE a == OwnText(file, Root, s)
           b == OwnText(file, h, s)
<1>1. /\ a \in Seq(TextItem)
      /\ \A k \in 1..Len(a) : \E i \in DOMAIN file :
             a[k] = Text(i) /\ file[i].kind = "server" /\ file[i].var = s /\ file[i].host = Root
  <2>1. ServerLines(file, Root, s) \in SUBSET DOMAIN file
    BY DEF ServerLines
  <2>2. a \in Seq(TextItem) /\ \A k \in 1..Len(a) : \E i \in ServerLines(file, Root, s) : a[k] = Text(i)
    BY <2>1, LinesTextFacts DEF OwnText
  <2> HIDE DEF a
  <2> QED BY <2>2 DEF ServerLines
<1>2. /\ b \in Seq(TextItem)
      /\ \A k \in 1..Len(b) : \E i \in DOMAIN file :
             b[k] = Text(i) /\ file[i].kind = "server" /\ file[i].var = s /\ file[i].host = h
  <2>1. ServerLines(file, h, s) \in SUBSET DOMAIN file
    BY DEF ServerLines
  <2>2. b \in Seq(TextItem) /\ \A k \in 1..Len(b) : \E i \in ServerLines(file, h, s) : b[k] = Text(i)
    BY <2>1, LinesTextFacts DEF OwnText
  <2> HIDE DEF b
  <2> QED BY <2>2 DEF ServerLines
<1>3. t = a \/ t = b \/ t = <<>>
  BY DEF HostScript, Selected
<1> HIDE DEF a, b
<1>4. CASE t = a
  BY <1>4, <1>1
<1>5. CASE t = b
  BY <1>5, <1>2
<1>6. CASE t = <<>>
  BY <1>6
<1> QED BY <1>3, <1>4, <1>5, <1>6

(* What Rivet_RunChildScripts evaluates for host h: lines of its script of   *)
(* that name, all of them, and the root's only when interpreters are apart.  *)
ChildText(t, f, sep, h, name) ==
    /\ t \in Seq(TextItem)
    /\ \A k \in 1..Len(t) : \E i \in DOMAIN f :
           /\ t[k] = Text(i) /\ f[i].kind = "server" /\ f[i].var = name
           /\ f[i].host = h \/ (sep /\ f[i].host = Root)
    /\ \A i \in ServerLines(f, h, name) : \E k \in 1..Len(t) : t[k] = Text(i)

(* What a child script evaluates: lines of the host, or of the root where an *)
(* interpreter of its own inherits them, and all of the host's.              *)
LEMMA ChildScriptFacts ==
    ASSUME file \in Seq(Directives), TypeOK, RecordsInv, phase = "up", crec = ChildRecords,
           NEW h \in Hosts, NEW name \in {"ChildInitScript", "ChildExitScript"},
           NEW t, t = ChildScript(h, name)
    PROVE  ChildText(t, file, globals.separate, h, name)
<1> DEFINE own == OwnText(file, h, name)
           root == OwnText(file, Root, name)
<1>0. name \in Script /\ name \in MergedScript /\ Root \in Hosts
  BY LifecycleAssumption DEF Script, MergedScript, Root, Hosts
<1>1. crec[h].script[name] = HostScript(file, h, name) /\ crec[Root].script[name] = root
  BY <1>0, ChildRecordsFacts DEF HostScript
<1>2. t = IF h = Root \/ globals.separate \/ HostScript(file, h, name) # root
          THEN HostScript(file, h, name) ELSE <<>>
  BY <1>1 DEF ChildScript
<1>3. /\ own \in Seq(TextItem)
      /\ \A k \in 1..Len(own) : \E i \in ServerLines(file, h, name) : own[k] = Text(i)
      /\ \A i \in ServerLines(file, h, name) : \E k \in 1..Len(own) : own[k] = Text(i)
      /\ own = <<>> <=> ServerLines(file, h, name) = {}
  <2>1. ServerLines(file, h, name) \in SUBSET DOMAIN file
    BY DEF ServerLines
  <2> QED BY <2>1, LinesTextFacts DEF OwnText
<1>4. /\ HostScript(file, h, name) \in Seq(TextItem)
      /\ \A k \in 1..Len(HostScript(file, h, name)) : \E i \in DOMAIN file :
             /\ HostScript(file, h, name)[k] = Text(i) /\ file[i].kind = "server"
             /\ file[i].var = name /\ file[i].host \in {Root, h}
  BY <1>0, HostScriptFacts
<1>5. ~HostSeen(file, h, Len(file)) => ServerLines(file, h, name) = {}
  BY DEF HostSeen, ServerLines
<1>6. HostScript(file, h, name) =
          IF h = Root THEN own
          ELSE IF HostSeen(file, h, Len(file)) THEN (IF own # <<>> THEN own ELSE root) ELSE <<>>
  BY <1>0 DEF HostScript, Selected
<1>7. root = <<>> \/ h = Root \/ own # root
  <2>1. ServerLines(file, Root, name) \in SUBSET DOMAIN file
    BY DEF ServerLines
  <2>2. root \in Seq(TextItem) /\ \A k \in 1..Len(root) : \E i \in ServerLines(file, Root, name) : root[k] = Text(i)
    BY <2>1, LinesTextFacts DEF OwnText
  <2> HIDE DEF own, root
  <2> SUFFICES ASSUME root # <<>>, h # Root, own = root PROVE FALSE
    OBVIOUS
  <2>3. 1 \in 1..Len(root)
    BY <2>2
  <2>4. PICK i \in ServerLines(file, Root, name) : root[1] = Text(i)
    BY <2>2, <2>3
  <2>5. PICK j \in ServerLines(file, h, name) : own[1] = Text(j)
    BY <1>3, <2>3
  <2>6. i = j
    BY <2>4, <2>5 DEF Text
  <2> QED BY <2>6 DEF ServerLines
<1> HIDE DEF own, root
<1>8. \A i \in ServerLines(file, h, name) : \E k \in 1..Len(t) : t[k] = Text(i)
  <2>1. CASE ServerLines(file, h, name) = {}
    BY <2>1
  <2>2. CASE ServerLines(file, h, name) # {}
    <3>1. own # <<>> /\ HostScript(file, h, name) = own
      BY <2>2, <1>3, <1>5, <1>6
    <3>2. t = own
      BY <3>1, <1>2, <1>7
    <3> QED BY <3>2, <1>3
  <2> QED BY <2>1, <2>2
<1>9. /\ t \in Seq(TextItem)
      /\ \A k \in 1..Len(t) : \E i \in DOMAIN file :
             /\ t[k] = Text(i) /\ file[i].kind = "server" /\ file[i].var = name
             /\ file[i].host = h \/ (globals.separate /\ file[i].host = Root)
  <2>1. CASE globals.separate
    BY <2>1, <1>2, <1>4
  <2>2. CASE t = <<>>
    BY <2>2
  <2>3. CASE t = own
    BY <2>3, <1>3 DEF ServerLines
  <2> QED BY <2>1, <2>2, <2>3, <1>2, <1>6
<1> QED BY <1>8, <1>9 DEF ChildText

(* An interpreter that evaluates a text none of whose parts it has seen.     *)
LEMMA EvalFacts ==
    ASSUME NEW log \in Seq(Seq(TextItem)), NEW t \in Seq(TextItem), NEW new, new = Eval(log, t)
    PROVE  /\ new \in Seq(Seq(TextItem))
           /\ \A n \in DOMAIN log : n \in DOMAIN new /\ new[n] = log[n]
           /\ t # <<>> => Len(log) + 1 \in DOMAIN new /\ new[Len(log) + 1] = t
           /\ \A n \in DOMAIN new :
                  n \in DOMAIN log \/ (t # <<>> /\ n = Len(log) + 1 /\ n \notin DOMAIN log)
BY DEF Eval

(* A text with nothing of the log in it leaves each line evaluated once.     *)
LEMMA EvalOnce ==
    ASSUME NEW log \in Seq(Seq(TextItem)), NEW t \in Seq(TextItem), LogOnce(log), log # <<>>,
           \A n \in DOMAIN log, k \in 1..Len(t) : ~Item(log, n, t[k]),
           NEW new, new = Eval(log, t)
    PROVE  LogOnce(new) /\ new # <<>>
<1>1. /\ new \in Seq(Seq(TextItem))
      /\ \A n \in DOMAIN log : n \in DOMAIN new /\ new[n] = log[n]
      /\ t # <<>> => Len(log) + 1 \in DOMAIN new /\ new[Len(log) + 1] = t
      /\ \A n \in DOMAIN new :
             n \in DOMAIN log \/ (t # <<>> /\ n = Len(log) + 1 /\ n \notin DOMAIN log)
  BY DEF Eval
<1>2. 1 \in DOMAIN log
  OBVIOUS
<1>3. new # <<>> /\ new[1] = RivetInit
  <2>1. 1 \in DOMAIN new /\ new[1] = log[1]
    BY <1>1, <1>2
  <2> QED BY <2>1 DEF LogOnce
<1>4. \A x, n : n \in DOMAIN log => (Item(new, n, x) <=> Item(log, n, x))
  BY <1>1 DEF Item
<1>5. \A x : Item(new, Len(log) + 1, x) => t # <<>> /\ \E k \in 1..Len(t) : t[k] = x
  BY <1>1 DEF Item
<1>6. ASSUME NEW x \in TextItem, NEW n \in DOMAIN new, NEW m \in DOMAIN new,
             Item(new, n, x), Item(new, m, x)
      PROVE  n = m
  <2>1. CASE n \in DOMAIN log /\ m \in DOMAIN log
    BY <2>1, <1>4, <1>6 DEF LogOnce
  <2>2. CASE n \in DOMAIN log /\ m \notin DOMAIN log
    <3>1. Item(log, n, x) /\ Item(new, Len(log) + 1, x)
      BY <2>2, <1>1, <1>4, <1>6
    <3> QED BY <3>1, <1>5, <2>2
  <2>3. CASE n \notin DOMAIN log /\ m \in DOMAIN log
    <3>1. Item(log, m, x) /\ Item(new, Len(log) + 1, x)
      BY <2>3, <1>1, <1>4, <1>6
    <3> QED BY <3>1, <1>5, <2>3
  <2>4. CASE n \notin DOMAIN log /\ m \notin DOMAIN log
    BY <2>4, <1>1
  <2> QED BY <2>1, <2>2, <2>3, <2>4
<1> QED BY <1>3, <1>6 DEF LogOnce
-----------------------------------------------------------------------------
(* The invariant holds at the start.                                         *)
LEMMA Initially == Init => IInv
<1> SUFFICES ASSUME Init PROVE IInv
  OBVIOUS
<1>0. /\ Root \in Hosts /\ 0 \in 0..MaxEdits /\ 0 \in 0..MaxChildren /\ 0 \in 0..MaxRestarts
      /\ 0 \in 0..MaxRequests
  BY LifecycleAssumption DEF Root, Hosts
<1>1. FileInv
  BY LifecycleAssumption DEF Init, FileInv
<1>2. TypeOK
  <2>1. NoInterps \in [Hosts -> InterpObject \cup {None}] /\ NoTexts \in [Hosts -> Seq(Seq(TextItem))]
    BY DEF NoInterps, NoTexts
  <2>2. /\ edits \in [UserDirs -> 0..MaxEdits]
        /\ server \in [Hosts -> Conf \cup {None}]
        /\ section \in [Hosts -> [Dirs -> Conf \cup {None}]]
        /\ crec \in [Hosts -> Conf \cup {None}]
        /\ interps \in [Hosts -> InterpObject \cup {None}]
        /\ evald \in [Hosts -> Seq(Seq(TextItem))]
    BY <1>0, <2>1 DEF Init
  <2>3. \A h \in Hosts : server[h] = None /\ \A d \in Dirs : section[h][d] = None
    BY DEF Init
  <2>4. userdata \in BOOLEAN /\ globals \in Globals \cup {None} /\ master \in Seq(Seq(TextItem))
    <3>1. userdata \in BOOLEAN
      BY DEF Init
    <3>2. globals = None
      BY DEF Init
    <3>3. master \in Seq(Seq(TextItem))
      BY DEF Init
    <3> QED BY <3>1, <3>2, <3>3
  <2>5. /\ phase \in {"start", "reading", "read", "up", "down"}
        /\ child \in {"none", "thread", "hosts", "init", "serving", "exit", "gone"}
        /\ pos \in Hosts /\ children \in 0..MaxChildren /\ restarts \in 0..MaxRestarts
        /\ req_cnt \in 0..MaxRequests /\ child = "none"
    BY <1>0 DEF Init
  <2> QED BY <2>2, <2>3, <2>4, <2>5 DEF TypeOK
<1>3. ReadingInv /\ RecordsInv /\ MasterInv
  BY DEF Init, ReadingInv, RecordsInv, MasterInv
<1>4. ChildInv /\ LogInv
  BY DEF Init, ChildInv, LogInv
<1> QED BY <1>1, <1>2, <1>3, <1>4 DEF IInv

(* The parent's actions: there is no child, but when the server is up.       *)
LEMMA InitGlobalsStep == IInv /\ InitGlobals => IInv'
<1> SUFFICES ASSUME IInv, InitGlobals PROVE IInv'
  OBVIOUS
<1> USE DEF InitGlobals, childVars, memory
<1>0. child = "none"
  BY DEF IInv, ChildInv
<1>1. FileInv'
  BY DEF IInv, FileInv
<1>2. TypeOK'
  <2>1. CreateModuleGlobals \in Globals
    BY DEF CreateModuleGlobals, Globals
  <2>2. server' \in [Hosts -> Conf \cup {None}] /\ \A h \in Hosts : server'[h] = None \/ server'[h].path = None
    BY NewRecords
  <2>3. section' \in [Hosts -> [Dirs -> Conf \cup {None}]] /\ \A h \in Hosts, d \in Dirs : section'[h][d] = None
    OBVIOUS
  <2> QED BY <1>0, <2>1, <2>2, <2>3 DEF IInv, TypeOK
<1>3. ReadingInv' /\ RecordsInv' /\ MasterInv'
  BY DEF ReadingInv, RecordsInv, MasterInv, NewServers, NoSections
<1>4. ChildInv'
  BY <1>0 DEF IInv, ChildInv
<1>5. LogInv'
  BY <1>0 DEF LogInv
<1> QED BY <1>1, <1>2, <1>3, <1>4, <1>5 DEF IInv

LEMMA ReadConfigStep == IInv /\ ReadConfig => IInv'
<1> SUFFICES ASSUME IInv, ReadConfig PROVE IInv'
  OBVIOUS
<1>0. /\ phase = "reading" /\ phase' = "read" /\ file \in Seq(Directives)
      /\ UNCHANGED <<file, userdata, restarts, master, edits, childVars>>
      /\ Root \in Hosts
  BY LifecycleAssumption DEF ReadConfig, IInv, FileInv, Root, Hosts
<1>1. child = "none" /\ child' = "none"
  BY <1>0 DEF IInv, ChildInv, childVars
<1> DEFINE start == [globals |-> CreateModuleGlobals, server |-> NewServers, section |-> NoSections]
           read == ReadLines(start)
<1>2. read \in ReadState /\ ReadUpTo(file, read, Len(file))
  BY <1>0, ReadAll
<1>3. /\ globals' = read.globals /\ section' = read.section
      /\ server' = [h \in Hosts |-> IF h = Root \/ read.server[h] = None THEN read.server[h]
                                    ELSE MergeConfig(read.server[Root], read.server[h])]
  <2>1. start = [globals |-> globals, server |-> server, section |-> section]
    BY <1>0 DEF IInv, ReadingInv
  <2> QED BY <2>1 DEF ReadConfig
<1> HIDE DEF start, read
<1>4. /\ read.globals \in Globals /\ read.server \in [Hosts -> Conf \cup {None}]
      /\ read.section \in [Hosts -> [Dirs -> Conf \cup {None}]]
  BY <1>2 DEF ReadState
<1>5. /\ read.globals.serverInit = LinesText(file, ServerInitLines(file))
      /\ \A h \in Hosts : ServerUpTo(file, read.server[h], h, Len(file))
      /\ \A h \in Hosts, d \in Dirs : SectionUpTo(file, read.section[h][d], h, d, Len(file))
  BY <1>2 DEF ReadUpTo, LinesText
<1>6. ASSUME NEW h \in Hosts
      PROVE  server'[h] \in Conf \cup {None} /\ ServerMerged(file, server'[h], h)
  <2>1. ServerUpTo(file, read.server[h], h, Len(file))
    BY <1>5
  <2>2. CASE h = Root \/ read.server[h] = None
    <3>1. server'[h] = read.server[h]
      BY <1>3, <2>2
    <3> QED BY <2>1, <2>2, <3>1, <1>4 DEF ServerMerged, ServerUpTo, OwnText, LinesText
  <2>3. CASE ~(h = Root \/ read.server[h] = None)
    <3> DEFINE a == read.server[Root]
               b == read.server[h]
               c == MergeConfig(a, b)
    <3>0. ServerUpTo(file, a, Root, Len(file))
      BY <1>0, <1>5
    <3>1. /\ a \in Conf /\ a.path = None
          /\ \A s \in Script : a.script[s] = OwnText(file, Root, s)
      BY <3>0, <1>0, <1>4 DEF ServerUpTo, OwnText, LinesText
    <3>2. /\ b \in Conf /\ b.path = None
          /\ \A s \in Script : b.script[s] = OwnText(file, h, s)
      BY <2>1, <2>3, <1>4 DEF ServerUpTo, OwnText, LinesText
    <3> HIDE DEF a, b, c
    <3>3. /\ c \in Conf /\ c.user = FALSE /\ c.path = SelectDir(a.path, b.path)
          /\ ScriptsMerged(c, a, b)
      <4>1. c = MergeConfig(a, b)
        BY DEF c
      <4> QED BY <4>1, <3>1, <3>2, MergeFacts
    <3>4. c.path = None
      BY <3>1, <3>2, <3>3 DEF SelectDir
    <3>5. server'[h] = c
      BY <1>3, <2>3 DEF a, b, c
    <3>6. \A s \in Script : c.script[s] =
              IF s \in MergedScript THEN Selected(OwnText(file, Root, s), OwnText(file, h, s)) ELSE <<>>
      BY <3>1, <3>2, <3>3 DEF ScriptsMerged
    <3>7. h # Root /\ HostSeen(file, h, Len(file))
      BY <2>1, <2>3 DEF ServerUpTo
    <3> QED BY <3>3, <3>4, <3>5, <3>6, <3>7, NullAssumption DEF ServerMerged
  <2> QED BY <2>2, <2>3
<1>7. FileInv' /\ ReadingInv' /\ MasterInv'
  BY <1>0 DEF FileInv, ReadingInv, MasterInv
<1>8. RecordsInv'
  BY <1>0, <1>3, <1>4, <1>5, <1>6 DEF RecordsInv
<1>9. TypeOK'
  <2>1. server' \in [Hosts -> Conf \cup {None}]
    <3>1. server' = [h \in Hosts |-> server'[h]]
      BY <1>3
    <3> QED BY <3>1, <1>6
  <2>2. \A h \in Hosts : server'[h] = None \/ server'[h].path = None
    BY <1>6 DEF ServerMerged
  <2>3. \A h \in Hosts, d \in Dirs : section'[h][d] = None \/ section'[h][d].path \in {None, d}
    BY <1>3, <1>5 DEF SectionUpTo
  <2> QED BY <1>0, <1>1, <1>3, <1>4, <2>1, <2>2, <2>3 DEF IInv, TypeOK, childVars, memory
<1>10. ChildInv'
  BY <1>0, <1>1 DEF IInv, ChildInv, childVars, memory
<1>11. LogInv'
  BY <1>1 DEF LogInv
<1> QED BY <1>7, <1>8, <1>9, <1>10, <1>11 DEF IInv

LEMMA ServerInitFirstStep == IInv /\ ServerInitFirst => IInv'
<1> SUFFICES ASSUME IInv, ServerInitFirst PROVE IInv'
  OBVIOUS
<1> USE DEF ServerInitFirst, childVars, memory
<1>0. child = "none"
  BY DEF IInv, ChildInv
<1>1. FileInv' /\ ReadingInv' /\ RecordsInv' /\ MasterInv'
  BY DEF IInv, FileInv, ReadingInv, RecordsInv, MasterInv
<1>2. TypeOK'
  BY DEF IInv, TypeOK
<1>3. ChildInv'
  BY <1>0 DEF IInv, ChildInv
<1>4. LogInv'
  BY <1>0 DEF LogInv
<1> QED BY <1>1, <1>2, <1>3, <1>4 DEF IInv

(* The root interpreter's log when ServerInitScript was evaluated.           *)
LEMMA MasterFacts ==
    ASSUME NEW t \in Seq(TextItem)
    PROVE  /\ PerInterpInit(<<>>) = <<RivetInit>> /\ <<RivetInit>> \in Seq(Seq(TextItem))
           /\ Eval(PerInterpInit(<<>>), t) \in Seq(Seq(TextItem))
<1>1. PerInterpInit(<<>>) = <<RivetInit>>
  BY DEF PerInterpInit, Eval, RivetInit
<1>2. RivetInit \in Seq(TextItem)
  BY DEF RivetInit, TextItem
<1>3. <<RivetInit>> \in Seq(Seq(TextItem))
  BY <1>2
<1> QED BY <1>1, <1>3, EvalFacts

LEMMA ServerInitStep == IInv /\ ServerInit => IInv'
<1> SUFFICES ASSUME IInv, ServerInit PROVE IInv'
  OBVIOUS
<1>0. /\ phase = "read" /\ UNCHANGED <<file, userdata, restarts, server, section, edits, childVars>>
      /\ phase' \in {"up", "down"} /\ globals \in Globals
      /\ phase' = "down" => UNCHANGED <<globals, master>>
      /\ phase' = "up" => SeekMPMBridge \in Bridges /\ RunServerInit([globals EXCEPT !.bridge = SeekMPMBridge])
  BY DEF IInv, RecordsInv, ServerInit
<1>1. child = "none" /\ child' = "none"
  BY <1>0 DEF IInv, ChildInv, childVars
<1> DEFINE g == [globals EXCEPT !.bridge = SeekMPMBridge]
<1>2. g \in Globals /\ g.serverInit = globals.serverInit
  BY <1>0, LifecycleAssumption DEF Globals, SeekMPMBridge
<1> HIDE DEF g
<1>3. CASE phase' = "up"
  <2>1. master' = Eval(PerInterpInit(<<>>), g.serverInit) /\ globals' = BridgeServerInit(g)
    BY <1>0, <1>3 DEF RunServerInit, g
  <2>2. globals' \in Globals /\ globals'.serverInit = g.serverInit
    BY <1>2, <2>1 DEF BridgeServerInit, Globals
  <2>3. g.serverInit \in Seq(TextItem)
    BY <1>2 DEF Globals
  <2>4. master' \in Seq(Seq(TextItem))
    BY <2>1, <2>3, MasterFacts
  <2>5. FileInv' /\ ReadingInv' /\ RecordsInv' /\ MasterInv'
    BY <1>0, <1>2, <1>3, <2>1, <2>2 DEF IInv, FileInv, ReadingInv, RecordsInv, MasterInv
  <2>6. TypeOK'
    BY <1>0, <1>1, <1>3, <2>2, <2>4 DEF IInv, TypeOK, childVars, memory
  <2> QED BY <1>0, <1>1, <2>5, <2>6 DEF IInv, ChildInv, LogInv, childVars, memory
<1>4. CASE phase' = "down"
  <2>1. FileInv' /\ ReadingInv' /\ RecordsInv' /\ MasterInv'
    BY <1>0, <1>4 DEF IInv, FileInv, ReadingInv, RecordsInv, MasterInv
  <2>2. TypeOK'
    BY <1>0, <1>1, <1>4 DEF IInv, TypeOK, childVars, memory
  <2> QED BY <1>0, <1>1, <2>1, <2>2 DEF IInv, ChildInv, LogInv, childVars, memory
<1> QED BY <1>0, <1>3, <1>4

LEMMA RestartStep == IInv /\ Restart => IInv'
<1> SUFFICES ASSUME IInv, Restart PROVE IInv'
  OBVIOUS
<1> USE DEF Restart, memory
<1>1. FileInv' /\ ReadingInv' /\ RecordsInv' /\ MasterInv'
  BY DEF IInv, FileInv, ReadingInv, RecordsInv, MasterInv
<1>2. TypeOK'
  <2>1. restarts + 1 \in 0..MaxRestarts /\ 0 \in 0..MaxChildren
    BY LifecycleAssumption DEF IInv, TypeOK
  <2> QED BY <2>1 DEF IInv, TypeOK
<1>3. ChildInv'
  BY DEF IInv, ChildInv
<1>4. LogInv'
  BY DEF LogInv
<1> QED BY <1>1, <1>2, <1>3, <1>4 DEF IInv
-----------------------------------------------------------------------------
(* Nothing an interpreter has not been allowed to evaluate is in its log.    *)
LEMMA FreshText ==
    ASSUME NEW log \in Seq(Seq(TextItem)), NEW t \in Seq(TextItem), LogOnce(log),
           NEW sep, NEW x, NEW p, NEW q, LogFrom(log, file, sep, x, p, q),
           \A k \in 1..Len(t) : \E i \in DOMAIN file :
               t[k] = Text(i) /\ ~Allowed(file, sep, i, x, p, q)
    PROVE  \A n \in DOMAIN log, k \in 1..Len(t) : ~Item(log, n, t[k])
<1> SUFFICES ASSUME NEW n \in DOMAIN log, NEW k \in 1..Len(t), Item(log, n, t[k]) PROVE FALSE
  OBVIOUS
<1>1. PICK i \in DOMAIN file : t[k] = Text(i) /\ ~Allowed(file, sep, i, x, p, q)
  OBVIOUS
<1>2. PICK m \in DOMAIN log[n] : log[n][m] = Text(i)
  BY <1>1 DEF Item
<1>3. CASE n = 1
  <2>1. log[1] = RivetInit
    BY DEF LogOnce
  <2>2. RivetInit[m] = Text(i) /\ m = 1
    BY <1>2, <1>3, <2>1 DEF RivetInit
  <2> QED BY <2>2 DEF RivetInit, Text
<1>4. CASE n # 1
  <2>1. PICK j \in DOMAIN file : log[n][m] = Text(j) /\ Allowed(file, sep, j, x, p, q)
    BY <1>2, <1>4 DEF LogFrom
  <2>2. i = j
    BY <1>2, <2>1 DEF Text
  <2> QED BY <1>1, <2>1, <2>2
<1> QED BY <1>3, <1>4

(* What an interpreter may evaluate only grows.                              *)
LEMMA AllowedMore ==
    ASSUME NEW sep, NEW x \in Hosts, NEW p \in Nat, NEW q \in Nat, NEW p2 \in Nat, NEW q2 \in Nat,
           p <= p2, q <= q2, file \in Seq(Directives)
    PROVE  \A i : Allowed(file, sep, i, x, p, q) => Allowed(file, sep, i, x, p2, q2)
<1> SUFFICES ASSUME NEW i, Allowed(file, sep, i, x, p, q) PROVE Allowed(file, sep, i, x, p2, q2)
  OBVIOUS
<1>1. file[i].host \in Nat /\ x \in Nat
  <2>1. file[i] \in Directives
    BY DEF Allowed
  <2> QED BY <2>1, DirectiveAssumption, LifecycleAssumption DEF Hosts
<1> QED BY <1>1 DEF Allowed, Over

LEMMA LogFromMore ==
    ASSUME NEW log, NEW sep, NEW x \in Hosts, NEW p \in Nat, NEW q \in Nat, NEW p2 \in Nat,
           NEW q2 \in Nat, p <= p2, q <= q2, file \in Seq(Directives),
           LogFrom(log, file, sep, x, p, q)
    PROVE  LogFrom(log, file, sep, x, p2, q2)
BY AllowedMore DEF LogFrom

LEMMA LogFromEval ==
    ASSUME NEW log \in Seq(Seq(TextItem)), NEW t \in Seq(TextItem), log # <<>>,
           NEW sep, NEW x, NEW p, NEW q, LogFrom(log, file, sep, x, p, q),
           \A k \in 1..Len(t) : \E i \in DOMAIN file :
               t[k] = Text(i) /\ Allowed(file, sep, i, x, p, q),
           NEW new, new = Eval(log, t)
    PROVE  LogFrom(new, file, sep, x, p, q)
<1>1. /\ \A n \in DOMAIN log : n \in DOMAIN new /\ new[n] = log[n]
      /\ t # <<>> => Len(log) + 1 \in DOMAIN new /\ new[Len(log) + 1] = t
      /\ \A n \in DOMAIN new :
             n \in DOMAIN log \/ (t # <<>> /\ n = Len(log) + 1 /\ n \notin DOMAIN log)
  BY DEF Eval
<1> SUFFICES ASSUME NEW n \in DOMAIN new, n # 1, NEW k \in DOMAIN new[n]
             PROVE  \E i \in DOMAIN file : new[n][k] = Text(i) /\ Allowed(file, sep, i, x, p, q)
  BY DEF LogFrom
<1>2. CASE n \in DOMAIN log
  BY <1>1, <1>2 DEF LogFrom
<1>3. CASE n \notin DOMAIN log
  <2>1. new[n] = t /\ k \in 1..Len(t)
    BY <1>1, <1>3
  <2> QED BY <2>1
<1> QED BY <1>2, <1>3

(* One turn of Rivet_RunChildScripts: the script of host h was not evaluated *)
(* in its interpreter before.                                                *)
LEMMA ChildScriptRuns ==
    ASSUME file \in Seq(Directives), TypeOK, RecordsInv, phase = "up", crec = ChildRecords,
           NEW h \in Hosts, NEW name, NEW log \in Seq(Seq(TextItem)), LogOnce(log), log # <<>>,
           NEW p \in Nat, NEW q \in Nat, NEW p2 \in Nat, NEW q2 \in Nat,
           \/ name = "ChildInitScript" /\ p = h /\ p2 = h + 1 /\ q2 = q
           \/ name = "ChildExitScript" /\ q = h /\ q2 = h + 1 /\ p2 = p,
           LogFrom(log, file, globals.separate, TclOf(h), p, q),
           NEW new, new = Eval(log, ChildScript(h, name))
    PROVE  /\ new \in Seq(Seq(TextItem)) /\ LogOnce(new) /\ new # <<>>
           /\ LogFrom(new, file, globals.separate, TclOf(h), p2, q2)
           /\ \A i \in ServerLines(file, h, name) : \E n \in DOMAIN new : Item(new, n, Text(i))
           /\ \A n \in DOMAIN log : n \in DOMAIN new /\ new[n] = log[n]
<1> DEFINE t == ChildScript(h, name)
           sep == globals.separate
<1>0. h \in Nat /\ Root \in Hosts /\ TclOf(h) \in Hosts /\ Root = 0
  BY LifecycleAssumption DEF Hosts, Root, TclOf
<1>1. /\ t \in Seq(TextItem)
      /\ \A k \in 1..Len(t) : \E i \in DOMAIN file :
             /\ t[k] = Text(i) /\ file[i].kind = "server" /\ file[i].var = name
             /\ file[i].host = h \/ (sep /\ file[i].host = Root)
      /\ \A i \in ServerLines(file, h, name) : \E k \in 1..Len(t) : t[k] = Text(i)
  <2>1. name \in {"ChildInitScript", "ChildExitScript"}
    OBVIOUS
  <2>2. ChildText(t, file, sep, h, name)
    BY <2>1, ChildScriptFacts
  <2> HIDE DEF t
  <2> QED BY <2>2 DEF ChildText
<1> HIDE DEF t
<1>2. \A k \in 1..Len(t) : \E i \in DOMAIN file :
          t[k] = Text(i) /\ ~Allowed(file, sep, i, TclOf(h), p, q)
  <2> SUFFICES ASSUME NEW k \in 1..Len(t)
               PROVE  \E i \in DOMAIN file : t[k] = Text(i) /\ ~Allowed(file, sep, i, TclOf(h), p, q)
    OBVIOUS
  <2>1. PICK i \in DOMAIN file :
            /\ t[k] = Text(i) /\ file[i].kind = "server" /\ file[i].var = name
            /\ file[i].host = h \/ (sep /\ file[i].host = Root)
    BY <1>1
  <2>2. ~Over(sep, TclOf(h), file[i].host, h)
    BY <1>0, <2>1 DEF Over, TclOf
  <2> QED BY <2>1, <2>2 DEF Allowed
<1>3. \A n \in DOMAIN log, k \in 1..Len(t) : ~Item(log, n, t[k])
  BY <1>1, <1>2, FreshText
<1>4. \A k \in 1..Len(t) : \E i \in DOMAIN file :
          t[k] = Text(i) /\ Allowed(file, sep, i, TclOf(h), p2, q2)
  <2> SUFFICES ASSUME NEW k \in 1..Len(t)
               PROVE  \E i \in DOMAIN file : t[k] = Text(i) /\ Allowed(file, sep, i, TclOf(h), p2, q2)
    OBVIOUS
  <2>1. PICK i \in DOMAIN file :
            /\ t[k] = Text(i) /\ file[i].kind = "server" /\ file[i].var = name
            /\ file[i].host = h \/ (sep /\ file[i].host = Root)
    BY <1>1
  <2>2. Over(sep, TclOf(h), file[i].host, h + 1)
    BY <1>0, <2>1 DEF Over, TclOf
  <2> QED BY <2>1, <2>2 DEF Allowed
<1>5. LogOnce(new) /\ new # <<>>
  BY <1>1, <1>3, EvalOnce DEF t
<1>6. LogFrom(log, file, sep, TclOf(h), p2, q2)
  <2>1. p <= p2 /\ q <= q2
    BY <1>0
  <2> QED BY <1>0, <2>1, LogFromMore
<1>7. LogFrom(new, file, sep, TclOf(h), p2, q2)
  BY <1>1, <1>4, <1>6, LogFromEval DEF t
<1>8. /\ new \in Seq(Seq(TextItem))
      /\ \A n \in DOMAIN log : n \in DOMAIN new /\ new[n] = log[n]
      /\ t # <<>> => Len(log) + 1 \in DOMAIN new /\ new[Len(log) + 1] = t
  BY <1>1 DEF Eval, t
<1>9. ASSUME NEW i \in ServerLines(file, h, name)
      PROVE  \E n \in DOMAIN new : Item(new, n, Text(i))
  <2>1. PICK k \in 1..Len(t) : t[k] = Text(i)
    BY <1>1
  <2>2. t # <<>>
    BY <2>1, <1>1
  <2> QED BY <2>1, <2>2, <1>8, <1>1 DEF Item
<1> QED BY <1>5, <1>7, <1>8, <1>9
-----------------------------------------------------------------------------
(* A child's life.                                                           *)
LEMMA RunningFacts ==
    ASSUME NEW conf \in Conf
    PROVE  /\ RunningScripts(conf) \in Running
           /\ \A s \in RequestScript : s \in Script /\ RunningScripts(conf)[s] = conf.script[s]
<1>1. \A s \in RequestScript : s \in Script /\ conf.script[s] \in Seq(TextItem)
  BY DEF RequestScript, Script, MergedScript, Conf
<1> QED BY <1>1 DEF RunningScripts, Running

(* While there is a child its records are the server's.                      *)
LEMMA ChildFacts ==
    ASSUME IInv, child # "none"
    PROVE  /\ phase = "up" /\ crec = ChildRecords /\ file \in Seq(Directives) /\ Root \in Hosts
           /\ globals \in Globals /\ globals.serverInit = LinesText(file, ServerInitLines(file))
           /\ \A h \in Hosts :
                  /\ crec[h] \in Conf /\ crec[h].idx = h /\ crec[h].path = None
                  /\ crec[h].user = FALSE /\ TclOf(h) \in Hosts
                  /\ \A s \in Script : crec[h].script[s] = HostScript(file, h, s)
<1>1. phase = "up" /\ crec = ChildRecords /\ file \in Seq(Directives) /\ Root \in Hosts
  BY LifecycleAssumption DEF IInv, ChildInv, FileInv, Root, Hosts
<1>2. globals \in Globals /\ globals.serverInit = LinesText(file, ServerInitLines(file))
  BY <1>1 DEF IInv, RecordsInv
<1>3. /\ ChildRecords \in [Hosts -> Conf]
      /\ \A h \in Hosts :
             /\ ChildRecords[h].idx = h /\ ChildRecords[h].path = None
             /\ ChildRecords[h].user = FALSE
             /\ \A s \in Script : ChildRecords[h].script[s] = HostScript(file, h, s)
  BY <1>1, ChildRecordsFacts DEF IInv
<1>4. \A h \in Hosts : TclOf(h) \in Hosts
  BY <1>1 DEF TclOf
<1>5. \A h \in Hosts : crec[h] \in Conf
  BY <1>1, <1>3
<1> QED BY <1>1, <1>2, <1>3, <1>4, <1>5

LEMMA ChildInitStep == IInv /\ ChildInit => IInv'
<1> SUFFICES ASSUME IInv, ChildInit PROVE IInv'
  OBVIOUS
<1> USE DEF ChildInit, parentVars
<1>1. FileInv' /\ ReadingInv' /\ RecordsInv' /\ MasterInv'
  BY DEF IInv, FileInv, ReadingInv, RecordsInv, MasterInv
<1>2. /\ ChildRecords \in [Hosts -> Conf] /\ \A h \in Hosts : ChildRecords[h].idx = h
  BY ChildRecordsFacts DEF IInv
<1>3. TypeOK'
  <2>1. children + 1 \in 0..MaxChildren
    BY LifecycleAssumption DEF IInv, TypeOK
  <2>2. crec' \in [Hosts -> Conf \cup {None}]
    BY <1>2
  <2>3. \A h \in Hosts : crec'[h] # None /\ crec'[h].idx \in Hosts
    BY <1>2, NullAssumption
  <2> QED BY <2>1, <2>2, <2>3 DEF IInv, TypeOK
<1>4. ChildInv'
  <2>1. ChildRecords' = ChildRecords
    BY DEF ChildRecords
  <2> QED BY <2>1 DEF IInv, ChildInv
<1>5. LogInv'
  BY DEF LogInv
<1> QED BY <1>1, <1>3, <1>4, <1>5 DEF IInv

(* The thread's root interpreter: its log when GlobalInitScript has run.     *)
LEMMA MasterLog ==
    ASSUME IInv, child # "none", NEW log, log = MasterInterp
    PROVE  /\ log \in Seq(Seq(TextItem)) /\ LogOnce(log) /\ log # <<>>
           /\ \A n \in DOMAIN log : n # 1 => \A k \in DOMAIN log[n] :
                  \E i \in ServerInitLines(file) : log[n][k] = Text(i)
<1> DEFINE t == globals.serverInit
           one == <<RivetInit>>
<1>1. /\ t \in Seq(TextItem)
      /\ \A k \in 1..Len(t) : \E i \in ServerInitLines(file) : t[k] = Text(i)
  <2>1. ServerInitLines(file) \in SUBSET DOMAIN file /\ t = LinesText(file, ServerInitLines(file))
    BY ChildFacts DEF ServerInitLines
  <2>2. file \in Seq(Directives)
    BY ChildFacts
  <2> HIDE DEF t
  <2> QED BY <2>1, <2>2, LinesTextFacts
<1>2. PerInterpInit(<<>>) = one /\ one \in Seq(Seq(TextItem))
  BY <1>1, MasterFacts
<1>3. LogOnce(one) /\ one # <<>> /\ DOMAIN one = {1} /\ one[1] = RivetInit
  BY DEF LogOnce
<1>4. log = one \/ log = Eval(one, t)
  BY <1>2, ChildFacts DEF MasterInterp, IInv, MasterInv
<1> HIDE DEF one, t
<1>5. CASE log = one
  BY <1>5, <1>2, <1>3
<1>6. CASE log = Eval(one, t)
  <2>1. ASSUME NEW n \in DOMAIN one, NEW k \in 1..Len(t), Item(one, n, t[k]) PROVE FALSE
    <3>1. PICK m \in DOMAIN RivetInit : RivetInit[m] = t[k]
      BY <2>1, <1>3 DEF Item
    <3>2. RivetInit[m] = RivetInit[1]
      BY <3>1 DEF RivetInit
    <3>3. PICK i : t[k] = Text(i)
      BY <1>1
    <3> QED BY <3>1, <3>2, <3>3 DEF RivetInit, Text
  <2>2. LogOnce(log) /\ log # <<>>
    BY <1>1, <1>2, <1>3, <1>6, <2>1, EvalOnce
  <2>3. /\ log \in Seq(Seq(TextItem))
        /\ \A n \in DOMAIN log : n \in DOMAIN one \/ log[n] = t
    BY <1>1, <1>2, <1>6 DEF Eval
  <2>4. ASSUME NEW n \in DOMAIN log, n # 1, NEW k \in DOMAIN log[n]
        PROVE  \E i \in ServerInitLines(file) : log[n][k] = Text(i)
    <3>1. log[n] = t /\ k \in 1..Len(t)
      BY <2>3, <2>4, <1>1, <1>3
    <3> QED BY <3>1, <1>1
  <2> QED BY <2>2, <2>3, <2>4
<1> QED BY <1>4, <1>5, <1>6

LEMMA ThreadStartStep == IInv /\ ThreadStart => IInv'
<1> SUFFICES ASSUME IInv, ThreadStart PROVE IInv'
  OBVIOUS
<1> DEFINE t == crec[Root].script["GlobalInitScript"]
           root == Eval(MasterInterp, t)
<1>0. /\ child = "thread" /\ child' = "hosts" /\ pos' = Root /\ interps' = NoInterps
      /\ evald' = [NoTexts EXCEPT ![Root] = root]
      /\ UNCHANGED <<parentVars, edits, children, crec, req_cnt, last>>
  BY DEF ThreadStart
<1>1. FileInv' /\ ReadingInv' /\ RecordsInv' /\ MasterInv'
  BY <1>0 DEF IInv, FileInv, ReadingInv, RecordsInv, MasterInv, parentVars
<1>2. Root \in Hosts /\ Root = 0 /\ \A h \in Hosts : h \in Nat
  BY LifecycleAssumption DEF Root, Hosts
<1>3. /\ t \in Seq(TextItem)
      /\ \A k \in 1..Len(t) : \E i \in DOMAIN file :
             t[k] = Text(i) /\ file[i].kind = "server" /\ file[i].var = "GlobalInitScript"
  <2>1. "GlobalInitScript" \in Script /\ t = HostScript(file, Root, "GlobalInitScript")
    BY <1>0, <1>2, ChildFacts DEF Script
  <2>2. file \in Seq(Directives)
    BY <1>0, ChildFacts
  <2> HIDE DEF t
  <2> QED BY <1>2, <2>1, <2>2, HostScriptFacts
<1>4. PICK log : log = MasterInterp
  OBVIOUS
<1>5. /\ log \in Seq(Seq(TextItem)) /\ LogOnce(log) /\ log # <<>>
      /\ \A n \in DOMAIN log : n # 1 => \A k \in DOMAIN log[n] :
             \E i \in ServerInitLines(file) : log[n][k] = Text(i)
  BY <1>0, <1>4, MasterLog
<1> DEFINE sep == globals.separate
<1>6. LogFrom(log, file, sep, Root, 0, 0)
  <2>1. \A i \in ServerInitLines(file) : i \in DOMAIN file /\ Allowed(file, sep, i, Root, 0, 0)
    BY DEF ServerInitLines, Allowed
  <2> QED BY <1>5, <2>1 DEF LogFrom
<1>7. root = Eval(log, t)
  BY <1>4
<1> HIDE DEF t, root
<1>8. \A n \in DOMAIN log, k \in 1..Len(t) : ~Item(log, n, t[k])
  <2> SUFFICES ASSUME NEW n \in DOMAIN log, NEW k \in 1..Len(t), Item(log, n, t[k]) PROVE FALSE
    OBVIOUS
  <2>1. PICK i \in DOMAIN file : t[k] = Text(i) /\ file[i].var = "GlobalInitScript"
    BY <1>3
  <2>2. PICK m \in DOMAIN log[n] : log[n][m] = Text(i)
    BY <2>1 DEF Item
  <2>3. CASE n = 1
    <3>1. RivetInit[m] = Text(i) /\ m = 1
      <4>1. log[1] = RivetInit
        BY <1>5 DEF LogOnce
      <4>2. DOMAIN RivetInit = {1}
        BY DEF RivetInit
      <4> QED BY <2>2, <2>3, <4>1, <4>2
    <3> QED BY <3>1 DEF RivetInit, Text
  <2>4. CASE n # 1
    <3>1. PICK j \in ServerInitLines(file) : log[n][m] = Text(j)
      BY <1>5, <2>2, <2>4
    <3>2. i = j
      BY <2>2, <3>1 DEF Text
    <3> QED BY <2>1, <3>1, <3>2 DEF ServerInitLines
  <2> QED BY <2>3, <2>4
<1>9. LogOnce(root) /\ root # <<>> /\ root \in Seq(Seq(TextItem))
  <2>1. LogOnce(root) /\ root # <<>>
    BY <1>3, <1>5, <1>7, <1>8, EvalOnce
  <2>2. root \in Seq(Seq(TextItem))
    BY <1>3, <1>5, <1>7 DEF Eval
  <2> QED BY <2>1, <2>2
<1>10. LogFrom(root, file, sep, Root, 0, 0)
  <2>1. \A k \in 1..Len(t) : \E i \in DOMAIN file :
            t[k] = Text(i) /\ Allowed(file, sep, i, Root, 0, 0)
    BY <1>3 DEF Allowed
  <2> QED BY <1>3, <1>5, <1>6, <1>7, <2>1, LogFromEval
<1>11. /\ evald' \in [Hosts -> Seq(Seq(TextItem))] /\ evald'[Root] = root
       /\ \A h \in Hosts : h # Root => evald'[h] = <<>>
  <2>1. NoTexts \in [Hosts -> Seq(Seq(TextItem))] /\ \A h \in Hosts : NoTexts[h] = <<>>
    BY DEF NoTexts
  <2> QED BY <1>0, <1>2, <1>9, <2>1
<1>12. TypeOK'
  <2>1. interps' \in [Hosts -> InterpObject \cup {None}]
    BY <1>0 DEF NoInterps
  <2> QED BY <1>0, <1>2, <1>11, <2>1 DEF IInv, TypeOK, parentVars
<1>13. ChildInv'
  <2>1. ChildRecords' = ChildRecords
    BY <1>0 DEF ChildRecords, parentVars
  <2>2. phase' = "up" /\ crec' = ChildRecords
    BY <1>0 DEF IInv, ChildInv, parentVars
  <2>3. \A h \in Hosts : ~(h < pos') /\ interps'[h] = None
    BY <1>0, <1>2 DEF NoInterps
  <2> QED BY <1>0, <2>1, <2>2, <2>3 DEF ChildInv
<1>14. LogInv'
  <2>1. LogOnce(<<>>) /\ \A h : LogFrom(<<>>, file, sep, h, 0, 0)
    BY DEF LogOnce, LogFrom
  <2>2. InitPos' = 0 /\ ExitPos' = 0 /\ file' = file /\ globals' = globals
    BY <1>0 DEF InitPos, ExitPos, parentVars
  <2>3. \A h \in Hosts : LogOnce(evald'[h]) /\ LogFrom(evald'[h], file, sep, h, 0, 0)
    BY <1>9, <1>10, <1>11, <2>1
  <2>4. \A h \in Hosts : evald'[h] # <<>> <=> h = Root
    BY <1>9, <1>11
  <2>5. \A h \in Hosts : ~(h < 0)
    BY <1>2
  <2> QED BY <1>0, <1>2, <2>2, <2>3, <2>4, <2>5 DEF LogInv
<1> QED BY <1>1, <1>12, <1>13, <1>14 DEF IInv

LEMMA VHostInterpStep == IInv /\ VHostInterp => IInv'
<1> SUFFICES ASSUME IInv, VHostInterp PROVE IInv'
  OBVIOUS
<1> DEFINE obj == ObjectOf(pos)
           new == [tcl |-> obj.tcl, scripts |-> RunningScripts(crec[pos]), perDir |-> obj.perDir]
<1>0. /\ child = "hosts" /\ interps' = [interps EXCEPT ![crec[pos].idx] = new]
      /\ evald' = IF obj.initialized THEN evald
                  ELSE [evald EXCEPT ![obj.tcl] = PerInterpInit(@)]
      /\ Proceed("init")
      /\ UNCHANGED <<parentVars, edits, children, crec, req_cnt, last>>
  BY DEF VHostInterp
<1>1. FileInv' /\ ReadingInv' /\ RecordsInv' /\ MasterInv'
  BY <1>0 DEF IInv, FileInv, ReadingInv, RecordsInv, MasterInv, parentVars
<1>2. Root \in Hosts /\ Root = 0 /\ Hosts = 0..VHosts /\ VHosts \in Nat /\ pos \in Hosts
  BY LifecycleAssumption DEF Root, Hosts, IInv, TypeOK
<1>3. crec[pos] \in Conf /\ crec[pos].idx = pos /\ TclOf(pos) \in Hosts
  BY <1>0, <1>2, ChildFacts
<1>4. /\ obj.tcl = TclOf(pos) /\ obj.perDir = NoPerDir
      /\ obj.initialized <=> pos = Root \/ ~globals.separate
  BY DEF ObjectOf, NewVHostInterp, DuplicateVHostInterp, TclOf
<1>5. new \in InterpObject /\ new.tcl = TclOf(pos) /\ new.scripts = RunningScripts(crec[pos])
  <2>1. NoPerDir \in [Dirs -> Running \cup {None}]
    BY DEF NoPerDir
  <2>2. RunningScripts(crec[pos]) \in Running
    BY <1>3, RunningFacts
  <2> HIDE DEF obj
  <2> QED BY <1>3, <1>4, <2>1, <2>2 DEF InterpObject
<1> HIDE DEF obj, new
<1>6. /\ interps' \in [Hosts -> InterpObject \cup {None}]
      /\ interps'[pos] = new /\ \A h \in Hosts : h # pos => interps'[h] = interps[h]
  BY <1>0, <1>2, <1>3, <1>5 DEF IInv, TypeOK
<1>7. \/ pos < VHosts /\ pos' = pos + 1 /\ child' = "hosts"
      \/ pos = VHosts /\ pos' = Root /\ child' = "init"
  BY <1>0, <1>2 DEF Proceed
<1>8. evald \in [Hosts -> Seq(Seq(TextItem))]
  BY DEF IInv, TypeOK
<1>9. /\ \A h \in Hosts : LogOnce(evald[h])
      /\ \A h \in Hosts : LogFrom(evald[h], file, globals.separate, h, 0, 0)
      /\ \A h \in Hosts : evald[h] # <<>> <=> h = Root \/ (globals.separate /\ h < pos)
  BY <1>0 DEF IInv, LogInv, InitPos, ExitPos
<1>10. /\ evald' \in [Hosts -> Seq(Seq(TextItem))]
       /\ \A h \in Hosts : evald'[h] = IF h = pos /\ pos # Root /\ globals.separate
                                       THEN <<RivetInit>> ELSE evald[h]
  <2>1. CASE obj.initialized
    BY <2>1, <1>0, <1>4, <1>8
  <2>2. CASE ~obj.initialized
    <3>1. pos # Root /\ globals.separate /\ TclOf(pos) = pos /\ evald[pos] = <<>>
      BY <2>2, <1>2, <1>4, <1>9 DEF TclOf
    <3>2. PerInterpInit(<<>>) = <<RivetInit>> /\ <<RivetInit>> \in Seq(Seq(TextItem))
      <4>1. <<>> \in Seq(TextItem)
        OBVIOUS
      <4> QED BY <4>1, MasterFacts
    <3>3. evald' = [evald EXCEPT ![pos] = <<RivetInit>>]
      BY <1>0, <1>4, <2>2, <3>1, <3>2
    <3> QED BY <1>2, <1>8, <3>1, <3>2, <3>3
  <2> QED BY <2>1, <2>2
<1>11. TypeOK'
  <2>1. pos' \in Hosts /\ child' \in {"hosts", "init"}
    BY <1>2, <1>7
  <2> QED BY <1>0, <1>6, <1>10, <2>1 DEF IInv, TypeOK, parentVars
<1>12. ChildInv'
  <2>1. ChildRecords' = ChildRecords
    BY <1>0 DEF ChildRecords, parentVars
  <2>2. phase' = "up" /\ crec' = ChildRecords /\ crec' = crec /\ globals' = globals
    BY <1>0 DEF IInv, ChildInv, parentVars
  <2>3. \A h \in Hosts : IF h < pos THEN Made(h) ELSE interps[h] = None
    BY <1>0 DEF IInv, ChildInv
  <2>4. new # None
    BY <1>5, ObjectAssumption
  <2>5. ASSUME NEW h \in Hosts, h < pos \/ h = pos PROVE Made(h)'
    <3>1. CASE h = pos
      BY <3>1, <2>2, <2>4, <1>5, <1>6 DEF Made, TclOf
    <3>2. CASE h # pos
      BY <3>2, <2>2, <2>3, <2>5, <1>6 DEF Made, TclOf
    <3> QED BY <3>1, <3>2
  <2>6. \A h \in Hosts : h > pos => interps'[h] = None
    BY <1>2, <1>6, <2>3
  <2>7. CASE child' = "hosts"
    <3>1. pos' = pos + 1
      BY <1>7, <2>7
    <3>2. \A h \in Hosts : IF h < pos' THEN Made(h)' ELSE interps'[h] = None
      BY <1>2, <2>5, <2>6, <3>1
    <3> QED BY <2>1, <2>2, <2>7, <3>2 DEF ChildInv
  <2>8. CASE child' = "init"
    <3>1. \A h \in Hosts : Made(h)'
      BY <1>2, <1>7, <2>5, <2>8
    <3> QED BY <2>1, <2>2, <2>8, <3>1 DEF ChildInv
  <2> QED BY <1>7, <2>7, <2>8
<1>13. LogInv'
  <2>0. LogOnce(<<RivetInit>>) /\ \A h : LogFrom(<<RivetInit>>, file, globals.separate, h, 0, 0)
    BY DEF LogOnce, LogFrom
  <2>1. \A h \in Hosts : LogOnce(evald'[h]) /\ LogFrom(evald'[h], file, globals.separate, h, 0, 0)
    BY <1>9, <1>10, <2>0
  <2>2. \A h \in Hosts : evald'[h] # <<>> <=>
            h = Root \/ (globals.separate /\ (h < pos \/ h = pos))
    <3>1. <<RivetInit>> # <<>>
      OBVIOUS
    <3>2. ASSUME NEW h \in Hosts
          PROVE  evald'[h] # <<>> <=> h = Root \/ (globals.separate /\ (h < pos \/ h = pos))
      <4>1. CASE h = pos /\ pos # Root /\ globals.separate
        BY <4>1, <3>1, <1>10
      <4>2. CASE ~(h = pos /\ pos # Root /\ globals.separate)
        <5>1. evald'[h] = evald[h]
          BY <4>2, <1>10
        <5> QED BY <4>2, <5>1, <1>2, <1>9
      <4> QED BY <4>1, <4>2
    <3> QED BY <3>2
  <2>3. InitPos' = 0 /\ ExitPos' = 0 /\ file' = file /\ globals' = globals
    BY <1>0, <1>2, <1>7 DEF InitPos, ExitPos, parentVars
  <2>4. \A h \in Hosts : ~(h < 0)
    BY <1>2
  <2>5. \A h \in Hosts : child' = "hosts" => (evald'[h] # <<>> <=> h = Root \/ (globals.separate /\ h < pos'))
    BY <1>2, <1>7, <2>2
  <2>6. \A h \in Hosts : child' # "hosts" => evald'[TclOf(h)'] # <<>>
    BY <1>2, <1>7, <2>2, <2>3 DEF TclOf
  <2> QED BY <1>7, <2>1, <2>3, <2>4, <2>5, <2>6 DEF LogInv
<1> QED BY <1>1, <1>11, <1>12, <1>13 DEF IInv

(* A turn of either loop over the child scripts.                             *)
LEMMA RunChildScriptStep ==
    ASSUME IInv, NEW name, NEW next, RunChildScript(name), Proceed(next),
           UNCHANGED <<parentVars, edits, children>>,
           \/ name = "ChildInitScript" /\ child = "init" /\ next = "serving"
           \/ name = "ChildExitScript" /\ child = "exit" /\ next = "gone"
    PROVE  IInv'
<1>0. /\ evald' = [evald EXCEPT ![Peek(pos).tcl] = Eval(@, ChildScript(pos, name))]
      /\ UNCHANGED <<crec, interps, req_cnt, last, parentVars, edits, children>>
  BY DEF RunChildScript
<1>1. FileInv' /\ ReadingInv' /\ RecordsInv' /\ MasterInv'
  BY <1>0 DEF IInv, FileInv, ReadingInv, RecordsInv, MasterInv, parentVars
<1>2. Root \in Hosts /\ Root = 0 /\ Hosts = 0..VHosts /\ VHosts \in Nat /\ pos \in Hosts /\ pos \in Nat
  BY LifecycleAssumption DEF Root, Hosts, IInv, TypeOK
<1>3. crec[pos] \in Conf /\ crec[pos].idx = pos /\ TclOf(pos) \in Hosts
      /\ \A h \in Hosts : Made(h)
  BY <1>2, ChildFacts DEF IInv, ChildInv
<1>4. Peek(pos).tcl = TclOf(pos)
  BY <1>2, <1>3 DEF Peek, Made
<1> DEFINE x == TclOf(pos)
           new == Eval(evald[x], ChildScript(pos, name))
           sep == globals.separate
<1>5. evald' = [evald EXCEPT ![x] = new] /\ evald \in [Hosts -> Seq(Seq(TextItem))]
  BY <1>0, <1>4 DEF IInv, TypeOK
<1>6. PICK p \in Nat, q \in Nat, p2 \in Nat, q2 \in Nat :
          /\ InitPos = p /\ ExitPos = q /\ InitPos' = p2 /\ ExitPos' = q2 /\ p <= p2 /\ q <= q2
          /\ \/ name = "ChildInitScript" /\ p = pos /\ p2 = pos + 1 /\ q2 = q
             \/ name = "ChildExitScript" /\ q = pos /\ q2 = pos + 1 /\ p2 = p
  <2>1. CASE name = "ChildInitScript"
    <3>1. InitPos = pos /\ ExitPos = 0
      BY <2>1 DEF InitPos, ExitPos
    <3>2. InitPos' = pos + 1 /\ ExitPos' = 0
      <4>1. \/ pos' = pos + 1 /\ child' = "init"
            \/ pos = VHosts /\ child' = "serving"
        BY <1>2, <2>1 DEF Proceed
      <4> QED BY <4>1 DEF InitPos, ExitPos
    <3> QED BY <1>2, <2>1, <3>1, <3>2
  <2>2. CASE name = "ChildExitScript"
    <3>1. InitPos = VHosts + 1 /\ ExitPos = pos
      BY <2>2 DEF InitPos, ExitPos
    <3>2. InitPos' = VHosts + 1 /\ ExitPos' = pos + 1
      <4>1. \/ pos' = pos + 1 /\ child' = "exit"
            \/ pos = VHosts /\ child' = "gone"
        BY <1>2, <2>2 DEF Proceed
      <4> QED BY <4>1 DEF InitPos, ExitPos
    <3> QED BY <1>2, <2>2, <3>1, <3>2
  <2> QED BY <2>1, <2>2
<1>7. /\ \A h \in Hosts : LogOnce(evald[h])
      /\ \A h \in Hosts : LogFrom(evald[h], file, sep, h, p, q)
      /\ \A h \in Hosts : evald[TclOf(h)] # <<>>
      /\ \A h \in Hosts : h < p =>
             \A i \in ServerLines(file, h, "ChildInitScript") :
                 \E n \in DOMAIN evald[TclOf(h)] : Item(evald[TclOf(h)], n, Text(i))
  BY <1>6 DEF IInv, LogInv
<1> HIDE DEF sep
<1>8. /\ new \in Seq(Seq(TextItem)) /\ LogOnce(new) /\ new # <<>>
      /\ LogFrom(new, file, sep, x, p2, q2)
      /\ \A i \in ServerLines(file, pos, name) : \E n \in DOMAIN new : Item(new, n, Text(i))
      /\ \A n \in DOMAIN evald[x] : n \in DOMAIN new /\ new[n] = evald[x][n]
  <2>1. /\ file \in Seq(Directives) /\ TypeOK /\ RecordsInv /\ phase = "up" /\ crec = ChildRecords
    BY ChildFacts DEF IInv
  <2>2. evald[x] \in Seq(Seq(TextItem)) /\ LogOnce(evald[x]) /\ evald[x] # <<>>
        /\ LogFrom(evald[x], file, globals.separate, TclOf(pos), p, q)
    BY <1>2, <1>3, <1>5, <1>7 DEF sep
  <2>3. PICK log, txt : log = evald[x] /\ txt = Eval(log, ChildScript(pos, name))
    OBVIOUS
  <2>4. /\ txt \in Seq(Seq(TextItem)) /\ LogOnce(txt) /\ txt # <<>>
        /\ LogFrom(txt, file, globals.separate, TclOf(pos), p2, q2)
        /\ \A i \in ServerLines(file, pos, name) : \E n \in DOMAIN txt : Item(txt, n, Text(i))
        /\ \A n \in DOMAIN log : n \in DOMAIN txt /\ txt[n] = log[n]
    BY <1>2, <1>6, <2>1, <2>2, <2>3, ChildScriptRuns
  <2> QED BY <2>3, <2>4 DEF sep
<1> HIDE DEF new, x
<1>9. /\ evald' \in [Hosts -> Seq(Seq(TextItem))] /\ evald'[x] = new
      /\ \A h \in Hosts : h # x => evald'[h] = evald[h]
  BY <1>3, <1>5, <1>8 DEF x
<1>10. TypeOK'
  <2>1. pos' \in Hosts /\ child' \in {"init", "serving", "exit", "gone"}
    BY <1>2 DEF Proceed
  <2>2. child # "none"
    OBVIOUS
  <2> QED BY <1>0, <1>9, <2>1, <2>2 DEF IInv, TypeOK, parentVars
<1>11. ChildInv'
  <2>1. ChildRecords' = ChildRecords
    BY <1>0 DEF ChildRecords, parentVars
  <2>2. phase' = "up" /\ crec' = ChildRecords
    BY <1>0, ChildFacts DEF parentVars
  <2>3. \A h \in Hosts : Made(h)'
    BY <1>0, <1>3 DEF Made, TclOf, parentVars
  <2>4. child' \in {"init", "exit"} \/ (child' \in {"serving", "gone"} /\ pos' = Root)
    BY DEF Proceed
  <2> QED BY <2>1, <2>2, <2>3, <2>4 DEF ChildInv
<1>12. LogInv'
  <2>1. \A h \in Hosts : LogOnce(evald'[h])
    BY <1>3, <1>7, <1>8, <1>9
  <2>2. \A h \in Hosts : LogFrom(evald'[h], file, sep, h, p2, q2)
    <3> SUFFICES ASSUME NEW h \in Hosts PROVE LogFrom(evald'[h], file, sep, h, p2, q2)
      OBVIOUS
    <3>1. CASE h = x
      BY <3>1, <1>8, <1>9
    <3>2. CASE h # x
      <4>1. LogFrom(evald[h], file, sep, h, p, q) /\ file \in Seq(Directives)
        BY <1>7, ChildFacts
      <4>2. LogFrom(evald[h], file, sep, h, p2, q2)
        BY <4>1, <1>6, LogFromMore
      <4> QED BY <3>2, <4>2, <1>9
    <3> QED BY <3>1, <3>2
  <2>3. \A h \in Hosts : evald'[TclOf(h)] # <<>>
    BY <1>7, <1>8, <1>9, ChildFacts
  <2>4. \A h \in Hosts : \A t :
            (\E n \in DOMAIN evald[h] : Item(evald[h], n, t))
            => \E n \in DOMAIN evald'[h] : Item(evald'[h], n, t)
    <3> SUFFICES ASSUME NEW h \in Hosts, NEW t, NEW n \in DOMAIN evald[h], Item(evald[h], n, t)
                 PROVE  \E m \in DOMAIN evald'[h] : Item(evald'[h], m, t)
      OBVIOUS
    <3>1. n \in DOMAIN evald'[h] /\ evald'[h][n] = evald[h][n]
      <4>1. CASE h = x
        BY <4>1, <1>8, <1>9
      <4>2. CASE h # x
        BY <4>2, <1>9
      <4> QED BY <4>1, <4>2
    <3> QED BY <3>1 DEF Item
  <2>5. ASSUME NEW h \in Hosts, h < p2, NEW i \in ServerLines(file, h, "ChildInitScript")
        PROVE  \E n \in DOMAIN evald'[TclOf(h)] : Item(evald'[TclOf(h)], n, Text(i))
    <3>0. TclOf(h) \in Hosts
      BY ChildFacts
    <3>1. CASE h < p
      BY <3>0, <3>1, <2>4, <2>5, <1>7
    <3>2. CASE ~(h < p)
      <4>1. h = pos /\ name = "ChildInitScript"
        BY <3>2, <1>2, <1>6, <2>5
      <4> QED BY <4>1, <2>5, <1>8, <1>9 DEF x
    <3> QED BY <3>1, <3>2
  <2>6. /\ file' = file /\ globals' = globals /\ child' \notin {"none", "thread", "hosts"}
        /\ \A h : TclOf(h)' = TclOf(h)
    BY <1>0 DEF parentVars, Proceed, TclOf
  <2> QED BY <1>6, <2>1, <2>2, <2>3, <2>5, <2>6 DEF LogInv, sep
<1> QED BY <1>1, <1>10, <1>11, <1>12 DEF IInv
-----------------------------------------------------------------------------
(* Apache's walk to a directory, on any sections and any .htaccess files.    *)
IsWalk(g, sec, ed, h, d) ==
    /\ g \in [0..Len(Path[d]) -> Conf] /\ g[0] = CreateDirConfig
    /\ \A k \in 1..Len(Path[d]) : g[k] = EnterDir(sec, ed, h, g[k - 1], Path[d][k])

(* The directory walk enters the directories of a path one by one.           *)
LEMMA WalkSteps ==
    ASSUME NEW sec, NEW ed, NEW h \in Hosts, NEW d \in Dirs,
           \A conf \in Conf, dir \in Dirs : EnterDir(sec, ed, h, conf, dir) \in Conf
    PROVE  \E g : IsWalk(g, sec, ed, h, d) /\ DirectoryWalk(sec, ed, h, d) = g[Len(Path[d])]
<1> DEFINE seq == Path[d]
           n == Len(seq)
           G == [p \in Conf \X (1..n) |-> EnterDir(sec, ed, h, p[1], seq[p[2]])]
           Eq(u) == u = [s \in SUBSET (DOMAIN seq) |->
                      IF s = {} THEN CreateDirConfig
                      ELSE EnterDir(sec, ed, h, u[s \ {Max(s)}], seq[Max(s)])]
<1>1. n \in Nat /\ DOMAIN seq = 1..n /\ \A i \in 1..n : seq[i] \in Dirs
  BY PathAssumption
<1> HIDE DEF seq
<1>0. CreateDirConfig \in Conf
  BY NewRecords
<1>2. G \in [Conf \X (1..n) -> Conf]
  BY <1>1
<1>3. PICK f \in [SUBSET (1..n) -> Conf] : Iterates(f, n, CreateDirConfig, G)
  <2> HIDE DEF G, n
  <2> QED BY <1>0, <1>1, <1>2, IterationExists
<1>4. Eq(f)
  <2>1. ASSUME NEW s \in SUBSET (1..n), s # {}
        PROVE  f[s] = EnterDir(sec, ed, h, f[s \ {Max(s)}], seq[Max(s)])
    <3>1. Max(s) \in s
      <4> HIDE DEF n
      <4> QED BY <2>1, <1>1, MaxIn
    <3>2. f[s] = G[<<f[s \ {Max(s)}], Max(s)>>]
      BY <2>1, <1>3 DEF Iterates
    <3> QED BY <3>1, <3>2, <1>1
  <2>2. f[{}] = CreateDirConfig
    BY <1>3 DEF Iterates
  <2>3. f = [s \in SUBSET (1..n) |-> f[s]]
    OBVIOUS
  <2> HIDE DEF n, G
  <2> QED BY <2>1, <2>2, <2>3, <1>1
<1>5. PICK w : Eq(w) /\ DirectoryWalk(sec, ed, h, d) = w[1..n]
  <2>1. DirectoryWalk(sec, ed, h, d) = (CHOOSE u : Eq(u))[DOMAIN seq]
    BY DEF DirectoryWalk, FoldLeft, MapThenFoldSet, seq
  <2> HIDE DEF Eq, n
  <2> QED BY <1>1, <1>4, <2>1
<1>6. w[1..0] = CreateDirConfig
  <2>1. {} \in SUBSET (DOMAIN seq) /\ 1..0 = {}
    OBVIOUS
  <2> QED BY <1>5, <2>1
<1>7. ASSUME NEW k \in 1..n PROVE w[1..k] = EnterDir(sec, ed, h, w[1..(k-1)], seq[k])
  <2>1. k \in Nat /\ k > 0 /\ 1..k \in SUBSET (1..n)
    BY <1>1
  <2>2. Max(1..k) = k /\ (1..k) \ {k} = 1..(k - 1) /\ 1..k # {}
    BY <2>1, MaxOfPrefix
  <2>3. \A s \in SUBSET (DOMAIN seq) :
            w[s] = IF s = {} THEN CreateDirConfig
                   ELSE EnterDir(sec, ed, h, w[s \ {Max(s)}], seq[Max(s)])
    BY <1>5
  <2>4. 1..k \in SUBSET (DOMAIN seq)
    BY <1>1
  <2> HIDE DEF n, Eq
  <2> QED BY <2>2, <2>3, <2>4
<1> DEFINE T == {k \in 0..n : w[1..k] \in Conf}
<1>8. \A k \in 0..n : k \in T
  <2>1. 0 \in T
    BY <1>0, <1>1, <1>6
  <2>2. \A k \in 0..n : k \in T /\ k < n => k + 1 \in T
    <3> SUFFICES ASSUME NEW k \in 0..n, k \in T, k < n PROVE k + 1 \in T
      OBVIOUS
    <3>1. k + 1 \in 1..n /\ k + 1 \in 0..n /\ (k + 1) - 1 = k
      BY <1>1
    <3>2. w[1..(k+1)] = EnterDir(sec, ed, h, w[1..k], seq[k+1]) /\ w[1..k] \in Conf
      BY <3>1, <1>7
    <3> QED BY <3>1, <3>2, <1>1
  <2> HIDE DEF T, n
  <2> QED BY <2>1, <2>2, <1>1, Induction
<1> DEFINE g == [k \in 0..n |-> w[1..k]]
<1>9. g \in [0..n -> Conf]
  BY <1>8
<1>10. g[0] = CreateDirConfig /\ g[n] = w[1..n]
  BY <1>1, <1>6
<1>11. ASSUME NEW k \in 1..n PROVE g[k] = EnterDir(sec, ed, h, g[k-1], seq[k])
  <2>1. k \in 0..n /\ k - 1 \in 0..n
    BY <1>1
  <2> QED BY <2>1, <1>7
<1> HIDE DEF g
<1>12. IsWalk(g, sec, ed, h, d)
  BY <1>9, <1>10, <1>11 DEF IsWalk, seq
<1> QED BY <1>12, <1>10, <1>5 DEF seq

(* One merge of directory records.                                           *)
LEMMA MergeDirFacts ==
    ASSUME NEW conf \in Conf, NEW add \in Conf, NEW new, new = MergeDirConfig(conf, add)
    PROVE  /\ new \in Conf /\ new.path = SelectDir(conf.path, add.path) /\ (new.user <=> add.user)
           /\ ScriptsMerged(new, conf, add)
<1> DEFINE texts == [s \in Script |-> IF s \in MergedScript
                                      THEN Selected(conf.script[s], add.script[s]) ELSE <<>>]
<1>0. Zeroed \in Conf /\ Zeroed.script = [s \in Script |-> <<>>]
  BY NewRecords DEF Zeroed
<1>1. texts \in [Script -> Seq(TextItem)]
  BY DEF Selected, Conf
<1>2. /\ SelectDir(conf.upload, add.upload) \in Names \cup {"default", None}
      /\ SelectDir(conf.path, add.path) \in Dirs \cup {None} /\ add.user \in BOOLEAN
  BY DEF Conf, SelectDir
<1>3. new = [Zeroed EXCEPT !.script = texts, !.upload = SelectDir(conf.upload, add.upload),
                           !.path = SelectDir(conf.path, add.path), !.user = add.user]
  <2>1. texts = [s \in Script |-> IF s \in MergedScript
                                  THEN Selected(conf.script[s], add.script[s]) ELSE Zeroed.script[s]]
    BY <1>0
  <2> HIDE DEF texts
  <2> QED BY <2>1 DEF MergeDirConfig, MergeDirConfigVars
<1>4. \A s \in Script : texts[s] = IF s \in MergedScript
                                  THEN Selected(conf.script[s], add.script[s]) ELSE <<>>
  OBVIOUS
<1> HIDE DEF texts
<1>5. /\ new \in Conf /\ new.path = SelectDir(conf.path, add.path) /\ (new.user <=> add.user)
      /\ new.script = texts
  BY <1>0, <1>1, <1>2, <1>3 DEF Conf
<1>6. ScriptsMerged(new, conf, add)
  BY <1>4, <1>5 DEF ScriptsMerged
<1> QED BY <1>5, <1>6

(* A record of a directory - of the root's section (1), the virtual host's   *)
(* (2) or its .htaccess file (3) - holds what the place says of its scripts. *)
RecordOK(add, h, dir, written, r) ==
    /\ add = None => \A s \in RequestScript : TextAt(h, dir, written, s, r) = <<>>
    /\ add # None =>
           /\ add \in Conf /\ add.path \in {None, dir} /\ (add.path = None => add.user)
           /\ (add.user => UserPlace(dir)) /\ Configured(dir)
           /\ \A s \in RequestScript : add.script[s] = TextAt(h, dir, written, s, r)

SectionsOK(sec) ==
    /\ sec \in [Hosts -> [Dirs -> Conf \cup {None}]]
    /\ \A h \in Hosts, d \in Dirs : SectionUpTo(file, sec[h][d], h, d, Len(file))

(* What the record of a section says of the file.                            *)
LEMMA SectionRecord ==
    ASSUME file \in Seq(Directives), NEW g \in Hosts, NEW dir \in Dirs,
           NEW add \in Conf \cup {None}, SectionUpTo(file, add, g, dir, Len(file))
    PROVE  /\ add = None => \A s \in RequestScript : SectionText(g, dir, s) = <<>>
           /\ add # None =>
                  /\ add \in Conf /\ add.path \in {None, dir} /\ (add.path = None => add.user)
                  /\ (add.user => UserPlace(dir)) /\ Configured(dir)
                  /\ \A s \in RequestScript : add.script[s] = SectionText(g, dir, s)
<1>1. \A i \in 1..Len(file) : file[i] \in Directives /\ file[i].kind \in {"server", "dir", "user"}
  BY DirectiveAssumption
<1>2. CASE add = None
  <2>1. ~SectionSeen(file, {"dir", "user"}, g, dir, Len(file))
    BY <1>2 DEF SectionUpTo
  <2>2. \A s : SectionLines(file, g, dir, s) = {}
    BY <2>1, <1>1 DEF SectionSeen, SectionLines
  <2>3. \A s : LinesText(file, {}) = <<>>
    BY LinesTextFacts
  <2> QED BY <1>2, <2>2, <2>3 DEF SectionText
<1>3. CASE add # None
  <2>1. /\ SectionSeen(file, {"dir", "user"}, g, dir, Len(file)) /\ add \in Conf
        /\ \A s \in Script : add.script[s] = TextUpTo(file, SectionLines(file, g, dir, s))[Len(file)]
        /\ add.path = IF SectionSeen(file, {"dir"}, g, dir, Len(file)) THEN dir ELSE None
        /\ (add.user <=> SectionSeen(file, {"user"}, g, dir, Len(file)))
    BY <1>3 DEF SectionUpTo
  <2>2. SectionSeen(file, {"dir"}, g, dir, Len(file)) \/ SectionSeen(file, {"user"}, g, dir, Len(file))
    BY <2>1 DEF SectionSeen
  <2>3. SectionSeen(file, {"user"}, g, dir, Len(file)) => UserPlace(dir)
    BY <1>1 DEF SectionSeen, UserPlace
  <2>4. Configured(dir)
    <3>1. PICK i \in 1..Len(file) : file[i].kind \in {"dir", "user"} /\ file[i].dir = dir
      BY <2>1 DEF SectionSeen
    <3> QED BY <3>1, <1>1 DEF Configured
  <2>5. \A s \in RequestScript : s \in Script
    BY DEF RequestScript, Script, MergedScript
  <2>6. \A s \in RequestScript : add.script[s] = SectionText(g, dir, s)
    BY <2>1, <2>5 DEF SectionText, LinesText
  <2>7. add \in Conf /\ add.path \in {None, dir} /\ (add.path = None => add.user) /\ (add.user => UserPlace(dir))
    BY <2>1, <2>2, <2>3, NullAssumption
  <2> QED BY <1>3, <2>4, <2>6, <2>7
<1> QED BY <1>2, <1>3

(* The three records of a directory define what TextAt says.                 *)
LEMMA RecordsOK ==
    ASSUME file \in Seq(Directives), NEW sec, SectionsOK(sec), NEW written \in [UserDirs -> Nat],
           NEW h \in Hosts, NEW dir \in Dirs
    PROVE  /\ RecordOK(sec[Root][dir], h, dir, written, 1)
           /\ RecordOK(IF h = Root THEN None ELSE sec[h][dir], h, dir, written, 2)
           /\ RecordOK(Htaccess(written, dir), h, dir, written, 3)
<1>0. Root \in Hosts
  BY LifecycleAssumption DEF Root, Hosts
<1>1. \A g \in Hosts : sec[g][dir] \in Conf \cup {None} /\ SectionUpTo(file, sec[g][dir], g, dir, Len(file))
  BY DEF SectionsOK
<1>2. RecordOK(sec[Root][dir], h, dir, written, 1)
  <2>1. \A s : TextAt(h, dir, written, s, 1) = SectionText(Root, dir, s)
    BY DEF TextAt
  <2>2. PICK add : add = sec[Root][dir]
    OBVIOUS
  <2>3. add \in Conf \cup {None} /\ SectionUpTo(file, add, Root, dir, Len(file))
    BY <1>0, <1>1, <2>2
  <2>4. /\ add = None => \A s \in RequestScript : SectionText(Root, dir, s) = <<>>
        /\ add # None =>
               /\ add \in Conf /\ add.path \in {None, dir} /\ (add.path = None => add.user)
               /\ (add.user => UserPlace(dir)) /\ Configured(dir)
               /\ \A s \in RequestScript : add.script[s] = SectionText(Root, dir, s)
    BY <1>0, <2>3, SectionRecord
  <2> QED BY <2>1, <2>2, <2>4 DEF RecordOK
<1>3. RecordOK(IF h = Root THEN None ELSE sec[h][dir], h, dir, written, 2)
  <2>1. CASE h = Root
    <3>1. \A s : TextAt(h, dir, written, s, 2) = <<>>
      BY <2>1 DEF TextAt
    <3> QED BY <2>1, <3>1 DEF RecordOK
  <2>2. CASE h # Root
    <3>1. \A s : TextAt(h, dir, written, s, 2) = SectionText(h, dir, s)
      BY <2>2 DEF TextAt
    <3>2. PICK add : add = sec[h][dir]
      OBVIOUS
    <3>3. add \in Conf \cup {None} /\ SectionUpTo(file, add, h, dir, Len(file))
      BY <1>1, <3>2
    <3>4. /\ add = None => \A s \in RequestScript : SectionText(h, dir, s) = <<>>
          /\ add # None =>
                 /\ add \in Conf /\ add.path \in {None, dir} /\ (add.path = None => add.user)
                 /\ (add.user => UserPlace(dir)) /\ Configured(dir)
                 /\ \A s \in RequestScript : add.script[s] = SectionText(h, dir, s)
      BY <3>3, SectionRecord
    <3> QED BY <2>2, <3>1, <3>2, <3>4 DEF RecordOK
  <2> QED BY <2>1, <2>2
<1>4. RecordOK(Htaccess(written, dir), h, dir, written, 3)
  <2> DEFINE there == dir \in UserDirs /\ written[dir] > 0
             t == <<dir, written[dir]>>
  <2>1. \A s : TextAt(h, dir, written, s, 3) = IF there /\ s = "BeforeScript" THEN <<t>> ELSE <<>>
    BY DEF TextAt
  <2>2. CASE ~there
    BY <2>1, <2>2 DEF RecordOK, Htaccess
  <2>3. CASE there
    <3>0. t \in TextItem
      BY <2>3 DEF TextItem
    <3>1. CreateDirConfig \in Conf /\ CreateDirConfig.path = None
          /\ \A s \in Script : CreateDirConfig.script[s] = <<>>
      BY NewRecords
    <3>2. PICK add : add = UserConf(CreateDirConfig, "BeforeScript", t)
      OBVIOUS
    <3>3. /\ add \in Conf /\ add.path = None /\ add.user
          /\ \A s \in Script : add.script[s] = IF s = "BeforeScript" THEN Append(CreateDirConfig.script[s], t)
                                               ELSE CreateDirConfig.script[s]
      <4>1. "BeforeScript" \notin Script \ SectionScript
        BY DEF SectionScript
      <4> HIDE DEF t
      <4> QED BY <3>0, <3>1, <3>2, <4>1, UserConfFacts
    <3>4. \A s \in RequestScript : s \in Script
      BY DEF RequestScript, Script, MergedScript
    <3>5. \A s \in RequestScript : add.script[s] = TextAt(h, dir, written, s, 3)
      <4>1. Append(<<>>, t) = <<t>>
        OBVIOUS
      <4> HIDE DEF t
      <4> QED BY <2>1, <2>3, <3>1, <3>3, <3>4, <4>1
    <3>6. Htaccess(written, dir) = add /\ add # None /\ UserPlace(dir) /\ Configured(dir)
      BY <2>3, <3>2, <3>3, NullAssumption DEF Htaccess, UserPlace, Configured
    <3> HIDE DEF t, there
    <3> QED BY <3>3, <3>5, <3>6 DEF RecordOK
  <2> QED BY <2>2, <2>3
<1> QED BY <1>2, <1>3, <1>4

(* One record, and one directory, of the walk: what it may change.           *)
Blank(conf) == \A s \in RequestScript : conf.script[s] = <<>>
Entered(new, conf, dir) ==
    /\ new \in Conf
    /\ \/ new = conf
       \/ new.path = dir /\ Configured(dir)
       \/ new.path = conf.path /\ new.user /\ UserPlace(dir)
    /\ (conf.path = None => conf.user \/ Blank(conf)) => (new.path = None => new.user \/ Blank(new))
TextsSelected(new, conf, h, dir, written, r) ==
    \A s \in RequestScript : new.script[s] = Selected(conf.script[s], TextAt(h, dir, written, s, r))

(* Merging a record takes its scripts where it has some.                     *)
LEMMA MergeIfAnyFacts ==
    ASSUME NEW conf \in Conf, NEW add, NEW h, NEW dir \in Dirs, NEW written, NEW r,
           RecordOK(add, h, dir, written, r), NEW new, new = MergeIfAny(conf, add)
    PROVE  /\ Entered(new, conf, dir) /\ TextsSelected(new, conf, h, dir, written, r)
           /\ add # None => (new.user <=> add.user)
<1>1. CASE add = None
  BY <1>1 DEF MergeIfAny, Entered, TextsSelected, Selected, RecordOK
<1>2. CASE add # None
  <2>1. /\ add \in Conf /\ add.path \in {None, dir} /\ (add.path = None => add.user)
        /\ (add.user => UserPlace(dir)) /\ Configured(dir)
        /\ \A s \in RequestScript : add.script[s] = TextAt(h, dir, written, s, r)
    BY <1>2 DEF RecordOK
  <2>2. /\ new \in Conf /\ new.path = SelectDir(conf.path, add.path) /\ (new.user <=> add.user)
        /\ ScriptsMerged(new, conf, add)
    BY <1>2, <2>1, MergeDirFacts DEF MergeIfAny
  <2>3. \A s \in RequestScript : s \in Script /\ s \in MergedScript
    BY DEF RequestScript, Script, MergedScript
  <2>4. TextsSelected(new, conf, h, dir, written, r)
    BY <2>1, <2>2, <2>3 DEF TextsSelected, ScriptsMerged
  <2>5. Entered(new, conf, dir)
    BY <2>1, <2>2, NullAssumption DEF Entered, SelectDir
  <2> QED BY <2>2, <2>4, <2>5
<1> QED BY <1>1, <1>2

(* Entering a directory merges up to three records, the closest last.        *)
LEMMA EnterDirFacts ==
    ASSUME file \in Seq(Directives), NEW sec, SectionsOK(sec), NEW written \in [UserDirs -> Nat],
           NEW h \in Hosts, NEW dir \in Dirs, NEW conf \in Conf,
           NEW new, new = EnterDir(sec, written, h, conf, dir)
    PROVE  /\ Entered(new, conf, dir)
           /\ dir \in UserDirs /\ written[dir] > 0 => new.user
           /\ \E c1 \in Conf, c2 \in Conf :
                  /\ TextsSelected(c1, conf, h, dir, written, 1)
                  /\ TextsSelected(c2, c1, h, dir, written, 2)
                  /\ TextsSelected(new, c2, h, dir, written, 3)
<1>1. PICK a1, a2, a3 : /\ a1 = sec[Root][dir] /\ a2 = IF h = Root THEN None ELSE sec[h][dir]
                        /\ a3 = Htaccess(written, dir)
  OBVIOUS
<1>2. /\ RecordOK(a1, h, dir, written, 1) /\ RecordOK(a2, h, dir, written, 2)
      /\ RecordOK(a3, h, dir, written, 3)
  BY <1>1, RecordsOK
<1>3. PICK c1, c2 : c1 = MergeIfAny(conf, a1) /\ c2 = MergeIfAny(c1, a2)
  OBVIOUS
<1>4. new = MergeIfAny(c2, a3)
  BY <1>1, <1>3 DEF EnterDir
<1>5. Entered(c1, conf, dir) /\ TextsSelected(c1, conf, h, dir, written, 1)
  BY <1>2, <1>3, MergeIfAnyFacts
<1>6. Entered(c2, c1, dir) /\ TextsSelected(c2, c1, h, dir, written, 2)
  <2>1. c1 \in Conf
    BY <1>5 DEF Entered
  <2> QED BY <1>2, <1>3, <2>1, MergeIfAnyFacts
<1>7. /\ Entered(new, c2, dir) /\ TextsSelected(new, c2, h, dir, written, 3)
      /\ a3 # None => (new.user <=> a3.user)
  <2>1. c2 \in Conf
    BY <1>6 DEF Entered
  <2> QED BY <1>2, <1>4, <2>1, MergeIfAnyFacts
<1>8. Entered(new, conf, dir)
  BY <1>5, <1>6, <1>7 DEF Entered
<1>9. dir \in UserDirs /\ written[dir] > 0 => new.user
  <2> SUFFICES ASSUME dir \in UserDirs, written[dir] > 0 PROVE new.user
    OBVIOUS
  <2>1. <<dir, written[dir]>> \in TextItem
    BY DEF TextItem
  <2>2. PICK t \in TextItem : t = <<dir, written[dir]>>
    BY <2>1
  <2>3. a3 = UserConf(CreateDirConfig, "BeforeScript", t)
    BY <1>1, <2>2 DEF Htaccess
  <2>4. a3 \in Conf /\ a3.user
    <3>1. "BeforeScript" \notin Script \ SectionScript
      BY DEF SectionScript
    <3> QED BY <2>3, <3>1, NewRecords, UserConfFacts
  <2>5. a3 # None
    BY <2>4, NullAssumption
  <2> QED BY <2>4, <2>5, <1>7
<1>10. c1 \in Conf /\ c2 \in Conf
  BY <1>5, <1>6 DEF Entered
<1> QED BY <1>5, <1>6, <1>7, <1>8, <1>9, <1>10

(* Every step of a walk is a record.                                         *)
LEMMA WalkIsConf ==
    ASSUME file \in Seq(Directives), NEW sec, SectionsOK(sec), NEW written \in [UserDirs -> Nat],
           NEW h \in Hosts, NEW d \in Dirs
    PROVE  \E g : IsWalk(g, sec, written, h, d) /\ DirectoryWalk(sec, written, h, d) = g[Len(Path[d])]
<1>1. \A conf \in Conf, dir \in Dirs : EnterDir(sec, written, h, conf, dir) \in Conf
  BY EnterDirFacts DEF Entered
<1> QED BY <1>1, WalkSteps

-----------------------------------------------------------------------------
(* The end of a child, and what happens while it serves.                     *)
LEMMA ForgetStep ==
    ASSUME IInv, child \in {"serving", "gone"}, Forget, child' = "none", pos' = Root,
           UNCHANGED <<parentVars, edits, children>>
    PROVE  IInv'
<1>1. FileInv' /\ ReadingInv' /\ RecordsInv' /\ MasterInv'
  BY DEF IInv, FileInv, ReadingInv, RecordsInv, MasterInv, parentVars
<1>2. TypeOK'
  <2>1. Root \in Hosts /\ 0 \in 0..MaxRequests
    BY LifecycleAssumption DEF Root, Hosts
  <2>2. /\ interps' \in [Hosts -> InterpObject \cup {None}]
        /\ evald' \in [Hosts -> Seq(Seq(TextItem))]
        /\ crec' \in [Hosts -> Conf \cup {None}]
    BY DEF Forget, NoInterps, NoTexts
  <2> QED BY <2>1, <2>2 DEF IInv, TypeOK, Forget, parentVars
<1>3. ChildInv'
  BY DEF ChildInv, Forget, NoInterps, NoTexts
<1>4. LogInv'
  BY DEF LogInv
<1> QED BY <1>1, <1>2, <1>3, <1>4 DEF IInv

LEMMA ChildEndsStep == ASSUME IInv, NEW byScript \in BOOLEAN, ChildEnds(byScript) PROVE IInv'
<1>0. child = "serving" /\ pos' = Root /\ UNCHANGED <<parentVars, edits, children>>
  BY DEF ChildEnds
<1>1. CASE child' = "none" /\ Forget
  BY <1>0, <1>1, ForgetStep
<1>2. CASE child' = "exit" /\ UNCHANGED memory
  <2>1. FileInv' /\ ReadingInv' /\ RecordsInv' /\ MasterInv'
    BY <1>0 DEF IInv, FileInv, ReadingInv, RecordsInv, MasterInv, parentVars
  <2>2. Root \in Hosts /\ Root = 0 /\ VHosts \in Nat
    BY LifecycleAssumption DEF Root, Hosts
  <2>3. TypeOK'
    BY <1>0, <1>2, <2>2 DEF IInv, TypeOK, parentVars, memory
  <2>4. ChildInv'
    <3>1. ChildRecords' = ChildRecords
      BY <1>0 DEF ChildRecords, parentVars
    <3>2. \A h \in Hosts : Made(h)'
      BY <1>0, <1>2 DEF IInv, ChildInv, Made, TclOf, parentVars, memory
    <3> QED BY <1>0, <1>2, <3>1, <3>2 DEF IInv, ChildInv, parentVars, memory
  <2>5. LogInv'
    <3>1. InitPos = VHosts + 1 /\ ExitPos = 0 /\ InitPos' = VHosts + 1 /\ ExitPos' = 0
      BY <1>0, <1>2, <2>2 DEF InitPos, ExitPos
    <3>2. evald' = evald /\ file' = file /\ globals' = globals /\ \A h : TclOf(h)' = TclOf(h)
      BY <1>0, <1>2 DEF parentVars, memory, TclOf
    <3>3. /\ \A h \in Hosts : LogOnce(evald[h])
          /\ \A h \in Hosts : LogFrom(evald[h], file, globals.separate, h, VHosts + 1, 0)
          /\ \A h \in Hosts : evald[TclOf(h)] # <<>>
          /\ \A h \in Hosts : h < VHosts + 1 =>
                 \A i \in ServerLines(file, h, "ChildInitScript") :
                     \E n \in DOMAIN evald[TclOf(h)] : Item(evald[TclOf(h)], n, Text(i))
      BY <1>0, <3>1 DEF IInv, LogInv
    <3> QED BY <1>0, <1>2, <3>1, <3>2, <3>3 DEF LogInv
  <2> QED BY <2>1, <2>3, <2>4, <2>5 DEF IInv
<1> QED BY <1>1, <1>2 DEF ChildEnds

LEMMA ChildGoneStep == IInv /\ ChildGone => IInv'
<1> SUFFICES ASSUME IInv, ChildGone PROVE IInv'
  OBVIOUS
<1>1. /\ child = "gone" /\ child' = "none" /\ Forget /\ pos' = pos
      /\ UNCHANGED <<parentVars, edits, children>>
  BY DEF ChildGone
<1>2. pos = Root
  BY <1>1 DEF IInv, ChildInv
<1> QED BY <1>1, <1>2, ForgetStep

(* Steps that change neither the parent's state nor where the child is, nor  *)
(* what it evaluated.                                                        *)
LEMMA ServingStep ==
    ASSUME IInv, child = "serving", UNCHANGED <<parentVars, children, child, pos, crec, evald>>,
           edits' \in [UserDirs -> 0..MaxEdits], req_cnt' \in 0..MaxRequests,
           interps' \in [Hosts -> InterpObject \cup {None}],
           \A h \in Hosts : interps'[h] # None /\ interps'[h].tcl = interps[h].tcl
                            /\ interps'[h].scripts = interps[h].scripts
    PROVE  IInv'
<1>1. FileInv' /\ ReadingInv' /\ RecordsInv' /\ MasterInv'
  BY DEF IInv, FileInv, ReadingInv, RecordsInv, MasterInv, parentVars
<1>2. TypeOK'
  BY DEF IInv, TypeOK, parentVars
<1>3. ChildInv'
  <2>1. ChildRecords' = ChildRecords
    BY DEF ChildRecords, parentVars
  <2>2. \A h \in Hosts : Made(h)'
    BY DEF IInv, ChildInv, Made, TclOf, parentVars
  <2> QED BY <2>1, <2>2 DEF IInv, ChildInv, parentVars
<1>4. LogInv'
  <2>1. /\ evald' = evald /\ file' = file /\ globals' = globals /\ \A h : TclOf(h)' = TclOf(h)
        /\ InitPos' = InitPos /\ ExitPos' = ExitPos /\ child' = child /\ pos' = pos
    BY DEF parentVars, TclOf, InitPos, ExitPos
  <2> QED BY <2>1 DEF IInv, LogInv
<1> QED BY <1>1, <1>2, <1>3, <1>4 DEF IInv

LEMMA EditUserConfStep == ASSUME IInv, NEW d \in UserDirs, EditUserConf(d) PROVE IInv'
<1>1. /\ child = "serving" /\ edits[d] < MaxEdits /\ edits' = [edits EXCEPT ![d] = @ + 1]
      /\ UNCHANGED <<parentVars, children, child, pos, crec, evald, interps, req_cnt>>
  BY DEF EditUserConf, childVars, memory
<1>2. edits' \in [UserDirs -> 0..MaxEdits]
  BY <1>1, LifecycleAssumption DEF IInv, TypeOK
<1>3. \A h \in Hosts : interps[h] # None
  BY <1>1 DEF IInv, ChildInv, Made
<1>4. req_cnt \in 0..MaxRequests /\ interps \in [Hosts -> InterpObject \cup {None}]
  BY DEF IInv, TypeOK
<1> QED BY <1>1, <1>2, <1>3, <1>4, ServingStep

(* What Rivet_SendContent stores for the directory of a request.             *)
LEMMA RequestFacts ==
    ASSUME IInv, NEW h \in Hosts, NEW d \in Dirs, Request(h, d),
           NEW rdc, rdc = PerDirConfig(h, d)
    PROVE  /\ child = "serving" /\ req_cnt' \in 0..MaxRequests
           /\ UNCHANGED <<parentVars, edits, children, child, pos, crec, evald>>
           /\ rdc \in Conf /\ SectionsOK(section) /\ edits \in [UserDirs -> Nat]
           /\ Peek(h) = interps[h] /\ interps[h] \in InterpObject
           /\ GetConf(crec[h], rdc) \in Conf
           /\ interps' \in [Hosts -> InterpObject \cup {None}]
           /\ \A g \in Hosts : interps'[g] # None /\ interps'[g].tcl = interps[g].tcl
                               /\ interps'[g].scripts = interps[g].scripts
           /\ \A g \in Hosts, p \in Dirs : interps'[g].perDir[p] =
                  IF g = h /\ p = rdc.path /\ interps[h].perDir[p] = None
                  THEN RunningScripts(GetConf(crec[h], rdc)) ELSE interps[g].perDir[p]
<1>1. /\ child = "serving" /\ req_cnt < MaxRequests /\ req_cnt' = req_cnt + 1
      /\ StorePerDir(h, rdc)
      /\ UNCHANGED <<parentVars, edits, children, child, pos, crec, evald>>
  BY DEF Request
<1>2. req_cnt' \in 0..MaxRequests
  BY <1>1, LifecycleAssumption DEF IInv, TypeOK
<1>3. /\ phase = "up" /\ file \in Seq(Directives)
      /\ crec[h] \in Conf /\ crec[h].idx = h
  BY <1>1, ChildFacts
<1>4. SectionsOK(section) /\ edits \in [UserDirs -> Nat]
  BY <1>3 DEF IInv, TypeOK, RecordsInv, SectionsOK
<1>5. rdc \in Conf
  <2>1. PICK g : IsWalk(g, section, edits, h, d) /\ DirectoryWalk(section, edits, h, d) = g[Len(Path[d])]
    BY <1>3, <1>4, WalkIsConf
  <2>2. Len(Path[d]) \in 0..Len(Path[d])
    <3>1. Len(Path[d]) \in Nat
      BY PathAssumption
    <3> QED BY <3>1
  <2> QED BY <2>1, <2>2 DEF IsWalk, PerDirConfig
<1>6. Peek(h) = interps[h] /\ \A g \in Hosts : interps[g] \in InterpObject
  BY <1>1, <1>3 DEF IInv, TypeOK, ChildInv, Made, Peek
<1> DEFINE new == RunningScripts(GetConf(crec[h], rdc))
<1>7. GetConf(crec[h], rdc) \in Conf /\ new \in Running
  <2>1. PICK base : base = CopyConfig(crec[h], Zeroed)
    OBVIOUS
  <2>2. base \in Conf
    BY <1>3, <2>1, CopyFacts
  <2>3. GetConf(crec[h], rdc) = MergeDirConfigVars(base, crec[h], rdc)
    BY <2>1 DEF GetConf
  <2>4. MergeDirConfigVars(base, crec[h], rdc) \in Conf
    <3> DEFINE texts == [s \in Script |-> IF s \in MergedScript
                             THEN Selected(crec[h].script[s], rdc.script[s]) ELSE base.script[s]]
    <3>1. texts \in [Script -> Seq(TextItem)]
      BY <1>3, <1>5, <2>2 DEF Selected, Conf
    <3>2. MergeDirConfigVars(base, crec[h], rdc) =
              [base EXCEPT !.script = texts, !.upload = SelectDir(crec[h].upload, rdc.upload),
                           !.path = SelectDir(crec[h].path, rdc.path), !.user = rdc.user]
      BY DEF MergeDirConfigVars
    <3>3. /\ SelectDir(crec[h].upload, rdc.upload) \in Names \cup {"default", None}
          /\ SelectDir(crec[h].path, rdc.path) \in Dirs \cup {None} /\ rdc.user \in BOOLEAN
      BY <1>3, <1>5 DEF Conf, SelectDir
    <3> HIDE DEF texts
    <3> QED BY <2>2, <3>1, <3>2, <3>3 DEF Conf
  <2>5. GetConf(crec[h], rdc) \in Conf
    BY <2>3, <2>4
  <2> QED BY <2>5, RunningFacts
<1>8. new # None
  BY <1>7, NullAssumption
<1>9. /\ interps' \in [Hosts -> InterpObject \cup {None}]
      /\ \A g \in Hosts : /\ interps'[g] # None /\ interps'[g].tcl = interps[g].tcl
                          /\ interps'[g].scripts = interps[g].scripts
      /\ \A g \in Hosts, p \in Dirs : interps'[g].perDir[p] =
             IF g = h /\ p = rdc.path /\ interps[h].perDir[p] = None THEN new ELSE interps[g].perDir[p]
  <2>0. interps \in [Hosts -> InterpObject \cup {None}]
    BY DEF IInv, TypeOK
  <2>1. CASE rdc.path # None /\ interps[h].perDir[rdc.path] = None
    <3>1. rdc.path \in Dirs
      BY <1>5, <2>1 DEF Conf
    <3>2. interps' = [interps EXCEPT ![h].perDir[rdc.path] = new]
      BY <1>1, <1>3, <1>6, <2>1 DEF StorePerDir
    <3> HIDE DEF new
    <3> DEFINE obj == [interps[h] EXCEPT !.perDir[rdc.path] = new]
               kept == [interps[h].perDir EXCEPT ![rdc.path] = new]
    <3>3. kept \in [Dirs -> Running \cup {None}]
          /\ \A p \in Dirs : kept[p] = IF p = rdc.path THEN new ELSE interps[h].perDir[p]
      BY <1>6, <1>7, <3>1 DEF InterpObject
    <3>4. obj = [interps[h] EXCEPT !.perDir = kept]
      OBVIOUS
    <3> HIDE DEF kept
    <3>5. obj \in InterpObject /\ obj.tcl = interps[h].tcl /\ obj.scripts = interps[h].scripts
          /\ obj.perDir = kept
      BY <1>6, <3>3, <3>4 DEF InterpObject
    <3>6. interps' = [interps EXCEPT ![h] = obj]
      BY <3>2
    <3> HIDE DEF obj
    <3>7. /\ interps' \in [Hosts -> InterpObject \cup {None}] /\ interps'[h] = obj
          /\ \A g \in Hosts : g # h => interps'[g] = interps[g]
      BY <2>0, <3>5, <3>6
    <3>8. \A g \in Hosts : interps[g] # None
      BY <1>6, ObjectAssumption
    <3>9. obj # None
      BY <3>5, ObjectAssumption
    <3> QED BY <2>1, <3>3, <3>5, <3>7, <3>8, <3>9
  <2>2. CASE ~(rdc.path # None /\ interps[h].perDir[rdc.path] = None)
    <3>1. interps' = interps
      BY <1>1, <1>6, <2>2 DEF StorePerDir
    <3>2. \A p \in Dirs : p # None
      BY NullAssumption
    <3>3. \A g \in Hosts : interps[g] # None
      BY <1>6, ObjectAssumption
    <3> HIDE DEF new
    <3> QED BY <2>0, <2>2, <3>1, <3>2, <3>3
  <2> QED BY <2>1, <2>2
<1> QED BY <1>1, <1>2, <1>4, <1>5, <1>6, <1>7, <1>9

LEMMA RequestStep == ASSUME IInv, NEW h \in Hosts, NEW d \in Dirs, Request(h, d) PROVE IInv'
<1>1. PICK rdc : rdc = PerDirConfig(h, d)
  OBVIOUS
<1>2. edits' = edits /\ edits \in [UserDirs -> 0..MaxEdits]
  BY <1>1, RequestFacts DEF IInv, TypeOK
<1> QED BY <1>1, <1>2, RequestFacts, ServingStep

(* IInv holds in every state of the server's life, through readings of the   *)
(* file, restarts, children and requests.                                    *)
THEOREM LifecycleInvariant == Spec => []IInv
<1>1. Init => IInv
  BY Initially
<1>2. IInv /\ [Next]_vars => IInv'
  <2> SUFFICES ASSUME IInv, [Next]_vars PROVE IInv'
    OBVIOUS
  <2>1. CASE InitGlobals
    BY <2>1, InitGlobalsStep
  <2>2. CASE ReadConfig
    BY <2>2, ReadConfigStep
  <2>3. CASE ServerInitFirst
    BY <2>3, ServerInitFirstStep
  <2>4. CASE ServerInit
    BY <2>4, ServerInitStep
  <2>5. CASE Restart
    BY <2>5, RestartStep
  <2>6. CASE ChildInit
    BY <2>6, ChildInitStep
  <2>7. CASE ThreadStart
    BY <2>7, ThreadStartStep
  <2>8. CASE VHostInterp
    BY <2>8, VHostInterpStep
  <2>9. CASE ChildInitScripts
    BY <2>9, RunChildScriptStep DEF ChildInitScripts
  <2>10. CASE \E byScript \in BOOLEAN : ChildEnds(byScript)
    BY <2>10, ChildEndsStep
  <2>11. CASE ChildExitScripts
    BY <2>11, RunChildScriptStep DEF ChildExitScripts
  <2>12. CASE ChildGone
    BY <2>12, ChildGoneStep
  <2>13. CASE \E d \in UserDirs : EditUserConf(d)
    BY <2>13, EditUserConfStep
  <2>14. CASE \E h \in Hosts, d \in Dirs : Request(h, d)
    BY <2>14, RequestStep
  <2>15. CASE UNCHANGED vars
    <3> USE <2>15 DEF vars, parentVars, childVars, memory
    <3>1. FileInv' /\ ReadingInv' /\ RecordsInv' /\ MasterInv'
      BY DEF IInv, FileInv, ReadingInv, RecordsInv, MasterInv
    <3>2. TypeOK'
      BY DEF IInv, TypeOK
    <3>3. ChildInv'
      BY DEF IInv, ChildInv, Made, TclOf, ChildRecords
    <3>4. LogInv'
      BY DEF IInv, LogInv, InitPos, ExitPos, TclOf
    <3> QED BY <3>1, <3>2, <3>3, <3>4 DEF IInv
  <2> QED BY <2>1, <2>2, <2>3, <2>4, <2>5, <2>6, <2>7, <2>8, <2>9, <2>10, <2>11, <2>12,
             <2>13, <2>14, <2>15 DEF Next
<1> QED BY <1>1, <1>2, PTL DEF Spec

(* The type invariant of the lifecycle: the places the server and its child  *)
(* can be in, records that know no path but their own section's, indexes     *)
(* that lead to an object.                                                   *)
THEOREM TypeCorrect == Spec => []TypeOK
<1>1. IInv => TypeOK
  BY DEF IInv
<1> QED BY <1>1, LifecycleInvariant, PTL

(* Rivet_ChildInit gives every server an index of its own, and               *)
(* Rivet_VirtualHostsInterps puts its object there: RIVET_PEEK_INTERP finds  *)
(* for each virtual host the interpreter made for it.                        *)
THEOREM EachHostIndexed == Spec => []VHostsIndexed
<1>1. IInv => VHostsIndexed
  <2> SUFFICES ASSUME IInv, child \in {"init", "serving", "exit"}, NEW h \in Hosts
               PROVE  /\ Peek(h) # None /\ Peek(h).tcl = IF globals.separate THEN h ELSE Root
                      /\ \A g \in Hosts \ {h} : crec[g].idx # crec[h].idx
    BY DEF VHostsIndexed
  <2>1. \A g \in Hosts : crec[g].idx = g
    BY ChildFacts
  <2>2. Made(h)
    BY DEF IInv, ChildInv
  <2> QED BY <2>1, <2>2 DEF Peek, Made, TclOf
<1> QED BY <1>1, LifecycleInvariant, PTL

(* How often a text that is in the log of a host at one place was evaluated. *)
LEMMA EvaluatedOnce ==
    ASSUME NEW h, NEW t \in TextItem, LogOnce(evald[h])
    PROVE  /\ Evaluated(h, t) \in {0, 1}
           /\ (\E n \in DOMAIN evald[h] : Item(evald[h], n, t)) => Evaluated(h, t) = 1
<1> DEFINE S == {n \in DOMAIN evald[h] : \E k \in DOMAIN evald[h][n] : evald[h][n][k] = t}
<1>1. Evaluated(h, t) = Cardinality(S)
  BY DEF Evaluated
<1>2. \A n \in S : Item(evald[h], n, t)
  BY DEF Item
<1>3. \A n, m \in S : n = m
  BY <1>2 DEF LogOnce
<1>4. CASE S = {}
  <2>1. Cardinality(S) = 0
    BY <1>4, FS_EmptySet
  <2>2. ~\E n \in DOMAIN evald[h] : Item(evald[h], n, t)
    BY <1>4 DEF Item
  <2> HIDE DEF S
  <2> QED BY <1>1, <2>1, <2>2
<1>5. CASE S # {}
  <2>1. PICK n : n \in S
    BY <1>5
  <2>2. S = {n}
    BY <2>1, <1>3
  <2> HIDE DEF S
  <2>3. Cardinality(S) = 1
    BY <2>2, FS_Singleton
  <2> QED BY <1>1, <2>3
<1> QED BY <1>4, <1>5

(* Rivet_PerInterpInit and Rivet_RunChildScripts, over interpreters that are *)
(* inherited or made, shared or apart, and over records that are merged,     *)
(* copied or the root's own: an interpreter is initialised once and first,   *)
(* no line of the file is evaluated twice in it, and when the child serves   *)
(* every ChildInitScript has run in its host's.                              *)
THEOREM EachScriptOnce == Spec => []InitScriptsOnce
<1>1. IInv => InitScriptsOnce
  <2> SUFFICES ASSUME IInv PROVE InitScriptsOnce
    OBVIOUS
  <2>0. /\ RivetInit[1] \in TextItem /\ RivetInit = <<RivetInit[1]>>
        /\ \A i \in DOMAIN file : Text(i) \in TextItem
    BY DEF IInv, FileInv, RivetInit, TextItem, Text
  <2>1. ASSUME NEW h \in Hosts PROVE LogOnce(evald[h])
    <3>1. CASE child \in {"none", "thread"}
      <4>1. evald[h] = <<>>
        BY <3>1 DEF IInv, ChildInv, NoTexts
      <4> QED BY <4>1 DEF LogOnce
    <3>2. CASE child \notin {"none", "thread"}
      BY <3>2 DEF IInv, LogInv
    <3> QED BY <3>1, <3>2
  <2>2. \A h \in Hosts : \A i \in DOMAIN file : Evaluated(h, Text(i)) <= 1
    <3> SUFFICES ASSUME NEW h \in Hosts, NEW i \in DOMAIN file PROVE Evaluated(h, Text(i)) <= 1
      OBVIOUS
    <3>1. Evaluated(h, Text(i)) \in {0, 1}
      BY <2>0, <2>1, EvaluatedOnce
    <3> QED BY <3>1
  <2>3. \A h \in Hosts : Evaluated(h, RivetInit[1]) <= 1 /\ (evald[h] # <<>> => evald[h][1] = RivetInit)
    <3> SUFFICES ASSUME NEW h \in Hosts
                 PROVE  Evaluated(h, RivetInit[1]) <= 1 /\ (evald[h] # <<>> => evald[h][1] = RivetInit)
      OBVIOUS
    <3>1. Evaluated(h, RivetInit[1]) \in {0, 1}
      BY <2>0, <2>1, EvaluatedOnce
    <3>2. evald[h] # <<>> => evald[h][1] = RivetInit
      BY <2>1 DEF LogOnce
    <3> QED BY <3>1, <3>2
  <2>4. ASSUME child = "serving", NEW h \in Hosts
        PROVE  /\ evald[Peek(h).tcl] # <<>>
               /\ \A i \in LinesOf(h) :
                      file[i].var = "ChildInitScript" => Evaluated(Peek(h).tcl, Text(i)) = 1
    <3>1. Peek(h).tcl = TclOf(h) /\ TclOf(h) \in Hosts
      <4>1. Made(h)
        BY <2>4 DEF IInv, ChildInv
      <4>2. crec[h].idx = h /\ TclOf(h) \in Hosts
        BY <2>4, ChildFacts
      <4> QED BY <4>1, <4>2 DEF Peek, Made
    <3>2. /\ evald[TclOf(h)] # <<>>
          /\ \A i \in ServerLines(file, h, "ChildInitScript") :
                 \E n \in DOMAIN evald[TclOf(h)] : Item(evald[TclOf(h)], n, Text(i))
      <4>1. h < VHosts + 1 /\ InitPos = VHosts + 1
        BY <2>4, LifecycleAssumption DEF Hosts, InitPos
      <4> QED BY <2>4, <4>1 DEF IInv, LogInv
    <3>3. \A i \in LinesOf(h) : file[i].var = "ChildInitScript" => i \in ServerLines(file, h, "ChildInitScript")
      <4> SUFFICES ASSUME NEW i \in LinesOf(h), file[i].var = "ChildInitScript"
                   PROVE  i \in ServerLines(file, h, "ChildInitScript")
        OBVIOUS
      <4>1. i \in DOMAIN file /\ file[i].host = h /\ file[i] \in Directives
        BY DEF LinesOf, IInv, FileInv
      <4>2. file[i].kind = "server"
        BY <4>1, DirectiveAssumption DEF Script, MergedScript, SectionScript
      <4> QED BY <4>1, <4>2 DEF ServerLines
    <3>4. ASSUME NEW i \in LinesOf(h), file[i].var = "ChildInitScript"
          PROVE  Evaluated(Peek(h).tcl, Text(i)) = 1
      <4>1. Text(i) \in TextItem
        BY <2>0 DEF LinesOf
      <4>2. \E n \in DOMAIN evald[TclOf(h)] : Item(evald[TclOf(h)], n, Text(i))
        BY <3>2, <3>3, <3>4
      <4>3. LogOnce(evald[TclOf(h)])
        BY <3>1, <2>1
      <4> QED BY <3>1, <4>1, <4>2, <4>3, EvaluatedOnce
    <3> QED BY <3>1, <3>2, <3>4
  <2> QED BY <2>2, <2>3, <2>4 DEF InitScriptsOnce
<1> QED BY <1>1, LifecycleInvariant, PTL
-----------------------------------------------------------------------------
(* The scripts of a place, told from the file.                               *)

(* The path of a directory ends there and begins with the paths above.       *)
LEMMA PathFacts ==
    ASSUME NEW d \in Dirs
    PROVE  /\ Path[d] \in Seq(Dirs) /\ Len(Path[d]) \in Nat /\ Len(Path[d]) > 0
           /\ Path[d][Len(Path[d])] = d
           /\ \A k \in 1..Len(Path[d]) : Path[d][k] \in Dirs /\ Path[Path[d][k]] = SubSeq(Path[d], 1, k)
<1>1. Path[d] \in Seq(Dirs) /\ Path[d] # <<>> /\ Path[d][Len(Path[d])] = d
  BY PathAssumption
<1>2. Len(Path[d]) \in Nat /\ Len(Path[d]) > 0 /\ \A k \in 1..Len(Path[d]) : Path[d][k] \in Dirs
  BY <1>1
<1>3. \A k \in 1..Len(Path[d]) : Path[Path[d][k]] = SubSeq(Path[d], 1, k)
  BY PathAssumption
<1> QED BY <1>1, <1>2, <1>3

SameWay(w1, w2, d, e, m) ==
    \A i \in 1..m : Path[d][i] = Path[e][i] /\ (Path[d][i] \in UserDirs => w1[Path[d][i]] = w2[Path[d][i]])

(* Walks that meet the same directories and files leave the same records.    *)
LEMMA WalksAgree ==
    ASSUME NEW sec, NEW w1, NEW w2, NEW h \in Hosts, NEW d \in Dirs, NEW e \in Dirs,
           NEW g1, IsWalk(g1, sec, w1, h, d), NEW g2, IsWalk(g2, sec, w2, h, e),
           NEW m \in Nat, m <= Len(Path[d]), m <= Len(Path[e]),
           SameWay(w1, w2, d, e, m)
    PROVE  g1[m] = g2[m]
<1> DEFINE T == {k \in 0..m : g1[k] = g2[k]}
<1>1. 0 \in T
  BY DEF IsWalk
<1>2. \A k \in 0..m : k \in T /\ k < m => k + 1 \in T
  <2> SUFFICES ASSUME NEW k \in 0..m, k \in T, k < m PROVE k + 1 \in T
    OBVIOUS
  <2>1. k + 1 \in 1..m /\ k + 1 \in 0..m /\ (k + 1) - 1 = k
    OBVIOUS
  <2>2. Len(Path[d]) \in Nat /\ Len(Path[e]) \in Nat
    BY PathFacts
  <2>3. k + 1 \in 1..Len(Path[d]) /\ k + 1 \in 1..Len(Path[e])
    BY <2>1, <2>2
  <2>4. /\ g1[k + 1] = EnterDir(sec, w1, h, g1[k], Path[d][k + 1])
        /\ g2[k + 1] = EnterDir(sec, w2, h, g2[k], Path[e][k + 1])
    BY <2>1, <2>3 DEF IsWalk
  <2>5. PICK dir : dir = Path[d][k + 1]
    OBVIOUS
  <2>6. dir = Path[e][k + 1] /\ (dir \in UserDirs => w1[dir] = w2[dir])
    BY <2>1, <2>5 DEF SameWay
  <2>7. Htaccess(w1, dir) = Htaccess(w2, dir)
    BY <2>6 DEF Htaccess
  <2>8. \A conf : EnterDir(sec, w1, h, conf, dir) = EnterDir(sec, w2, h, conf, dir)
    BY <2>7 DEF EnterDir
  <2>9. g1[k] = g2[k]
    OBVIOUS
  <2> QED BY <2>1, <2>4, <2>5, <2>6, <2>8, <2>9
<1>3. m \in T
  <2>1. m \in 0..m
    OBVIOUS
  <2> HIDE DEF T
  <2> QED BY <1>1, <1>2, <2>1, Induction
<1> QED BY <1>3

(* Where the path of a walk's record comes from, and what came after it.     *)
PathAt(g, d, k) ==
    g[k].path # None =>
        \E m \in 1..k :
            /\ Path[d][m] = g[k].path /\ Configured(g[k].path)
            /\ g[k] = g[m] \/ (g[k].user /\ \E n \in (m + 1)..k : UserPlace(Path[d][n]))

(* Where a walk ends: its record's path is on the way, and a record without  *)
(* a path is a user's or defines nothing.                                    *)
LEMMA WalkPlaces ==
    ASSUME file \in Seq(Directives), NEW sec, SectionsOK(sec), NEW written \in [UserDirs -> Nat],
           NEW h \in Hosts, NEW d \in Dirs, NEW g, IsWalk(g, sec, written, h, d),
           NEW c, c = g[Len(Path[d])]
    PROVE  /\ c \in Conf /\ PathAt(g, d, Len(Path[d]))
           /\ c.path = None => c.user \/ Blank(c)
<1> DEFINE n == Len(Path[d])
           T == {k \in 0..n : PathAt(g, d, k) /\ (g[k].path = None => g[k].user \/ Blank(g[k]))}
<1>1. n \in Nat /\ \A k \in 1..n : Path[d][k] \in Dirs
  BY PathFacts
<1>2. /\ g \in [0..n -> Conf] /\ g[0] = CreateDirConfig
      /\ \A k \in 1..n : g[k] = EnterDir(sec, written, h, g[k - 1], Path[d][k])
  BY DEF IsWalk
<1> HIDE DEF n
<1>3. 0 \in T
  <2>1. g[0].path = None /\ \A s \in Script : g[0].script[s] = <<>>
    BY <1>2, NewRecords
  <2>2. Blank(g[0])
    BY <2>1 DEF Blank, RequestScript, Script, MergedScript
  <2> QED BY <1>1, <2>1, <2>2 DEF PathAt
<1>4. \A k \in 0..n : k \in T /\ k < n => k + 1 \in T
  <2> SUFFICES ASSUME NEW k \in 0..n, k \in T, k < n PROVE k + 1 \in T
    OBVIOUS
  <2>1. k + 1 \in 1..n /\ k + 1 \in 0..n /\ (k + 1) - 1 = k /\ k \in Nat
    BY <1>1
  <2>2. PICK conf, new, dir : conf = g[k] /\ new = g[k + 1] /\ dir = Path[d][k + 1]
    OBVIOUS
  <2>3. new = EnterDir(sec, written, h, conf, dir) /\ conf \in Conf /\ dir \in Dirs
    BY <1>1, <1>2, <2>1, <2>2
  <2>4. Entered(new, conf, dir)
    BY <2>3, EnterDirFacts
  <2>5. PathAt(g, d, k) /\ (conf.path = None => conf.user \/ Blank(conf))
    BY <2>2
  <2>6. PathAt(g, d, k + 1)
    <3> SUFFICES ASSUME new.path # None
                 PROVE  \E m \in 1..(k + 1) :
                            /\ Path[d][m] = new.path /\ Configured(new.path)
                            /\ \/ new = g[m]
                               \/ new.user /\ \E j \in (m + 1)..(k + 1) : UserPlace(Path[d][j])
      BY <2>2 DEF PathAt
    <3>1. CASE new.path = dir /\ Configured(dir)
      <4>1. k + 1 \in 1..(k + 1)
        BY <2>1
      <4> QED BY <4>1, <3>1, <2>2
    <3>2. CASE new.path = conf.path /\ (new = conf \/ (new.user /\ UserPlace(dir)))
      <4>1. PICK m \in 1..k :
                /\ Path[d][m] = conf.path /\ Configured(conf.path)
                /\ conf = g[m] \/ (conf.user /\ \E j \in (m + 1)..k : UserPlace(Path[d][j]))
        BY <3>2, <2>2, <2>5 DEF PathAt
      <4>2. m \in 1..(k + 1) /\ k + 1 \in (m + 1)..(k + 1) /\ (m + 1)..k \subseteq (m + 1)..(k + 1)
        BY <2>1
      <4>3. CASE new = conf
        BY <4>1, <4>2, <4>3
      <4>4. CASE new.user /\ UserPlace(dir)
        BY <4>1, <4>2, <4>4, <3>2, <2>2
      <4> QED BY <4>3, <4>4, <3>2
    <3> QED BY <3>1, <3>2, <2>4 DEF Entered
  <2>7. new.path = None => new.user \/ Blank(new)
    BY <2>4, <2>5 DEF Entered
  <2> QED BY <2>1, <2>2, <2>6, <2>7
<1>5. n \in T
  <2>1. n \in 0..n
    BY <1>1
  <2> HIDE DEF T
  <2> QED BY <1>1, <1>3, <1>4, <2>1, Induction
<1> QED BY <1>2, <1>5 DEF n

(* The record of a request is that of the directory it has the path of, when *)
(* no RivetUserConf came after that directory on the way.                    *)
LEMMA PathPlace ==
    ASSUME file \in Seq(Directives), NEW sec, SectionsOK(sec), NEW written \in [UserDirs -> Nat],
           NEW h \in Hosts, NEW d \in Dirs,
           NEW rdc, rdc = DirectoryWalk(sec, written, h, d), rdc.path # None,
           UserAlone \/ ~rdc.user
    PROVE  /\ rdc.path \in Dirs /\ Configured(rdc.path)
           /\ DirectoryWalk(sec, written, h, rdc.path) = rdc
<1>1. PICK g : IsWalk(g, sec, written, h, d) /\ rdc = g[Len(Path[d])]
  BY WalkIsConf
<1> DEFINE n == Len(Path[d])
<1>2. n \in Nat
  BY PathFacts
<1>3. PathAt(g, d, n)
  BY <1>1, WalkPlaces
<1> HIDE DEF n
<1>4. PICK m \in 1..n :
          /\ Path[d][m] = rdc.path /\ Configured(rdc.path)
          /\ rdc = g[m] \/ (rdc.user /\ \E k \in (m + 1)..n : UserPlace(Path[d][k]))
  BY <1>1, <1>3 DEF PathAt, n
<1>5. rdc = g[m]
  <2> SUFFICES ASSUME rdc.user, NEW k \in (m + 1)..n, UserPlace(Path[d][k]) PROVE FALSE
    BY <1>4
  <2>1. k \in 1..n /\ m \in 1..n /\ k # m
    BY <1>2
  <2> QED BY <2>1, <1>4 DEF UserAlone, n
<1> DEFINE p == Path[d][m]
<1>6. p \in Dirs /\ Path[p] = SubSeq(Path[d], 1, m) /\ Path[d] \in Seq(Dirs)
  BY <1>4, PathFacts DEF n
<1>7. Len(Path[p]) = m /\ \A i \in 1..m : Path[p][i] = Path[d][i]
  <2> HIDE DEF p
  <2> QED BY <1>2, <1>4, <1>6 DEF n
<1>8. PICK g2 : IsWalk(g2, sec, written, h, p) /\ DirectoryWalk(sec, written, h, p) = g2[m]
  BY <1>6, <1>7, WalkIsConf
<1>9. g[m] = g2[m]
  <2>1. m \in Nat /\ m <= Len(Path[d]) /\ m <= Len(Path[p])
    BY <1>2, <1>4, <1>7 DEF n
  <2>2. SameWay(written, written, d, p, m)
    BY <1>7 DEF SameWay
  <2> HIDE DEF p
  <2> QED BY <2>1, <2>2, <1>1, <1>6, <1>8, WalksAgree
<1> QED BY <1>4, <1>5, <1>6, <1>8, <1>9

(* Writing an .htaccess file changes the records of the directories below it *)
(* only, and marks that of its own directory.                                *)
LEMMA WalkAfterEdit ==
    ASSUME file \in Seq(Directives), NEW sec, SectionsOK(sec), NEW written \in [UserDirs -> Nat],
           NEW h \in Hosts, NEW p \in Dirs, NEW u \in UserDirs, Configured(p), UserAlone,
           NEW after, after = [written EXCEPT ![u] = @ + 1]
    PROVE  \/ DirectoryWalk(sec, after, h, p) = DirectoryWalk(sec, written, h, p)
           \/ DirectoryWalk(sec, after, h, p).user
<1> DEFINE n == Len(Path[p])
<1>1. n \in Nat /\ n > 0 /\ Path[p][n] = p
  BY PathFacts
<1>2. after \in [UserDirs -> Nat]
  OBVIOUS
<1>3. PICK g1 : IsWalk(g1, sec, written, h, p) /\ DirectoryWalk(sec, written, h, p) = g1[n]
  BY WalkIsConf
<1>4. PICK g2 : IsWalk(g2, sec, after, h, p) /\ DirectoryWalk(sec, after, h, p) = g2[n]
  BY <1>2, WalkIsConf
<1> HIDE DEF n
<1>5. CASE \E i \in 1..n : Path[p][i] = u
  <2>1. PICK i \in 1..n : Path[p][i] = u
    BY <1>5
  <2>2. UserPlace(Path[p][i]) /\ Configured(Path[p][n]) /\ n \in 1..n
    BY <1>1, <2>1 DEF UserPlace
  <2>3. i = n
    BY <2>1, <2>2 DEF UserAlone, n
  <2>4. p = u
    BY <1>1, <2>1, <2>3
  <2>5. after[p] > 0
    BY <2>4
  <2>6. g2[n] = EnterDir(sec, after, h, g2[n - 1], p) /\ g2[n - 1] \in Conf
    <3>1. n \in 1..n /\ n - 1 \in 0..n
      BY <1>1
    <3> QED BY <1>1, <1>4, <3>1 DEF IsWalk, n
  <2>7. g2[n].user
    BY <1>2, <2>4, <2>5, <2>6, EnterDirFacts
  <2> QED BY <1>4, <2>7
<1>6. CASE ~\E i \in 1..n : Path[p][i] = u
  <2>1. \A i \in 1..n : Path[p][i] \in UserDirs => after[Path[p][i]] = written[Path[p][i]]
    BY <1>6
  <2>2. g1[n] = g2[n]
    <3>1. n \in Nat /\ n <= Len(Path[p]) /\ SameWay(written, after, p, p, n)
      BY <1>1, <2>1 DEF n, SameWay
    <3> QED BY <3>1, <1>3, <1>4, WalksAgree
  <2> QED BY <1>3, <1>4, <2>2
<1> QED BY <1>5, <1>6

(* A script of a walk's record is the text of the closest place that defines *)
(* it among those the walk has come by.                                      *)
TextClosest(g, defs, h, d, written, s, k) ==
    \/ \E p \in defs :
          /\ p[1] <= k /\ \A q \in defs : q[1] <= k => Closer(p, q)
          /\ g[k].script[s] = TextAt(h, Path[d][p[1]], written, s, p[2])
    \/ g[k].script[s] = <<>> /\ \A q \in defs : q[1] > k

(* A walk ends with the scripts of the closest definitions on its way.       *)
LEMMA WalkTexts ==
    ASSUME file \in Seq(Directives), NEW sec, SectionsOK(sec), NEW written \in [UserDirs -> Nat],
           NEW h \in Hosts, NEW d \in Dirs, NEW g, IsWalk(g, sec, written, h, d),
           NEW s \in RequestScript, NEW defs, defs = Definitions(h, d, written, s)
    PROVE  TextClosest(g, defs, h, d, written, s, Len(Path[d]))
<1> DEFINE n == Len(Path[d])
           C(k) == TextClosest(g, defs, h, d, written, s, k)
           T == {k \in 0..n : C(k)}
<1>1. n \in Nat /\ \A k \in 1..n : Path[d][k] \in Dirs
  BY PathFacts
<1>2. /\ g \in [0..n -> Conf] /\ g[0] = CreateDirConfig
      /\ \A k \in 1..n : g[k] = EnterDir(sec, written, h, g[k - 1], Path[d][k])
  BY DEF IsWalk
<1>3. \A q : q \in defs <=>
          /\ q \in (1..n) \X (1..3)
          /\ TextAt(h, Path[d][q[1]], written, s, q[2]) # <<>>
  BY DEF Definitions
<1> HIDE DEF n
<1>4. 0 \in T
  <2>1. g[0].script[s] = <<>>
    BY <1>2, NewRecords DEF RequestScript, Script, MergedScript
  <2>2. \A q \in defs : q[1] > 0
    BY <1>1, <1>3
  <2> QED BY <1>1, <2>1, <2>2 DEF TextClosest
<1>5. \A k \in 0..n : k \in T /\ k < n => k + 1 \in T
  <2> SUFFICES ASSUME NEW k \in 0..n, k \in T, k < n PROVE k + 1 \in T
    OBVIOUS
  <2>1. k + 1 \in 1..n /\ k + 1 \in 0..n /\ (k + 1) - 1 = k /\ k \in Nat
    BY <1>1
  <2>2. C(k)
    OBVIOUS
  <2>3. PICK dir, conf, new : dir = Path[d][k + 1] /\ conf = g[k] /\ new = g[k + 1]
    OBVIOUS
  <2>4. new = EnterDir(sec, written, h, conf, dir) /\ conf \in Conf /\ dir \in Dirs
    BY <1>1, <1>2, <2>1, <2>3
  <2>5. PICK c1 \in Conf, c2 \in Conf :
            /\ TextsSelected(c1, conf, h, dir, written, 1)
            /\ TextsSelected(c2, c1, h, dir, written, 2)
            /\ TextsSelected(new, c2, h, dir, written, 3)
    BY <2>4, EnterDirFacts
  <2>6. PICK t1, t2, t3 : /\ t1 = TextAt(h, dir, written, s, 1) /\ t2 = TextAt(h, dir, written, s, 2)
                          /\ t3 = TextAt(h, dir, written, s, 3)
    OBVIOUS
  <2>7. new.script[s] = IF t3 # <<>> THEN t3 ELSE IF t2 # <<>> THEN t2
                        ELSE IF t1 # <<>> THEN t1 ELSE conf.script[s]
    BY <2>5, <2>6 DEF TextsSelected, Selected
  <2>8. /\ <<k + 1, 1>> \in defs <=> t1 # <<>>
        /\ <<k + 1, 2>> \in defs <=> t2 # <<>>
        /\ <<k + 1, 3>> \in defs <=> t3 # <<>>
    BY <1>3, <2>1, <2>3, <2>6
  <2>9. \A q \in defs : /\ q[1] \in 1..n /\ q[2] \in 1..3
                        /\ q[1] = k + 1 => q = <<k + 1, q[2]>>
    BY <1>3
  <2>11. ASSUME NEW q \in defs, q[1] = k + 1
         PROVE  \/ q[2] = 1 /\ t1 # <<>>
                \/ q[2] = 2 /\ t2 # <<>>
                \/ q[2] = 3 /\ t3 # <<>>
    <3>1. q = <<k + 1, q[2]>> /\ q[2] \in {1, 2, 3}
      BY <2>9, <2>11
    <3>2. \/ <<k + 1, 1>> \in defs /\ q[2] = 1
          \/ <<k + 1, 2>> \in defs /\ q[2] = 2
          \/ <<k + 1, 3>> \in defs /\ q[2] = 3
      BY <3>1, <2>11
    <3> QED BY <3>2, <2>8
  <2>10. C(k + 1)
    <3>1. ASSUME NEW r \in 1..3, NEW t, t # <<>>, t = TextAt(h, dir, written, s, r), new.script[s] = t,
                 <<k + 1, r>> \in defs,
                 \A q \in defs : q[1] = k + 1 => q[2] <= r
          PROVE  C(k + 1)
      <4> DEFINE p == <<k + 1, r>>
      <4>1. p[1] = k + 1 /\ p[2] = r /\ p \in defs
        BY <3>1
      <4>2. ASSUME NEW q \in defs, q[1] <= k + 1 PROVE Closer(p, q)
        <5>1. q[1] \in Nat /\ (q[1] = k + 1 \/ q[1] < k + 1) /\ q[2] \in 1..3
          BY <2>1, <2>9, <4>2
        <5> HIDE DEF p
        <5> QED BY <5>1, <3>1, <4>1, <2>1 DEF Closer
      <4>3. g[k + 1].script[s] = TextAt(h, Path[d][p[1]], written, s, p[2])
        BY <3>1, <4>1, <2>3
      <4> HIDE DEF p
      <4> QED BY <2>1, <4>1, <4>2, <4>3 DEF TextClosest
    <3>2. CASE t3 # <<>>
      <4>1. \A q \in defs : q[2] <= 3
        BY <2>9
      <4> QED BY <3>1, <3>2, <4>1, <2>6, <2>7, <2>8
    <3>3. CASE t3 = <<>> /\ t2 # <<>>
      <4>1. \A q \in defs : q[1] = k + 1 => q[2] <= 2
        BY <2>11, <3>3
      <4> QED BY <3>1, <3>3, <4>1, <2>6, <2>7, <2>8
    <3>4. CASE t3 = <<>> /\ t2 = <<>> /\ t1 # <<>>
      <4>1. \A q \in defs : q[1] = k + 1 => q[2] <= 1
        BY <2>11, <3>4
      <4> QED BY <3>1, <3>4, <4>1, <2>6, <2>7, <2>8
    <3>5. CASE t3 = <<>> /\ t2 = <<>> /\ t1 = <<>>
      <4>1. \A q \in defs : q[1] # k + 1
        BY <2>11, <3>5
      <4>2. \A q \in defs : (q[1] <= k + 1 <=> q[1] <= k) /\ (q[1] > k + 1 <=> q[1] > k)
        BY <2>1, <2>9, <4>1
      <4>3. new.script[s] = conf.script[s]
        BY <2>7, <3>5
      <4> QED BY <2>1, <2>2, <2>3, <4>2, <4>3 DEF TextClosest
    <3> QED BY <3>2, <3>3, <3>4, <3>5
  <2> QED BY <2>1, <2>10
<1>6. n \in T
  <2>1. n \in 0..n
    BY <1>1
  <2> HIDE DEF T
  <2> QED BY <1>1, <1>4, <1>5, <2>1, Induction
<1> QED BY <1>6 DEF n

(* What Rivet_GetConf has a request run is what the file says of its place.  *)
LEMMA GetConfIsPlace ==
    ASSUME IInv, child # "none", NEW written \in [UserDirs -> Nat],
           NEW h \in Hosts, NEW d \in Dirs, NEW rdc, rdc = DirectoryWalk(section, written, h, d),
           NEW s \in RequestScript
    PROVE  /\ GetConf(crec[h], rdc).script[s] = Selected(crec[h].script[s], rdc.script[s])
           /\ GetConf(crec[h], rdc).script[s] = OfPlace(h, d, written, s)
<1>1. /\ phase = "up" /\ file \in Seq(Directives) /\ Root \in Hosts
      /\ crec[h] \in Conf /\ s \in Script /\ s \in MergedScript
      /\ s \notin {"ChildInitScript", "ChildExitScript"}
      /\ crec[h].script[s] = HostScript(file, h, s)
  <2>1. s \in Script /\ s \in MergedScript /\ s \notin {"ChildInitScript", "ChildExitScript"}
    BY DEF RequestScript, SectionScript, Script, MergedScript
  <2> QED BY <2>1, ChildFacts
<1>2. SectionsOK(section)
  BY <1>1 DEF IInv, TypeOK, RecordsInv, SectionsOK
<1>3. PICK g : IsWalk(g, section, written, h, d) /\ rdc = g[Len(Path[d])]
  BY <1>1, <1>2, WalkIsConf
<1>4. GetConf(crec[h], rdc).script[s] = Selected(crec[h].script[s], rdc.script[s])
  <2>1. PICK base : base = CopyConfig(crec[h], Zeroed)
    OBVIOUS
  <2>2. base \in Conf
    BY <1>1, <2>1, CopyFacts
  <2> DEFINE texts == [x \in Script |-> IF x \in MergedScript
                           THEN Selected(crec[h].script[x], rdc.script[x]) ELSE base.script[x]]
  <2>3. GetConf(crec[h], rdc) =
            [base EXCEPT !.script = texts, !.upload = SelectDir(crec[h].upload, rdc.upload),
                         !.path = SelectDir(crec[h].path, rdc.path), !.user = rdc.user]
    BY <2>1 DEF GetConf, MergeDirConfigVars
  <2>4. texts[s] = Selected(crec[h].script[s], rdc.script[s])
    BY <1>1
  <2> HIDE DEF texts
  <2>5. GetConf(crec[h], rdc).script = texts
    BY <2>2, <2>3 DEF Conf
  <2> QED BY <2>4, <2>5
<1>5. crec[h].script[s] = OfServer(h, s)
  <2>1. \A k \in Hosts : OwnText(file, k, s) = ServerText(k, s)
    BY DEF OwnText, ServerText
  <2>2. CASE h = Root
    BY <1>1, <2>1, <2>2 DEF HostScript, OfServer
  <2>3. CASE h # Root /\ HostSeen(file, h, Len(file))
    BY <1>1, <2>1, <2>3 DEF HostScript, OfServer, Selected
  <2>4. CASE h # Root /\ ~HostSeen(file, h, Len(file))
    <3>1. ServerLines(file, h, s) = {}
      BY <2>4 DEF HostSeen, ServerLines
    <3>2. ServerText(h, s) = <<>>
      <4>1. \A own \in SUBSET DOMAIN file : LinesText(file, own) = <<>> <=> own = {}
        BY <1>1, LinesTextFacts
      <4> QED BY <3>1, <4>1 DEF ServerText
    <3> QED BY <1>1, <2>1, <2>4, <3>2 DEF HostScript, OfServer
  <2> QED BY <2>2, <2>3, <2>4
<1>6. PICK defs : defs = Definitions(h, d, written, s)
  OBVIOUS
<1>7. TextClosest(g, defs, h, d, written, s, Len(Path[d]))
  BY <1>1, <1>2, <1>3, <1>6, WalkTexts
<1>8. \A q \in defs : /\ q[1] \in 1..Len(Path[d]) /\ q[2] \in 1..3 /\ q = <<q[1], q[2]>>
                      /\ TextAt(h, Path[d][q[1]], written, s, q[2]) # <<>>
  BY <1>6 DEF Definitions
<1>9. Len(Path[d]) \in Nat
  BY PathFacts
<1>10. CASE defs = {}
  <2>1. rdc.script[s] = <<>>
    BY <1>3, <1>7, <1>10 DEF TextClosest
  <2> QED BY <1>4, <1>5, <1>6, <1>10, <2>1 DEF OfPlace, Selected
<1>11. CASE defs # {}
  <2>1. PICK p \in defs :
            /\ \A q \in defs : Closer(p, q)
            /\ rdc.script[s] = TextAt(h, Path[d][p[1]], written, s, p[2])
    <3>1. \A q \in defs : q[1] <= Len(Path[d]) /\ ~(q[1] > Len(Path[d]))
      BY <1>8, <1>9
    <3> QED BY <3>1, <1>3, <1>7, <1>11 DEF TextClosest
  <2>2. Closest(defs) = p
    <3>1. PICK c : c = Closest(defs)
      OBVIOUS
    <3>2. c \in defs /\ \A q \in defs : Closer(c, q)
      BY <2>1, <3>1 DEF Closest
    <3>3. Closer(c, p) /\ Closer(p, c)
      BY <2>1, <3>2
    <3>4. c[1] = p[1] /\ c[2] = p[2]
      <4>1. /\ c[1] \in 1..Len(Path[d]) /\ c[2] \in 1..3 /\ p[1] \in 1..Len(Path[d]) /\ p[2] \in 1..3
        BY <1>8, <3>2
      <4> QED BY <1>9, <3>3, <4>1 DEF Closer
    <3>5. c = <<c[1], c[2]>> /\ p = <<p[1], p[2]>>
      BY <1>8, <3>2
    <3> QED BY <3>1, <3>4, <3>5
  <2>3. rdc.script[s] # <<>>
    BY <2>1, <1>8
  <2>4. OfPlace(h, d, written, s) = TextAt(h, Path[d][p[1]], written, s, p[2])
    BY <1>6, <1>11, <2>2 DEF OfPlace
  <2> QED BY <1>4, <2>1, <2>3, <2>4 DEF Selected
<1> QED BY <1>4, <1>10, <1>11
-----------------------------------------------------------------------------
(* What is kept for a directory, and what the last request ran and saw.      *)

(* What ::rivet::inspect answers is, for every script, the text of the       *)
(* definition closest to the directory of the request.                       *)
InspectsClosest ==
    last # None =>
        last.inspect = [s \in RequestScript |-> OfPlace(last.host, last.dir, last.edits, s)]

(* The scripts kept for a directory are those its records make up, or its    *)
(* records have since got a RivetUserConf, and nobody looks at what is kept. *)
CacheInv ==
    \A h \in Hosts, p \in Dirs :
        interps[h] # None /\ interps[h].perDir[p] # None =>
            /\ Configured(p)
            /\ \/ DirectoryWalk(section, edits, h, p).user
               \/ interps[h].perDir[p] =
                      RunningScripts(GetConf(crec[h], DirectoryWalk(section, edits, h, p)))

(* What a place defines depends on the file alone.                           *)
LEMMA SameFile ==
    ASSUME file' = file, NEW h, NEW d, NEW written, NEW s
    PROVE  OfPlace(h, d, written, s)' = OfPlace(h, d, written, s)
<1>1. \A g, e : SectionText(g, e, s)' = SectionText(g, e, s)
  BY DEF SectionText
<1>2. \A g : ServerText(g, s)' = ServerText(g, s)
  BY DEF ServerText
<1>3. OfServer(h, s)' = OfServer(h, s)
  BY <1>2 DEF OfServer
<1>4. \A e, r : TextAt(h, e, written, s, r)' = TextAt(h, e, written, s, r)
  BY <1>1 DEF TextAt
<1>5. Definitions(h, d, written, s)' = Definitions(h, d, written, s)
  BY <1>4 DEF Definitions
<1> QED BY <1>3, <1>4, <1>5 DEF OfPlace

(* Requests answer from the closest definitions, other steps leave the file  *)
(* and the last request alone or forget it.                                  *)
LEMMA InspectsClosestStep == IInv /\ InspectsClosest /\ [Next]_vars => InspectsClosest'
<1> SUFFICES ASSUME IInv, InspectsClosest, [Next]_vars PROVE InspectsClosest'
  OBVIOUS
<1>1. CASE file' = file /\ last' = None
  BY <1>1 DEF InspectsClosest
<1>2. CASE file' = file /\ last' = last
  <2> SUFFICES ASSUME last # None
               PROVE  last'.inspect =
                          [s \in RequestScript |-> OfPlace(last.host, last.dir, last.edits, s)']
    BY <1>2 DEF InspectsClosest
  <2>1. PICK h, d, written : h = last.host /\ d = last.dir /\ written = last.edits
    OBVIOUS
  <2>2. \A s : OfPlace(h, d, written, s)' = OfPlace(h, d, written, s)
    BY <1>2, SameFile
  <2> QED BY <1>2, <2>1, <2>2 DEF InspectsClosest
<1>3. ASSUME NEW h \in Hosts, NEW d \in Dirs, Request(h, d)
      PROVE  InspectsClosest'
  <2>1. PICK rdc, written : rdc = PerDirConfig(h, d) /\ written = edits
    OBVIOUS
  <2>2. child = "serving" /\ file' = file
    BY <1>3 DEF Request, parentVars
  <2>3. PICK seen : seen = [s \in RequestScript |-> GetConf(crec[h], rdc).script[s]]
    OBVIOUS
  <2>4. last'.host = h /\ last'.dir = d /\ last'.edits = written /\ last'.inspect = seen
    BY <1>3, <2>1, <2>3 DEF Request, Inspected
  <2>5. written \in [UserDirs -> Nat] /\ rdc = DirectoryWalk(section, written, h, d)
    BY <2>1 DEF IInv, TypeOK, PerDirConfig
  <2>6. \A s \in RequestScript : GetConf(crec[h], rdc).script[s] = OfPlace(h, d, written, s)
    BY <2>2, <2>5, GetConfIsPlace
  <2>7. \A s : OfPlace(h, d, written, s)' = OfPlace(h, d, written, s)
    BY <2>2, SameFile
  <2> QED BY <2>3, <2>4, <2>6, <2>7 DEF InspectsClosest
<1> USE DEF parentVars, childVars, memory
<1>4. file' = file
  BY DEF Next, vars, InitGlobals, ReadConfig, ServerInitFirst, ServerInit, Restart, ChildInit,
         ThreadStart, VHostInterp, ChildInitScripts, ChildEnds, ChildExitScripts, ChildGone,
         EditUserConf, Request
<1>5. CASE ~\E h \in Hosts, d \in Dirs : Request(h, d)
  <2>1. last' = last \/ last' = None
    BY <1>5 DEF Next, vars, InitGlobals, ReadConfig, ServerInitFirst, ServerInit, Restart,
           ChildInit, ThreadStart, VHostInterp, RunChildScript, ChildInitScripts, ChildEnds,
           ChildExitScripts, ChildGone, EditUserConf, Forget
  <2> QED BY <1>1, <1>2, <1>4, <2>1
<1> QED BY <1>3, <1>5

(* Whatever the configuration holds, RivetUserConf in nested directories     *)
(* included, ::rivet::inspect answers from the definitions closest to the    *)
(* directory of the request: the merges of servers and of directories and    *)
(* the copy of the root's record lose none and prefer none wrongly.          *)
THEOREM InspectSeesClosest == Spec => []InspectsClosest
<1>1. Init => InspectsClosest
  BY DEF Init, InspectsClosest
<1> QED BY <1>1, InspectsClosestStep, LifecycleInvariant, PTL DEF Spec

(* No script kept for a directory is one its records no longer make up.      *)
LEMMA CacheStep ==
    ASSUME UserAlone, IInv, CacheInv, [Next]_vars
    PROVE  CacheInv'
<1> USE DEF parentVars, childVars, memory
<1>1. ASSUME NEW h \in Hosts, NEW d \in Dirs, Request(h, d)
      PROVE  CacheInv'
  <2>1. PICK rdc : rdc = PerDirConfig(h, d)
    OBVIOUS
  <2>2. /\ UNCHANGED <<section, edits, crec, child>> /\ child = "serving" /\ SectionsOK(section)
        /\ edits \in [UserDirs -> Nat]
        /\ \A g \in Hosts : interps[g] # None
        /\ \A g \in Hosts, p \in Dirs : interps'[g].perDir[p] =
               IF g = h /\ p = rdc.path /\ interps[h].perDir[p] = None
               THEN RunningScripts(GetConf(crec[h], rdc)) ELSE interps[g].perDir[p]
    <3>1. child = "serving"
      BY <1>1 DEF Request
    <3>2. \A g \in Hosts : interps[g] # None
      BY <3>1 DEF IInv, ChildInv, Made
    <3> QED BY <1>1, <2>1, <3>2, RequestFacts
  <2>3. file \in Seq(Directives)
    BY DEF IInv, FileInv
  <2> SUFFICES ASSUME NEW g \in Hosts, NEW p \in Dirs, interps'[g].perDir[p] # None
               PROVE  /\ Configured(p)
                      /\ \/ DirectoryWalk(section, edits, g, p).user
                         \/ interps'[g].perDir[p] =
                                RunningScripts(GetConf(crec[g], DirectoryWalk(section, edits, g, p)))
    BY <2>2 DEF CacheInv
  <2>4. CASE interps[g].perDir[p] # None
    BY <2>2, <2>4 DEF CacheInv
  <2>5. CASE interps[g].perDir[p] = None
    <3>1. g = h /\ p = rdc.path /\ interps'[g].perDir[p] = RunningScripts(GetConf(crec[h], rdc))
      BY <2>2, <2>5
    <3>2. rdc = DirectoryWalk(section, edits, h, d) /\ rdc.path # None
      BY <2>1, <3>1, NullAssumption DEF PerDirConfig
    <3>3. Configured(p) /\ DirectoryWalk(section, edits, h, p) = rdc
      <4>1. Configured(rdc.path) /\ DirectoryWalk(section, edits, h, rdc.path) = rdc
        BY <2>2, <2>3, <3>2, PathPlace
      <4> QED BY <3>1, <4>1
    <3> QED BY <3>1, <3>3
  <2> QED BY <2>4, <2>5
<1>2. ASSUME NEW u \in UserDirs, EditUserConf(u)
      PROVE  CacheInv'
  <2>1. UNCHANGED <<file, section, crec, interps, child>> /\ child = "serving"
        /\ edits' = [edits EXCEPT ![u] = @ + 1]
    BY <1>2 DEF EditUserConf
  <2>2. phase = "up" /\ file \in Seq(Directives)
    BY <2>1, ChildFacts
  <2>3. SectionsOK(section) /\ edits \in [UserDirs -> Nat]
    BY <2>2 DEF IInv, TypeOK, RecordsInv, SectionsOK
  <2>4. PICK sec, written, after : sec = section /\ written = edits /\ after = edits'
    OBVIOUS
  <2>5. ASSUME NEW h \in Hosts, NEW p \in Dirs, Configured(p)
        PROVE  \/ DirectoryWalk(sec, after, h, p) = DirectoryWalk(sec, written, h, p)
               \/ DirectoryWalk(sec, after, h, p).user
    BY <2>1, <2>2, <2>3, <2>4, <2>5, WalkAfterEdit
  <2> QED BY <2>1, <2>4, <2>5 DEF CacheInv
<1>3. CASE VHostInterp
  <2>1. /\ child = "hosts" /\ UNCHANGED <<section, edits, crec>>
        /\ interps' = [interps EXCEPT ![crec[pos].idx] =
               [tcl |-> ObjectOf(pos).tcl, scripts |-> RunningScripts(crec[pos]),
                perDir |-> ObjectOf(pos).perDir]]
    BY <1>3 DEF VHostInterp
  <2>2. \A p \in Dirs : ObjectOf(pos).perDir[p] = None
    BY DEF ObjectOf, NewVHostInterp, DuplicateVHostInterp, NoPerDir
  <2>3. pos \in Hosts /\ crec[pos].idx = pos /\ interps \in [Hosts -> InterpObject \cup {None}]
    <3>1. pos \in Hosts
      BY DEF IInv, TypeOK
    <3> QED BY <2>1, <3>1, ChildFacts DEF IInv, TypeOK
  <2>4. \A h \in Hosts, p \in Dirs :
            interps'[h] # None /\ interps'[h].perDir[p] # None => interps'[h] = interps[h]
    BY <2>1, <2>2, <2>3
  <2> QED BY <2>1, <2>4 DEF CacheInv
<1>4. CASE interps' = NoInterps
  BY <1>4 DEF CacheInv, NoInterps
<1>5. CASE UNCHANGED <<interps, section, edits, crec>>
  BY <1>5 DEF CacheInv
<1>6. child \in {"none", "thread"} => interps = NoInterps
  BY DEF IInv, ChildInv
<1>7. phase # "up" => child = "none"
  BY DEF IInv, ChildInv
<1>8. CASE InitGlobals \/ ReadConfig \/ ServerInitFirst \/ ServerInit \/ Restart
  BY <1>4, <1>6, <1>7, <1>8 DEF InitGlobals, ReadConfig, ServerInitFirst, ServerInit, Restart
<1>9. CASE ChildInit \/ ThreadStart
  BY <1>4, <1>6, <1>9 DEF ChildInit, ThreadStart
<1>10. CASE \/ ChildInitScripts \/ ChildExitScripts \/ ChildGone
            \/ \E byScript \in BOOLEAN : ChildEnds(byScript)
  BY <1>4, <1>5, <1>10
     DEF ChildInitScripts, ChildExitScripts, ChildGone, ChildEnds, RunChildScript, Forget
<1>11. CASE UNCHANGED vars
  BY <1>5, <1>11 DEF vars
<1> QED BY <1>1, <1>2, <1>3, <1>8, <1>9, <1>10, <1>11 DEF Next

(* A request runs what is kept for its directory, or what is made for it:    *)
(* either way what ::rivet::inspect answers it.                              *)
LEMMA RunsInspected ==
    ASSUME IInv, CacheInv, child = "serving", NEW h \in Hosts, NEW d \in Dirs,
           NEW rdc, rdc = PerDirConfig(h, d)
    PROVE  RunningOf(h, rdc) = Inspected(h, rdc)
<1>1. /\ phase = "up" /\ file \in Seq(Directives) /\ crec[h] \in Conf /\ crec[h].idx = h
  BY ChildFacts
<1>2. SectionsOK(section) /\ edits \in [UserDirs -> Nat]
  BY <1>1 DEF IInv, TypeOK, RecordsInv, SectionsOK
<1>3. Peek(h) = interps[h] /\ interps[h] # None /\ interps[h].scripts = RunningScripts(crec[h])
  BY <1>1 DEF IInv, ChildInv, Made, Peek
<1>4. Inspected(h, rdc) = RunningScripts(GetConf(crec[h], rdc))
  BY DEF Inspected, RunningScripts
<1>5. rdc = DirectoryWalk(section, edits, h, d)
  BY DEF PerDirConfig
<1>6. CASE ~rdc.user /\ rdc.path = None
  <2>1. PICK g : IsWalk(g, section, edits, h, d) /\ rdc = g[Len(Path[d])]
    BY <1>1, <1>2, <1>5, WalkIsConf
  <2>2. Blank(rdc)
    BY <2>1, <1>1, <1>2, <1>6, WalkPlaces
  <2>3. \A s \in RequestScript : GetConf(crec[h], rdc).script[s] = crec[h].script[s]
    <3>1. \A s \in RequestScript :
              GetConf(crec[h], rdc).script[s] = Selected(crec[h].script[s], rdc.script[s])
      BY <1>2, <1>5, GetConfIsPlace
    <3> QED BY <2>2, <3>1 DEF Blank, Selected
  <2>4. RunningOf(h, rdc) = RunningScripts(crec[h])
    BY <1>3, <1>6 DEF RunningOf
  <2> QED BY <1>4, <2>3, <2>4 DEF RunningScripts
<1>7. CASE ~rdc.user /\ rdc.path # None
  <2>1. rdc.path \in Dirs /\ DirectoryWalk(section, edits, h, rdc.path) = rdc
    BY <1>1, <1>2, <1>5, <1>7, PathPlace
  <2>2. interps[h].perDir[rdc.path] # None =>
            interps[h].perDir[rdc.path] = RunningScripts(GetConf(crec[h], rdc))
    BY <1>3, <1>7, <2>1 DEF CacheInv
  <2> QED BY <1>3, <1>4, <1>7, <2>2 DEF RunningOf
<1> QED BY <1>4, <1>6, <1>7 DEF RunningOf

(* ::rivet::inspect answers a request with the scripts the request runs,     *)
(* those kept by path from earlier requests included, if no directory that   *)
(* has a RivetUserConf lies above or below a configured one.                 *)
THEOREM InspectIsTrue ==
    ASSUME UserAlone PROVE Spec => []InspectTruth
<1>1. Init => CacheInv /\ InspectTruth
  BY DEF Init, CacheInv, InspectTruth, NoInterps
<1>2. IInv /\ CacheInv /\ InspectTruth /\ [Next]_vars => CacheInv' /\ InspectTruth'
  <2> SUFFICES ASSUME IInv, CacheInv, InspectTruth, [Next]_vars PROVE InspectTruth'
    BY CacheStep
  <2> USE DEF parentVars, childVars, memory
  <2>1. ASSUME NEW h \in Hosts, NEW d \in Dirs, Request(h, d) PROVE InspectTruth'
    <3>1. PICK rdc : rdc = PerDirConfig(h, d)
      OBVIOUS
    <3>2. child = "serving" /\ last'.scripts = RunningOf(h, rdc) /\ last'.inspect = Inspected(h, rdc)
      BY <2>1, <3>1 DEF Request
    <3> QED BY <3>1, <3>2, RunsInspected DEF InspectTruth
  <2>2. CASE ~\E h \in Hosts, d \in Dirs : Request(h, d)
    <3>1. last' = last \/ last' = None
      BY <2>2 DEF Next, vars, InitGlobals, ReadConfig, ServerInitFirst, ServerInit, Restart,
             ChildInit, ThreadStart, VHostInterp, RunChildScript, ChildInitScripts, ChildEnds,
             ChildExitScripts, ChildGone, EditUserConf, Forget
    <3> QED BY <3>1 DEF InspectTruth
  <2> QED BY <2>1, <2>2
<1> QED BY <1>1, <1>2, LifecycleInvariant, PTL DEF Spec

(* A request runs, for every script, the text of the definition closest to   *)
(* its directory - through the merges, the copy of the root's record and the *)
(* scripts kept by path - under the same condition on RivetUserConf.         *)
THEOREM ClosestDefinitionRuns ==
    ASSUME UserAlone PROVE Spec => []ClosestWins
<1>1. InspectsClosest /\ InspectTruth => ClosestWins
  BY DEF InspectsClosest, InspectTruth, ClosestWins
<1> QED BY <1>1, InspectSeesClosest, InspectIsTrue, PTL
=============================================================================
