--------------------------- MODULE LazyBridgeProofs ---------------------------
(* Theorems about the lazy bridge for every number of handlers, threads,     *)
(* virtual hosts and rounds of the finaliser, for both settings of           *)
(* SingleThreadExit, for threads that cannot be created and for stops at any *)
(* moment.                                                                   *)
EXTENDS LazyBridge, FiniteSetTheorems, SequenceTheorems, TLAPS

Waits(h, w) == hpc[h] = "wait" /\ hobj[h] = w

(* A worker that pushed itself: nobody has given it anything since but,      *)
(* perhaps, the order to exit.                                               *)
Resting(w) == /\ wpc[w] \in {"test", "waitInit", "leave", "decr", "gone"}
              /\ status[w] \in {"idle", "thread_exit"}
              /\ status[w] = "thread_exit" => shutdown

(* A handler holds a record of its own virtual host exactly while its        *)
(* request is given to it, and no other handler holds it.  A finaliser holds *)
(* one between its pop and its order; a worker finalises from inside `exit`  *)
(* only, and the array does not shrink below what a finaliser read of it.    *)
Links ==
    /\ \A h \in Handler : hobj[h] # None <=> hpc[h] \in {"post", "wait"}
    /\ \A h \in Handler : hobj[h] # None => server[hobj[h]] = hvhost[h]
    /\ \A h1, h2 \in Handler : hobj[h1] = hobj[h2] /\ hobj[h1] # None => h1 = h2
    /\ \A c \in Caller : fobj[c] # None <=> fpc[c] = "tell"
    /\ \A c \in Caller : fpc[c] # "none" => shutdown
    /\ \A w \in Worker : fpc[w] # "none" => wpc[w] = "finalize"
    /\ \A c \in Caller : fpc[c] = "take" => fn[c] \in 1..Len(elts[fidx[c]])

(* What was ever pushed and not popped rests, on the array of its own        *)
(* virtual host, in no handler's hands; until the child stops the array has  *)
(* it once and has no garbage.                                               *)
Arrays ==
    \A v \in VHost :
        /\ \A i \in 1..Len(elts[v]) :
              /\ server[elts[v][i]] = v /\ Resting(elts[v][i])
              /\ \A h \in Handler : hobj[h] # elts[v][i]
        /\ ~shutdown => /\ nelts[v] = Len(elts[v])
                        /\ \A i, j \in 1..Len(elts[v]) : elts[v][i] = elts[v][j] => i = j

(* What a finaliser popped rests too.                                        *)
Popped ==
    \A c \in Caller : fobj[c] # None =>
        Resting(fobj[c]) /\ \A h \in Handler : hobj[h] # fobj[c]

(* What the place of a handler says about the record it holds.               *)
HandlersInv ==
    /\ \A h \in Handler : hpc[h] = "post" =>
          /\ status[hobj[h]] = "idle"
          /\ wpc[hobj[h]] \notin {"none", "serve", "finalize", "waitTaken", "push"}
    /\ \A h \in Handler : hpc[h] = "wait" =>
          /\ req[hobj[h]] = h
          /\ \/ /\ status[hobj[h]] = "init"
                /\ wpc[hobj[h]] \notin {"none", "serve", "finalize", "waitTaken", "push", "test"}
             \/ status[hobj[h]] = "processing" /\ wpc[hobj[h]] \in {"serve", "finalize"}
             \/ status[hobj[h]] = "done" /\ wpc[hobj[h]] = "waitTaken"

(* What the place of a worker says about its record and who holds it.        *)
Starting == {"start", "alloc", "conf", "count", "lock"}
WorkersInv ==
    \A w \in Worker :
        /\ wpc[w] # "none" => server[w] \in VHost
        /\ wpc[w] \in Starting => \E h \in Handler : hobj[h] = w
        /\ wpc[w] \in {"serve", "finalize"} =>
              status[w] = "processing" /\ \E h \in Handler : Waits(h, w)
        /\ wpc[w] = "waitTaken" =>
              \/ status[w] = "done" /\ \E h \in Handler : Waits(h, w)
              \/ status[w] = "idle" /\ \A h \in Handler : hobj[h] # w
        /\ wpc[w] = "push" => status[w] = "idle" /\ \A h \in Handler : hobj[h] # w
        /\ wpc[w] \notin {"serve", "finalize", "waitTaken"} =>
              /\ status[w] \in {"idle", "init", "thread_exit"}
              /\ status[w] = "init" => \E h \in Handler : Waits(h, w)

NoneLost == ~shutdown => \A w \in Worker : Asleep(w) => Findable(w)

(* threads_count; the threads that count are finitely many.                  *)
CountedOf(v) == {w \in Worker : server[w] = v /\ Counted(w)}
CountInv == \A v \in VHost : IsFiniteSet(CountedOf(v)) /\ count[v] = Cardinality(CountedOf(v))

(* The inductive invariant.                                                  *)
IInv == /\ TypeOK /\ Links /\ Arrays /\ Popped /\ HandlersInv /\ WorkersInv /\ NoneLost
        /\ CountInv
-----------------------------------------------------------------------------
LEMMA ElementsAreWorkers ==
    ASSUME TypeOK
    PROVE  \A v \in VHost : Len(elts[v]) \in Nat /\ \A i \in 1..Len(elts[v]) : elts[v][i] \in Worker
BY DEF TypeOK

(* apr_array_push on an array of Len(s) slots, n of them in use.             *)
IsPush(S, s, n, w, t) ==
    /\ t \in Seq(S) /\ Len(t) = IF n = Len(s) THEN n + 1 ELSE Len(s)
    /\ \A i \in 1..Len(t) : t[i] = IF i = n + 1 THEN w ELSE s[i]

LEMMA PushFacts ==
    ASSUME NEW S, NEW s \in Seq(S), NEW n \in 0..Len(s), NEW w \in S
    PROVE  IsPush(S, s, n, w, ArrayPush(s, n, w))
<1> DEFINE a == SubSeq(s, 1, n)
           b == SubSeq(s, n + 2, Len(s))
           m == IF n + 2 <= Len(s) THEN Len(s) - n - 1 ELSE 0
           p == a \o <<w>>
<1>1. Len(s) \in Nat /\ n \in Nat /\ n <= Len(s) /\ \A i \in 1..Len(s) : s[i] \in S
  OBVIOUS
<1>2. a \in Seq(S) /\ Len(a) = n /\ \A i \in 1..n : a[i] = s[i]
  BY <1>1, SubSeqProperties
<1>3. b \in Seq(S) /\ Len(b) = m /\ \A i \in 1..m : b[i] = s[n + 1 + i]
  <2>1. n + 2 \in Int /\ Len(s) \in Int /\ \A i \in (n + 2)..Len(s) : s[i] \in S
    BY <1>1
  <2>2. /\ b \in Seq(S)
        /\ Len(b) = IF n + 2 <= Len(s) THEN Len(s) - (n + 2) + 1 ELSE 0
        /\ \A i \in 1..(Len(s) - (n + 2) + 1) : b[i] = s[(n + 2) + i - 1]
    BY <2>1, SubSeqProperties
  <2> HIDE DEF b
  <2> QED
    BY <1>1, <2>2
<1>m. m \in Nat /\ n + 1 + m = IF n = Len(s) THEN n + 1 ELSE Len(s)
  <2>1. Len(s) \in Nat /\ n \in Nat /\ n <= Len(s)
    BY <1>1
  <2>2. CASE n + 2 <= Len(s)
    <3>1. m = Len(s) - n - 1
      BY <2>2
    <3> HIDE DEF m
    <3> QED
      BY <2>1, <2>2, <3>1
  <2>3. CASE ~(n + 2 <= Len(s))
    <3>1. m = 0
      BY <2>3
    <3> HIDE DEF m
    <3>2. n = Len(s) \/ n + 1 = Len(s)
      BY <2>1, <2>3
    <3> QED
      BY <2>1, <3>1, <3>2
  <2> QED
    BY <2>2, <2>3
<1> HIDE DEF m
<1>4. p \in Seq(S) /\ Len(p) = n + 1 /\ \A i \in 1..(n + 1) : p[i] = IF i <= n THEN a[i] ELSE w
  <2> HIDE DEF a
  <2>1. <<w>> \in Seq(S) /\ Len(<<w>>) = 1 /\ <<w>>[1] = w
    OBVIOUS
  <2> QED
    BY <1>1, <1>2, <2>1, ConcatProperties
<1> HIDE DEF a, b, p
<1>5. /\ p \o b \in Seq(S) /\ Len(p \o b) = n + 1 + m
      /\ \A i \in 1..(n + 1 + m) : (p \o b)[i] = IF i <= n + 1 THEN p[i] ELSE b[i - (n + 1)]
  <2>1. /\ p \o b \in Seq(S) /\ Len(p \o b) = Len(p) + Len(b)
        /\ \A i \in 1..(Len(p) + Len(b)) : (p \o b)[i] = IF i <= Len(p) THEN p[i] ELSE b[i - Len(p)]
    BY <1>3, <1>4, ConcatProperties
  <2> QED
    BY <1>3, <1>4, <2>1
<1>6. ASSUME NEW i \in 1..(n + 1 + m)
      PROVE  (p \o b)[i] = IF i = n + 1 THEN w ELSE s[i]
  <2>1. CASE i <= n
    BY <1>1, <1>m, <1>2, <1>4, <1>5, <2>1
  <2>2. CASE i = n + 1
    BY <1>1, <1>m, <1>4, <1>5, <2>2
  <2>3. CASE i > n + 1
    <3>1. i - (n + 1) \in 1..m /\ n + 1 + (i - (n + 1)) = i
      BY <1>1, <1>m, <2>3
    <3> QED
      <4>1. (p \o b)[i] = b[i - (n + 1)]
        BY <1>1, <1>5, <2>3
      <4>2. b[i - (n + 1)] = s[n + 1 + (i - (n + 1))]
        BY <1>3, <3>1
      <4> QED
        BY <1>1, <2>3, <3>1, <4>1, <4>2
  <2> QED
    <3>1. i \in Int /\ n \in Int
      BY <1>1, <1>m
    <3>2. i <= n \/ i = n + 1 \/ i > n + 1
      BY <3>1
    <3> QED
      BY <2>1, <2>2, <2>3, <3>2
<1>7. ArrayPush(s, n, w) = p \o b
  BY DEF ArrayPush, a, b, p
<1> QED
  BY <1>m, <1>5, <1>6, <1>7 DEF IsPush

(* Nothing changes for the counters while no thread enters or leaves the     *)
(* part of its life that counts.                                             *)
LEMMA CountSame ==
    ASSUME CountInv, count' = count,
           \A w \in Worker : /\ Counted(w)' <=> Counted(w)
                             /\ Counted(w) => server'[w] = server[w]
    PROVE  CountInv'
<1>1. ASSUME NEW v \in VHost PROVE CountedOf(v)' = CountedOf(v)
  BY DEF CountedOf
<1> QED
  BY <1>1 DEF CountInv

(* The finaliser begins, and the worker threads.                            *)

LEMMA MainFinalizeStep ==
    ASSUME IInv, MainFinalize
    PROVE  IInv'
<1>1. TypeOK'
  BY DEF IInv, TypeOK, Status, WorkerPc, MainFinalize, vhostVars, objVars, wrkVars, hndVars,
       finVars
<1>2. Links'
  BY IdentitiesAssumption DEF IInv, Links, TypeOK, Caller, MainFinalize, vhostVars, objVars,
       wrkVars, hndVars, finVars
<1>3. Arrays'
  BY DEF IInv, Arrays, Resting, MainFinalize, vhostVars, objVars, wrkVars, hndVars, finVars
<1>4. Popped'
  BY DEF IInv, Popped, Resting, MainFinalize, vhostVars, objVars, wrkVars, hndVars, finVars
<1>5. HandlersInv'
  BY DEF IInv, HandlersInv, MainFinalize, vhostVars, objVars, wrkVars, hndVars, finVars
<1>6. WorkersInv'
  BY DEF IInv, WorkersInv, Starting, Waits, MainFinalize, vhostVars, objVars, wrkVars, hndVars,
       finVars
<1>7. NoneLost'
  BY DEF IInv, NoneLost, Asleep, Findable, Idle, MainFinalize, vhostVars, objVars, wrkVars,
       hndVars, finVars
<1>8. CountInv'
  BY CountSame DEF IInv, Counted, MainFinalize, vhostVars, objVars, wrkVars, hndVars, finVars
<1> QED
  BY <1>1, <1>2, <1>3, <1>4, <1>5, <1>6, <1>7, <1>8 DEF IInv

LEMMA WorkerStartStep ==
    ASSUME IInv, NEW w \in Worker, WorkerStart(w)
    PROVE  IInv'
<1>1. TypeOK'
  BY DEF IInv, TypeOK, Status, WorkerPc, WorkerStart, WorkerMove, vhostVars, objVars, wrkVars,
       hndVars, finVars
<1>2. Links'
  BY DEF IInv, Links, WorkerStart, WorkerMove, vhostVars, objVars, wrkVars, hndVars, finVars
<1>3. Arrays'
  BY DEF IInv, Arrays, Resting, WorkerStart, WorkerMove, vhostVars, objVars, wrkVars, hndVars,
       finVars
<1>4. Popped'
  BY DEF IInv, Popped, Resting, WorkerStart, WorkerMove, vhostVars, objVars, wrkVars, hndVars,
       finVars
<1>5. HandlersInv'
  BY DEF IInv, HandlersInv, WorkerStart, WorkerMove, vhostVars, objVars, wrkVars, hndVars,
       finVars
<1>6. WorkersInv'
  BY DEF IInv, WorkersInv, Starting, Waits, WorkerStart, WorkerMove, vhostVars, objVars, wrkVars,
       hndVars, finVars
<1>7. NoneLost'
  BY DEF IInv, NoneLost, Asleep, Findable, Idle, WorkerStart, WorkerMove, vhostVars, objVars,
       wrkVars, hndVars, finVars
<1>8. CountInv'
  BY CountSame DEF IInv, Counted, WorkerStart, WorkerMove, vhostVars, objVars, wrkVars, hndVars,
       finVars
<1> QED
  BY <1>1, <1>2, <1>3, <1>4, <1>5, <1>6, <1>7, <1>8 DEF IInv

LEMMA WorkerAllocStep ==
    ASSUME IInv, NEW w \in Worker, WorkerAlloc(w)
    PROVE  IInv'
<1>1. TypeOK'
  BY DEF IInv, TypeOK, Status, WorkerPc, WorkerAlloc, WorkerMove, vhostVars, objVars, wrkVars,
       hndVars, finVars
<1>2. Links'
  BY DEF IInv, Links, WorkerAlloc, WorkerMove, vhostVars, objVars, wrkVars, hndVars, finVars
<1>3. Arrays'
  BY DEF IInv, Arrays, Resting, WorkerAlloc, WorkerMove, vhostVars, objVars, wrkVars, hndVars,
       finVars
<1>4. Popped'
  BY DEF IInv, Popped, Resting, WorkerAlloc, WorkerMove, vhostVars, objVars, wrkVars, hndVars,
       finVars
<1>5. HandlersInv'
  BY DEF IInv, HandlersInv, WorkerAlloc, WorkerMove, vhostVars, objVars, wrkVars, hndVars,
       finVars
<1>6. WorkersInv'
  BY DEF IInv, WorkersInv, Starting, Waits, WorkerAlloc, WorkerMove, vhostVars, objVars, wrkVars,
       hndVars, finVars
<1>7. NoneLost'
  BY DEF IInv, NoneLost, Asleep, Findable, Idle, WorkerAlloc, WorkerMove, vhostVars, objVars,
       wrkVars, hndVars, finVars
<1>8. CountInv'
  BY CountSame DEF IInv, Counted, WorkerAlloc, WorkerMove, vhostVars, objVars, wrkVars, hndVars,
       finVars
<1> QED
  BY <1>1, <1>2, <1>3, <1>4, <1>5, <1>6, <1>7, <1>8 DEF IInv

LEMMA WorkerConfStep ==
    ASSUME IInv, NEW w \in Worker, WorkerConf(w)
    PROVE  IInv'
<1>1. TypeOK'
  BY DEF IInv, TypeOK, Status, WorkerPc, WorkerConf, WorkerMove, vhostVars, objVars, wrkVars,
       hndVars, finVars
<1>2. Links'
  BY DEF IInv, Links, WorkerConf, WorkerMove, vhostVars, objVars, wrkVars, hndVars, finVars
<1>3. Arrays'
  BY DEF IInv, Arrays, Resting, WorkerConf, WorkerMove, vhostVars, objVars, wrkVars, hndVars,
       finVars
<1>4. Popped'
  BY DEF IInv, Popped, Resting, WorkerConf, WorkerMove, vhostVars, objVars, wrkVars, hndVars,
       finVars
<1>5. HandlersInv'
  BY DEF IInv, HandlersInv, WorkerConf, WorkerMove, vhostVars, objVars, wrkVars, hndVars, finVars
<1>6. WorkersInv'
  BY DEF IInv, WorkersInv, Starting, Waits, WorkerConf, WorkerMove, vhostVars, objVars, wrkVars,
       hndVars, finVars
<1>7. NoneLost'
  BY DEF IInv, NoneLost, Asleep, Findable, Idle, WorkerConf, WorkerMove, vhostVars, objVars,
       wrkVars, hndVars, finVars
<1>8. CountInv'
  BY CountSame DEF IInv, Counted, WorkerConf, WorkerMove, vhostVars, objVars, wrkVars, hndVars,
       finVars
<1> QED
  BY <1>1, <1>2, <1>3, <1>4, <1>5, <1>6, <1>7, <1>8 DEF IInv

LEMMA WorkerConfCrashStep ==
    ASSUME IInv, NEW w \in Worker, WorkerConfCrash(w)
    PROVE  IInv'
<1>1. TypeOK'
  BY DEF IInv, TypeOK, Status, WorkerPc, WorkerConfCrash, vhostVars, objVars, wrkVars, hndVars,
       finVars
<1>2. Links'
  BY DEF IInv, Links, WorkerConfCrash, vhostVars, objVars, wrkVars, hndVars, finVars
<1>3. Arrays'
  BY DEF IInv, Arrays, Resting, WorkerConfCrash, vhostVars, objVars, wrkVars, hndVars, finVars
<1>4. Popped'
  BY DEF IInv, Popped, Resting, WorkerConfCrash, vhostVars, objVars, wrkVars, hndVars, finVars
<1>5. HandlersInv'
  BY DEF IInv, HandlersInv, WorkerConfCrash, vhostVars, objVars, wrkVars, hndVars, finVars
<1>6. WorkersInv'
  BY DEF IInv, WorkersInv, Starting, Waits, WorkerConfCrash, vhostVars, objVars, wrkVars,
       hndVars, finVars
<1>7. NoneLost'
  BY DEF IInv, NoneLost, Asleep, Findable, Idle, WorkerConfCrash, vhostVars, objVars, wrkVars,
       hndVars, finVars
<1>8. CountInv'
  BY CountSame DEF IInv, Counted, WorkerConfCrash, vhostVars, objVars, wrkVars, hndVars, finVars
<1> QED
  BY <1>1, <1>2, <1>3, <1>4, <1>5, <1>6, <1>7, <1>8 DEF IInv

LEMMA WorkerCountStep ==
    ASSUME IInv, NEW w \in Worker, WorkerCount(w)
    PROVE  IInv'
<1>a. /\ wpc[w] = "count" /\ wpc' = [wpc EXCEPT ![w] = "lock"]
      /\ count' = [count EXCEPT ![server[w]] = @ + 1] /\ server' = server
      /\ server[w] \in VHost
  BY DEF WorkerCount, WorkerMove, vhostVars, objVars, wrkVars, hndVars, finVars, IInv, WorkersInv
<1>b. CountedOf(server[w])' = CountedOf(server[w]) \cup {w} /\ w \notin CountedOf(server[w])
  BY <1>a DEF CountedOf, Counted, IInv, TypeOK
<1>c. \A v \in VHost : v # server[w] => CountedOf(v)' = CountedOf(v)
  BY <1>a DEF CountedOf, Counted, IInv, TypeOK
<1>1. TypeOK'
  BY DEF IInv, TypeOK, Status, WorkerPc, WorkersInv, WorkerCount, WorkerMove, vhostVars, objVars,
       wrkVars, hndVars, finVars
<1>2. Links'
  BY DEF IInv, Links, WorkerCount, WorkerMove, vhostVars, objVars, wrkVars, hndVars, finVars
<1>3. Arrays'
  BY DEF IInv, Arrays, Resting, WorkerCount, WorkerMove, vhostVars, objVars, wrkVars, hndVars,
       finVars
<1>4. Popped'
  BY DEF IInv, Popped, Resting, WorkerCount, WorkerMove, vhostVars, objVars, wrkVars, hndVars,
       finVars
<1>5. HandlersInv'
  BY DEF IInv, HandlersInv, WorkerCount, WorkerMove, vhostVars, objVars, wrkVars, hndVars,
       finVars
<1>6. WorkersInv'
  BY DEF IInv, WorkersInv, Starting, Waits, WorkerCount, WorkerMove, vhostVars, objVars, wrkVars,
       hndVars, finVars
<1>7. NoneLost'
  BY DEF IInv, NoneLost, Asleep, Findable, Idle, WorkerCount, WorkerMove, vhostVars, objVars,
       wrkVars, hndVars, finVars
<1>8. CountInv'
  <2>1. /\ IsFiniteSet(CountedOf(server[w])')
        /\ Cardinality(CountedOf(server[w])') = Cardinality(CountedOf(server[w])) + 1
    <3>1. IsFiniteSet(CountedOf(server[w]))
      BY <1>a DEF IInv, CountInv
    <3> QED
      BY <1>b, <3>1, FS_AddElement
  <2> QED
    BY <1>a, <1>c, <2>1 DEF IInv, TypeOK, CountInv
<1> QED
  BY <1>1, <1>2, <1>3, <1>4, <1>5, <1>6, <1>7, <1>8 DEF IInv

LEMMA WorkerSleepStep ==
    ASSUME IInv, NEW w \in Worker, WorkerSleep(w)
    PROVE  IInv'
<1>1. TypeOK'
  BY DEF IInv, TypeOK, Status, WorkerPc, WorkerSleep, AtTop, vhostVars, objVars, wrkVars,
       hndVars, finVars
<1>2. Links'
  BY DEF IInv, Links, WorkerSleep, AtTop, vhostVars, objVars, wrkVars, hndVars, finVars
<1>3. Arrays'
  BY DEF IInv, Arrays, Resting, WorkerSleep, AtTop, vhostVars, objVars, wrkVars, hndVars, finVars
<1>4. Popped'
  BY DEF IInv, Popped, Resting, WorkerSleep, AtTop, vhostVars, objVars, wrkVars, hndVars, finVars
<1>5. HandlersInv'
  BY DEF IInv, HandlersInv, WorkerSleep, AtTop, vhostVars, objVars, wrkVars, hndVars, finVars
<1>6. WorkersInv'
  BY DEF IInv, WorkersInv, Starting, Waits, WorkerSleep, AtTop, vhostVars, objVars, wrkVars,
       hndVars, finVars
<1>7. NoneLost'
  <2>1. /\ AtTop(w) /\ status[w] \notin {"init", "thread_exit"}
        /\ wpc' = [wpc EXCEPT ![w] = "waitInit"]
        /\ UNCHANGED <<shutdown, elts, nelts, status, server, hobj, fobj>>
    BY DEF WorkerSleep, vhostVars, objVars, wrkVars, hndVars, finVars
  <2>2. Findable(w) \/ shutdown
    <3>1. CASE wpc[w] = "lock"
      BY <3>1 DEF IInv, WorkersInv, Starting, Findable
    <3>2. CASE wpc[w] \in {"test", "waitInit"}
      BY <2>1, <3>2 DEF IInv, WorkersInv, NoneLost, Asleep
    <3> QED
      BY <2>1, <3>1, <3>2 DEF AtTop
  <2>3. \A x \in Worker : Findable(x)' <=> Findable(x)
    BY <2>1 DEF Findable, Idle
  <2> QED
    BY <2>1, <2>2, <2>3 DEF IInv, TypeOK, NoneLost, Asleep
<1>8. CountInv'
  BY CountSame DEF IInv, Counted, WorkerSleep, AtTop, vhostVars, objVars, wrkVars, hndVars,
       finVars
<1> QED
  BY <1>1, <1>2, <1>3, <1>4, <1>5, <1>6, <1>7, <1>8 DEF IInv

LEMMA WorkerQuitStep ==
    ASSUME IInv, NEW w \in Worker, WorkerQuit(w)
    PROVE  IInv'
<1>1. TypeOK'
  BY DEF IInv, TypeOK, Status, WorkerPc, WorkerQuit, AtTop, vhostVars, objVars, wrkVars, hndVars,
       finVars
<1>2. Links'
  BY DEF IInv, Links, WorkerQuit, AtTop, vhostVars, objVars, wrkVars, hndVars, finVars
<1>3. Arrays'
  BY DEF IInv, Arrays, Resting, WorkerQuit, AtTop, vhostVars, objVars, wrkVars, hndVars, finVars
<1>4. Popped'
  BY DEF IInv, Popped, Resting, WorkerQuit, AtTop, vhostVars, objVars, wrkVars, hndVars, finVars
<1>5. HandlersInv'
  BY DEF IInv, HandlersInv, WorkerQuit, AtTop, vhostVars, objVars, wrkVars, hndVars, finVars
<1>6. WorkersInv'
  BY DEF IInv, WorkersInv, Starting, Waits, WorkerQuit, AtTop, vhostVars, objVars, wrkVars,
       hndVars, finVars
<1>7. NoneLost'
  BY DEF IInv, NoneLost, Asleep, Findable, Idle, WorkerQuit, AtTop, vhostVars, objVars, wrkVars,
       hndVars, finVars
<1>8. CountInv'
  BY CountSame DEF IInv, Counted, WorkerQuit, AtTop, vhostVars, objVars, wrkVars, hndVars,
       finVars
<1> QED
  BY <1>1, <1>2, <1>3, <1>4, <1>5, <1>6, <1>7, <1>8 DEF IInv

LEMMA WorkerBeginStep ==
    ASSUME IInv, NEW w \in Worker, WorkerBegin(w)
    PROVE  IInv'
<1>1. TypeOK'
  BY DEF IInv, TypeOK, Status, WorkerPc, WorkerBegin, AtTop, vhostVars, objVars, wrkVars,
       hndVars, finVars
<1>2. Links'
  BY DEF IInv, Links, WorkerBegin, AtTop, vhostVars, objVars, wrkVars, hndVars, finVars
<1>3. Arrays'
  BY DEF IInv, Arrays, Resting, WorkerBegin, AtTop, vhostVars, objVars, wrkVars, hndVars, finVars
<1>4. Popped'
  BY DEF IInv, Popped, Resting, WorkerBegin, AtTop, vhostVars, objVars, wrkVars, hndVars, finVars
<1>5. HandlersInv'
  BY DEF IInv, HandlersInv, TypeOK, Links, Starting, WorkerBegin, AtTop, vhostVars, objVars,
       wrkVars, hndVars, finVars
<1>6. WorkersInv'
  BY DEF IInv, WorkersInv, Starting, Waits, TypeOK, Links, Starting, WorkerBegin, AtTop,
       vhostVars, objVars, wrkVars, hndVars, finVars
<1>7. NoneLost'
  BY DEF IInv, NoneLost, Asleep, Findable, Idle, WorkerBegin, AtTop, vhostVars, objVars, wrkVars,
       hndVars, finVars
<1>8. CountInv'
  BY CountSame DEF IInv, Counted, WorkerBegin, AtTop, vhostVars, objVars, wrkVars, hndVars,
       finVars
<1> QED
  BY <1>1, <1>2, <1>3, <1>4, <1>5, <1>6, <1>7, <1>8 DEF IInv

LEMMA WorkerReplyStep ==
    ASSUME IInv, NEW w \in Worker, WorkerReply(w)
    PROVE  IInv'
<1>1. TypeOK'
  BY DEF IInv, TypeOK, Status, WorkerPc, HandlersInv, WorkersInv, Signalled, Waits, WorkerReply,
       WorkerMove, vhostVars, objVars, wrkVars, hndVars, finVars
<1>2. Links'
  BY DEF IInv, Links, WorkerReply, WorkerMove, vhostVars, objVars, wrkVars, hndVars, finVars
<1>3. Arrays'
  BY DEF IInv, Arrays, Resting, WorkerReply, WorkerMove, vhostVars, objVars, wrkVars, hndVars,
       finVars
<1>4. Popped'
  BY DEF IInv, Popped, Resting, WorkerReply, WorkerMove, vhostVars, objVars, wrkVars, hndVars,
       finVars
<1>5. HandlersInv'
  BY DEF IInv, HandlersInv, TypeOK, Links, WorkerReply, WorkerMove, vhostVars, objVars, wrkVars,
       hndVars, finVars
<1>6. WorkersInv'
  BY DEF IInv, WorkersInv, Starting, Waits, TypeOK, Links, WorkerReply, WorkerMove, vhostVars,
       objVars, wrkVars, hndVars, finVars
<1>7. NoneLost'
  BY DEF IInv, NoneLost, Asleep, Findable, Idle, WorkerReply, WorkerMove, vhostVars, objVars,
       wrkVars, hndVars, finVars
<1>8. CountInv'
  BY CountSame DEF IInv, Counted, WorkerReply, WorkerMove, vhostVars, objVars, wrkVars, hndVars,
       finVars
<1> QED
  BY <1>1, <1>2, <1>3, <1>4, <1>5, <1>6, <1>7, <1>8 DEF IInv

LEMMA WorkerResleepStep ==
    ASSUME IInv, NEW w \in Worker, WorkerResleep(w)
    PROVE  IInv'
<1>1. TypeOK'
  BY DEF IInv, TypeOK, Status, WorkerPc, WorkerResleep, Taken, vhostVars, objVars, wrkVars,
       hndVars, finVars
<1>2. Links'
  BY DEF IInv, Links, WorkerResleep, Taken, vhostVars, objVars, wrkVars, hndVars, finVars
<1>3. Arrays'
  BY DEF IInv, Arrays, Resting, WorkerResleep, Taken, vhostVars, objVars, wrkVars, hndVars,
       finVars
<1>4. Popped'
  BY DEF IInv, Popped, Resting, WorkerResleep, Taken, vhostVars, objVars, wrkVars, hndVars,
       finVars
<1>5. HandlersInv'
  BY DEF IInv, HandlersInv, WorkerResleep, Taken, vhostVars, objVars, wrkVars, hndVars, finVars
<1>6. WorkersInv'
  BY DEF IInv, WorkersInv, Starting, Waits, WorkerResleep, Taken, vhostVars, objVars, wrkVars,
       hndVars, finVars
<1>7. NoneLost'
  BY DEF IInv, NoneLost, Asleep, Findable, Idle, WorkerResleep, Taken, vhostVars, objVars,
       wrkVars, hndVars, finVars
<1>8. CountInv'
  BY CountSame DEF IInv, Counted, WorkerResleep, Taken, vhostVars, objVars, wrkVars, hndVars,
       finVars
<1> QED
  BY <1>1, <1>2, <1>3, <1>4, <1>5, <1>6, <1>7, <1>8 DEF IInv

LEMMA WorkerDoneStep ==
    ASSUME IInv, NEW w \in Worker, WorkerDone(w)
    PROVE  IInv'
<1>1. TypeOK'
  BY DEF IInv, TypeOK, Status, WorkerPc, WorkerDone, Taken, vhostVars, objVars, wrkVars, hndVars,
       finVars
<1>2. Links'
  BY DEF IInv, Links, WorkerDone, Taken, vhostVars, objVars, wrkVars, hndVars, finVars
<1>3. Arrays'
  BY DEF IInv, Arrays, Resting, WorkerDone, Taken, vhostVars, objVars, wrkVars, hndVars, finVars
<1>4. Popped'
  BY DEF IInv, Popped, Resting, WorkerDone, Taken, vhostVars, objVars, wrkVars, hndVars, finVars
<1>5. HandlersInv'
  BY DEF IInv, HandlersInv, WorkerDone, Taken, vhostVars, objVars, wrkVars, hndVars, finVars
<1>6. WorkersInv'
  BY DEF IInv, WorkersInv, Starting, Waits, WorkerDone, Taken, vhostVars, objVars, wrkVars,
       hndVars, finVars
<1>7. NoneLost'
  BY DEF IInv, NoneLost, Asleep, Findable, Idle, WorkerDone, Taken, vhostVars, objVars, wrkVars,
       hndVars, finVars
<1>8. CountInv'
  BY CountSame DEF IInv, Counted, WorkerDone, Taken, vhostVars, objVars, wrkVars, hndVars,
       finVars
<1> QED
  BY <1>1, <1>2, <1>3, <1>4, <1>5, <1>6, <1>7, <1>8 DEF IInv

LEMMA WorkerPushStep ==
    ASSUME IInv, NEW w \in Worker, WorkerPush(w)
    PROVE  IInv'
<1>v. PICK v \in VHost : v = server[w]
  BY DEF WorkerPush, WorkerMove, IInv, WorkersInv
<1>n. PICK n \in Nat : n = nelts[v]
  BY DEF IInv, TypeOK
<1>a. /\ wpc[w] = "push" /\ status[w] = "idle" /\ \A h \in Handler : hobj[h] # w
      /\ n \in 0..Len(elts[v]) /\ Len(elts[v]) \in Nat /\ elts[v] \in Seq(Worker)
  BY <1>n, ElementsAreWorkers DEF WorkerPush, WorkerMove, IInv, TypeOK, WorkersInv
<1>b. /\ wpc' = [wpc EXCEPT ![w] = IF keepGoing[w] THEN "test" ELSE "leave"]
      /\ elts' = [elts EXCEPT ![v] = ArrayPush(@, n, w)] /\ nelts' = [nelts EXCEPT ![v] = n + 1]
      /\ UNCHANGED <<shutdown, child, count, status, req, code, conf, server, waiters,
                     keepGoing, hpc, hvhost, hobj, answer, fpc, fidx, ftry, fn, fobj>>
  BY <1>v, <1>n DEF WorkerPush, WorkerMove, vhostVars, objVars, wrkVars, hndVars, finVars
<1>c. /\ elts'[v] \in Seq(Worker) /\ nelts'[v] = n + 1
      /\ Len(elts'[v]) = IF n = Len(elts[v]) THEN n + 1 ELSE Len(elts[v])
      /\ \A i \in 1..Len(elts'[v]) : elts'[v][i] = IF i = n + 1 THEN w ELSE elts[v][i]
  <2>1. elts'[v] = ArrayPush(elts[v], n, w) /\ nelts'[v] = n + 1
    BY <1>a, <1>b DEF IInv, TypeOK
  <2>2. IsPush(Worker, elts[v], n, w, ArrayPush(elts[v], n, w))
    BY <1>a, PushFacts
  <2> QED
    BY <2>1, <2>2 DEF IsPush
<1>d. /\ elts' \in [VHost -> Seq(Worker)] /\ nelts' \in [VHost -> Nat]
      /\ \A u \in VHost : u # v => elts'[u] = elts[u] /\ nelts'[u] = nelts[u]
  BY <1>a, <1>b, <1>c DEF IInv, TypeOK
<1>e. \A u \in VHost : \A i \in 1..Len(elts[u]) : elts[u][i] # w
  BY <1>a DEF IInv, Arrays, Resting
<1>f. \A u \in VHost : nelts[u] \in Nat /\ nelts[u] <= Len(elts[u])
  BY DEF IInv, TypeOK
<1>g. w \in Idle(v)' /\ \A u \in VHost : Idle(u) \subseteq Idle(u)'
  <2>1. ASSUME NEW i \in 1..n PROVE i \in 1..nelts'[v] /\ elts'[v][i] = elts[v][i]
    BY <1>a, <1>c
  <2>2. n + 1 \in 1..nelts'[v] /\ elts'[v][n + 1] = w
    BY <1>a, <1>c
  <2>3. Idle(v) \subseteq Idle(v)' /\ w \in Idle(v)'
    BY <2>1, <2>2, <1>n DEF Idle
  <2>4. ASSUME NEW u \in VHost, u # v PROVE Idle(u)' = Idle(u)
    BY <1>d, <2>4 DEF Idle
  <2> QED
    BY <2>3, <2>4
<1>h. server' = server /\ server[w] = v
  BY <1>b, <1>v
<1>1. TypeOK'
  <2>1. \A u \in VHost : nelts'[u] <= Len(elts'[u])
    <3>1. n + 1 <= Len(elts'[v])
      BY <1>a, <1>c
    <3>2. \A u \in VHost : u # v => nelts'[u] <= Len(elts'[u])
      BY <1>d, <1>f
    <3> QED
      BY <1>c, <3>1, <3>2
  <2> QED
    BY <1>b, <1>d, <2>1 DEF IInv, TypeOK, WorkerPc
<1>2. Links'
  <2>1. \A u \in VHost : /\ Len(elts[u]) \in Nat /\ Len(elts'[u]) \in Nat
                          /\ Len(elts'[u]) >= Len(elts[u])
    <3>1. \A u \in VHost : Len(elts[u]) \in Nat
      BY ElementsAreWorkers DEF IInv
    <3>2. Len(elts'[v]) \in Nat /\ Len(elts'[v]) >= Len(elts[v])
      BY <1>a, <1>c
    <3> QED
      BY <1>d, <3>1, <3>2
  <2>2. \A c \in Caller : fidx[c] \in VHost /\ fn[c] \in Nat
    BY DEF IInv, TypeOK
  <2>3. \A c \in Caller : fpc[c] = "take" => fn[c] \in 1..Len(elts'[fidx[c]])
    BY <2>1, <2>2 DEF IInv, Links
  <2>4. \A x \in Worker : fpc[x] # "none" => wpc'[x] = "finalize"
    BY <1>a, <1>b DEF IInv, Links, TypeOK
  <2> QED
    BY <1>b, <2>3, <2>4 DEF IInv, Links
<1>3. Arrays'
  <2>1. \A x \in Worker : Resting(x) \/ x = w => Resting(x)'
    BY <1>a, <1>b DEF Resting, IInv, TypeOK
  <2>2. ASSUME NEW u \in VHost, NEW i \in 1..Len(elts'[u])
        PROVE  \E x \in Worker : /\ x = elts'[u][i] /\ server'[x] = u /\ Resting(x)'
                                 /\ \A h \in Handler : hobj'[h] # x
    <3>1. CASE u = v /\ i = n + 1
      <4>1. elts'[u][i] = w
        BY <1>c, <3>1
      <4> QED
        BY <1>a, <1>b, <1>h, <2>1, <3>1, <4>1
    <3>2. CASE ~(u = v /\ i = n + 1)
      <4>1. i \in 1..Len(elts[u]) /\ elts'[u][i] = elts[u][i]
        BY <1>a, <1>c, <1>d, <3>2
      <4>2. PICK x \in Worker : x = elts[u][i]
        BY <4>1, ElementsAreWorkers DEF IInv
      <4>3. server[x] = u /\ Resting(x) /\ \A h \in Handler : hobj[h] # x
        BY <4>1, <4>2 DEF IInv, Arrays
      <4> QED
        BY <1>b, <2>1, <4>1, <4>2, <4>3
    <3> QED
      BY <3>1, <3>2
  <2>3. ASSUME ~shutdown', NEW u \in VHost
        PROVE  /\ nelts'[u] = Len(elts'[u])
               /\ \A i, j \in 1..Len(elts'[u]) : elts'[u][i] = elts'[u][j] => i = j
    <3>1. /\ nelts[u] = Len(elts[u])
          /\ \A i, j \in 1..Len(elts[u]) : elts[u][i] = elts[u][j] => i = j
      BY <1>b, <2>3 DEF IInv, Arrays
    <3>2. CASE u # v
      BY <1>d, <3>1, <3>2
    <3>3. CASE u = v
      <4>1. n = Len(elts[v]) /\ Len(elts'[v]) = n + 1
        BY <1>c, <1>n, <3>1, <3>3
      <4>2. \A i \in 1..(n + 1) : i # n + 1 => i \in 1..Len(elts[v]) /\ elts[v][i] # w
        BY <1>a, <1>e, <4>1
      <4>3. \A i, j \in 1..(n + 1) : elts'[v][i] = elts'[v][j] => i = j
        <5>1. ASSUME NEW i \in 1..(n + 1), NEW j \in 1..(n + 1), elts'[v][i] = elts'[v][j], i # j
              PROVE  FALSE
          <6>1. CASE i # n + 1 /\ j # n + 1
            BY <1>c, <3>1, <3>3, <4>1, <4>2, <5>1, <6>1
          <6>2. CASE i = n + 1 \/ j = n + 1
            BY <1>c, <4>1, <4>2, <5>1, <6>2
          <6> QED
            BY <6>1, <6>2
        <5> QED
          BY <5>1
      <4> QED
        BY <1>c, <3>3, <4>1, <4>3
    <3> QED
      BY <3>2, <3>3
  <2> QED
    <3>1. \A u \in VHost : \A i \in 1..Len(elts'[u]) :
             /\ server'[elts'[u][i]] = u /\ Resting(elts[u][i])'
             /\ \A h \in Handler : hobj'[h] # elts'[u][i]
      BY <2>2 DEF Resting
    <3> QED
      BY <2>3, <3>1 DEF Arrays
<1>4. Popped'
  BY <1>a, <1>b DEF IInv, Popped, Resting, TypeOK
<1>5. HandlersInv'
  BY <1>a, <1>b DEF IInv, HandlersInv, TypeOK
<1>6. WorkersInv'
  BY <1>a, <1>b DEF IInv, WorkersInv, Starting, Waits, TypeOK
<1>7. NoneLost'
  <2> SUFFICES ASSUME ~shutdown, NEW x \in Worker, Asleep(x)' PROVE Findable(x)'
    BY <1>b DEF NoneLost
  <2>1. CASE x = w
    BY <1>g, <1>h, <2>1 DEF Findable
  <2>2. CASE x # w
    <3>1. Findable(x) /\ server[x] \in VHost
      BY <1>b, <2>2 DEF Asleep, IInv, TypeOK, NoneLost, WorkersInv
    <3> QED
      BY <1>b, <1>g, <3>1 DEF Findable
  <2> QED
    BY <2>1, <2>2
<1>8. CountInv'
  BY <1>a, <1>b, CountSame DEF IInv, TypeOK, Counted
<1> QED
  BY <1>1, <1>2, <1>3, <1>4, <1>5, <1>6, <1>7, <1>8 DEF IInv

LEMMA WorkerLeaveStep ==
    ASSUME IInv, NEW w \in Worker, WorkerLeave(w)
    PROVE  IInv'
<1>1. TypeOK'
  BY DEF IInv, TypeOK, Status, WorkerPc, WorkerLeave, WorkerMove, vhostVars, objVars, wrkVars,
       hndVars, finVars
<1>2. Links'
  BY DEF IInv, Links, WorkerLeave, WorkerMove, vhostVars, objVars, wrkVars, hndVars, finVars
<1>3. Arrays'
  BY DEF IInv, Arrays, Resting, WorkerLeave, WorkerMove, vhostVars, objVars, wrkVars, hndVars,
       finVars
<1>4. Popped'
  BY DEF IInv, Popped, Resting, WorkerLeave, WorkerMove, vhostVars, objVars, wrkVars, hndVars,
       finVars
<1>5. HandlersInv'
  BY DEF IInv, HandlersInv, WorkerLeave, WorkerMove, vhostVars, objVars, wrkVars, hndVars,
       finVars
<1>6. WorkersInv'
  BY DEF IInv, WorkersInv, Starting, Waits, WorkerLeave, WorkerMove, vhostVars, objVars, wrkVars,
       hndVars, finVars
<1>7. NoneLost'
  BY DEF IInv, NoneLost, Asleep, Findable, Idle, WorkerLeave, WorkerMove, vhostVars, objVars,
       wrkVars, hndVars, finVars
<1>8. CountInv'
  BY CountSame DEF IInv, Counted, WorkerLeave, WorkerMove, vhostVars, objVars, wrkVars, hndVars,
       finVars
<1> QED
  BY <1>1, <1>2, <1>3, <1>4, <1>5, <1>6, <1>7, <1>8 DEF IInv

LEMMA WorkerGoneStep ==
    ASSUME IInv, NEW w \in Worker, WorkerGone(w)
    PROVE  IInv'
<1>a. /\ wpc[w] = "decr" /\ wpc' = [wpc EXCEPT ![w] = "gone"]
      /\ count' = [count EXCEPT ![server[w]] = @ - 1] /\ server' = server
      /\ server[w] \in VHost
  BY DEF WorkerGone, WorkerMove, vhostVars, objVars, wrkVars, hndVars, finVars, IInv, WorkersInv
<1>b. CountedOf(server[w])' = CountedOf(server[w]) \ {w} /\ w \in CountedOf(server[w])
  BY <1>a DEF CountedOf, Counted, IInv, TypeOK
<1>c. \A v \in VHost : v # server[w] => CountedOf(v)' = CountedOf(v)
  BY <1>a DEF CountedOf, Counted, IInv, TypeOK
<1>d. /\ IsFiniteSet(CountedOf(server[w])')
      /\ Cardinality(CountedOf(server[w])') = count[server[w]] - 1
      /\ Cardinality(CountedOf(server[w])') \in Nat
  BY <1>a, <1>b, FS_RemoveElement, FS_CardinalityType DEF IInv, CountInv
<1>1. TypeOK'
  <2>1. count' \in [VHost -> Nat]
    BY <1>a, <1>d DEF IInv, TypeOK
  <2> QED
    BY <1>a, <2>1 DEF WorkerGone, IInv, TypeOK, WorkerPc, vhostVars, objVars, wrkVars,
                      hndVars, finVars
<1>2. Links'
  BY DEF IInv, Links, WorkerGone, WorkerMove, vhostVars, objVars, wrkVars, hndVars, finVars
<1>3. Arrays'
  BY DEF IInv, Arrays, Resting, WorkerGone, WorkerMove, vhostVars, objVars, wrkVars, hndVars,
       finVars
<1>4. Popped'
  BY DEF IInv, Popped, Resting, WorkerGone, WorkerMove, vhostVars, objVars, wrkVars, hndVars,
       finVars
<1>5. HandlersInv'
  BY DEF IInv, HandlersInv, WorkerGone, WorkerMove, vhostVars, objVars, wrkVars, hndVars, finVars
<1>6. WorkersInv'
  BY DEF IInv, WorkersInv, Starting, Waits, WorkerGone, WorkerMove, vhostVars, objVars, wrkVars,
       hndVars, finVars
<1>7. NoneLost'
  BY DEF IInv, NoneLost, Asleep, Findable, Idle, WorkerGone, WorkerMove, vhostVars, objVars,
       wrkVars, hndVars, finVars
<1>8. CountInv'
  BY <1>a, <1>c, <1>d DEF IInv, TypeOK, CountInv
<1> QED
  BY <1>1, <1>2, <1>3, <1>4, <1>5, <1>6, <1>7, <1>8 DEF IInv

LEMMA SpuriousWakeupStep ==
    ASSUME IInv, NEW w \in Worker, SpuriousWakeup(w)
    PROVE  IInv'
<1>1. TypeOK'
  BY DEF IInv, TypeOK, Status, WorkerPc, SpuriousWakeup, vhostVars, objVars, wrkVars, hndVars,
       finVars
<1>2. Links'
  BY DEF IInv, Links, SpuriousWakeup, vhostVars, objVars, wrkVars, hndVars, finVars
<1>3. Arrays'
  BY DEF IInv, Arrays, Resting, SpuriousWakeup, vhostVars, objVars, wrkVars, hndVars, finVars
<1>4. Popped'
  BY DEF IInv, Popped, Resting, SpuriousWakeup, vhostVars, objVars, wrkVars, hndVars, finVars
<1>5. HandlersInv'
  BY DEF IInv, HandlersInv, SpuriousWakeup, vhostVars, objVars, wrkVars, hndVars, finVars
<1>6. WorkersInv'
  BY DEF IInv, WorkersInv, Starting, Waits, SpuriousWakeup, vhostVars, objVars, wrkVars, hndVars,
       finVars
<1>7. NoneLost'
  BY DEF IInv, NoneLost, Asleep, Findable, Idle, SpuriousWakeup, vhostVars, objVars, wrkVars,
       hndVars, finVars
<1>8. CountInv'
  BY CountSame DEF IInv, Counted, SpuriousWakeup, vhostVars, objVars, wrkVars, hndVars, finVars
<1> QED
  BY <1>1, <1>2, <1>3, <1>4, <1>5, <1>6, <1>7, <1>8 DEF IInv

LEMMA WorkerExitThreadStep ==
    ASSUME IInv, NEW w \in Worker, WorkerExitThread(w)
    PROVE  IInv'
<1>1. TypeOK'
  BY DEF IInv, TypeOK, Status, WorkerPc, WorkerExitThread, vhostVars, objVars, wrkVars, hndVars,
       finVars
<1>2. Links'
  BY DEF IInv, Links, WorkerExitThread, vhostVars, objVars, wrkVars, hndVars, finVars
<1>3. Arrays'
  BY DEF IInv, Arrays, Resting, WorkerExitThread, vhostVars, objVars, wrkVars, hndVars, finVars
<1>4. Popped'
  BY DEF IInv, Popped, Resting, WorkerExitThread, vhostVars, objVars, wrkVars, hndVars, finVars
<1>5. HandlersInv'
  BY DEF IInv, HandlersInv, WorkerExitThread, vhostVars, objVars, wrkVars, hndVars, finVars
<1>6. WorkersInv'
  BY DEF IInv, WorkersInv, Starting, Waits, WorkerExitThread, vhostVars, objVars, wrkVars,
       hndVars, finVars
<1>7. NoneLost'
  BY DEF IInv, NoneLost, Asleep, Findable, Idle, WorkerExitThread, vhostVars, objVars, wrkVars,
       hndVars, finVars
<1>8. CountInv'
  BY CountSame DEF IInv, Counted, WorkerExitThread, vhostVars, objVars, wrkVars, hndVars, finVars
<1> QED
  BY <1>1, <1>2, <1>3, <1>4, <1>5, <1>6, <1>7, <1>8 DEF IInv

LEMMA WorkerExitAllStep ==
    ASSUME IInv, NEW w \in Worker, WorkerExitAll(w)
    PROVE  IInv'
<1>a. wpc[w] = "serve" /\ w \in Caller /\ Root \in VHost /\ w # Main
  BY ConstantsAssumption, IdentitiesAssumption DEF WorkerExitAll, WorkerMove, Caller, Root, VHost
<1>b. /\ wpc' = [wpc EXCEPT ![w] = "finalize"] /\ keepGoing' = [keepGoing EXCEPT ![w] = FALSE]
      /\ shutdown' = TRUE /\ fpc' = [fpc EXCEPT ![w] = "count"]
      /\ fidx' = [fidx EXCEPT ![w] = Root]
      /\ UNCHANGED <<child, elts, nelts, count, status, req, code, conf, server, waiters,
                     hpc, hvhost, hobj, answer, ftry, fn, fobj>>
  BY DEF WorkerExitAll, WorkerMove, vhostVars, objVars, wrkVars, hndVars, finVars
<1>1. TypeOK'
  BY <1>a, <1>b DEF IInv, TypeOK, Status, WorkerPc
<1>2. Links'
  <2>1. /\ fpc'[w] = "count" /\ fpc[w] = "none" /\ fobj[w] = None /\ wpc'[w] = "finalize"
        /\ \A c \in Caller : c # w => fpc'[c] = fpc[c] /\ fidx'[c] = fidx[c]
        /\ \A x \in Worker : x # w => wpc'[x] = wpc[x]
    BY <1>a, <1>b DEF IInv, TypeOK, Links
  <2>2. \A c \in Caller : fobj[c] # None <=> fpc'[c] = "tell"
    BY <2>1 DEF IInv, Links
  <2>3. \A x \in Worker : fpc'[x] # "none" => wpc'[x] = "finalize"
    BY <2>1 DEF IInv, Links, Caller
  <2>4. \A c \in Caller : fpc'[c] = "take" => fn[c] \in 1..Len(elts[fidx'[c]])
    BY <2>1 DEF IInv, Links
  <2> QED
    BY <1>b, <2>2, <2>3, <2>4 DEF IInv, Links
<1>3. Arrays'
  BY DEF IInv, Arrays, Resting, WorkerExitAll, WorkerMove, vhostVars, objVars, wrkVars, hndVars,
       finVars
<1>4. Popped'
  BY DEF IInv, Popped, Resting, WorkerExitAll, WorkerMove, vhostVars, objVars, wrkVars, hndVars,
       finVars
<1>5. HandlersInv'
  BY DEF IInv, HandlersInv, WorkerExitAll, WorkerMove, vhostVars, objVars, wrkVars, hndVars,
       finVars
<1>6. WorkersInv'
  BY DEF IInv, WorkersInv, Starting, Waits, WorkerExitAll, WorkerMove, vhostVars, objVars,
       wrkVars, hndVars, finVars
<1>7. NoneLost'
  BY DEF IInv, NoneLost, Asleep, Findable, Idle, WorkerExitAll, WorkerMove, vhostVars, objVars,
       wrkVars, hndVars, finVars
<1>8. CountInv'
  BY CountSame DEF IInv, Counted, WorkerExitAll, WorkerMove, vhostVars, objVars, wrkVars,
       hndVars, finVars
<1> QED
  BY <1>1, <1>2, <1>3, <1>4, <1>5, <1>6, <1>7, <1>8 DEF IInv

(* The framework threads.                                                   *)

LEMMA HandlerRefuseStep ==
    ASSUME IInv, NEW h \in Handler, NEW v \in VHost, HandlerRefuse(h, v)
    PROVE  IInv'
<1>1. TypeOK'
  BY DEF IInv, TypeOK, Status, WorkerPc, HandlerRefuse, Enter, vhostVars, objVars, wrkVars,
       hndVars, finVars
<1>2. Links'
  BY DEF IInv, Links, HandlerRefuse, Enter, vhostVars, objVars, wrkVars, hndVars, finVars
<1>3. Arrays'
  BY DEF IInv, Arrays, Resting, HandlerRefuse, Enter, vhostVars, objVars, wrkVars, hndVars,
       finVars
<1>4. Popped'
  BY DEF IInv, Popped, Resting, HandlerRefuse, Enter, vhostVars, objVars, wrkVars, hndVars,
       finVars
<1>5. HandlersInv'
  BY DEF IInv, HandlersInv, HandlerRefuse, Enter, vhostVars, objVars, wrkVars, hndVars, finVars
<1>6. WorkersInv'
  BY DEF IInv, WorkersInv, Starting, Waits, HandlerRefuse, Enter, vhostVars, objVars, wrkVars,
       hndVars, finVars
<1>7. NoneLost'
  BY DEF IInv, NoneLost, Asleep, Findable, Idle, HandlerRefuse, Enter, vhostVars, objVars,
       wrkVars, hndVars, finVars
<1>8. CountInv'
  BY CountSame DEF IInv, Counted, HandlerRefuse, Enter, vhostVars, objVars, wrkVars, hndVars,
       finVars
<1> QED
  BY <1>1, <1>2, <1>3, <1>4, <1>5, <1>6, <1>7, <1>8 DEF IInv

LEMMA HandlerPopStep ==
    ASSUME IInv, NEW h \in Handler, NEW v \in VHost, HandlerPop(h, v)
    PROVE  IInv'
<1> DEFINE n == nelts[v]
           w == elts[v][n]
<1>a. /\ hpc[h] = "idle" /\ hobj[h] = None /\ ~shutdown /\ n = Len(elts[v]) /\ n \in Nat /\ n > 0
      /\ n \in 1..Len(elts[v]) /\ \A c \in Caller : fobj[c] = None /\ fpc[c] = "none"
  <2>1. hpc[h] = "idle" /\ ~shutdown /\ n > 0
    BY DEF HandlerPop, Enter, ArrayOf
  <2>2. hobj[h] = None /\ \A c \in Caller : fobj[c] = None /\ fpc[c] = "none"
    BY <2>1 DEF IInv, Links
  <2>3. n = Len(elts[v]) /\ n \in Nat
    BY <2>1 DEF IInv, Arrays, TypeOK
  <2> QED
    BY <2>1, <2>2, <2>3
<1>b. /\ w \in Worker /\ w # None /\ server[w] = v /\ Resting(w) /\ status[w] = "idle"
      /\ \A g \in Handler : hobj[g] # w
  BY <1>a, ElementsAreWorkers, IdentitiesAssumption DEF IInv, Arrays, Resting
<1>c. /\ hobj' = [hobj EXCEPT ![h] = w] /\ elts' = [elts EXCEPT ![v] = SubSeq(@, 1, n - 1)]
      /\ nelts' = [nelts EXCEPT ![v] = n - 1] /\ hvhost' = [hvhost EXCEPT ![h] = v]
      /\ hpc' = [hpc EXCEPT ![h] = "post"] /\ answer' = [answer EXCEPT ![h] = None]
      /\ UNCHANGED <<shutdown, child, count, status, req, code, conf, server, waiters, wpc,
                     keepGoing, fpc, fidx, ftry, fn, fobj>>
  BY DEF HandlerPop, ArrayOf, vhostVars, objVars, wrkVars, hndVars, finVars
<1>d. /\ elts'[v] \in Seq(Worker) /\ Len(elts'[v]) = n - 1
      /\ \A i \in 1..(n - 1) : elts'[v][i] = elts[v][i]
  <2>1. elts'[v] = SubSeq(elts[v], 1, n - 1)
    BY <1>c DEF IInv, TypeOK
  <2>2. 1 \in Int /\ n - 1 \in Int /\ \A i \in 1..(n - 1) : elts[v][i] \in Worker
    BY <1>a, ElementsAreWorkers DEF IInv
  <2>3. /\ SubSeq(elts[v], 1, n - 1) \in Seq(Worker)
        /\ Len(SubSeq(elts[v], 1, n - 1)) = IF 1 <= n - 1 THEN (n - 1) - 1 + 1 ELSE 0
        /\ \A i \in 1..((n - 1) - 1 + 1) : SubSeq(elts[v], 1, n - 1)[i] = elts[v][1 + i - 1]
    <3> HIDE DEF n
    <3> QED
      BY <2>2, SubSeqProperties
  <2> QED
    BY <1>a, <2>1, <2>3
<1>e. /\ elts' \in [VHost -> Seq(Worker)] /\ nelts' \in [VHost -> Nat]
      /\ \A u \in VHost : /\ nelts'[u] = Len(elts'[u])
                          /\ u # v => elts'[u] = elts[u]
  <2>1. \A u \in VHost : nelts[u] = Len(elts[u])
    BY <1>a DEF IInv, Arrays
  <2> QED
    BY <1>a, <1>c, <1>d, <2>1 DEF IInv, TypeOK
<1>f. \A u \in VHost : \A i \in 1..Len(elts'[u]) :
         i \in 1..Len(elts[u]) /\ elts'[u][i] = elts[u][i] /\ elts'[u][i] # w
  <2>1. ASSUME NEW i \in 1..(n - 1)
        PROVE  i \in 1..Len(elts[v]) /\ elts'[v][i] = elts[v][i] /\ elts'[v][i] # w
    BY <1>a, <1>d, <2>1 DEF IInv, Arrays
  <2>2. ASSUME NEW u \in VHost, u # v, NEW i \in 1..Len(elts[u]) PROVE elts[u][i] # w
    BY <1>b, <2>2 DEF IInv, Arrays
  <2>3. ASSUME NEW i \in 1..Len(elts'[v])
        PROVE  i \in 1..Len(elts[v]) /\ elts'[v][i] = elts[v][i] /\ elts'[v][i] # w
    BY <1>d, <2>1
  <2>4. ASSUME NEW u \in VHost, u # v, NEW i \in 1..Len(elts'[u])
        PROVE  i \in 1..Len(elts[u]) /\ elts'[u][i] = elts[u][i] /\ elts'[u][i] # w
    BY <1>e, <2>2, <2>4
  <2> QED
    BY <2>3, <2>4
<1>g. \A u \in VHost : \A x \in Idle(u) : x = w \/ x \in Idle(u)'
  <2>1. ASSUME NEW i \in 1..n
        PROVE  elts[v][i] = w \/ (i \in 1..nelts'[v] /\ elts'[v][i] = elts[v][i])
    BY <1>a, <1>d, <1>e
  <2>2. ASSUME NEW u \in VHost, u # v PROVE Idle(u)' = Idle(u)
    BY <1>c, <1>e, <2>2 DEF Idle, IInv, TypeOK
  <2>3. \A x \in Idle(v) : x = w \/ x \in Idle(v)'
    BY <2>1 DEF Idle
  <2> QED
    BY <2>2, <2>3
<1> HIDE DEF n, w
<1>1. TypeOK'
  BY <1>a, <1>b, <1>c, <1>e DEF IInv, TypeOK, Status, WorkerPc
<1>2. Links'
  BY <1>a, <1>b, <1>c DEF IInv, Links, TypeOK
<1>3. Arrays'
  BY <1>a, <1>b, <1>c, <1>e, <1>f DEF IInv, Arrays, Resting, TypeOK
<1>4. Popped'
  BY <1>a, <1>c DEF IInv, Popped, Resting
<1>5. HandlersInv'
  BY <1>a, <1>b, <1>c DEF IInv, HandlersInv, TypeOK, Resting
<1>6. WorkersInv'
  BY <1>a, <1>b, <1>c, IdentitiesAssumption DEF IInv, WorkersInv, Starting, Waits, TypeOK,
       Resting, Links
<1>7. NoneLost'
  <2> SUFFICES ASSUME NEW x \in Worker, Asleep(x)' PROVE Findable(x)'
    BY DEF NoneLost
  <2>1. CASE x = w
    <3>1. hobj'[h] = x
      BY <1>c, <2>1 DEF IInv, TypeOK
    <3> QED
      BY <3>1 DEF Findable
  <2>2. CASE x # w
    <3>1. Findable(x) /\ server[x] \in VHost /\ server' = server /\ fobj' = fobj
      BY <1>a, <1>c DEF IInv, NoneLost, Asleep, WorkersInv
    <3>2. CASE x \in Idle(server[x])
      BY <1>g, <2>2, <3>1, <3>2 DEF Findable
    <3>3. ASSUME NEW g \in Handler, hobj[g] = x PROVE hobj'[g] = x
      BY <1>a, <1>c, <3>3, IdentitiesAssumption DEF IInv, TypeOK
    <3> QED
      BY <3>1, <3>2, <3>3 DEF Findable
  <2> QED
    BY <2>1, <2>2
<1>8. CountInv'
  BY <1>c, CountSame DEF IInv, TypeOK, Counted
<1> QED
  BY <1>1, <1>2, <1>3, <1>4, <1>5, <1>6, <1>7, <1>8 DEF IInv

LEMMA HandlerMissStep ==
    ASSUME IInv, NEW h \in Handler, NEW v \in VHost, HandlerMiss(h, v)
    PROVE  IInv'
<1>1. TypeOK'
  BY DEF IInv, TypeOK, Status, WorkerPc, HandlerMiss, Enter, ArrayOf, vhostVars, objVars,
       wrkVars, hndVars, finVars
<1>2. Links'
  BY DEF IInv, Links, HandlerMiss, Enter, ArrayOf, vhostVars, objVars, wrkVars, hndVars, finVars
<1>3. Arrays'
  BY DEF IInv, Arrays, Resting, HandlerMiss, Enter, ArrayOf, vhostVars, objVars, wrkVars,
       hndVars, finVars
<1>4. Popped'
  BY DEF IInv, Popped, Resting, HandlerMiss, Enter, ArrayOf, vhostVars, objVars, wrkVars,
       hndVars, finVars
<1>5. HandlersInv'
  BY DEF IInv, HandlersInv, HandlerMiss, Enter, ArrayOf, vhostVars, objVars, wrkVars, hndVars,
       finVars
<1>6. WorkersInv'
  BY DEF IInv, WorkersInv, Starting, Waits, HandlerMiss, Enter, ArrayOf, vhostVars, objVars,
       wrkVars, hndVars, finVars
<1>7. NoneLost'
  BY DEF IInv, NoneLost, Asleep, Findable, Idle, HandlerMiss, Enter, ArrayOf, vhostVars, objVars,
       wrkVars, hndVars, finVars
<1>8. CountInv'
  BY CountSame DEF IInv, Counted, HandlerMiss, Enter, ArrayOf, vhostVars, objVars, wrkVars,
       hndVars, finVars
<1> QED
  BY <1>1, <1>2, <1>3, <1>4, <1>5, <1>6, <1>7, <1>8 DEF IInv

LEMMA HandlerCreateStep ==
    ASSUME IInv, NEW h \in Handler, HandlerCreate(h)
    PROVE  IInv'
<1>a. hpc[h] = "create" /\ hobj[h] = None /\ hvhost[h] \in VHost
  BY DEF HandlerCreate, IInv, TypeOK, Links
<1>b. PICK w \in Worker, p \in {"start", "failed"} :
         /\ Reusable(w) /\ hobj' = [hobj EXCEPT ![h] = w] /\ wpc' = [wpc EXCEPT ![w] = p]
         /\ server' = [server EXCEPT ![w] = hvhost[h]]
         /\ status' = [status EXCEPT ![w] = "idle"]
         /\ conf' = [conf EXCEPT ![w] = None] /\ req' = [req EXCEPT ![w] = None]
         /\ code' = [code EXCEPT ![w] = "ok"] /\ waiters' = [waiters EXCEPT ![w] = {}]
  BY DEF HandlerCreate
<1>c. /\ hpc' = [hpc EXCEPT ![h] = "post"]
      /\ UNCHANGED <<shutdown, child, elts, nelts, count, keepGoing, hvhost, answer, fpc,
                     fidx, ftry, fn, fobj>>
  BY DEF HandlerCreate, vhostVars, objVars, wrkVars, hndVars, finVars
<1>d. wpc[w] \in {"none", "gone"}
  BY <1>b DEF Reusable
<1>1. TypeOK'
  BY <1>a, <1>b, <1>c DEF IInv, TypeOK, Status, WorkerPc
<1>2. Links'
  BY <1>a, <1>b, <1>c, IdentitiesAssumption DEF IInv, Links, TypeOK, Reusable
<1>3. Arrays'
  BY <1>a, <1>b, <1>c, ElementsAreWorkers DEF IInv, Arrays, Resting, TypeOK, Reusable
<1>4. Popped'
  BY <1>a, <1>b, <1>c DEF IInv, Popped, Resting, TypeOK, Reusable
<1>5. HandlersInv'
  BY <1>a, <1>b, <1>c DEF IInv, HandlersInv, TypeOK, Links, Reusable
<1>6. WorkersInv'
  BY <1>a, <1>b, <1>c, IdentitiesAssumption DEF IInv, WorkersInv, Starting, Waits, TypeOK, Links,
       Reusable
<1>7. NoneLost'
  <2> SUFFICES ASSUME ~shutdown', NEW x \in Worker, Asleep(x)' PROVE Findable(x)'
    BY DEF NoneLost
  <2>1. x # w
    BY <1>b DEF Asleep, IInv, TypeOK
  <2>2. Findable(x) /\ server'[x] = server[x] /\ UNCHANGED <<elts, nelts, fobj>>
    BY <1>b, <1>c, <2>1 DEF Asleep, IInv, TypeOK, NoneLost
  <2>3. ASSUME NEW g \in Handler, hobj[g] = x PROVE hobj'[g] = x
    BY <1>a, <1>b, <2>3, IdentitiesAssumption DEF IInv, TypeOK
  <2> QED
    BY <2>2, <2>3 DEF Findable, Idle
<1>8. CountInv'
  <2>1. ASSUME NEW x \in Worker
        PROVE  (Counted(x)' <=> Counted(x)) /\ (Counted(x) => server'[x] = server[x])
    BY <1>b, <1>d DEF Counted, IInv, TypeOK
  <2> QED
    BY <1>c, <2>1, CountSame DEF IInv
<1> QED
  BY <1>1, <1>2, <1>3, <1>4, <1>5, <1>6, <1>7, <1>8 DEF IInv

LEMMA HandlerPostStep ==
    ASSUME IInv, NEW h \in Handler, HandlerPost(h)
    PROVE  IInv'
<1>1. TypeOK'
  BY DEF IInv, TypeOK, Status, WorkerPc, Links, Signalled, HandlerPost, Holds, vhostVars,
       objVars, wrkVars, hndVars, finVars
<1>2. Links'
  BY DEF IInv, Links, HandlerPost, Holds, vhostVars, objVars, wrkVars, hndVars, finVars
<1>3. Arrays'
  BY DEF IInv, Arrays, Resting, HandlerPost, Holds, vhostVars, objVars, wrkVars, hndVars, finVars
<1>4. Popped'
  BY DEF IInv, Popped, Resting, HandlerPost, Holds, vhostVars, objVars, wrkVars, hndVars, finVars
<1>5. HandlersInv'
  BY DEF IInv, HandlersInv, TypeOK, Links, HandlerPost, Holds, vhostVars, objVars, wrkVars,
       hndVars, finVars
<1>6. WorkersInv'
  BY DEF IInv, WorkersInv, Starting, Waits, TypeOK, Links, HandlerPost, Holds, vhostVars,
       objVars, wrkVars, hndVars, finVars
<1>7. NoneLost'
  BY DEF IInv, NoneLost, Asleep, Findable, Idle, HandlerPost, Holds, vhostVars, objVars, wrkVars,
       hndVars, finVars
<1>8. CountInv'
  BY CountSame DEF IInv, Counted, HandlerPost, Holds, vhostVars, objVars, wrkVars, hndVars,
       finVars
<1> QED
  BY <1>1, <1>2, <1>3, <1>4, <1>5, <1>6, <1>7, <1>8 DEF IInv

LEMMA HandlerResleepStep ==
    ASSUME IInv, NEW h \in Handler, HandlerResleep(h)
    PROVE  IInv'
<1>1. TypeOK'
  BY DEF IInv, TypeOK, Status, WorkerPc, HandlerResleep, Woken, Completed, Holds, vhostVars,
       objVars, wrkVars, hndVars, finVars
<1>2. Links'
  BY DEF IInv, Links, HandlerResleep, Woken, Completed, Holds, vhostVars, objVars, wrkVars,
       hndVars, finVars
<1>3. Arrays'
  BY DEF IInv, Arrays, Resting, HandlerResleep, Woken, Completed, Holds, vhostVars, objVars,
       wrkVars, hndVars, finVars
<1>4. Popped'
  BY DEF IInv, Popped, Resting, HandlerResleep, Woken, Completed, Holds, vhostVars, objVars,
       wrkVars, hndVars, finVars
<1>5. HandlersInv'
  BY DEF IInv, HandlersInv, HandlerResleep, Woken, Completed, Holds, vhostVars, objVars, wrkVars,
       hndVars, finVars
<1>6. WorkersInv'
  BY DEF IInv, WorkersInv, Starting, Waits, HandlerResleep, Woken, Completed, Holds, vhostVars,
       objVars, wrkVars, hndVars, finVars
<1>7. NoneLost'
  BY DEF IInv, NoneLost, Asleep, Findable, Idle, HandlerResleep, Woken, Completed, Holds,
       vhostVars, objVars, wrkVars, hndVars, finVars
<1>8. CountInv'
  BY CountSame DEF IInv, Counted, HandlerResleep, Woken, Completed, Holds, vhostVars, objVars,
       wrkVars, hndVars, finVars
<1> QED
  BY <1>1, <1>2, <1>3, <1>4, <1>5, <1>6, <1>7, <1>8 DEF IInv

LEMMA HandlerReturnStep ==
    ASSUME IInv, NEW h \in Handler, HandlerReturn(h)
    PROVE  IInv'
<1>1. TypeOK'
  BY DEF IInv, TypeOK, Status, WorkerPc, Links, Signalled, HandlerReturn, Woken, Completed,
       Holds, vhostVars, objVars, wrkVars, hndVars, finVars
<1>2. Links'
  BY IdentitiesAssumption DEF IInv, Links, TypeOK, HandlerReturn, Woken, Completed, Holds,
       vhostVars, objVars, wrkVars, hndVars, finVars
<1>3. Arrays'
  BY IdentitiesAssumption DEF IInv, Arrays, Resting, TypeOK, Links, HandlerReturn, Woken,
       Completed, Holds, vhostVars, objVars, wrkVars, hndVars, finVars
<1>4. Popped'
  BY DEF IInv, Popped, Resting, HandlerReturn, Woken, Completed, Holds, vhostVars, objVars,
       wrkVars, hndVars, finVars
<1>5. HandlersInv'
  BY IdentitiesAssumption DEF IInv, HandlersInv, TypeOK, Links, HandlerReturn, Woken, Completed,
       Holds, vhostVars, objVars, wrkVars, hndVars, finVars
<1>6. WorkersInv'
  BY IdentitiesAssumption DEF IInv, WorkersInv, Starting, Waits, TypeOK, Links, HandlerReturn,
       Woken, Completed, Holds, vhostVars, objVars, wrkVars, hndVars, finVars
<1>7. NoneLost'
  <2>1. /\ hpc[h] = "wait" /\ status[hobj[h]] = "done"
        /\ status' = [status EXCEPT ![hobj[h]] = "idle"] /\ hobj' = [hobj EXCEPT ![h] = None]
        /\ UNCHANGED <<shutdown, elts, nelts, server, wpc, fobj>>
    BY DEF HandlerReturn, Woken, Completed, vhostVars, objVars, wrkVars, hndVars, finVars
  <2>2. hobj[h] \in Worker /\ wpc[hobj[h]] = "waitTaken"
    <3>1. hobj[h] \in Worker
      BY <2>1 DEF IInv, TypeOK, Links
    <3> QED
      BY <2>1, <3>1 DEF IInv, HandlersInv
  <2> SUFFICES ASSUME ~shutdown', NEW x \in Worker, Asleep(x)' PROVE Findable(x)'
    BY DEF NoneLost
  <2>3. x # hobj[h] /\ Findable(x)
    BY <2>1, <2>2 DEF IInv, TypeOK, NoneLost, Asleep
  <2>4. ASSUME NEW g \in Handler, hobj[g] = x PROVE hobj'[g] = x
    BY <2>1, <2>3, <2>4 DEF IInv, TypeOK
  <2> QED
    BY <2>1, <2>3, <2>4 DEF Findable, Idle
<1>8. CountInv'
  BY CountSame DEF IInv, Counted, HandlerReturn, Woken, Completed, Holds, vhostVars, objVars,
       wrkVars, hndVars, finVars
<1> QED
  BY <1>1, <1>2, <1>3, <1>4, <1>5, <1>6, <1>7, <1>8 DEF IInv

(* The finaliser.                                                           *)

LEMMA FinalizeCountStep ==
    ASSUME IInv, NEW c \in Caller, FinalizeCount(c)
    PROVE  IInv'
<1> DEFINE tries == IF fpc[c] = "recount" THEN ftry[c] ELSE 0
<1>a. /\ fpc[c] \in {"count", "recount"} /\ shutdown /\ fidx[c] \in VHost
      /\ tries \in 0..MaxTries /\ MaxTries \in Nat
  BY ConstantsAssumption DEF FinalizeCount, IInv, TypeOK, Links
<1>b. UNCHANGED <<shutdown, elts, nelts, count, status, req, code, conf, server, waiters,
                  keepGoing, hpc, hvhost, hobj, answer, fn, fobj>>
  BY DEF FinalizeCount, vhostVars, objVars, wrkVars, hndVars, finVars
<1>c. \/ /\ tries < MaxTries /\ UNCHANGED <<fidx, wpc, child>>
         /\ fpc' = [fpc EXCEPT ![c] = "look"] /\ ftry' = [ftry EXCEPT ![c] = tries + 1]
      \/ /\ fidx[c] < VHostCount /\ UNCHANGED <<ftry, wpc, child>>
         /\ fpc' = [fpc EXCEPT ![c] = "count"] /\ fidx' = [fidx EXCEPT ![c] = fidx[c] + 1]
      \/ /\ c = Main /\ child' = "ended" /\ UNCHANGED <<wpc, fidx, ftry>>
         /\ fpc' = [fpc EXCEPT ![c] = "none"]
      \/ /\ c \in Worker /\ wpc[c] = "finalize" /\ wpc' = [wpc EXCEPT ![c] = "serve"]
         /\ fidx' = [fidx EXCEPT ![c] = Root] /\ ftry' = [ftry EXCEPT ![c] = 0]
         /\ fpc' = [fpc EXCEPT ![c] = "none"] /\ child' = child
  BY DEF FinalizeCount, Persist, Return, WorkerMove, Caller
<1> HIDE DEF tries
<1>d. /\ Root \in VHost /\ \A v \in VHost : v < VHostCount => v + 1 \in VHost
  BY ConstantsAssumption DEF Root, VHost
<1>e. /\ fidx' \in [Caller -> VHost] /\ ftry' \in [Caller -> 0..MaxTries]
      /\ child' \in {"running", "ended", "crashed"}
      /\ fpc' \in [Caller -> {"none", "count", "look", "read", "take", "tell", "recount"}]
  <2>1. tries < MaxTries => tries + 1 \in 0..MaxTries
    BY <1>a
  <2>2. 0 \in 0..MaxTries
    BY <1>a
  <2>3. /\ fidx \in [Caller -> VHost] /\ ftry \in [Caller -> 0..MaxTries]
        /\ child \in {"running", "ended", "crashed"}
        /\ fpc \in [Caller -> {"none", "count", "look", "read", "take", "tell", "recount"}]
    BY DEF IInv, TypeOK
  <2>4. fidx' \in [Caller -> VHost]
    BY <1>a, <1>c, <1>d, <2>3
  <2>5. ftry' \in [Caller -> 0..MaxTries]
    BY <1>c, <2>1, <2>2, <2>3
  <2> QED
    BY <1>c, <2>3, <2>4, <2>5
<1>f. /\ wpc' \in [Worker -> WorkerPc]
      /\ \A w \in Worker : wpc'[w] = wpc[w] \/ (wpc[w] = "finalize" /\ wpc'[w] = "serve")
  BY <1>c DEF IInv, TypeOK, WorkerPc
<1>g. /\ fpc'[c] \in {"none", "look", "count"}
      /\ \A d \in Caller : d # c => fpc'[d] = fpc[d] /\ fidx'[d] = fidx[d]
  BY <1>c DEF IInv, TypeOK
<1>h. \A w \in Worker : fpc'[w] # "none" => wpc'[w] = "finalize"
  BY <1>a, <1>c, IdentitiesAssumption DEF IInv, TypeOK, Links, Caller
<1>1. TypeOK'
  BY <1>b, <1>e, <1>f DEF IInv, TypeOK, Status, WorkerPc
<1>2. Links'
  BY <1>a, <1>b, <1>g, <1>h DEF IInv, Links, Caller
<1>3. Arrays'
  BY <1>b, <1>f, ElementsAreWorkers DEF IInv, Arrays, Resting
<1>4. Popped'
  <2>1. \A d \in Caller : fobj[d] # None => fobj[d] \in Worker
    BY DEF IInv, TypeOK
  <2> QED
    BY <1>b, <1>f, <2>1 DEF IInv, Popped, Resting
<1>5. HandlersInv'
  BY <1>b, <1>f DEF IInv, HandlersInv, TypeOK, Links
<1>6. WorkersInv'
  BY <1>b, <1>f DEF IInv, WorkersInv, Starting, Waits
<1>7. NoneLost'
  BY <1>a, <1>b DEF IInv, NoneLost, Asleep, Findable, Idle
<1>8. CountInv'
  BY <1>b, <1>f, CountSame DEF IInv, TypeOK, Counted
<1> QED
  BY <1>1, <1>2, <1>3, <1>4, <1>5, <1>6, <1>7, <1>8 DEF IInv

LEMMA FinalizeLookStep ==
    ASSUME IInv, NEW c \in Caller, FinalizeLook(c)
    PROVE  IInv'
<1>1. TypeOK'
  BY DEF IInv, TypeOK, Status, WorkerPc, FinalizeLook, vhostVars, objVars, wrkVars, hndVars,
       finVars
<1>2. Links'
  BY DEF IInv, Links, FinalizeLook, vhostVars, objVars, wrkVars, hndVars, finVars
<1>3. Arrays'
  BY DEF IInv, Arrays, Resting, FinalizeLook, vhostVars, objVars, wrkVars, hndVars, finVars
<1>4. Popped'
  BY DEF IInv, Popped, Resting, FinalizeLook, vhostVars, objVars, wrkVars, hndVars, finVars
<1>5. HandlersInv'
  BY DEF IInv, HandlersInv, FinalizeLook, vhostVars, objVars, wrkVars, hndVars, finVars
<1>6. WorkersInv'
  BY DEF IInv, WorkersInv, Starting, Waits, FinalizeLook, vhostVars, objVars, wrkVars, hndVars,
       finVars
<1>7. NoneLost'
  BY DEF IInv, NoneLost, Asleep, Findable, Idle, FinalizeLook, vhostVars, objVars, wrkVars,
       hndVars, finVars
<1>8. CountInv'
  BY CountSame DEF IInv, Counted, FinalizeLook, vhostVars, objVars, wrkVars, hndVars, finVars
<1> QED
  BY <1>1, <1>2, <1>3, <1>4, <1>5, <1>6, <1>7, <1>8 DEF IInv

LEMMA FinalizeReadStep ==
    ASSUME IInv, NEW c \in Caller, FinalizeRead(c)
    PROVE  IInv'
<1>a. nelts[fidx[c]] \in 1..Len(elts[fidx[c]])
  BY ElementsAreWorkers DEF FinalizeRead, IInv, TypeOK
<1>1. TypeOK'
  BY DEF IInv, TypeOK, Status, WorkerPc, FinalizeRead, vhostVars, objVars, wrkVars, hndVars,
       finVars
<1>2. Links'
  BY <1>a DEF IInv, Links, TypeOK, Caller, FinalizeRead, vhostVars, objVars, wrkVars, hndVars,
       finVars
<1>3. Arrays'
  BY DEF IInv, Arrays, Resting, FinalizeRead, vhostVars, objVars, wrkVars, hndVars, finVars
<1>4. Popped'
  BY DEF IInv, Popped, Resting, FinalizeRead, vhostVars, objVars, wrkVars, hndVars, finVars
<1>5. HandlersInv'
  BY DEF IInv, HandlersInv, FinalizeRead, vhostVars, objVars, wrkVars, hndVars, finVars
<1>6. WorkersInv'
  BY DEF IInv, WorkersInv, Starting, Waits, FinalizeRead, vhostVars, objVars, wrkVars, hndVars,
       finVars
<1>7. NoneLost'
  BY DEF IInv, NoneLost, Asleep, Findable, Idle, FinalizeRead, vhostVars, objVars, wrkVars,
       hndVars, finVars
<1>8. CountInv'
  BY CountSame DEF IInv, Counted, FinalizeRead, vhostVars, objVars, wrkVars, hndVars, finVars
<1> QED
  BY <1>1, <1>2, <1>3, <1>4, <1>5, <1>6, <1>7, <1>8 DEF IInv

LEMMA FinalizeReadCrashStep ==
    ASSUME IInv, NEW c \in Caller, FinalizeReadCrash(c)
    PROVE  IInv'
<1>1. TypeOK'
  BY DEF IInv, TypeOK, Status, WorkerPc, FinalizeReadCrash, vhostVars, objVars, wrkVars, hndVars,
       finVars
<1>2. Links'
  BY DEF IInv, Links, FinalizeReadCrash, vhostVars, objVars, wrkVars, hndVars, finVars
<1>3. Arrays'
  BY DEF IInv, Arrays, Resting, FinalizeReadCrash, vhostVars, objVars, wrkVars, hndVars, finVars
<1>4. Popped'
  BY DEF IInv, Popped, Resting, FinalizeReadCrash, vhostVars, objVars, wrkVars, hndVars, finVars
<1>5. HandlersInv'
  BY DEF IInv, HandlersInv, FinalizeReadCrash, vhostVars, objVars, wrkVars, hndVars, finVars
<1>6. WorkersInv'
  BY DEF IInv, WorkersInv, Starting, Waits, FinalizeReadCrash, vhostVars, objVars, wrkVars,
       hndVars, finVars
<1>7. NoneLost'
  BY DEF IInv, NoneLost, Asleep, Findable, Idle, FinalizeReadCrash, vhostVars, objVars, wrkVars,
       hndVars, finVars
<1>8. CountInv'
  BY CountSame DEF IInv, Counted, FinalizeReadCrash, vhostVars, objVars, wrkVars, hndVars,
       finVars
<1> QED
  BY <1>1, <1>2, <1>3, <1>4, <1>5, <1>6, <1>7, <1>8 DEF IInv

LEMMA FinalizeTakeStep ==
    ASSUME IInv, NEW c \in Caller, FinalizeTake(c)
    PROVE  IInv'
<1> DEFINE w == elts[fidx[c]][fn[c]]
<1>a. /\ fpc[c] = "take" /\ shutdown /\ fidx[c] \in VHost /\ fn[c] \in 1..Len(elts[fidx[c]])
      /\ Len(elts[fidx[c]]) \in Nat
  BY ElementsAreWorkers DEF FinalizeTake, IInv, TypeOK, Links
<1>b. w \in Worker /\ w # None /\ Resting(w) /\ \A h \in Handler : hobj[h] # w
  BY <1>a, ElementsAreWorkers, IdentitiesAssumption DEF IInv, Arrays
<1>c. /\ nelts' = [nelts EXCEPT ![fidx[c]] = fn[c] - 1] /\ fobj' = [fobj EXCEPT ![c] = w]
      /\ fn' = [fn EXCEPT ![c] = 0] /\ fpc' = [fpc EXCEPT ![c] = "tell"]
      /\ UNCHANGED <<shutdown, child, elts, count, status, req, code, conf, server,
                     waiters, wpc, keepGoing, hpc, hvhost, hobj, answer, fidx, ftry>>
  BY DEF FinalizeTake, vhostVars, objVars, wrkVars, hndVars, finVars
<1> HIDE DEF w
<1>1. TypeOK'
  BY <1>a, <1>b, <1>c DEF IInv, TypeOK, Status, WorkerPc
<1>2. Links'
  BY <1>a, <1>b, <1>c DEF IInv, Links, TypeOK, Caller
<1>3. Arrays'
  BY <1>a, <1>b, <1>c DEF IInv, Arrays, Resting
<1>4. Popped'
  BY <1>a, <1>b, <1>c DEF IInv, Popped, Resting, TypeOK
<1>5. HandlersInv'
  BY <1>a, <1>b, <1>c DEF IInv, HandlersInv
<1>6. WorkersInv'
  BY <1>a, <1>b, <1>c DEF IInv, WorkersInv, Starting, Waits
<1>7. NoneLost'
  BY <1>a, <1>b, <1>c DEF IInv, NoneLost, Asleep, Findable, Idle, TypeOK, Caller
<1>8. CountInv'
  BY <1>a, <1>b, <1>c, CountSame DEF IInv, TypeOK, Counted
<1> QED
  BY <1>1, <1>2, <1>3, <1>4, <1>5, <1>6, <1>7, <1>8 DEF IInv

LEMMA FinalizeTellStep ==
    ASSUME IInv, NEW c \in Caller, FinalizeTell(c)
    PROVE  IInv'
<1>a. /\ fpc[c] = "tell" /\ fobj[c] \in Worker /\ shutdown /\ Resting(fobj[c])
      /\ \A h \in Handler : hobj[h] # fobj[c]
  BY DEF FinalizeTell, IInv, TypeOK, Links, Popped
<1>b. /\ req' = [req EXCEPT ![fobj[c]] = None]
      /\ status' = [status EXCEPT ![fobj[c]] = "thread_exit"]
      /\ fobj' = [fobj EXCEPT ![c] = None] /\ fpc' = [fpc EXCEPT ![c] = "look"]
      /\ UNCHANGED <<shutdown, child, elts, nelts, count, code, conf, server, wpc,
                     keepGoing, hpc, hvhost, hobj, answer, fidx, ftry, fn>>
  BY DEF FinalizeTell, vhostVars, objVars, wrkVars, hndVars, finVars
<1>c. waiters' \in [Worker -> SUBSET (Worker \cup Handler)]
  <2>1. PICK W \in Signalled(waiters[fobj[c]]) : waiters' = [waiters EXCEPT ![fobj[c]] = W]
    BY DEF FinalizeTell
  <2>2. W \subseteq waiters[fobj[c]]
    BY <2>1 DEF Signalled
  <2> QED
    BY <1>a, <2>1, <2>2 DEF IInv, TypeOK
<1>1. TypeOK'
  BY <1>a, <1>b, <1>c DEF IInv, TypeOK, Status, WorkerPc
<1>2. Links'
  BY <1>a, <1>b DEF IInv, Links, TypeOK, Caller
<1>3. Arrays'
  BY <1>a, <1>b, ElementsAreWorkers DEF IInv, Arrays, Resting, TypeOK
<1>4. Popped'
  BY <1>a, <1>b DEF IInv, Popped, Resting, TypeOK
<1>5. HandlersInv'
  <2>1. \A h \in Handler : hobj[h] # None => hobj[h] \in Worker
    BY DEF IInv, TypeOK
  <2>2. status \in [Worker -> Status] /\ req \in [Worker -> Handler \cup {None}]
    BY DEF IInv, TypeOK
  <2>3. \A h \in Handler : hpc[h] \in {"post", "wait"} =>
           status'[hobj[h]] = status[hobj[h]] /\ req'[hobj[h]] = req[hobj[h]]
    BY <1>a, <1>b, <2>1, <2>2 DEF IInv, Links
  <2> QED
    BY <1>b, <2>3 DEF IInv, HandlersInv
<1>6. WorkersInv'
  BY <1>a, <1>b DEF IInv, WorkersInv, Starting, Waits, TypeOK, Resting
<1>7. NoneLost'
  BY <1>a, <1>b DEF IInv, NoneLost, Asleep, Findable, Idle, TypeOK, Links, Caller
<1>8. CountInv'
  BY CountSame DEF IInv, Counted, FinalizeTell, Holds, vhostVars, objVars, wrkVars, hndVars,
       finVars
<1> QED
  BY <1>1, <1>2, <1>3, <1>4, <1>5, <1>6, <1>7, <1>8 DEF IInv
-----------------------------------------------------------------------------
LEMMA InitIInv == Init => IInv
<1> SUFFICES ASSUME Init PROVE IInv
  OBVIOUS
<1>1. TypeOK
  <2>1. Root \in VHost /\ 0 \in 0..MaxTries
    BY ConstantsAssumption DEF Root, VHost
  <2>2. elts \in [VHost -> Seq(Worker)] /\ \A v \in VHost : nelts[v] <= Len(elts[v])
    BY DEF Init
  <2>3. /\ nelts \in [VHost -> Nat] /\ count \in [VHost -> Nat] /\ shutdown \in BOOLEAN
        /\ child \in {"running", "ended", "crashed"}
    BY DEF Init
  <2>4. /\ status \in [Worker -> Status] /\ req \in [Worker -> Handler \cup {None}]
        /\ code \in [Worker -> Handler \cup {"ok"}] /\ conf \in [Worker -> VHost \cup {None}]
        /\ server \in [Worker -> VHost \cup {None}]
        /\ waiters \in [Worker -> SUBSET (Worker \cup Handler)]
        /\ wpc \in [Worker -> WorkerPc] /\ keepGoing \in [Worker -> BOOLEAN]
    BY DEF Init, Status, WorkerPc
  <2>5. /\ hpc \in [Handler -> {"idle", "create", "post", "wait"}] /\ hvhost \in [Handler -> VHost]
        /\ hobj \in [Handler -> Worker \cup {None}]
        /\ answer \in [Handler -> Handler \cup {None, "ok", "refused"}]
    BY <2>1 DEF Init
  <2>6. /\ fpc \in [Caller -> {"none", "count", "look", "read", "take", "tell", "recount"}]
        /\ fidx \in [Caller -> VHost] /\ ftry \in [Caller -> 0..MaxTries]
        /\ fn \in [Caller -> Nat] /\ fobj \in [Caller -> Worker \cup {None}]
    BY <2>1 DEF Init
  <2> QED
    BY <2>2, <2>3, <2>4, <2>5, <2>6 DEF TypeOK
<1>2. Links /\ Popped /\ HandlersInv /\ WorkersInv
  BY DEF Init, Links, Popped, HandlersInv, WorkersInv, Starting, Caller
<1>3. Arrays
  BY DEF Init, Arrays
<1>4. NoneLost
  BY DEF Init, NoneLost, Asleep
<1>5. CountInv
  <2>1. ASSUME NEW v \in VHost PROVE CountedOf(v) = {} /\ count[v] = 0
    BY DEF Init, CountedOf, Counted
  <2> QED
    BY <2>1, FS_EmptySet DEF CountInv
<1> QED
  BY <1>1, <1>2, <1>3, <1>4, <1>5 DEF IInv

LEMMA StutterIInv == ASSUME IInv, UNCHANGED vars PROVE IInv'
<1>1. UNCHANGED <<shutdown, child, elts, nelts, count, status, req, code, conf, server,
                  waiters, wpc, keepGoing, hpc, hvhost, hobj, answer, fpc, fidx, ftry, fn,
                  fobj>>
  BY DEF vars, vhostVars, objVars, wrkVars, hndVars, finVars
<1>2. TypeOK' /\ Links' /\ Popped' /\ HandlersInv'
  BY <1>1 DEF IInv, TypeOK, Links, Popped, Resting, HandlersInv
<1>3. Arrays'
  BY <1>1 DEF IInv, Arrays, Resting
<1>4. WorkersInv'
  BY <1>1 DEF IInv, WorkersInv, Waits
<1>5. NoneLost'
  BY <1>1 DEF IInv, NoneLost, Asleep, Findable, Idle
<1>6. CountInv'
  BY <1>1, CountSame DEF IInv, Counted
<1> QED
  BY <1>2, <1>3, <1>4, <1>5, <1>6 DEF IInv

LEMMA NextIInv == IInv /\ [Next]_vars => IInv'
<1> SUFFICES ASSUME IInv, [Next]_vars PROVE IInv'
  OBVIOUS
<1>1. CASE MainFinalize
  BY <1>1, MainFinalizeStep
<1>2. ASSUME NEW w \in Worker, WorkerStep(w) PROVE IInv'
  BY <1>2, WorkerStartStep, WorkerAllocStep, WorkerConfStep, WorkerConfCrashStep, WorkerCountStep,
     WorkerSleepStep, WorkerQuitStep, WorkerBeginStep, WorkerReplyStep, WorkerResleepStep,
     WorkerDoneStep, WorkerPushStep, WorkerLeaveStep, WorkerGoneStep DEF WorkerStep
<1>3. ASSUME NEW w \in Worker, SpuriousWakeup(w) \/ WorkerExitThread(w) \/ WorkerExitAll(w)
      PROVE  IInv'
  BY <1>3, SpuriousWakeupStep, WorkerExitThreadStep, WorkerExitAllStep
<1>4. ASSUME NEW h \in Handler, HandlerStep(h) PROVE IInv'
  BY <1>4, HandlerCreateStep, HandlerPostStep, HandlerResleepStep, HandlerReturnStep DEF HandlerStep
<1>5. ASSUME NEW h \in Handler, NEW v \in VHost,
             HandlerRefuse(h, v) \/ HandlerPop(h, v) \/ HandlerMiss(h, v)
      PROVE  IInv'
  BY <1>5, HandlerRefuseStep, HandlerPopStep, HandlerMissStep
<1>6. ASSUME NEW c \in Caller, FinalizeStep(c) PROVE IInv'
  BY <1>6, FinalizeCountStep, FinalizeLookStep, FinalizeReadStep, FinalizeReadCrashStep,
     FinalizeTakeStep, FinalizeTellStep DEF FinalizeStep
<1>7. CASE UNCHANGED vars
  BY <1>7, StutterIInv
<1> QED
  BY <1>1, <1>2, <1>3, <1>4, <1>5, <1>6, <1>7 DEF Next, Terminated

(* The inductive invariant holds in every reachable state of the lazy        *)
(* bridge.                                                                   *)
THEOREM InductiveInvariant == Spec => []IInv
BY InitIInv, NextIInv, PTL DEF Spec

(* The variables of rivet_lazy_mpm.c keep their types.                       *)
THEOREM TypeCorrect == Spec => []TypeOK
<1>1. IInv => TypeOK
  BY DEF IInv
<1> QED
  BY <1>1, InductiveInvariant, PTL

(* A request is served by a thread whose interpreter was built for its own   *)
(* virtual host, however LazyBridge_Request, the workers and the finalisers  *)
(* create, push and pop threads.                                             *)
THEOREM HostsIsolated == Spec => []VHostsIsolated
<1>1. IInv => VHostsIsolated
  <2> SUFFICES ASSUME IInv PROVE VHostsIsolated
    OBVIOUS
  <2>1. \A v \in VHost : nelts[v] \in Nat /\ nelts[v] <= Len(elts[v]) /\ Len(elts[v]) \in Nat
    BY ElementsAreWorkers DEF IInv, TypeOK
  <2>2. ASSUME NEW v \in VHost, NEW i \in 1..nelts[v] PROVE server[elts[v][i]] = v
    BY <2>1 DEF IInv, Arrays
  <2> QED
    BY <2>2 DEF VHostsIsolated, Idle, IInv, Links
<1> QED
  BY <1>1, InductiveInvariant, PTL

(* Until the child stops no idle worker of request_processor is lost, and    *)
(* threads_count is the number of threads between their init and exit        *)
(* scripts.                                                                  *)
THEOREM NobodyLost == Spec => []NoWorkerLost
<1>1. IInv => NoWorkerLost
  BY DEF IInv, NoneLost, CountInv, CountedOf, NoWorkerLost
<1> QED
  BY <1>1, InductiveInvariant, PTL
-----------------------------------------------------------------------------
(* The lazy bridge implements RequestService, for every value of the         *)
(* constants: each step of a thread of rivet_lazy_mpm.c is a step of the     *)
(* abstract service or leaves it as it is.                                   *)

Phases == [h \in Handler |-> PhaseOf(h)]
Up == child = "running"
Places == {"idle", "create", "post", "wait"}

(* Only handler g's request moves, from one phase to another.                *)
Moves(g, from, to) ==
    /\ PhaseOf(g) = from /\ PhaseOf(g)' = to
    /\ \A h \in Handler \ {g} : PhaseOf(h)' = PhaseOf(h)

LEMMA MovesAdvances ==
    ASSUME NEW g \in Handler, NEW from, NEW to, Moves(g, from, to)
    PROVE  Service!Advance(g, from, to)
BY DEF Moves, Service!Advance

LEMMA HandlerTypes ==
    ASSUME IInv
    PROVE  /\ hpc \in [Handler -> Places] /\ hobj \in [Handler -> Worker \cup {None}]
           /\ status \in [Worker -> Status]
           /\ \A h \in Handler : hpc[h] \in {"post", "wait"} => hobj[h] \in Worker
BY DEF IInv, TypeOK, Links, Places

(* A step that changes no handler's place or record, and no record's status, *)
(* moves no request.                                                         *)
LEMMA NothingMoves ==
    ASSUME UNCHANGED <<hpc, hobj, status>>
    PROVE  UNCHANGED <<Phases, hobj>>
BY DEF Phases, PhaseOf

(* The requests of the other handlers stay where they are when the only      *)
(* record whose status changes is one they do not wait on.                   *)
LEMMA OthersStay ==
    ASSUME IInv, NEW g \in Handler, NEW w \in Worker, NEW s,
           status' = status \/ status' = [status EXCEPT ![w] = s],
           \A h \in Handler \ {g} : hpc'[h] = hpc[h] /\ hobj'[h] = hobj[h] /\ hobj[h] # w
    PROVE  \A h \in Handler \ {g} : PhaseOf(h)' = PhaseOf(h)
<1> SUFFICES ASSUME NEW h \in Handler \ {g} PROVE PhaseOf(h)' = PhaseOf(h)
  OBVIOUS
<1>1. hpc[h] = "wait" => status'[hobj[h]] = status[hobj[h]]
  BY HandlerTypes
<1>2. hpc[h] \in Places
  BY HandlerTypes
<1> QED
  BY <1>1, <1>2 DEF PhaseOf, Places

(* Two handlers never hold the same record.                                  *)
LEMMA OneHolder ==
    ASSUME IInv, NEW g \in Handler, hpc[g] \in {"post", "wait"}
    PROVE  hobj[g] \in Worker /\ \A h \in Handler \ {g} : hobj[h] # hobj[g]
BY DEF IInv, TypeOK, Links

(* The record that handler g waits on changes its status.                    *)
LEMMA HeldMoves ==
    ASSUME IInv, NEW g \in Handler, hpc[g] = "wait", UNCHANGED <<hpc, hobj>>,
           NEW s, status' = [status EXCEPT ![hobj[g]] = s]
    PROVE  /\ \A h \in Handler \ {g} : PhaseOf(h)' = PhaseOf(h)
           /\ PhaseOf(g)' = CASE s = "processing" -> "running"
                              [] s = "done" -> "answered" [] OTHER -> "given"
<1>1. hobj[g] \in Worker /\ \A h \in Handler \ {g} : hobj[h] # hobj[g]
  BY OneHolder
<1>2. \A h \in Handler \ {g} : PhaseOf(h)' = PhaseOf(h)
  BY <1>1, OthersStay
<1>3. status'[hobj[g]] = s
  BY <1>1, HandlerTypes
<1> QED
  BY <1>2, <1>3 DEF PhaseOf
-----------------------------------------------------------------------------
LEMMA InitRefines == Init => Service!Init
BY DEF Init, Service!Init, PhaseOf

LEMMA MissRefines ==
    ASSUME IInv, NEW g \in Handler, NEW v \in VHost, HandlerMiss(g, v) PROVE Service!Ask(g)
<1>1. /\ hpc[g] = "idle" /\ ~shutdown /\ hpc' = [hpc EXCEPT ![g] = "create"]
      /\ UNCHANGED <<hobj, status, shutdown, child>>
  BY DEF HandlerMiss, Enter, objVars
<1>2. Moves(g, "none", "asked")
  BY <1>1, HandlerTypes DEF Moves, PhaseOf
<1> QED
  BY <1>1, <1>2, MovesAdvances DEF Service!Ask

(* The two ways a request is given to a thread.                              *)
LEMMA GiveRefines ==
    ASSUME IInv, NEW g \in Handler, NEW w \in Worker, hobj' = [hobj EXCEPT ![g] = w],
           \A h \in Handler : hobj[h] # w,
           hpc[g] = "create" \/ (hpc[g] = "idle" /\ ~shutdown),
           hpc' = [hpc EXCEPT ![g] = "post"],
           status' = status \/ status' = [status EXCEPT ![w] = "idle"],
           UNCHANGED <<shutdown, child>>
    PROVE  Service!Give(g, w)
<1>1. \A h \in Handler \ {g} : hpc'[h] = hpc[h] /\ hobj'[h] = hobj[h] /\ hobj[h] # w
  BY HandlerTypes
<1>2. \A h \in Handler \ {g} : PhaseOf(h)' = PhaseOf(h)
  BY <1>1, OthersStay
<1>3. PhaseOf(g)' = "given"
  BY HandlerTypes DEF PhaseOf
<1>4. CASE hpc[g] = "create"
  <2>1. Moves(g, "asked", "given")
    BY <1>2, <1>3, <1>4 DEF Moves, PhaseOf
  <2> QED
    BY <2>1, MovesAdvances DEF Service!Give
<1>5. CASE hpc[g] = "idle" /\ ~shutdown
  <2>1. Moves(g, "none", "given")
    BY <1>2, <1>3, <1>5 DEF Moves, PhaseOf
  <2> QED
    BY <1>5, <2>1, MovesAdvances DEF Service!Give
<1> QED
  BY <1>4, <1>5

LEMMA CreateRefines ==
    ASSUME IInv, NEW g \in Handler, HandlerCreate(g) PROVE \E w \in Worker : Service!Give(g, w)
<1>1. PICK w \in Worker : /\ Reusable(w) /\ hobj' = [hobj EXCEPT ![g] = w]
                          /\ status' = [status EXCEPT ![w] = "idle"]
  BY DEF HandlerCreate
<1>2. /\ hpc[g] = "create" /\ hpc' = [hpc EXCEPT ![g] = "post"]
      /\ UNCHANGED <<shutdown, child>>
  BY DEF HandlerCreate
<1>3. \A h \in Handler : hobj[h] # w
  BY <1>1 DEF Reusable
<1> QED
  BY <1>1, <1>2, <1>3, GiveRefines

LEMMA PopRefines ==
    ASSUME IInv, NEW g \in Handler, NEW v \in VHost, HandlerPop(g, v)
    PROVE  \E w \in Worker : Service!Give(g, w)
<1>1. /\ hpc[g] = "idle" /\ ~shutdown /\ nelts[v] > 0 /\ hpc' = [hpc EXCEPT ![g] = "post"]
      /\ hobj' = [hobj EXCEPT ![g] = elts[v][nelts[v]]]
      /\ UNCHANGED <<status, shutdown, child>>
  BY DEF HandlerPop, Enter, ArrayOf, objVars
<1>2. nelts[v] \in 1..Len(elts[v])
  BY <1>1 DEF IInv, TypeOK
<1>3. PICK w \in Worker : w = elts[v][nelts[v]]
  BY <1>2, ElementsAreWorkers DEF IInv
<1>4. \A h \in Handler : hobj[h] # w
  BY <1>2, <1>3 DEF IInv, Arrays
<1> QED
  BY <1>1, <1>3, <1>4, GiveRefines

(* The request is posted: it was given already.                              *)
LEMMA PostStutters ==
    ASSUME IInv, NEW g \in Handler, HandlerPost(g)
    PROVE  UNCHANGED <<Phases, hobj, shutdown, child>>
<1>1. /\ hpc[g] = "post" /\ hpc' = [hpc EXCEPT ![g] = "wait"]
      /\ status' = [status EXCEPT ![hobj[g]] = "init"]
      /\ UNCHANGED <<hobj, shutdown, child>>
  BY DEF HandlerPost
<1>2. hobj[g] \in Worker /\ \A h \in Handler \ {g} : hobj[h] # hobj[g]
  BY <1>1, OneHolder
<1>3. \A h \in Handler \ {g} : PhaseOf(h)' = PhaseOf(h)
  <2>1. \A h \in Handler \ {g} : hpc'[h] = hpc[h]
    BY <1>1, HandlerTypes
  <2> QED
    BY <1>1, <1>2, <2>1, OthersStay
<1>4. PhaseOf(g)' = PhaseOf(g)
  <2>1. hpc'[g] = "wait" /\ hobj'[g] = hobj[g] /\ status'[hobj[g]] = "init"
    BY <1>1, <1>2, HandlerTypes
  <2> QED
    BY <1>1, <2>1 DEF PhaseOf
<1> QED
  BY <1>1, <1>3, <1>4 DEF Phases

LEMMA ReturnRefines ==
    ASSUME IInv, NEW g \in Handler, HandlerReturn(g) PROVE Service!Return(g)
<1>1. /\ hpc[g] = "wait" /\ status[hobj[g]] = "done" /\ hpc' = [hpc EXCEPT ![g] = "idle"]
      /\ hobj' = [hobj EXCEPT ![g] = None] /\ status' = [status EXCEPT ![hobj[g]] = "idle"]
      /\ UNCHANGED <<shutdown, child>>
  BY DEF HandlerReturn, Woken, Completed
<1>2. hobj[g] \in Worker /\ \A h \in Handler \ {g} : hobj[h] # hobj[g]
  BY <1>1, OneHolder
<1>3. \A h \in Handler \ {g} : PhaseOf(h)' = PhaseOf(h)
  <2>1. \A h \in Handler \ {g} : hpc'[h] = hpc[h] /\ hobj'[h] = hobj[h]
    BY <1>1, HandlerTypes
  <2> QED
    BY <1>1, <1>2, <2>1, OthersStay
<1>4. PhaseOf(g) = "answered" /\ PhaseOf(g)' = "none"
  BY <1>1, HandlerTypes DEF PhaseOf
<1>5. Moves(g, "answered", "none")
  BY <1>3, <1>4 DEF Moves
<1> QED
  BY <1>1, <1>5, MovesAdvances DEF Service!Return

LEMMA BeginRefines ==
    ASSUME IInv, NEW w \in Worker, WorkerBegin(w) PROVE \E g \in Handler : Service!Begin(g)
<1>1. /\ AtTop(w) /\ status[w] = "init" /\ status' = [status EXCEPT ![w] = "processing"]
      /\ UNCHANGED <<hpc, hobj, shutdown, child>>
  BY DEF WorkerBegin, hndVars
<1>2. PICK g \in Handler : Waits(g, w)
  BY <1>1 DEF AtTop, IInv, WorkersInv
<1>3. hpc[g] = "wait" /\ hobj[g] = w
  BY <1>2 DEF Waits
<1>4. Moves(g, "given", "running")
  <2>1. PhaseOf(g) = "given"
    BY <1>1, <1>3 DEF PhaseOf
  <2>2. PhaseOf(g)' = "running" /\ \A h \in Handler \ {g} : PhaseOf(h)' = PhaseOf(h)
    BY <1>1, <1>3, HeldMoves
  <2> QED
    BY <2>1, <2>2 DEF Moves
<1> QED
  BY <1>1, <1>4, MovesAdvances DEF Service!Begin

LEMMA ReplyRefines ==
    ASSUME IInv, NEW w \in Worker, WorkerReply(w) PROVE \E g \in Handler : Service!Finish(g)
<1>1. /\ wpc[w] = "serve" /\ status' = [status EXCEPT ![w] = "done"]
      /\ UNCHANGED <<hpc, hobj, shutdown, child>>
  BY DEF WorkerReply, WorkerMove, hndVars
<1>2. PICK g \in Handler : Waits(g, w)
  BY <1>1 DEF IInv, WorkersInv
<1>3. hpc[g] = "wait" /\ hobj[g] = w /\ status[w] = "processing"
  BY <1>1, <1>2 DEF Waits, IInv, WorkersInv
<1>4. Moves(g, "running", "answered")
  <2>1. PhaseOf(g) = "running"
    BY <1>3 DEF PhaseOf
  <2>2. PhaseOf(g)' = "answered" /\ \A h \in Handler \ {g} : PhaseOf(h)' = PhaseOf(h)
    BY <1>1, <1>3, HeldMoves
  <2> QED
    BY <2>1, <2>2 DEF Moves
<1> QED
  BY <1>1, <1>4, MovesAdvances DEF Service!Finish

(* A record that a finaliser orders to exit is in no handler's hands.        *)
LEMMA TellStutters ==
    ASSUME IInv, NEW c \in Caller, FinalizeTell(c)
    PROVE  UNCHANGED <<Phases, hobj, shutdown, child>>
<1>1. /\ fpc[c] = "tell" /\ status' = [status EXCEPT ![fobj[c]] = "thread_exit"]
      /\ UNCHANGED <<hpc, hobj, shutdown, child>>
  BY DEF FinalizeTell, hndVars
<1>2. fobj[c] \in Worker /\ \A h \in Handler : hobj[h] # fobj[c]
  BY <1>1 DEF IInv, TypeOK, Links, Popped
<1>3. ASSUME NEW h \in Handler PROVE PhaseOf(h)' = PhaseOf(h)
  <2>1. hpc[h] = "wait" => status'[hobj[h]] = status[hobj[h]]
    BY <1>1, <1>2, HandlerTypes
  <2>2. hpc[h] \in Places
    BY HandlerTypes
  <2> QED
    BY <1>1, <2>1, <2>2 DEF PhaseOf, Places
<1> QED
  BY <1>1, <1>3 DEF Phases
-----------------------------------------------------------------------------
(* Every other step leaves the requests alone; it may stop the child or end  *)
(* the process.                                                              *)
Elsewhere ==
    \/ MainFinalize
    \/ \E w \in Worker :
          \/ WorkerStart(w) \/ WorkerAlloc(w) \/ WorkerConf(w) \/ WorkerConfCrash(w)
          \/ WorkerCount(w) \/ WorkerSleep(w) \/ WorkerQuit(w) \/ WorkerResleep(w)
          \/ WorkerDone(w) \/ WorkerPush(w) \/ WorkerLeave(w) \/ WorkerGone(w)
          \/ SpuriousWakeup(w) \/ WorkerExitThread(w) \/ WorkerExitAll(w)
    \/ \E h \in Handler : HandlerResleep(h) \/ \E v \in VHost : HandlerRefuse(h, v)
    \/ \E c \in Caller : \/ FinalizeCount(c) \/ FinalizeLook(c) \/ FinalizeRead(c)
                         \/ FinalizeReadCrash(c) \/ FinalizeTake(c)

StopsOrEnds == \/ UNCHANGED <<shutdown, child>>
               \/ shutdown' = TRUE /\ child' = child
               \/ child' \in {"ended", "crashed"} /\ shutdown' = shutdown

LEMMA ElsewhereStutters ==
    ASSUME Elsewhere
    PROVE  UNCHANGED <<hpc, hobj, status>> /\ StopsOrEnds
<1>1. CASE MainFinalize
  BY <1>1 DEF MainFinalize, objVars, hndVars, StopsOrEnds
<1>2. ASSUME NEW w \in Worker,
             \/ WorkerStart(w) \/ WorkerAlloc(w) \/ WorkerConf(w) \/ WorkerConfCrash(w)
             \/ WorkerCount(w) \/ WorkerSleep(w) \/ WorkerQuit(w) \/ WorkerResleep(w)
             \/ WorkerDone(w) \/ WorkerPush(w) \/ WorkerLeave(w) \/ WorkerGone(w)
             \/ SpuriousWakeup(w) \/ WorkerExitThread(w) \/ WorkerExitAll(w)
      PROVE  UNCHANGED <<hpc, hobj, status>> /\ StopsOrEnds
  BY <1>2 DEF WorkerStart, WorkerAlloc, WorkerConf, WorkerConfCrash, WorkerCount, WorkerSleep,
              WorkerQuit, WorkerResleep, WorkerDone, WorkerPush, WorkerLeave, WorkerGone,
              SpuriousWakeup, WorkerExitThread, WorkerExitAll, objVars, hndVars, StopsOrEnds
<1>3. ASSUME NEW h \in Handler, HandlerResleep(h) \/ \E v \in VHost : HandlerRefuse(h, v)
      PROVE  UNCHANGED <<hpc, hobj, status>> /\ StopsOrEnds
  BY <1>3 DEF HandlerResleep, HandlerRefuse, objVars, hndVars, StopsOrEnds
<1>4. ASSUME NEW c \in Caller, \/ FinalizeCount(c) \/ FinalizeLook(c) \/ FinalizeRead(c)
                               \/ FinalizeReadCrash(c) \/ FinalizeTake(c)
      PROVE  UNCHANGED <<hpc, hobj, status>> /\ StopsOrEnds
  <2>1. CASE FinalizeCount(c)
    BY <2>1 DEF FinalizeCount, Return, objVars, hndVars, StopsOrEnds
  <2> QED
    BY <1>4, <2>1 DEF FinalizeLook, FinalizeRead, FinalizeReadCrash, FinalizeTake, objVars,
                      hndVars, StopsOrEnds
<1> QED
  BY <1>1, <1>2, <1>3, <1>4 DEF Elsewhere

LEMMA StepRefines == ASSUME IInv, [Next]_vars PROVE [Service!Next]_(Service!vars)
<1>1. CASE Up /\ Elsewhere
  <2>1. UNCHANGED <<hpc, hobj, status>> /\ StopsOrEnds
    BY <1>1, ElsewhereStutters
  <2>2. UNCHANGED <<Phases, hobj>>
    BY <2>1, NothingMoves
  <2>3. CASE UNCHANGED <<shutdown, child>>
    BY <2>2, <2>3 DEF Service!vars, Phases
  <2>4. CASE shutdown' = TRUE /\ child' = child
    <3>1. Service!Stop
      BY <2>2, <2>4 DEF Service!Stop, Phases
    <3> QED
      BY <1>1, <3>1 DEF Service!Next, Up
  <2>5. CASE child' \in {"ended", "crashed"} /\ shutdown' = shutdown
    <3>1. Service!End
      BY <2>2, <2>5 DEF Service!End, Phases
    <3> QED
      BY <1>1, <3>1 DEF Service!Next, Up
  <2> QED
    BY <2>1, <2>3, <2>4, <2>5 DEF StopsOrEnds
<1>2. ASSUME Up, NEW g \in Handler, NEW v \in VHost, HandlerMiss(g, v) PROVE Service!Next
  BY <1>2, MissRefines DEF Service!Next, Up
<1>3. ASSUME Up, NEW g \in Handler, NEW v \in VHost, HandlerPop(g, v) PROVE Service!Next
  BY <1>3, PopRefines DEF Service!Next, Up
<1>4. ASSUME Up, NEW g \in Handler, HandlerCreate(g) PROVE Service!Next
  BY <1>4, CreateRefines DEF Service!Next, Up
<1>5. ASSUME Up, NEW g \in Handler, HandlerReturn(g) PROVE Service!Next
  BY <1>5, ReturnRefines DEF Service!Next, Up
<1>6. ASSUME Up, NEW w \in Worker, WorkerBegin(w) PROVE Service!Next
  BY <1>6, BeginRefines DEF Service!Next, Up
<1>7. ASSUME Up, NEW w \in Worker, WorkerReply(w) PROVE Service!Next
  BY <1>7, ReplyRefines DEF Service!Next, Up
<1>8. ASSUME \/ \E g \in Handler : HandlerPost(g)
             \/ \E c \in Caller : FinalizeTell(c)
      PROVE  UNCHANGED Service!vars
  BY <1>8, PostStutters, TellStutters DEF Service!vars, Phases
<1>9. CASE UNCHANGED vars
  <2>1. UNCHANGED <<hpc, hobj, status, shutdown, child>>
    BY <1>9 DEF vars, objVars, hndVars
  <2>2. UNCHANGED <<Phases, hobj>>
    BY <2>1, NothingMoves
  <2> QED
    BY <2>1, <2>2 DEF Service!vars, Phases
<1> QED
  BY <1>1, <1>2, <1>3, <1>4, <1>5, <1>6, <1>7, <1>8, <1>9
  DEF Next, Terminated, Elsewhere, WorkerStep, HandlerStep, FinalizeStep, Up

(* rivet_lazy_mpm.c keeps the promise of RequestService: each request is     *)
(* given to one thread that has no other, processed once, answered and only  *)
(* then forgotten, and none is accepted in a child that stops.               *)
THEOREM LazyImplementsService == Spec => ServiceSpec
<1>1. IInv /\ [Next]_vars => [Service!Next]_(Service!vars)
  BY StepRefines
<1> QED
  BY <1>1, InitRefines, InductiveInvariant, PTL DEF Spec, ServiceSpec, Service!Spec
=============================================================================
