------------------------------ MODULE FoldFacts ------------------------------
(* Induction and folds without operator parameters.  The library states      *)
(* induction for a predicate P(_); here a property is the set of the numbers *)
(* that have it.  A fold over a sequence is a function on the sets of its    *)
(* positions; what such a function is, is stated once for every fold.        *)
EXTENDS SequencesExt, SequenceTheorems, WellFoundedInduction, TLAPS

(* A set of numbers that is not empty has a least one.                       *)
LEMMA LeastNat ==
    ASSUME NEW T, T \subseteq Nat, T # {}
    PROVE  \E n \in T : \A m \in T : n <= m
<1>1. IsWellFoundedOn(OpToRel(<, Nat), Nat)
  BY NatLessThanWellFounded
<1>2. PICK n \in T : \A m \in T : ~ (<<m, n>> \in OpToRel(<, Nat))
  <2> DEFINE R == OpToRel(<, Nat)
  <2> HIDE DEF R
  <2> QED BY <1>1, WFMin DEF R
<1>3. \A m \in T : ~(m < n)
  BY <1>2 DEF OpToRel
<1> QED BY <1>3

(* A set that holds 0, and with every number below n the next, holds 0..n.   *)
LEMMA Induction ==
    ASSUME NEW n \in Nat, NEW T, 0 \in T,
           \A k \in 0..n : k \in T /\ k < n => k + 1 \in T
    PROVE  \A k \in 0..n : k \in T
<1> SUFFICES ASSUME NEW j \in 0..n, j \notin T PROVE FALSE
  OBVIOUS
<1> DEFINE Bad == {k \in 0..n : k \notin T}
<1>1. PICK m \in Bad : \A k \in Bad : m <= k
  <2>1. Bad \subseteq Nat /\ j \in Bad OBVIOUS
  <2> HIDE DEF Bad
  <2> QED BY <2>1, LeastNat
<1>2. m # 0 /\ m \in 1..n /\ m \notin T
  BY <1>1
<1>3. m - 1 \in T
  BY <1>1, <1>2
<1> QED BY <1>2, <1>3

(* What is in s and not exceeded there is its maximum.                       *)
LEMMA MaxIs ==
    ASSUME NEW s, s \subseteq Nat, NEW m \in s, \A k \in s : k <= m
    PROVE  Max(s) = m
<1> DEFINE Top(x) == x \in s /\ \A y \in s : x >= y
<1>1. Top(m)
  OBVIOUS
<1>2. Max(s) = CHOOSE x : Top(x)
  BY DEF Max
<1>3. Top(Max(s))
  <2> HIDE DEF Top
  <2> QED BY <1>1, <1>2
<1>4. Max(s) \in s /\ m \in Nat /\ Max(s) \in Nat /\ Max(s) >= m /\ Max(s) <= m
  BY <1>3
<1> QED BY <1>4

(* A set of positions that is not empty has a maximum.                       *)
LEMMA MaxIn ==
    ASSUME NEW n \in Nat, NEW s \in SUBSET (1..n), s # {}
    PROVE  Max(s) \in s
<1> DEFINE T == {n - k : k \in s}
<1>1. T \subseteq Nat /\ T # {}
  <2>1. PICK k \in s : TRUE
    OBVIOUS
  <2>2. n - k \in T
    OBVIOUS
  <2>3. \A j \in s : n - j \in Nat
    OBVIOUS
  <2> QED BY <2>2, <2>3
<1>2. PICK t \in T : \A u \in T : t <= u
  <2> HIDE DEF T
  <2> QED BY <1>1, LeastNat
<1>3. PICK m \in s : t = n - m
  BY <1>2
<1>4. \A k \in s : k <= m
  <2> SUFFICES ASSUME NEW k \in s PROVE k <= m
    OBVIOUS
  <2>1. n - m <= n - k
    BY <1>2, <1>3
  <2> QED BY <2>1
<1>5. s \subseteq Nat
  OBVIOUS
<1> QED BY <1>4, <1>5, MaxIs

(* The last of the first k positions is k.                                   *)
LEMMA MaxOfPrefix ==
    ASSUME NEW k \in Nat, k > 0
    PROVE  Max(1..k) = k /\ (1..k) \ {k} = 1..(k - 1) /\ 1..k # {}
<1>1. Max(1..k) = k
  <2>1. 1..k \subseteq Nat /\ k \in 1..k /\ \A j \in 1..k : j <= k
    OBVIOUS
  <2> QED BY <2>1, MaxIs
<1> QED BY <1>1

(* f is the function a fold over n positions is defined by: its value at a   *)
(* set of positions comes from that of the set without the last.             *)
Iterates(f, n, base, G) ==
    \A s \in SUBSET (1..n) :
        f[s] = IF s = {} THEN base ELSE G[<<f[s \ {Max(s)}], Max(s)>>]

(* There is such a function, for every set V the step G stays in.            *)
LEMMA IterationExists ==
    ASSUME NEW n \in Nat, NEW V, NEW base \in V, NEW G \in [V \X (1..n) -> V]
    PROVE  \E f \in [SUBSET (1..n) -> V] : Iterates(f, n, base, G)
<1> DEFINE Eq(f, m) == \A s \in SUBSET (1..m) :
                   f[s] = IF s = {} THEN base ELSE G[<<f[s \ {Max(s)}], Max(s)>>]
           T == {m \in 0..n : \E f \in [SUBSET (1..m) -> V] : Eq(f, m)}
<1>1. 0 \in T
  <2>1. SUBSET (1..0) = {{}} OBVIOUS
  <2> DEFINE f == [s \in SUBSET (1..0) |-> base]
  <2>2. f \in [SUBSET (1..0) -> V] /\ Eq(f, 0)
    BY <2>1
  <2>3. \E g \in [SUBSET (1..0) -> V] : Eq(g, 0)
    <3> HIDE DEF f, Eq
    <3> QED BY <2>2
  <2>4. 0 \in 0..n
    OBVIOUS
  <2> HIDE DEF Eq
  <2> QED BY <2>3, <2>4
<1>2. ASSUME NEW m \in 0..n, m \in T, m < n PROVE m + 1 \in T
  <2>1. PICK g \in [SUBSET (1..m) -> V] : Eq(g, m)
    BY <1>2
  <2> DEFINE f == [s \in SUBSET (1..(m+1)) |->
                      IF m + 1 \in s THEN G[<<g[s \ {m+1}], m + 1>>] ELSE g[s]]
  <2>2. ASSUME NEW s \in SUBSET (1..(m+1)) PROVE s \ {m+1} \in SUBSET (1..m) /\ (m + 1 \notin s => s \in SUBSET (1..m))
    OBVIOUS
  <2>3. f \in [SUBSET (1..(m+1)) -> V]
    <3>1. ASSUME NEW s \in SUBSET (1..(m+1)), m + 1 \in s
          PROVE  G[<<g[s \ {m+1}], m + 1>>] \in V
      <4>1. m + 1 \in 1..n /\ g[s \ {m+1}] \in V
        BY <2>2, <1>2, <2>1
      <4> QED BY <4>1
    <3>2. ASSUME NEW s \in SUBSET (1..(m+1)), m + 1 \notin s PROVE g[s] \in V
      BY <3>2, <2>2
    <3> QED BY <3>1, <3>2
  <2>4. \A s \in SUBSET (1..m) : f[s] = g[s] /\ s \in SUBSET (1..(m+1)) 
    OBVIOUS
  <2>5. ASSUME NEW s \in SUBSET (1..(m+1)), s # {}
        PROVE  f[s] = G[<<f[s \ {Max(s)}], Max(s)>>]
    <3>1. CASE m + 1 \in s
      <4>1. Max(s) = m + 1
        <5>1. s \subseteq Nat /\ \A j \in s : j <= m + 1
          OBVIOUS
        <5> QED BY <5>1, <3>1, MaxIs
      <4> QED BY <4>1, <3>1, <2>2, <2>4
    <3>2. CASE m + 1 \notin s
      <4>1. s \in SUBSET (1..m) /\ s \ {Max(s)} \in SUBSET (1..m)
        BY <3>2, <2>2
      <4>2. g[s] = G[<<g[s \ {Max(s)}], Max(s)>>]
        BY <4>1, <2>1, <2>5
      <4> HIDE DEF f
      <4> QED BY <4>1, <4>2, <2>4
    <3> QED BY <3>1, <3>2
  <2>6. f[{}] = base
    <3>1. g[{}] = base
      BY <2>1
    <3> QED BY <3>1, <2>4
  <2>7. Eq(f, m+1)
    <3> HIDE DEF f
    <3> QED BY <2>5, <2>6
  <2>8. m + 1 \in 0..n
    BY <1>2
  <2> HIDE DEF f, Eq
  <2> QED BY <2>3, <2>7, <2>8
<1>3. n \in T
  <2> HIDE DEF T
  <2> QED BY <1>1, <1>2, Induction
<1>4. PICK f \in [SUBSET (1..n) -> V] : Eq(f, n)
  BY <1>3
<1> QED BY <1>4 DEF Iterates

(* What the fold computes, one position at a time.                           *)
LEMMA IterationSteps ==
    ASSUME NEW n \in Nat, NEW V, NEW base \in V, NEW G \in [V \X (1..n) -> V],
           NEW f, Iterates(f, n, base, G)
    PROVE  /\ f[1..0] = base
           /\ \A k \in 1..n : f[1..k] = G[<<f[1..(k-1)], k>>]
           /\ \A k \in 0..n : f[1..k] \in V
<1>1. f[1..0] = base
  BY 1..0 = {} DEF Iterates
<1>2. ASSUME NEW k \in 1..n PROVE f[1..k] = G[<<f[1..(k-1)], k>>]
  <2>1. k \in Nat /\ k > 0 /\ 1..k \in SUBSET (1..n) /\ 1..(k-1) \in SUBSET (1..n)
    OBVIOUS
  <2>2. Max(1..k) = k /\ (1..k) \ {k} = 1..(k - 1) /\ 1..k # {}
    BY <2>1, MaxOfPrefix
  <2> QED BY <2>1, <2>2 DEF Iterates
<1> DEFINE T == {k \in 0..n : f[1..k] \in V}
<1>3. \A k \in 0..n : k \in T
  <2>1. 0 \in T BY <1>1
  <2>2. \A k \in 0..n : k \in T /\ k < n => k + 1 \in T
    <3> SUFFICES ASSUME NEW k \in 0..n, k \in T, k < n PROVE k + 1 \in T
      OBVIOUS
    <3>1. k + 1 \in 1..n /\ k + 1 \in 0..n /\ (k + 1) - 1 = k
      OBVIOUS
    <3>2. f[1..(k+1)] = G[<<f[1..k], k+1>>] /\ f[1..k] \in V
      BY <3>1, <1>2
    <3> QED BY <3>1, <3>2
  <2> HIDE DEF T
  <2> QED BY <2>1, <2>2, Induction
<1> QED BY <1>1, <1>2, <1>3

(* The same for a recursion over 0..n, from one number to the next.          *)
Recurses(f, n, base, G) ==
    \A k \in 0..n : f[k] = IF k = 0 THEN base ELSE G[<<f[k - 1], k>>]

(* A function defined by recursion on 0..n has its values in V.              *)
LEMMA RecursionExists ==
    ASSUME NEW n \in Nat, NEW V, NEW base \in V, NEW G \in [V \X (1..n) -> V]
    PROVE  \E f \in [0..n -> V] : Recurses(f, n, base, G)
<1>1. PICK f \in [SUBSET (1..n) -> V] : Iterates(f, n, base, G)
  BY IterationExists
<1>2. /\ f[1..0] = base
      /\ \A k \in 1..n : f[1..k] = G[<<f[1..(k-1)], k>>]
      /\ \A k \in 0..n : f[1..k] \in V
  BY <1>1, IterationSteps
<1> DEFINE g == [k \in 0..n |-> f[1..k]]
<1>3. g \in [0..n -> V]
  BY <1>2
<1>4. ASSUME NEW k \in 0..n PROVE g[k] = IF k = 0 THEN base ELSE G[<<g[k - 1], k>>]
  <2>1. CASE k = 0
    BY <2>1, <1>2
  <2>2. CASE k # 0
    <3>1. k \in 1..n /\ k - 1 \in 0..n
      BY <2>2
    <3> QED BY <3>1, <2>2, <1>2
  <2> QED BY <2>1, <2>2
<1> HIDE DEF g
<1> QED BY <1>3, <1>4 DEF Recurses

(* What is in s and below all others there is its minimum.                   *)
LEMMA MinIs ==
    ASSUME NEW s, s \subseteq Int, NEW m \in s, \A k \in s : m <= k
    PROVE  Min(s) = m
<1> DEFINE Bottom(x) == x \in s /\ \A y \in s : x <= y
<1>1. Bottom(m)
  OBVIOUS
<1>2. Min(s) = CHOOSE x : Bottom(x)
  BY DEF Min
<1>3. Bottom(Min(s))
  <2> HIDE DEF Bottom
  <2> QED BY <1>1, <1>2
<1>4. Min(s) \in s /\ m \in Int /\ Min(s) \in Int /\ Min(s) <= m /\ m <= Min(s)
  BY <1>3
<1> QED BY <1>4

(* A set of numbers that is not empty has a minimum.                         *)
LEMMA MinIn ==
    ASSUME NEW s, s \subseteq Nat, s # {}
    PROVE  Min(s) \in s /\ \A k \in s : Min(s) <= k
<1>1. PICK m \in s : \A k \in s : m <= k
  BY LeastNat
<1>2. s \subseteq Int
  OBVIOUS
<1>3. Min(s) = m
  BY <1>1, <1>2, MinIs
<1> QED BY <1>1, <1>3

(* The smaller of two numbers.                                               *)
LEMMA MinOfTwo ==
    ASSUME NEW a \in Int, NEW b \in Int
    PROVE  Min({a, b}) = IF a <= b THEN a ELSE b
<1> DEFINE s == {a, b}
           m == IF a <= b THEN a ELSE b
<1>1. s \subseteq Int /\ m \in s /\ \A k \in s : m <= k
  OBVIOUS
<1> HIDE DEF s, m
<1>2. Min(s) = m
  BY <1>1, MinIs
<1> QED BY <1>2 DEF s, m

(* A fold over n positions, from the equations of the function the library   *)
(* chooses for it: the values it goes through, one position after the other. *)
Walks(g, n, V, base, G) ==
    /\ g \in [0..n -> V] /\ g[0] = base
    /\ \A k \in 1..n : g[k] = G[<<g[k - 1], k>>]

FoldEquations(w, n, V, base, G) ==
    /\ w[{}] = base
    /\ \A s \in SUBSET (1..n) :
           s # {} /\ w[s \ {Max(s)}] \in V => w[s] = G[<<w[s \ {Max(s)}], Max(s)>>]

FoldWalks(w, n, V, base, G) == \E g : Walks(g, n, V, base, G) /\ g[n] = w[1..n]

(* What satisfies the equations of a fold is a walk through its steps.       *)
LEMMA FoldSteps ==
    ASSUME NEW n \in Nat, NEW V, NEW base \in V, NEW G \in [V \X (1..n) -> V],
           NEW w, FoldEquations(w, n, V, base, G)
    PROVE  FoldWalks(w, n, V, base, G)
<1>1. w[1..0] = base
  BY 1..0 = {} DEF FoldEquations
<1>2. ASSUME NEW k \in 1..n, w[1..(k - 1)] \in V PROVE w[1..k] = G[<<w[1..(k - 1)], k>>]
  <2>1. k \in Nat /\ k > 0 /\ 1..k \in SUBSET (1..n)
    OBVIOUS
  <2>2. Max(1..k) = k /\ (1..k) \ {k} = 1..(k - 1) /\ 1..k # {}
    BY <2>1, MaxOfPrefix
  <2> QED BY <1>2, <2>1, <2>2 DEF FoldEquations
<1> DEFINE T == {k \in 0..n : w[1..k] \in V}
<1>3. \A k \in 0..n : k \in T
  <2>1. 0 \in T
    BY <1>1
  <2>2. \A k \in 0..n : k \in T /\ k < n => k + 1 \in T
    <3> SUFFICES ASSUME NEW k \in 0..n, k \in T, k < n PROVE k + 1 \in T
      OBVIOUS
    <3>1. k + 1 \in 1..n /\ k + 1 \in 0..n /\ (k + 1) - 1 = k /\ w[1..k] \in V
      OBVIOUS
    <3>2. w[1..(k + 1)] = G[<<w[1..k], k + 1>>]
      BY <3>1, <1>2
    <3> QED BY <3>1, <3>2
  <2> HIDE DEF T
  <2> QED BY <2>1, <2>2, Induction
<1> DEFINE g == [k \in 0..n |-> w[1..k]]
<1>4. g \in [0..n -> V] /\ g[0] = base /\ g[n] = w[1..n]
  BY <1>1, <1>3
<1>5. ASSUME NEW k \in 1..n PROVE g[k] = G[<<g[k - 1], k>>]
  <2>1. k \in 0..n /\ k - 1 \in 0..n
    OBVIOUS
  <2>2. w[1..(k - 1)] \in V
    BY <2>1, <1>3
  <2> QED BY <2>1, <2>2, <1>2
<1> HIDE DEF g
<1> QED BY <1>4, <1>5 DEF Walks, FoldWalks

(* FlattenSeq puts sequences behind each other.                              *)
Flattens(g, ss, S) ==
    /\ g \in [0..Len(ss) -> Seq(S)] /\ g[0] = <<>>
    /\ \A k \in 1..Len(ss) : g[k] = g[k - 1] \o ss[k]

(* FlattenSeq puts one sequence after the other.                             *)
LEMMA FlattenSteps ==
    ASSUME NEW S, NEW ss \in Seq(Seq(S))
    PROVE  \E g : Flattens(g, ss, S) /\ FlattenSeq(ss) = g[Len(ss)]
<1> DEFINE n == Len(ss)
           G == [p \in Seq(S) \X (1..n) |-> p[1] \o ss[p[2]]]
           Eq(u) == u = [i \in 1..n |-> IF i = 1 THEN ss[i] ELSE u[i - 1] \o ss[i]]
<1>1. n \in Nat /\ \A i \in 1..n : ss[i] \in Seq(S)
  OBVIOUS
<1>2. G \in [Seq(S) \X (1..n) -> Seq(S)]
  <2>1. ASSUME NEW p \in Seq(S) \X (1..n) PROVE p[1] \o ss[p[2]] \in Seq(S)
    <3>1. p[1] \in Seq(S) /\ ss[p[2]] \in Seq(S)
      BY <1>1
    <3> QED BY <3>1, ConcatProperties
  <2> QED BY <2>1
<1>3. <<>> \in Seq(S)
  OBVIOUS
<1>4. PICK f \in [0..n -> Seq(S)] : Recurses(f, n, <<>>, G)
  <2> HIDE DEF n, G
  <2> QED BY <1>1, <1>2, <1>3, RecursionExists
<1>5. f[0] = <<>> /\ \A k \in 1..n : f[k] = f[k - 1] \o ss[k]
  <2>1. 0 \in 0..n
    BY <1>1
  <2>2. ASSUME NEW k \in 1..n PROVE f[k] = f[k - 1] \o ss[k]
    <3>1. k \in 0..n /\ k # 0 /\ k - 1 \in 0..n
      BY <1>1
    <3>2. f[k] = G[<<f[k - 1], k>>] /\ <<f[k - 1], k>> \in Seq(S) \X (1..n)
      BY <3>1, <1>4 DEF Recurses
    <3> QED BY <3>2
  <2> QED BY <2>1, <2>2, <1>4 DEF Recurses
<1>6. Flattens(f, ss, S)
  BY <1>4, <1>5 DEF Flattens
<1>7. CASE n = 0
  <2>1. FlattenSeq(ss) = ss /\ ss = <<>>
    BY <1>7 DEF FlattenSeq
  <2> QED BY <2>1, <1>5, <1>6, <1>7
<1>8. CASE n # 0
  <2> DEFINE v == [i \in 1..n |-> f[i]]
  <2>1. Eq(v)
    <3>1. ASSUME NEW i \in 1..n PROVE v[i] = IF i = 1 THEN ss[i] ELSE v[i - 1] \o ss[i]
      <4>1. CASE i = 1
        <5>1. 1 \in 1..n /\ 1 - 1 = 0
          BY <1>1, <4>1
        <5>2. f[1] = f[1 - 1] \o ss[1] /\ ss[1] \in Seq(S)
          BY <5>1, <1>1, <1>5
        <5>3. f[1] = ss[1]
          <6>1. f[1] = <<>> \o ss[1]
            BY <5>1, <5>2, <1>5
          <6> QED BY <5>2, <6>1, ConcatEmptySeq
        <5>4. v[i] = f[1]
          BY <4>1
        <5> QED BY <4>1, <5>3, <5>4
      <4>2. CASE i # 1
        <5>1. i - 1 \in 1..n
          BY <1>1, <4>2
        <5> QED BY <4>2, <5>1, <1>5
      <4> QED BY <4>1, <4>2
    <3> QED BY <3>1
  <2>2. FlattenSeq(ss) = (CHOOSE u : Eq(u))[n]
    BY <1>8 DEF FlattenSeq
  <2>3. PICK u : Eq(u) /\ FlattenSeq(ss) = u[n]
    <3> HIDE DEF Eq, v, n
    <3> QED BY <2>1, <2>2
  <2>4. \A i \in 1..n : u[i] = IF i = 1 THEN ss[i] ELSE u[i - 1] \o ss[i]
    BY <2>3
  <2> DEFINE T == {k \in 0..n : k = 0 \/ u[k] = f[k]}
  <2>5. \A k \in 0..n : k \in T
    <3>1. 0 \in T
      BY <1>1
    <3>2. \A k \in 0..n : k \in T /\ k < n => k + 1 \in T
      <4> SUFFICES ASSUME NEW k \in 0..n, k \in T, k < n PROVE k + 1 \in T
        OBVIOUS
      <4>1. k + 1 \in 1..n /\ k + 1 \in 0..n /\ (k + 1) - 1 = k /\ (k + 1 = 1 <=> k = 0)
        BY <1>1
      <4>2. f[k + 1] = f[k] \o ss[k + 1] /\ ss[k + 1] \in Seq(S)
        BY <4>1, <1>1, <1>5
      <4>3. CASE k = 0
        <5>1. u[1] = ss[1] /\ f[1] = <<>> \o ss[1] /\ ss[1] \in Seq(S)
          BY <4>1, <4>2, <4>3, <2>4, <1>5
        <5> QED BY <5>1, <4>1, <4>3, ConcatEmptySeq
      <4>4. CASE k # 0
        BY <4>1, <4>2, <4>4, <2>4
      <4> QED BY <4>3, <4>4
    <3> HIDE DEF T
    <3> QED BY <3>1, <3>2, <1>1, Induction
  <2>6. u[n] = f[n]
    <3>1. n \in 0..n
      BY <1>1
    <3> QED BY <3>1, <2>5, <1>8
  <2> QED BY <2>3, <2>6, <1>6
<1> QED BY <1>7, <1>8

(* A concatenation of sequences over S is one.                               *)
LEMMA FlattenIsSeq ==
    ASSUME NEW S, NEW ss \in Seq(Seq(S))
    PROVE  FlattenSeq(ss) \in Seq(S)
<1>1. PICK g : Flattens(g, ss, S) /\ FlattenSeq(ss) = g[Len(ss)]
  BY FlattenSteps
<1>2. Len(ss) \in 0..Len(ss)
  OBVIOUS
<1> QED BY <1>1, <1>2 DEF Flattens
-----------------------------------------------------------------------------
(* Where the pieces of a concatenation lie.                                  *)

(* Where a piece lies in a sequence: behind the first p elements, within it. *)
LiesAt(f, piece, p) ==
    p + Len(piece) <= Len(f) /\ \A i \in 1..Len(piece) : f[p + i] = piece[i]

(* A piece of a piece is a piece.                                            *)
LEMMA PieceOfPiece ==
    ASSUME NEW S, NEW f \in Seq(S), NEW c \in Seq(S), NEW a \in Seq(S),
           NEW p \in Nat, NEW q \in Nat, LiesAt(f, c, p), LiesAt(c, a, q)
    PROVE  LiesAt(f, a, p + q)
<1>1. PICK l \in Nat, m \in Nat, n \in Nat : l = Len(f) /\ m = Len(c) /\ n = Len(a)
  BY LenProperties
<1>2. p + m <= l /\ q + n <= m
  BY <1>1 DEF LiesAt
<1>3. (p + q) + n <= l
  BY <1>2
<1>4. ASSUME NEW i \in 1..n PROVE f[(p + q) + i] = a[i]
  <2>1. q + i \in 1..m /\ p + (q + i) = (p + q) + i
    BY <1>2
  <2> QED BY <1>1, <2>1 DEF LiesAt
<1> QED BY <1>1, <1>3, <1>4 DEF LiesAt

(* A concatenation: the one sequence at its begin, the other behind it.      *)
Joined(c, a, b) ==
    Len(c) = Len(a) + Len(b) /\ LiesAt(c, a, 0) /\ LiesAt(c, b, Len(a))

(* A concatenation joins its two sequences.                                  *)
LEMMA Concatenated ==
    ASSUME NEW S, NEW a \in Seq(S), NEW b \in Seq(S), NEW c, c = a \o b
    PROVE  c \in Seq(S) /\ Joined(c, a, b)
<1>1. PICK m \in Nat, n \in Nat : m = Len(a) /\ n = Len(b)
  BY LenProperties
<1>2. c \in Seq(S) /\ Len(c) = m + n
  BY <1>1, ConcatProperties
<1>3. \A i \in 1..(m + n) : c[i] = IF i <= m THEN a[i] ELSE b[i - m]
  BY <1>1, ConcatProperties
<1>4. ASSUME NEW i \in 1..m PROVE c[0 + i] = a[i]
  <2>1. 0 + i = i /\ i \in 1..(m + n) /\ i <= m
    OBVIOUS
  <2> QED BY <2>1, <1>3
<1>5. ASSUME NEW i \in 1..n PROVE c[m + i] = b[i]
  <2>1. m + i \in 1..(m + n) /\ ~(m + i <= m) /\ (m + i) - m = i
    OBVIOUS
  <2> QED BY <2>1, <1>3
<1>6. 0 + m <= m + n
  OBVIOUS
<1> QED BY <1>1, <1>2, <1>4, <1>5, <1>6 DEF LiesAt, Joined

(* A sequence lies in itself.                                                *)
LEMMA LiesItself == ASSUME NEW S, NEW s \in Seq(S) PROVE LiesAt(s, s, 0)
<1>1. PICK n \in Nat : n = Len(s)
  BY LenProperties
<1>2. 0 + n <= n /\ \A i \in 1..n : 0 + i = i
  OBVIOUS
<1> QED BY <1>1, <1>2 DEF LiesAt

(* The k-th sequence lies behind the first k - 1.                            *)
LEMMA FlattenPieces ==
    ASSUME NEW S, NEW ss \in Seq(Seq(S)), NEW g, Flattens(g, ss, S), NEW k \in 1..Len(ss)
    PROVE  /\ Len(g[k]) = Len(g[k - 1]) + Len(ss[k]) /\ Len(g[k - 1]) \in Nat
           /\ LiesAt(g[Len(ss)], ss[k], Len(g[k - 1]))
<1> DEFINE n == Len(ss)
           T == {j \in 0..n : j >= k => LiesAt(g[j], g[k], 0)}
<1>1. n \in Nat /\ g \in [0..n -> Seq(S)] /\ \A j \in 1..n : ss[j] \in Seq(S) /\ g[j] = g[j - 1] \o ss[j]
  <2>1. n \in Nat /\ \A j \in 1..n : ss[j] \in Seq(S)
    BY LenProperties, ElementOfSeq
  <2> QED BY <2>1 DEF Flattens
<1> HIDE DEF n
<1>0. k \in 1..n /\ k \in 0..n /\ k - 1 \in 0..n /\ n \in 0..n /\ n >= k
  BY <1>1 DEF n
<1>2. \A j \in 0..n : j \in T
  <2>1. 0 \in T
    BY <1>1, <1>0
  <2>2. ASSUME NEW j \in 0..n, j \in T, j < n PROVE j + 1 \in T
    <3>1. j + 1 \in 1..n /\ j + 1 \in 0..n /\ (j + 1) - 1 = j
      BY <2>2, <1>1
    <3>2. g[j + 1] = g[j] \o ss[j + 1] /\ g[j] \in Seq(S) /\ ss[j + 1] \in Seq(S) /\ g[k] \in Seq(S)
          /\ g[j + 1] \in Seq(S)
      BY <3>1, <1>1, <1>0
    <3>5. CASE k = j + 1
      BY <3>5, <3>1, <3>2, LiesItself
    <3>6. CASE k # j + 1 /\ j + 1 >= k
      <4>1. LiesAt(g[j], g[k], 0)
        BY <3>6, <2>2, <3>1
      <4>2. LiesAt(g[j + 1], g[j], 0)
        BY <3>2, Concatenated DEF Joined
      <4>3. LiesAt(g[j + 1], g[k], 0 + 0)
        BY <4>1, <4>2, <3>2, PieceOfPiece
      <4> QED BY <4>3, <3>1
    <3> QED BY <3>1, <3>5, <3>6
  <2> HIDE DEF T
  <2> QED BY <2>1, <2>2, <1>1, Induction
<1>3. LiesAt(g[n], g[k], 0)
  BY <1>0, <1>2
<1>4. g[k] = g[k - 1] \o ss[k] /\ g[k - 1] \in Seq(S) /\ ss[k] \in Seq(S) /\ g[n] \in Seq(S) /\ g[k] \in Seq(S)
  BY <1>1, <1>0
<1>5. Len(g[k]) = Len(g[k - 1]) + Len(ss[k]) /\ LiesAt(g[k], ss[k], Len(g[k - 1]))
  <2>1. Joined(g[k], g[k - 1], ss[k])
    BY <1>4, Concatenated
  <2> QED BY <2>1 DEF Joined
<1>6. Len(g[k - 1]) \in Nat
  BY <1>4, LenProperties
<1>7. LiesAt(g[n], ss[k], 0 + Len(g[k - 1]))
  BY <1>3, <1>4, <1>5, <1>6, PieceOfPiece
<1> QED BY <1>5, <1>6, <1>7 DEF n

Behind(g, ss, k) ==
    \E p \in Nat : /\ p = Len(g[k - 1]) /\ Len(g[k]) = p + Len(ss[k])
                  /\ LiesAt(g[Len(ss)], ss[k], p)

(* FlattenPieces under one name.                                             *)
LEMMA FlattenBehind ==
    ASSUME NEW S, NEW ss \in Seq(Seq(S)), NEW g, Flattens(g, ss, S), NEW k \in 1..Len(ss)
    PROVE  Behind(g, ss, k)
BY FlattenPieces DEF Behind
=============================================================================
