-------------------------- MODULE TextCommandsProofs --------------------------
(* What the commands on lists and strings and the template parser return,    *)
(* for arguments of every length.  A command is a fold over its argument:    *)
(* each is unrolled to a walk, the sequence of the states of the loop in the *)
(* C code, and what the walk has come to after k positions is proved by      *)
(* induction over k (FoldFacts).                                             *)
EXTENDS TextCommands, FoldFacts
-----------------------------------------------------------------------------
(* The decoders, position by position.                                       *)

UrlState == [out : Seq(Int), skip : Nat]
UnescapeState == [out : Seq(Int), skip : Nat, bad : BOOLEAN]

(* A digit's value, a number also where there is none.                       *)
LEMMA HexIsInt == \A c : HexToDigit(c) \in Int
BY DEF HexToDigit, Digit

(* A decoder's step.                                                         *)
LEMMA UrlTyped ==
    ASSUME NEW s \in Seq(Int), NEW t \in UrlState, NEW i \in 1..Len(s)
    PROVE  UrlStep(s, t, i) \in UrlState
<1>1. t.out \in Seq(Int) /\ t.skip \in Nat /\ s[i] \in Int
  BY DEF UrlState
<1>0. t = [out |-> t.out, skip |-> t.skip]
  BY DEF UrlState
<1>2. ASSUME NEW v \in Int PROVE Append(t.out, v) \in Seq(Int)
  BY <1>1, AppendProperties
<1>3. X2c(s[i + 1], s[i + 2]) \in Int
  BY HexIsInt DEF X2c
<1>4. (IF s[i] = Plus THEN Space ELSE s[i]) \in Int
  BY <1>1 DEF Space
<1>5. CASE t.skip > 0
  <2>1. UrlStep(s, t, i) = [t EXCEPT !.skip = @ - 1]
    BY <1>5, <1>1 DEF UrlStep
  <2>2. PICK k \in Nat, o \in Seq(Int) : k = t.skip - 1 /\ o = t.out
    BY <1>1, <1>5
  <2>3. UrlStep(s, t, i) = [out |-> o, skip |-> k]
    BY <1>0, <2>1, <2>2
  <2> QED BY <2>2, <2>3 DEF UrlState
<1> DEFINE hex == t.skip = 0 /\ s[i] = Percent /\ i + 2 <= Len(s) /\ HexDigit(s[i + 1]) /\ HexDigit(s[i + 2])
<1>6. CASE hex
  <2>1. PICK v \in Int : v = X2c(s[i + 1], s[i + 2])
    BY <1>3
  <2>2. UrlStep(s, t, i) = [t EXCEPT !.out = Append(@, v), !.skip = 2]
    BY <1>6, <2>1 DEF UrlStep
  <2>3. UrlStep(s, t, i) = [out |-> Append(t.out, v), skip |-> 2]
    BY <2>2, <1>0
  <2> QED BY <2>3, <2>1, <1>2 DEF UrlState
<1>7. CASE t.skip = 0 /\ ~hex
  <2>1. PICK v \in Int : v = IF s[i] = Plus THEN Space ELSE s[i]
    BY <1>4
  <2>2. UrlStep(s, t, i) = [t EXCEPT !.out = Append(@, v)]
    BY <1>7, <2>1 DEF UrlStep
  <2> QED BY <2>2, <1>2, <1>1 DEF UrlState
<1> HIDE DEF hex
<1> QED BY <1>1, <1>5, <1>6, <1>7

(* A step of unescape_string, of any state.                                  *)
LEMMA UnescapeTyped ==
    ASSUME NEW s \in Seq(Int), NEW t \in UnescapeState, NEW i \in 1..Len(s)
    PROVE  UnescapeStep(s, t, i) \in UnescapeState
<1>1. t.out \in Seq(Int) /\ t.skip \in Nat /\ s[i] \in Int /\ t.bad \in BOOLEAN
  BY DEF UnescapeState
<1>0. t = [out |-> t.out, skip |-> t.skip, bad |-> t.bad]
  BY DEF UnescapeState
<1>2. ASSUME NEW v \in Int PROVE Append(t.out, v) \in Seq(Int)
  BY <1>1, AppendProperties
<1>3. DigitAt(s, i + 1) * 16 + DigitAt(s, i + 2) \in Int
  <2>1. DigitAt(s, i + 1) \in Int /\ DigitAt(s, i + 2) \in Int
    BY HexIsInt DEF DigitAt
  <2> QED BY <2>1
<1>5. CASE t.skip > 0
  <2>1. UnescapeStep(s, t, i) = [t EXCEPT !.skip = @ - 1]
    BY <1>5, <1>1 DEF UnescapeStep
  <2>2. t.skip - 1 \in Nat
    BY <1>1, <1>5
  <2>3. UnescapeStep(s, t, i) = [out |-> t.out, skip |-> t.skip - 1, bad |-> t.bad]
    BY <2>1, <1>0
  <2> QED BY <2>2, <2>3, <1>1 DEF UnescapeState
<1>6. CASE t.skip = 0 /\ s[i] = Percent
  <2>1. PICK v \in Int : v = DigitAt(s, i + 1) * 16 + DigitAt(s, i + 2)
    BY <1>3
  <2>2. UnescapeStep(s, t, i) = IF -1 \in {DigitAt(s, i + 1), DigitAt(s, i + 2)}
                                THEN [t EXCEPT !.bad = TRUE]
                                ELSE [out |-> Append(t.out, v), skip |-> 2, bad |-> t.bad]
    BY <1>6, <2>1 DEF UnescapeStep, Percent, Plus
  <2>4. [t EXCEPT !.bad = TRUE] \in UnescapeState
    BY <1>1 DEF UnescapeState
  <2>5. [out |-> Append(t.out, v), skip |-> 2, bad |-> t.bad] \in UnescapeState
    BY <1>1, <1>2 DEF UnescapeState
  <2> QED BY <2>2, <2>4, <2>5
<1>7. CASE t.skip = 0 /\ s[i] # Percent
  <2>1. PICK v \in Int : v = IF s[i] = Plus THEN Space ELSE s[i]
    <3>1. Space \in Int /\ s[i] \in Int
      BY <1>1 DEF Space
    <3>2. CASE s[i] = Plus
      BY <3>1, <3>2
    <3>3. CASE s[i] # Plus
      BY <3>1, <3>3
    <3> QED BY <3>2, <3>3
  <2>2. UnescapeStep(s, t, i) = [t EXCEPT !.out = Append(@, v)]
    <3>1. CASE s[i] = Plus
      BY <1>7, <2>1, <3>1 DEF UnescapeStep
    <3>2. CASE s[i] # Plus
      BY <1>7, <2>1, <3>2 DEF UnescapeStep
    <3> QED BY <3>1, <3>2
  <2> QED BY <2>2, <1>2, <1>1 DEF UnescapeState
<1> QED BY <1>1, <1>5, <1>6, <1>7

(* ap_unescape_url_u, position by position.                                  *)
UrlWalk(g, str) ==
    /\ g \in [0..Len(str) -> UrlState] /\ g[0] = [out |-> <<>>, skip |-> 0]
    /\ \A k \in 1..Len(str) : g[k] = UrlStep(str, g[k - 1], k)

(* The fold of UnescapeUrl is such a walk.                                   *)
LEMMA UrlSteps ==
    ASSUME NEW str \in Seq(Int)
    PROVE  \E g : UrlWalk(g, str) /\ UnescapeUrl(str) = g[Len(str)].out
<1> DEFINE n == Len(str)
           seq == [i \in 1..Len(str) |-> i]
           V == UrlState
           start == [out |-> <<>>, skip |-> 0]
           G == [p \in V \X (1..n) |-> UrlStep(str, p[1], p[2])]
           Eq(u) == u = [s \in SUBSET (DOMAIN seq) |->
                      IF s = {} THEN start ELSE UrlStep(str, u[s \ {Max(s)}], seq[Max(s)])]
<1>1. n \in Nat /\ DOMAIN seq = 1..n /\ \A i \in 1..n : seq[i] = i
  OBVIOUS
<1>2. start \in V
  BY DEF UrlState
<1>3. \A t \in V, i \in 1..n : UrlStep(str, t, i) \in V
  BY UrlTyped
<1>4. /\ G \in [V \X (1..n) -> V]
      /\ \A t \in V, i \in 1..n : G[<<t, i>>] = UrlStep(str, t, i)
  <2> HIDE DEF V, n
  <2> QED BY <1>3
<1>5. ASSUME NEW u, NEW s \in SUBSET (1..n), s # {}, u[s \ {Max(s)}] \in V
      PROVE  /\ Max(s) \in 1..n /\ seq[Max(s)] = Max(s)
             /\ G[<<u[s \ {Max(s)}], Max(s)>>] = UrlStep(str, u[s \ {Max(s)}], seq[Max(s)])
  <2> HIDE DEF V, n, G, seq
  <2>1. Max(s) \in 1..n
    BY <1>1, <1>5, MaxIn
  <2> QED BY <2>1, <1>1, <1>4, <1>5
<1>6. \E f : Eq(f)
  <2> HIDE DEF G, n, V, start, seq
  <2>1. PICK f \in [SUBSET (1..n) -> V] : Iterates(f, n, start, G)
    BY <1>1, <1>2, <1>4, IterationExists
  <2>2. ASSUME NEW s \in SUBSET (1..n), s # {}
        PROVE  f[s] = UrlStep(str, f[s \ {Max(s)}], seq[Max(s)])
    BY <2>1, <2>2, <1>5 DEF Iterates
  <2>3. f[{}] = start /\ f = [s \in SUBSET (1..n) |-> f[s]]
    BY <2>1 DEF Iterates
  <2>4. Eq(f)
    BY <2>2, <2>3, <1>1
  <2> HIDE DEF Eq
  <2> QED BY <2>4
<1>7. PICK w : Eq(w) /\ UnescapeUrl(str) = w[1..n].out
  <2>1. UnescapeUrl(str) = (CHOOSE u : Eq(u))[DOMAIN seq].out
    BY DEF UnescapeUrl, FoldLeft, MapThenFoldSet
  <2> HIDE DEF Eq, n, seq, V, start
  <2> QED BY <1>1, <1>6, <2>1
<1>8. FoldEquations(w, n, V, start, G)
  <2>1. ASSUME NEW s \in SUBSET (1..n)
        PROVE  w[s] = IF s = {} THEN start ELSE UrlStep(str, w[s \ {Max(s)}], seq[Max(s)])
    <3> HIDE DEF n, V, start, G, seq
    <3> QED BY <1>1, <1>7
  <2> HIDE DEF n, V, start, G, seq, Eq
  <2> QED BY <2>1, <1>5 DEF FoldEquations
<1>9. FoldWalks(w, n, V, start, G)
  <2> HIDE DEF n, V, start, G, seq, Eq
  <2> QED BY <1>1, <1>2, <1>4, <1>8, FoldSteps
<1>10. PICK g : Walks(g, n, V, start, G) /\ g[n] = w[1..n]
  BY <1>9 DEF FoldWalks
<1>11. ASSUME NEW k \in 1..n PROVE g[k] = UrlStep(str, g[k - 1], k)
  <2>1. k - 1 \in 0..n
    BY <1>1
  <2> HIDE DEF n, V, start, G, seq, Eq
  <2> QED BY <1>4, <1>10, <2>1 DEF Walks
<1>12. UrlWalk(g, str)
  <2> HIDE DEF G, Eq, seq
  <2> QED BY <1>10, <1>11 DEF UrlWalk, Walks
<1> HIDE DEF n, V, start, G, seq, Eq
<1> QED BY <1>7, <1>10, <1>12 DEF n

(* unescape_string, position by position.                                    *)
UnescapeWalk(g, str) ==
    /\ g \in [0..Len(str) -> UnescapeState] /\ g[0] = [out |-> <<>>, skip |-> 0, bad |-> FALSE]
    /\ \A k \in 1..Len(str) : g[k] = UnescapeStep(str, g[k - 1], k)

(* The fold of Unescaped is such a walk.                                     *)
LEMMA UnescapeSteps ==
    ASSUME NEW str \in Seq(Int)
    PROVE  \E g : UnescapeWalk(g, str) /\ Unescaped(str) = g[Len(str)]
<1> DEFINE n == Len(str)
           seq == [i \in 1..Len(str) |-> i]
           V == UnescapeState
           start == [out |-> <<>>, skip |-> 0, bad |-> FALSE]
           G == [p \in V \X (1..n) |-> UnescapeStep(str, p[1], p[2])]
           Eq(u) == u = [s \in SUBSET (DOMAIN seq) |->
                      IF s = {} THEN start ELSE UnescapeStep(str, u[s \ {Max(s)}], seq[Max(s)])]
<1>1. n \in Nat /\ DOMAIN seq = 1..n /\ \A i \in 1..n : seq[i] = i
  OBVIOUS
<1>2. start \in V
  BY DEF UnescapeState
<1>3. \A t \in V, i \in 1..n : UnescapeStep(str, t, i) \in V
  BY UnescapeTyped
<1>4. /\ G \in [V \X (1..n) -> V]
      /\ \A t \in V, i \in 1..n : G[<<t, i>>] = UnescapeStep(str, t, i)
  <2> HIDE DEF V, n
  <2> QED BY <1>3
<1>5. ASSUME NEW u, NEW s \in SUBSET (1..n), s # {}, u[s \ {Max(s)}] \in V
      PROVE  /\ Max(s) \in 1..n /\ seq[Max(s)] = Max(s)
             /\ G[<<u[s \ {Max(s)}], Max(s)>>] = UnescapeStep(str, u[s \ {Max(s)}], seq[Max(s)])
  <2> HIDE DEF V, n, G, seq
  <2>1. Max(s) \in 1..n
    BY <1>1, <1>5, MaxIn
  <2> QED BY <2>1, <1>1, <1>4, <1>5
<1>6. \E f : Eq(f)
  <2> HIDE DEF G, n, V, start, seq
  <2>1. PICK f \in [SUBSET (1..n) -> V] : Iterates(f, n, start, G)
    BY <1>1, <1>2, <1>4, IterationExists
  <2>2. ASSUME NEW s \in SUBSET (1..n), s # {}
        PROVE  f[s] = UnescapeStep(str, f[s \ {Max(s)}], seq[Max(s)])
    BY <2>1, <2>2, <1>5 DEF Iterates
  <2>3. f[{}] = start /\ f = [s \in SUBSET (1..n) |-> f[s]]
    BY <2>1 DEF Iterates
  <2>4. Eq(f)
    BY <2>2, <2>3, <1>1
  <2> HIDE DEF Eq
  <2> QED BY <2>4
<1>7. PICK w : Eq(w) /\ Unescaped(str) = w[1..n]
  <2>1. Unescaped(str) = (CHOOSE u : Eq(u))[DOMAIN seq]
    BY DEF Unescaped, FoldLeft, MapThenFoldSet
  <2> HIDE DEF Eq, n, seq, V, start
  <2> QED BY <1>1, <1>6, <2>1
<1>8. FoldEquations(w, n, V, start, G)
  <2>1. ASSUME NEW s \in SUBSET (1..n)
        PROVE  w[s] = IF s = {} THEN start ELSE UnescapeStep(str, w[s \ {Max(s)}], seq[Max(s)])
    <3> HIDE DEF n, V, start, G, seq
    <3> QED BY <1>1, <1>7
  <2> HIDE DEF n, V, start, G, seq, Eq
  <2> QED BY <2>1, <1>5 DEF FoldEquations
<1>9. FoldWalks(w, n, V, start, G)
  <2> HIDE DEF n, V, start, G, seq, Eq
  <2> QED BY <1>1, <1>2, <1>4, <1>8, FoldSteps
<1>10. PICK g : Walks(g, n, V, start, G) /\ g[n] = w[1..n]
  BY <1>9 DEF FoldWalks
<1>11. ASSUME NEW k \in 1..n PROVE g[k] = UnescapeStep(str, g[k - 1], k)
  <2>1. k - 1 \in 0..n
    BY <1>1
  <2> HIDE DEF n, V, start, G, seq, Eq
  <2> QED BY <1>4, <1>10, <2>1 DEF Walks
<1>12. UnescapeWalk(g, str)
  <2> HIDE DEF G, Eq, seq
  <2> QED BY <1>10, <1>11 DEF UnescapeWalk, Walks
<1> HIDE DEF n, V, start, G, seq, Eq
<1> QED BY <1>7, <1>10, <1>12 DEF n
-----------------------------------------------------------------------------
(* What a byte is escaped to, and how it is decoded.                         *)

(* What a byte is escaped to.                                                *)
LEMMA HexBack ==
    ASSUME NEW n \in 0..15
    PROVE  /\ DigitToHex(n) \in 48..102 /\ HexToDigit(DigitToHex(n)) = n /\ HexDigit(DigitToHex(n))
           /\ DigitToHex(n) \notin {Amp, Semi, Equals, Percent, Plus}
<1>1. CASE n < 10
  <2>1. DigitToHex(n) = n + 48 /\ n + 48 \in 48..57 /\ (n + 48) - 48 = n
    BY <1>1 DEF DigitToHex
  <2> QED BY <2>1 DEF HexToDigit, HexDigit, Digit, Amp, Semi, Equals, Percent, Plus
<1>2. CASE ~(n < 10)
  <2>1. DigitToHex(n) = n - 10 + 97 /\ n - 10 + 97 \in 97..102 /\ (n - 10 + 97) - 97 + 10 = n
    BY <1>2 DEF DigitToHex
  <2> QED BY <2>1 DEF HexToDigit, HexDigit, Digit, Amp, Semi, Equals, Percent, Plus
<1> QED BY <1>1, <1>2

(* A byte is the number of its two hexadecimal digits.                       *)
LEMMA TwoDigits ==
    ASSUME NEW c \in 1..255
    PROVE  c \div 16 \in 0..15 /\ c % 16 \in 0..15 /\ (c \div 16) * 16 + (c % 16) = c
OBVIOUS

(* The escaped form of a byte is a sequence of numbers.                      *)
LEMMA EscapeIsSeq ==
    ASSUME NEW c \in 1..255
    PROVE  EscapeByte(c) \in Seq(Int) /\ Len(EscapeByte(c)) \in Nat
<1>1. DigitToHex(c \div 16) \in Int /\ DigitToHex(c % 16) \in Int
  BY TwoDigits, HexBack
<1>2. <<c>> \in Seq(Int) /\ <<Plus>> \in Seq(Int)
      /\ <<Percent, DigitToHex(c \div 16), DigitToHex(c % 16)>> \in Seq(Int)
  BY <1>1 DEF Plus, Percent
<1>3. EscapeByte(c) \in Seq(Int)
  BY <1>2 DEF EscapeByte
<1> QED BY <1>3, LenProperties

(* The decoders' steps on states written out.                                *)
LEMMA UrlSkips ==
    ASSUME NEW s, NEW i, NEW out
    PROVE  /\ UrlStep(s, [out |-> out, skip |-> 2], i) = [out |-> out, skip |-> 1]
           /\ UrlStep(s, [out |-> out, skip |-> 1], i) = [out |-> out, skip |-> 0]
BY DEF UrlStep

(* A byte that is no percent sign: itself, a plus sign as a space.           *)
LEMMA UrlPlain ==
    ASSUME NEW s, NEW i, NEW out, NEW v, s[i] # Percent, v = IF s[i] = Plus THEN Space ELSE s[i]
    PROVE  UrlStep(s, [out |-> out, skip |-> 0], i) = [out |-> Append(out, v), skip |-> 0]
<1>2. UrlStep(s, [out |-> out, skip |-> 0], i) = [[out |-> out, skip |-> 0] EXCEPT !.out = Append(@, v)]
  BY DEF UrlStep
<1> QED BY <1>2

(* A percent sign with two digits behind it: the byte they stand for.        *)
LEMMA UrlHex ==
    ASSUME NEW s, NEW i, NEW out, NEW v, v = X2c(s[i + 1], s[i + 2]),
           s[i] = Percent, i + 2 <= Len(s), HexDigit(s[i + 1]), HexDigit(s[i + 2])
    PROVE  UrlStep(s, [out |-> out, skip |-> 0], i) = [out |-> Append(out, v), skip |-> 2]
<1>3. PICK t : t = [out |-> out, skip |-> 0]
  OBVIOUS
<1>4. t.skip = 0 /\ t.out = out /\ ~(t.skip > 0)
  BY <1>3
<1>2. UrlStep(s, t, i) = [t EXCEPT !.out = Append(@, v), !.skip = 2]
  BY <1>4 DEF UrlStep
<1> QED BY <1>2, <1>3

(* unescape_string passes over the two digits it has read.                   *)
LEMMA UnescapeSkips ==
    ASSUME NEW s, NEW i, NEW out
    PROVE  /\ UnescapeStep(s, [out |-> out, skip |-> 2, bad |-> FALSE], i) = [out |-> out, skip |-> 1, bad |-> FALSE]
           /\ UnescapeStep(s, [out |-> out, skip |-> 1, bad |-> FALSE], i) = [out |-> out, skip |-> 0, bad |-> FALSE]
<1>1. ASSUME NEW bad, NEW n \in {1, 2}, NEW t, t = [out |-> out, skip |-> n, bad |-> bad]
      PROVE  UnescapeStep(s, t, i) = [out |-> out, skip |-> n - 1, bad |-> bad]
  <2>1. t.skip > 0
    BY <1>1
  <2>2. UnescapeStep(s, t, i) = [t EXCEPT !.skip = @ - 1]
    BY <2>1 DEF UnescapeStep
  <2> QED BY <1>1, <2>2
<1>2. 1 \in {1, 2} /\ 2 \in {1, 2} /\ 2 - 1 = 1 /\ 1 - 1 = 0
  OBVIOUS
<1>3. UnescapeStep(s, [out |-> out, skip |-> 2, bad |-> FALSE], i) = [out |-> out, skip |-> 2 - 1, bad |-> FALSE]
  BY <1>1, <1>2, Zenon
<1>4. UnescapeStep(s, [out |-> out, skip |-> 1, bad |-> FALSE], i) = [out |-> out, skip |-> 1 - 1, bad |-> FALSE]
  BY <1>1, <1>2, Zenon
<1> QED BY <1>2, <1>3, <1>4

(* A byte that is no percent sign, read by unescape_string.                  *)
LEMMA UnescapePlain ==
    ASSUME NEW s, NEW i, NEW out, NEW v,
           s[i] # Percent, v = IF s[i] = Plus THEN Space ELSE s[i]
    PROVE  UnescapeStep(s, [out |-> out, skip |-> 0, bad |-> FALSE], i) =
                [out |-> Append(out, v), skip |-> 0, bad |-> FALSE]
<1>3. PICK t : t = [out |-> out, skip |-> 0, bad |-> FALSE]
  OBVIOUS
<1>4. t.skip = 0 /\ ~(t.skip > 0)
  BY <1>3
<1>2. UnescapeStep(s, t, i) = [t EXCEPT !.out = Append(@, v)]
  <2>1. CASE s[i] = Plus
    BY <1>4, <2>1 DEF UnescapeStep
  <2>2. CASE s[i] # Plus
    BY <1>4, <2>2 DEF UnescapeStep
  <2> QED BY <2>1, <2>2
<1> QED BY <1>2, <1>3

(* A percent sign with two digits behind it, read by unescape_string.        *)
LEMMA UnescapeHex ==
    ASSUME NEW s, NEW i, NEW out, NEW v, s[i] = Percent,
           -1 \notin {DigitAt(s, i + 1), DigitAt(s, i + 2)}, v = DigitAt(s, i + 1) * 16 + DigitAt(s, i + 2)
    PROVE  UnescapeStep(s, [out |-> out, skip |-> 0, bad |-> FALSE], i) =
                [out |-> Append(out, v), skip |-> 2, bad |-> FALSE]
<1>3. PICK f, t : f = FALSE /\ t = [out |-> out, skip |-> 0, bad |-> f]
  OBVIOUS
<1>4. t.skip = 0 /\ ~(t.skip > 0) /\ Plus # Percent /\ t.out = out /\ t.bad = f
  BY <1>3 DEF Plus, Percent
<1>2. UnescapeStep(s, t, i) = [out |-> Append(t.out, v), skip |-> 2, bad |-> t.bad]
  BY <1>4 DEF UnescapeStep
<1> QED BY <1>2, <1>3, <1>4

(* Where the decoders are after k positions.                                 *)
UrlAt(g, k, o, n) == g[k] = [out |-> o, skip |-> n]
UnescapeAt(h, k, o, n) == h[k] = [out |-> o, skip |-> n, bad |-> FALSE]

(* The same steps on a walk: passing over the first digit,                   *)
LEMMA UrlMove2 ==
    ASSUME NEW r, NEW g, UrlWalk(g, r), NEW i \in 1..Len(r), NEW o, UrlAt(g, i - 1, o, 2)
    PROVE  UrlAt(g, i, o, 1)
<1>1. g[i] = UrlStep(r, g[i - 1], i)
  BY DEF UrlWalk
<1> QED BY <1>1, UrlSkips DEF UrlAt

(* passing over the second digit,                                            *)
LEMMA UrlMove1 ==
    ASSUME NEW r, NEW g, UrlWalk(g, r), NEW i \in 1..Len(r), NEW o, UrlAt(g, i - 1, o, 1)
    PROVE  UrlAt(g, i, o, 0)
<1>1. g[i] = UrlStep(r, g[i - 1], i)
  BY DEF UrlWalk
<1> QED BY <1>1, UrlSkips DEF UrlAt

(* reading a byte that stands for itself,                                    *)
LEMMA UrlMovePlain ==
    ASSUME NEW r, NEW g, UrlWalk(g, r), NEW i \in 1..Len(r), NEW o,
           UrlAt(g, i - 1, o, 0), r[i] # Percent, NEW v, v = (IF r[i] = Plus THEN Space ELSE r[i])
    PROVE  UrlAt(g, i, Append(o, v), 0)
<1>1. g[i] = UrlStep(r, g[i - 1], i)
  BY DEF UrlWalk
<1> QED BY <1>1, UrlPlain DEF UrlAt

(* reading a percent sign.                                                   *)
LEMMA UrlMoveHex ==
    ASSUME NEW r, NEW g, UrlWalk(g, r), NEW i \in 1..Len(r), NEW o,
           UrlAt(g, i - 1, o, 0), r[i] = Percent, i + 2 <= Len(r), HexDigit(r[i + 1]), HexDigit(r[i + 2]),
           NEW v, v = X2c(r[i + 1], r[i + 2])
    PROVE  UrlAt(g, i, Append(o, v), 2)
<1>1. g[i] = UrlStep(r, g[i - 1], i)
  BY DEF UrlWalk
<1> QED BY <1>1, UrlHex DEF UrlAt

(* The walk of unescape_string: passing over the first digit,                *)
LEMMA UnescapeMove2 ==
    ASSUME NEW r, NEW h, UnescapeWalk(h, r), NEW i \in 1..Len(r), NEW o, UnescapeAt(h, i - 1, o, 2)
    PROVE  UnescapeAt(h, i, o, 1)
<1>1. h[i] = UnescapeStep(r, h[i - 1], i)
  BY DEF UnescapeWalk
<1> QED BY <1>1, UnescapeSkips DEF UnescapeAt

(* passing over the second digit,                                            *)
LEMMA UnescapeMove1 ==
    ASSUME NEW r, NEW h, UnescapeWalk(h, r), NEW i \in 1..Len(r), NEW o, UnescapeAt(h, i - 1, o, 1)
    PROVE  UnescapeAt(h, i, o, 0)
<1>1. h[i] = UnescapeStep(r, h[i - 1], i)
  BY DEF UnescapeWalk
<1> QED BY <1>1, UnescapeSkips DEF UnescapeAt

(* reading a byte that stands for itself,                                    *)
LEMMA UnescapeMovePlain ==
    ASSUME NEW r, NEW h, UnescapeWalk(h, r), NEW i \in 1..Len(r), NEW o,
           UnescapeAt(h, i - 1, o, 0), r[i] # Percent, NEW v, v = (IF r[i] = Plus THEN Space ELSE r[i])
    PROVE  UnescapeAt(h, i, Append(o, v), 0)
<1>1. h[i] = UnescapeStep(r, h[i - 1], i)
  BY DEF UnescapeWalk
<1>2. UnescapeStep(r, [out |-> o, skip |-> 0, bad |-> FALSE], i) = [out |-> Append(o, v), skip |-> 0, bad |-> FALSE]
  BY UnescapePlain
<1> QED BY <1>1, <1>2 DEF UnescapeAt

(* reading a percent sign.                                                   *)
LEMMA UnescapeMoveHex ==
    ASSUME NEW r, NEW h, UnescapeWalk(h, r), NEW i \in 1..Len(r), NEW o,
           UnescapeAt(h, i - 1, o, 0), r[i] = Percent, -1 \notin {DigitAt(r, i + 1), DigitAt(r, i + 2)},
           NEW v, v = DigitAt(r, i + 1) * 16 + DigitAt(r, i + 2)
    PROVE  UnescapeAt(h, i, Append(o, v), 2)
<1>1. h[i] = UnescapeStep(r, h[i - 1], i)
  BY DEF UnescapeWalk
<1>2. UnescapeStep(r, [out |-> o, skip |-> 0, bad |-> FALSE], i) = [out |-> Append(o, v), skip |-> 2, bad |-> FALSE]
  BY UnescapeHex
<1> QED BY <1>1, <1>2 DEF UnescapeAt

(* A decoder that comes to an escaped byte has the byte behind it.           *)
LEMMA ByteDecoded ==
    ASSUME NEW r \in Seq(Int), NEW g, UrlWalk(g, r), NEW h, UnescapeWalk(h, r),
           NEW c \in 1..255, NEW p \in Nat, LiesAt(r, EscapeByte(c), p),
           NEW o, UrlAt(g, p, o, 0), UnescapeAt(h, p, o, 0),
           NEW q, q = p + Len(EscapeByte(c))
    PROVE  UrlAt(g, q, Append(o, c), 0) /\ UnescapeAt(h, q, Append(o, c), 0)
<1>1. PICK l \in Nat : l = Len(r)
  BY LenProperties
<1>2. PICK m : m = Append(o, c)
  OBVIOUS
<1>3. ASSUME NEW x, EscapeByte(c) = <<x>>, x # Percent, c = IF x = Plus THEN Space ELSE x
      PROVE  UrlAt(g, q, m, 0) /\ UnescapeAt(h, q, m, 0)
  <2>2. q \in 1..l /\ r[q] = x /\ q - 1 = p
    BY <1>3, <1>1 DEF LiesAt
  <2>3. UrlAt(g, q - 1, o, 0) /\ UnescapeAt(h, q - 1, o, 0)
    BY <2>2
  <2>4. c = IF r[q] = Plus THEN Space ELSE r[q]
    BY <1>3, <2>2
  <2>5. UrlAt(g, q, m, 0)
    BY <1>1, <1>2, <1>3, <2>2, <2>3, <2>4, UrlMovePlain
  <2>6. UnescapeAt(h, q, m, 0)
    BY <1>1, <1>2, <1>3, <2>2, <2>3, <2>4, UnescapeMovePlain
  <2> QED BY <2>5, <2>6
<1>4. CASE c \in Alnum
  <2>1. EscapeByte(c) = <<c>>
    <3>1. Space \notin Alnum
      BY DEF Alnum, Digit, Upper, Lower, Space
    <3> QED BY <1>4, <3>1 DEF EscapeByte
  <2>2. c # Percent /\ c # Plus
    BY <1>4 DEF Alnum, Digit, Upper, Lower, Plus, Percent
  <2> QED BY <1>2, <1>3, <2>1, <2>2
<1>5. CASE c = Space
  <2>1. EscapeByte(c) = <<Plus>> /\ Plus # Percent
    BY <1>5 DEF EscapeByte, Alnum, Digit, Upper, Lower, Space, Plus, Percent
  <2> QED BY <1>2, <1>3, <2>1, <1>5
<1>6. CASE c \notin Alnum /\ c # Space
  <2>1. PICK a \in 0..15, b \in 0..15 : a = c \div 16 /\ b = c % 16 /\ a * 16 + b = c
    BY TwoDigits
  <2>2. PICK d, e : d = DigitToHex(a) /\ e = DigitToHex(b)
    OBVIOUS
  <2>13. HexToDigit(d) = a /\ HexDigit(d)
    BY <2>2, HexBack
  <2>14. HexToDigit(e) = b /\ HexDigit(e)
    BY <2>2, HexBack
  <2>3. EscapeByte(c) = <<Percent, d, e>>
    BY <1>6, <2>1, <2>2 DEF EscapeByte
  <2>4. p + 3 <= l /\ r[p + 1] = Percent /\ r[p + 2] = d /\ r[p + 3] = e /\ q = p + 3
    BY <2>3, <1>1 DEF LiesAt
  <2>5. PICK i \in 1..l, j \in 1..l :
            /\ i = p + 1 /\ j = p + 2 /\ q \in 1..l /\ i - 1 = p /\ j - 1 = i /\ q - 1 = j
            /\ i + 1 = j /\ i + 2 = q /\ i + 2 <= l
    BY <2>4
  <2>6. r[i] = Percent /\ r[j] = d /\ r[q] = e /\ DOMAIN r = 1..l
    BY <2>4, <2>5, <1>1
  <2>7. UrlAt(g, i, m, 2)
    <3>1. c = X2c(r[i + 1], r[i + 2])
      BY <2>1, <2>13, <2>14, <2>5, <2>6 DEF X2c
    <3>3. i + 2 <= Len(r) /\ HexDigit(r[i + 1]) /\ HexDigit(r[i + 2])
      BY <1>1, <2>13, <2>14, <2>5, <2>6
    <3>4. UrlAt(g, i - 1, o, 0) /\ i \in 1..Len(r)
      BY <2>5, <1>1
    <3> QED BY <1>2, <3>1, <3>3, <3>4, <2>6, UrlMoveHex
  <2>8. UnescapeAt(h, i, m, 2)
    <3>1. DigitAt(r, i + 1) = a /\ DigitAt(r, i + 2) = b
      BY <2>13, <2>14, <2>5, <2>6 DEF DigitAt
    <3>4. -1 # a /\ -1 # b
      BY <2>1
    <3>3. -1 \notin {DigitAt(r, i + 1), DigitAt(r, i + 2)} /\ c = DigitAt(r, i + 1) * 16 + DigitAt(r, i + 2)
      BY <2>1, <3>1, <3>4
    <3>5. UnescapeAt(h, i - 1, o, 0) /\ i \in 1..Len(r)
      BY <2>5, <1>1
    <3> QED BY <1>2, <3>3, <3>5, <2>6, UnescapeMoveHex
  <2>9. UrlAt(g, j, m, 1) /\ UnescapeAt(h, j, m, 1)
    <3>1. UrlAt(g, j - 1, m, 2) /\ UnescapeAt(h, j - 1, m, 2) /\ j \in 1..Len(r)
      BY <2>5, <2>7, <2>8, <1>1
    <3> QED BY <3>1, UrlMove2, UnescapeMove2
  <2>10. UrlAt(g, q - 1, m, 1) /\ UnescapeAt(h, q - 1, m, 1) /\ q \in 1..Len(r)
    BY <2>5, <2>9, <1>1
  <2>11. UrlAt(g, q, m, 0)
    BY <2>10, UrlMove1
  <2>12. UnescapeAt(h, q, m, 0)
    BY <2>10, UnescapeMove1
  <2> QED BY <1>2, <2>11, <2>12
<1> QED BY <1>2, <1>4, <1>5, <1>6
-----------------------------------------------------------------------------
(* The round trip of escape_string.                                          *)

(* A prefix, one element longer each time.                                   *)
LEMMA PrefixStart == ASSUME NEW S, NEW s \in Seq(S) PROVE SubSeq(s, 1, 0) = <<>>
OBVIOUS

(* The longest prefix is the sequence.                                       *)
LEMMA PrefixEnd == ASSUME NEW S, NEW s \in Seq(S), NEW n, n = Len(s) PROVE SubSeq(s, 1, n) = s
OBVIOUS

(* A prefix and the element behind it are the next prefix.                   *)
LEMMA PrefixGrows ==
    ASSUME NEW S, NEW s \in Seq(S), NEW k \in 1..Len(s), NEW j, j = k - 1
    PROVE  SubSeq(s, 1, k) = Append(SubSeq(s, 1, j), s[k])
OBVIOUS

(* What escape_string makes of a string, both decoders turn back.            *)
EscapesOf(s) == [i \in DOMAIN s |-> EscapeByte(s[i])]

(* The escaped forms of the bytes of a string, one by one.                   *)
LEMMA EscapesTyped ==
    ASSUME NEW s \in Seq(1..255)
    PROVE  /\ EscapesOf(s) \in Seq(Seq(Int)) /\ Len(EscapesOf(s)) = Len(s)
           /\ \A i \in 1..Len(s) : EscapesOf(s)[i] = EscapeByte(s[i]) /\ s[i] \in 1..255
<1>1. PICK n \in Nat : n = Len(s)
  BY LenProperties
<1>2. DOMAIN s = 1..n
  BY <1>1
<1>3. ASSUME NEW i \in 1..n PROVE s[i] \in 1..255 /\ EscapeByte(s[i]) \in Seq(Int)
  <2>1. s[i] \in 1..255
    BY <1>1, ElementOfSeq
  <2> QED BY <2>1, EscapeIsSeq
<1>4. EscapesOf(s) \in [1..n -> Seq(Int)]
  BY <1>2, <1>3 DEF EscapesOf
<1>5. \A i \in 1..n : EscapesOf(s)[i] = EscapeByte(s[i])
  BY <1>2 DEF EscapesOf
<1>6. EscapesOf(s) \in Seq(Seq(Int)) /\ Len(EscapesOf(s)) = n
  <2> HIDE DEF EscapesOf
  <2> QED BY <1>4, LenProperties
<1> QED BY <1>1, <1>3, <1>5, <1>6

(* unescape_string and ap_unescape_url_u both give back what escape_string   *)
(* was given: by induction over the string, as ByteDecoded says for a byte.  *)
LEMMA EscapeRoundTrip ==
    ASSUME NEW s \in Seq(1..255)
    PROVE  /\ EscapeString(s) \in Seq(Int)
           /\ UnescapeString(EscapeString(s)) = s /\ UnescapeUrl(EscapeString(s)) = s
<1> DEFINE ss == EscapesOf(s)
           r == EscapeString(s)
<1>1. PICK n \in Nat : n = Len(s)
  BY LenProperties
<1>2. ss \in Seq(Seq(Int)) /\ Len(ss) = n /\ \A i \in 1..n : ss[i] = EscapeByte(s[i]) /\ s[i] \in 1..255
  BY <1>1, EscapesTyped
<1>3. r = FlattenSeq(ss)
  BY DEF EscapeString, EscapesOf
<1>4. PICK e : Flattens(e, ss, Int) /\ r = e[n]
  <2> HIDE DEF ss, r
  <2> QED BY <1>2, <1>3, FlattenSteps
<1>5. r \in Seq(Int)
  BY <1>1, <1>2, <1>4 DEF Flattens
<1> HIDE DEF ss, r
<1>6. PICK g : UrlWalk(g, r) /\ UnescapeUrl(r) = g[Len(r)].out
  BY <1>5, UrlSteps
<1>7. PICK h : UnescapeWalk(h, r) /\ Unescaped(r) = h[Len(r)]
  BY <1>5, UnescapeSteps
<1> DEFINE At(k) == UrlAt(g, Len(e[k]), SubSeq(s, 1, k), 0) /\ UnescapeAt(h, Len(e[k]), SubSeq(s, 1, k), 0)
           T == {k \in 0..n : At(k)}
<1>8. At(0)
  <2>1. e[0] = <<>> /\ Len(e[0]) = 0 /\ SubSeq(s, 1, 0) = <<>>
    <3>1. SubSeq(s, 1, 0) = <<>>
      BY PrefixStart
    <3> QED BY <3>1, <1>4 DEF Flattens
  <2>2. g[0] = [out |-> <<>>, skip |-> 0] /\ h[0] = [out |-> <<>>, skip |-> 0, bad |-> FALSE]
    BY <1>6, <1>7 DEF UrlWalk, UnescapeWalk
  <2> QED BY <2>1, <2>2 DEF UrlAt, UnescapeAt
<1>9. ASSUME NEW k \in 0..n, At(k), k < n PROVE At(k + 1)
  <2>1. PICK j \in 1..n : j = k + 1 /\ j - 1 = k
    BY <1>9, <1>1
  <2>2. PICK p \in Nat : p = Len(e[k]) /\ Len(e[j]) = p + Len(ss[j]) /\ LiesAt(r, ss[j], p)
    BY <2>1, <1>2, <1>4, FlattenPieces
  <2>8. PICK o : o = SubSeq(s, 1, k)
    OBVIOUS
  <2>3. PICK c \in 1..255 : c = s[j] /\ ss[j] = EscapeByte(c)
    BY <2>1, <1>2
  <2>4. UrlAt(g, p, o, 0) /\ UnescapeAt(h, p, o, 0)
    BY <1>9, <2>2, <2>8
  <2>5. PICK q : q = Len(e[j]) /\ q = p + Len(EscapeByte(c)) /\ LiesAt(r, EscapeByte(c), p)
    BY <2>2, <2>3
  <2>6. UrlAt(g, q, Append(o, c), 0) /\ UnescapeAt(h, q, Append(o, c), 0)
    BY <1>5, <1>6, <1>7, <2>4, <2>5, ByteDecoded
  <2>7. Append(o, c) = SubSeq(s, 1, j)
    <3>1. SubSeq(s, 1, j) = Append(SubSeq(s, 1, k), s[j])
      <4>1. j \in 1..Len(s) /\ k = j - 1
        BY <1>1, <2>1
      <4> QED BY <4>1, PrefixGrows
    <3> QED BY <3>1, <2>3, <2>8
  <2> QED BY <2>1, <2>5, <2>6, <2>7
<1>10. At(n)
  <2>1. \A k \in 0..n : k \in T
    <3>1. 0 \in T
      BY <1>8, <1>1
    <3>2. ASSUME NEW k \in 0..n, k \in T, k < n PROVE k + 1 \in T
      <4>1. k + 1 \in 0..n
        BY <3>2, <1>1
      <4> QED BY <4>1, <3>2, <1>9
    <3> HIDE DEF T
    <3> QED BY <3>1, <3>2, <1>1, Induction
  <2>2. n \in 0..n
    BY <1>1
  <2> QED BY <2>1, <2>2
<1>11. UrlAt(g, Len(r), s, 0) /\ UnescapeAt(h, Len(r), s, 0)
  <2>1. SubSeq(s, 1, n) = s
    BY <1>1, PrefixEnd
  <2> QED BY <2>1, <1>10, <1>4
<1>12. UnescapeUrl(r) = s
  BY <1>6, <1>11 DEF UrlAt
<1>13. UnescapeString(r) = s
  <2>1. Unescaped(r).bad = FALSE /\ Unescaped(r).out = s
    BY <1>7, <1>11 DEF UnescapeAt
  <2> QED BY <2>1 DEF UnescapeString
<1> QED BY <1>5, <1>12, <1>13 DEF r
-----------------------------------------------------------------------------
(* The two decoders agree.                                                   *)

(* A digit has a value.                                                      *)
LEMMA ValueOfHex == ASSUME NEW c, HexToDigit(c) # -1 PROVE HexDigit(c)
<1>1. c \in Digit \/ c \in 65..70 \/ c \in 97..102
  BY DEF HexToDigit
<1> QED BY <1>1 DEF HexDigit

(* An error stays an error.                                                  *)
LEMMA StaysBad ==
    ASSUME NEW s, NEW i, NEW t \in UnescapeState, t.bad
    PROVE  UnescapeStep(s, t, i).bad
<1>1. t = [out |-> t.out, skip |-> t.skip, bad |-> t.bad]
  BY DEF UnescapeState
<1>2. PICK n \in Nat : t.skip = n
  BY DEF UnescapeState
<1>3. CASE n > 0
  <2>1. UnescapeStep(s, t, i) = [t EXCEPT !.skip = @ - 1]
    BY <1>2, <1>3 DEF UnescapeStep
  <2> QED BY <2>1, <1>1
<1>4. CASE n = 0 /\ s[i] = Percent
  <2>1. CASE -1 \in {DigitAt(s, i + 1), DigitAt(s, i + 2)}
    <3>1. UnescapeStep(s, t, i) = [t EXCEPT !.bad = TRUE]
      BY <1>2, <1>4, <2>1 DEF UnescapeStep, Plus, Percent
    <3> QED BY <3>1, <1>1
  <2>2. CASE -1 \notin {DigitAt(s, i + 1), DigitAt(s, i + 2)}
    <3>1. PICK v : v = DigitAt(s, i + 1) * 16 + DigitAt(s, i + 2)
      OBVIOUS
    <3>2. UnescapeStep(s, t, i) = [out |-> Append(t.out, v), skip |-> 2, bad |-> t.bad]
      BY <1>2, <1>4, <2>2, <3>1 DEF UnescapeStep, Plus, Percent
    <3> QED BY <3>2
  <2> QED BY <2>1, <2>2
<1>5. CASE n = 0 /\ s[i] # Percent
  <2>1. PICK v : v = IF s[i] = Plus THEN Space ELSE s[i]
    OBVIOUS
  <2>2. UnescapeStep(s, t, i) = [t EXCEPT !.out = Append(@, v)]
    <3>1. CASE s[i] = Plus
      BY <1>2, <1>5, <2>1, <3>1 DEF UnescapeStep
    <3>2. CASE s[i] # Plus
      BY <1>2, <1>5, <2>1, <3>2 DEF UnescapeStep
    <3> QED BY <3>1, <3>2
  <2> QED BY <2>2, <1>1
<1> QED BY <1>3, <1>4, <1>5

(* A percent sign without two digits is an error from there on.              *)
LEMMA UnescapeMoveBad ==
    ASSUME NEW r, NEW h, UnescapeWalk(h, r), NEW i \in 1..Len(r), NEW o,
           UnescapeAt(h, i - 1, o, 0), r[i] = Percent, -1 \in {DigitAt(r, i + 1), DigitAt(r, i + 2)}
    PROVE  h[i].bad
<1>1. h[i] = UnescapeStep(r, h[i - 1], i)
  BY DEF UnescapeWalk
<1>2. PICK t : t = [out |-> o, skip |-> 0, bad |-> FALSE]
  OBVIOUS
<1>3. UnescapeStep(r, t, i) = [t EXCEPT !.bad = TRUE]
  <2>1. t.skip = 0 /\ ~(t.skip > 0) /\ Plus # Percent
    BY <1>2 DEF Plus, Percent
  <2> QED BY <2>1 DEF UnescapeStep
<1>4. h[i] = [t EXCEPT !.bad = TRUE]
  BY <1>1, <1>2, <1>3 DEF UnescapeAt
<1> QED BY <1>2, <1>4

(* The decoders agree where the stricter one sees no error.                  *)
Agree(g, h, k) == h[k].bad \/ \E o, n : n \in {0, 1, 2} /\ UrlAt(g, k, o, n) /\ UnescapeAt(h, k, o, n)

(* A byte more, of any string, and the decoders agree still.                 *)
LEMMA AgreeMoves ==
    ASSUME NEW r \in Seq(Int), NEW g, UrlWalk(g, r), NEW h, UnescapeWalk(h, r),
           NEW i \in 1..Len(r), Agree(g, h, i - 1)
    PROVE  Agree(g, h, i)
<1>1. CASE h[i - 1].bad
  <2>1. h[i - 1] \in UnescapeState /\ h[i] = UnescapeStep(r, h[i - 1], i)
    <3>1. i - 1 \in 0..Len(r)
      BY LenProperties
    <3> QED BY <3>1 DEF UnescapeWalk
  <2>2. h[i].bad
    BY <1>1, <2>1, StaysBad
  <2> QED BY <2>2 DEF Agree
<1>2. ASSUME NEW o, UrlAt(g, i - 1, o, 2), UnescapeAt(h, i - 1, o, 2) PROVE Agree(g, h, i)
  <2>1. UrlAt(g, i, o, 1)
    BY <1>2, UrlMove2
  <2>2. UnescapeAt(h, i, o, 1)
    BY <1>2, UnescapeMove2
  <2> QED BY <2>1, <2>2 DEF Agree
<1>3. ASSUME NEW o, UrlAt(g, i - 1, o, 1), UnescapeAt(h, i - 1, o, 1) PROVE Agree(g, h, i)
  <2>1. UrlAt(g, i, o, 0)
    BY <1>3, UrlMove1
  <2>2. UnescapeAt(h, i, o, 0)
    BY <1>3, UnescapeMove1
  <2> QED BY <2>1, <2>2 DEF Agree
<1>4. ASSUME NEW o, UrlAt(g, i - 1, o, 0), UnescapeAt(h, i - 1, o, 0) PROVE Agree(g, h, i)
  <2>1. CASE r[i] # Percent
    <3>1. PICK v : v = IF r[i] = Plus THEN Space ELSE r[i]
      OBVIOUS
    <3>2. UrlAt(g, i, Append(o, v), 0)
      BY <1>4, <2>1, <3>1, UrlMovePlain
    <3>3. UnescapeAt(h, i, Append(o, v), 0)
      BY <1>4, <2>1, <3>1, UnescapeMovePlain
    <3> QED BY <3>2, <3>3 DEF Agree
  <2>2. CASE r[i] = Percent /\ -1 \in {DigitAt(r, i + 1), DigitAt(r, i + 2)}
    <3>1. h[i].bad
      BY <1>4, <2>2, UnescapeMoveBad
    <3> QED BY <3>1 DEF Agree
  <2>3. CASE r[i] = Percent /\ -1 \notin {DigitAt(r, i + 1), DigitAt(r, i + 2)}
    <3>1. i + 1 \in DOMAIN r /\ i + 2 \in DOMAIN r
      BY <2>3 DEF DigitAt
    <3>2. DigitAt(r, i + 1) = HexToDigit(r[i + 1]) /\ DigitAt(r, i + 2) = HexToDigit(r[i + 2])
      BY <3>1 DEF DigitAt
    <3>3. HexDigit(r[i + 1]) /\ HexDigit(r[i + 2])
      BY <2>3, <3>2, ValueOfHex
    <3>4. i + 2 <= Len(r)
      BY <3>1
    <3>5. PICK v : v = X2c(r[i + 1], r[i + 2]) /\ v = DigitAt(r, i + 1) * 16 + DigitAt(r, i + 2)
      BY <3>2 DEF X2c
    <3>6. UrlAt(g, i, Append(o, v), 2)
      BY <1>4, <2>3, <3>3, <3>4, <3>5, UrlMoveHex
    <3>7. UnescapeAt(h, i, Append(o, v), 2)
      BY <1>4, <2>3, <3>5, UnescapeMoveHex
    <3> QED BY <3>6, <3>7 DEF Agree
  <2> QED BY <2>1, <2>2, <2>3
<1> QED BY <1>1, <1>2, <1>3, <1>4 DEF Agree

(* What unescape_string decodes without an error, a query string is decoded  *)
(* to as well.                                                               *)
LEMMA DecodersAgree ==
    ASSUME NEW r \in Seq(Int), UnescapeString(r) # BadString
    PROVE  UnescapeString(r) = UnescapeUrl(r)
<1>1. PICK n \in Nat : n = Len(r)
  BY LenProperties
<1>6. PICK g : UrlWalk(g, r) /\ UnescapeUrl(r) = g[n].out
  BY <1>1, UrlSteps
<1>7. PICK h : UnescapeWalk(h, r) /\ Unescaped(r) = h[n]
  BY <1>1, UnescapeSteps
<1> DEFINE T == {k \in 0..n : Agree(g, h, k)}
<1>2. \A k \in 0..n : k \in T
  <2>1. 0 \in T
    <3>1. UrlAt(g, 0, <<>>, 0) /\ UnescapeAt(h, 0, <<>>, 0)
      BY <1>6, <1>7 DEF UrlWalk, UnescapeWalk, UrlAt, UnescapeAt
    <3> QED BY <3>1, <1>1 DEF Agree
  <2>2. ASSUME NEW k \in 0..n, k \in T, k < n PROVE k + 1 \in T
    <3>1. PICK i \in 1..n : i = k + 1 /\ i - 1 = k /\ i \in 0..n
      BY <2>2, <1>1
    <3>2. Agree(g, h, i - 1) /\ i \in 1..Len(r)
      BY <2>2, <3>1, <1>1
    <3>3. Agree(g, h, i)
      BY <3>2, <1>6, <1>7, AgreeMoves
    <3> QED BY <3>1, <3>3
  <2> HIDE DEF T
  <2> QED BY <2>1, <2>2, <1>1, Induction
<1>3. Agree(g, h, n)
  <2>1. n \in 0..n
    BY <1>1
  <2> QED BY <2>1, <1>2
<1>4. ~h[n].bad
  BY <1>7 DEF UnescapeString
<1>5. PICK o, m : UrlAt(g, n, o, m) /\ UnescapeAt(h, n, o, m)
  BY <1>3, <1>4 DEF Agree
<1>8. UnescapeUrl(r) = o /\ Unescaped(r).out = o
  BY <1>5, <1>6, <1>7 DEF UrlAt, UnescapeAt
<1> QED BY <1>4, <1>7, <1>8 DEF UnescapeString
-----------------------------------------------------------------------------
(* The escapes for the shell and for markup.                                 *)

(* The pieces escape_shell_command puts together.                            *)
ShellOf(s) == [i \in DOMAIN s |-> IF s[i] \in ShellSpecial THEN <<Backslash, s[i]>> ELSE <<s[i]>>]

(* They are sequences.                                                       *)
LEMMA ShellTyped ==
    ASSUME NEW s \in Seq(Int)
    PROVE  /\ ShellOf(s) \in Seq(Seq(Int)) /\ Len(ShellOf(s)) = Len(s)
           /\ \A i \in 1..Len(s) : ShellOf(s)[i] = IF s[i] \in ShellSpecial THEN <<Backslash, s[i]>> ELSE <<s[i]>>
<1>1. PICK n \in Nat : n = Len(s) /\ DOMAIN s = 1..n
  BY LenProperties
<1>2. ASSUME NEW i \in 1..n PROVE (IF s[i] \in ShellSpecial THEN <<Backslash, s[i]>> ELSE <<s[i]>>) \in Seq(Int)
  <2>1. s[i] \in Int /\ Backslash \in Int
    BY <1>1, ElementOfSeq DEF Backslash
  <2> QED BY <2>1
<1>3. ShellOf(s) \in [1..n -> Seq(Int)]
  BY <1>1, <1>2 DEF ShellOf
<1>4. ShellOf(s) \in Seq(Seq(Int)) /\ Len(ShellOf(s)) = n
  <2> HIDE DEF ShellOf
  <2> QED BY <1>3, LenProperties
<1>5. \A i \in 1..n : ShellOf(s)[i] = IF s[i] \in ShellSpecial THEN <<Backslash, s[i]>> ELSE <<s[i]>>
  BY <1>1 DEF ShellOf
<1> QED BY <1>1, <1>4, <1>5

(* What a shell has read.                                                    *)
ShellState == [out : Seq(Int), literal : BOOLEAN, bad : BOOLEAN]

(* A step of the shell, of any state.                                        *)
LEMMA ShellStepTyped ==
    ASSUME NEW t \in ShellState, NEW c \in Int
    PROVE  ShellStep(t, c) \in ShellState
<1>1. t = [out |-> t.out, literal |-> t.literal, bad |-> t.bad]
  BY DEF ShellState
<1>2. PICK o \in Seq(Int), l \in BOOLEAN, b \in BOOLEAN : o = t.out /\ l = t.literal /\ b = t.bad
  BY DEF ShellState
<1>3. Append(o, c) \in Seq(Int)
  BY AppendProperties
<1>4. CASE l
  <2>1. ShellStep(t, c) = [out |-> Append(o, c), literal |-> FALSE, bad |-> b]
    BY <1>1, <1>2, <1>4 DEF ShellStep
  <2> QED BY <2>1, <1>3 DEF ShellState
<1>5. CASE ~l /\ c = Backslash
  <2>1. ShellStep(t, c) = [out |-> o, literal |-> TRUE, bad |-> b]
    BY <1>1, <1>2, <1>5 DEF ShellStep
  <2> QED BY <2>1 DEF ShellState
<1>6. CASE ~l /\ c # Backslash
  <2>1. PICK d \in BOOLEAN : d = (b \/ c \in ShellSpecial)
    OBVIOUS
  <2>2. ShellStep(t, c) = [out |-> Append(o, c), literal |-> FALSE, bad |-> d]
    BY <1>1, <1>2, <1>6, <2>1 DEF ShellStep
  <2> QED BY <2>2, <1>3 DEF ShellState
<1> QED BY <1>4, <1>5, <1>6

(* A shell's way through a string, byte by byte.                             *)
ShellWalk(g, s) ==
    /\ g \in [0..Len(s) -> ShellState] /\ g[0] = ShellStart
    /\ \A k \in 1..Len(s) : g[k] = ShellStep(g[k - 1], s[k])

(* The fold of ShellReading is such a walk.                                  *)
LEMMA ShellSteps ==
    ASSUME NEW str \in Seq(Int)
    PROVE  \E g : ShellWalk(g, str) /\ ShellReading(str) = g[Len(str)]
<1> DEFINE n == Len(str)
           seq == str
           V == ShellState
           start == ShellStart
           G == [p \in V \X (1..n) |-> ShellStep(p[1], str[p[2]])]
           Eq(u) == u = [s \in SUBSET (DOMAIN seq) |->
                      IF s = {} THEN start ELSE ShellStep(u[s \ {Max(s)}], str[Max(s)])]
<1>1. n \in Nat /\ DOMAIN seq = 1..n
  OBVIOUS
<1>2. start \in V
  BY DEF ShellState, ShellStart
<1>3. \A t \in V, i \in 1..n : ShellStep(t, str[i]) \in V
  BY ShellStepTyped, ElementOfSeq
<1>4. /\ G \in [V \X (1..n) -> V]
      /\ \A t \in V, i \in 1..n : G[<<t, i>>] = ShellStep(t, str[i])
  <2> HIDE DEF V, n
  <2> QED BY <1>3
<1>5. ASSUME NEW u, NEW s \in SUBSET (1..n), s # {}, u[s \ {Max(s)}] \in V
      PROVE  /\ Max(s) \in 1..n
             /\ G[<<u[s \ {Max(s)}], Max(s)>>] = ShellStep(u[s \ {Max(s)}], str[Max(s)])
  <2> HIDE DEF V, n, G, seq
  <2>1. Max(s) \in 1..n
    BY <1>1, <1>5, MaxIn
  <2> QED BY <2>1, <1>1, <1>4, <1>5
<1>6. \E f : Eq(f)
  <2> HIDE DEF G, n, V, start, seq
  <2>1. PICK f \in [SUBSET (1..n) -> V] : Iterates(f, n, start, G)
    BY <1>1, <1>2, <1>4, IterationExists
  <2>2. ASSUME NEW s \in SUBSET (1..n), s # {}
        PROVE  f[s] = ShellStep(f[s \ {Max(s)}], str[Max(s)])
    BY <2>1, <2>2, <1>5 DEF Iterates
  <2>3. f[{}] = start /\ f = [s \in SUBSET (1..n) |-> f[s]]
    BY <2>1 DEF Iterates
  <2>4. Eq(f)
    BY <2>2, <2>3, <1>1
  <2> HIDE DEF Eq
  <2> QED BY <2>4
<1>7. PICK w : Eq(w) /\ ShellReading(str) = w[1..n]
  <2>1. ShellReading(str) = (CHOOSE u : Eq(u))[DOMAIN seq]
    BY DEF ShellReading, ShellStart, FoldLeft, MapThenFoldSet
  <2> HIDE DEF Eq, n, seq, V, start
  <2> QED BY <1>1, <1>6, <2>1
<1>8. FoldEquations(w, n, V, start, G)
  <2>1. ASSUME NEW s \in SUBSET (1..n)
        PROVE  w[s] = IF s = {} THEN start ELSE ShellStep(w[s \ {Max(s)}], str[Max(s)])
    <3> HIDE DEF n, V, start, G, seq
    <3> QED BY <1>1, <1>7
  <2> HIDE DEF n, V, start, G, seq, Eq
  <2> QED BY <2>1, <1>5 DEF FoldEquations
<1>9. FoldWalks(w, n, V, start, G)
  <2> HIDE DEF n, V, start, G, seq, Eq
  <2> QED BY <1>1, <1>2, <1>4, <1>8, FoldSteps
<1>10. PICK g : Walks(g, n, V, start, G) /\ g[n] = w[1..n]
  BY <1>9 DEF FoldWalks
<1>11. ASSUME NEW k \in 1..n PROVE g[k] = ShellStep(g[k - 1], str[k])
  <2>1. k - 1 \in 0..n
    BY <1>1
  <2> HIDE DEF n, V, start, G, seq, Eq
  <2> QED BY <1>4, <1>10, <2>1 DEF Walks
<1>12. ShellWalk(g, str)
  <2> HIDE DEF G, Eq, seq
  <2> QED BY <1>10, <1>11 DEF ShellWalk, Walks
<1> HIDE DEF n, V, start, G, seq, Eq
<1> QED BY <1>7, <1>10, <1>12 DEF n

(* The shell has read o, found nothing that means something, and is not       *)
(* behind a backslash.                                                       *)
ShellAt(g, p, o) == g[p] = [out |-> o, literal |-> FALSE, bad |-> FALSE]

(* The shell meets a backslash,                                              *)
LEMMA ShellOpens ==
    ASSUME NEW o
    PROVE  ShellStep([out |-> o, literal |-> FALSE, bad |-> FALSE], Backslash) = [out |-> o, literal |-> TRUE, bad |-> FALSE]
<1>1. PICK f, u, t : f = FALSE /\ u = TRUE /\ t = [out |-> o, literal |-> f, bad |-> f]
  OBVIOUS
<1>2. ~t.literal /\ t.out = o
  BY <1>1
<1>3. ShellStep(t, Backslash) = [out |-> o, literal |-> u, bad |-> t.bad]
  BY <1>1, <1>2 DEF ShellStep
<1>4. t.bad = f
  BY <1>1
<1>5. ShellStep(t, Backslash) = [out |-> o, literal |-> u, bad |-> f]
  BY <1>3, <1>4, Zenon
<1> QED BY <1>1, <1>5, Zenon

(* the byte behind it,                                                       *)
LEMMA ShellTakes ==
    ASSUME NEW o, NEW c
    PROVE  ShellStep([out |-> o, literal |-> TRUE, bad |-> FALSE], c) = [out |-> Append(o, c), literal |-> FALSE, bad |-> FALSE]
<1>1. PICK f, u, t : f = FALSE /\ u = TRUE /\ t = [out |-> o, literal |-> u, bad |-> f]
  OBVIOUS
<1>2. t.literal /\ t.out = o
  BY <1>1
<1>7. PICK q : q = Append(o, c)
  OBVIOUS
<1>3. ShellStep(t, c) = [out |-> q, literal |-> f, bad |-> t.bad]
  BY <1>1, <1>2, <1>7 DEF ShellStep
<1>4. t.bad = f
  BY <1>1
<1>5. ShellStep(t, c) = [out |-> q, literal |-> f, bad |-> f]
  BY <1>3, <1>4, Zenon
<1> QED BY <1>1, <1>5, <1>7, Zenon

(* or a byte that means nothing to it.                                       *)
LEMMA ShellPasses ==
    ASSUME NEW o, NEW c, c \notin ShellSpecial
    PROVE  ShellStep([out |-> o, literal |-> FALSE, bad |-> FALSE], c) = [out |-> Append(o, c), literal |-> FALSE, bad |-> FALSE]
<1>1. PICK f, t : f = FALSE /\ t = [out |-> o, literal |-> f, bad |-> f]
  OBVIOUS
<1>2. ~t.literal /\ t.out = o /\ t.bad = f /\ c # Backslash
  BY <1>1 DEF ShellSpecial, Backslash
<1>3. PICK d : d = (t.bad \/ c \in ShellSpecial)
  OBVIOUS
<1>4. ShellStep(t, c) = [out |-> Append(t.out, c), literal |-> f, bad |-> d]
  BY <1>1, <1>2, <1>3 DEF ShellStep
<1>5. d = f
  BY <1>1, <1>2, <1>3
<1>6. ShellStep(t, c) = [out |-> Append(o, c), literal |-> f, bad |-> f]
  BY <1>2, <1>4, <1>5
<1> QED BY <1>1, <1>6, Zenon

(* Behind what became of a byte the shell has read that byte.                *)
LEMMA ByteRead ==
    ASSUME NEW r \in Seq(Int), NEW g, ShellWalk(g, r), NEW p \in Nat, NEW o, ShellAt(g, p, o),
           NEW c \in Int, NEW b, b = IF c \in ShellSpecial THEN <<Backslash, c>> ELSE <<c>>, LiesAt(r, b, p)
    PROVE  ShellAt(g, p + Len(b), Append(o, c))
<1>1. PICK l \in Nat : l = Len(r)
  BY LenProperties
<1>2. CASE c \in ShellSpecial
  <2>1. b = <<Backslash, c>> /\ Len(b) = 2 /\ b[1] = Backslash /\ b[2] = c
    BY <1>2
  <2>2. p + 2 <= l /\ r[p + 1] = Backslash /\ r[p + 2] = c
    BY <2>1, <1>1 DEF LiesAt
  <2>3. PICK i \in 1..l, m \in 1..l : i = p + 1 /\ i - 1 = p /\ m = p + 2 /\ m - 1 = i
    BY <2>2
  <2>4. g[i] = [out |-> o, literal |-> TRUE, bad |-> FALSE]
    <3>1. g[i] = ShellStep(g[p], Backslash)
      BY <1>1, <2>2, <2>3 DEF ShellWalk
    <3> QED BY <3>1, ShellOpens DEF ShellAt
  <2>5. g[m] = [out |-> Append(o, c), literal |-> FALSE, bad |-> FALSE]
    <3>1. g[m] = ShellStep(g[i], c)
      BY <1>1, <2>2, <2>3 DEF ShellWalk
    <3> QED BY <3>1, <2>4, ShellTakes
  <2> QED BY <2>1, <2>3, <2>5 DEF ShellAt
<1>3. CASE c \notin ShellSpecial
  <2>1. b = <<c>> /\ Len(b) = 1 /\ b[1] = c
    BY <1>3
  <2>2. PICK i \in 1..l : i = p + 1 /\ i - 1 = p /\ r[i] = c
    BY <2>1, <1>1 DEF LiesAt
  <2>4. g[i] = ShellStep(g[p], c)
    BY <1>1, <2>2 DEF ShellWalk
  <2>5. g[i] = [out |-> Append(o, c), literal |-> FALSE, bad |-> FALSE]
    BY <1>3, <2>4, ShellPasses DEF ShellAt
  <2> QED BY <2>1, <2>2, <2>5 DEF ShellAt
<1> QED BY <1>2, <1>3

(* A shell reads what escape_shell_command makes as what it was given.       *)
LEMMA ShellUndone ==
    ASSUME NEW s \in Seq(Int)
    PROVE  ShellReading(EscapeShellCommand(s)) = [out |-> s, literal |-> FALSE, bad |-> FALSE]
<1>1. PICK n \in Nat : n = Len(s)
  BY LenProperties
<1>2. PICK ss : ss = ShellOf(s) /\ ss \in Seq(Seq(Int)) /\ Len(ss) = n
        /\ \A i \in 1..n : ss[i] = IF s[i] \in ShellSpecial THEN <<Backslash, s[i]>> ELSE <<s[i]>>
  BY <1>1, ShellTyped
<1>3. PICK e, r : Flattens(e, ss, Int) /\ r = EscapeShellCommand(s) /\ r = e[n]
  <2>1. EscapeShellCommand(s) = FlattenSeq(ss)
    BY <1>2 DEF EscapeShellCommand, ShellOf
  <2> QED BY <1>2, <2>1, FlattenSteps
<1>4. r \in Seq(Int)
  BY <1>1, <1>2, <1>3 DEF Flattens
<1>5. PICK g : ShellWalk(g, r) /\ ShellReading(r) = g[Len(r)]
  BY <1>4, ShellSteps
<1> DEFINE At(k) == ShellAt(g, Len(e[k]), SubSeq(s, 1, k))
           T == {k \in 0..n : At(k)}
<1>8. At(0)
  <2>1. e[0] = <<>> /\ Len(e[0]) = 0 /\ SubSeq(s, 1, 0) = <<>>
    BY <1>3, PrefixStart DEF Flattens
  <2> QED BY <2>1, <1>5 DEF ShellWalk, ShellStart, ShellAt
<1>9. ASSUME NEW k \in 0..n, At(k), k < n PROVE At(k + 1)
  <2>1. PICK j \in 1..n : j = k + 1 /\ j - 1 = k
    BY <1>9, <1>1
  <2>2. PICK p \in Nat : p = Len(e[k]) /\ Len(e[j]) = p + Len(ss[j]) /\ LiesAt(r, ss[j], p)
    <3>1. j \in 1..Len(ss)
      BY <1>2
    <3>2. Behind(e, ss, j)
      BY <3>1, <1>2, <1>3, FlattenBehind
    <3> QED BY <3>2, <2>1, <1>2, <1>3 DEF Behind
  <2>3. PICK c \in Int : c = s[j]
    BY <1>1, ElementOfSeq
  <2>4. PICK o : o = SubSeq(s, 1, k)
    OBVIOUS
  <2>5. ShellAt(g, p, o)
    BY <1>9, <2>2, <2>4
  <2>6. PICK b : b = ss[j] /\ b = IF c \in ShellSpecial THEN <<Backslash, c>> ELSE <<c>>
    BY <1>2, <2>3
  <2>7. ShellAt(g, p + Len(b), Append(o, c))
    BY <1>4, <1>5, <2>2, <2>5, <2>6, ByteRead
  <2>8. Append(o, c) = SubSeq(s, 1, j)
    <3>1. j \in 1..Len(s) /\ k = j - 1
      BY <1>1, <2>1
    <3>2. SubSeq(s, 1, j) = Append(SubSeq(s, 1, k), s[j])
      BY <3>1, PrefixGrows
    <3> QED BY <3>2, <2>3, <2>4
  <2> QED BY <2>1, <2>2, <2>6, <2>7, <2>8
<1>10. At(n)
  <2>1. \A k \in 0..n : k \in T
    <3>1. 0 \in T
      BY <1>8, <1>1
    <3>2. ASSUME NEW k \in 0..n, k \in T, k < n PROVE k + 1 \in T
      <4>1. k + 1 \in 0..n
        BY <3>2, <1>1
      <4> QED BY <4>1, <3>2, <1>9
    <3> HIDE DEF T
    <3> QED BY <3>1, <3>2, <1>1, Induction
  <2>2. n \in 0..n
    BY <1>1
  <2> QED BY <2>1, <2>2
<1>11. SubSeq(s, 1, n) = s
  BY <1>1, PrefixEnd
<1> QED BY <1>10, <1>11, <1>3, <1>5 DEF ShellAt

(* No character of markup is left, and the entities stand for what was there.*)
Unentity(s) == [i \in DOMAIN s |-> IF s[i] < 0 THEN -s[i] ELSE s[i]]

LEMMA SgmlGone ==
    ASSUME NEW s \in Seq(1..255)
    PROVE  /\ Range(EscapeSgmlChars(s)) \cap SgmlSpecial = {}
           /\ s = Unentity(EscapeSgmlChars(s))
<1>1. PICK n \in Nat : n = Len(s) /\ DOMAIN s = 1..n
  BY LenProperties
<1>2. ASSUME NEW i \in 1..n
      PROVE  /\ EscapeSgmlChars(s)[i] \notin SgmlSpecial
             /\ s[i] = IF EscapeSgmlChars(s)[i] < 0 THEN -EscapeSgmlChars(s)[i]
                       ELSE EscapeSgmlChars(s)[i]
  <2>1. PICK c \in 1..255 : c = s[i]
    BY <1>1, ElementOfSeq
  <2>2. EscapeSgmlChars(s)[i] = IF c \in SgmlSpecial THEN -c ELSE c
    BY <1>1, <2>1 DEF EscapeSgmlChars
  <2>3. PICK e \in Int : e = -c /\ e < 0 /\ -e = c /\ ~(c < 0)
    <3>1. c \in Int /\ c > 0
      OBVIOUS
    <3>2. PICK e \in Int : e = -c
      BY <3>1
    <3>3. e < 0 /\ -e = c /\ ~(c < 0)
      BY <3>1, <3>2
    <3> QED BY <3>2, <3>3
  <2>4. e \notin SgmlSpecial
    BY <2>3 DEF SgmlSpecial
  <2>5. CASE c \in SgmlSpecial
    <3>1. EscapeSgmlChars(s)[i] = e
      BY <2>2, <2>3, <2>5
    <3> QED BY <2>1, <2>3, <2>4, <3>1
  <2>6. CASE c \notin SgmlSpecial
    <3>1. EscapeSgmlChars(s)[i] = c
      BY <2>2, <2>6
    <3> QED BY <2>1, <2>3, <2>6, <3>1
  <2> QED BY <2>5, <2>6
<1>3. DOMAIN EscapeSgmlChars(s) = 1..n
  BY <1>1 DEF EscapeSgmlChars
<1>4. s = [i \in 1..n |-> s[i]]
  BY <1>1
<1>5. s = Unentity(EscapeSgmlChars(s))
  BY <1>2, <1>3, <1>4 DEF Unentity
<1> QED BY <1>2, <1>3, <1>5 DEF Range
-----------------------------------------------------------------------------
(* The words of a query string.                                              *)

WordState == [words : Seq(Seq(Int)), word : Seq(Int), open : BOOLEAN]

(* A step of split_to_parms, of any state.                                   *)
LEMMA WordTyped ==
    ASSUME NEW t \in WordState, NEW c \in Int, NEW first \in BOOLEAN
    PROVE  WordStep(t, c, first) \in WordState
<1>1. t.words \in Seq(Seq(Int)) /\ t.word \in Seq(Int) /\ t.open \in BOOLEAN
  BY DEF WordState
<1>3. CASE c \notin {Amp, Semi}
  <2>2. WordStep(t, c, first) = [words |-> t.words, word |-> Append(t.word, c), open |-> TRUE]
    BY <1>3 DEF WordStep
  <2> QED BY <2>2, <1>1 DEF WordState
<1>4. CASE c \in {Amp, Semi} /\ (t.open \/ first)
  <2>1. WordStep(t, c, first) = [words |-> Append(t.words, t.word), word |-> <<>>, open |-> FALSE]
    BY <1>4 DEF WordStep
  <2> QED BY <2>1, <1>1 DEF WordState
<1>5. CASE c \in {Amp, Semi} /\ ~(t.open \/ first)
  <2>1. WordStep(t, c, first) = t
    BY <1>5 DEF WordStep
  <2> QED BY <2>1
<1> QED BY <1>3, <1>4, <1>5

(* The same at a position of the query string.                               *)
LEMMA WordTypedAt ==
    ASSUME NEW str \in Seq(Int), NEW t \in WordState, NEW i \in 1..Len(str)
    PROVE  WordStep(t, str[i], i = 1) \in WordState
<1>1. str[i] \in Int
  BY ElementOfSeq
<1>2. (i = 1) \in BOOLEAN
  OBVIOUS
<1> QED BY <1>1, <1>2, WordTyped

(* The words of a query string, position by position.                        *)
WordWalk(g, str) ==
    /\ g \in [0..Len(str) -> WordState] /\ g[0] = [words |-> <<>>, word |-> <<>>, open |-> FALSE]
    /\ \A k \in 1..Len(str) : g[k] = WordStep(g[k - 1], str[k], k = 1)

(* The fold of WordsEnd is such a walk.                                      *)
LEMMA WordSteps ==
    ASSUME NEW str \in Seq(Int)
    PROVE  \E g : WordWalk(g, str) /\ WordsEnd(str) = g[Len(str)]
<1> DEFINE n == Len(str)
           seq == [i \in 1..Len(str) |-> i]
           V == WordState
           start == [words |-> <<>>, word |-> <<>>, open |-> FALSE]
           G == [p \in V \X (1..n) |-> WordStep(p[1], str[p[2]], p[2] = 1)]
           Eq(u) == u = [s \in SUBSET (DOMAIN seq) |->
                      IF s = {} THEN start ELSE WordStep(u[s \ {Max(s)}], str[seq[Max(s)]], seq[Max(s)] = 1)]
<1>1. n \in Nat /\ DOMAIN seq = 1..n /\ \A i \in 1..n : seq[i] = i
  OBVIOUS
<1>2. start \in V
  BY DEF WordState
<1>3. \A t \in V, i \in 1..n : WordStep(t, str[i], i = 1) \in V
  BY WordTypedAt
<1>4. /\ G \in [V \X (1..n) -> V]
      /\ \A t \in V, i \in 1..n : G[<<t, i>>] = WordStep(t, str[i], i = 1)
  <2> HIDE DEF V, n
  <2> QED BY <1>3
<1>5. ASSUME NEW u, NEW s \in SUBSET (1..n), s # {}, u[s \ {Max(s)}] \in V
      PROVE  /\ Max(s) \in 1..n /\ seq[Max(s)] = Max(s)
             /\ G[<<u[s \ {Max(s)}], Max(s)>>] = WordStep(u[s \ {Max(s)}], str[seq[Max(s)]], seq[Max(s)] = 1)
  <2> HIDE DEF V, n, G, seq
  <2>1. Max(s) \in 1..n
    BY <1>1, <1>5, MaxIn
  <2> QED BY <2>1, <1>1, <1>4, <1>5
<1>6. \E f : Eq(f)
  <2> HIDE DEF G, n, V, start, seq
  <2>1. PICK f \in [SUBSET (1..n) -> V] : Iterates(f, n, start, G)
    BY <1>1, <1>2, <1>4, IterationExists
  <2>2. ASSUME NEW s \in SUBSET (1..n), s # {}
        PROVE  f[s] = WordStep(f[s \ {Max(s)}], str[seq[Max(s)]], seq[Max(s)] = 1)
    BY <2>1, <2>2, <1>5 DEF Iterates
  <2>3. f[{}] = start /\ f = [s \in SUBSET (1..n) |-> f[s]]
    BY <2>1 DEF Iterates
  <2>4. Eq(f)
    BY <2>2, <2>3, <1>1
  <2> HIDE DEF Eq
  <2> QED BY <2>4
<1>7. PICK w : Eq(w) /\ WordsEnd(str) = w[1..n]
  <2>1. WordsEnd(str) = (CHOOSE u : Eq(u))[DOMAIN seq]
    BY DEF WordsEnd, FoldLeft, MapThenFoldSet
  <2> HIDE DEF Eq, n, seq, V, start
  <2> QED BY <1>1, <1>6, <2>1
<1>8. FoldEquations(w, n, V, start, G)
  <2>1. ASSUME NEW s \in SUBSET (1..n)
        PROVE  w[s] = IF s = {} THEN start ELSE WordStep(w[s \ {Max(s)}], str[seq[Max(s)]], seq[Max(s)] = 1)
    <3> HIDE DEF n, V, start, G, seq
    <3> QED BY <1>1, <1>7
  <2> HIDE DEF n, V, start, G, seq, Eq
  <2> QED BY <2>1, <1>5 DEF FoldEquations
<1>9. FoldWalks(w, n, V, start, G)
  <2> HIDE DEF n, V, start, G, seq, Eq
  <2> QED BY <1>1, <1>2, <1>4, <1>8, FoldSteps
<1>10. PICK g : Walks(g, n, V, start, G) /\ g[n] = w[1..n]
  BY <1>9 DEF FoldWalks
<1>11. ASSUME NEW k \in 1..n PROVE g[k] = WordStep(g[k - 1], str[k], k = 1)
  <2>1. k - 1 \in 0..n
    BY <1>1
  <2> HIDE DEF n, V, start, G, seq, Eq
  <2> QED BY <1>4, <1>10, <2>1 DEF Walks
<1>12. WordWalk(g, str)
  <2> HIDE DEF G, Eq, seq
  <2> QED BY <1>10, <1>11 DEF WordWalk, Walks
<1> HIDE DEF n, V, start, G, seq, Eq
<1> QED BY <1>7, <1>10, <1>12 DEF n

(* Where the reader of words is: in a word, or behind a separator.           *)
OpenAt(g, k, ws, w) == g[k] = [words |-> ws, word |-> w, open |-> TRUE]
ClosedAt(g, k, ws) == g[k] = [words |-> ws, word |-> <<>>, open |-> FALSE]

(* A byte that ends no word begins one,                                      *)
LEMMA WordOpens ==
    ASSUME NEW r, NEW g, WordWalk(g, r), NEW i \in 1..Len(r), NEW ws,
           ClosedAt(g, i - 1, ws), r[i] \notin {Amp, Semi}
    PROVE  OpenAt(g, i, ws, Append(<<>>, r[i]))
<1>1. g[i] = WordStep(g[i - 1], r[i], i = 1)
  BY DEF WordWalk
<1>2. PICK t, c : t = g[i - 1] /\ c = r[i]
  OBVIOUS
<1>3. g[i] = [words |-> t.words, word |-> Append(t.word, c), open |-> TRUE]
  BY <1>1, <1>2 DEF WordStep
<1>4. t = [words |-> ws, word |-> <<>>, open |-> FALSE]
  BY <1>2 DEF ClosedAt
<1>5. t.words = ws /\ t.word = <<>>
  BY <1>4
<1> QED BY <1>2, <1>3, <1>5 DEF OpenAt

(* or goes on with one,                                                      *)
LEMMA WordGoesOn ==
    ASSUME NEW r, NEW g, WordWalk(g, r), NEW i \in 1..Len(r), NEW ws, NEW w,
           OpenAt(g, i - 1, ws, w), r[i] \notin {Amp, Semi}
    PROVE  OpenAt(g, i, ws, Append(w, r[i]))
<1>1. g[i] = WordStep(g[i - 1], r[i], i = 1)
  BY DEF WordWalk
<1>2. PICK t, c : t = g[i - 1] /\ c = r[i]
  OBVIOUS
<1>3. g[i] = [words |-> t.words, word |-> Append(t.word, c), open |-> TRUE]
  BY <1>1, <1>2 DEF WordStep
<1>4. t = [words |-> ws, word |-> w, open |-> TRUE]
  BY <1>2 DEF OpenAt
<1>5. t.words = ws /\ t.word = w
  BY <1>4
<1> QED BY <1>2, <1>3, <1>5 DEF OpenAt

(* and a separator behind a word ends it.                                    *)
LEMMA WordEnds ==
    ASSUME NEW r, NEW g, WordWalk(g, r), NEW i \in 1..Len(r), NEW ws, NEW w,
           OpenAt(g, i - 1, ws, w), r[i] \in {Amp, Semi}
    PROVE  ClosedAt(g, i, Append(ws, w))
<1>1. g[i] = WordStep(g[i - 1], r[i], i = 1)
  BY DEF WordWalk
<1>2. PICK t, c : t = g[i - 1] /\ c = r[i]
  OBVIOUS
<1>4. t = [words |-> ws, word |-> w, open |-> TRUE]
  BY <1>2 DEF OpenAt
<1>5. t.open /\ t.words = ws /\ t.word = w
  BY <1>4
<1>3. g[i] = [words |-> Append(t.words, t.word), word |-> <<>>, open |-> FALSE]
  BY <1>1, <1>2, <1>5 DEF WordStep
<1> QED BY <1>3, <1>5 DEF ClosedAt

(* A word is read to its end.                                                *)
Safe == Int \ {Amp, Semi, Equals}
Unsplit == Int \ {Amp, Semi}

(* The bytes of a word that lies in the query string are read as the word:   *)
(* by induction over its bytes.                                              *)
LEMMA WordRead ==
    ASSUME NEW r \in Seq(Int), NEW g, WordWalk(g, r), NEW ws, NEW p \in Nat,
           ClosedAt(g, p, ws), NEW w \in Seq(Unsplit), w # <<>>, LiesAt(r, w, p)
    PROVE  OpenAt(g, p + Len(w), ws, w)
<1>1. PICK n \in Nat, l \in Nat : n = Len(w) /\ l = Len(r)
  BY LenProperties
<1>2. n # 0
  BY <1>1
<1>3. p + n <= l /\ \A i \in 1..n : r[p + i] = w[i] /\ w[i] \notin {Amp, Semi}
  <2>1. ASSUME NEW i \in 1..n PROVE w[i] \in Unsplit
    BY <1>1, ElementOfSeq
  <2> QED BY <2>1, <1>1 DEF LiesAt, Unsplit
<1> DEFINE T == {k \in 0..n : k = 0 \/ OpenAt(g, p + k, ws, SubSeq(w, 1, k))}
<1>4. \A k \in 0..n : k \in T
  <2>1. 0 \in T
    BY <1>1
  <2>2. ASSUME NEW k \in 0..n, k \in T, k < n PROVE k + 1 \in T
    <3>1. PICK j \in 1..n, i \in 1..l : j = k + 1 /\ i = p + j /\ i - 1 = p + k /\ j - 1 = k
      BY <2>2, <1>1, <1>3
    <3>2. r[i] = w[j] /\ r[i] \notin {Amp, Semi} /\ i \in 1..Len(r)
      BY <3>1, <1>1, <1>3
    <3>3. SubSeq(w, 1, j) = Append(SubSeq(w, 1, k), r[i])
      <4>1. j \in 1..Len(w) /\ k = j - 1
        BY <3>1, <1>1
      <4>2. SubSeq(w, 1, j) = Append(SubSeq(w, 1, k), w[j])
        BY <4>1, PrefixGrows
      <4> QED BY <4>2, <3>2
    <3>4. ASSUME k = 0 PROVE OpenAt(g, i, ws, SubSeq(w, 1, j))
      <4>1. ClosedAt(g, i - 1, ws) /\ SubSeq(w, 1, k) = <<>>
        <5>1. SubSeq(w, 1, 0) = <<>>
          BY PrefixStart
        <5>2. i - 1 = p
          BY <3>1, <3>4
        <5> QED BY <5>1, <5>2, <3>4
      <4>2. OpenAt(g, i, ws, Append(<<>>, r[i]))
        BY <4>1, <3>2, WordOpens
      <4> QED BY <4>1, <4>2, <3>3
    <3>5. ASSUME k # 0 PROVE OpenAt(g, i, ws, SubSeq(w, 1, j))
      <4>1. PICK u : u = SubSeq(w, 1, k) /\ OpenAt(g, i - 1, ws, u)
        BY <3>1, <3>5, <2>2
      <4>2. OpenAt(g, i, ws, Append(u, r[i]))
        BY <4>1, <3>2, WordGoesOn
      <4> QED BY <4>1, <4>2, <3>3
    <3>6. OpenAt(g, i, ws, SubSeq(w, 1, j))
      BY <3>4, <3>5
    <3>7. k + 1 \in 0..n /\ p + (k + 1) = i /\ k + 1 = j
      BY <3>1
    <3> QED BY <3>6, <3>7
  <2> HIDE DEF T
  <2> QED BY <2>1, <2>2, <1>1, Induction
<1>5. OpenAt(g, p + n, ws, SubSeq(w, 1, n))
  <2>1. n \in 0..n
    BY <1>1
  <2> QED BY <2>1, <1>2, <1>4
<1>6. SubSeq(w, 1, n) = w
  BY <1>1, PrefixEnd
<1> QED BY <1>1, <1>5, <1>6

(* Words with an ampersand between them are read as these words.             *)
Separated(words) == [i \in DOMAIN words |-> (IF i > 1 THEN <<Amp>> ELSE <<>>) \o words[i]]
Word == Seq(Unsplit) \ {<<>>}

(* Words and separators are sequences of numbers.                            *)
LEMMA SeparatedTyped ==
    ASSUME NEW words \in Seq(Word)
    PROVE  /\ Separated(words) \in Seq(Seq(Int)) /\ Len(Separated(words)) = Len(words)
           /\ \A i \in 1..Len(words) : words[i] \in Word /\ words[i] \in Seq(Int)
                /\ Separated(words)[i] = (IF i > 1 THEN <<Amp>> ELSE <<>>) \o words[i]
<1>1. PICK n \in Nat : n = Len(words) /\ DOMAIN words = 1..n
  BY LenProperties
<1>2. ASSUME NEW i \in 1..n PROVE words[i] \in Word /\ words[i] \in Seq(Int)
  <2>1. words[i] \in Word
    BY <1>1, ElementOfSeq
  <2> QED BY <2>1 DEF Word, Unsplit
<1>3. ASSUME NEW i \in 1..n PROVE (IF i > 1 THEN <<Amp>> ELSE <<>>) \o words[i] \in Seq(Int)
  <2>1. (IF i > 1 THEN <<Amp>> ELSE <<>>) \in Seq(Int)
    BY DEF Amp
  <2> QED BY <2>1, <1>2, ConcatProperties
<1>4. Separated(words) \in [1..n -> Seq(Int)]
  BY <1>1, <1>3 DEF Separated
<1>5. \A i \in 1..n : Separated(words)[i] = (IF i > 1 THEN <<Amp>> ELSE <<>>) \o words[i]
  BY <1>1 DEF Separated
<1>6. Separated(words) \in Seq(Seq(Int)) /\ Len(Separated(words)) = n
  <2> HIDE DEF Separated
  <2> QED BY <1>4, LenProperties
<1> QED BY <1>1, <1>2, <1>5, <1>6

(* The words of a query string are the words it was put together from: by    *)
(* induction over the words.                                                 *)
LEMMA WordsRead ==
    ASSUME NEW words \in Seq(Word)
    PROVE  UrlWords(FlattenSeq(Separated(words))) = words
<1>1. PICK n \in Nat : n = Len(words)
  BY LenProperties
<1>2. PICK ss : ss = Separated(words) /\ ss \in Seq(Seq(Int)) /\ Len(ss) = n
        /\ \A i \in 1..n : words[i] \in Word /\ words[i] \in Seq(Int)
                            /\ ss[i] = (IF i > 1 THEN <<Amp>> ELSE <<>>) \o words[i]
  BY <1>1, SeparatedTyped
<1>3. PICK e, r : Flattens(e, ss, Int) /\ r = FlattenSeq(ss) /\ r = e[n]
  BY <1>2, FlattenSteps
<1>4. r \in Seq(Int) /\ e[0] = <<>>
  BY <1>1, <1>2, <1>3 DEF Flattens
<1>5. PICK l \in Nat : l = Len(r)
  BY <1>4, LenProperties
<1>6. PICK g : WordWalk(g, r) /\ WordsEnd(r) = g[l]
  BY <1>4, <1>5, WordSteps
<1>7. g[0] = [words |-> <<>>, word |-> <<>>, open |-> FALSE]
  BY <1>6 DEF WordWalk
<1> DEFINE At(k) == OpenAt(g, Len(e[k]), SubSeq(words, 1, k - 1), words[k])
           T == {k \in 0..n : k = 0 \/ At(k)}
<1>8. ASSUME NEW k \in 0..n, k \in T, k < n PROVE At(k + 1)
  <2>1. PICK j \in 1..n : j = k + 1 /\ j - 1 = k
    BY <1>8, <1>1
  <2>2. PICK p \in Nat : p = Len(e[k]) /\ Len(e[j]) = p + Len(ss[j]) /\ LiesAt(r, ss[j], p)
    <3>1. j \in 1..Len(ss)
      BY <1>2
    <3>2. Behind(e, ss, j)
      BY <3>1, <1>2, <1>3, FlattenBehind
    <3> QED BY <3>2, <2>1, <1>2, <1>3 DEF Behind
  <2>3. PICK w : w = words[j] /\ w \in Seq(Unsplit) /\ w # <<>> /\ w \in Seq(Int)
    BY <1>2 DEF Word
  <2>4. PICK m \in Nat : m = Len(w)
    BY <2>3, LenProperties
  <2>5. PICK ws : ws = SubSeq(words, 1, k)
    OBVIOUS
  <2>6. CASE k = 0
    <3>1. ss[j] = <<>> \o w
      <4>1. ss[j] = (IF j > 1 THEN <<Amp>> ELSE <<>>) \o words[j]
        BY <1>2
      <4>2. ~(j > 1)
        BY <2>1, <2>6
      <4> QED BY <4>1, <4>2, <2>3
    <3>2. ss[j] = w
      BY <3>1, <2>3
    <3>3. p = 0 /\ Len(e[j]) = 0 + Len(w) /\ LiesAt(r, w, 0)
      BY <3>2, <2>2, <2>6, <1>4
    <3>4. ws = <<>>
      <4>1. SubSeq(words, 1, 0) = <<>>
        BY PrefixStart
      <4> QED BY <4>1, <2>5, <2>6
    <3>5. ClosedAt(g, 0, ws)
      BY <3>4, <1>7 DEF ClosedAt
    <3>6. OpenAt(g, 0 + Len(w), ws, w)
      BY <3>3, <3>5, <1>4, <1>6, <2>3, WordRead
    <3> QED BY <3>3, <3>6, <2>1, <2>3, <2>5
  <2>7. CASE k # 0
    <3>1. ss[j] = <<Amp>> \o w
      <4>1. ss[j] = (IF j > 1 THEN <<Amp>> ELSE <<>>) \o words[j]
        BY <1>2
      <4>2. j > 1
        BY <2>1, <2>7
      <4> QED BY <4>1, <4>2, <2>3
    <3>0. PICK a : a = <<Amp>> /\ a \in Seq(Int) /\ Len(a) = 1 /\ a[1] = Amp
      <4>1. Amp \in Int
        BY DEF Amp
      <4>2. <<Amp>> \in Seq(Int) /\ Len(<<Amp>>) = 1 /\ <<Amp>>[1] = Amp
        BY <4>1
      <4> QED BY <4>2
    <3>2. Joined(ss[j], a, w) /\ ss[j] \in Seq(Int)
      BY <3>0, <3>1, <2>3, Concatenated
    <3>3. LiesAt(ss[j], a, 0) /\ LiesAt(ss[j], w, 1) /\ Len(ss[j]) = 1 + m
      BY <3>0, <3>2, <2>4 DEF Joined
    <3>4. LiesAt(r, a, p + 0)
      BY <3>0, <3>2, <3>3, <2>2, <1>4, PieceOfPiece
    <3>5. LiesAt(r, w, p + 1)
      BY <3>2, <3>3, <2>2, <2>3, <1>4, PieceOfPiece
    <3>6. p + 1 \in 1..l /\ r[p + 1] = Amp /\ (p + 1) - 1 = p
      BY <3>0, <3>4, <1>5 DEF LiesAt
    <3>7. PICK i \in 1..l : i = p + 1 /\ i - 1 = p /\ r[i] \in {Amp, Semi} /\ i \in 1..Len(r)
      BY <3>6, <1>5
    <3>8. PICK us, u : us = SubSeq(words, 1, k - 1) /\ u = words[k]
      OBVIOUS
    <3>9. OpenAt(g, i - 1, us, u)
      BY <1>8, <2>2, <2>7, <3>7, <3>8
    <3>10. ClosedAt(g, i, Append(us, u))
      BY <3>7, <3>9, <1>6, WordEnds
    <3>11. Append(us, u) = ws
      <4>1. k \in 1..Len(words)
        BY <2>7, <1>1
      <4>2. SubSeq(words, 1, k) = Append(SubSeq(words, 1, k - 1), words[k])
        BY <4>1, PrefixGrows
      <4> QED BY <4>2, <3>8, <2>5
    <3>12. ClosedAt(g, i, ws) /\ LiesAt(r, w, i) /\ i \in Nat
      BY <3>5, <3>7, <3>10, <3>11
    <3>13. OpenAt(g, i + Len(w), ws, w)
      BY <3>12, <1>4, <1>6, <2>3, WordRead
    <3>14. Len(e[j]) = i + Len(w)
      <4>1. Len(e[j]) = p + (1 + m)
        BY <2>2, <3>3
      <4>2. p + (1 + m) = i + m
        BY <3>7
      <4> QED BY <4>1, <4>2, <2>4
    <3> QED BY <3>13, <3>14, <2>1, <2>3, <2>5
  <2> QED BY <2>6, <2>7
<1>9. \A k \in 0..n : k \in T
  <2>1. 0 \in T
    BY <1>1
  <2>2. ASSUME NEW k \in 0..n, k \in T, k < n PROVE k + 1 \in T
    <3>1. k + 1 \in 0..n /\ At(k + 1)
      BY <2>2, <1>8, <1>1
    <3> QED BY <3>1
  <2> HIDE DEF T
  <2> QED BY <2>1, <2>2, <1>1, Induction
<1>10. CASE n = 0
  <2>1. r = <<>> /\ l = 0
    BY <1>10, <1>3, <1>4, <1>5
  <2>2. WordsEnd(r) = [words |-> <<>>, word |-> <<>>, open |-> FALSE]
    BY <2>1, <1>6, <1>7
  <2>3. UrlWords(r) = <<>>
    BY <2>2 DEF UrlWords
  <2>4. words = <<>>
    BY <1>1, <1>10, EmptySeq
  <2> QED BY <2>3, <2>4, <1>2, <1>3
<1>11. CASE n # 0
  <2>1. PICK us, u : us = SubSeq(words, 1, n - 1) /\ u = words[n]
    OBVIOUS
  <2>2. OpenAt(g, Len(e[n]), us, u)
    <3>1. n \in 0..n
      BY <1>1
    <3> QED BY <3>1, <1>9, <1>11, <2>1
  <2>3. WordsEnd(r) = [words |-> us, word |-> u, open |-> TRUE]
    BY <2>2, <1>3, <1>5, <1>6 DEF OpenAt
  <2>4. UrlWords(r) = Append(us, u)
    BY <2>3 DEF UrlWords
  <2>5. Append(us, u) = words
    <3>1. n \in 1..Len(words)
      BY <1>1, <1>11
    <3>2. SubSeq(words, 1, n) = Append(SubSeq(words, 1, n - 1), words[n])
      BY <3>1, PrefixGrows
    <3>3. SubSeq(words, 1, n) = words
      BY <1>1, PrefixEnd
    <3> QED BY <3>2, <3>3, <2>1
  <2> QED BY <2>4, <2>5, <1>2, <1>3
<1> QED BY <1>10, <1>11
-----------------------------------------------------------------------------
(* The parameters of a query string.                                         *)

(* What escape_string makes has no character that ends a word or a key.      *)
LEMMA EscapeIsSafe == ASSUME NEW c \in 1..255 PROVE EscapeByte(c) \in Seq(Safe)
<1>1. CASE c \in Alnum
  <2>1. c \in Safe
    BY <1>1 DEF Safe, Alnum, Digit, Upper, Lower, Amp, Semi, Equals
  <2>2. Space \notin Alnum
    BY DEF Alnum, Digit, Upper, Lower, Space
  <2>3. EscapeByte(c) = <<c>>
    BY <1>1, <2>2 DEF EscapeByte
  <2> QED BY <2>1, <2>3
<1>2. CASE c \notin Alnum /\ c = Space
  <2>1. Plus \in Safe
    BY DEF Safe, Plus, Amp, Semi, Equals
  <2>2. EscapeByte(c) = <<Plus>>
    BY <1>2 DEF EscapeByte
  <2> QED BY <2>1, <2>2
<1>3. CASE c \notin Alnum /\ c # Space
  <2>1. PICK a \in 0..15, b \in 0..15 : a = c \div 16 /\ b = c % 16
    BY TwoDigits
  <2>2. DigitToHex(a) \in Safe
    BY HexBack DEF Safe
  <2>3. DigitToHex(b) \in Safe
    BY HexBack DEF Safe
  <2>4. PICK d \in Safe, e \in Safe : d = DigitToHex(a) /\ e = DigitToHex(b)
    BY <2>2, <2>3
  <2>5. EscapeByte(c) = <<Percent, d, e>>
    BY <1>3, <2>1, <2>4 DEF EscapeByte
  <2>6. Percent \in Safe
    BY DEF Safe, Percent, Amp, Semi, Equals
  <2> QED BY <2>5, <2>6
<1> QED BY <1>1, <1>2, <1>3

(* No string that is escaped ends a word or a key.                           *)
LEMMA EscapedSafe == ASSUME NEW s \in Seq(1..255) PROVE EscapeString(s) \in Seq(Safe)
<1>1. PICK n \in Nat : n = Len(s) /\ DOMAIN s = 1..n
  BY LenProperties
<1>2. ASSUME NEW i \in 1..n PROVE EscapeByte(s[i]) \in Seq(Safe)
  <2>1. PICK c \in 1..255 : c = s[i]
    BY <1>1, ElementOfSeq
  <2> QED BY <2>1, EscapeIsSafe
<1>3. EscapesOf(s) \in [1..n -> Seq(Safe)]
  BY <1>1, <1>2 DEF EscapesOf
<1>4. EscapesOf(s) \in Seq(Seq(Safe))
  <2> HIDE DEF EscapesOf
  <2> QED BY <1>3
<1>5. EscapeString(s) = FlattenSeq(EscapesOf(s))
  BY DEF EscapeString, EscapesOf
<1>6. FlattenSeq(EscapesOf(s)) \in Seq(Safe)
  BY <1>4, FlattenIsSeq
<1> QED BY <1>5, <1>6

(* A piece is the part of the sequence where it lies.                        *)
LEMMA PieceIs ==
    ASSUME NEW S, NEW f \in Seq(S), NEW a \in Seq(S), NEW p \in Nat, LiesAt(f, a, p),
           NEW q, q = p + 1, NEW l, l = p + Len(a)
    PROVE  SubSeq(f, q, l) = a
<1>1. PICK n \in Nat, m \in Nat : n = Len(a) /\ m = Len(f) /\ p + n <= m
  BY LenProperties DEF LiesAt
<1>2. q \in Int /\ l \in Int /\ (l - q) + 1 = n
  BY <1>1
<1>3. ASSUME NEW i \in q..l PROVE f[i] \in S
  <2>1. i \in 1..m
    BY <1>1, <1>3
  <2> QED BY <2>1, <1>1, ElementOfSeq
<1>4. SubSeq(f, q, l) \in Seq(S) /\ Len(SubSeq(f, q, l)) = (IF q <= l THEN l - q + 1 ELSE 0)
      /\ \A i \in 1..(l - q + 1) : SubSeq(f, q, l)[i] = f[q + i - 1]
  BY <1>2, <1>3, SubSeqProperties
<1>5. Len(SubSeq(f, q, l)) = n
  BY <1>1, <1>2, <1>4
<1>6. ASSUME NEW i \in 1..n PROVE SubSeq(f, q, l)[i] = a[i]
  <2>1. i \in 1..(l - q + 1) /\ (q + i) - 1 = p + i
    BY <1>2
  <2>2. f[p + i] = a[i]
    BY <1>1 DEF LiesAt
  <2> QED BY <2>1, <2>2, <1>4
<1> QED BY <1>1, <1>4, <1>5, <1>6, SeqEqual

(* Key, equal sign and value are read as that key and value.                 *)
LEMMA PairRead ==
    ASSUME NEW k \in Seq(Safe), NEW v \in Seq(Safe), NEW word, word = (k \o <<Equals>>) \o v
    PROVE  KeyAndValue(word) = [key |-> UnescapeUrl(k), val |-> UnescapeUrl(v)]
<1>1. PICK a \in Nat, b \in Nat : a = Len(k) /\ b = Len(v)
  BY LenProperties
<1>2. PICK m \in Nat : m = a + 1
  OBVIOUS
<1>3. k \in Seq(Int) /\ v \in Seq(Int) /\ (\A i \in 1..a : k[i] # Equals) /\ (\A i \in 1..b : v[i] # Equals)
  <2>1. ASSUME NEW i \in 1..a PROVE k[i] \in Safe
    BY <1>1, ElementOfSeq
  <2>2. ASSUME NEW i \in 1..b PROVE v[i] \in Safe
    BY <1>1, ElementOfSeq
  <2> QED BY <2>1, <2>2 DEF Safe
<1>4. PICK eq : eq = <<Equals>> /\ eq \in Seq(Int) /\ Len(eq) = 1 /\ eq[1] = Equals
  <2>1. Equals \in Int
    BY DEF Equals
  <2>2. <<Equals>> \in Seq(Int) /\ Len(<<Equals>>) = 1 /\ <<Equals>>[1] = Equals
    BY <2>1
  <2> QED BY <2>2
<1>5. PICK ke : ke = k \o eq
  OBVIOUS
<1>6. ke \in Seq(Int) /\ Joined(ke, k, eq)
  BY <1>3, <1>4, <1>5, Concatenated
<1>7. word = ke \o v
  BY <1>4, <1>5
<1>8. word \in Seq(Int) /\ Joined(word, ke, v)
  BY <1>3, <1>6, <1>7, Concatenated
<1>9. Len(ke) = m /\ Len(word) = m + b /\ LiesAt(ke, k, 0) /\ LiesAt(ke, eq, a)
      /\ LiesAt(word, ke, 0) /\ LiesAt(word, v, m)
  <2>1. Len(ke) = a + 1 /\ LiesAt(ke, k, 0) /\ LiesAt(ke, eq, a)
    BY <1>1, <1>4, <1>6 DEF Joined
  <2>2. Len(ke) = m
    BY <2>1, <1>2
  <2> QED BY <2>1, <2>2, <1>1, <1>8 DEF Joined
<1>10. LiesAt(word, k, 0)
  <2>1. LiesAt(word, k, 0 + 0)
    BY <1>3, <1>6, <1>8, <1>9, PieceOfPiece
  <2> QED BY <2>1
<1>11. LiesAt(word, eq, a)
  <2>1. LiesAt(word, eq, 0 + a)
    BY <1>4, <1>6, <1>8, <1>9, PieceOfPiece
  <2>2. 0 + a = a
    OBVIOUS
  <2> QED BY <2>1, <2>2
<1>12. DOMAIN word = 1..(m + b) /\ m \in 1..(m + b)
  BY <1>2, <1>8, <1>9, LenProperties
<1>13. word[m] = Equals
  BY <1>2, <1>4, <1>11 DEF LiesAt
<1>14. ASSUME NEW i \in 1..a PROVE word[i] # Equals
  <2>1. word[0 + i] = k[i] /\ 0 + i = i
    BY <1>1, <1>10 DEF LiesAt
  <2> QED BY <2>1, <1>3
<1>15. ASSUME NEW i \in 1..b PROVE word[m + i] # Equals
  <2>1. word[m + i] = v[i]
    BY <1>1, <1>9 DEF LiesAt
  <2> QED BY <2>1, <1>3
<1>16. {i \in DOMAIN word : word[i] = Equals} = {m}
  <2>1. ASSUME NEW i \in 1..(m + b), i # m PROVE word[i] # Equals
    <3>1. CASE i < m
      <4>1. i \in 1..a
        BY <3>1, <1>2
      <4> QED BY <4>1, <1>14
    <3>2. CASE i > m
      <4>1. i - m \in 1..b /\ m + (i - m) = i
        BY <3>2
      <4> QED BY <4>1, <1>15
    <3>3. i < m \/ i > m
      BY <2>1
    <3> QED BY <3>1, <3>2, <3>3
  <2> QED BY <2>1, <1>12, <1>13
<1>17. Min({m}) = m
  <2>1. {m} \subseteq Int /\ m \in {m} /\ \A x \in {m} : m <= x
    OBVIOUS
  <2> QED BY <2>1, MinIs
<1>18. SubSeq(word, 1, m - 1) = k
  <2>1. m - 1 = 0 + Len(k) /\ 1 = 0 + 1
    BY <1>1, <1>2
  <2> QED BY <2>1, <1>3, <1>8, <1>10, PieceIs
<1> DEFINE rest == {i \in DOMAIN word : i > m /\ \E j \in m..i : word[j] # Equals}
           val == IF rest = {} THEN <<>> ELSE SubSeq(word, Min(rest), Len(word))
<1>19. val = v
  <2>1. CASE b = 0
    <3>1. rest = {}
      BY <2>1, <1>12
    <3>2. v = <<>>
      BY <2>1, <1>1, EmptySeq
    <3> QED BY <3>1, <3>2
  <2>2. CASE b # 0
    <3>1. PICK q \in 1..(m + b) : q = m + 1
      BY <2>2
    <3>2. word[q] # Equals
      <4>1. 1 \in 1..b
        BY <2>2
      <4> QED BY <4>1, <3>1, <1>15
    <3>3. q \in rest /\ rest \subseteq Nat /\ \A i \in rest : q <= i
      <4>1. q \in m..q /\ q > m
        BY <3>1
      <4>2. \A i \in 1..(m + b) : i > m => q <= i
        BY <3>1
      <4>3. q \in rest
        BY <4>1, <3>2, <1>12
      <4>4. rest \subseteq 1..(m + b) /\ \A i \in rest : i > m
        BY <1>12
      <4> HIDE DEF rest
      <4>5. \A i \in rest : q <= i
        BY <4>2, <4>4
      <4>6. 1..(m + b) \subseteq Nat
        OBVIOUS
      <4> QED BY <4>3, <4>4, <4>5, <4>6
    <3>4. Min(rest) = q
      <4> HIDE DEF rest
      <4>1. rest \subseteq Int
        BY <3>3
      <4> QED BY <3>3, <4>1, MinIs
    <3>5. SubSeq(word, q, m + b) = v
      <4>1. m + b = m + Len(v)
        BY <1>1
      <4> QED BY <4>1, <3>1, <1>3, <1>8, <1>9, PieceIs
    <3>6. rest # {}
      BY <3>3
    <3> HIDE DEF rest
    <3> QED BY <3>4, <3>5, <3>6, <1>9
  <2> QED BY <2>1, <2>2
<1>20. KeyAndValue(word) = [key |-> UnescapeUrl(SubSeq(word, 1, m - 1)), val |-> UnescapeUrl(val)]
  <2>1. KeyAndValue(word) =
          LET E == {m} IN
          [key |-> UnescapeUrl(SubSeq(word, 1, Min({m}) - 1)),
           val |-> UnescapeUrl(IF {i \in DOMAIN word : i > Min({m}) /\ \E j \in Min({m})..i : word[j] # Equals} = {}
                               THEN <<>>
                               ELSE SubSeq(word, Min({i \in DOMAIN word : i > Min({m})
                                                          /\ \E j \in Min({m})..i : word[j] # Equals}), Len(word)))]
    BY <1>16, Zenon DEF KeyAndValue
  <2> QED BY <2>1, <1>17
<1> HIDE DEF val
<1> QED BY <1>18, <1>19, <1>20

(* A sequence over a set is one over every larger set.                       *)
LEMMA SeqOfSubset ==
    ASSUME NEW S, NEW T, S \subseteq T, NEW s \in Seq(S)
    PROVE  s \in Seq(T)
<1>1. PICK n \in Nat : n = Len(s)
  BY LenProperties
<1>2. s \in [1..n -> S]
  BY <1>1, LenProperties
<1>3. s \in [1..n -> T]
  BY <1>2
<1> QED BY <1>3

(* The parameters of a query string come out as they went in.                *)
Byte == 1..255
Parm == [key : Seq(Byte), val : Seq(Byte)]
WordOf(parm) == (EscapeString(parm.key) \o <<Equals>>) \o EscapeString(parm.val)

(* A parameter as a word of the query string, and back.                      *)
LEMMA WordOfTyped ==
    ASSUME NEW parm \in Parm
    PROVE  /\ WordOf(parm) \in Word /\ WordOf(parm) \in Seq(Int) /\ KeyAndValue(WordOf(parm)) = parm
           /\ \A pre \in Seq(Int) :
                ((pre \o EscapeString(parm.key)) \o <<Equals>>) \o EscapeString(parm.val) = pre \o WordOf(parm)
<1>1. PICK a, b : a = EscapeString(parm.key) /\ b = EscapeString(parm.val)
  OBVIOUS
<1>2. parm.key \in Seq(Byte) /\ parm.val \in Seq(Byte)
  BY DEF Parm
<1>3. a \in Seq(Safe) /\ b \in Seq(Safe)
  BY <1>1, <1>2, EscapedSafe DEF Byte
<1>4. UnescapeUrl(a) = parm.key
  BY <1>1, <1>2, EscapeRoundTrip DEF Byte
<1>5. UnescapeUrl(b) = parm.val
  BY <1>1, <1>2, EscapeRoundTrip DEF Byte
<1>6. WordOf(parm) = (a \o <<Equals>>) \o b
  BY <1>1 DEF WordOf
<1>7. KeyAndValue(WordOf(parm)) = [key |-> parm.key, val |-> parm.val]
  BY <1>3, <1>4, <1>5, <1>6, PairRead
<1>8. KeyAndValue(WordOf(parm)) = parm
  BY <1>7 DEF Parm
<1>9. a \in Seq(Unsplit) /\ b \in Seq(Unsplit) /\ a \in Seq(Int) /\ b \in Seq(Int)
  <2>1. Safe \subseteq Unsplit /\ Safe \subseteq Int
    BY DEF Safe, Unsplit
  <2> QED BY <2>1, <1>3, SeqOfSubset
<1>10. <<Equals>> \in Seq(Unsplit) /\ <<Equals>> \in Seq(Int) /\ <<Equals>> # <<>>
  <2>1. Equals \in Unsplit /\ Equals \in Int
    BY DEF Equals, Unsplit, Amp, Semi
  <2> QED BY <2>1
<1>11. a \o <<Equals>> \in Seq(Unsplit) /\ WordOf(parm) \in Seq(Unsplit)
  BY <1>6, <1>9, <1>10, ConcatProperties
<1>12. a \o <<Equals>> \in Seq(Int) /\ WordOf(parm) \in Seq(Int)
  BY <1>6, <1>9, <1>10, ConcatProperties
<1>13. WordOf(parm) # <<>>
  <2>1. a \o <<Equals>> # <<>>
    BY <1>9, <1>10, ConcatEqualIffEmpty
  <2> QED BY <2>1, <1>6, <1>9, <1>12, ConcatEqualIffEmpty
<1>14. ASSUME NEW pre \in Seq(Int) PROVE ((pre \o a) \o <<Equals>>) \o b = pre \o WordOf(parm)
  <2>1. (pre \o a) \o <<Equals>> = pre \o (a \o <<Equals>>)
    BY <1>9, <1>10, ConcatAssociative, SMTT(60)
  <2>2. (pre \o (a \o <<Equals>>)) \o b = pre \o ((a \o <<Equals>>) \o b)
    BY <1>9, <1>12, ConcatAssociative, SMTT(60)
  <2> QED BY <2>1, <2>2, <1>6
<1> QED BY <1>1, <1>8, <1>11, <1>12, <1>13, <1>14 DEF Word

(* split_to_parms gives back the parameters of a query string.               *)
LEMMA ParmsUndone ==
    ASSUME NEW n \in Nat, NEW ps \in [1..n -> Parm]
    PROVE  SplitToParms(Query(ps)) = ps
<1>1. PICK words : words = [i \in 1..n |-> WordOf(ps[i])]
  OBVIOUS
<1>2. ASSUME NEW i \in 1..n
      PROVE  /\ ps[i] \in Parm /\ words[i] = WordOf(ps[i]) /\ words[i] \in Word /\ words[i] \in Seq(Int)
             /\ KeyAndValue(words[i]) = ps[i]
  <2>1. ps[i] \in Parm /\ words[i] = WordOf(ps[i])
    BY <1>1
  <2> QED BY <2>1, WordOfTyped
<1>3. words \in Seq(Word) /\ Len(words) = n /\ DOMAIN words = 1..n
  <2>1. words \in [1..n -> Word]
    BY <1>1, <1>2
  <2> QED BY <2>1
<1>4. Query(ps) = FlattenSeq(Separated(words))
  <2> DEFINE pre(i) == IF i > 1 THEN <<Amp>> ELSE <<>>
             qs == [i \in DOMAIN ps |-> ((pre(i) \o EscapeString(ps[i].key)) \o <<Equals>>) \o EscapeString(ps[i].val)]
  <2>1. Query(ps) = FlattenSeq(qs)
    BY DEF Query
  <2>2. ASSUME NEW i \in 1..n
        PROVE  ((pre(i) \o EscapeString(ps[i].key)) \o <<Equals>>) \o EscapeString(ps[i].val) = pre(i) \o words[i]
    <3>1. pre(i) \in Seq(Int)
      BY DEF Amp
    <3> HIDE DEF pre
    <3> QED BY <3>1, <1>2, WordOfTyped
  <2>3. Separated(words) = [i \in 1..n |-> pre(i) \o words[i]]
    BY <1>3 DEF Separated
  <2>4. qs = [i \in 1..n |-> pre(i) \o words[i]]
    <3> HIDE DEF pre
    <3> QED BY <2>2
  <2> HIDE DEF qs, pre
  <2> QED BY <2>1, <2>3, <2>4
<1>5. UrlWords(Query(ps)) = words
  BY <1>3, <1>4, WordsRead
<1>6. SplitToParms(Query(ps)) = [i \in 1..n |-> KeyAndValue(words[i])]
  BY <1>3, <1>5 DEF SplitToParms
<1>7. [i \in 1..n |-> KeyAndValue(words[i])] = [i \in 1..n |-> ps[i]]
  BY <1>2
<1> QED BY <1>6, <1>7

(* The strings of the model are strings of bytes.                            *)
LEMMA StringsAreBytes ==
    ASSUME NEW n \in Nat
    PROVE  SeqsUpTo(Bytes, n) \subseteq Seq(Byte)
<1>1. ASSUME NEW m \in 0..n PROVE [1..m -> Bytes] \subseteq Seq(Byte)
  <2>1. Bytes \subseteq Byte
    BY TextAssumption DEF Byte
  <2> QED BY <2>1
<1> QED BY <1>1 DEF SeqsUpTo

(* In every behaviour, for strings of any length: escape_string is undone by *)
(* unescape_string and by the decoding of a query string, unescape_string    *)
(* agrees with that decoding where it sees no error, split_to_parms gives back *)
(* the parameters, the escape for markup leaves no markup and can be undone, *)
(* and a shell reads what was escaped for it as the string it was made of.   *)
THEOREM EscapesReturn == Spec => []EscapesUndone
<1>1. Init => EscapesUndone
  BY DEF Init, NoCall, EscapesUndone
<1>2. EscapesUndone /\ [Next]_call => EscapesUndone'
  <2> SUFFICES ASSUME EscapesUndone, [Next]_call PROVE EscapesUndone'
    OBVIOUS
  <2>1. CASE CallParse
    BY <2>1 DEF CallParse, Called, EscapesUndone
  <2>2. CASE CallLremove
    BY <2>2 DEF CallLremove, Called, EscapesUndone
  <2>3. CASE CallLassign
    BY <2>3 DEF CallLassign, Called, EscapesUndone
  <2>4. CASE CallJoin
    BY <2>4 DEF CallJoin, Called, EscapesUndone
  <2>5. CASE CallSplit
    BY <2>5 DEF CallSplit, Called, EscapesUndone
  <2>6. CASE CallEscape
    <3>1. PICK s \in Seq(Byte) : call' = [cmd |-> "escape", arg |-> s, result |-> EscapeString(s)]
      BY <2>6, TextAssumption, StringsAreBytes DEF CallEscape, Called, Strings
    <3>2. UnescapeString(EscapeString(s)) = s /\ UnescapeUrl(EscapeString(s)) = s
      BY EscapeRoundTrip DEF Byte
    <3>3. call'.cmd = "escape" /\ call'.arg = s /\ call'.result = EscapeString(s)
      BY <3>1
    <3> QED BY <3>2, <3>3 DEF EscapesUndone
  <2>7. CASE CallUnescape
    <3>1. PICK s \in Seq(Byte) : call' = [cmd |-> "unescape", arg |-> s, result |-> UnescapeString(s)]
      BY <2>7, TextAssumption, StringsAreBytes DEF CallUnescape, Called, Strings
    <3>2. UnescapeString(s) # BadString => UnescapeString(s) = UnescapeUrl(s)
      <4>1. s \in Seq(Int)
        <5>1. Byte \subseteq Int
          BY DEF Byte
        <5> QED BY <5>1, SeqOfSubset
      <4> QED BY <4>1, DecodersAgree
    <3>3. call'.cmd = "unescape" /\ call'.arg = s /\ call'.result = UnescapeString(s)
      BY <3>1
    <3> QED BY <3>2, <3>3 DEF EscapesUndone
  <2>8. CASE CallParms
    <3>0. PICK n \in Nat : \E ps \in [1..n -> Parm] :
             call' = [cmd |-> "parms", arg |-> ps, result |-> SplitToParms(Query(ps))]
      <4>1. PICK n \in 0..2 : \E ps \in [1..n -> [key : SeqsUpTo(Bytes, 1), val : SeqsUpTo(Bytes, 1)]] :
                Called("parms", ps, SplitToParms(Query(ps)))
        BY <2>8 DEF CallParms
      <4>2. PICK ps \in [1..n -> [key : SeqsUpTo(Bytes, 1), val : SeqsUpTo(Bytes, 1)]] :
                Called("parms", ps, SplitToParms(Query(ps)))
        BY <4>1
      <4>3. SeqsUpTo(Bytes, 1) \subseteq Seq(Byte)
        BY StringsAreBytes
      <4>4. [key : SeqsUpTo(Bytes, 1), val : SeqsUpTo(Bytes, 1)] \subseteq Parm
        BY <4>3 DEF Parm
      <4>5. ps \in [1..n -> Parm]
        BY <4>2, <4>4
      <4> QED BY <4>2, <4>5 DEF Called
    <3>1. PICK ps \in [1..n -> Parm] :
             call' = [cmd |-> "parms", arg |-> ps, result |-> SplitToParms(Query(ps))]
      BY <3>0
    <3>2. SplitToParms(Query(ps)) = ps
      BY ParmsUndone
    <3>3. call'.cmd = "parms" /\ call'.arg = ps /\ call'.result = SplitToParms(Query(ps))
      BY <3>1
    <3> QED BY <3>2, <3>3 DEF EscapesUndone
  <2>9. CASE CallQuote
    <3>1. PICK s \in Seq(Byte) : call' = [cmd |-> "quote", arg |-> s,
             result |-> [sgml |-> EscapeSgmlChars(s), shell |-> EscapeShellCommand(s)]]
      BY <2>9, TextAssumption, StringsAreBytes DEF CallQuote, Called, Strings
    <3>2. ShellReading(EscapeShellCommand(s)) = [out |-> s, literal |-> FALSE, bad |-> FALSE]
      <4>1. s \in Seq(Int)
        <5>1. Byte \subseteq Int
          BY DEF Byte
        <5> QED BY <5>1, SeqOfSubset
      <4> QED BY <4>1, ShellUndone
    <3>3. Range(EscapeSgmlChars(s)) \cap SgmlSpecial = {} /\ s = Unentity(EscapeSgmlChars(s))
      BY SgmlGone DEF Byte
    <3>4. /\ call'.cmd = "quote" /\ call'.arg = s
          /\ call'.result.sgml = EscapeSgmlChars(s) /\ call'.result.shell = EscapeShellCommand(s)
      BY <3>1
    <3> QED BY <3>2, <3>3, <3>4 DEF EscapesUndone, Unentity
  <2>10. CASE Return
    BY <2>10 DEF Return, NoCall, EscapesUndone
  <2>11. CASE UNCHANGED call
    BY <2>11 DEF EscapesUndone
  <2> QED BY <2>1, <2>2, <2>3, <2>4, <2>5, <2>6, <2>7, <2>8, <2>9, <2>10, <2>11 DEF Next
<1> QED BY <1>1, <1>2, PTL DEF Spec
-----------------------------------------------------------------------------
(* The template parser.                                                      *)

(* What a script is made of, and what is read from it.                       *)
Pieces == Chars \cup {PutsOpen, PutsEcho, Close, "<", "?", "\\"}
Tokens == [kind : {"text", "code", "echo"}, char : Pieces \cup {"="}]
ParserState == [inside : BOOLEAN, p : {0, 1}, checkEcho : BOOLEAN, out : Seq(Pieces)]
MeaningState == [code : BOOLEAN, skip : BOOLEAN, echo : BOOLEAN, out : Seq(Tokens)]
ReadingState == [string : BOOLEAN, escape : BOOLEAN, bad : BOOLEAN, out : Seq(Tokens)]

(* The characters of the tag a parser looks for.                             *)
First(s) == IF s.inside THEN "?" ELSE "<"
Second(s) == IF s.inside THEN ">" ELSE "?"
(* What a character outside of tags adds to the script.                      *)
Emitted(s, c) ==
    (IF s.p = 1 THEN <<First(s)>> ELSE <<>>) \o (IF ~s.inside /\ c \in Special THEN Escaped(c) ELSE <<c>>)

Echoes(s, c) == s.checkEcho /\ c = "="

(* The parser's steps: = right behind the tag,                               *)
LEMMA StepEcho ==
    ASSUME NEW s \in ParserState, NEW c, Echoes(s, c), NEW r, r = Step(s, c)
    PROVE  (r.inside <=> s.inside) /\ r.p = s.p /\ ~r.checkEcho /\ r.out = Append(s.out, PutsEcho)
<1>1. PICK t : t = [s EXCEPT !.checkEcho = FALSE]
  OBVIOUS
<1>2. r = [t EXCEPT !.out = Append(@, PutsEcho)]
  BY <1>1 DEF Step, Echoes
<1>3. s = [inside |-> s.inside, p |-> s.p, checkEcho |-> s.checkEcho, out |-> s.out]
  BY DEF ParserState
<1> QED BY <1>1, <1>2, <1>3

(* the first character of a tag,                                             *)
LEMMA StepFirst ==
    ASSUME NEW s \in ParserState, NEW c, ~Echoes(s, c), s.p = 0, c = First(s), NEW r, r = Step(s, c)
    PROVE  (r.inside <=> s.inside) /\ r.p = 1 /\ ~r.checkEcho /\ r.out = s.out
<1>1. PICK t : t = [s EXCEPT !.checkEcho = FALSE]
  OBVIOUS
<1>2. c = (IF s.inside THEN EndTag ELSE StartTag)[s.p + 1]
  BY DEF First, EndTag, StartTag
<1>4. r = [t EXCEPT !.p = 1]
  BY <1>1, <1>2 DEF Step, Echoes
<1>3. s = [inside |-> s.inside, p |-> s.p, checkEcho |-> s.checkEcho, out |-> s.out]
  BY DEF ParserState
<1> QED BY <1>1, <1>4, <1>3

(* the second character of a tag,                                            *)
LEMMA StepTag ==
    ASSUME NEW s \in ParserState, NEW c, ~Echoes(s, c), s.p = 1, c = Second(s), NEW r, r = Step(s, c)
    PROVE  /\ (r.inside <=> ~s.inside) /\ r.p = 0 /\ (r.checkEcho <=> ~s.inside)
           /\ r.out = Append(s.out, IF s.inside THEN PutsOpen ELSE Close)
<1>1. PICK t : t = [s EXCEPT !.checkEcho = FALSE]
  OBVIOUS
<1>2. c = (IF s.inside THEN EndTag ELSE StartTag)[s.p + 1]
  BY DEF Second, EndTag, StartTag
<1>4. r = IF s.inside THEN Leave(t) ELSE Enter(t)
  BY <1>1, <1>2 DEF Step, Echoes
<1>3. s = [inside |-> s.inside, p |-> s.p, checkEcho |-> s.checkEcho, out |-> s.out]
  BY DEF ParserState
<1>5. t.out = s.out
  BY <1>1, <1>3
<1>6. CASE s.inside
  <2>1. r = [inside |-> FALSE, p |-> 0, checkEcho |-> FALSE, out |-> Append(s.out, PutsOpen)]
    BY <1>4, <1>5, <1>6 DEF Leave
  <2> QED BY <2>1, <1>6
<1>7. CASE ~s.inside
  <2>1. r = [inside |-> TRUE, p |-> 0, checkEcho |-> TRUE, out |-> Append(s.out, Close)]
    BY <1>4, <1>5, <1>7 DEF Enter
  <2> QED BY <2>1, <1>7
<1> QED BY <1>6, <1>7

(* (the parts of a tag)                                                      *)
LEMMA TagParts ==
    ASSUME NEW a, NEW b
    PROVE  SubSeq(<<a, b>>, 1, 0) = <<>> /\ SubSeq(<<a, b>>, 1, 1) = <<a>>
<1>1. <<a, b>> \in Seq({a, b}) /\ <<a>> \in Seq({a, b}) /\ Len(<<a>>) = 1 /\ <<a, b>>[1] = a /\ <<a>>[1] = a
  OBVIOUS
<1>2. PICK s : s = <<a, b>>
  OBVIOUS
<1>3. SubSeq(s, 1, 0) = <<>>
  BY SubSeqEmpty
<1>4. \A i \in 1..1 : s[i] \in {a, b}
  BY <1>1, <1>2
<1>5. SubSeq(s, 1, 1) \in Seq({a, b}) /\ Len(SubSeq(s, 1, 1)) = 1 /\ SubSeq(s, 1, 1)[1] = s[1]
  <2>1. /\ SubSeq(s, 1, 1) \in Seq({a, b}) /\ Len(SubSeq(s, 1, 1)) = IF 1 <= 1 THEN 1 - 1 + 1 ELSE 0
        /\ \A i \in 1..(1 - 1 + 1) : SubSeq(s, 1, 1)[i] = s[1 + i - 1]
    BY <1>4, SubSeqProperties
  <2> QED BY <2>1
<1>6. \A i \in 1..1 : SubSeq(s, 1, 1)[i] = <<a>>[i]
  BY <1>1, <1>2, <1>5
<1>7. SubSeq(s, 1, 1) = <<a>>
  BY <1>1, <1>5, <1>6, SeqEqual
<1> QED BY <1>2, <1>3, <1>7

(* and any other character.                                                  *)
LEMMA StepText ==
    ASSUME NEW s \in ParserState, NEW c \in Chars, ~Echoes(s, c),
           (s.p = 0 /\ c # First(s)) \/ (s.p = 1 /\ c # Second(s)), NEW r, r = Step(s, c)
    PROVE  /\ (r.inside <=> s.inside) /\ r.p = 0 /\ ~r.checkEcho
           /\ r.out = s.out \o Emitted(s, c) /\ Emitted(s, c) \in Seq(Pieces)
<1>1. PICK t : t = [s EXCEPT !.checkEcho = FALSE]
  OBVIOUS
<1>2. c # (IF s.inside THEN EndTag ELSE StartTag)[s.p + 1]
  BY DEF First, Second, EndTag, StartTag
<1>4. r = IF s.inside THEN Inside(t, c) ELSE Outside(t, c)
  BY <1>1, <1>2 DEF Step, Echoes
<1>3. s = [inside |-> s.inside, p |-> s.p, checkEcho |-> s.checkEcho, out |-> s.out]
  BY DEF ParserState
<1>5. t.out = s.out /\ t.p = s.p /\ (t.inside <=> s.inside) /\ s.p \in {0, 1} /\ s.out \in Seq(Pieces)
      /\ t = [inside |-> s.inside, p |-> s.p, checkEcho |-> FALSE, out |-> s.out]
  <2>1. t = [inside |-> s.inside, p |-> s.p, checkEcho |-> FALSE, out |-> s.out]
    BY <1>1, <1>3
  <2>2. t.out = s.out /\ t.p = s.p
    BY <2>1
  <2>3. t.inside <=> s.inside
    BY <2>1
  <2>4. s.p \in {0, 1} /\ s.out \in Seq(Pieces)
    BY DEF ParserState
  <2> QED BY <2>1, <2>2, <2>3, <2>4
<1>6. PICK pre : pre = IF s.p = 1 THEN <<First(s)>> ELSE <<>>
  OBVIOUS
<1>7. PICK new : new = IF ~s.inside /\ c \in Special THEN Escaped(c) ELSE <<c>>
  OBVIOUS
<1>8. pre \in Seq(Pieces) /\ new \in Seq(Pieces)
  <2>1. First(s) \in Pieces /\ "\\" \in Pieces /\ c \in Pieces
    BY DEF First, Pieces
  <2>2. <<First(s)>> \in Seq(Pieces) /\ <<"\\", c>> \in Seq(Pieces) /\ <<c>> \in Seq(Pieces) /\ <<>> \in Seq(Pieces)
    BY <2>1
  <2> QED BY <1>6, <1>7, <2>2 DEF Escaped
<1>9. Emitted(s, c) = pre \o new
  BY <1>6, <1>7 DEF Emitted
<1>10. Emitted(s, c) \in Seq(Pieces)
  BY <1>8, <1>9, ConcatProperties
<1>11. s.out \o Emitted(s, c) = (s.out \o pre) \o new
  <2>1. PICK o \in Seq(Pieces) : o = s.out
    BY <1>5
  <2>2. (o \o pre) \o new = o \o (pre \o new)
    BY <1>8, ConcatAssociative
  <2> QED BY <2>1, <2>2, <1>9
<1>12. SubSeq(StartTag, 1, 0) = <<>> /\ SubSeq(StartTag, 1, 1) = <<"<">> /\ SubSeq(EndTag, 1, 0) = <<>> /\ SubSeq(EndTag, 1, 1) = <<"?">>
  BY TagParts DEF StartTag, EndTag
<1>13. CASE s.inside
  <2>1. SubSeq(EndTag, 1, t.p) = pre /\ new = <<c>>
    BY <1>5, <1>6, <1>7, <1>12, <1>13 DEF First
  <2>2. r = [t EXCEPT !.p = 0, !.out = (@ \o pre) \o new]
    BY <1>4, <1>13, <2>1 DEF Inside
  <2>3. r = [inside |-> s.inside, p |-> 0, checkEcho |-> FALSE, out |-> (s.out \o pre) \o new]
    BY <2>2, <1>5
  <2> QED BY <2>3, <1>10, <1>11
<1>14. CASE ~s.inside
  <2>1. SubSeq(StartTag, 1, t.p) = pre /\ new = IF c \in Special THEN Escaped(c) ELSE <<c>>
    BY <1>5, <1>6, <1>7, <1>12, <1>14 DEF First
  <2>2. r = [t EXCEPT !.p = 0, !.out = (@ \o pre) \o new]
    BY <1>4, <1>14, <2>1 DEF Outside
  <2>3. r = [inside |-> s.inside, p |-> 0, checkEcho |-> FALSE, out |-> (s.out \o pre) \o new]
    BY <2>2, <1>5
  <2> QED BY <2>3, <1>10, <1>11
<1> QED BY <1>13, <1>14
-----------------------------------------------------------------------------
(* Reading a script.                                                         *)

Plain(c) == c \notin {PutsOpen, PutsEcho, Close}

(* No character is a piece of Tcl the parser writes.                         *)
LEMMA PlainChars ==
    /\ \A c \in Chars : Plain(c)
    /\ Plain("<") /\ Plain("?") /\ Plain("\\") /\ "<" \notin Special /\ "?" \notin Special /\ "\\" \in Special
<1>1. \A c \in Chars : Plain(c)
  BY TextAssumption DEF Plain
<1>2. Plain("<") /\ Plain("?") /\ Plain("\\")
  BY DEF Plain, PutsOpen, PutsEcho, Close
<1>3. "<" \notin Special /\ "?" \notin Special /\ "\\" \in Special
  BY DEF Special
<1> QED BY <1>1, <1>2, <1>3

(* Tcl's steps: a character that stands for itself,                          *)
LEMMA ReadPlain ==
    ASSUME NEW t \in ReadingState, NEW c, Plain(c), ~t.escape, ~t.bad, ~(t.string /\ c \in Special),
           NEW r, r = ReadingStep(t, c)
    PROVE  /\ (r.string <=> t.string) /\ ~r.escape /\ ~r.bad
           /\ r.out = Append(t.out, [kind |-> IF t.string THEN "text" ELSE "code", char |-> c])
<1>1. t = [string |-> t.string, escape |-> t.escape, bad |-> t.bad, out |-> t.out]
  BY DEF ReadingState
<1>2. PICK k : k = [kind |-> IF t.string THEN "text" ELSE "code", char |-> c]
  OBVIOUS
<1>3. PICK b : b = (t.bad \/ (t.string /\ ~t.escape /\ c \in Special))
  OBVIOUS
<1>4. c \notin {PutsOpen, Close} /\ c # PutsEcho /\ ~(t.string /\ c = "\\" /\ ~t.escape)
  BY PlainChars DEF Plain
<1>5. r = [t EXCEPT !.escape = FALSE, !.bad = b, !.out = Append(@, k)]
  BY <1>2, <1>3, <1>4 DEF ReadingStep
<1>6. b <=> FALSE
  BY <1>3
<1> QED BY <1>1, <1>2, <1>5, <1>6

(* a backslash in a string,                                                  *)
LEMMA ReadBackslash ==
    ASSUME NEW t \in ReadingState, t.string, ~t.escape, ~t.bad, NEW r, r = ReadingStep(t, "\\")
    PROVE  r.string /\ r.escape /\ ~r.bad /\ r.out = t.out
<1>1. t = [string |-> t.string, escape |-> t.escape, bad |-> t.bad, out |-> t.out]
  BY DEF ReadingState
<1>2. r = [t EXCEPT !.escape = TRUE]
  BY PlainChars DEF ReadingStep, Plain
<1> QED BY <1>1, <1>2

(* the character behind it,                                                  *)
LEMMA ReadEscaped ==
    ASSUME NEW t \in ReadingState, t.string, t.escape, ~t.bad, NEW c, Plain(c), NEW r, r = ReadingStep(t, c)
    PROVE  r.string /\ ~r.escape /\ ~r.bad /\ r.out = Append(t.out, [kind |-> "text", char |-> c])
<1>1. t = [string |-> t.string, escape |-> t.escape, bad |-> t.bad, out |-> t.out]
  BY DEF ReadingState
<1>2. PICK k : k = [kind |-> IF t.string THEN "text" ELSE "code", char |-> c] /\ k = [kind |-> "text", char |-> c]
  OBVIOUS
<1>3. PICK b : b = (t.bad \/ (t.string /\ ~t.escape /\ c \in Special))
  OBVIOUS
<1>5. r = [t EXCEPT !.escape = FALSE, !.bad = b, !.out = Append(@, k)]
  BY <1>2, <1>3 DEF ReadingStep, Plain
<1>6. b <=> FALSE
  BY <1>3
<1> QED BY <1>1, <1>2, <1>5, <1>6

(* the begin and the end of a string,                                        *)
LEMMA ReadMark ==
    ASSUME NEW t \in ReadingState, NEW c \in {PutsOpen, Close}, NEW r, r = ReadingStep(t, c)
    PROVE  (r.string <=> c = PutsOpen) /\ (r.escape <=> t.escape) /\ (r.bad <=> t.bad) /\ r.out = t.out
<1>1. t = [string |-> t.string, escape |-> t.escape, bad |-> t.bad, out |-> t.out]
  BY DEF ReadingState
<1>2. PutsEcho \notin {PutsOpen, Close} /\ "\\" \notin {PutsOpen, Close}
  BY DEF PutsOpen, PutsEcho, Close
<1>3. PICK b : b = (c = PutsOpen)
  OBVIOUS
<1>4. r = [t EXCEPT !.string = b]
  BY <1>2, <1>3 DEF ReadingStep
<1> QED BY <1>1, <1>3, <1>4

(* and the command that prints a value.                                      *)
LEMMA ReadEcho ==
    ASSUME NEW t \in ReadingState, NEW r, r = ReadingStep(t, PutsEcho)
    PROVE  /\ (r.string <=> t.string) /\ (r.escape <=> t.escape) /\ (r.bad <=> t.bad)
           /\ r.out = Append(t.out, [kind |-> "echo", char |-> "="])
<1>1. t = [string |-> t.string, escape |-> t.escape, bad |-> t.bad, out |-> t.out]
  BY DEF ReadingState
<1>2. PutsEcho \notin {PutsOpen, Close} /\ PutsEcho # "\\"
  BY DEF PutsOpen, PutsEcho, Close
<1>3. PICK k : k = [kind |-> "echo", char |-> "="]
  OBVIOUS
<1>4. r = [t EXCEPT !.out = Append(@, k)]
  BY <1>2, <1>3 DEF ReadingStep
<1> QED BY <1>1, <1>3, <1>4

(* A step of the reading, of any state.                                      *)
LEMMA ReadingTyped ==
    ASSUME NEW t \in ReadingState, NEW c \in Pieces
    PROVE  ReadingStep(t, c) \in ReadingState
<1>1. t = [string |-> t.string, escape |-> t.escape, bad |-> t.bad, out |-> t.out]
  BY DEF ReadingState
<1>2. t.string \in BOOLEAN /\ t.escape \in BOOLEAN /\ t.bad \in BOOLEAN /\ t.out \in Seq(Tokens)
  BY DEF ReadingState
<1>3. ASSUME NEW k \in Tokens PROVE Append(t.out, k) \in Seq(Tokens)
  BY <1>2, AppendProperties
<1>4. CASE c \in {PutsOpen, Close}
  <2>1. PICK b \in BOOLEAN : b = (c = PutsOpen)
    OBVIOUS
  <2>2. ReadingStep(t, c) = [t EXCEPT !.string = b]
    BY <1>4, <2>1 DEF ReadingStep, PutsOpen, PutsEcho, Close
  <2> QED BY <2>2, <1>2 DEF ReadingState
<1>5. CASE c = PutsEcho
  <2>1. PICK k \in Tokens : k = [kind |-> "echo", char |-> "="]
    BY DEF Tokens
  <2>2. PutsEcho \notin {PutsOpen, Close} /\ PutsEcho # "\\"
    BY DEF PutsOpen, PutsEcho, Close
  <2>3. ReadingStep(t, c) = [t EXCEPT !.out = Append(@, k)]
    BY <1>5, <2>1, <2>2 DEF ReadingStep
  <2>4. Append(t.out, k) \in Seq(Tokens)
    BY <1>3
  <2> QED BY <2>3, <2>4, <1>2 DEF ReadingState
<1>6. CASE c \notin {PutsOpen, PutsEcho, Close} /\ t.string /\ c = "\\" /\ ~t.escape
  <2>1. ReadingStep(t, c) = [t EXCEPT !.escape = TRUE]
    BY <1>6 DEF ReadingStep
  <2> QED BY <2>1, <1>2 DEF ReadingState
<1>7. CASE c \notin {PutsOpen, PutsEcho, Close} /\ ~(t.string /\ c = "\\" /\ ~t.escape)
  <2>5. PICK kind : kind = IF t.string THEN "text" ELSE "code"
    OBVIOUS
  <2>6. kind \in {"text", "code", "echo"}
    BY <2>5
  <2>1. PICK k \in Tokens : k = [kind |-> IF t.string THEN "text" ELSE "code", char |-> c]
    BY <2>5, <2>6 DEF Tokens
  <2>2. PICK b \in BOOLEAN : b = (t.bad \/ (t.string /\ ~t.escape /\ c \in Special))
    OBVIOUS
  <2>3. ReadingStep(t, c) = [t EXCEPT !.escape = FALSE, !.bad = b, !.out = Append(@, k)]
    BY <1>7, <2>1, <2>2 DEF ReadingStep
  <2>4. Append(t.out, k) \in Seq(Tokens)
    BY <1>3
  <2> QED BY <2>3, <2>4, <1>2 DEF ReadingState
<1> QED BY <1>4, <1>5, <1>6, <1>7

(* The same at a position of the script.                                     *)
LEMMA ReadingTypedAt ==
    ASSUME NEW script \in Seq(Pieces), NEW t \in ReadingState, NEW i \in 1..Len(script)
    PROVE  ReadingStep(t, script[i]) \in ReadingState
<1>1. script[i] \in Pieces
  BY ElementOfSeq
<1> QED BY <1>1, ReadingTyped

(* Tcl's reading of a script, position by position.                          *)
ReadingWalk(g, script) ==
    /\ g \in [0..Len(script) -> ReadingState] /\ g[0] = ReadingStart
    /\ \A k \in 1..Len(script) : g[k] = ReadingStep(g[k - 1], script[k])

(* The fold of Reading is such a walk.                                       *)
LEMMA ReadingSteps ==
    ASSUME NEW script \in Seq(Pieces)
    PROVE  \E g : ReadingWalk(g, script) /\ Reading(script) = g[Len(script)]
<1> DEFINE n == Len(script)
           seq == script
           V == ReadingState
           start == ReadingStart
           G == [p \in V \X (1..n) |-> ReadingStep(p[1], script[p[2]])]
           Eq(u) == u = [s \in SUBSET (DOMAIN seq) |->
                      IF s = {} THEN start ELSE ReadingStep(u[s \ {Max(s)}], script[Max(s)])]
<1>1. n \in Nat /\ DOMAIN seq = 1..n
  OBVIOUS
<1>2. start \in V
  BY DEF ReadingState, ReadingStart
<1>3. \A t \in V, i \in 1..n : ReadingStep(t, script[i]) \in V
  BY ReadingTypedAt
<1>4. /\ G \in [V \X (1..n) -> V]
      /\ \A t \in V, i \in 1..n : G[<<t, i>>] = ReadingStep(t, script[i])
  <2> HIDE DEF V, n
  <2> QED BY <1>3
<1>5. ASSUME NEW u, NEW s \in SUBSET (1..n), s # {}, u[s \ {Max(s)}] \in V
      PROVE  /\ Max(s) \in 1..n
             /\ G[<<u[s \ {Max(s)}], Max(s)>>] = ReadingStep(u[s \ {Max(s)}], script[Max(s)])
  <2> HIDE DEF V, n, G, seq
  <2>1. Max(s) \in 1..n
    BY <1>1, <1>5, MaxIn
  <2> QED BY <2>1, <1>1, <1>4, <1>5
<1>6. \E f : Eq(f)
  <2> HIDE DEF G, n, V, start, seq
  <2>1. PICK f \in [SUBSET (1..n) -> V] : Iterates(f, n, start, G)
    BY <1>1, <1>2, <1>4, IterationExists
  <2>2. ASSUME NEW s \in SUBSET (1..n), s # {}
        PROVE  f[s] = ReadingStep(f[s \ {Max(s)}], script[Max(s)])
    BY <2>1, <2>2, <1>5 DEF Iterates
  <2>3. f[{}] = start /\ f = [s \in SUBSET (1..n) |-> f[s]]
    BY <2>1 DEF Iterates
  <2>4. Eq(f)
    BY <2>2, <2>3, <1>1
  <2> HIDE DEF Eq
  <2> QED BY <2>4
<1>7. PICK w : Eq(w) /\ Reading(script) = w[1..n]
  <2>1. Reading(script) = (CHOOSE u : Eq(u))[DOMAIN seq]
    BY DEF Reading, FoldLeft, MapThenFoldSet
  <2> HIDE DEF Eq, n, seq, V, start
  <2> QED BY <1>1, <1>6, <2>1
<1>8. FoldEquations(w, n, V, start, G)
  <2>1. ASSUME NEW s \in SUBSET (1..n)
        PROVE  w[s] = IF s = {} THEN start ELSE ReadingStep(w[s \ {Max(s)}], script[Max(s)])
    <3> HIDE DEF n, V, start, G, seq
    <3> QED BY <1>1, <1>7
  <2> HIDE DEF n, V, start, G, seq, Eq
  <2> QED BY <2>1, <1>5 DEF FoldEquations
<1>9. FoldWalks(w, n, V, start, G)
  <2> HIDE DEF n, V, start, G, seq, Eq
  <2> QED BY <1>1, <1>2, <1>4, <1>8, FoldSteps
<1>10. PICK g : Walks(g, n, V, start, G) /\ g[n] = w[1..n]
  BY <1>9 DEF FoldWalks
<1>11. ASSUME NEW k \in 1..n PROVE g[k] = ReadingStep(g[k - 1], script[k])
  <2>1. k - 1 \in 0..n
    BY <1>1
  <2> HIDE DEF n, V, start, G, seq, Eq
  <2> QED BY <1>4, <1>10, <2>1 DEF Walks
<1>12. ReadingWalk(g, script)
  <2> HIDE DEF G, Eq, seq
  <2> QED BY <1>10, <1>11 DEF ReadingWalk, Walks
<1> HIDE DEF n, V, start, G, seq, Eq
<1> QED BY <1>7, <1>10, <1>12 DEF n
-----------------------------------------------------------------------------
(* The parser's way and the meaning.                                         *)

(* A step of the parser, of any state.                                       *)
LEMMA StepTyped ==
    ASSUME NEW s \in ParserState, NEW c \in Chars
    PROVE  Step(s, c) \in ParserState
<1>1. PICK t : t = [s EXCEPT !.checkEcho = FALSE]
  OBVIOUS
<1>2. t \in ParserState
  BY <1>1 DEF ParserState
<1>3. \/ Step(s, c) = [t EXCEPT !.out = Append(@, PutsEcho)]
      \/ Step(s, c) = [t EXCEPT !.p = 1]
      \/ Step(s, c) = Leave(t)
      \/ Step(s, c) = Enter(t)
      \/ Step(s, c) = Inside(t, c)
      \/ Step(s, c) = Outside(t, c)
  <2>0. PICK first, tag : first = (s.checkEcho /\ c = "=") /\ tag = IF s.inside THEN EndTag ELSE StartTag
    OBVIOUS
  <2>1. Step(s, c) = CASE first -> [t EXCEPT !.out = Append(@, PutsEcho)]
                       [] ~first /\ c = tag[s.p + 1] /\ s.p = 0 -> [t EXCEPT !.p = 1]
                       [] ~first /\ c = tag[s.p + 1] /\ s.p = 1 -> IF s.inside THEN Leave(t) ELSE Enter(t)
                       [] OTHER -> IF s.inside THEN Inside(t, c) ELSE Outside(t, c)
    BY <1>1, <2>0 DEF Step
  <2>2. CASE first
    BY <2>1, <2>2
  <2>3. CASE ~first /\ c = tag[s.p + 1] /\ s.p = 0
    BY <2>1, <2>3
  <2>4. CASE ~first /\ c = tag[s.p + 1] /\ s.p = 1
    BY <2>1, <2>4
  <2>5. CASE ~first /\ (c # tag[s.p + 1] \/ s.p \notin {0, 1})
    BY <2>1, <2>5
  <2> QED BY <2>2, <2>3, <2>4, <2>5
<1>4. PICK in \in BOOLEAN, p \in {0, 1}, ce \in BOOLEAN, o \in Seq(Pieces) :
        t = [inside |-> in, p |-> p, checkEcho |-> ce, out |-> o]
  BY <1>2 DEF ParserState
<1>5. t.out = o /\ t.p = p
  BY <1>4
<1>6. PutsOpen \in Pieces /\ PutsEcho \in Pieces /\ Close \in Pieces /\ "<" \in Pieces /\ "?" \in Pieces
      /\ "\\" \in Pieces /\ c \in Pieces
  BY DEF Pieces
<1>7. ASSUME NEW a \in Pieces PROVE Append(o, a) \in Seq(Pieces)
  BY AppendProperties
<1>8. [t EXCEPT !.out = Append(@, PutsEcho)] \in ParserState
  BY <1>4, <1>5, <1>6, <1>7 DEF ParserState
<1>9. [t EXCEPT !.p = 1] \in ParserState
  BY <1>4, <1>5 DEF ParserState
<1>10. Leave(t) \in ParserState /\ Enter(t) \in ParserState
  BY <1>5, <1>6, <1>7 DEF ParserState, Leave, Enter
<1>11. SubSeq(StartTag, 1, p) \in Seq(Pieces) /\ SubSeq(EndTag, 1, p) \in Seq(Pieces)
  <2>1. <<"<">> \in Seq(Pieces) /\ <<"?">> \in Seq(Pieces) /\ <<>> \in Seq(Pieces)
    BY <1>6
  <2>2. SubSeq(StartTag, 1, p) \in {<<>>, <<"<">>} /\ SubSeq(EndTag, 1, p) \in {<<>>, <<"?">>}
    BY TagParts DEF StartTag, EndTag
  <2> QED BY <2>1, <2>2
<1>12. PICK new : new = IF c \in Special THEN Escaped(c) ELSE <<c>>
  OBVIOUS
<1>13. new \in Seq(Pieces) /\ <<c>> \in Seq(Pieces)
  <2>1. <<"\\", c>> \in Seq(Pieces) /\ <<c>> \in Seq(Pieces)
    BY <1>6
  <2> QED BY <2>1, <1>12 DEF Escaped
<1>14. PICK a \in Seq(Pieces), b \in Seq(Pieces) :
          a = o \o SubSeq(EndTag, 1, p) \o <<c>> /\ b = o \o SubSeq(StartTag, 1, p) \o new
  BY <1>11, <1>13, ConcatProperties
<1>15. Inside(t, c) \in ParserState
  <2>1. Inside(t, c) = [t EXCEPT !.p = 0, !.out = a]
    BY <1>5, <1>14 DEF Inside
  <2> QED BY <2>1, <1>4 DEF ParserState
<1>16. Outside(t, c) \in ParserState
  <2>1. Outside(t, c) = [t EXCEPT !.p = 0, !.out = b]
    BY <1>5, <1>12, <1>14 DEF Outside
  <2> QED BY <2>1, <1>4 DEF ParserState
<1> QED BY <1>3, <1>8, <1>9, <1>10, <1>15, <1>16

(* The same at a position of the template.                                   *)
LEMMA StepTypedAt ==
    ASSUME NEW template \in Seq(Chars), NEW t \in ParserState, NEW i \in 1..Len(template)
    PROVE  Step(t, template[i]) \in ParserState
<1>1. template[i] \in Chars
  BY ElementOfSeq
<1> QED BY <1>1, StepTyped

(* The parser's way through a template, character by character.              *)
ParserWalk(g, template) ==
    /\ g \in [0..Len(template) -> ParserState] /\ g[0] = Start
    /\ \A k \in 1..Len(template) : g[k] = Step(g[k - 1], template[k])

(* The fold of Translate is such a walk.                                     *)
LEMMA ParserSteps ==
    ASSUME NEW template \in Seq(Chars)
    PROVE  \E g : ParserWalk(g, template) /\ FoldLeft(Step, Start, template) = g[Len(template)]
<1> DEFINE n == Len(template)
           seq == template
           V == ParserState
           start == Start
           G == [p \in V \X (1..n) |-> Step(p[1], template[p[2]])]
           Eq(u) == u = [s \in SUBSET (DOMAIN seq) |->
                      IF s = {} THEN start ELSE Step(u[s \ {Max(s)}], template[Max(s)])]
<1>1. n \in Nat /\ DOMAIN seq = 1..n
  OBVIOUS
<1>2. start \in V
  BY DEF ParserState, Start, Pieces
<1>3. \A t \in V, i \in 1..n : Step(t, template[i]) \in V
  BY StepTypedAt
<1>4. /\ G \in [V \X (1..n) -> V]
      /\ \A t \in V, i \in 1..n : G[<<t, i>>] = Step(t, template[i])
  <2> HIDE DEF V, n
  <2> QED BY <1>3
<1>5. ASSUME NEW u, NEW s \in SUBSET (1..n), s # {}, u[s \ {Max(s)}] \in V
      PROVE  /\ Max(s) \in 1..n
             /\ G[<<u[s \ {Max(s)}], Max(s)>>] = Step(u[s \ {Max(s)}], template[Max(s)])
  <2> HIDE DEF V, n, G, seq
  <2>1. Max(s) \in 1..n
    BY <1>1, <1>5, MaxIn
  <2> QED BY <2>1, <1>1, <1>4, <1>5
<1>6. \E f : Eq(f)
  <2> HIDE DEF G, n, V, start, seq
  <2>1. PICK f \in [SUBSET (1..n) -> V] : Iterates(f, n, start, G)
    BY <1>1, <1>2, <1>4, IterationExists
  <2>2. ASSUME NEW s \in SUBSET (1..n), s # {}
        PROVE  f[s] = Step(f[s \ {Max(s)}], template[Max(s)])
    BY <2>1, <2>2, <1>5 DEF Iterates
  <2>3. f[{}] = start /\ f = [s \in SUBSET (1..n) |-> f[s]]
    BY <2>1 DEF Iterates
  <2>4. Eq(f)
    BY <2>2, <2>3, <1>1
  <2> HIDE DEF Eq
  <2> QED BY <2>4
<1>7. PICK w : Eq(w) /\ FoldLeft(Step, Start, template) = w[1..n]
  <2>1. FoldLeft(Step, Start, template) = (CHOOSE u : Eq(u))[DOMAIN seq]
    BY DEF FoldLeft, MapThenFoldSet
  <2> HIDE DEF Eq, n, seq, V, start
  <2> QED BY <1>1, <1>6, <2>1
<1>8. FoldEquations(w, n, V, start, G)
  <2>1. ASSUME NEW s \in SUBSET (1..n)
        PROVE  w[s] = IF s = {} THEN start ELSE Step(w[s \ {Max(s)}], template[Max(s)])
    <3> HIDE DEF n, V, start, G, seq
    <3> QED BY <1>1, <1>7
  <2> HIDE DEF n, V, start, G, seq, Eq
  <2> QED BY <2>1, <1>5 DEF FoldEquations
<1>9. FoldWalks(w, n, V, start, G)
  <2> HIDE DEF n, V, start, G, seq, Eq
  <2> QED BY <1>1, <1>2, <1>4, <1>8, FoldSteps
<1>10. PICK g : Walks(g, n, V, start, G) /\ g[n] = w[1..n]
  BY <1>9 DEF FoldWalks
<1>11. ASSUME NEW k \in 1..n PROVE g[k] = Step(g[k - 1], template[k])
  <2>1. k - 1 \in 0..n
    BY <1>1
  <2> HIDE DEF n, V, start, G, seq, Eq
  <2> QED BY <1>4, <1>10, <2>1 DEF Walks
<1>12. ParserWalk(g, template)
  <2> HIDE DEF G, Eq, seq
  <2> QED BY <1>10, <1>11 DEF ParserWalk, Walks
<1> HIDE DEF n, V, start, G, seq, Eq
<1> QED BY <1>7, <1>10, <1>12 DEF n

TagOf(m) == IF m.code THEN EndTag ELSE StartTag

(* The steps of the meaning: the second character of a tag is passed over,   *)
LEMMA MeanSkip ==
    ASSUME NEW t, NEW m \in MeaningState, NEW i, m.skip, NEW r, r = MeaningStep(t, m, i)
    PROVE  /\ (r.code <=> m.code) /\ ~r.skip /\ (r.echo <=> m.code /\ i < Len(t) /\ t[i + 1] = "=") /\ r.out = m.out
           /\ r \in MeaningState
<1>1. PICK b \in BOOLEAN : b = (m.code /\ i < Len(t) /\ t[i + 1] = "=")
  OBVIOUS
<1>2. r = [m EXCEPT !.skip = FALSE, !.echo = b]
  BY <1>1 DEF MeaningStep
<1>3. m = [code |-> m.code, skip |-> m.skip, echo |-> m.echo, out |-> m.out]
  BY DEF MeaningState
<1>4. (r.code <=> m.code) /\ ~r.skip /\ (r.echo <=> b) /\ r.out = m.out
  BY <1>2, <1>3
<1>5. r \in MeaningState
  BY <1>2 DEF MeaningState
<1> QED BY <1>1, <1>4, <1>5

(* an = behind it is kept as such,                                           *)
LEMMA MeanEcho ==
    ASSUME NEW t, NEW m \in MeaningState, NEW i, ~m.skip, m.echo, NEW r, r = MeaningStep(t, m, i), t[i] \in Chars
    PROVE  /\ (r.code <=> m.code) /\ ~r.skip /\ ~r.echo /\ r.out = Append(m.out, [kind |-> "echo", char |-> t[i]])
           /\ r \in MeaningState
<1>1. PICK k \in Tokens : k = [kind |-> "echo", char |-> t[i]]
  BY DEF Tokens, Pieces
<1>2. r = [m EXCEPT !.echo = FALSE, !.out = Append(@, k)]
  BY <1>1 DEF MeaningStep
<1>3. m = [code |-> m.code, skip |-> m.skip, echo |-> m.echo, out |-> m.out]
  BY DEF MeaningState
<1>4. (r.code <=> m.code) /\ ~r.skip /\ ~r.echo /\ r.out = Append(m.out, k)
  BY <1>2, <1>3
<1>5. r \in MeaningState
  <2>1. m.out \in Seq(Tokens)
    BY DEF MeaningState
  <2>2. Append(m.out, k) \in Seq(Tokens)
    BY <2>1, AppendProperties
  <2> QED BY <1>2, <2>2 DEF MeaningState
<1> QED BY <1>1, <1>4, <1>5

(* a tag changes between text and code,                                      *)
LEMMA MeanTag ==
    ASSUME NEW t, NEW m \in MeaningState, NEW i, ~m.skip, ~m.echo, TagAt(t, i, TagOf(m)), NEW r, r = MeaningStep(t, m, i)
    PROVE  /\ (r.code <=> ~m.code) /\ r.skip /\ ~r.echo /\ r.out = m.out
           /\ r \in MeaningState
<1>1. PICK b \in BOOLEAN : b = ~m.code
  OBVIOUS
<1>2. r = [m EXCEPT !.code = b, !.skip = TRUE]
  BY <1>1 DEF MeaningStep, TagOf
<1>3. m = [code |-> m.code, skip |-> m.skip, echo |-> m.echo, out |-> m.out]
  BY DEF MeaningState
<1>4. (r.code <=> b) /\ r.skip /\ ~r.echo /\ r.out = m.out
  BY <1>2, <1>3
<1>5. r \in MeaningState
  BY <1>2 DEF MeaningState
<1> QED BY <1>1, <1>4, <1>5

(* and any other character is kept.                                          *)
LEMMA MeanChar ==
    ASSUME NEW t, NEW m \in MeaningState, NEW i, ~m.skip, ~m.echo, ~TagAt(t, i, TagOf(m)),
           NEW r, r = MeaningStep(t, m, i), t[i] \in Chars
    PROVE  /\ (r.code <=> m.code) /\ ~r.skip /\ ~r.echo
           /\ r.out = Append(m.out, [kind |-> IF m.code THEN "code" ELSE "text", char |-> t[i]])
           /\ r \in MeaningState
<1>0. PICK kind \in {"text", "code", "echo"} : kind = IF m.code THEN "code" ELSE "text"
  OBVIOUS
<1>1. PICK k \in Tokens : k = [kind |-> IF m.code THEN "code" ELSE "text", char |-> t[i]]
  BY <1>0 DEF Tokens, Pieces
<1>2. r = [m EXCEPT !.out = Append(@, k)]
  BY <1>1 DEF MeaningStep, TagOf
<1>3. m = [code |-> m.code, skip |-> m.skip, echo |-> m.echo, out |-> m.out]
  BY DEF MeaningState
<1>4. (r.code <=> m.code) /\ ~r.skip /\ ~r.echo /\ r.out = Append(m.out, k)
  BY <1>2, <1>3
<1>5. r \in MeaningState
  <2>1. m.out \in Seq(Tokens)
    BY DEF MeaningState
  <2>2. Append(m.out, k) \in Seq(Tokens)
    BY <2>1, AppendProperties
  <2> QED BY <1>2, <2>2 DEF MeaningState
<1> QED BY <1>1, <1>4, <1>5

(* A step of the meaning, of any state.                                      *)
LEMMA MeaningTypedAt ==
    ASSUME NEW template \in Seq(Chars), NEW t \in MeaningState, NEW i \in 1..Len(template)
    PROVE  MeaningStep(template, t, i) \in MeaningState
<1>1. template[i] \in Chars
  BY ElementOfSeq
<1> QED BY <1>1, MeanSkip, MeanEcho, MeanTag, MeanChar

(* The meaning of a template, character by character.                        *)
MeaningWalk(g, template) ==
    /\ g \in [0..Len(template) -> MeaningState] /\ g[0] = MeaningStart
    /\ \A k \in 1..Len(template) : g[k] = MeaningStep(template, g[k - 1], k)

(* The fold of Meaning is such a walk.                                       *)
LEMMA MeaningSteps ==
    ASSUME NEW template \in Seq(Chars)
    PROVE  \E g : MeaningWalk(g, template) /\ Meaning(template) = g[Len(template)].out
<1> DEFINE n == Len(template)
           seq == [i \in 1..Len(template) |-> i]
           V == MeaningState
           start == MeaningStart
           G == [p \in V \X (1..n) |-> MeaningStep(template, p[1], p[2])]
           Eq(u) == u = [s \in SUBSET (DOMAIN seq) |->
                      IF s = {} THEN start ELSE MeaningStep(template, u[s \ {Max(s)}], seq[Max(s)])]
<1>1. n \in Nat /\ DOMAIN seq = 1..n /\ \A i \in 1..n : seq[i] = i
  OBVIOUS
<1>2. start \in V
  BY DEF MeaningState, MeaningStart
<1>3. \A t \in V, i \in 1..n : MeaningStep(template, t, i) \in V
  BY MeaningTypedAt
<1>4. /\ G \in [V \X (1..n) -> V]
      /\ \A t \in V, i \in 1..n : G[<<t, i>>] = MeaningStep(template, t, i)
  <2> HIDE DEF V, n
  <2> QED BY <1>3
<1>5. ASSUME NEW u, NEW s \in SUBSET (1..n), s # {}, u[s \ {Max(s)}] \in V
      PROVE  /\ Max(s) \in 1..n /\ seq[Max(s)] = Max(s)
             /\ G[<<u[s \ {Max(s)}], Max(s)>>] = MeaningStep(template, u[s \ {Max(s)}], seq[Max(s)])
  <2> HIDE DEF V, n, G, seq
  <2>1. Max(s) \in 1..n
    BY <1>1, <1>5, MaxIn
  <2> QED BY <2>1, <1>1, <1>4, <1>5
<1>6. \E f : Eq(f)
  <2> HIDE DEF G, n, V, start, seq
  <2>1. PICK f \in [SUBSET (1..n) -> V] : Iterates(f, n, start, G)
    BY <1>1, <1>2, <1>4, IterationExists
  <2>2. ASSUME NEW s \in SUBSET (1..n), s # {}
        PROVE  f[s] = MeaningStep(template, f[s \ {Max(s)}], seq[Max(s)])
    BY <2>1, <2>2, <1>5 DEF Iterates
  <2>3. f[{}] = start /\ f = [s \in SUBSET (1..n) |-> f[s]]
    BY <2>1 DEF Iterates
  <2>4. Eq(f)
    BY <2>2, <2>3, <1>1
  <2> HIDE DEF Eq
  <2> QED BY <2>4
<1>7. PICK w : Eq(w) /\ Meaning(template) = w[1..n].out
  <2>1. Meaning(template) = (CHOOSE u : Eq(u))[DOMAIN seq].out
    BY DEF Meaning, FoldLeft, MapThenFoldSet
  <2> HIDE DEF Eq, n, seq, V, start
  <2> QED BY <1>1, <1>6, <2>1
<1>8. FoldEquations(w, n, V, start, G)
  <2>1. ASSUME NEW s \in SUBSET (1..n)
        PROVE  w[s] = IF s = {} THEN start ELSE MeaningStep(template, w[s \ {Max(s)}], seq[Max(s)])
    <3> HIDE DEF n, V, start, G, seq
    <3> QED BY <1>1, <1>7
  <2> HIDE DEF n, V, start, G, seq, Eq
  <2> QED BY <2>1, <1>5 DEF FoldEquations
<1>9. FoldWalks(w, n, V, start, G)
  <2> HIDE DEF n, V, start, G, seq, Eq
  <2> QED BY <1>1, <1>2, <1>4, <1>8, FoldSteps
<1>10. PICK g : Walks(g, n, V, start, G) /\ g[n] = w[1..n]
  BY <1>9 DEF FoldWalks
<1>11. ASSUME NEW k \in 1..n PROVE g[k] = MeaningStep(template, g[k - 1], k)
  <2>1. k - 1 \in 0..n
    BY <1>1
  <2> HIDE DEF n, V, start, G, seq, Eq
  <2> QED BY <1>4, <1>10, <2>1 DEF Walks
<1>12. MeaningWalk(g, template)
  <2> HIDE DEF G, Eq, seq
  <2> QED BY <1>10, <1>11 DEF MeaningWalk, Walks
<1> HIDE DEF n, V, start, G, seq, Eq
<1> QED BY <1>7, <1>10, <1>12 DEF n
-----------------------------------------------------------------------------
(* Reading what the parser has written.                                      *)

(* Where Tcl is after q pieces of a script: in a string or in code, nothing  *)
(* misread, o read so far.                                                   *)
ModeOf(s) == IF s.inside THEN "code" ELSE "text"
Tok(mode, c) == [kind |-> mode, char |-> c]
ReadAt(w, q, mode, o) ==
    w[q] \in ReadingState /\ (w[q].string <=> mode = "text") /\ ~w[q].escape /\ ~w[q].bad /\ w[q].out = o

(* A step of the walk.                                                       *)
LEMMA ReadingMove ==
    ASSUME NEW script, NEW w, ReadingWalk(w, script), NEW i \in 1..Len(script)
    PROVE  w[i] = ReadingStep(w[i - 1], script[i]) /\ w[i] \in ReadingState
<1>1. i \in 0..Len(script)
  OBVIOUS
<1> QED BY <1>1 DEF ReadingWalk

(* Reading on: a character that stands for itself,                           *)
LEMMA PlainRead ==
    ASSUME NEW script, NEW w, ReadingWalk(w, script), NEW i \in 1..Len(script), NEW mode \in {"text", "code"},
           NEW o, ReadAt(w, i - 1, mode, o), NEW c, c = script[i], Plain(c), ~(mode = "text" /\ c \in Special)
    PROVE  ReadAt(w, i, mode, Append(o, Tok(mode, c)))
<1>1. PICK a, b : a = w[i - 1] /\ b = w[i]
  OBVIOUS
<1>2. b = ReadingStep(a, c) /\ b \in ReadingState
  BY <1>1, ReadingMove
<1>3. a \in ReadingState /\ (a.string <=> mode = "text") /\ ~a.escape /\ ~a.bad /\ a.out = o
  BY <1>1 DEF ReadAt
<1>4. mode = IF a.string THEN "text" ELSE "code"
  BY <1>3
<1>5. (b.string <=> a.string) /\ ~b.escape /\ ~b.bad
      /\ b.out = Append(a.out, [kind |-> IF a.string THEN "text" ELSE "code", char |-> c])
  BY <1>2, <1>3, ReadPlain
<1> QED BY <1>1, <1>2, <1>3, <1>4, <1>5 DEF ReadAt, Tok

(* a backslash and the character behind it,                                  *)
LEMMA EscapedRead ==
    ASSUME NEW script, NEW w, ReadingWalk(w, script), NEW i \in 1..Len(script), NEW j \in 1..Len(script), j = i + 1,
           NEW o, ReadAt(w, i - 1, "text", o), script[i] = "\\", NEW c, c = script[j], Plain(c)
    PROVE  ReadAt(w, j, "text", Append(o, Tok("text", c)))
<1>1. PICK a, b, d : a = w[i - 1] /\ b = w[i] /\ d = w[j]
  OBVIOUS
<1>2. b = ReadingStep(a, "\\") /\ b \in ReadingState
  BY <1>1, ReadingMove
<1>3. d = ReadingStep(b, c) /\ d \in ReadingState
  <2>1. j - 1 = i
    OBVIOUS
  <2>2. w[j] = ReadingStep(w[j - 1], script[j]) /\ w[j] \in ReadingState
    BY ReadingMove
  <2> QED BY <1>1, <2>1, <2>2
<1>4. a \in ReadingState /\ a.string /\ ~a.escape /\ ~a.bad /\ a.out = o
  BY <1>1 DEF ReadAt
<1>5. b.string /\ b.escape /\ ~b.bad /\ b.out = o
  BY <1>2, <1>4, ReadBackslash
<1>6. d.string /\ ~d.escape /\ ~d.bad /\ d.out = Append(o, [kind |-> "text", char |-> c])
  BY <1>2, <1>3, <1>5, ReadEscaped
<1> QED BY <1>1, <1>3, <1>6 DEF ReadAt, Tok

(* the begin or the end of a string,                                         *)
LEMMA MarkRead ==
    ASSUME NEW script, NEW w, ReadingWalk(w, script), NEW i \in 1..Len(script), NEW mode,
           NEW o, ReadAt(w, i - 1, mode, o), script[i] \in {PutsOpen, Close}, NEW new,
           new = IF script[i] = PutsOpen THEN "text" ELSE "code"
    PROVE  ReadAt(w, i, new, o)
<1>0. PICK a, b : a = w[i - 1] /\ b = w[i]
  OBVIOUS
<1>1. PICK c \in {PutsOpen, Close} : c = script[i] /\ a = w[i - 1] /\ b = w[i]
  BY <1>0
<1>2. b = ReadingStep(a, c) /\ b \in ReadingState
  BY <1>1, ReadingMove
<1>3. a \in ReadingState /\ ~a.escape /\ ~a.bad /\ a.out = o
  BY <1>1 DEF ReadAt
<1>5. (b.string <=> c = PutsOpen) /\ (b.escape <=> a.escape) /\ (b.bad <=> a.bad) /\ b.out = a.out
  BY <1>2, <1>3, ReadMark
<1>6. new = "text" <=> c = PutsOpen
  BY <1>1
<1> QED BY <1>1, <1>2, <1>3, <1>5, <1>6 DEF ReadAt

(* the command that prints a value.                                          *)
LEMMA EchoRead ==
    ASSUME NEW script, NEW w, ReadingWalk(w, script), NEW i \in 1..Len(script), NEW mode,
           NEW o, ReadAt(w, i - 1, mode, o), script[i] = PutsEcho
    PROVE  ReadAt(w, i, mode, Append(o, Tok("echo", "=")))
<1>1. PICK a, b : a = w[i - 1] /\ b = w[i]
  OBVIOUS
<1>2. b = ReadingStep(a, PutsEcho) /\ b \in ReadingState
  BY <1>1, ReadingMove
<1>3. a \in ReadingState /\ (a.string <=> mode = "text") /\ ~a.escape /\ ~a.bad /\ a.out = o
  BY <1>1 DEF ReadAt
<1>5. (b.string <=> a.string) /\ (b.escape <=> a.escape) /\ (b.bad <=> a.bad)
      /\ b.out = Append(a.out, [kind |-> "echo", char |-> "="])
  BY <1>2, <1>3, ReadEcho
<1> QED BY <1>1, <1>2, <1>3, <1>5 DEF ReadAt, Tok

(* A character as the parser writes it is read as this character.            *)
Written(mode, c) == IF mode = "text" /\ c \in Special THEN Escaped(c) ELSE <<c>>

(* A character the parser has written is read as this character.             *)
LEMMA CharRead ==
    ASSUME NEW script \in Seq(Pieces), NEW w, ReadingWalk(w, script), NEW mode \in {"text", "code"}, NEW c, Plain(c),
           NEW q \in Nat, NEW o, ReadAt(w, q, mode, o), LiesAt(script, Written(mode, c), q)
    PROVE  ReadAt(w, q + Len(Written(mode, c)), mode, Append(o, Tok(mode, c)))
<1>1. PICK l \in Nat : l = Len(script)
  BY LenProperties
<1>2. CASE mode = "text" /\ c \in Special
  <2>1. Written(mode, c) = <<"\\", c>>
    BY <1>2 DEF Written, Escaped
  <2>2. q + 2 <= l /\ script[q + 1] = "\\" /\ script[q + 2] = c /\ Len(Written(mode, c)) = 2
    BY <1>1, <2>1 DEF LiesAt
  <2>3. PICK i \in 1..l, j \in 1..l : i = q + 1 /\ j = q + 2 /\ j = i + 1 /\ i - 1 = q
    BY <2>2
  <2>4. ReadAt(w, i - 1, "text", o) /\ script[i] = "\\" /\ c = script[j]
    BY <1>2, <2>2, <2>3
  <2>5. ReadAt(w, j, "text", Append(o, Tok("text", c)))
    BY <1>1, <2>3, <2>4, EscapedRead
  <2> QED BY <1>2, <2>2, <2>3, <2>5
<1>3. CASE ~(mode = "text" /\ c \in Special)
  <2>1. Written(mode, c) = <<c>>
    BY <1>3 DEF Written
  <2>2. q + 1 <= l /\ script[q + 1] = c /\ Len(Written(mode, c)) = 1
    BY <1>1, <2>1 DEF LiesAt
  <2>3. PICK i \in 1..l : i = q + 1 /\ i - 1 = q
    BY <2>2
  <2>4. ReadAt(w, i - 1, mode, o) /\ c = script[i]
    BY <2>2, <2>3
  <2>5. ReadAt(w, i, mode, Append(o, Tok(mode, c)))
    BY <1>1, <1>3, <2>3, <2>4, PlainRead
  <2> QED BY <2>2, <2>3, <2>5
<1> QED BY <1>2, <1>3

(* What is read of a character outside of tags and the part of a tag before. *)
TextOut(s, c, o) == Append(IF s.p = 1 THEN Append(o, Tok(ModeOf(s), First(s))) ELSE o, Tok(ModeOf(s), c))

(* What StepText adds to the script is read as TextOut.                      *)
LEMMA EmittedRead ==
    ASSUME NEW script \in Seq(Pieces), NEW w, ReadingWalk(w, script), NEW s \in ParserState, NEW c \in Chars,
           NEW q \in Nat, NEW o, ReadAt(w, q, ModeOf(s), o), LiesAt(script, Emitted(s, c), q)
    PROVE  ReadAt(w, q + Len(Emitted(s, c)), ModeOf(s), TextOut(s, c, o))
<1>1. PICK mode \in {"text", "code"} : mode = ModeOf(s) /\ (mode = "text" <=> ~s.inside)
  BY DEF ModeOf
<1>2. PICK new : new = Written(mode, c) /\ new = IF ~s.inside /\ c \in Special THEN Escaped(c) ELSE <<c>>
  BY <1>1 DEF Written
<1>3. new \in Seq(Pieces) /\ First(s) \in Pieces
  <2>1. "\\" \in Pieces /\ c \in Pieces /\ "<" \in Pieces /\ "?" \in Pieces
    BY DEF Pieces
  <2>2. <<"\\", c>> \in Seq(Pieces) /\ <<c>> \in Seq(Pieces)
    BY <2>1
  <2> QED BY <1>2, <2>1, <2>2 DEF Escaped, First
<1>4. Plain(c) /\ Plain(First(s)) /\ First(s) \notin Special
  BY PlainChars DEF First
<1>5. s.p \in {0, 1}
  BY DEF ParserState
<1>6. PICK n \in Nat : n = Len(new)
  BY <1>3, LenProperties
<1>7. CASE s.p = 0
  <2>1. Emitted(s, c) = new
    <3>1. Emitted(s, c) = <<>> \o new
      BY <1>2, <1>7 DEF Emitted
    <3> QED BY <3>1, <1>3, EmptySeq, ConcatEmptySeq
  <2>2. ReadAt(w, q + n, mode, Append(o, Tok(mode, c)))
    BY <1>1, <1>2, <1>4, <1>6, <2>1, CharRead
  <2> QED BY <1>1, <1>6, <1>7, <2>1, <2>2 DEF TextOut
<1>8. CASE s.p = 1
  <2>1. PICK f, one : f = First(s) /\ one = <<f>>
    OBVIOUS
  <2>2. one \in Seq(Pieces) /\ Len(one) = 1 /\ one = Written(mode, f)
    BY <1>3, <1>4, <2>1 DEF Written
  <2>3. Emitted(s, c) = one \o new
    BY <1>2, <1>8, <2>1 DEF Emitted
  <2>4. PICK e \in Seq(Pieces) : e = Emitted(s, c) /\ Joined(e, one, new)
    BY <1>3, <2>2, <2>3, Concatenated
  <2>5. Len(e) = 1 + n /\ LiesAt(e, one, 0) /\ LiesAt(e, new, 1)
    BY <1>6, <2>2, <2>4 DEF Joined
  <2>6. LiesAt(script, one, q + 0) /\ LiesAt(script, new, q + 1)
    <3>1. LiesAt(script, e, q)
      BY <2>4
    <3> QED BY <3>1, <2>2, <2>5, <1>3, PieceOfPiece
  <2>7. q + 0 = q /\ q + 1 \in Nat /\ (q + 1) + n = q + (1 + n)
    BY <1>6
  <2>8. ReadAt(w, q + 1, mode, Append(o, Tok(mode, f)))
    <3>1. LiesAt(script, Written(mode, f), q) /\ Plain(f) /\ ReadAt(w, q, mode, o) /\ Len(Written(mode, f)) = 1
      BY <1>1, <1>4, <2>1, <2>2, <2>6, <2>7
    <3> QED BY <3>1, CharRead
  <2>9. ReadAt(w, (q + 1) + n, mode, Append(Append(o, Tok(mode, f)), Tok(mode, c)))
    <3>1. PICK q2 \in Nat : q2 = q + 1
      BY <2>7
    <3>0. PICK o2 : o2 = Append(o, Tok(mode, f))
      OBVIOUS
    <3>2. LiesAt(script, Written(mode, c), q2) /\ ReadAt(w, q2, mode, o2) /\ Plain(c) /\ Len(Written(mode, c)) = n
      BY <1>2, <1>4, <1>6, <2>6, <2>8, <3>0, <3>1
    <3>3. ReadAt(w, q2 + Len(Written(mode, c)), mode, Append(o2, Tok(mode, c)))
      BY <3>2, CharRead
    <3> QED BY <3>0, <3>1, <3>2, <3>3
  <2> QED BY <1>1, <1>8, <2>1, <2>4, <2>5, <2>7, <2>9 DEF TextOut
<1> QED BY <1>5, <1>7, <1>8

(* The last piece of the begin of a script.                                  *)
LEMMA LastPiece ==
    ASSUME NEW script \in Seq(Pieces), NEW out \in Seq(Pieces), NEW a \in Pieces, NEW new, new = Append(out, a),
           LiesAt(script, new, 0)
    PROVE  \E i \in 1..Len(script) : i = Len(new) /\ i - 1 = Len(out) /\ script[i] = a
<1>1. PICK q \in Nat, l \in Nat : q = Len(out) /\ l = Len(script)
  BY LenProperties
<1>2. Len(new) = q + 1 /\ new[q + 1] = a
  BY <1>1, AppendProperties
<1>3. 0 + (q + 1) <= l /\ script[0 + (q + 1)] = a
  <2>1. q + 1 \in 1..(q + 1)
    OBVIOUS
  <2> QED BY <1>1, <1>2, <2>1 DEF LiesAt
<1>4. 0 + (q + 1) = q + 1 /\ q + 1 \in 1..l /\ (q + 1) - 1 = q
  BY <1>3
<1> QED BY <1>1, <1>2, <1>3, <1>4

(* What Tcl has read, when the parser has gone from s to r.                  *)
ReadsTo(w, s, r, o, new) ==
    ReadAt(w, Len(s.out), ModeOf(s), o) => ReadAt(w, Len(r.out), ModeOf(r), new)

(* The parser's steps, as Tcl reads what they have written: =,               *)
LEMMA ReadsEcho ==
    ASSUME NEW script \in Seq(Pieces), NEW w, ReadingWalk(w, script), NEW s \in ParserState, NEW c,
           Echoes(s, c), NEW r, r = Step(s, c), LiesAt(script, r.out, 0), NEW o
    PROVE  ReadsTo(w, s, r, o, Append(o, Tok("echo", "=")))
<1> SUFFICES ASSUME ReadAt(w, Len(s.out), ModeOf(s), o)
             PROVE  ReadAt(w, Len(r.out), ModeOf(r), Append(o, Tok("echo", "=")))
  BY DEF ReadsTo
<1>1. (r.inside <=> s.inside) /\ r.out = Append(s.out, PutsEcho)
  BY StepEcho
<1>2. ModeOf(r) = ModeOf(s)
  BY <1>1 DEF ModeOf
<1>3. s.out \in Seq(Pieces) /\ PutsEcho \in Pieces
  BY DEF ParserState, Pieces
<1>4. PICK i \in 1..Len(script) : i = Len(r.out) /\ i - 1 = Len(s.out) /\ script[i] = PutsEcho
  <2>1. PICK out \in Seq(Pieces), b \in Pieces, new \in {r.out} : out = s.out /\ new = r.out /\ b = PutsEcho
    BY <1>3
  <2>2. new = Append(out, b) /\ LiesAt(script, new, 0)
    BY <1>1, <2>1
  <2> HIDE DEF PutsEcho
  <2>3. \E i \in 1..Len(script) : i = Len(new) /\ i - 1 = Len(out) /\ script[i] = b
    BY <2>2, LastPiece, SMTT(60)
  <2> QED BY <2>1, <2>3
<1>5. PICK mode : mode = ModeOf(s)
  OBVIOUS
<1>6. ReadAt(w, i - 1, mode, o)
  BY <1>4, <1>5
<1>7. ReadAt(w, i, mode, Append(o, Tok("echo", "=")))
  BY <1>4, <1>6, EchoRead
<1> QED BY <1>2, <1>4, <1>5, <1>7

(* the first character of a tag,                                             *)
LEMMA ReadsFirst ==
    ASSUME NEW w, NEW s \in ParserState, NEW c, ~Echoes(s, c), s.p = 0, c = First(s), NEW r, r = Step(s, c), NEW o
    PROVE  ReadsTo(w, s, r, o, o)
<1>1. (r.inside <=> s.inside) /\ r.out = s.out
  BY StepFirst
<1>2. ModeOf(r) = ModeOf(s)
  BY <1>1 DEF ModeOf
<1> QED BY <1>1, <1>2 DEF ReadsTo

(* a tag,                                                                    *)
LEMMA ReadsTag ==
    ASSUME NEW script \in Seq(Pieces), NEW w, ReadingWalk(w, script), NEW s \in ParserState, NEW c, ~Echoes(s, c),
           s.p = 1, c = Second(s), NEW r, r = Step(s, c), LiesAt(script, r.out, 0), NEW o
    PROVE  ReadsTo(w, s, r, o, o)
<1> SUFFICES ASSUME ReadAt(w, Len(s.out), ModeOf(s), o)
             PROVE  ReadAt(w, Len(r.out), ModeOf(r), o)
  BY DEF ReadsTo
<1>0. PICK a : a = IF s.inside THEN PutsOpen ELSE Close
  OBVIOUS
<1>1. (r.inside <=> ~s.inside) /\ r.out = Append(s.out, a)
  <2>1. (r.inside <=> ~s.inside) /\ r.out = Append(s.out, IF s.inside THEN PutsOpen ELSE Close)
    BY StepTag
  <2> QED BY <2>1, <1>0
<1>2. PutsOpen # Close
  BY DEF PutsOpen, Close
<1>3. s.out \in Seq(Pieces) /\ a \in Pieces /\ a \in {PutsOpen, Close}
  BY <1>0 DEF ParserState, Pieces
<1>4. PICK i \in 1..Len(script) : i = Len(r.out) /\ i - 1 = Len(s.out) /\ script[i] = a
  <2>1. PICK out \in Seq(Pieces), b \in Pieces, new \in {r.out} : out = s.out /\ new = r.out /\ b = a
    BY <1>3
  <2>2. new = Append(out, b) /\ LiesAt(script, new, 0)
    BY <1>1, <2>1
  <2>3. \E i \in 1..Len(script) : i = Len(new) /\ i - 1 = Len(out) /\ script[i] = b
    BY <2>2, LastPiece
  <2> QED BY <2>1, <2>3
<1>5. PICK mode, new : mode = ModeOf(s) /\ new = IF script[i] = PutsOpen THEN "text" ELSE "code"
  OBVIOUS
<1>6. ReadAt(w, i - 1, mode, o) /\ script[i] \in {PutsOpen, Close}
  BY <1>3, <1>4, <1>5
<1>7. ReadAt(w, i, new, o)
  BY <1>5, <1>6, MarkRead
<1>8. new = ModeOf(r)
  BY <1>0, <1>1, <1>2, <1>4, <1>5 DEF ModeOf
<1> QED BY <1>4, <1>7, <1>8

(* and any other character.                                                  *)
LEMMA ReadsText ==
    ASSUME NEW script \in Seq(Pieces), NEW w, ReadingWalk(w, script), NEW s \in ParserState, NEW c \in Chars,
           ~Echoes(s, c), (s.p = 0 /\ c # First(s)) \/ (s.p = 1 /\ c # Second(s)),
           NEW r, r = Step(s, c), LiesAt(script, r.out, 0), r \in ParserState, NEW o
    PROVE  ReadsTo(w, s, r, o, TextOut(s, c, o))
<1> SUFFICES ASSUME ReadAt(w, Len(s.out), ModeOf(s), o)
             PROVE  ReadAt(w, Len(r.out), ModeOf(r), TextOut(s, c, o))
  BY DEF ReadsTo
<1>1. (r.inside <=> s.inside) /\ r.out = s.out \o Emitted(s, c) /\ Emitted(s, c) \in Seq(Pieces)
  BY StepText
<1>2. ModeOf(r) = ModeOf(s)
  BY <1>1 DEF ModeOf
<1>3. PICK a \in Seq(Pieces), b \in Seq(Pieces), d \in Seq(Pieces) :
        a = s.out /\ b = Emitted(s, c) /\ d = r.out /\ d = a \o b
  BY <1>1 DEF ParserState
<1>4. Joined(d, a, b)
  BY <1>3, Concatenated
<1>5. PICK q \in Nat : q = Len(a)
  BY LenProperties
<1>6. Len(d) = q + Len(b) /\ LiesAt(d, b, q)
  BY <1>4, <1>5 DEF Joined
<1>7. LiesAt(script, b, 0 + q) /\ 0 + q = q
  <2>1. LiesAt(script, d, 0)
    BY <1>3
  <2> QED BY <2>1, <1>5, <1>6, PieceOfPiece
<1>8. LiesAt(script, Emitted(s, c), q) /\ ReadAt(w, q, ModeOf(s), o)
  BY <1>3, <1>5, <1>7
<1>9. ReadAt(w, q + Len(Emitted(s, c)), ModeOf(s), TextOut(s, c, o))
  BY <1>8, EmittedRead
<1> QED BY <1>2, <1>3, <1>6, <1>9
-----------------------------------------------------------------------------
(* The meaning, step by step.                                                *)

(* What the meaning is after k characters where the parser is at s and Tcl   *)
(* has read o: a tag that is met is passed one character later, a character  *)
(* that may begin a tag is kept until the next one.                          *)
MeaningIs(m, s, t, k, o) ==
    /\ m \in MeaningState
    /\ s.checkEcho => s.inside /\ s.p = 0
    /\ s.p = 0 => /\ ~m.skip /\ (m.code <=> s.inside) /\ m.out = o
                  /\ m.echo <=> (s.checkEcho /\ k < Len(t) /\ t[k + 1] = "=")
    /\ s.p = 1 => /\ k \in 1..Len(t) /\ ~m.echo /\ t[k] = First(s)
                  /\ IF k < Len(t) /\ t[k + 1] = Second(s)
                     THEN m.skip /\ (m.code <=> ~s.inside) /\ m.out = o
                     ELSE ~m.skip /\ (m.code <=> s.inside) /\ m.out = Append(o, Tok(ModeOf(s), First(s)))

(* A tag is met where its two characters are.                                *)
LEMMA TagMet ==
    ASSUME NEW t \in Seq(Chars), NEW m, NEW s, m.code <=> s.inside, NEW k \in 1..Len(t)
    PROVE  TagAt(t, k, TagOf(m)) <=> t[k] = First(s) /\ k < Len(t) /\ t[k + 1] = Second(s)
<1>1. PICK l \in Nat : l = Len(t)
  BY LenProperties
<1>2. k + 1 <= l <=> k < l
  BY <1>1
<1>3. TagOf(m)[1] = First(s) /\ TagOf(m)[2] = Second(s)
  BY DEF TagOf, First, Second, EndTag, StartTag
<1> QED BY <1>1, <1>2, <1>3 DEF TagAt

(* The parser's steps, as the template means them: =,                        *)
LEMMA MeansEcho ==
    ASSUME NEW t \in Seq(Chars), NEW k \in 1..Len(t), NEW s \in ParserState, NEW m, NEW o,
           MeaningIs(m, s, t, k - 1, o), Echoes(s, t[k]), NEW r, r = Step(s, t[k]), NEW n, n = MeaningStep(t, m, k)
    PROVE  MeaningIs(n, r, t, k, Append(o, Tok("echo", "=")))
<1>1. k - 1 < Len(t) /\ (k - 1) + 1 = k /\ t[k] \in Chars
  <2>1. t[k] \in Chars
    BY ElementOfSeq
  <2>2. Len(t) \in Nat
    BY LenProperties
  <2> QED BY <2>1, <2>2
<1>2. s.checkEcho /\ t[k] = "=" /\ s.inside /\ s.p = 0 /\ m \in MeaningState
  BY DEF Echoes, MeaningIs
<1>3. ~m.skip /\ (m.code <=> s.inside) /\ m.out = o /\ m.echo
  BY <1>1, <1>2 DEF MeaningIs
<1>4. (r.inside <=> s.inside) /\ r.p = s.p /\ ~r.checkEcho
  BY StepEcho
<1>5. /\ (n.code <=> m.code) /\ ~n.skip /\ ~n.echo /\ n.out = Append(m.out, [kind |-> "echo", char |-> t[k]])
      /\ n \in MeaningState
  BY <1>1, <1>2, <1>3, MeanEcho
<1>6. n.out = Append(o, Tok("echo", "="))
  BY <1>2, <1>3, <1>5 DEF Tok
<1> QED BY <1>2, <1>3, <1>4, <1>5, <1>6 DEF MeaningIs

(* the first character of a tag,                                             *)
LEMMA MeansFirst ==
    ASSUME NEW t \in Seq(Chars), NEW k \in 1..Len(t), NEW s \in ParserState, NEW m, NEW o,
           MeaningIs(m, s, t, k - 1, o), ~Echoes(s, t[k]), s.p = 0, t[k] = First(s),
           NEW r, r = Step(s, t[k]), NEW n, n = MeaningStep(t, m, k)
    PROVE  MeaningIs(n, r, t, k, o)
<1>1. k - 1 < Len(t) /\ (k - 1) + 1 = k /\ t[k] \in Chars
  <2>1. t[k] \in Chars
    BY ElementOfSeq
  <2>2. Len(t) \in Nat
    BY LenProperties
  <2> QED BY <2>1, <2>2
<1>3. m \in MeaningState /\ ~m.skip /\ (m.code <=> s.inside) /\ m.out = o /\ ~m.echo
  BY <1>1 DEF MeaningIs, Echoes
<1>4. (r.inside <=> s.inside) /\ r.p = 1 /\ ~r.checkEcho
  BY StepFirst
<1>5. First(r) = First(s) /\ Second(r) = Second(s) /\ ModeOf(r) = ModeOf(s)
  BY <1>4 DEF First, Second, ModeOf
<1>6. CASE k < Len(t) /\ t[k + 1] = Second(s)
  <2>1. TagAt(t, k, TagOf(m))
    BY <1>3, <1>6, TagMet
  <2>2. (n.code <=> ~m.code) /\ n.skip /\ ~n.echo /\ n.out = m.out /\ n \in MeaningState
    BY <1>3, <2>1, MeanTag
  <2> QED BY <1>3, <1>4, <1>5, <1>6, <2>2 DEF MeaningIs
<1>7. CASE ~(k < Len(t) /\ t[k + 1] = Second(s))
  <2>1. ~TagAt(t, k, TagOf(m))
    BY <1>3, <1>7, TagMet
  <2>2. /\ (n.code <=> m.code) /\ ~n.skip /\ ~n.echo
        /\ n.out = Append(m.out, [kind |-> IF m.code THEN "code" ELSE "text", char |-> t[k]])
        /\ n \in MeaningState
    BY <1>1, <1>3, <2>1, MeanChar
  <2>3. n.out = Append(o, Tok(ModeOf(r), First(r)))
    BY <2>2, <1>3, <1>5 DEF Tok, ModeOf
  <2> QED BY <1>3, <1>4, <1>5, <1>7, <2>2, <2>3 DEF MeaningIs
<1> QED BY <1>6, <1>7

(* a tag,                                                                    *)
LEMMA MeansTag ==
    ASSUME NEW t \in Seq(Chars), NEW k \in 1..Len(t), NEW s \in ParserState, NEW m, NEW o,
           MeaningIs(m, s, t, k - 1, o), ~Echoes(s, t[k]), s.p = 1, t[k] = Second(s),
           NEW r, r = Step(s, t[k]), NEW n, n = MeaningStep(t, m, k)
    PROVE  MeaningIs(n, r, t, k, o)
<1>1. k - 1 < Len(t) /\ (k - 1) + 1 = k
  <2>2. Len(t) \in Nat
    BY LenProperties
  <2> QED BY <2>2
<1>3. m \in MeaningState /\ m.skip /\ (m.code <=> ~s.inside) /\ m.out = o /\ ~m.echo
  BY <1>1 DEF MeaningIs
<1>4. (r.inside <=> ~s.inside) /\ r.p = 0 /\ (r.checkEcho <=> ~s.inside)
  BY StepTag
<1>5. /\ (n.code <=> m.code) /\ ~n.skip /\ (n.echo <=> m.code /\ k < Len(t) /\ t[k + 1] = "=") /\ n.out = m.out
      /\ n \in MeaningState
  BY <1>3, MeanSkip
<1> QED BY <1>3, <1>4, <1>5 DEF MeaningIs

(* In a template that is not odd no first character of a tag follows itself. *)
LEMMA NotTwice ==
    ASSUME NEW t \in Seq(Chars), ~Odd(t), NEW k \in 1..Len(t), NEW j \in 1..Len(t), k = j + 1,
           t[j] \in {"<", "?"}
    PROVE  t[k] # t[j]
<1>1. PICK l \in Nat : l = Len(t)
  BY LenProperties
<1>2. j \in 1..(l - 1)
  BY <1>1
<1> QED BY <1>1, <1>2 DEF Odd

(* and any other character: here the template must not be odd.               *)
LEMMA MeansText ==
    ASSUME NEW t \in Seq(Chars), ~Odd(t), NEW k \in 1..Len(t), NEW s \in ParserState, NEW m, NEW o,
           MeaningIs(m, s, t, k - 1, o), ~Echoes(s, t[k]),
           (s.p = 0 /\ t[k] # First(s)) \/ (s.p = 1 /\ t[k] # Second(s)),
           NEW r, r = Step(s, t[k]), NEW n, n = MeaningStep(t, m, k)
    PROVE  MeaningIs(n, r, t, k, TextOut(s, t[k], o))
<1>1. k - 1 < Len(t) /\ (k - 1) + 1 = k /\ t[k] \in Chars
  <2>1. t[k] \in Chars
    BY ElementOfSeq
  <2>2. Len(t) \in Nat
    BY LenProperties
  <2> QED BY <2>1, <2>2
<1>2. PICK new : new = IF s.p = 1 THEN Append(o, Tok(ModeOf(s), First(s))) ELSE o
  OBVIOUS
<1>3. m \in MeaningState /\ ~m.skip /\ (m.code <=> s.inside) /\ ~m.echo
  BY <1>1 DEF MeaningIs, Echoes
<1>8. m.out = new
  BY <1>1, <1>2 DEF MeaningIs
<1>4. (r.inside <=> s.inside) /\ r.p = 0 /\ ~r.checkEcho
  BY <1>1, StepText
<1>5. t[k] # First(s)
  <2>1. CASE s.p = 0
    BY <2>1
  <2>2. CASE s.p = 1
    <3>1. PICK j \in 1..Len(t) : j = k - 1 /\ k = j + 1 /\ t[j] = First(s)
      BY <1>1, <2>2 DEF MeaningIs
    <3>2. t[j] \in {"<", "?"}
      BY <3>1 DEF First
    <3>3. t[k] # t[j]
      BY <3>1, <3>2, NotTwice
    <3> QED BY <3>1, <3>3
  <2> QED BY <2>1, <2>2
<1>6. ~TagAt(t, k, TagOf(m))
  BY <1>3, <1>5, TagMet
<1>7. /\ (n.code <=> m.code) /\ ~n.skip /\ ~n.echo
      /\ n.out = Append(m.out, [kind |-> IF m.code THEN "code" ELSE "text", char |-> t[k]])
      /\ n \in MeaningState
  BY <1>1, <1>3, <1>6, MeanChar
<1>9. n.out = TextOut(s, t[k], o)
  BY <1>2, <1>3, <1>7, <1>8 DEF TextOut, Tok, ModeOf
<1> QED BY <1>3, <1>4, <1>7, <1>9 DEF MeaningIs
-----------------------------------------------------------------------------
(* The three together.                                                       *)

(* A sequence lies at the begin of the one with an element more.             *)
LEMMA AppendGrows ==
    ASSUME NEW s \in Seq(Pieces), NEW a \in Pieces, NEW r, r = Append(s, a)
    PROVE  LiesAt(r, s, 0)
<1>1. PICK n \in Nat : n = Len(s)
  BY LenProperties
<1>2. Len(r) = n + 1 /\ \A i \in 1..n : r[i] = s[i]
  BY <1>1, AppendProperties
<1>3. 0 + n <= n + 1 /\ \A i \in 1..n : 0 + i = i
  OBVIOUS
<1> QED BY <1>1, <1>2, <1>3 DEF LiesAt

(* The parser changes nothing that it has written.                           *)
LEMMA StepGrows ==
    ASSUME NEW s \in ParserState, NEW c \in Chars, NEW r, r = Step(s, c)
    PROVE  LiesAt(r.out, s.out, 0)
<1>1. PICK o \in Seq(Pieces) : o = s.out
  BY DEF ParserState
<1>2. s.p \in {0, 1} /\ PutsOpen \in Pieces /\ PutsEcho \in Pieces /\ Close \in Pieces
  BY DEF ParserState, Pieces
<1>3. CASE Echoes(s, c)
  <2>1. r.out = Append(o, PutsEcho)
    BY <1>1, <1>3, StepEcho
  <2> QED BY <2>1, <1>1, <1>2, AppendGrows
<1>4. CASE ~Echoes(s, c) /\ s.p = 0 /\ c = First(s)
  <2>1. r.out = o
    BY <1>1, <1>4, StepFirst
  <2> QED BY <2>1, <1>1, LiesItself
<1>5. CASE ~Echoes(s, c) /\ s.p = 1 /\ c = Second(s)
  <2>1. r.out = Append(s.out, IF s.inside THEN PutsOpen ELSE Close)
    BY <1>5, StepTag
  <2>2. PICK a \in Pieces : a = IF s.inside THEN PutsOpen ELSE Close
    BY <1>2
  <2>3. r.out = Append(o, a)
    BY <1>1, <2>1, <2>2
  <2> QED BY <2>3, <1>1, AppendGrows
<1>6. CASE ~Echoes(s, c) /\ ((s.p = 0 /\ c # First(s)) \/ (s.p = 1 /\ c # Second(s)))
  <2>1. r.out = s.out \o Emitted(s, c) /\ Emitted(s, c) \in Seq(Pieces)
    BY <1>6, StepText
  <2>2. PICK b \in Seq(Pieces) : b = Emitted(s, c) /\ r.out = o \o b
    BY <1>1, <2>1
  <2>3. Joined(r.out, o, b)
    BY <2>2, Concatenated
  <2> QED BY <2>3, <1>1 DEF Joined
<1> QED BY <1>2, <1>3, <1>4, <1>5, <1>6

(* What the parser has written after k characters stays at the begin: by     *)
(* induction over the characters that follow.                                *)
LEMMA ScriptGrows ==
    ASSUME NEW t \in Seq(Chars), NEW g, ParserWalk(g, t), NEW k \in 0..Len(t), NEW d, d = g[Len(t)].out
    PROVE  LiesAt(d, g[k].out, 0)
<1> DEFINE n == Len(t)
           T == {j \in 0..n : j >= k => LiesAt(g[j].out, g[k].out, 0)}
<1>1. n \in Nat /\ g \in [0..n -> ParserState] /\ \A j \in 1..n : g[j] = Step(g[j - 1], t[j]) /\ t[j] \in Chars
  <2>1. n \in Nat /\ \A j \in 1..n : t[j] \in Chars
    BY LenProperties, ElementOfSeq
  <2> QED BY <2>1 DEF ParserWalk
<1>0. k \in 0..n
  OBVIOUS
<1>9. d = g[n].out
  OBVIOUS
<1> HIDE DEF n
<1>2. \A j \in 0..n : g[j].out \in Seq(Pieces)
  BY <1>1 DEF ParserState
<1>3. n \in 0..n /\ n >= k
  BY <1>1, <1>0
<1>4. \A j \in 0..n : j \in T
  <2>1. 0 \in T
    <3>1. 0 \in 0..n
      BY <1>1
    <3>2. CASE k = 0
      <4>1. PICK o \in Seq(Pieces) : o = g[0].out
        BY <3>1, <1>2
      <4> QED BY <4>1, <3>1, <3>2, LiesItself
    <3>3. CASE k # 0
      BY <3>1, <3>3, <1>0, <1>1
    <3> QED BY <3>2, <3>3
  <2>2. ASSUME NEW j \in 0..n, j \in T, j < n PROVE j + 1 \in T
    <3>1. j + 1 \in 1..n /\ j + 1 \in 0..n /\ (j + 1) - 1 = j
      BY <2>2, <1>1
    <3>2. PICK a \in Seq(Pieces), b \in Seq(Pieces), c \in Seq(Pieces) :
              a = g[k].out /\ b = g[j].out /\ c = g[j + 1].out
      BY <3>1, <1>0, <1>2
    <3>3. LiesAt(c, b, 0)
      <4>1. g[j + 1] = Step(g[j], t[j + 1]) /\ g[j] \in ParserState /\ t[j + 1] \in Chars
        BY <3>1, <1>1
      <4> QED BY <4>1, <3>2, StepGrows
    <3>5. CASE k = j + 1
      BY <3>5, <3>1, <3>2, LiesItself
    <3>6. CASE k # j + 1 /\ j + 1 >= k
      <4>1. LiesAt(b, a, 0)
        BY <3>6, <2>2, <3>1, <3>2, <1>0
      <4>3. LiesAt(c, a, 0 + 0)
        BY <4>1, <3>3, PieceOfPiece
      <4> QED BY <4>3, <3>1, <3>2
    <3> QED BY <3>1, <3>5, <3>6
  <2> HIDE DEF T
  <2> QED BY <2>1, <2>2, <1>1, Induction
<1> QED BY <1>3, <1>4, <1>9

(* The parser at s, Tcl's reading of what it has written, and the meaning of *)
(* the k characters it has seen.                                             *)
Simulated(w, m, s, t, k, o) ==
    ReadAt(w, Len(s.out), ModeOf(s), o) /\ (~Odd(t) => MeaningIs(m, s, t, k, o))

(* Parser, reading and meaning stay together over a character.               *)
LEMMA SimulatedStep ==
    ASSUME NEW t \in Seq(Chars), NEW k \in 1..Len(t), NEW script \in Seq(Pieces), NEW w, ReadingWalk(w, script),
           NEW s \in ParserState, NEW m, NEW o, Simulated(w, m, s, t, k - 1, o),
           NEW r, r = Step(s, t[k]), LiesAt(script, r.out, 0), NEW n, n = MeaningStep(t, m, k)
    PROVE  \E new : Simulated(w, n, r, t, k, new)
<1>1. PICK c \in Chars : c = t[k]
  BY ElementOfSeq
<1>2. ReadAt(w, Len(s.out), ModeOf(s), o) /\ (~Odd(t) => MeaningIs(m, s, t, k - 1, o))
  BY DEF Simulated
<1>3. s.p \in {0, 1} /\ r \in ParserState
  BY <1>1, StepTyped DEF ParserState
<1>4. CASE Echoes(s, c)
  <2>1. ReadsTo(w, s, r, o, Append(o, Tok("echo", "=")))
    BY <1>1, <1>4, ReadsEcho
  <2>2. ~Odd(t) => MeaningIs(n, r, t, k, Append(o, Tok("echo", "=")))
    BY <1>1, <1>2, <1>4, MeansEcho
  <2> QED BY <1>2, <2>1, <2>2 DEF ReadsTo, Simulated
<1>5. CASE ~Echoes(s, c) /\ s.p = 0 /\ c = First(s)
  <2>1. ReadsTo(w, s, r, o, o)
    BY <1>1, <1>5, ReadsFirst
  <2>2. ~Odd(t) => MeaningIs(n, r, t, k, o)
    BY <1>1, <1>2, <1>5, MeansFirst
  <2> QED BY <1>2, <2>1, <2>2 DEF ReadsTo, Simulated
<1>6. CASE ~Echoes(s, c) /\ s.p = 1 /\ c = Second(s)
  <2>1. ReadsTo(w, s, r, o, o)
    BY <1>1, <1>6, ReadsTag
  <2>2. ~Odd(t) => MeaningIs(n, r, t, k, o)
    BY <1>1, <1>2, <1>6, MeansTag
  <2> QED BY <1>2, <2>1, <2>2 DEF ReadsTo, Simulated
<1>7. CASE ~Echoes(s, c) /\ ((s.p = 0 /\ c # First(s)) \/ (s.p = 1 /\ c # Second(s)))
  <2>1. ReadsTo(w, s, r, o, TextOut(s, c, o))
    BY <1>1, <1>3, <1>7, ReadsText
  <2>2. ~Odd(t) => MeaningIs(n, r, t, k, TextOut(s, c, o))
    BY <1>1, <1>2, <1>7, MeansText
  <2> QED BY <1>2, <2>1, <2>2 DEF ReadsTo, Simulated
<1> QED BY <1>3, <1>4, <1>5, <1>6, <1>7

(* They are together at the begin.                                           *)
LEMMA SimulatedStart ==
    ASSUME NEW t \in Seq(Chars), NEW script \in Seq(Pieces), NEW w, ReadingWalk(w, script),
           LiesAt(script, Start.out, 0)
    PROVE  Simulated(w, MeaningStart, Start, t, 0, <<>>)
<1>1. PICK o \in Seq(Pieces) : o = <<>>
  BY EmptySeq
<1>2. Start.out = Append(o, PutsOpen) /\ ~Start.inside /\ Start.p = 0 /\ ~Start.checkEcho
  <2>1. Append(<<>>, PutsOpen) = <<PutsOpen>>
    OBVIOUS
  <2> QED BY <1>1, <2>1 DEF Start
<1>3. PutsOpen \in Pieces
  BY DEF Pieces
<1>4. PICK new : new = Start.out /\ new = Append(o, PutsOpen)
  BY <1>2
<1>5. PICK i \in 1..Len(script) : i = Len(new) /\ i - 1 = 0 /\ script[i] = PutsOpen
  <2>1. PICK l \in Nat : l = Len(script)
    BY LenProperties
  <2>2. Len(new) = 1 /\ new[1] = PutsOpen
    BY <1>4 DEF Start
  <2>3. 0 + 1 <= l /\ script[0 + 1] = PutsOpen
    <3>1. 1 \in 1..Len(new)
      BY <2>2
    <3>2. LiesAt(script, new, 0)
      BY <1>4
    <3> QED BY <3>1, <3>2, <2>1, <2>2 DEF LiesAt
  <2> QED BY <2>1, <2>2, <2>3
<1>6. ReadAt(w, i - 1, "code", o)
  <2>1. w[0] = ReadingStart /\ i - 1 = 0
    BY <1>5 DEF ReadingWalk
  <2>2. ReadingStart \in ReadingState /\ ~ReadingStart.string /\ ~ReadingStart.escape /\ ~ReadingStart.bad
        /\ ReadingStart.out = o
    BY <1>1 DEF ReadingStart, ReadingState
  <2> QED BY <2>1, <2>2 DEF ReadAt
<1>7. ReadAt(w, i, "text", o)
  <2>1. PICK mode : mode = IF script[i] = PutsOpen THEN "text" ELSE "code"
    OBVIOUS
  <2>2. ReadAt(w, i, mode, o)
    BY <1>5, <1>6, <2>1, MarkRead
  <2> QED BY <1>5, <2>1, <2>2
<1>8. ModeOf(Start) = "text"
  BY <1>2 DEF ModeOf
<1>9. MeaningIs(MeaningStart, Start, t, 0, o)
  <2>1. MeaningStart \in MeaningState /\ ~MeaningStart.code /\ ~MeaningStart.skip /\ ~MeaningStart.echo
        /\ MeaningStart.out = o
    BY <1>1 DEF MeaningStart, MeaningState
  <2> QED BY <2>1, <1>2 DEF MeaningIs
<1> QED BY <1>1, <1>4, <1>5, <1>7, <1>8, <1>9 DEF Simulated

(* And they are at the end: by induction over the template.                  *)
LEMMA AllSimulated ==
    ASSUME NEW t \in Seq(Chars), NEW g, ParserWalk(g, t), NEW mu, MeaningWalk(mu, t),
           NEW script \in Seq(Pieces), NEW w, ReadingWalk(w, script), LiesAt(script, g[Len(t)].out, 0)
    PROVE  \E o : Simulated(w, mu[Len(t)], g[Len(t)], t, Len(t), o)
<1> DEFINE n == Len(t)
           T == {k \in 0..n : \E o : Simulated(w, mu[k], g[k], t, k, o)}
<1>1. n \in Nat /\ g \in [0..n -> ParserState] /\ \A j \in 1..n : g[j] = Step(g[j - 1], t[j])
  BY LenProperties DEF ParserWalk
<1>2. g[0] = Start /\ mu[0] = MeaningStart /\ \A j \in 1..n : mu[j] = MeaningStep(t, mu[j - 1], j)
  BY DEF ParserWalk, MeaningWalk
<1>3. ASSUME NEW k \in 0..n PROVE LiesAt(script, g[k].out, 0)
  <2>1. n \in 0..n
    BY <1>1
  <2>2. PICK a \in Seq(Pieces), d \in Seq(Pieces) : a = g[k].out /\ d = g[n].out
    BY <1>1, <2>1 DEF ParserState
  <2>3. LiesAt(d, a, 0)
    BY <2>2, ScriptGrows
  <2>4. LiesAt(script, a, 0 + 0)
    BY <2>2, <2>3, PieceOfPiece
  <2> QED BY <2>2, <2>4
<1>4. 0 \in T
  <2>1. 0 \in 0..n
    BY <1>1
  <2>2. LiesAt(script, Start.out, 0)
    BY <1>2, <1>3, <2>1
  <2>3. Simulated(w, MeaningStart, Start, t, 0, <<>>)
    BY <2>2, SimulatedStart
  <2> QED BY <1>2, <2>1, <2>3
<1>5. ASSUME NEW k \in 0..n, k \in T, k < n PROVE k + 1 \in T
  <2>1. PICK j \in 1..Len(t) : j = k + 1 /\ k = j - 1 /\ j \in 0..n
    BY <1>1, <1>5
  <2>2. PICK o : Simulated(w, mu[k], g[k], t, j - 1, o)
    BY <1>5, <2>1
  <2>3. g[j] = Step(g[k], t[j]) /\ mu[j] = MeaningStep(t, mu[k], j) /\ g[k] \in ParserState /\ LiesAt(script, g[j].out, 0)
    BY <1>1, <1>2, <1>3, <2>1
  <2>4. \E new : Simulated(w, mu[j], g[j], t, j, new)
    BY <2>2, <2>3, SimulatedStep
  <2> QED BY <2>1, <2>4
<1>6. n \in T
  <2> HIDE DEF T, n
  <2>1. \A k \in 0..n : k \in T
    BY <1>1, <1>4, <1>5, Induction
  <2>2. n \in 0..n
    BY <1>1
  <2> QED BY <2>1, <2>2
<1> QED BY <1>6

(* Tcl reads no character of a template's text as more than that, and it reads *)
(* what a template that is not odd means.                                    *)
LEMMA TranslationRead ==
    ASSUME NEW t \in Seq(Chars)
    PROVE  ~Reading(Translate(t)).bad /\ (~Odd(t) => Reading(Translate(t)).out = Meaning(t))
<1>1. PICK g : ParserWalk(g, t) /\ FoldLeft(Step, Start, t) = g[Len(t)]
  BY ParserSteps
<1>2. PICK mu : MeaningWalk(mu, t) /\ Meaning(t) = mu[Len(t)].out
  BY MeaningSteps
<1>3. PICK n \in Nat : n = Len(t)
  BY LenProperties
<1>4. PICK s \in ParserState : s = g[n]
  <2>1. n \in 0..n
    OBVIOUS
  <2> QED BY <1>1, <1>3, <2>1 DEF ParserWalk
<1>5. PICK out \in Seq(Pieces) : out = s.out
  BY DEF ParserState
<1>6. PICK script : script = Translate(t) /\ script = IF s.inside THEN out ELSE Append(out, Close)
  BY <1>1, <1>3, <1>4, <1>5 DEF Translate
<1>7. Close \in Pieces
  BY DEF Pieces
<1>8. script \in Seq(Pieces) /\ LiesAt(script, out, 0)
  <2>1. CASE s.inside
    <3>1. script = out
      BY <1>6, <2>1
    <3> QED BY <3>1, LiesItself
  <2>2. CASE ~s.inside
    <3>1. script = Append(out, Close)
      BY <1>6, <2>2
    <3>2. script \in Seq(Pieces)
      BY <1>7, <3>1, AppendProperties
    <3> QED BY <1>7, <3>1, <3>2, AppendGrows
  <2> QED BY <2>1, <2>2
<1>9. PICK w : ReadingWalk(w, script) /\ Reading(script) = w[Len(script)]
  BY <1>8, ReadingSteps
<1>10. PICK o : Simulated(w, mu[n], s, t, n, o)
  BY <1>1, <1>2, <1>3, <1>4, <1>5, <1>8, <1>9, AllSimulated
<1>11. ReadAt(w, Len(out), ModeOf(s), o) /\ (~Odd(t) => MeaningIs(mu[n], s, t, n, o))
  BY <1>5, <1>10 DEF Simulated
<1>12. \E mode : ReadAt(w, Len(script), mode, o)
  <2>1. CASE s.inside
    BY <1>6, <1>11, <2>1
  <2>2. CASE ~s.inside
    <3>1. script = Append(out, Close) /\ LiesAt(script, script, 0)
      BY <1>6, <1>8, <2>2, LiesItself
    <3>2. PICK i \in 1..Len(script) : i = Len(script) /\ i - 1 = Len(out) /\ script[i] = Close
      BY <1>7, <1>8, <3>1, LastPiece
    <3>3. PICK mode, new : mode = ModeOf(s) /\ new = IF script[i] = PutsOpen THEN "text" ELSE "code"
      OBVIOUS
    <3>4. ReadAt(w, i - 1, mode, o) /\ script[i] \in {PutsOpen, Close}
      BY <1>11, <3>2, <3>3
    <3>5. ReadAt(w, i, new, o)
      BY <1>8, <1>9, <3>3, <3>4, MarkRead
    <3> QED BY <3>2, <3>5
  <2> QED BY <2>1, <2>2
<1>13. ~Reading(script).bad /\ Reading(script).out = o
  BY <1>9, <1>12 DEF ReadAt
<1>14. ASSUME ~Odd(t) PROVE Meaning(t) = o
  <2>1. MeaningIs(mu[n], s, t, n, o)
    BY <1>11, <1>14
  <2>2. s.p # 1
    <3>1. SUFFICES ASSUME s.p = 1 PROVE FALSE
      OBVIOUS
    <3>2. n \in 1..n /\ t[n] = First(s)
      BY <1>3, <2>1, <3>1 DEF MeaningIs
    <3>3. t[n] \in {"<", "?"} /\ t # <<>> /\ Last(t) = t[n]
      BY <1>3, <3>2 DEF First, Last
    <3> QED BY <1>14, <3>3 DEF Odd
  <2>3. s.p = 0
    BY <2>2 DEF ParserState
  <2>4. mu[n].out = o
    BY <2>1, <2>3 DEF MeaningIs
  <2> QED BY <1>2, <1>3, <2>4
<1> QED BY <1>6, <1>13, <1>14

(* The bounded sequences are sequences.                                      *)
LEMMA SeqsAreSeqs ==
    ASSUME NEW S, NEW n, NEW s \in SeqsUpTo(S, n), n \in Nat
    PROVE  s \in Seq(S)
<1>1. PICK m \in 0..n : s \in [1..m -> S]
  BY DEF SeqsUpTo
<1> QED BY <1>1

(* In every behaviour, for every set of characters and templates of any      *)
(* length: the script that parser/rivetParser.c makes prints the text of the *)
(* template, runs its code and prints the values it asks for, in this order, *)
(* unless the template is odd; and no text breaks out of its string.         *)
THEOREM TemplatesAreFaithful == Spec => []TemplateFaithful
<1>1. Init => TemplateFaithful
  BY DEF Init, NoCall, TemplateFaithful
<1>2. TemplateFaithful /\ [Next]_call => TemplateFaithful'
  <2> SUFFICES ASSUME TemplateFaithful, [Next]_call PROVE TemplateFaithful'
    OBVIOUS
  <2>1. CASE CallParse
    <3>1. PICK t \in SeqsUpTo(Chars, MaxTemplate) : call' = [cmd |-> "parse", arg |-> t, result |-> Translate(t)]
      BY <2>1 DEF CallParse, Called
    <3>2. t \in Seq(Chars)
      BY SeqsAreSeqs, TextAssumption
    <3>3. ~Reading(Translate(t)).bad /\ (~Odd(t) => Reading(Translate(t)).out = Meaning(t))
      BY <3>2, TranslationRead
    <3>4. call'.cmd = "parse" /\ call'.arg = t /\ call'.result = Translate(t)
      BY <3>1
    <3> QED BY <3>3, <3>4 DEF TemplateFaithful
  <2>2. CASE CallLremove
    BY <2>2 DEF CallLremove, Called, TemplateFaithful
  <2>3. CASE CallLassign
    BY <2>3 DEF CallLassign, Called, TemplateFaithful
  <2>4. CASE CallJoin
    BY <2>4 DEF CallJoin, Called, TemplateFaithful
  <2>5. CASE CallSplit
    BY <2>5 DEF CallSplit, Called, TemplateFaithful
  <2>6. CASE CallEscape
    BY <2>6 DEF CallEscape, Called, TemplateFaithful
  <2>7. CASE CallUnescape
    BY <2>7 DEF CallUnescape, Called, TemplateFaithful
  <2>8. CASE CallParms
    BY <2>8 DEF CallParms, Called, TemplateFaithful
  <2>9. CASE CallQuote
    BY <2>9 DEF CallQuote, Called, TemplateFaithful
  <2>10. CASE Return
    BY <2>10 DEF Return, NoCall, TemplateFaithful
  <2>11. CASE UNCHANGED call
    BY <2>11 DEF TemplateFaithful
  <2> QED BY <2>1, <2>2, <2>3, <2>4, <2>5, <2>6, <2>7, <2>8, <2>9, <2>10, <2>11 DEF Next
<1> QED BY <1>1, <1>2, PTL DEF Spec
-----------------------------------------------------------------------------
(* lremove.                                                                  *)

LremoveState == [done : BOOLEAN, out : Seq(Items)]
LremoveStart == [done |-> FALSE, out |-> <<>>]
(* An element that lremove takes out in state t.                             *)
Drops(t, x, patterns) == ~t.done /\ Matches(x, patterns)

(* An element that is not dropped is kept.                                   *)
LEMMA LremoveKeeps ==
    ASSUME NEW t \in LremoveState, NEW x \in Items, NEW all, NEW patterns, ~Drops(t, x, patterns),
           NEW r, r = LremoveStep(all, patterns, t, x)
    PROVE  r \in LremoveState /\ (r.done <=> t.done) /\ r.out = Append(t.out, x)
<1>1. t = [done |-> t.done, out |-> t.out] /\ t.out \in Seq(Items) /\ t.done \in BOOLEAN
  BY DEF LremoveState
<1>2. r = [t EXCEPT !.out = Append(@, x)]
  BY DEF LremoveStep, Drops
<1>3. Append(t.out, x) \in Seq(Items)
  BY <1>1, AppendProperties
<1>4. r \in LremoveState
  BY <1>2, <1>3 DEF LremoveState
<1>5. (r.done <=> t.done) /\ r.out = Append(t.out, x)
  BY <1>1, <1>2
<1> QED BY <1>4, <1>5

(* One that is dropped ends the removing, unless all are removed.            *)
LEMMA LremoveDrops ==
    ASSUME NEW t \in LremoveState, NEW x, NEW all \in BOOLEAN, NEW patterns, Drops(t, x, patterns),
           NEW r, r = LremoveStep(all, patterns, t, x)
    PROVE  r \in LremoveState /\ (r.done <=> ~all) /\ r.out = t.out
<1>1. t = [done |-> t.done, out |-> t.out]
  BY DEF LremoveState
<1>2. PICK b \in BOOLEAN : b = ~all
  OBVIOUS
<1>3. r = [t EXCEPT !.done = b]
  BY <1>2 DEF LremoveStep, Drops
<1>4. r \in LremoveState
  BY <1>3 DEF LremoveState
<1>5. (r.done <=> b) /\ r.out = t.out
  BY <1>1, <1>3
<1> QED BY <1>2, <1>4, <1>5

(* A step of lremove, of any state.                                          *)
LEMMA LremoveTypedAt ==
    ASSUME NEW list \in Seq(Items), NEW all \in BOOLEAN, NEW patterns, NEW t \in LremoveState, NEW i \in 1..Len(list)
    PROVE  LremoveStep(all, patterns, t, list[i]) \in LremoveState
<1>1. list[i] \in Items
  BY ElementOfSeq
<1> QED BY <1>1, LremoveKeeps, LremoveDrops

(* lremove's way through a list, element by element.                         *)
LremoveWalk(g, list, all, patterns) ==
    /\ g \in [0..Len(list) -> LremoveState] /\ g[0] = LremoveStart
    /\ \A k \in 1..Len(list) : g[k] = LremoveStep(all, patterns, g[k - 1], list[k])

(* The fold of Lremove is such a walk.                                       *)
LEMMA LremoveSteps ==
    ASSUME NEW list \in Seq(Items), NEW all \in BOOLEAN, NEW patterns
    PROVE  \E g : LremoveWalk(g, list, all, patterns) /\ Lremove(list, all, patterns) = g[Len(list)].out
<1> DEFINE n == Len(list)
           seq == list
           V == LremoveState
           start == LremoveStart
           G == [p \in V \X (1..n) |-> LremoveStep(all, patterns, p[1], list[p[2]])]
           Eq(u) == u = [s \in SUBSET (DOMAIN seq) |->
                      IF s = {} THEN start ELSE LremoveStep(all, patterns, u[s \ {Max(s)}], list[Max(s)])]
<1>1. n \in Nat /\ DOMAIN seq = 1..n
  OBVIOUS
<1>2. start \in V
  BY DEF LremoveState, LremoveStart
<1>3. \A t \in V, i \in 1..n : LremoveStep(all, patterns, t, list[i]) \in V
  BY LremoveTypedAt
<1>4. /\ G \in [V \X (1..n) -> V]
      /\ \A t \in V, i \in 1..n : G[<<t, i>>] = LremoveStep(all, patterns, t, list[i])
  <2> HIDE DEF V, n
  <2> QED BY <1>3
<1>5. ASSUME NEW u, NEW s \in SUBSET (1..n), s # {}, u[s \ {Max(s)}] \in V
      PROVE  /\ Max(s) \in 1..n
             /\ G[<<u[s \ {Max(s)}], Max(s)>>] = LremoveStep(all, patterns, u[s \ {Max(s)}], list[Max(s)])
  <2> HIDE DEF V, n, G, seq
  <2>1. Max(s) \in 1..n
    BY <1>1, <1>5, MaxIn
  <2> QED BY <2>1, <1>1, <1>4, <1>5
<1>6. \E f : Eq(f)
  <2> HIDE DEF G, n, V, start, seq
  <2>1. PICK f \in [SUBSET (1..n) -> V] : Iterates(f, n, start, G)
    BY <1>1, <1>2, <1>4, IterationExists
  <2>2. ASSUME NEW s \in SUBSET (1..n), s # {}
        PROVE  f[s] = LremoveStep(all, patterns, f[s \ {Max(s)}], list[Max(s)])
    BY <2>1, <2>2, <1>5 DEF Iterates
  <2>3. f[{}] = start /\ f = [s \in SUBSET (1..n) |-> f[s]]
    BY <2>1 DEF Iterates
  <2>4. Eq(f)
    BY <2>2, <2>3, <1>1
  <2> HIDE DEF Eq
  <2> QED BY <2>4
<1>7. PICK w : Eq(w) /\ Lremove(list, all, patterns) = w[1..n].out
  <2>1. Lremove(list, all, patterns) = (CHOOSE u : Eq(u))[DOMAIN seq].out
    BY DEF Lremove, LremoveStart, FoldLeft, MapThenFoldSet
  <2> HIDE DEF Eq, n, seq, V, start
  <2> QED BY <1>1, <1>6, <2>1
<1>8. FoldEquations(w, n, V, start, G)
  <2>1. ASSUME NEW s \in SUBSET (1..n)
        PROVE  w[s] = IF s = {} THEN start ELSE LremoveStep(all, patterns, w[s \ {Max(s)}], list[Max(s)])
    <3> HIDE DEF n, V, start, G, seq
    <3> QED BY <1>1, <1>7
  <2> HIDE DEF n, V, start, G, seq, Eq
  <2> QED BY <2>1, <1>5 DEF FoldEquations
<1>9. FoldWalks(w, n, V, start, G)
  <2> HIDE DEF n, V, start, G, seq, Eq
  <2> QED BY <1>1, <1>2, <1>4, <1>8, FoldSteps
<1>10. PICK g : Walks(g, n, V, start, G) /\ g[n] = w[1..n]
  BY <1>9 DEF FoldWalks
<1>11. ASSUME NEW k \in 1..n PROVE g[k] = LremoveStep(all, patterns, g[k - 1], list[k])
  <2>1. k - 1 \in 0..n
    BY <1>1
  <2> HIDE DEF n, V, start, G, seq, Eq
  <2> QED BY <1>4, <1>10, <2>1 DEF Walks
<1>12. LremoveWalk(g, list, all, patterns)
  <2> HIDE DEF G, Eq, seq
  <2> QED BY <1>10, <1>11 DEF LremoveWalk, Walks
<1> HIDE DEF n, V, start, G, seq, Eq
<1> QED BY <1>7, <1>10, <1>12 DEF n

(* A step of the walk, under names of its own.                               *)
LEMMA LremoveMove ==
    ASSUME NEW list \in Seq(Items), NEW all \in BOOLEAN, NEW patterns, NEW g, LremoveWalk(g, list, all, patterns),
           NEW i \in 1..Len(list)
    PROVE  g[i] = LremoveStep(all, patterns, g[i - 1], list[i]) /\ g[i - 1] \in LremoveState /\ list[i] \in Items
<1>1. list[i] \in Items
  BY ElementOfSeq
<1>2. i - 1 \in 0..Len(list)
  BY LenProperties
<1> QED BY <1>1, <1>2 DEF LremoveWalk

(* The positions of the elements that a pattern matches.                     *)
HitsOf(list, patterns) == {i \in DOMAIN list : \E j \in DOMAIN patterns : list[i] \in patterns[j]}

(* The elements a pattern matches are those of HitsOf.                       *)
LEMMA HitIs ==
    ASSUME NEW list \in Seq(Items), NEW patterns, NEW i \in 1..Len(list)
    PROVE  i \in HitsOf(list, patterns) <=> Matches(list[i], patterns)
<1>1. DOMAIN list = 1..Len(list)
  BY LenProperties
<1> QED BY <1>1 DEF HitsOf, Matches

(* What is left of a list without the elements at the positions hits.        *)
LeftOf(list, hits) == [i \in DOMAIN list |-> IF i \in hits THEN <<>> ELSE <<list[i]>>]

(* What lremove leaves of each element.                                      *)
LEMMA LeftTyped ==
    ASSUME NEW list \in Seq(Items), NEW hits
    PROVE  /\ LeftOf(list, hits) \in Seq(Seq(Items)) /\ Len(LeftOf(list, hits)) = Len(list)
           /\ \A i \in 1..Len(list) : LeftOf(list, hits)[i] = IF i \in hits THEN <<>> ELSE <<list[i]>>
<1>1. PICK n \in Nat : n = Len(list) /\ DOMAIN list = 1..n
  BY LenProperties
<1>2. ASSUME NEW i \in 1..n PROVE (IF i \in hits THEN <<>> ELSE <<list[i]>>) \in Seq(Items)
  <2>1. list[i] \in Items
    BY <1>1, ElementOfSeq
  <2> QED BY <2>1
<1>3. LeftOf(list, hits) \in [1..n -> Seq(Items)]
  BY <1>1, <1>2 DEF LeftOf
<1>4. LeftOf(list, hits) \in Seq(Seq(Items)) /\ Len(LeftOf(list, hits)) = n
  <2> HIDE DEF LeftOf
  <2> QED BY <1>3, LenProperties
<1>5. \A i \in 1..n : LeftOf(list, hits)[i] = IF i \in hits THEN <<>> ELSE <<list[i]>>
  BY <1>1 DEF LeftOf
<1> QED BY <1>1, <1>4, <1>5

(* With -all lremove leaves the elements no pattern matches.                 *)
LEMMA LremoveAll ==
    ASSUME NEW list \in Seq(Items), NEW patterns
    PROVE  Lremove(list, TRUE, patterns) = FlattenSeq(LeftOf(list, HitsOf(list, patterns)))
<1>1. PICK all \in BOOLEAN : all = TRUE
  OBVIOUS
<1>2. PICK g : LremoveWalk(g, list, all, patterns) /\ Lremove(list, all, patterns) = g[Len(list)].out
  BY LremoveSteps
<1>3. PICK n \in Nat : n = Len(list)
  BY LenProperties
<1>4. PICK hits : hits = HitsOf(list, patterns)
  OBVIOUS
<1>5. PICK ss \in Seq(Seq(Items)) : ss = LeftOf(list, hits) /\ Len(ss) = n
        /\ \A i \in 1..n : ss[i] = IF i \in hits THEN <<>> ELSE <<list[i]>>
  BY <1>3, LeftTyped
<1>6. PICK w : Flattens(w, ss, Items) /\ FlattenSeq(ss) = w[n]
  BY <1>5, FlattenSteps
<1>7. w \in [0..n -> Seq(Items)] /\ w[0] = <<>> /\ \A i \in 1..n : w[i] = w[i - 1] \o ss[i]
  BY <1>5, <1>6 DEF Flattens
<1> DEFINE T == {k \in 0..n : ~g[k].done /\ g[k].out = w[k]}
<1>8. 0 \in T
  <2>1. g[0] = LremoveStart
    BY <1>2 DEF LremoveWalk
  <2>2. ~LremoveStart.done /\ LremoveStart.out = <<>>
    BY DEF LremoveStart
  <2> QED BY <2>1, <2>2, <1>7
<1>9. ASSUME NEW k \in 0..n, k \in T, k < n PROVE k + 1 \in T
  <2>1. PICK j \in 1..n : j = k + 1 /\ j - 1 = k /\ j \in 0..n
    BY <1>9
  <2>2. PICK t, x : t = g[k] /\ x = list[j]
    OBVIOUS
  <2>3. g[j] = LremoveStep(all, patterns, t, x) /\ t \in LremoveState /\ x \in Items
    BY <1>2, <1>3, <2>1, <2>2, LremoveMove
  <2>4. ~t.done /\ t.out = w[k] /\ w[j] = w[k] \o ss[j] /\ w[k] \in Seq(Items)
    BY <1>7, <1>9, <2>1, <2>2
  <2>5. j \in hits <=> Matches(x, patterns)
    BY <1>3, <1>4, <2>2, HitIs
  <2>6. CASE j \in hits
    <3>1. Drops(t, x, patterns)
      BY <2>4, <2>5, <2>6 DEF Drops
    <3>2. (g[j].done <=> ~all) /\ g[j].out = t.out
      BY <2>3, <3>1, LremoveDrops
    <3>3. ss[j] = <<>>
      BY <1>5, <2>6
    <3>4. w[k] \o <<>> = w[k]
      BY <2>4, ConcatEmptySeq
    <3> QED BY <1>1, <2>1, <2>4, <3>2, <3>3, <3>4
  <2>7. CASE j \notin hits
    <3>1. ~Drops(t, x, patterns)
      BY <2>5, <2>7 DEF Drops
    <3>2. (g[j].done <=> t.done) /\ g[j].out = Append(t.out, x)
      BY <2>3, <3>1, LremoveKeeps
    <3>3. ss[j] = <<x>>
      BY <1>5, <2>2, <2>7
    <3>4. w[k] \o <<x>> = Append(w[k], x)
      BY <2>3, <2>4, AppendIsConcat
    <3> QED BY <2>1, <2>4, <3>2, <3>3, <3>4
  <2> QED BY <2>6, <2>7
<1>10. n \in T
  <2> HIDE DEF T
  <2>1. \A k \in 0..n : k \in T
    BY <1>8, <1>9, Induction
  <2>2. n \in 0..n
    OBVIOUS
  <2> QED BY <2>1, <2>2
<1> QED BY <1>1, <1>2, <1>3, <1>4, <1>5, <1>6, <1>10

(* A stretch of a sequence, one element longer.                              *)
LEMMA StretchGrows ==
    ASSUME NEW S, NEW s \in Seq(S), NEW m \in 1..Len(s), NEW k \in m..Len(s), NEW j, j = k - 1
    PROVE  SubSeq(s, m, k) = Append(SubSeq(s, m, j), s[k]) /\ SubSeq(s, m, j) \in Seq(S)
<1>1. PICK n \in Nat : n = Len(s)
  BY LenProperties
<1>2. j \in Int /\ \A i \in m..j : s[i] \in S
  BY <1>1, ElementOfSeq
<1>3. PICK a \in Seq(S) : a = SubSeq(s, m, j)
  <2>1. m \in Int
    BY <1>1
  <2>2. SubSeq(s, m, j) \in Seq(S)
    BY <1>2, <2>1, SubSeqProperties
  <2> QED BY <2>2
<1>4. SubSeq(s, m, k) = a \o <<s[k]>>
  BY <1>3, SubSeqRecursiveSecond
<1>5. s[k] \in S
  BY <1>1, ElementOfSeq
<1>6. a \o <<s[k]>> = Append(a, s[k])
  BY <1>5, AppendIsConcat
<1> QED BY <1>3, <1>4, <1>6

(* Where lremove without -all is after k elements: h is the first it drops.  *)
BeforeHit(g, list, k) == ~g[k].done /\ g[k].out = SubSeq(list, 1, k)
BehindHit(g, list, k, h) ==
    g[k].done /\ \E m \in Nat : m = h - 1 /\ g[k].out = SubSeq(list, 1, m) \o SubSeq(list, h + 1, k)

(* Before the first hit nothing has been removed,                            *)
LEMMA LremoveNone ==
    ASSUME NEW list \in Seq(Items), NEW patterns, NEW all \in BOOLEAN, ~all, NEW g, LremoveWalk(g, list, all, patterns),
           NEW m \in 0..Len(list), \A i \in 1..m : i \notin HitsOf(list, patterns)
    PROVE  BeforeHit(g, list, m)
<1>1. PICK n \in Nat : n = Len(list)
  BY LenProperties
<1> DEFINE T == {k \in 0..m : BeforeHit(g, list, k)}
<1>2. m \in Nat /\ m <= n
  BY <1>1
<1>3. 0 \in T
  <2>1. g[0] = LremoveStart
    BY DEF LremoveWalk
  <2>2. ~LremoveStart.done /\ LremoveStart.out = <<>>
    BY DEF LremoveStart
  <2>3. SubSeq(list, 1, 0) = <<>>
    BY SubSeqEmpty
  <2>4. 0 \in 0..m
    BY <1>2
  <2> QED BY <2>1, <2>2, <2>3, <2>4 DEF BeforeHit
<1>4. ASSUME NEW k \in 0..m, k \in T, k < m PROVE k + 1 \in T
  <2>1. PICK j \in 1..n : j = k + 1 /\ j - 1 = k /\ j \in 0..m /\ j \in 1..m
    BY <1>2, <1>4
  <2>2. PICK t, x : t = g[k] /\ x = list[j]
    OBVIOUS
  <2>3. g[j] = LremoveStep(all, patterns, t, x) /\ t \in LremoveState /\ x \in Items
    BY <1>1, <2>1, <2>2, LremoveMove
  <2>4. ~t.done /\ t.out = SubSeq(list, 1, k)
    BY <1>4, <2>2 DEF BeforeHit
  <2>5. ~Matches(x, patterns)
    BY <1>1, <2>1, <2>2, HitIs
  <2>6. (g[j].done <=> t.done) /\ g[j].out = Append(t.out, x)
    BY <2>3, <2>5, LremoveKeeps DEF Drops
  <2>7. SubSeq(list, 1, j) = Append(SubSeq(list, 1, k), x)
    BY <1>1, <2>1, <2>2, PrefixGrows
  <2> QED BY <2>1, <2>4, <2>6, <2>7 DEF BeforeHit
<1>5. m \in T
  <2> HIDE DEF T
  <2>1. \A k \in 0..m : k \in T
    BY <1>2, <1>3, <1>4, Induction
  <2>2. m \in 0..m
    BY <1>2
  <2> QED BY <2>1, <2>2
<1> QED BY <1>5

(* and behind it nothing else is.                                            *)
LEMMA LremoveBehind ==
    ASSUME NEW list \in Seq(Items), NEW patterns, NEW all \in BOOLEAN, ~all, NEW g, LremoveWalk(g, list, all, patterns),
           NEW h \in HitsOf(list, patterns), \A i \in HitsOf(list, patterns) : h <= i
    PROVE  BehindHit(g, list, Len(list), h)
<1>1. PICK n \in Nat : n = Len(list) /\ h \in 1..n
  BY LenProperties DEF HitsOf
<1>2. PICK m \in Nat : m = h - 1 /\ m \in 0..n /\ h \in 1..n
  BY <1>1
<1>3. BeforeHit(g, list, m)
  <2>1. \A i \in 1..m : i \notin HitsOf(list, patterns)
    BY <1>1, <1>2
  <2> QED BY <1>1, <1>2, <2>1, LremoveNone
<1>4. PICK a \in Seq(Items) : a = SubSeq(list, 1, m)
  <2>1. \A i \in 1..m : list[i] \in Items
    BY <1>1, <1>2, ElementOfSeq
  <2>2. SubSeq(list, 1, m) \in Seq(Items)
    BY <1>2, <2>1, SubSeqProperties
  <2> QED BY <2>2
<1>5. BehindHit(g, list, h, h)
  <2>1. PICK t, x : t = g[m] /\ x = list[h]
    OBVIOUS
  <2>2. g[h] = LremoveStep(all, patterns, t, x) /\ t \in LremoveState
    BY <1>1, <1>2, <2>1, LremoveMove
  <2>3. ~t.done /\ t.out = a
    BY <1>3, <1>4, <2>1 DEF BeforeHit
  <2>4. Matches(x, patterns)
    BY <1>1, <2>1, HitIs
  <2>5. g[h].done /\ g[h].out = a
    BY <2>2, <2>3, <2>4, LremoveDrops DEF Drops
  <2>6. SubSeq(list, h + 1, h) = <<>>
    BY <1>1, SubSeqEmpty
  <2>7. a \o <<>> = a
    BY ConcatEmptySeq
  <2> QED BY <1>2, <1>4, <2>5, <2>6, <2>7 DEF BehindHit
<1> DEFINE T == {k \in 0..n : k >= h => BehindHit(g, list, k, h)}
<1>6. 0 \in T
  BY <1>1
<1>7. ASSUME NEW k \in 0..n, k \in T, k < n PROVE k + 1 \in T
  <2>1. PICK j \in 1..n : j = k + 1 /\ j - 1 = k /\ j \in 0..n
    BY <1>7
  <2>2. CASE j < h
    BY <1>1, <2>1, <2>2
  <2>3. CASE j = h
    BY <1>5, <2>1, <2>3
  <2>4. CASE j > h
    <3>1. k >= h
      BY <1>1, <2>1, <2>4
    <3>2. PICK t, x : t = g[k] /\ x = list[j]
      OBVIOUS
    <3>3. g[j] = LremoveStep(all, patterns, t, x) /\ t \in LremoveState /\ x \in Items
      BY <1>1, <2>1, <3>2, LremoveMove
    <3>4. PICK p \in Nat : p = h + 1 /\ p \in 1..n /\ j \in p..n
      BY <1>1, <2>1, <2>4
    <3>5. PICK b \in Seq(Items) : b = SubSeq(list, p, k) /\ SubSeq(list, p, j) = Append(b, x)
      <4>1. p \in 1..Len(list) /\ j \in p..Len(list) /\ k = j - 1
        BY <1>1, <2>1, <3>4
      <4>2. SubSeq(list, p, j) = Append(SubSeq(list, p, k), list[j]) /\ SubSeq(list, p, k) \in Seq(Items)
        BY <4>1, StretchGrows
      <4> QED BY <3>2, <4>2
    <3>6. t.done /\ t.out = a \o b
      BY <1>2, <1>4, <1>7, <3>1, <3>2, <3>4, <3>5 DEF BehindHit
    <3>7. g[j].done /\ g[j].out = Append(t.out, x)
      <4>1. ~Drops(t, x, patterns)
        BY <3>6 DEF Drops
      <4>2. (g[j].done <=> t.done) /\ g[j].out = Append(t.out, x)
        BY <3>3, <4>1, LremoveKeeps
      <4> QED BY <3>6, <4>2
    <3>8. Append(a \o b, x) = a \o Append(b, x)
      <4>1. a \o b \in Seq(Items) /\ <<x>> \in Seq(Items)
        BY <3>3, ConcatProperties
      <4>2. Append(a \o b, x) = (a \o b) \o <<x>> /\ Append(b, x) = b \o <<x>>
        BY <3>3, <4>1, AppendIsConcat
      <4>3. (a \o b) \o <<x>> = a \o (b \o <<x>>)
        BY <4>1, ConcatAssociative
      <4> QED BY <4>2, <4>3
    <3>9. BehindHit(g, list, j, h)
      BY <1>2, <1>4, <3>4, <3>5, <3>6, <3>7, <3>8 DEF BehindHit
    <3> QED BY <2>1, <3>9
  <2> QED BY <1>1, <2>2, <2>3, <2>4
<1>8. n \in T
  <2> HIDE DEF T
  <2>1. \A k \in 0..n : k \in T
    BY <1>6, <1>7, Induction
  <2>2. n \in 0..n
    OBVIOUS
  <2> QED BY <2>1, <2>2
<1> QED BY <1>1, <1>8

(* Without -all lremove removes the first hit.                               *)
LEMMA LremoveFirst ==
    ASSUME NEW list \in Seq(Items), NEW patterns, NEW hits, hits = HitsOf(list, patterns)
    PROVE  Lremove(list, FALSE, patterns) = IF hits = {} THEN list ELSE RemoveAt(list, Min(hits))
<1>1. PICK n \in Nat : n = Len(list) /\ DOMAIN list = 1..n
  BY LenProperties
<1>0. PICK all \in BOOLEAN : all = FALSE /\ ~all
  OBVIOUS
<1>2. PICK g : LremoveWalk(g, list, all, patterns) /\ Lremove(list, FALSE, patterns) = g[n].out
  BY <1>0, <1>1, LremoveSteps
<1>3. CASE hits = {}
  <2>1. BeforeHit(g, list, n)
    <3>1. n \in 0..n /\ \A i \in 1..n : i \notin HitsOf(list, patterns)
      BY <1>3
    <3> QED BY <1>0, <1>1, <1>2, <3>1, LremoveNone
  <2>2. SubSeq(list, 1, n) = list
    BY <1>1, PrefixEnd
  <2> QED BY <1>2, <1>3, <2>1, <2>2 DEF BeforeHit
<1>4. CASE hits # {}
  <2>1. hits \subseteq Nat
    BY <1>1 DEF HitsOf
  <2>2. PICK h \in hits : \A i \in hits : h <= i
    BY <1>4, <2>1, LeastNat
  <2>3. Min(hits) = h
    BY <2>1, <2>2, MinIs
  <2>4. BehindHit(g, list, n, h)
    BY <1>0, <1>1, <1>2, <2>2, LremoveBehind
  <2>5. g[n].out = SubSeq(list, 1, h - 1) \o SubSeq(list, h + 1, n)
    BY <2>4 DEF BehindHit
  <2> QED BY <1>1, <1>2, <1>4, <2>3, <2>5 DEF RemoveAt
<1> QED BY <1>3, <1>4
-----------------------------------------------------------------------------
(* lassign_array.                                                            *)

(* What lassign_array has given away: the elements of the names, in the      *)
(* order of the names, and the rest.                                         *)
Given(names, assigned) == [i \in DOMAIN names |-> assigned.array[names[i]]] \o assigned.rest
ElementAt(list, i) == IF i <= Len(list) THEN list[i] ELSE Empty

(* A name that occurs once is given the element at its place.                *)
LEMMA AssignedAt ==
    ASSUME NEW list \in Seq(Items), NEW names \in Seq(Items), IsInjective(names), NEW i \in 1..Len(names)
    PROVE  LassignArray(list, names).array[names[i]] = ElementAt(list, i)
<1>1. PICK n \in Nat : n = Len(names) /\ DOMAIN names = 1..n
  BY LenProperties
<1>2. PICK x : x = names[i] /\ x \in {names[j] : j \in DOMAIN names}
  BY <1>1
<1> DEFINE LastOf(j, y) == names[j] = y /\ \A k \in (j + 1)..Len(names) : names[k] # y
<1>3. \A j \in 1..n : names[j] = x => j = i
  BY <1>1, <1>2 DEF IsInjective
<1>4. LastOf(i, x)
  <2>1. ASSUME NEW k \in (i + 1)..n PROVE names[k] # x
    <3>1. k \in 1..n /\ k # i
      BY <1>1
    <3> QED BY <3>1, <1>3
  <2> QED BY <1>1, <1>2, <2>1
<1>5. (CHOOSE j \in DOMAIN names : LastOf(j, x)) = i
  <2>1. i \in DOMAIN names /\ \A j \in DOMAIN names : LastOf(j, x) => j = i
    BY <1>1, <1>3
  <2> HIDE DEF LastOf
  <2> QED BY <2>1, <1>4
<1>6. LassignArray(list, names).array =
        [y \in {names[j] : j \in DOMAIN names} |->
            LET last == CHOOSE j \in DOMAIN names : LastOf(j, y)
            IN  IF last <= Len(list) THEN list[last] ELSE Empty]
  BY DEF LassignArray
<1>7. LassignArray(list, names).array[x] =
        IF (CHOOSE j \in DOMAIN names : LastOf(j, x)) <= Len(list)
        THEN list[CHOOSE j \in DOMAIN names : LastOf(j, x)] ELSE Empty
  <2> HIDE DEF LastOf
  <2> QED BY <1>2, <1>6
<1> HIDE DEF LastOf
<1> QED BY <1>2, <1>5, <1>7 DEF ElementAt

(* No element is lost: the names and the rest have them, in order.           *)
LEMMA GivenIs ==
    ASSUME NEW list \in Seq(Items), NEW names \in Seq(Items), IsInjective(names), NEW given,
           given = Given(names, LassignArray(list, names))
    PROVE  /\ given = [i \in DOMAIN given |-> IF i <= Len(list) THEN list[i] ELSE Empty]
           /\ Len(given) >= Len(list)
<1>1. PICK n \in Nat : n = Len(names) /\ DOMAIN names = 1..n
  BY LenProperties
<1>2. PICK l \in Nat : l = Len(list)
  BY LenProperties
<1>3. PICK S : S = Items \cup {Empty}
  OBVIOUS
<1>4. PICK a : a = [i \in DOMAIN names |-> LassignArray(list, names).array[names[i]]]
  OBVIOUS
<1>5. \A i \in 1..n : a[i] = ElementAt(list, i)
  BY <1>1, <1>4, AssignedAt
<1>6. a \in Seq(S) /\ Len(a) = n
  <2>1. ASSUME NEW i \in 1..n PROVE ElementAt(list, i) \in S
    <3>1. CASE i <= l
      <4>1. list[i] \in Items
        BY <1>2, <3>1, ElementOfSeq
      <4> QED BY <1>2, <1>3, <3>1, <4>1 DEF ElementAt
    <3>2. CASE ~(i <= l)
      BY <1>2, <1>3, <3>2 DEF ElementAt
    <3> QED BY <3>1, <3>2
  <2>2. a = [i \in 1..n |-> a[i]]
    BY <1>1, <1>4
  <2>3. a \in [1..n -> S]
    BY <1>5, <2>1, <2>2
  <2> QED BY <2>3, LenProperties
<1>7. PICK m \in Nat : m = n + 1
  OBVIOUS
<1>8. PICK rest : rest = LassignArray(list, names).rest /\ rest = SubSeq(list, m, l)
  BY <1>1, <1>2, <1>7 DEF LassignArray
<1>9. ASSUME NEW i \in m..l PROVE list[i] \in S
  <2>1. i \in 1..Len(list)
    BY <1>2, <1>7
  <2> QED BY <2>1, <1>3, ElementOfSeq
<1>10. rest \in Seq(S) /\ Len(rest) = (IF m <= l THEN l - m + 1 ELSE 0)
       /\ \A i \in 1..(l - m + 1) : rest[i] = list[m + i - 1]
  <2>1. m \in Int /\ l \in Int
    OBVIOUS
  <2> QED BY <2>1, <1>8, <1>9, SubSeqProperties
<1>11. PICK r \in Nat : r = Len(rest) /\ r = IF m <= l THEN l - n ELSE 0
  <2>1. l - m + 1 = l - n
    BY <1>7
  <2>2. Len(rest) \in Nat
    BY <1>10, LenProperties
  <2> QED BY <2>1, <2>2, <1>10
<1>12. given = a \o rest
  BY <1>4, <1>8 DEF Given
<1>13. given \in Seq(S) /\ Len(given) = n + r /\ \A i \in 1..(n + r) : given[i] = IF i <= n THEN a[i] ELSE rest[i - n]
  <2>1. a \in Seq(S) /\ rest \in Seq(S) /\ Len(a) = n /\ Len(rest) = r
    BY <1>6, <1>10, <1>11
  <2>4. a \in Seq(S) /\ rest \in Seq(S)
    BY <2>1
  <2>2. given \in Seq(S) /\ Len(given) = Len(a) + Len(rest)
    <3>1. a \o rest \in Seq(S)
      BY <2>4, ConcatProperties
    <3>2. Len(a \o rest) = Len(a) + Len(rest)
      BY <2>4, ConcatProperties
    <3> QED BY <1>12, <3>1, <3>2
  <2>3. \A i \in 1..(Len(a) + Len(rest)) : given[i] = IF i <= Len(a) THEN a[i] ELSE rest[i - Len(a)]
    BY <2>4, <1>12, ConcatProperties
  <2> QED BY <2>1, <2>2, <2>3
<1>14. ASSUME NEW i \in 1..(n + r) PROVE given[i] = ElementAt(list, i)
  <2>1. CASE i <= n
    <3>1. i \in 1..n
      BY <2>1
    <3> QED BY <3>1, <2>1, <1>5, <1>13
  <2>2. CASE ~(i <= n)
    <3>1. m <= l /\ i <= l /\ i - n \in 1..(l - m + 1) /\ m + (i - n) - 1 = i
      BY <2>2, <1>7, <1>11
    <3>2. rest[i - n] = list[i]
      <4>1. PICK j \in 1..(l - m + 1) : j = i - n /\ m + j - 1 = i
        BY <3>1
      <4> QED BY <4>1, <1>10
    <3> QED BY <2>2, <3>1, <3>2, <1>2, <1>13 DEF ElementAt
  <2> QED BY <2>1, <2>2
<1>15. n + r >= l
  BY <1>7, <1>11
<1>16. DOMAIN given = 1..(n + r) /\ given = [i \in DOMAIN given |-> given[i]]
  BY <1>13, LenProperties
<1>17. given = [i \in DOMAIN given |-> ElementAt(list, i)]
  BY <1>14, <1>16
<1> QED BY <1>2, <1>13, <1>15, <1>17 DEF ElementAt
-----------------------------------------------------------------------------
(* comma_split.                                                              *)

SplitState(S) == [fields : Seq(Seq(S)), field : Seq(S), mode : {"start", "quoted", "plain"}, skip : BOOLEAN]

(* The states of comma_split: at a character it looks at, or passes over.    *)
SplitIs(s, fs, f, mode) ==
    /\ s = [fields |-> s.fields, field |-> s.field, mode |-> s.mode, skip |-> s.skip]
    /\ s.fields = fs /\ s.field = f /\ s.mode = mode /\ s.skip \in BOOLEAN
SplitNow(s, fs, f, mode) == SplitIs(s, fs, f, mode) /\ ~s.skip
SplitPast(s, fs, f, mode) == SplitIs(s, fs, f, mode) /\ s.skip

(* The character that is passed over: taken in a quoted field only.          *)
LEMMA SplitAfterSkip ==
    ASSUME NEW line, NEW i, NEW fs, NEW f, NEW mode, NEW s, SplitPast(s, fs, f, mode),
           NEW new, new = IF mode = "quoted" THEN Append(f, line[i]) ELSE f, NEW r, r = SplitStep(line, s, i)
    PROVE  SplitNow(r, fs, new, mode)
<1>1. s = [fields |-> s.fields, field |-> s.field, mode |-> s.mode, skip |-> s.skip]
  BY DEF SplitIs, SplitPast
<1>2. s.skip /\ s.mode = mode /\ s.field = f /\ s.fields = fs
  BY DEF SplitIs, SplitPast
<1>3. CASE mode = "quoted"
  <2>1. r = [s EXCEPT !.field = Append(@, line[i]), !.skip = FALSE]
    BY <1>2, <1>3 DEF SplitStep
  <2>2. r = [s EXCEPT !.field = new, !.skip = FALSE]
    BY <2>1, <1>2, <1>3
  <2> QED BY <2>2, <1>1, <1>2 DEF SplitNow, SplitIs
<1>4. CASE mode # "quoted"
  <2>1. r = [s EXCEPT !.skip = FALSE]
    BY <1>2, <1>4 DEF SplitStep
  <2> QED BY <2>1, <1>1, <1>2, <1>4 DEF SplitNow, SplitIs
<1> QED BY <1>3, <1>4

(* A quote at the begin of a field opens it.                                 *)
LEMMA SplitOpens ==
    ASSUME NEW line, NEW i, NEW fs, NEW f, NEW s, SplitNow(s, fs, f, "start"), line[i] = Quote,
           NEW r, r = SplitStep(line, s, i)
    PROVE  SplitNow(r, fs, f, "quoted")
<1>1. s = [fields |-> s.fields, field |-> s.field, mode |-> s.mode, skip |-> s.skip]
  BY DEF SplitIs, SplitNow
<1>2. ~s.skip /\ s.mode = "start" /\ s.field = f /\ s.fields = fs /\ s.skip \in BOOLEAN
  BY DEF SplitIs, SplitNow
<1>3. r = [s EXCEPT !.mode = "quoted"]
  BY <1>2 DEF SplitStep
<1> QED BY <1>1, <1>2, <1>3 DEF SplitNow, SplitIs

(* A character of a quoted field.                                            *)
LEMMA SplitTakes ==
    ASSUME NEW line, NEW i, NEW fs, NEW f, NEW s, SplitNow(s, fs, f, "quoted"), NEW c, c = line[i],
           NEW next, next = IF i < Len(line) THEN line[i + 1] ELSE "end",
           c # Quote \/ next \notin {Quote, Comma}, NEW r, r = SplitStep(line, s, i)
    PROVE  SplitNow(r, fs, Append(f, c), "quoted")
<1>1. s = [fields |-> s.fields, field |-> s.field, mode |-> s.mode, skip |-> s.skip]
  BY DEF SplitIs, SplitNow
<1>2. ~s.skip /\ s.mode = "quoted" /\ s.field = f /\ s.fields = fs
  BY DEF SplitIs, SplitNow
<1>3. r = [s EXCEPT !.field = Append(@, c), !.skip = FALSE]
  BY <1>2 DEF SplitStep
<1> QED BY <1>1, <1>2, <1>3 DEF SplitNow, SplitIs

(* A quote before a quote is taken, and the other one passed over.           *)
LEMMA SplitPair ==
    ASSUME NEW line, NEW i, NEW fs, NEW f, NEW s, SplitNow(s, fs, f, "quoted"), line[i] = Quote,
           i < Len(line), line[i + 1] = Quote, NEW r, r = SplitStep(line, s, i)
    PROVE  SplitPast(r, fs, Append(f, Quote), "quoted")
<1>1. s = [fields |-> s.fields, field |-> s.field, mode |-> s.mode, skip |-> s.skip]
  BY DEF SplitIs, SplitNow
<1>2. ~s.skip /\ s.mode = "quoted" /\ s.field = f /\ s.fields = fs
  BY DEF SplitIs, SplitNow
<1>3. PICK take : take = [s EXCEPT !.field = Append(@, Quote), !.skip = FALSE]
  OBVIOUS
<1>6. Quote # Comma
  BY DEF Quote, Comma
<1>4. r = [take EXCEPT !.skip = TRUE]
  BY <1>2, <1>3, <1>6 DEF SplitStep
<1>5. take.field = Append(f, Quote) /\ take.fields = fs /\ take.mode = "quoted"
      /\ take = [fields |-> take.fields, field |-> take.field, mode |-> take.mode, skip |-> take.skip]
  BY <1>1, <1>2, <1>3
<1> QED BY <1>4, <1>5 DEF SplitPast, SplitIs

(* A quote before a comma ends the field.                                    *)
LEMMA SplitCloses ==
    ASSUME NEW line, NEW i, NEW fs, NEW f, NEW s, SplitNow(s, fs, f, "quoted"), line[i] = Quote,
           i < Len(line), line[i + 1] = Comma, NEW r, r = SplitStep(line, s, i)
    PROVE  SplitPast(r, Append(fs, f), <<>>, "start")
<1>1. s = [fields |-> s.fields, field |-> s.field, mode |-> s.mode, skip |-> s.skip]
  BY DEF SplitIs, SplitNow
<1>2. ~s.skip /\ s.mode = "quoted" /\ s.field = f /\ s.fields = fs
  BY DEF SplitIs, SplitNow
<1>3. PICK e : e = EndField(s)
  OBVIOUS
<1>4. Quote # Comma
  BY DEF Quote, Comma
<1>5. r = [e EXCEPT !.skip = TRUE]
  BY <1>2, <1>3, <1>4 DEF SplitStep
<1>6. e = [s EXCEPT !.fields = Append(@, f), !.field = <<>>, !.mode = "start"]
  BY <1>2, <1>3 DEF EndField
<1>7. e.field = <<>> /\ e.fields = Append(fs, f) /\ e.mode = "start"
      /\ e = [fields |-> e.fields, field |-> e.field, mode |-> e.mode, skip |-> e.skip]
  BY <1>1, <1>2, <1>6
<1> QED BY <1>5, <1>7 DEF SplitPast, SplitIs

(* A comma outside quotes ends the field.                                    *)
LEMMA SplitComma ==
    ASSUME NEW line, NEW i, NEW fs, NEW f, NEW mode \in {"start", "plain"}, NEW s, SplitNow(s, fs, f, mode),
           line[i] = Comma, NEW r, r = SplitStep(line, s, i)
    PROVE  SplitNow(r, Append(fs, f), <<>>, "start")
<1>1. s = [fields |-> s.fields, field |-> s.field, mode |-> s.mode, skip |-> s.skip]
  BY DEF SplitIs, SplitNow
<1>2. ~s.skip /\ s.mode = mode /\ s.field = f /\ s.fields = fs /\ mode # "quoted" /\ s.skip \in BOOLEAN
  BY DEF SplitIs, SplitNow
<1>3. Quote # Comma
  BY DEF Quote, Comma
<1>4. r = EndField(s)
  BY <1>2, <1>3 DEF SplitStep
<1>5. r = [s EXCEPT !.fields = Append(@, f), !.field = <<>>, !.mode = "start"]
  BY <1>2, <1>4 DEF EndField
<1> QED BY <1>1, <1>2, <1>5 DEF SplitNow, SplitIs

(* Any other character outside quotes is taken.                              *)
LEMMA SplitPlain ==
    ASSUME NEW line, NEW i, NEW fs, NEW f, NEW mode \in {"start", "plain"}, NEW s, SplitNow(s, fs, f, mode),
           NEW c, c = line[i], c # Comma, ~(mode = "start" /\ c = Quote), NEW r, r = SplitStep(line, s, i)
    PROVE  SplitNow(r, fs, Append(f, c), "plain")
<1>1. s = [fields |-> s.fields, field |-> s.field, mode |-> s.mode, skip |-> s.skip]
  BY DEF SplitIs, SplitNow
<1>2. ~s.skip /\ s.mode = mode /\ s.field = f /\ s.fields = fs /\ mode # "quoted"
  BY DEF SplitIs, SplitNow
<1>3. PICK take : take = [s EXCEPT !.field = Append(@, c), !.skip = FALSE]
  OBVIOUS
<1>4. r = [take EXCEPT !.mode = "plain"]
  BY <1>2, <1>3 DEF SplitStep
<1>5. take.field = Append(f, c) /\ take.fields = fs /\ ~take.skip /\ take.skip \in BOOLEAN
      /\ take = [fields |-> take.fields, field |-> take.field, mode |-> take.mode, skip |-> take.skip]
  BY <1>1, <1>2, <1>3
<1> QED BY <1>4, <1>5 DEF SplitNow, SplitIs

(* A step of comma_split, of any state.                                      *)
LEMMA SplitTypedAt ==
    ASSUME NEW S, NEW line \in Seq(S), NEW t \in SplitState(S), NEW i \in 1..Len(line)
    PROVE  SplitStep(line, t, i) \in SplitState(S)
<1>1. PICK c \in S : c = line[i]
  BY ElementOfSeq
<1>2. PICK fs \in Seq(Seq(S)), f \in Seq(S), mode \in {"start", "quoted", "plain"} : SplitIs(t, fs, f, mode)
  BY DEF SplitState, SplitIs
<1>3. Append(f, c) \in Seq(S) /\ Append(fs, f) \in Seq(Seq(S)) /\ <<>> \in Seq(S)
  <2>1. Append(f, c) \in Seq(S)
    BY AppendProperties
  <2>2. PICK T : T = Seq(S)
    OBVIOUS
  <2>3. Append(fs, f) \in Seq(T)
    BY <2>2, AppendProperties
  <2> QED BY <2>1, <2>2, <2>3, EmptySeq
<1>4. ASSUME NEW fs2 \in Seq(Seq(S)), NEW f2 \in Seq(S), NEW mode2 \in {"start", "quoted", "plain"}, NEW r,
             SplitIs(r, fs2, f2, mode2)
      PROVE  r \in SplitState(S)
  BY <1>4 DEF SplitIs, SplitState
<1>5. PICK r : r = SplitStep(line, t, i)
  OBVIOUS
<1>6. CASE t.skip
  <2>1. SplitPast(t, fs, f, mode)
    BY <1>2, <1>6 DEF SplitPast
  <2>2. PICK g \in Seq(S) : g = IF mode = "quoted" THEN Append(f, line[i]) ELSE f
    BY <1>1, <1>3
  <2>3. SplitNow(r, fs, g, mode)
    BY <1>5, <2>1, <2>2, SplitAfterSkip
  <2> QED BY <2>3, <1>4, <1>5 DEF SplitNow
<1>7. CASE ~t.skip /\ mode = "quoted"
  <2>1. SplitNow(t, fs, f, "quoted")
    BY <1>2, <1>7 DEF SplitNow
  <2>2. PICK next : next = IF i < Len(line) THEN line[i + 1] ELSE "end"
    OBVIOUS
  <2>6. "end" # Quote /\ "end" # Comma
    BY DEF Quote, Comma
  <2>3. CASE c = Quote /\ next = Quote
    <3>1. i < Len(line) /\ line[i + 1] = Quote /\ line[i] = Quote
      BY <1>1, <2>2, <2>3, <2>6
    <3>2. SplitPast(r, fs, Append(f, Quote), "quoted")
      BY <1>5, <2>1, <3>1, SplitPair
    <3> QED BY <3>2, <2>3, <1>3, <1>4, <1>5 DEF SplitPast
  <2>4. CASE c = Quote /\ next = Comma
    <3>1. i < Len(line) /\ line[i + 1] = Comma /\ line[i] = Quote
      BY <1>1, <2>2, <2>4, <2>6
    <3>2. SplitPast(r, Append(fs, f), <<>>, "start")
      BY <1>5, <2>1, <3>1, SplitCloses
    <3> QED BY <3>2, <1>3, <1>4, <1>5 DEF SplitPast
  <2>5. CASE c # Quote \/ next \notin {Quote, Comma}
    <3>1. SplitNow(r, fs, Append(f, c), "quoted")
      BY <1>1, <1>5, <2>1, <2>2, <2>5, SplitTakes
    <3> QED BY <3>1, <1>3, <1>4, <1>5 DEF SplitNow
  <2> QED BY <2>3, <2>4, <2>5
<1>8. CASE ~t.skip /\ mode = "start" /\ c = Quote
  <2>1. SplitNow(t, fs, f, "start")
    BY <1>2, <1>8 DEF SplitNow
  <2>2. SplitNow(r, fs, f, "quoted")
    BY <1>1, <1>5, <1>8, <2>1, SplitOpens
  <2> QED BY <2>2, <1>4, <1>5 DEF SplitNow
<1>9. CASE ~t.skip /\ mode # "quoted" /\ ~(mode = "start" /\ c = Quote)
  <2>1. SplitNow(t, fs, f, mode) /\ mode \in {"start", "plain"}
    BY <1>2, <1>9 DEF SplitNow
  <2>2. CASE c = Comma
    <3>1. SplitNow(r, Append(fs, f), <<>>, "start")
      BY <1>1, <1>5, <2>1, <2>2, SplitComma
    <3> QED BY <3>1, <1>3, <1>4, <1>5 DEF SplitNow
  <2>3. CASE c # Comma
    <3>1. SplitNow(r, fs, Append(f, c), "plain")
      BY <1>1, <1>5, <1>9, <2>1, <2>3, SplitPlain
    <3> QED BY <3>1, <1>3, <1>4, <1>5 DEF SplitNow
  <2> QED BY <2>2, <2>3
<1> QED BY <1>6, <1>7, <1>8, <1>9

(* comma_split's way through a line, character by character.                 *)
SplitWalk(g, line, S) ==
    /\ g \in [0..Len(line) -> SplitState(S)] /\ g[0] = SplitStart
    /\ \A k \in 1..Len(line) : g[k] = SplitStep(line, g[k - 1], k)

(* The fold of SplitEnd is such a walk.                                      *)
LEMMA SplitSteps ==
    ASSUME NEW S, NEW line \in Seq(S)
    PROVE  \E g : SplitWalk(g, line, S) /\ SplitEnd(line) = g[Len(line)]
<1> DEFINE n == Len(line)
           seq == [i \in 1..Len(line) |-> i]
           V == SplitState(S)
           start == SplitStart
           G == [p \in V \X (1..n) |-> SplitStep(line, p[1], p[2])]
           Eq(u) == u = [s \in SUBSET (DOMAIN seq) |->
                      IF s = {} THEN start ELSE SplitStep(line, u[s \ {Max(s)}], seq[Max(s)])]
<1>1. n \in Nat /\ DOMAIN seq = 1..n /\ \A i \in 1..n : seq[i] = i
  OBVIOUS
<1>2. start \in V
  BY EmptySeq DEF SplitState, SplitStart
<1>3. \A t \in V, i \in 1..n : SplitStep(line, t, i) \in V
  BY SplitTypedAt
<1>4. /\ G \in [V \X (1..n) -> V]
      /\ \A t \in V, i \in 1..n : G[<<t, i>>] = SplitStep(line, t, i)
  <2> HIDE DEF V, n
  <2> QED BY <1>3
<1>5. ASSUME NEW u, NEW s \in SUBSET (1..n), s # {}, u[s \ {Max(s)}] \in V
      PROVE  /\ Max(s) \in 1..n /\ seq[Max(s)] = Max(s)
             /\ G[<<u[s \ {Max(s)}], Max(s)>>] = SplitStep(line, u[s \ {Max(s)}], seq[Max(s)])
  <2> HIDE DEF V, n, G, seq
  <2>1. Max(s) \in 1..n
    BY <1>1, <1>5, MaxIn
  <2> QED BY <2>1, <1>1, <1>4, <1>5
<1>6. \E f : Eq(f)
  <2> HIDE DEF G, n, V, start, seq
  <2>1. PICK f \in [SUBSET (1..n) -> V] : Iterates(f, n, start, G)
    BY <1>1, <1>2, <1>4, IterationExists
  <2>2. ASSUME NEW s \in SUBSET (1..n), s # {}
        PROVE  f[s] = SplitStep(line, f[s \ {Max(s)}], seq[Max(s)])
    BY <2>1, <2>2, <1>5 DEF Iterates
  <2>3. f[{}] = start /\ f = [s \in SUBSET (1..n) |-> f[s]]
    BY <2>1 DEF Iterates
  <2>4. Eq(f)
    BY <2>2, <2>3, <1>1
  <2> HIDE DEF Eq
  <2> QED BY <2>4
<1>7. PICK w : Eq(w) /\ SplitEnd(line) = w[1..n]
  <2>1. SplitEnd(line) = (CHOOSE u : Eq(u))[DOMAIN seq]
    BY DEF SplitEnd, FoldLeft, MapThenFoldSet
  <2> HIDE DEF Eq, n, seq, V, start
  <2> QED BY <1>1, <1>6, <2>1
<1>8. FoldEquations(w, n, V, start, G)
  <2>1. ASSUME NEW s \in SUBSET (1..n)
        PROVE  w[s] = IF s = {} THEN start ELSE SplitStep(line, w[s \ {Max(s)}], seq[Max(s)])
    <3> HIDE DEF n, V, start, G, seq
    <3> QED BY <1>1, <1>7
  <2> HIDE DEF n, V, start, G, seq, Eq
  <2> QED BY <2>1, <1>5 DEF FoldEquations
<1>9. FoldWalks(w, n, V, start, G)
  <2> HIDE DEF n, V, start, G, seq, Eq
  <2> QED BY <1>1, <1>2, <1>4, <1>8, FoldSteps
<1>10. PICK g : Walks(g, n, V, start, G) /\ g[n] = w[1..n]
  BY <1>9 DEF FoldWalks
<1>11. ASSUME NEW k \in 1..n PROVE g[k] = SplitStep(line, g[k - 1], k)
  <2>1. k - 1 \in 0..n
    BY <1>1
  <2> HIDE DEF n, V, start, G, seq, Eq
  <2> QED BY <1>4, <1>10, <2>1 DEF Walks
<1>12. SplitWalk(g, line, S)
  <2> HIDE DEF G, Eq, seq
  <2> QED BY <1>10, <1>11 DEF SplitWalk, Walks
<1> HIDE DEF n, V, start, G, seq, Eq
<1> QED BY <1>7, <1>10, <1>12 DEF n
-----------------------------------------------------------------------------
(* Lines of plain fields.                                                    *)

(* A step of the walk.                                                       *)
LEMMA SplitMove ==
    ASSUME NEW S, NEW line \in Seq(S), NEW g, SplitWalk(g, line, S), NEW i \in 1..Len(line)
    PROVE  g[i] = SplitStep(line, g[i - 1], i)
BY DEF SplitWalk

(* What comma_split returns, of the state at the end of the line.            *)
LEMMA SplitResult ==
    ASSUME NEW line, line # <<>>, NEW s, SplitEnd(line) = s,
           NEW mode \in {"start", "plain"}, NEW fs, NEW f, SplitNow(s, fs, f, mode)
    PROVE  CommaSplit(line) = Append(fs, f)
<1>1. s = SplitEnd(line) /\ SplitNow(s, fs, f, mode)
  OBVIOUS
<1>2. s.mode # "quoted" /\ s.fields = fs /\ s.field = f
      /\ s = [fields |-> s.fields, field |-> s.field, mode |-> s.mode, skip |-> s.skip]
  BY <1>1 DEF SplitNow, SplitIs
<1>3. CommaSplit(line) = EndField(s).fields
  BY <1>1, <1>2 DEF CommaSplit
<1>4. EndField(s) = [s EXCEPT !.fields = Append(@, f), !.field = <<>>, !.mode = "start"]
  BY <1>2 DEF EndField
<1> QED BY <1>2, <1>3, <1>4

(* A field without quotes and commas, and one that is read to here.          *)
PlainField(w) == \A i \in 1..Len(w) : w[i] \notin {Quote, Comma}
FieldAt(g, p, fs, f) == \E mode \in {"start", "plain"} : SplitNow(g[p], fs, f, mode)

(* A plain field is read as it is.                                           *)
LEMMA FieldRead ==
    ASSUME NEW S, NEW line \in Seq(S), NEW g, SplitWalk(g, line, S), NEW w \in Seq(S), NEW p \in Nat,
           LiesAt(line, w, p), PlainField(w), NEW fs, SplitNow(g[p], fs, <<>>, "start"), NEW q, q = p + Len(w)
    PROVE  FieldAt(g, q, fs, w)
<1>1. PICK n \in Nat, l \in Nat : n = Len(w) /\ l = Len(line)
  BY LenProperties
<1>2. p + n <= l /\ \A i \in 1..n : line[p + i] = w[i]
  BY <1>1 DEF LiesAt
<1> DEFINE T == {j \in 0..n : \E mode \in {"start", "plain"} : SplitNow(g[p + j], fs, SubSeq(w, 1, j), mode)}
<1>3. 0 \in T
  <2>1. p + 0 = p /\ 0 \in 0..n
    OBVIOUS
  <2>2. SubSeq(w, 1, 0) = <<>>
    BY PrefixStart
  <2> QED BY <2>1, <2>2
<1>4. ASSUME NEW k \in 0..n, k \in T, k < n PROVE k + 1 \in T
  <2>1. PICK j \in 1..n : j = k + 1 /\ j - 1 = k /\ j \in 0..n
    BY <1>4
  <2>2. PICK i \in 1..l : i = p + j /\ i - 1 = p + k
    BY <1>2, <2>1
  <2>3. PICK mode \in {"start", "plain"} : SplitNow(g[p + k], fs, SubSeq(w, 1, k), mode)
    BY <1>4
  <2>4. PICK s, r, f, c : s = g[i - 1] /\ r = g[i] /\ f = SubSeq(w, 1, k) /\ c = w[j]
    OBVIOUS
  <2>5. SplitNow(s, fs, f, mode)
    BY <2>2, <2>3, <2>4
  <2>6. r = SplitStep(line, s, i)
    BY <1>1, <2>4, SplitMove
  <2>7. c = line[i] /\ c \notin {Quote, Comma}
    BY <1>1, <1>2, <2>1, <2>2, <2>4 DEF PlainField
  <2>8. SplitNow(r, fs, Append(f, c), "plain")
    <3>1. c # Comma /\ ~(mode = "start" /\ c = Quote)
      BY <2>7
    <3> QED BY <2>5, <2>6, <2>7, <3>1, SplitPlain
  <2>9. SubSeq(w, 1, j) = Append(f, c)
    BY <1>1, <2>1, <2>4, PrefixGrows
  <2>10. SplitNow(g[p + j], fs, SubSeq(w, 1, j), "plain")
    BY <2>2, <2>4, <2>8, <2>9
  <2> QED BY <2>1, <2>10
<1>5. n \in T
  <2> HIDE DEF T
  <2>1. \A k \in 0..n : k \in T
    BY <1>3, <1>4, Induction
  <2>2. n \in 0..n
    OBVIOUS
  <2> QED BY <2>1, <2>2
<1>6. SubSeq(w, 1, n) = w
  BY <1>1, PrefixEnd
<1> QED BY <1>1, <1>5, <1>6 DEF FieldAt

(* A line of fields, with commas between them.                               *)
Lined(list) == [i \in DOMAIN list |-> IF i < Len(list) THEN Append(list[i], Comma) ELSE list[i]]

(* The fields of a line with the commas behind them.                         *)
LEMMA LinedTyped ==
    ASSUME NEW S, NEW list \in Seq(Seq(S)), Comma \in S
    PROVE  /\ Lined(list) \in Seq(Seq(S)) /\ Len(Lined(list)) = Len(list)
           /\ \A i \in 1..Len(list) : Lined(list)[i] = IF i < Len(list) THEN Append(list[i], Comma) ELSE list[i]
<1>1. PICK n \in Nat : n = Len(list) /\ DOMAIN list = 1..n
  BY LenProperties
<1>2. ASSUME NEW i \in 1..n PROVE (IF i < n THEN Append(list[i], Comma) ELSE list[i]) \in Seq(S)
  <2>1. PICK f \in Seq(S) : f = list[i]
    BY <1>1, ElementOfSeq
  <2>2. Append(f, Comma) \in Seq(S)
    BY AppendProperties
  <2> QED BY <2>1, <2>2
<1>3. Lined(list) \in [1..n -> Seq(S)]
  BY <1>1, <1>2 DEF Lined
<1>4. Lined(list) \in Seq(Seq(S)) /\ Len(Lined(list)) = n
  <2> HIDE DEF Lined
  <2> QED BY <1>3, LenProperties
<1>5. \A i \in 1..n : Lined(list)[i] = IF i < n THEN Append(list[i], Comma) ELSE list[i]
  BY <1>1 DEF Lined
<1> QED BY <1>1, <1>4, <1>5

(* comma_split of a line of plain fields: the fields, by induction over them. *)
LEMMA LineSplit ==
    ASSUME NEW S, NEW list \in Seq(Seq(S)), list # <<>>, Comma \in S, \A i \in 1..Len(list) : PlainField(list[i])
    PROVE  CommaSplit(FlattenSeq(Lined(list))) = IF list = <<(<<>>)>> THEN <<>> ELSE list
<1>1. PICK n \in Nat : n = Len(list) /\ n >= 1
  <2>1. Len(list) \in Nat /\ Len(list) # 0
    BY LenProperties, EmptySeq
  <2> QED BY <2>1
<1>2. PICK ss \in Seq(Seq(S)) : ss = Lined(list) /\ Len(ss) = n
        /\ \A i \in 1..n : ss[i] = IF i < n THEN Append(list[i], Comma) ELSE list[i]
  BY <1>1, LinedTyped
<1>3. PICK e, line : Flattens(e, ss, S) /\ line = FlattenSeq(ss) /\ line = e[n]
  BY <1>2, FlattenSteps
<1>4. e \in [0..n -> Seq(S)] /\ e[0] = <<>> /\ \A i \in 1..n : e[i] = e[i - 1] \o ss[i]
  BY <1>2, <1>3 DEF Flattens
<1>5. line \in Seq(S)
  <2>1. n \in 0..n
    OBVIOUS
  <2> QED BY <2>1, <1>3, <1>4
<1>6. PICK l \in Nat : l = Len(line)
  BY <1>5, LenProperties
<1>7. PICK g : SplitWalk(g, line, S) /\ SplitEnd(line) = g[l]
  BY <1>5, <1>6, SplitSteps
<1>8. ASSUME NEW j \in 1..n, NEW k, k = j - 1
      PROVE  \E q \in Nat : q = Len(e[k]) /\ Len(e[j]) = q + Len(ss[j]) /\ LiesAt(line, ss[j], q)
  <2>1. Behind(e, ss, j)
    BY <1>2, <1>3, FlattenBehind
  <2> QED BY <2>1, <1>2, <1>3, <1>8 DEF Behind
<1> DEFINE At(k) == SplitNow(g[Len(e[k])], SubSeq(list, 1, k), <<>>, "start")
           T == {k \in 0..n : k < n => At(k)}
<1>9. At(0)
  <2>1. Len(e[0]) = 0
    BY <1>4, EmptySeq
  <2>2. SubSeq(list, 1, 0) = <<>>
    BY PrefixStart
  <2>3. g[0] = SplitStart
    BY <1>7 DEF SplitWalk
  <2>4. SplitNow(SplitStart, <<>>, <<>>, "start")
    BY DEF SplitStart, SplitNow, SplitIs
  <2> QED BY <2>1, <2>2, <2>3, <2>4
<1>10. ASSUME NEW j \in 1..n, NEW k \in 0..n, k = j - 1, At(k), NEW q \in Nat, q = Len(e[k]),
              LiesAt(line, ss[j], q), NEW f \in Seq(S), f = list[j], NEW fs, fs = SubSeq(list, 1, k),
              NEW p, p = q + Len(f)
       PROVE  FieldAt(g, p, fs, f)
  <2>4. PICK m \in Nat : m = Len(f)
    BY LenProperties
  <2>5. LiesAt(line, f, q)
    <3>1. CASE j < n
      <4>1. ss[j] = Append(f, Comma)
        BY <1>2, <1>10, <3>1
      <4>2. PICK c \in Seq(S) : c = ss[j]
        BY <1>2, ElementOfSeq
      <4>3. Len(c) = m + 1 /\ \A i \in 1..m : c[i] = f[i]
        BY <2>4, <4>1, <4>2, AppendProperties
      <4>4. LiesAt(c, f, 0)
        <5>1. 0 + m <= m + 1 /\ \A i \in 1..m : 0 + i = i
          OBVIOUS
        <5> QED BY <2>4, <4>3, <5>1 DEF LiesAt
      <4>6. LiesAt(line, c, q)
        BY <1>10, <4>2
      <4>5. LiesAt(line, f, q + 0)
        BY <1>5, <4>4, <4>6, PieceOfPiece
      <4> QED BY <4>5
    <3>2. CASE ~(j < n)
      BY <1>2, <1>10, <3>2
    <3> QED BY <3>1, <3>2
  <2>6. PlainField(f)
    BY <1>1, <1>10
  <2>7. SplitNow(g[q], fs, <<>>, "start")
    BY <1>10
  <2> HIDE DEF At, T
  <2> QED BY <1>5, <1>7, <1>10, <2>5, <2>6, <2>7, FieldRead
<1>11. ASSUME NEW k \in 0..n, At(k), NEW j \in 1..n, j = k + 1, j < n PROVE At(j)
  <2>1. k = j - 1
    BY <1>11
  <2>2. PICK q \in Nat : q = Len(e[k]) /\ Len(e[j]) = q + Len(ss[j]) /\ LiesAt(line, ss[j], q)
    BY <1>8, <2>1
  <2>3. PICK f \in Seq(S) : f = list[j]
    BY <1>1, ElementOfSeq
  <2>4. PICK m \in Nat : m = Len(f)
    BY LenProperties
  <2>5. PICK c : c = ss[j] /\ c = Append(f, Comma)
    BY <1>2, <1>11, <2>3
  <2>6. Len(c) = m + 1 /\ c[m + 1] = Comma
    BY <2>4, <2>5, AppendProperties
  <2>7. q + (m + 1) <= l /\ line[q + (m + 1)] = Comma
    <3>1. m + 1 \in 1..Len(c) /\ LiesAt(line, c, q)
      BY <2>2, <2>5, <2>6
    <3> QED BY <3>1, <1>6, <2>6 DEF LiesAt
  <2>8. PICK p \in Nat : p = q + m
    OBVIOUS
  <2>9. PICK i \in 1..l : i = q + (m + 1) /\ i - 1 = p
    BY <2>7, <2>8
  <2>10. PICK fs : fs = SubSeq(list, 1, k)
    OBVIOUS
  <2>11. FieldAt(g, p, fs, f)
    BY <1>10, <1>11, <2>1, <2>2, <2>3, <2>4, <2>8, <2>10
  <2>12. PICK mode \in {"start", "plain"} : SplitNow(g[p], fs, f, mode)
    BY <2>11 DEF FieldAt
  <2>13. PICK s, r : s = g[p] /\ r = g[i]
    OBVIOUS
  <2>14. SplitNow(s, fs, f, mode) /\ line[i] = Comma
    BY <2>7, <2>9, <2>12, <2>13
  <2>15. r = SplitStep(line, s, i)
    <3>1. g[i] = SplitStep(line, g[i - 1], i)
      BY <1>5, <1>6, <1>7, SplitMove
    <3> QED BY <3>1, <2>9, <2>13
  <2>16. SplitNow(r, Append(fs, f), <<>>, "start")
    BY <2>14, <2>15, SplitComma
  <2>17. SubSeq(list, 1, j) = Append(fs, f)
    BY <1>1, <2>1, <2>3, <2>10, PrefixGrows
  <2>18. Len(e[j]) = i
    BY <2>2, <2>5, <2>6, <2>9
  <2> QED BY <2>13, <2>16, <2>17, <2>18
<1>12. PICK k \in 0..n : k = n - 1 /\ n = k + 1 /\ k < n
  <2> HIDE DEF At, T
  <2>1. n - 1 \in 0..n /\ n = (n - 1) + 1 /\ n - 1 < n
    BY <1>1
  <2> QED BY <2>1
<1>13. At(k)
  <2> HIDE DEF At
  <2>1. 0 \in T
    BY <1>9
  <2>2. ASSUME NEW i \in 0..n, i \in T, i < n PROVE i + 1 \in T
    <3>1. i + 1 \in 1..n /\ i + 1 \in 0..n
      BY <2>2
    <3>2. At(i)
      BY <2>2
    <3>3. i + 1 < n => At(i + 1)
      BY <1>11, <3>1, <3>2
    <3> QED BY <3>1, <3>3
  <2>3. \A i \in 0..n : i \in T
    <3> HIDE DEF T
    <3> QED BY <2>1, <2>2, Induction
  <2> QED BY <2>3, <1>12
<1>14. n \in 1..n
  BY <1>1
<1>15. PICK f \in Seq(S) : f = list[n]
  BY <1>1, <1>14, ElementOfSeq
<1>23. PICK fs : fs = SubSeq(list, 1, k)
  OBVIOUS
<1>16. PICK q \in Nat : q = Len(e[k]) /\ Len(e[n]) = q + Len(ss[n]) /\ LiesAt(line, ss[n], q)
  BY <1>8, <1>12, <1>14
<1>17. l = q + Len(f)
  <2> HIDE DEF At, T
  <2>1. ss[n] = f
    BY <1>2, <1>14, <1>15
  <2>2. Len(e[n]) = l
    BY <1>3, <1>6
  <2> QED BY <2>1, <2>2, <1>16
<1>18. FieldAt(g, l, fs, f)
  BY <1>10, <1>12, <1>13, <1>14, <1>15, <1>16, <1>17, <1>23
<1>19. PICK mode \in {"start", "plain"} : SplitNow(g[l], fs, f, mode)
  BY <1>18 DEF FieldAt
<1>20. Append(fs, f) = list
  <2>1. SubSeq(list, 1, n) = Append(fs, f)
    BY <1>1, <1>12, <1>14, <1>15, <1>23, PrefixGrows
  <2> QED BY <2>1, <1>1, PrefixEnd
<1>21. CASE line # <<>>
  <2> HIDE DEF At, T
  <2>1. CommaSplit(line) = list
    <3>1. PICK s : SplitEnd(line) = s /\ SplitNow(s, fs, f, mode)
      BY <1>7, <1>19
    <3>2. CommaSplit(line) = Append(fs, f)
      BY <1>21, <3>1, SplitResult
    <3> QED BY <3>2, <1>20
  <2>2. list # <<(<<>>)>>
    <3>1. SUFFICES ASSUME list = <<(<<>>)>> PROVE FALSE
      OBVIOUS
    <3>2. n = 1 /\ k = 0 /\ f = <<>>
      BY <3>1, <1>1, <1>12, <1>15
    <3>3. q = 0 /\ Len(f) = 0
      BY <3>2, <1>4, <1>16, EmptySeq
    <3>4. l = 0
      BY <3>3, <1>17
    <3> QED BY <3>4, <1>5, <1>6, <1>21, EmptySeq
  <2> QED BY <1>2, <1>3, <2>1, <2>2
<1>22. CASE line = <<>>
  <2>1. CommaSplit(line) = <<>>
    BY <1>22 DEF CommaSplit
  <2>2. l = 0 /\ g[l] = SplitStart
    BY <1>6, <1>7, <1>22, EmptySeq DEF SplitWalk
  <2>3. fs = <<>> /\ f = <<>>
    BY <1>19, <2>2 DEF SplitNow, SplitIs, SplitStart
  <2>4. list = <<(<<>>)>>
    BY <1>20, <2>3
  <2> QED BY <1>2, <1>3, <2>1, <2>4
<1> QED BY <1>21, <1>22
-----------------------------------------------------------------------------
(* comma_join, and a quoted field read.                                      *)

(* What a field is joined as: each quote doubled.                            *)
DoublesOf(f) == [i \in DOMAIN f |-> IF f[i] = Quote THEN <<Quote, Quote>> ELSE <<f[i]>>]

(* What the characters of a field become.                                    *)
LEMMA DoublesTyped ==
    ASSUME NEW S, Quote \in S, NEW f \in Seq(S)
    PROVE  /\ DoublesOf(f) \in Seq(Seq(S)) /\ Len(DoublesOf(f)) = Len(f)
           /\ \A i \in 1..Len(f) : DoublesOf(f)[i] = IF f[i] = Quote THEN <<Quote, Quote>> ELSE <<f[i]>>
<1>1. PICK n \in Nat : n = Len(f) /\ DOMAIN f = 1..n
  BY LenProperties
<1>2. ASSUME NEW i \in 1..n PROVE (IF f[i] = Quote THEN <<Quote, Quote>> ELSE <<f[i]>>) \in Seq(S)
  <2>1. PICK x \in S : x = f[i]
    BY <1>1, ElementOfSeq
  <2>2. <<Quote, Quote>> \in Seq(S) /\ <<x>> \in Seq(S)
    OBVIOUS
  <2> QED BY <2>1, <2>2
<1>3. DoublesOf(f) \in [1..n -> Seq(S)]
  BY <1>1, <1>2 DEF DoublesOf
<1>4. DoublesOf(f) \in Seq(Seq(S)) /\ Len(DoublesOf(f)) = n
  <2> HIDE DEF DoublesOf
  <2> QED BY <1>3, LenProperties
<1>5. \A i \in 1..n : DoublesOf(f)[i] = IF f[i] = Quote THEN <<Quote, Quote>> ELSE <<f[i]>>
  BY <1>1 DEF DoublesOf
<1> QED BY <1>1, <1>4, <1>5

(* A field with its quotes doubled is a sequence.                            *)
LEMMA DoubledTyped == ASSUME NEW S, Quote \in S, NEW f \in Seq(S) PROVE Doubled(f) \in Seq(S)
<1>1. PICK ss \in Seq(Seq(S)) : ss = DoublesOf(f)
  BY DoublesTyped
<1>2. FlattenSeq(ss) \in Seq(S)
  BY FlattenIsSeq
<1> QED BY <1>1, <1>2 DEF Doubled, DoublesOf

(* Two elements are appended one by one.                                     *)
LEMMA PairAppended ==
    ASSUME NEW S, NEW b \in Seq(S), NEW x \in S, NEW y \in S
    PROVE  b \o <<x, y>> = Append(Append(b, x), y)
<1>1. PICK a \in Seq(S) : a = <<x>> /\ <<x, y>> = Append(a, y)
  <2>1. <<x>> \in Seq(S)
    OBVIOUS
  <2>2. <<x, y>> = Append(<<x>>, y)
    OBVIOUS
  <2> QED BY <2>1, <2>2
<1>2. PICK c \in Seq(S) : c = <<y>> /\ Append(a, y) = a \o c
  <2>1. <<y>> \in Seq(S)
    OBVIOUS
  <2> QED BY <2>1, AppendIsConcat
<1>3. (b \o a) \o c = b \o (a \o c)
  BY ConcatAssociative
<1>4. PICK f \in Seq(S) : f = Append(b, x) /\ f = b \o a
  <2>1. Append(b, x) \in Seq(S)
    BY AppendProperties
  <2>2. Append(b, x) = b \o a
    BY <1>1, AppendIsConcat
  <2> QED BY <2>1, <2>2
<1>5. Append(f, y) = f \o c
  BY <1>2, AppendIsConcat
<1> QED BY <1>1, <1>2, <1>3, <1>4, <1>5

(* comma_split inside a quoted field that comma_join wrote: it takes the     *)
(* characters as they are, and a doubled quote as two.                       *)
LEMMA DoubledRead ==
    ASSUME NEW S, Quote \in S, NEW line \in Seq(S), NEW g, SplitWalk(g, line, S), NEW f \in Seq(S),
           NEW d, d = Doubled(f), NEW p \in Nat, LiesAt(line, d, p), NEW fs, SplitNow(g[p], fs, <<>>, "quoted"),
           NEW q, q = p + Len(d)
    PROVE  SplitNow(g[q], fs, d, "quoted")
<1>1. PICK n \in Nat, l \in Nat : n = Len(f) /\ l = Len(line)
  BY LenProperties
<1>2. PICK ss \in Seq(Seq(S)) : ss = DoublesOf(f) /\ Len(ss) = n
        /\ \A i \in 1..n : ss[i] = IF f[i] = Quote THEN <<Quote, Quote>> ELSE <<f[i]>>
  BY <1>1, DoublesTyped
<1>3. PICK e : Flattens(e, ss, S) /\ d = e[n]
  <2>1. d = FlattenSeq(ss)
    BY <1>2 DEF Doubled, DoublesOf
  <2> QED BY <1>2, <2>1, FlattenSteps
<1>4. e \in [0..n -> Seq(S)] /\ e[0] = <<>> /\ \A i \in 1..n : e[i] = e[i - 1] \o ss[i]
  BY <1>2, <1>3 DEF Flattens
<1>5. d \in Seq(S)
  BY DoubledTyped
<1> DEFINE At(k) == SplitNow(g[p + Len(e[k])], fs, e[k], "quoted")
           T == {k \in 0..n : At(k)}
<1>6. At(0)
  <2>1. Len(e[0]) = 0 /\ p + 0 = p
    BY <1>4, EmptySeq
  <2> QED BY <2>1, <1>4
<1>7. ASSUME NEW k \in 0..n, At(k), NEW j \in 1..n, j = k + 1 PROVE At(j)
  <2>1. k = j - 1
    BY <1>7
  <2>2. PICK b \in Seq(S) : b = e[k]
    BY <1>4
  <2>3. PICK h \in Nat : h = Len(b)
    BY LenProperties
  <2>4. Len(e[j]) = h + Len(ss[j]) /\ LiesAt(d, ss[j], h)
    <3>1. Behind(e, ss, j)
      BY <1>2, <1>3, FlattenBehind
    <3> QED BY <3>1, <2>1, <2>2, <2>3, <1>2, <1>3 DEF Behind
  <2>5. PICK c \in Seq(S) : c = ss[j] /\ e[j] = b \o c
    BY <1>2, <1>4, <2>1, <2>2, ElementOfSeq
  <2>6. PICK u \in Nat : u = p + h
    OBVIOUS
  <2>7. LiesAt(line, c, u)
    <3>1. LiesAt(d, c, h)
      BY <2>4, <2>5
    <3>2. LiesAt(line, c, p + h)
      BY <1>5, <3>1, PieceOfPiece
    <3> QED BY <3>2, <2>6
  <2>8. PICK x \in S : x = f[j]
    BY <1>1, ElementOfSeq
  <2>9. c = IF x = Quote THEN <<Quote, Quote>> ELSE <<x>>
    BY <1>2, <2>5, <2>8
  <2>10. PICK s : s = g[u] /\ SplitNow(s, fs, b, "quoted")
    BY <1>7, <2>2, <2>3, <2>6
  <2>11. CASE x = Quote
    <3>1. c = <<Quote, Quote>> /\ Len(c) = 2 /\ c[1] = Quote /\ c[2] = Quote
      BY <2>9, <2>11
    <3>2. u + 2 <= l /\ line[u + 1] = Quote /\ line[u + 2] = Quote
      BY <2>7, <3>1, <1>1 DEF LiesAt
    <3>3. PICK i \in 1..l, m \in 1..l : i = u + 1 /\ i - 1 = u /\ m = u + 2 /\ m - 1 = i /\ i + 1 = m /\ i < l
      BY <3>2
    <3>4. PICK r, t : r = g[i] /\ t = g[m]
      OBVIOUS
    <3>5. r = SplitStep(line, s, i) /\ t = SplitStep(line, r, m)
      BY <1>1, <2>10, <3>3, <3>4, SplitMove
    <3>6. line[i] = Quote /\ i < Len(line) /\ line[i + 1] = Quote /\ line[m] = Quote
      BY <1>1, <3>2, <3>3
    <3>7. SplitPast(r, fs, Append(b, Quote), "quoted")
      BY <2>10, <3>5, <3>6, SplitPair
    <3>8. PICK b1, b2 : b1 = Append(b, Quote) /\ b2 = Append(b1, Quote)
      OBVIOUS
    <3>9. b2 = IF "quoted" = "quoted" THEN Append(b1, line[m]) ELSE b1
      BY <3>6, <3>8
    <3>10. SplitPast(r, fs, b1, "quoted")
      BY <3>7, <3>8
    <3>11. SplitNow(t, fs, b2, "quoted")
      BY <3>5, <3>9, <3>10, SplitAfterSkip
    <3>12. e[j] = b2
      BY <2>5, <3>1, <3>8, PairAppended
    <3>13. p + Len(e[j]) = m
      BY <2>4, <2>5, <2>6, <3>1, <3>3
    <3> QED BY <3>4, <3>11, <3>12, <3>13
  <2>12. CASE x # Quote
    <3>1. c = <<x>> /\ Len(c) = 1 /\ c[1] = x
      BY <2>9, <2>12
    <3>2. u + 1 <= l /\ line[u + 1] = x
      BY <2>7, <3>1, <1>1 DEF LiesAt
    <3>3. PICK i \in 1..l : i = u + 1 /\ i - 1 = u /\ x = line[i]
      BY <3>2
    <3>4. PICK r : r = g[i]
      OBVIOUS
    <3>5. r = SplitStep(line, s, i)
      BY <1>1, <2>10, <3>3, <3>4, SplitMove
    <3>6. PICK next : next = IF i < Len(line) THEN line[i + 1] ELSE "end"
      OBVIOUS
    <3>7. SplitNow(r, fs, Append(b, x), "quoted")
      BY <2>10, <2>12, <3>3, <3>5, <3>6, SplitTakes
    <3>8. e[j] = Append(b, x)
      BY <2>5, <3>1, AppendIsConcat
    <3>9. p + Len(e[j]) = i
      BY <2>4, <2>5, <2>6, <3>1, <3>3
    <3> QED BY <3>4, <3>7, <3>8, <3>9
  <2> QED BY <2>11, <2>12
<1>8. At(n)
  <2> HIDE DEF At
  <2>1. 0 \in T
    BY <1>6
  <2>2. ASSUME NEW k \in 0..n, k \in T, k < n PROVE k + 1 \in T
    <3>1. k + 1 \in 1..n /\ k + 1 \in 0..n /\ At(k)
      BY <2>2
    <3>2. At(k + 1)
      BY <1>7, <3>1
    <3> QED BY <3>1, <3>2
  <2>3. \A k \in 0..n : k \in T
    <3> HIDE DEF T
    <3> QED BY <2>1, <2>2, Induction
  <2>4. n \in 0..n
    OBVIOUS
  <2> QED BY <2>3, <2>4
<1> QED BY <1>3, <1>8
-----------------------------------------------------------------------------
(* The joined line read.                                                     *)

(* A field as comma_join writes it, and the fields of a line.                *)
QuotedField(f) == <<Quote>> \o Doubled(f)
JoinOf(list) == [i \in DOMAIN list |-> QuotedField(list[i]) \o (IF i < Len(list) THEN <<Quote, Comma>> ELSE <<>>)]

(* The two parts of a field that comma_join wrote.                           *)
LEMMA QuotedTyped ==
    ASSUME NEW S, Quote \in S, NEW f \in Seq(S)
    PROVE  \E a \in Seq(S), d \in Seq(S) : /\ a = <<Quote>> /\ Len(a) = 1 /\ a[1] = Quote /\ d = Doubled(f)
                                           /\ QuotedField(f) = a \o d
<1>1. <<Quote>> \in Seq(S)
  OBVIOUS
<1>2. PICK a \in Seq(S) : a = <<Quote>>
  BY <1>1
<1>3. PICK d \in Seq(S) : d = Doubled(f)
  BY DoubledTyped
<1>4. Len(a) = 1 /\ a[1] = Quote
  BY <1>2
<1> QED BY <1>2, <1>3, <1>4 DEF QuotedField

(* Behind the quote and the characters of a field comma_split is in it.      *)
LEMMA QuotedRead ==
    ASSUME NEW S, Quote \in S, NEW line \in Seq(S), NEW g, SplitWalk(g, line, S), NEW f \in Seq(S),
           NEW w \in Seq(S), w = QuotedField(f), NEW p \in Nat, LiesAt(line, w, p), NEW fs,
           SplitNow(g[p], fs, <<>>, "start"), NEW q, q = p + Len(w), NEW d, d = Doubled(f)
    PROVE  SplitNow(g[q], fs, d, "quoted")
<1>1. PICK a \in Seq(S), b \in Seq(S) : a = <<Quote>> /\ Len(a) = 1 /\ a[1] = Quote /\ b = d /\ w = a \o b
  <2>1. PICK a \in Seq(S), b \in Seq(S) : /\ a = <<Quote>> /\ Len(a) = 1 /\ a[1] = Quote /\ b = Doubled(f)
                                          /\ QuotedField(f) = a \o b
    BY QuotedTyped
  <2> QED BY <2>1
<1>2. Joined(w, a, b)
  BY <1>1, Concatenated
<1>3. PICK n \in Nat, l \in Nat : n = Len(b) /\ l = Len(line)
  BY LenProperties
<1>4. Len(w) = 1 + n /\ LiesAt(w, a, 0) /\ LiesAt(w, b, 1)
  BY <1>1, <1>2, <1>3 DEF Joined
<1>5. p + (1 + n) <= l /\ line[p + 1] = w[1]
  <2>1. p + (1 + n) <= l /\ 1 \in 1..(1 + n)
    BY <1>3, <1>4 DEF LiesAt
  <2> QED BY <2>1, <1>4 DEF LiesAt
<1>6. w[1] = Quote
  <2>1. 1 \in 1..1 /\ 0 + 1 = 1
    OBVIOUS
  <2>2. w[0 + 1] = a[1]
    BY <1>1, <1>4, <2>1 DEF LiesAt
  <2> QED BY <1>1, <2>1, <2>2
<1>7. PICK i \in 1..l : i = p + 1 /\ i - 1 = p /\ i \in Nat
  BY <1>5
<1>8. PICK s, r : s = g[p] /\ r = g[i]
  OBVIOUS
<1>9. r = SplitStep(line, s, i)
  BY <1>3, <1>7, <1>8, SplitMove
<1>10. SplitNow(r, fs, <<>>, "quoted")
  <2>1. SplitNow(s, fs, <<>>, "start") /\ line[i] = Quote
    BY <1>5, <1>6, <1>7, <1>8
  <2> QED BY <2>1, <1>9, SplitOpens
<1>11. LiesAt(line, b, i)
  <2>1. LiesAt(line, b, p + 1)
    BY <1>4, PieceOfPiece
  <2> QED BY <2>1, <1>7
<1>12. SplitNow(g[i], fs, <<>>, "quoted")
  BY <1>8, <1>10
<1>13. q = i + Len(b)
  BY <1>3, <1>4, <1>7
<1>14. b = Doubled(f)
  BY <1>1
<1>15. SplitNow(g[q], fs, b, "quoted")
  BY <1>7, <1>11, <1>12, <1>13, <1>14, DoubledRead
<1> QED BY <1>15, <1>1

(* A quote and a comma end it.                                               *)
LEMMA QuotedEnds ==
    ASSUME NEW S, NEW line \in Seq(S), NEW g, SplitWalk(g, line, S), NEW p \in Nat, p + 2 <= Len(line),
           line[p + 1] = Quote, line[p + 2] = Comma, NEW fs, NEW d, SplitNow(g[p], fs, d, "quoted"),
           NEW q, q = p + 2
    PROVE  SplitNow(g[q], Append(fs, d), <<>>, "start")
<1>1. PICK l \in Nat : l = Len(line)
  BY LenProperties
<1>2. PICK i \in 1..l, m \in 1..l : i = p + 1 /\ i - 1 = p /\ m = q /\ m - 1 = i /\ i + 1 = m /\ i < l
  BY <1>1
<1>3. PICK s, r, t : s = g[p] /\ r = g[i] /\ t = g[m]
  OBVIOUS
<1>4. r = SplitStep(line, s, i) /\ t = SplitStep(line, r, m)
  BY <1>1, <1>2, <1>3, SplitMove
<1>5. line[i] = Quote /\ i < Len(line) /\ line[i + 1] = Comma /\ line[m] = Comma
  BY <1>1, <1>2
<1>6. SplitNow(s, fs, d, "quoted")
  BY <1>3
<1>7. SplitPast(r, Append(fs, d), <<>>, "start")
  BY <1>4, <1>5, <1>6, SplitCloses
<1>8. PICK new : new = (<<>>)
  OBVIOUS
<1>9. PICK mode : mode = "start"
  OBVIOUS
<1>10. new = IF mode = "quoted" THEN Append(<<>>, line[m]) ELSE (<<>>)
  BY <1>8, <1>9
<1>11. SplitPast(r, Append(fs, d), <<>>, mode)
  BY <1>7, <1>9
<1>12. SplitNow(t, Append(fs, d), new, mode)
  BY <1>4, <1>10, <1>11, SplitAfterSkip
<1> QED BY <1>2, <1>3, <1>8, <1>9, <1>12

(* The pieces of a joined line.                                              *)
LEMMA JoinTyped ==
    ASSUME NEW S, Quote \in S, Comma \in S, NEW list \in Seq(Seq(S))
    PROVE  /\ JoinOf(list) \in Seq(Seq(S)) /\ Len(JoinOf(list)) = Len(list)
           /\ \A i \in 1..Len(list) : JoinOf(list)[i] = QuotedField(list[i]) \o (IF i < Len(list) THEN <<Quote, Comma>> ELSE <<>>)
<1>1. PICK n \in Nat : n = Len(list) /\ DOMAIN list = 1..n
  BY LenProperties
<1>2. ASSUME NEW i \in 1..n PROVE QuotedField(list[i]) \o (IF i < n THEN <<Quote, Comma>> ELSE <<>>) \in Seq(S)
  <2>1. PICK f \in Seq(S) : f = list[i]
    BY <1>1, ElementOfSeq
  <2>2. QuotedField(f) \in Seq(S)
    <3>1. PICK a \in Seq(S), d \in Seq(S) : QuotedField(f) = a \o d
      BY QuotedTyped
    <3> QED BY <3>1, ConcatProperties
  <2>3. <<Quote, Comma>> \in Seq(S) /\ <<>> \in Seq(S)
    <3>1. <<Quote, Comma>> \in Seq(S)
      OBVIOUS
    <3> QED BY <3>1, EmptySeq
  <2>4. PICK b \in Seq(S) : b = IF i < n THEN <<Quote, Comma>> ELSE <<>>
    BY <2>3
  <2>5. QuotedField(f) \o b \in Seq(S)
    BY <2>2, ConcatProperties
  <2> QED BY <2>1, <2>4, <2>5
<1>3. JoinOf(list) \in [1..n -> Seq(S)]
  BY <1>1, <1>2 DEF JoinOf
<1>4. JoinOf(list) \in Seq(Seq(S)) /\ Len(JoinOf(list)) = n
  <2> HIDE DEF JoinOf
  <2> QED BY <1>3, LenProperties
<1>5. \A i \in 1..n : JoinOf(list)[i] = QuotedField(list[i]) \o (IF i < n THEN <<Quote, Comma>> ELSE <<>>)
  BY <1>1 DEF JoinOf
<1> QED BY <1>1, <1>4, <1>5

DoubledOf(list) == [i \in DOMAIN list |-> Doubled(list[i])]

(* The fields of a list with their quotes doubled.                           *)
LEMMA DoubledOfTyped ==
    ASSUME NEW S, Quote \in S, NEW list \in Seq(Seq(S))
    PROVE  /\ DoubledOf(list) \in Seq(Seq(S)) /\ Len(DoubledOf(list)) = Len(list)
           /\ \A i \in 1..Len(list) : DoubledOf(list)[i] = Doubled(list[i])
<1>1. PICK n \in Nat : n = Len(list) /\ DOMAIN list = 1..n
  BY LenProperties
<1>2. ASSUME NEW i \in 1..n PROVE Doubled(list[i]) \in Seq(S)
  <2>1. PICK f \in Seq(S) : f = list[i]
    BY <1>1, ElementOfSeq
  <2>2. Doubled(f) \in Seq(S)
    BY DoubledTyped
  <2> QED BY <2>1, <2>2
<1>3. DoubledOf(list) \in [1..n -> Seq(S)]
  BY <1>1, <1>2 DEF DoubledOf
<1>4. DoubledOf(list) \in Seq(Seq(S)) /\ Len(DoubledOf(list)) = n
  <2> HIDE DEF DoubledOf
  <2> QED BY <1>3, LenProperties
<1>5. \A i \in 1..n : DoubledOf(list)[i] = Doubled(list[i])
  BY <1>1 DEF DoubledOf
<1> QED BY <1>1, <1>4, <1>5

(* A quoted field is a sequence.                                             *)
LEMMA QuotedIsSeq == ASSUME NEW S, Quote \in S, NEW f \in Seq(S) PROVE QuotedField(f) \in Seq(S)
<1>1. PICK a \in Seq(S), d \in Seq(S) : QuotedField(f) = a \o d
  BY QuotedTyped
<1> QED BY <1>1, ConcatProperties

(* The piece of a joined line that is a field and what ends it.              *)
JoinPiece(list, j, c, f, w, b) ==
    /\ f = list[j] /\ w = QuotedField(f) /\ b = (IF j < Len(list) THEN <<Quote, Comma>> ELSE <<>>)
    /\ c = JoinOf(list)[j] /\ c = w \o b

(* Each piece of a joined line is of this form.                              *)
LEMMA JoinPieceIs ==
    ASSUME NEW S, Quote \in S, Comma \in S, NEW list \in Seq(Seq(S)), NEW j \in 1..Len(list)
    PROVE  \E c \in Seq(S), f \in Seq(S), w \in Seq(S), b \in Seq(S) : JoinPiece(list, j, c, f, w, b)
<1>1. PICK n \in Nat : n = Len(list)
  BY LenProperties
<1>2. PICK ss \in Seq(Seq(S)) : ss = JoinOf(list) /\ Len(ss) = n
        /\ \A i \in 1..n : ss[i] = QuotedField(list[i]) \o (IF i < n THEN <<Quote, Comma>> ELSE <<>>)
  BY <1>1, JoinTyped
<1>3. PICK c \in Seq(S) : c = ss[j]
  BY <1>1, <1>2, ElementOfSeq
<1>4. PICK f \in Seq(S) : f = list[j]
  BY ElementOfSeq
<1>5. PICK w \in Seq(S) : w = QuotedField(f)
  BY QuotedIsSeq
<1>6. PICK b \in Seq(S) : b = IF j < n THEN <<Quote, Comma>> ELSE <<>>
  <2>1. <<Quote, Comma>> \in Seq(S)
    OBVIOUS
  <2> QED BY <2>1, EmptySeq
<1>7. c = w \o b
  BY <1>1, <1>2, <1>3, <1>4, <1>5, <1>6
<1>8. JoinPiece(list, j, c, f, w, b)
  BY <1>1, <1>2, <1>3, <1>4, <1>5, <1>6, <1>7 DEF JoinPiece
<1> QED BY <1>8

(* comma_split's way through the fields comma_join wrote.                    *)
LEMMA JoinRead ==
    ASSUME NEW S, Quote \in S, Comma \in S, NEW list \in Seq(Seq(S)), NEW n \in Nat, n = Len(list), n >= 1,
           NEW r \in Seq(S), r = FlattenSeq(JoinOf(list)), NEW line \in Seq(S), LiesAt(line, r, 0),
           NEW g, SplitWalk(g, line, S), NEW k \in 0..n, k = n - 1
    PROVE  SplitNow(g[Len(r)], SubSeq(DoubledOf(list), 1, k), DoubledOf(list)[n], "quoted")
<1>1. PICK dd \in Seq(Seq(S)) : dd = DoubledOf(list) /\ Len(dd) = n /\ \A i \in 1..n : dd[i] = Doubled(list[i])
  BY DoubledOfTyped
<1>2. PICK ss \in Seq(Seq(S)) : ss = JoinOf(list) /\ Len(ss) = n
        /\ \A i \in 1..n : ss[i] = QuotedField(list[i]) \o (IF i < n THEN <<Quote, Comma>> ELSE <<>>)
  BY JoinTyped
<1>3. PICK e : Flattens(e, ss, S) /\ r = e[n]
  BY <1>2, FlattenSteps
<1>4. e \in [0..n -> Seq(S)] /\ e[0] = <<>>
  BY <1>2, <1>3 DEF Flattens
<1>5. PICK l \in Nat : l = Len(line)
  BY LenProperties
<1> DEFINE At(h) == SplitNow(g[Len(e[h])], SubSeq(dd, 1, h), <<>>, "start")
           T == {h \in 0..n : h < n => At(h)}
<1>6. At(0)
  <2>1. Len(e[0]) = 0
    BY <1>4, EmptySeq
  <2>2. SubSeq(dd, 1, 0) = <<>>
    BY PrefixStart
  <2>3. g[0] = SplitStart
    BY DEF SplitWalk
  <2>4. SplitNow(SplitStart, <<>>, <<>>, "start")
    BY DEF SplitStart, SplitNow, SplitIs
  <2> QED BY <2>1, <2>2, <2>3, <2>4
<1>20. ASSUME NEW j \in 1..n, NEW h \in 0..n, h = j - 1
       PROVE  \E q \in Nat : q = Len(e[h]) /\ Len(e[j]) = q + Len(ss[j]) /\ LiesAt(r, ss[j], q)
  <2> HIDE DEF At, T
  <2>1. Behind(e, ss, j)
    BY <1>2, <1>3, FlattenBehind
  <2> QED BY <2>1, <1>2, <1>3, <1>20 DEF Behind
<1>7. ASSUME NEW j \in 1..n, NEW h \in 0..n, h = j - 1, At(h), NEW q \in Nat, q = Len(e[h]),
             NEW c \in Seq(S), NEW f \in Seq(S), NEW w \in Seq(S), NEW b \in Seq(S), JoinPiece(list, j, c, f, w, b),
             LiesAt(r, c, q), NEW m, m = q + Len(w), NEW fs, fs = SubSeq(dd, 1, h), NEW d, d = dd[j]
      PROVE  SplitNow(g[m], fs, d, "quoted")
  <2>3. LiesAt(line, c, q)
    <3>2. LiesAt(line, c, 0 + q)
      BY <1>7, PieceOfPiece
    <3> QED BY <3>2
  <2>9. Joined(c, w, b)
    <3>1. c = w \o b
      BY <1>7 DEF JoinPiece
    <3> QED BY <3>1, Concatenated
  <2>10. LiesAt(line, w, q)
    <3>1. LiesAt(c, w, 0)
      BY <2>9 DEF Joined
    <3>2. LiesAt(line, w, q + 0)
      BY <2>3, <3>1, PieceOfPiece
    <3> QED BY <3>2
  <2>11. d = Doubled(f) /\ w = QuotedField(f)
    BY <1>1, <1>7 DEF JoinPiece
  <2>12. SplitNow(g[q], fs, <<>>, "start")
    BY <1>7
  <2> HIDE DEF At, T
  <2> QED BY <1>7, <2>10, <2>11, <2>12, QuotedRead
<1>8. ASSUME NEW h \in 0..n, At(h), NEW j \in 1..n, j = h + 1, j < n PROVE At(j)
  <2>1. h = j - 1
    BY <1>8
  <2>2. PICK q \in Nat : q = Len(e[h]) /\ Len(e[j]) = q + Len(ss[j]) /\ LiesAt(r, ss[j], q)
    BY <1>20, <2>1
  <2>12. PICK c \in Seq(S), f \in Seq(S), w \in Seq(S), b \in Seq(S) : JoinPiece(list, j, c, f, w, b)
    BY JoinPieceIs
  <2>4. PICK z \in Nat, m \in Nat : z = Len(w) /\ m = q + z
    BY LenProperties
  <2>13. c = ss[j] /\ c = w \o b /\ b = <<Quote, Comma>>
    BY <1>2, <1>8, <2>12 DEF JoinPiece
  <2>14. LiesAt(r, c, q)
    BY <2>2, <2>13
  <2>8. PICK t, fs, d : t = m + 2 /\ fs = SubSeq(dd, 1, h) /\ d = dd[j]
    OBVIOUS
  <2>15. SplitNow(g[m], fs, d, "quoted")
    BY <1>7, <1>8, <2>1, <2>2, <2>12, <2>14, <2>4, <2>8
  <2> HIDE DEF At, T
  <2>3. Len(b) = 2 /\ b[1] = Quote /\ b[2] = Comma
    BY <2>13
  <2>5. Len(c) = z + 2 /\ LiesAt(c, b, z)
    <3>1. Joined(c, w, b)
      BY <2>13, Concatenated
    <3> QED BY <3>1, <2>3, <2>4 DEF Joined
  <2>6. LiesAt(line, b, m)
    <3>1. LiesAt(line, c, 0 + q)
      BY <2>14, PieceOfPiece
    <3>2. LiesAt(line, c, q)
      BY <3>1
    <3>3. LiesAt(line, b, q + z)
      BY <3>2, <2>5, PieceOfPiece
    <3> QED BY <3>3, <2>4
  <2>7. m + 2 <= Len(line) /\ line[m + 1] = Quote /\ line[m + 2] = Comma
    BY <2>3, <2>6 DEF LiesAt
  <2>9. SplitNow(g[t], Append(fs, d), <<>>, "start")
    BY <2>7, <2>8, <2>15, QuotedEnds
  <2>10. SubSeq(dd, 1, j) = Append(fs, d)
    BY <1>1, <2>1, <2>8, PrefixGrows
  <2>11. Len(e[j]) = t
    <3>1. Len(e[j]) = q + (z + 2)
      BY <2>2, <2>5, <2>13
    <3> QED BY <3>1, <2>4, <2>8
  <2> QED BY <2>9, <2>10, <2>11 DEF At
<1>9. At(k)
  <2> HIDE DEF At
  <2>1. 0 \in T
    BY <1>6
  <2>2. ASSUME NEW i \in 0..n, i \in T, i < n PROVE i + 1 \in T
    <3>1. i + 1 \in 1..n /\ i + 1 \in 0..n
      BY <2>2
    <3>2. At(i)
      BY <2>2
    <3>3. i + 1 < n => At(i + 1)
      BY <1>8, <3>1, <3>2
    <3> QED BY <3>1, <3>3
  <2>3. \A i \in 0..n : i \in T
    <3> HIDE DEF T
    <3> QED BY <2>1, <2>2, Induction
  <2>4. k < n
    OBVIOUS
  <2> QED BY <2>3, <2>4
<1>10. n \in 1..n
  OBVIOUS
<1>11. PICK q \in Nat : q = Len(e[k]) /\ Len(e[n]) = q + Len(ss[n]) /\ LiesAt(r, ss[n], q)
  BY <1>10, <1>20
<1>12. PICK c \in Seq(S), f \in Seq(S), w \in Seq(S), b \in Seq(S) : JoinPiece(list, n, c, f, w, b)
  BY <1>10, JoinPieceIs
<1>13. PICK z \in Nat, m \in Nat : z = Len(w) /\ m = q + z
  BY LenProperties
<1>14. c = ss[n] /\ c = w \o b /\ b = <<>>
  BY <1>2, <1>12 DEF JoinPiece
<1>15. c = w
  BY <1>14, ConcatEmptySeq
<1>16. PICK fs, d : fs = SubSeq(dd, 1, k) /\ d = dd[n]
  OBVIOUS
<1>17. LiesAt(r, c, q) /\ m = q + Len(w)
  BY <1>11, <1>13, <1>14
<1>18. SplitNow(g[m], fs, d, "quoted")
  BY <1>7, <1>9, <1>10, <1>11, <1>12, <1>16, <1>17
<1> HIDE DEF At, T
<1>19. Len(r) = m
  BY <1>3, <1>11, <1>13, <1>14, <1>15
<1> QED BY <1>1, <1>16, <1>18, <1>19

(* The line is its pieces and the last quote.                                *)
LEMMA JoinIs ==
    ASSUME NEW list
    PROVE  CommaJoin(list) = FlattenSeq(JoinOf(list)) \o <<Quote>>
BY DEF CommaJoin, JoinOf, QuotedField

(* A line that goes on behind the joined fields.                             *)
LEMMA JoinSplit ==
    ASSUME NEW S, Quote \in S, Comma \in S, NEW x \in S, x \notin {Quote, Comma},
           NEW list \in Seq(Seq(S)), list # <<>>
    PROVE  CommaSplit(CommaJoin(list) \o <<Comma, x>>) = Append(DoubledOf(list), <<x>>)
<1>1. PICK n \in Nat : n = Len(list) /\ n >= 1
  <2>1. Len(list) \in Nat /\ Len(list) # 0
    BY LenProperties, EmptySeq
  <2> QED BY <2>1
<1>2. PICK k \in 0..n : k = n - 1
  <2>1. n - 1 \in 0..n
    BY <1>1
  <2> QED BY <2>1
<1>3. n \in 1..n
  BY <1>1
<1>4. PICK r \in Seq(S) : r = FlattenSeq(JoinOf(list))
  <2>1. PICK ss \in Seq(Seq(S)) : ss = JoinOf(list)
    BY JoinTyped
  <2>2. FlattenSeq(ss) \in Seq(S)
    BY FlattenIsSeq
  <2> QED BY <2>1, <2>2
<1>5. PICK a \in Seq(S) : a = <<Quote>> /\ Len(a) = 1 /\ a[1] = Quote
  <2>1. <<Quote>> \in Seq(S)
    OBVIOUS
  <2>2. PICK a \in Seq(S) : a = <<Quote>>
    BY <2>1
  <2> QED BY <2>2
<1>6. PICK b \in Seq(S) : b = <<Comma, x>> /\ Len(b) = 2 /\ b[1] = Comma /\ b[2] = x
  <2>1. <<Comma, x>> \in Seq(S)
    OBVIOUS
  <2>2. PICK b \in Seq(S) : b = <<Comma, x>>
    BY <2>1
  <2> QED BY <2>2
<1>7. PICK j \in Seq(S) : j = r \o a /\ Joined(j, r, a)
  BY Concatenated
<1>8. PICK line \in Seq(S) : line = j \o b /\ Joined(line, j, b)
  BY Concatenated
<1>9. line = CommaJoin(list) \o <<Comma, x>>
  BY <1>4, <1>5, <1>6, <1>7, <1>8, JoinIs
<1>10. PICK h \in Nat, l \in Nat : h = Len(r) /\ l = Len(line)
  BY LenProperties
<1>11. Len(j) = h + 1 /\ LiesAt(j, r, 0) /\ LiesAt(j, a, h)
  BY <1>5, <1>7, <1>10 DEF Joined
<1>12. l = h + 3 /\ LiesAt(line, j, 0) /\ LiesAt(line, b, h + 1)
  <2>1. l = (h + 1) + 2 /\ LiesAt(line, j, 0) /\ LiesAt(line, b, h + 1)
    BY <1>6, <1>8, <1>10, <1>11 DEF Joined
  <2> QED BY <2>1
<1>13. LiesAt(line, r, 0)
  <2>1. LiesAt(line, r, 0 + 0)
    BY <1>11, <1>12, PieceOfPiece
  <2> QED BY <2>1
<1>14. line[h + 1] = Quote
  <2>1. LiesAt(line, a, 0 + h)
    BY <1>11, <1>12, PieceOfPiece
  <2>2. 1 \in 1..1 /\ (0 + h) + 1 = h + 1
    OBVIOUS
  <2>3. line[(0 + h) + 1] = a[1]
    BY <1>5, <2>1, <2>2 DEF LiesAt
  <2> QED BY <1>5, <2>2, <2>3
<1>15. line[h + 2] = Comma /\ line[h + 3] = x
  <2>1. 1 \in 1..2 /\ 2 \in 1..2 /\ (h + 1) + 1 = h + 2 /\ (h + 1) + 2 = h + 3
    OBVIOUS
  <2>2. line[(h + 1) + 1] = b[1] /\ line[(h + 1) + 2] = b[2]
    BY <1>6, <1>12, <2>1 DEF LiesAt
  <2> QED BY <1>6, <2>1, <2>2
<1>16. PICK g : SplitWalk(g, line, S) /\ SplitEnd(line) = g[l]
  BY <1>10, SplitSteps
<1>17. PICK fs, d : fs = SubSeq(DoubledOf(list), 1, k) /\ d = DoubledOf(list)[n]
  OBVIOUS
<1>18. SplitNow(g[Len(r)], fs, d, "quoted")
  <2>1. n = Len(list) /\ n >= 1 /\ k = n - 1
    BY <1>1, <1>2
  <2>2. SplitNow(g[Len(r)], SubSeq(DoubledOf(list), 1, k), DoubledOf(list)[n], "quoted")
    BY <1>4, <1>13, <1>16, <2>1, JoinRead
  <2> QED BY <1>17, <2>2
<1>19. PICK q \in 0..l : q = h + 2 /\ q = l - 1
  <2>1. h + 2 \in 0..l /\ h + 2 = l - 1
    BY <1>12
  <2> QED BY <2>1
<1>20. SplitNow(g[q], Append(fs, d), <<>>, "start")
  <2>1. h + 2 <= Len(line)
    BY <1>10, <1>12
  <2>2. SplitNow(g[h], fs, d, "quoted")
    BY <1>10, <1>18
  <2> QED BY <1>14, <1>15, <1>16, <1>19, <2>1, <2>2, QuotedEnds
<1>21. Append(fs, d) = DoubledOf(list)
  <2>1. PICK dd \in Seq(Seq(S)) : dd = DoubledOf(list) /\ Len(dd) = n
    BY <1>1, DoubledOfTyped
  <2>2. SubSeq(dd, 1, n) = Append(SubSeq(dd, 1, n - 1), dd[n])
    BY <1>3, <2>1, PrefixGrows
  <2>3. SubSeq(dd, 1, n) = dd
    BY <2>1, PrefixEnd
  <2> QED BY <1>2, <1>17, <2>1, <2>2, <2>3
<1>22. PICK s, t, gs : s = g[q] /\ t = g[l] /\ gs = DoubledOf(list)
  OBVIOUS
<1>23. t = SplitStep(line, s, l)
  <2>1. l \in 1..Len(line)
    BY <1>10, <1>12
  <2>2. g[l] = SplitStep(line, g[l - 1], l)
    BY <1>16, <2>1, SplitMove
  <2> QED BY <2>2, <1>19, <1>22
<1>24. SplitNow(t, gs, Append(<<>>, x), "plain")
  <2>1. SplitNow(s, gs, <<>>, "start") /\ x = line[l] /\ x # Comma /\ x # Quote
    BY <1>12, <1>15, <1>20, <1>21, <1>22
  <2>2. ~("start" = "start" /\ x = Quote)
    BY <2>1
  <2> QED BY <1>23, <2>1, <2>2, SplitPlain
<1>25. Append(<<>>, x) = <<x>>
  OBVIOUS
<1>26. CommaSplit(line) = Append(gs, Append(<<>>, x))
  <2>1. line # <<>>
    <3>1. SUFFICES ASSUME line = <<>> PROVE FALSE
      OBVIOUS
    <3>2. Len(line) = 0
      BY <3>1
    <3> QED BY <3>2, <1>10, <1>12
  <2>2. SplitEnd(line) = t
    BY <1>16, <1>22
  <2> QED BY <1>24, <2>1, <2>2, SplitResult
<1> QED BY <1>9, <1>22, <1>25, <1>26
-----------------------------------------------------------------------------
(* The lists of the model.                                                   *)

LineChar == STRING \cup {Quote, Comma, "x"}

(* The lists of the model are lists of sequences of characters.              *)
LEMMA ListsOfFields ==
    ASSUME NEW list \in SeqsUpTo(Fields, MaxList)
    PROVE  list \in Seq(Seq(LineChar))
<1>1. Fields \subseteq Seq(LineChar)
  <2>1. STRING \subseteq LineChar
    BY DEF LineChar
  <2>2. Seq(STRING) \subseteq Seq(LineChar)
    BY <2>1, SeqOfSubset
  <2> QED BY <2>2, TextAssumption
<1>2. list \in Seq(Fields)
  BY SeqsAreSeqs, TextAssumption
<1> QED BY <1>1, <1>2, SeqOfSubset

(* What comma_join writes is split to its fields, with doubled quotes.       *)
LEMMA JoinMeant ==
    ASSUME NEW list \in SeqsUpTo(Fields, MaxList), list # <<>>, NEW back,
           back = CommaSplit(CommaJoin(list) \o <<Comma, "x">>)
    PROVE  /\ Len(back) = Len(list) + 1 /\ back[Len(back)] = <<"x">>
           /\ \A i \in DOMAIN list : back[i] \in {list[i], Doubled(list[i])}
<1>1. Quote \in LineChar /\ Comma \in LineChar /\ "x" \in LineChar
  BY DEF LineChar
<1>2. "x" \notin {Quote, Comma}
  BY DEF Quote, Comma
<1>3. list \in Seq(Seq(LineChar))
  BY ListsOfFields
<1>4. PICK x \in LineChar : x = "x" /\ x \notin {Quote, Comma}
  BY <1>1, <1>2
<1>5. CommaSplit(CommaJoin(list) \o <<Comma, x>>) = Append(DoubledOf(list), <<x>>)
  BY <1>1, <1>3, <1>4, JoinSplit
<1>6. /\ DoubledOf(list) \in Seq(Seq(LineChar)) /\ Len(DoubledOf(list)) = Len(list)
      /\ \A i \in 1..Len(list) : DoubledOf(list)[i] = Doubled(list[i])
  BY <1>1, <1>3, DoubledOfTyped
<1>10. PICK n \in Nat : n = Len(list) /\ DOMAIN list = 1..n
  BY <1>3, LenProperties
<1>11. PICK y : y = <<x>>
  OBVIOUS
<1>12. y \in Seq(LineChar)
  BY <1>11
<1>7. PICK d \in Seq(Seq(LineChar)) : d = DoubledOf(list)
  BY <1>6
<1>8. back = Append(d, y) /\ Len(d) = n
  BY <1>4, <1>5, <1>6, <1>7, <1>10, <1>11
<1>9. Len(back) = n + 1 /\ back[n + 1] = y /\ \A i \in 1..n : back[i] = d[i]
  <2>1. Append(d, y)[Len(d) + 1] = y /\ Len(Append(d, y)) = Len(d) + 1
    BY <1>12, AppendProperties
  <2>2. \A i \in 1..Len(d) : Append(d, y)[i] = d[i]
    BY <1>12, AppendProperties
  <2> QED BY <2>1, <2>2, <1>8
<1> QED BY <1>4, <1>6, <1>7, <1>9, <1>10, <1>11

(* What CallSplit gives comma_split is split to the fields it was made of.   *)
LEMMA SplitMeant ==
    ASSUME NEW list \in SeqsUpTo(Fields, MaxList), list # <<>>,
           \A i \in DOMAIN list : Range(list[i]) \cap {Quote, Comma} = {}, NEW line,
           line = FlattenSeq([i \in DOMAIN list |-> IF i < Len(list) THEN Append(list[i], Comma) ELSE list[i]])
    PROVE  CommaSplit(line) = IF list = <<(<<>>)>> THEN <<>> ELSE list
<1>1. Comma \in LineChar
  BY DEF LineChar
<1>2. list \in Seq(Seq(LineChar))
  BY ListsOfFields
<1>3. \A i \in 1..Len(list) : PlainField(list[i])
  <2>1. SUFFICES ASSUME NEW i \in 1..Len(list) PROVE PlainField(list[i])
    OBVIOUS
  <2>2. PICK f \in Seq(LineChar) : f = list[i]
    BY <1>2, ElementOfSeq
  <2>3. i \in DOMAIN list
    BY <1>2, LenProperties
  <2>4. Range(f) \cap {Quote, Comma} = {}
    BY <2>2, <2>3
  <2>5. ASSUME NEW j \in 1..Len(f) PROVE f[j] \notin {Quote, Comma}
    <3>1. j \in DOMAIN f
      BY LenProperties
    <3>2. f[j] \in Range(f)
      BY <3>1 DEF Range
    <3> QED BY <3>2, <2>4
  <2> QED BY <2>2, <2>5 DEF PlainField
<1>4. line = FlattenSeq(Lined(list))
  BY DEF Lined
<1> QED BY <1>1, <1>2, <1>3, <1>4, LineSplit

(* lremove removes what its patterns match, lassign_array loses no element,  *)
(* comma_split gives back the fields comma_join wrote, as they were or with  *)
(* their quotes doubled, and splits plain fields (rivetList.c): what each    *)
(* action's command returns is what the lemmas on it say.                    *)
THEOREM ListsAreMeant == Spec => []ListMeaning
<1>1. Init => ListMeaning
  BY DEF Init, NoCall, ListMeaning
<1>2. ListMeaning /\ [Next]_call => ListMeaning'
  <2> SUFFICES ASSUME ListMeaning, [Next]_call PROVE ListMeaning'
    OBVIOUS
  <2>12. call'.cmd \notin {"lremove", "lassign", "join", "split"} => ListMeaning'
    BY DEF ListMeaning
  <2>1. CASE CallParse
    <3>1. call'.cmd = "parse"
      BY <2>1 DEF CallParse, Called
    <3> QED BY <3>1, <2>12
  <2>2. CASE CallLremove
    <3>1. PICK list \in SeqsUpTo(Items, MaxList), all \in BOOLEAN, ps \in SeqsUpTo(Patterns, 2) :
             call' = [cmd |-> "lremove", arg |-> [list |-> list, all |-> all, patterns |-> ps],
                      result |-> Lremove(list, all, ps)]
      BY <2>2 DEF CallLremove, Called
    <3>2. list \in Seq(Items)
      BY SeqsAreSeqs, TextAssumption
    <3>3. PICK hits : hits = HitsOf(list, ps)
      OBVIOUS
    <3>4. call'.cmd = "lremove" /\ call'.result = Lremove(list, all, ps) /\ call'.arg.list = list
          /\ call'.arg.patterns = ps /\ (call'.arg.all <=> all)
      BY <3>1
    <3>5. hits = {i \in DOMAIN list : \E j \in DOMAIN ps : list[i] \in ps[j]}
      BY <3>3 DEF HitsOf
    <3>6. CASE all
      <4>1. all = TRUE
        BY <3>6
      <4>2. Lremove(list, all, ps) = FlattenSeq([i \in DOMAIN list |-> IF i \in hits THEN <<>> ELSE <<list[i]>>])
        BY <4>1, <3>2, <3>3, LremoveAll DEF LeftOf
      <4> QED BY <3>4, <3>5, <3>6, <4>2 DEF ListMeaning
    <3>7. CASE ~all
      <4>1. all = FALSE
        BY <3>7
      <4>2. Lremove(list, all, ps) = IF hits = {} THEN list ELSE RemoveAt(list, Min(hits))
        BY <4>1, <3>2, <3>3, LremoveFirst
      <4> QED BY <3>4, <3>5, <3>7, <4>2 DEF ListMeaning
    <3> QED BY <3>6, <3>7
  <2>3. CASE CallLassign
    <3>1. PICK list \in SeqsUpTo(Items, MaxList), names \in SeqsUpTo(Items, MaxList) :
             call' = [cmd |-> "lassign", arg |-> [list |-> list, names |-> names],
                      result |-> LassignArray(list, names)]
      BY <2>3 DEF CallLassign, Called
    <3>2. list \in Seq(Items) /\ names \in Seq(Items)
      BY SeqsAreSeqs, TextAssumption
    <3>3. PICK r : r = LassignArray(list, names)
      OBVIOUS
    <3>4. call'.cmd = "lassign" /\ call'.result = r /\ call'.arg.list = list /\ call'.arg.names = names
      BY <3>1, <3>3
    <3>5. PICK given : given = Given(names, r)
      OBVIOUS
    <3>6. given = [i \in DOMAIN names |-> r.array[names[i]]] \o r.rest
      BY <3>5 DEF Given
    <3>7. IsInjective(names) =>
             given = [i \in DOMAIN given |-> IF i <= Len(list) THEN list[i] ELSE Empty] /\ Len(given) >= Len(list)
      BY <3>2, <3>3, <3>5, GivenIs
    <3> SUFFICES IsInjective(call'.arg.names) =>
            LET g == [i \in DOMAIN call'.arg.names |-> call'.result.array[call'.arg.names[i]]] \o call'.result.rest
            IN  g = [i \in DOMAIN g |-> IF i <= Len(call'.arg.list) THEN call'.arg.list[i] ELSE Empty]
                /\ Len(g) >= Len(call'.arg.list)
      <4>1. call'.cmd = "lassign"
        BY <3>4
      <4> QED BY <4>1 DEF ListMeaning
    <3> QED BY <3>4, <3>6, <3>7
  <2>4. CASE CallJoin
    <3>1. PICK list \in SeqsUpTo(Fields, MaxList) :
             list # <<>> /\ call' = [cmd |-> "join", arg |-> list, result |-> CommaJoin(list)]
      BY <2>4 DEF CallJoin, Called
    <3>2. call'.cmd = "join" /\ call'.arg = list /\ call'.result = CommaJoin(list)
      BY <3>1
    <3>3. PICK back : back = CommaSplit(CommaJoin(list) \o <<Comma, "x">>)
      OBVIOUS
    <3>4. /\ Len(back) = Len(list) + 1 /\ back[Len(back)] = <<"x">>
          /\ \A i \in DOMAIN list : back[i] \in {list[i], Doubled(list[i])}
      BY <3>1, <3>3, JoinMeant
    <3> QED BY <3>2, <3>3, <3>4 DEF ListMeaning
  <2>5. CASE CallSplit
    <3>1. PICK list \in SeqsUpTo(Fields, MaxList) :
             /\ list # <<>> /\ \A i \in DOMAIN list : Range(list[i]) \cap {Quote, Comma} = {}
             /\ Called("split", list, CommaSplit(FlattenSeq([i \in DOMAIN list |->
                          IF i < Len(list) THEN Append(list[i], Comma) ELSE list[i]])))
      BY <2>5 DEF CallSplit
    <3>2. PICK line : line = FlattenSeq([i \in DOMAIN list |->
                          IF i < Len(list) THEN Append(list[i], Comma) ELSE list[i]])
      OBVIOUS
    <3>3. call' = [cmd |-> "split", arg |-> list, result |-> CommaSplit(line)]
      BY <3>1, <3>2 DEF Called
    <3>4. call'.cmd = "split" /\ call'.arg = list /\ call'.result = CommaSplit(line)
      BY <3>3
    <3>5. CommaSplit(line) = IF list = <<(<<>>)>> THEN <<>> ELSE list
      BY <3>1, <3>2, SplitMeant
    <3> QED BY <3>4, <3>5 DEF ListMeaning
  <2>6. CASE CallEscape
    <3>1. call'.cmd = "escape"
      BY <2>6 DEF CallEscape, Called
    <3> QED BY <3>1, <2>12
  <2>7. CASE CallUnescape
    <3>1. call'.cmd = "unescape"
      BY <2>7 DEF CallUnescape, Called
    <3> QED BY <3>1, <2>12
  <2>8. CASE CallParms
    <3>1. call'.cmd = "parms"
      BY <2>8 DEF CallParms, Called
    <3> QED BY <3>1, <2>12
  <2>9. CASE CallQuote
    <3>1. call'.cmd = "quote"
      BY <2>9 DEF CallQuote, Called
    <3> QED BY <3>1, <2>12
  <2>10. CASE Return
    <3>1. call'.cmd = "none"
      BY <2>10 DEF Return, NoCall
    <3> QED BY <3>1, <2>12
  <2>11. CASE UNCHANGED call
    BY <2>11 DEF ListMeaning
  <2> QED BY <2>1, <2>2, <2>3, <2>4, <2>5, <2>6, <2>7, <2>8, <2>9, <2>10, <2>11 DEF Next
<1> QED BY <1>1, <1>2, PTL DEF Spec
=============================================================================
