---------------------------- MODULE SeqFoldProofs ----------------------------
(***************************************************************************)
(* Facts about folds over a sequence, for any step function.               *)
(***************************************************************************)
EXTENDS SeqFold, WellFoundedInduction, TLAPS

\* Induction over the naturals for a set of them: what is not in T has a least
\* element, because < is well founded.
LEMMA NatInd ==
    ASSUME NEW T \in SUBSET Nat, 0 \in T, \A n \in T : n + 1 \in T
    PROVE  T = Nat
<1> DEFINE U == Nat \ T
<1>1. SUFFICES ASSUME U # {} PROVE FALSE
  OBVIOUS
<1>2. U \subseteq Nat
  OBVIOUS
<1> HIDE DEF U
<1>3. \E x \in U : \A y \in U : ~ (<<y, x>> \in OpToRel(<, Nat))
  BY <1>1, <1>2, NatLessThanWellFounded, WFMin, Zenon
<1>4. PICK x \in U : \A y \in U : ~ (<<y, x>> \in OpToRel(<, Nat))
  BY <1>3, Zenon
<1>5. \A y \in U : ~ (y < x)
  BY <1>2, <1>4 DEF OpToRel
<1>6. x \in Nat /\ x \notin T /\ x # 0
  BY DEF U
<1>7. x - 1 \in Nat /\ (x - 1) + 1 = x /\ x - 1 < x
  BY <1>6
<1>8. x - 1 \in T
  BY <1>5, <1>7 DEF U
<1> QED
  BY <1>6, <1>7, <1>8

\* The states a loop over s goes through.
After(step, start, s) ==
    CHOOSE after : after = [k \in 0..Len(s) |->
                              IF k = 0 THEN start ELSE step[<<after[k - 1], s[k]>>]]

\* They exist: the recursion of Fold defines a function.
LEMMA AfterDef ==
    ASSUME NEW step, NEW start, NEW s, Len(s) \in Nat
    PROVE  LET after == After(step, start, s)
           IN  /\ after = [k \in 0..Len(s) |->
                              IF k = 0 THEN start ELSE step[<<after[k - 1], s[k]>>]]
               /\ Fold(step, start, s) = after[Len(s)]
<1> DEFINE upto(f, n) == f = [k \in 0..n |-> IF k = 0 THEN start ELSE step[<<f[k - 1], s[k]>>]]
           T == {n \in Nat : \E f : upto(f, n)}
<1>1. 0 \in T
  <2> DEFINE f == [k \in 0..0 |-> start]
  <2>1. upto(f, 0)
    OBVIOUS
  <2> QED
    BY <2>1
<1>2. ASSUME NEW n \in T PROVE n + 1 \in T
  <2>1. PICK f : upto(f, n)
    OBVIOUS
  <2> DEFINE g == [k \in 0..(n + 1) |-> IF k = n + 1 THEN step[<<f[n], s[k]>>] ELSE f[k]]
  <2>2. \A k \in 0..(n + 1) : g[k] = IF k = 0 THEN start ELSE step[<<g[k - 1], s[k]>>]
    <3> TAKE k \in 0..(n + 1)
    <3>1. CASE k = 0
      BY <2>1, <3>1
    <3>2. CASE k = n + 1
      <4>1. k - 1 = n /\ k # 0 /\ n \in 0..(n + 1) /\ n # n + 1
        BY <3>2
      <4>2. g[k] = step[<<f[n], s[k]>>] /\ g[n] = f[n]
        BY <3>2, <4>1
      <4> QED
        BY <4>1, <4>2
    <3>3. CASE k \in 1..n
      <4>1. k - 1 \in 0..n /\ k # n + 1 /\ k - 1 # n + 1 /\ k - 1 \in 0..(n + 1) /\ k \in 0..n
        BY <3>3
      <4>2. g[k] = f[k] /\ g[k - 1] = f[k - 1]
        BY <4>1
      <4>3. f[k] = step[<<f[k - 1], s[k]>>]
        BY <2>1, <3>3, <4>1
      <4>4. k # 0
        BY <3>3
      <4> HIDE DEF g
      <4> QED
        BY <4>2, <4>3, <4>4
    <3> QED
      BY <3>1, <3>2, <3>3
  <2>3. upto(g, n + 1)
    <3> DEFINE h == [k \in 0..(n + 1) |-> IF k = 0 THEN start ELSE step[<<g[k - 1], s[k]>>]]
    <3>1. DOMAIN g = DOMAIN h /\ \A k \in DOMAIN g : g[k] = h[k]
      BY <2>2
    <3>2. g = h
      BY <3>1
    <3> QED
      BY <3>2
  <2>4. n + 1 \in Nat
    OBVIOUS
  <2>5. \E h : upto(h, n + 1)
    <3> HIDE DEF upto, g
    <3> QED
      BY <2>3, Zenon
  <2> QED
    BY <2>4, <2>5
<1>3. T = Nat
  BY <1>1, <1>2, NatInd
<1>4. \E f : upto(f, Len(s))
  BY <1>3
<1> QED
  BY <1>4 DEF After, Fold

\* A loop whose step keeps its state in X ends in X.
LEMMA FoldIn ==
    ASSUME NEW X, NEW E, NEW step, NEW start \in X, NEW s \in Seq(E),
           \A q \in X, i \in DOMAIN s : step[<<q, s[i]>>] \in X
    PROVE  Fold(step, start, s) \in X
<1> DEFINE after == After(step, start, s)
<1>1. Len(s) \in Nat /\ DOMAIN s = 1..Len(s)
  OBVIOUS
<1>2. /\ after = [k \in 0..Len(s) |-> IF k = 0 THEN start ELSE step[<<after[k - 1], s[k]>>]]
      /\ Fold(step, start, s) = after[Len(s)]
  BY <1>1, AfterDef
<1> HIDE DEF after
<1> DEFINE T == {n \in Nat : n <= Len(s) => after[n] \in X}
<1>3. 0 \in T
  BY <1>1, <1>2
<1>4. ASSUME NEW n \in T PROVE n + 1 \in T
  <2> SUFFICES ASSUME n + 1 <= Len(s) PROVE after[n + 1] \in X
    OBVIOUS
  <2>1. n + 1 \in DOMAIN s /\ n + 1 \in 0..Len(s) /\ n <= Len(s) /\ n + 1 # 0 /\ (n + 1) - 1 = n
    BY <1>1
  <2>2. after[n + 1] = step[<<after[n], s[n + 1]>>]
    BY <1>2, <2>1
  <2> QED
    BY <2>1, <2>2
<1>5. T = Nat
  <2> HIDE DEF T
  <2>1. T \in SUBSET Nat
    BY DEF T
  <2> QED
    BY <1>3, <1>4, <2>1, NatInd
<1>6. Len(s) \in T
  BY <1>1, <1>5
<1> QED
  BY <1>1, <1>2, <1>6

\* A loop that meets an element whose step leads from X into a part Y of X that
\* the loop does not leave ends in Y.
LEMMA FoldReaches ==
    ASSUME NEW X, NEW Y \in SUBSET X, NEW E, NEW step, NEW start \in X, NEW s \in Seq(E),
           NEW j \in DOMAIN s,
           \A q \in X, i \in DOMAIN s : step[<<q, s[i]>>] \in X,
           \A q \in Y, i \in DOMAIN s : step[<<q, s[i]>>] \in Y,
           \A q \in X : step[<<q, s[j]>>] \in Y
    PROVE  Fold(step, start, s) \in Y
<1> DEFINE after == After(step, start, s)
<1>1. Len(s) \in Nat /\ DOMAIN s = 1..Len(s)
  OBVIOUS
<1>2. /\ after = [k \in 0..Len(s) |-> IF k = 0 THEN start ELSE step[<<after[k - 1], s[k]>>]]
      /\ Fold(step, start, s) = after[Len(s)]
  BY <1>1, AfterDef
<1> HIDE DEF after
<1> DEFINE T == {n \in Nat : n <= Len(s) => /\ after[n] \in X
                                            /\ n >= j => after[n] \in Y}
<1>3. 0 \in T
  BY <1>1, <1>2
<1>4. ASSUME NEW n \in T PROVE n + 1 \in T
  <2> SUFFICES ASSUME n + 1 <= Len(s)
               PROVE  after[n + 1] \in X /\ (n + 1 >= j => after[n + 1] \in Y)
    OBVIOUS
  <2>1. n + 1 \in DOMAIN s /\ n + 1 \in 0..Len(s) /\ n <= Len(s) /\ n + 1 # 0 /\ (n + 1) - 1 = n
    BY <1>1
  <2>2. after[n + 1] = step[<<after[n], s[n + 1]>>]
    BY <1>2, <2>1
  <2>3. after[n] \in X /\ after[n + 1] \in X
    BY <2>1, <2>2
  <2>4. CASE n >= j
    BY <2>1, <2>2, <2>4
  <2>5. CASE n + 1 = j
    BY <2>2, <2>3, <2>5
  <2> QED
    BY <1>1, <2>3, <2>4, <2>5
<1>5. T = Nat
  <2> HIDE DEF T
  <2>1. T \in SUBSET Nat
    BY DEF T
  <2> QED
    BY <1>3, <1>4, <2>1, NatInd
<1>6. Len(s) \in T
  BY <1>1, <1>5
<1> QED
  BY <1>1, <1>2, <1>6
=============================================================================
