------------------------------ MODULE Folding ------------------------------
(***************************************************************************)
(* The loops of the code are folds here. FoldLeft is defined by a function *)
(* on the subsets of the domain; this module shows that it goes through    *)
(* the sequence element by element, for any step, so that what holds of a  *)
(* loop can be shown by induction over its iterations. A module that folds *)
(* a step of its own instantiates this one with it.                        *)
(***************************************************************************)
EXTENDS SequencesExt, Integers, WellFoundedInduction, TLAPS

CONSTANT Op(_, _)       \* the body of the loop

\* A set of natural numbers has a least element.
LEMMA Least ==
  \A T : T # {} /\ (\A x \in T : x \in Nat) => \E m \in T : \A x \in T : m <= x
<1>0. SUFFICES ASSUME NEW T, T # {}, \A x \in T : x \in Nat
               PROVE  \E m \in T : \A x \in T : m <= x
    OBVIOUS
<1>1. PICK R : R = OpToRel(<, Nat)
    OBVIOUS
<1>2. IsWellFoundedOn(R, Nat)
    BY <1>1, NatLessThanWellFounded, Zenon
<1>3. PICK m \in T : \A y \in T : ~ (<<y, m>> \in R)
    BY <1>0, <1>2, WFMin
<1>4. ASSUME NEW x \in T, x < m PROVE FALSE
  <2>1. <<x, m>> \in R
    BY <1>0, <1>1, <1>4 DEF OpToRel
  <2>. QED BY <1>3, <2>1
<1>5. \A x \in T : m <= x
    BY <1>0, <1>4
<1>. QED BY <1>5

\* Induction: a set that holds 0, and with a number the next, holds all.
LEMMA NatInd ==
  \A S : 0 \in S /\ (\A n \in Nat : n \in S => n + 1 \in S) => \A n \in Nat : n \in S
<1>0. SUFFICES ASSUME NEW S, 0 \in S, \A n \in Nat : n \in S => n + 1 \in S,
                      NEW n \in Nat, n \notin S
               PROVE  FALSE
  OBVIOUS
<1>1. n \in Nat /\ n \notin S
  BY <1>0
<1>2. PICK T : T = Nat \ S
  OBVIOUS
<1>3. PICK m \in T : \A x \in T : m <= x
  BY <1>1, <1>2, Least
<1>4. m # 0 /\ m \in Nat
  BY <1>0, <1>2, <1>3
<1>5. m - 1 \in Nat /\ m - 1 \in S
  BY <1>0, <1>2, <1>3, <1>4
<1>6. (m - 1) + 1 = m
  BY <1>4
<1>. QED BY <1>0, <1>2, <1>3, <1>5, <1>6

-----------------------------------------------------------------------------
\* The function that the definition of FoldLeft chooses.
IsIter(g, b, s, n) == g = [t \in SUBSET (1 .. n) |->
     IF t = {} THEN b ELSE Op(g[t \ {Max(t)}], s[Max(t)])]
Iter(b, s, n) == CHOOSE g : IsIter(g, b, s, n)

\* An element that no other exceeds is the one Max chooses.
LEMMA MaxIs ==
  ASSUME NEW t, NEW m, m \in t, t \subseteq Nat, \A x \in t : x <= m
  PROVE  Max(t) = m
<1>1. \E x \in t : \A y \in t : x >= y
  OBVIOUS
<1>2. Max(t) \in t /\ \A y \in t : Max(t) >= y
  BY <1>1, Zenon DEF Max
<1>3. Max(t) \in Nat /\ m \in Nat
  BY <1>2
<1>. QED BY <1>2, <1>3

\* There is such a function, so that it is what is chosen.
LEMMA IterExists ==
  ASSUME NEW b, NEW s, NEW n \in Nat
  PROVE  \E g : IsIter(g, b, s, n)
<1>1. PICK S : S = {k \in Nat : \E g : IsIter(g, b, s, k)}
  OBVIOUS
<1>2. 0 \in S
  <2>1. PICK g : g = [t \in SUBSET (1 .. 0) |-> b]
    OBVIOUS
  <2>2. \A t \in SUBSET (1 .. 0) : t = {}
    OBVIOUS
  <2>3. IsIter(g, b, s, 0)
    BY <2>1, <2>2 DEF IsIter
  <2>. QED BY <1>1, <2>3
<1>3. ASSUME NEW k \in Nat, k \in S PROVE k + 1 \in S
  <2>1. PICK g : IsIter(g, b, s, k)
    BY <1>1, <1>3
  <2>2. PICK h : h = [t \in SUBSET (1 .. k + 1) |->
            IF k + 1 \in t THEN Op(g[t \ {k + 1}], s[k + 1]) ELSE g[t]]
    OBVIOUS
  <2>3. ASSUME NEW t \in SUBSET (1 .. k + 1)
        PROVE  h[t] = IF t = {} THEN b ELSE Op(h[t \ {Max(t)}], s[Max(t)])
    <3>1. CASE k + 1 \in t
      <4>0. t \subseteq Nat /\ \A x \in t : x <= k + 1
        OBVIOUS
      <4>1. Max(t) = k + 1
        BY <3>1, <4>0, MaxIs
      <4>2. t \ {k + 1} \in SUBSET (1 .. k + 1) /\ k + 1 \notin t \ {k + 1}
        OBVIOUS
      <4>3. h[t \ {k + 1}] = g[t \ {k + 1}]
        BY <2>2, <4>2
      <4>. QED BY <2>2, <3>1, <4>1, <4>3
    <3>2. CASE k + 1 \notin t
      <4>1. t \in SUBSET (1 .. k)
        BY <3>2
      <4>2. h[t] = g[t]
        BY <2>2, <3>2
      <4>3. g[t] = IF t = {} THEN b ELSE Op(g[t \ {Max(t)}], s[Max(t)])
        BY <2>1, <4>1 DEF IsIter
      <4>4. t \ {Max(t)} \in SUBSET (1 .. k + 1) /\ k + 1 \notin t \ {Max(t)}
        BY <3>2
      <4>5. h[t \ {Max(t)}] = g[t \ {Max(t)}]
        BY <2>2, <4>4
      <4>. QED BY <4>2, <4>3, <4>5
    <3>. QED BY <3>1, <3>2
  <2>4. IsIter(h, b, s, k + 1)
    BY <2>2, <2>3 DEF IsIter
  <2>. QED BY <1>1, <2>4
<1>4. n \in S
  BY <1>2, <1>3, NatInd
<1>. QED BY <1>1, <1>4

Fold(b, s) == FoldLeft(Op, b, s)

\* A fold is the value of that function at the whole domain.
LEMMA FoldIter ==
  ASSUME NEW b, NEW n \in Nat, NEW s, DOMAIN s = 1 .. n
  PROVE  Fold(b, s) = Iter(b, s, n)[1 .. n] /\ IsIter(Iter(b, s, n), b, s, n)
<1>1. Fold(b, s) = Iter(b, s, n)[1 .. n]
  BY DEF Fold, FoldLeft, MapThenFoldSet, Iter, IsIter
<1>2. IsIter(Iter(b, s, n), b, s, n)
  BY IterExists, Zenon DEF Iter
<1>. QED BY <1>1, <1>2

\* F[k] is the value after k elements of s.
IsRun(F, b, s, n) == F[0] = b /\ \A i \in 1 .. n : F[i] = Op(F[i - 1], s[i])

\* The values a fold passes through: F[k] is what it has after k elements.
LEMMA FoldRuns ==
  \A b, s : \A n \in Nat : DOMAIN s = 1 .. n =>
     \E F : IsRun(F, b, s, n) /\ F[n] = Fold(b, s)
<1>0. TAKE b, s
<1>1. TAKE n \in Nat
<1>2. HAVE DOMAIN s = 1 .. n
<1>3. PICK g : g = Iter(b, s, n)
  OBVIOUS
<1>4. Fold(b, s) = g[1 .. n] /\ IsIter(g, b, s, n)
  BY <1>2, <1>3, FoldIter
<1>5. PICK F : F = [k \in 0 .. n |-> g[1 .. k]]
  OBVIOUS
<1>6. F[0] = b
  <2>1. 1 .. 0 = {} /\ {} \in SUBSET (1 .. n) /\ 0 \in 0 .. n
    OBVIOUS
  <2>2. g[{}] = b
    BY <1>4, <2>1 DEF IsIter
  <2>. QED BY <1>5, <2>1, <2>2
<1>7. ASSUME NEW i \in 1 .. n PROVE F[i] = Op(F[i - 1], s[i])
  <2>1. PICK t : t = 1 .. i
    OBVIOUS
  <2>2. t \in SUBSET (1 .. n) /\ t # {} /\ t \subseteq Nat /\ i \in t /\ \A x \in t : x <= i
    BY <2>1
  <2>3. Max(t) = i
    BY <2>2, MaxIs
  <2>4. t \ {i} = 1 .. i - 1
    BY <2>1
  <2>5. g[t] = Op(g[t \ {Max(t)}], s[Max(t)])
    BY <1>4, <2>2 DEF IsIter
  <2>6. F[i] = g[t] /\ F[i - 1] = g[1 .. i - 1]
    BY <1>5, <2>1
  <2>. QED BY <2>3, <2>4, <2>5, <2>6
<1>8. F[n] = Fold(b, s)
  BY <1>4, <1>5
<1>. QED BY <1>6, <1>7, <1>8 DEF IsRun

\* A set that holds the initial value and is closed under the step holds the result.
THEOREM FoldStays ==
  \A b, s, S : \A n \in Nat :
     DOMAIN s = 1 .. n /\ b \in S /\ (\A x \in S : \A i \in 1 .. n : Op(x, s[i]) \in S)
     => Fold(b, s) \in S
<1>0. TAKE b, s, S
<1>1. TAKE n \in Nat
<1>2. HAVE DOMAIN s = 1 .. n /\ b \in S /\ \A x \in S : \A i \in 1 .. n : Op(x, s[i]) \in S
<1>3. PICK F : IsRun(F, b, s, n) /\ F[n] = Fold(b, s)
  BY <1>2, FoldRuns
<1>4. PICK T : T = {k \in Nat : k <= n => F[k] \in S}
  OBVIOUS
<1>5. 0 \in T
  BY <1>2, <1>3, <1>4 DEF IsRun
<1>6. ASSUME NEW k \in Nat, k \in T PROVE k + 1 \in T
  <2>1. SUFFICES ASSUME k + 1 <= n PROVE F[k + 1] \in S
    BY <1>4
  <2>2. k + 1 \in 1 .. n /\ (k + 1) - 1 = k /\ F[k] \in S
    BY <1>4, <1>6, <2>1
  <2>. QED BY <1>2, <1>3, <2>2 DEF IsRun
<1>7. n \in T
  BY <1>5, <1>6, NatInd
<1>. QED BY <1>3, <1>4, <1>7

\* One who computes what the step computes, element by element, has the result.
THEOREM FoldIs ==
  \A b, s, F : \A n \in Nat : DOMAIN s = 1 .. n /\ IsRun(F, b, s, n) => Fold(b, s) = F[n]
<1>0. TAKE b, s, F
<1>1. TAKE n \in Nat
<1>2. HAVE DOMAIN s = 1 .. n /\ IsRun(F, b, s, n)
<1>3. PICK G : IsRun(G, b, s, n) /\ G[n] = Fold(b, s)
  BY <1>2, FoldRuns
<1>4. PICK T : T = {k \in Nat : k <= n => F[k] = G[k]}
  OBVIOUS
<1>5. 0 \in T
  BY <1>2, <1>3, <1>4 DEF IsRun
<1>6. ASSUME NEW k \in Nat, k \in T PROVE k + 1 \in T
  <2>1. SUFFICES ASSUME k + 1 <= n PROVE F[k + 1] = G[k + 1]
    BY <1>4
  <2>2. k + 1 \in 1 .. n /\ (k + 1) - 1 = k /\ F[k] = G[k]
    BY <1>4, <1>6, <2>1
  <2>3. F[k + 1] = Op(F[k], s[k + 1]) /\ G[k + 1] = Op(G[k], s[k + 1])
    BY <1>2, <1>3, <2>2 DEF IsRun
  <2>. QED BY <2>2, <2>3
<1>7. n \in T
  BY <1>5, <1>6, NatInd
<1>. QED BY <1>3, <1>4, <1>7

\* Over no element at all, a fold is its initial value.
THEOREM FoldEmpty == \A b : Fold(b, <<>>) = b
<1>0. TAKE b
<1>1. PICK F : F = [k \in {0} |-> b]
  OBVIOUS
<1>2. PICK n : n = 0
  OBVIOUS
<1>3. PICK e : e = <<>>
  OBVIOUS
<1>4. n \in Nat /\ DOMAIN e = 1 .. n /\ IsRun(F, b, e, n) /\ F[n] = b
  BY <1>1, <1>2, <1>3 DEF IsRun
<1>5. Fold(b, e) = F[n]
  BY <1>4, FoldIs
<1>. QED BY <1>3, <1>4, <1>5

\* Folding over a sequence that goes on: first the beginning, then the rest.
THEOREM FoldMore ==
  \A b, r, s, t : \A m \in Nat, n \in Nat :
     /\ DOMAIN r = 1 .. m + n /\ DOMAIN s = 1 .. m /\ DOMAIN t = 1 .. n
     /\ \A i \in 1 .. m : r[i] = s[i]
     /\ \A i \in 1 .. n : r[m + i] = t[i]
     => Fold(b, r) = Fold(Fold(b, s), t)
<1>0. TAKE b, r, s, t
<1>1. TAKE m \in Nat, n \in Nat
<1>2. HAVE /\ DOMAIN r = 1 .. m + n /\ DOMAIN s = 1 .. m /\ DOMAIN t = 1 .. n
           /\ \A i \in 1 .. m : r[i] = s[i]
           /\ \A i \in 1 .. n : r[m + i] = t[i]
<1>3. PICK F : IsRun(F, b, s, m) /\ F[m] = Fold(b, s)
  BY <1>2, FoldRuns
<1>4. PICK c : c = Fold(b, s)
  OBVIOUS
<1>5. PICK G : IsRun(G, c, t, n) /\ G[n] = Fold(c, t)
  BY <1>2, FoldRuns
<1>6. PICK H : H = [k \in 0 .. m + n |-> IF k <= m THEN F[k] ELSE G[k - m]]
  OBVIOUS
<1>7. H[0] = b
  BY <1>3, <1>6 DEF IsRun
<1>8. ASSUME NEW i \in 1 .. m + n PROVE H[i] = Op(H[i - 1], r[i])
  <2>1. CASE i <= m
    <3>1. i \in 1 .. m /\ i \in 0 .. m + n /\ i - 1 \in 0 .. m + n /\ i - 1 <= m
      BY <2>1
    <3>2. H[i] = F[i] /\ H[i - 1] = F[i - 1]
      BY <1>6, <2>1, <3>1
    <3>. QED BY <1>2, <1>3, <3>1, <3>2 DEF IsRun
  <2>2. CASE i > m
    <3>1. PICK j \in 1 .. n : j = i - m
      BY <2>2
    <3>2. i = m + j /\ i \in 0 .. m + n /\ i - 1 \in 0 .. m + n /\ r[i] = t[j]
      BY <1>2, <3>1
    <3>3. H[i] = G[j]
      BY <1>6, <2>2, <3>1, <3>2
    <3>4. H[i - 1] = G[j - 1]
      <4>1. CASE i - 1 <= m
        <5>1. i - 1 = m /\ j - 1 = 0
          BY <2>2, <3>1, <4>1
        <5>. QED BY <1>3, <1>4, <1>5, <1>6, <3>2, <5>1 DEF IsRun
      <4>2. CASE ~ (i - 1 <= m)
        <5>1. (i - 1) - m = j - 1
          BY <3>1
        <5>. QED BY <1>6, <3>2, <4>2, <5>1
      <4>. QED BY <4>1, <4>2
    <3>. QED BY <1>5, <3>1, <3>2, <3>3, <3>4 DEF IsRun
  <2>. QED BY <2>1, <2>2
<1>9. PICK k \in Nat : k = m + n
  OBVIOUS
<1>10. DOMAIN r = 1 .. k /\ IsRun(H, b, r, k)
  BY <1>2, <1>7, <1>8, <1>9 DEF IsRun
<1>11. Fold(b, r) = H[k]
  BY <1>10, FoldIs
<1>12. H[k] = G[n]
  <2>1. CASE n = 0
    BY <1>3, <1>4, <1>5, <1>6, <1>9, <2>1 DEF IsRun
  <2>2. CASE n # 0
    <3>1. k \in 0 .. m + n /\ ~ (k <= m) /\ k - m = n
      BY <1>9, <2>2
    <3>. QED BY <1>6, <3>1
  <2>. QED BY <2>1, <2>2
<1>. QED BY <1>4, <1>5, <1>11, <1>12
=============================================================================
