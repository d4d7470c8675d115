----------------------------- MODULE Induction ------------------------------
(***************************************************************************)
(* Induction over the natural numbers with a set for the predicate, which  *)
(* first-order provers can instantiate; powers of two, which tlapm takes   *)
(* for uninterpreted; and iteration of a function.                         *)
(***************************************************************************)
EXTENDS Integers, WellFoundedInduction, FiniteSetTheorems, TLAPS

(* Every non-empty set of natural numbers has a least element.             *)
LEMMA LeastOf ==
  ASSUME NEW T, T \subseteq Nat, T # {}  PROVE \E x \in T : \A y \in T : x <= y
<1>1. PICK x \in T : \A y \in T : ~(<<y, x>> \in OpToRel(<, Nat))
  BY NatLessThanWellFounded, WFMin
<1>2. \A y \in T : ~(y < x)  BY <1>1 DEF OpToRel
<1> QED  BY <1>2

(* A set with zero and all successors has all natural numbers.             *)
LEMMA InductionOn ==
  ASSUME NEW T, 0 \in T, \A n \in Nat : n \in T => n + 1 \in T
  PROVE  Nat \subseteq T
<1> DEFINE F == Nat \ T
<1>1. SUFFICES ASSUME F # {} PROVE FALSE  OBVIOUS
<1>2. F \subseteq Nat  OBVIOUS
<1> HIDE DEF F
<1>3. PICK x \in F : \A y \in F : x <= y  BY <1>1, <1>2, LeastOf
<1>4. x \in Nat /\ x \notin T  BY <1>3 DEF F
<1>5. x # 0  BY <1>4
<1>6. x - 1 \in Nat /\ x - 1 \notin F  BY <1>2, <1>3, <1>4, <1>5
<1>7. x - 1 \in T  BY <1>6 DEF F
<1>8. (x - 1) + 1 \in T  BY <1>6, <1>7
<1> QED  BY <1>4, <1>8

----------------------------------------------------------------------------
(* Powers of two count the subsets of a set: library theorem FS_SUBSET.    *)
LEMMA TwoPower ==
  /\ 2^0 = 1
  /\ \A n \in Nat : 2^n \in Nat /\ 2^(n+1) = 2 * 2^n
<1>1. ASSUME NEW n \in Nat
      PROVE  /\ IsFiniteSet(SUBSET (1 .. n)) /\ Cardinality(SUBSET (1 .. n)) = 2^n
             /\ 2^n \in Nat
  <2>1. IsFiniteSet(1 .. n) /\ Cardinality(1 .. n) = n
    <3>1. IsFiniteSet(1 .. n) /\ Cardinality(1 .. n) = IF 1 > n THEN 0 ELSE n - 1 + 1
      BY FS_Interval
    <3> QED  BY <3>1
  <2>2. IsFiniteSet(SUBSET (1 .. n)) /\ Cardinality(SUBSET (1 .. n)) = 2^Cardinality(1 .. n)
    BY <2>1, FS_SUBSET
  <2>3. Cardinality(SUBSET (1 .. n)) \in Nat  BY <2>2, FS_CardinalityType
  <2> QED  BY <2>1, <2>2, <2>3, Zenon
<1>2. 2^0 = 1
  <2>1. SUBSET (1 .. 0) = {{}}  OBVIOUS
  <2>2. Cardinality({{}}) = 1  BY FS_Singleton
  <2> QED  BY <1>1, <2>1, <2>2
<1>3. ASSUME NEW n \in Nat PROVE 2^(n+1) = 2 * 2^n
  <2> DEFINE A == SUBSET (1 .. n)
             B == {s \cup {n + 1} : s \in A}
             f == [s \in A |-> s \cup {n + 1}]
  <2>1. IsFiniteSet(A) /\ Cardinality(A) = 2^n /\ 2^n \in Nat  BY <1>1
  <2>2. f \in Bijection(A, B)
    <3>1. \A s \in A : n + 1 \notin s  OBVIOUS
    <3>2. \A s, t \in A : f[s] = f[t] => s = t  BY <3>1
    <3>3. \A t \in B : \E s \in A : f[s] = t  OBVIOUS
    <3>4. f \in [A -> B]  OBVIOUS
    <3> HIDE DEF f, A, B
    <3> QED  BY <3>2, <3>3, <3>4 DEF Bijection, Injection, Surjection, IsInjective
  <2>3. ExistsBijection(A, B)  BY <2>2 DEF ExistsBijection
  <2>4. IsFiniteSet(B) /\ Cardinality(B) = Cardinality(A)
    <3> HIDE DEF A, B
    <3> QED  BY <2>1, <2>3, FS_Bijection
  <2>5. SUBSET (1 .. n + 1) = A \cup B
    <3>1. ASSUME NEW t \in SUBSET (1 .. n + 1) PROVE t \in A \cup B
      <4>1. CASE n + 1 \in t
        <5>1. t = (t \ {n + 1}) \cup {n + 1} /\ t \ {n + 1} \in A  BY <4>1
        <5> QED  BY <5>1
      <4>2. CASE n + 1 \notin t
        <5>1. t \in A  BY <4>2
        <5> QED  BY <5>1
      <4> QED  BY <4>1, <4>2
    <3>2. 1 .. n \subseteq 1 .. n + 1 /\ n + 1 \in 1 .. n + 1  OBVIOUS
    <3>3. A \subseteq SUBSET (1 .. n + 1) /\ B \subseteq SUBSET (1 .. n + 1)  BY <3>2
    <3>4. SUBSET (1 .. n + 1) \subseteq A \cup B  BY <3>1
    <3> QED  BY <3>3, <3>4, Zenon
  <2>6. A \cap B = {}  OBVIOUS
  <2>7. Cardinality({}) = 0  BY FS_EmptySet
  <2>8. Cardinality(SUBSET (1 .. n + 1)) = 2^(n+1)  BY <1>1
  <2> HIDE DEF A, B
  <2>9. Cardinality(A \cup B) = Cardinality(A) + Cardinality(B) - Cardinality(A \cap B)
    BY <2>1, <2>4, FS_Union
  <2>10. Cardinality(A \cup B) = Cardinality(A) + Cardinality(A) - 0
    BY <2>4, <2>6, <2>7, <2>9
  <2>11. Cardinality(A \cup B) = 2^(n+1)  BY <2>5, <2>8
  <2> QED  BY <2>1, <2>10, <2>11
<1> QED  BY <1>1, <1>2, <1>3

(* A power of two that is smaller has the smaller exponent.                *)
LEMMA PowersGrow ==
  ASSUME NEW e \in Nat, NEW c \in Nat, e >= c  PROVE 2^e >= 2^c
<1> DEFINE T == {n \in Nat : 2^(c + n) >= 2^c}
<1>1. 0 \in T  BY TwoPower
<1>2. \A n \in Nat : n \in T => n + 1 \in T
  <2> SUFFICES ASSUME NEW n \in Nat, 2^(c + n) >= 2^c PROVE 2^(c + (n + 1)) >= 2^c
    OBVIOUS
  <2>1. c + n \in Nat /\ c + (n + 1) = (c + n) + 1  OBVIOUS
  <2>2. 2^((c + n) + 1) = 2 * 2^(c + n) /\ 2^(c + n) \in Nat /\ 2^c \in Nat
    BY <2>1, TwoPower
  <2> QED  BY <2>1, <2>2
<1> HIDE DEF T
<1>3. e - c \in T  BY <1>1, <1>2, InductionOn
<1>4. c + (e - c) = e  OBVIOUS
<1> QED  BY <1>3, <1>4 DEF T

----------------------------------------------------------------------------
(* h[k] is step applied k times to a.                                      *)
Iterates(h, step, a) == h = [k \in Nat |-> IF k = 0 THEN a ELSE step[h[k-1]]]

UpTo(n, f, step, a) ==
  f[0] = a /\ \A k \in Nat : k < n => f[k+1] = step[f[k]]

LEMMA SameIterates ==
  ASSUME NEW step, NEW a, NEW f, NEW g, NEW n \in Nat, NEW m \in Nat,
         UpTo(n, f, step, a), UpTo(m, g, step, a)
  PROVE  \A k \in Nat : k <= n /\ k <= m => f[k] = g[k]
<1> DEFINE T == {k \in Nat : k <= n /\ k <= m => f[k] = g[k]}
<1>1. 0 \in T  BY DEF UpTo
<1>2. \A k \in Nat : k \in T => k + 1 \in T
  <2> TAKE k \in Nat
  <2> SUFFICES ASSUME k \in T, k + 1 <= n, k + 1 <= m  PROVE f[k+1] = g[k+1]
    OBVIOUS
  <2>1. f[k] = g[k]  OBVIOUS
  <2>2. f[k+1] = step[f[k]] /\ g[k+1] = step[g[k]]  BY DEF UpTo
  <2> QED  BY <2>1, <2>2
<1> HIDE DEF T
<1>3. Nat \subseteq T  BY <1>1, <1>2, InductionOn
<1> QED  BY <1>3 DEF T

LEMMA IterateExists ==
  ASSUME NEW step, NEW a  PROVE \E h : Iterates(h, step, a)
<1> DEFINE T == {n \in Nat : \E f : UpTo(n, f, step, a)}
<1>1. 0 \in T
  <2> DEFINE f0 == [k \in Nat |-> a]
  <2>1. UpTo(0, f0, step, a)  BY DEF UpTo
  <2> QED  BY <2>1
<1>2. \A n \in Nat : n \in T => n + 1 \in T
  <2> SUFFICES ASSUME NEW n \in Nat, n \in T PROVE \E f : UpTo(n + 1, f, step, a)
    OBVIOUS
  <2>1. PICK f : UpTo(n, f, step, a)  OBVIOUS
  <2> DEFINE g == [k \in Nat |-> IF k <= n THEN f[k] ELSE step[f[n]]]
  <2>2. g[0] = a  BY <2>1 DEF UpTo
  <2>3. ASSUME NEW k \in Nat, k < n + 1  PROVE g[k+1] = step[g[k]]
    <3>1. CASE k < n  BY <3>1, <2>1 DEF UpTo
    <3>2. CASE k = n  BY <3>2
    <3> QED  BY <3>1, <3>2, <2>3
  <2>4. UpTo(n + 1, g, step, a)  BY <2>2, <2>3 DEF UpTo
  <2> QED  BY <2>4
<1> HIDE DEF T
<1>3. \A n \in Nat : \E f : UpTo(n, f, step, a)
  <2>1. Nat \subseteq T  BY <1>1, <1>2, InductionOn
  <2> QED  BY <2>1 DEF T
<1> DEFINE F(n) == CHOOSE f : UpTo(n, f, step, a)
<1>4. \A n \in Nat : UpTo(n, F(n), step, a)  BY <1>3
<1> HIDE DEF F
<1> DEFINE h == [n \in Nat |-> F(n)[n]]
<1>5. h[0] = a  BY <1>4 DEF UpTo
<1>6. ASSUME NEW k \in Nat  PROVE h[k+1] = step[h[k]]
  <2>1. F(k+1)[k+1] = step[F(k+1)[k]]  BY <1>4 DEF UpTo
  <2>2. F(k+1)[k] = F(k)[k]
    <3>1. UpTo(k, F(k), step, a) /\ UpTo(k + 1, F(k+1), step, a)  BY <1>4
    <3> QED  BY <3>1, SameIterates
  <2> QED  BY <2>1, <2>2
<1>7. \A k \in Nat : h[k] = IF k = 0 THEN a ELSE step[h[k-1]]
  <2> TAKE k \in Nat
  <2>1. CASE k = 0  BY <2>1, <1>5
  <2>2. CASE k # 0
    <3>1. k - 1 \in Nat /\ (k - 1) + 1 = k  BY <2>2
    <3> HIDE DEF h
    <3>2. h[(k - 1) + 1] = step[h[k-1]]  BY <3>1, <1>6
    <3> QED  BY <2>2, <3>1, <3>2
  <2> QED  BY <2>1, <2>2
<1>8. h = [k \in Nat |-> h[k]]  OBVIOUS
<1> HIDE DEF h
<1>9. Iterates(h, step, a)  BY <1>7, <1>8 DEF Iterates
<1> QED  BY <1>9
=============================================================================
