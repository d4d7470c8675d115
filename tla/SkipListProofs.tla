--------------------------- MODULE SkipListProofs ---------------------------
(***************************************************************************)
(* The theorems about SkipList, for every finite set of blocks, every size *)
(* they have, every number of levels and every order of calls.             *)
(***************************************************************************)
EXTENDS SkipListInv, FiniteSetTheorems, Induction

----------------------------------------------------------------------------
(* One level of the list as a sorted chain: which block comes first, what  *)
(* linking and unlinking do to the chain, and that the hops of module      *)
(* SkipListInv walk along it.                                              *)

(* Of two blocks the smaller one comes first, of two of one size the one   *)
(* that was listed later: s is a clock's reading for each block.  The head *)
(* comes before all blocks.                                                *)
Precedes(s, n, b) ==
  n = HEAD \/ Size[n] < Size[b] \/ (Size[n] = Size[b] /\ s[n] > s[b])

(* Behind n of the chain A comes the first of the blocks n precedes.       *)
Follows(t, n, s, A) ==
  \/ /\ t = NULL
     /\ \A b \in A : ~Precedes(s, n, b)
  \/ /\ t \in A
     /\ Precedes(s, n, t)
     /\ \A b \in A : Precedes(s, n, b) => b = t \/ Precedes(s, t, b)

(* The pointers g link the blocks of A.                                    *)
Chained(g, s, A) ==
  /\ \A b, c \in A : s[b] = s[c] => b = c
  /\ \A n \in A \cup {HEAD} : Follows(g[n], n, s, A)

LEMMA Distinct == HEAD \notin Block /\ NULL \notin Block /\ HEAD # NULL
BY SkipListConstants DEF SkipListConstants

LEMMA PrecedesOrder ==
  ASSUME NEW s \in [Block -> Nat]
  PROVE  /\ \A b \in Block : ~Precedes(s, b, b) /\ Precedes(s, HEAD, b)
         /\ \A n \in Node, b, c \in Block :
              Precedes(s, n, b) /\ Precedes(s, b, c) => Precedes(s, n, c)
         /\ \A b, c \in Block : b = c \/ s[b] # s[c] => b = c \/ Precedes(s, b, c) \/ Precedes(s, c, b)
BY SkipListConstants DEF SkipListConstants, Precedes, Node

(* Linking v behind u.                                                     *)
LEMMA ChainInsert ==
  ASSUME NEW s \in [Block -> Nat], NEW A, A \subseteq Block, NEW g, Chained(g, s, A),
         NEW v \in Block, v \notin A, \A b \in A : s[b] # s[v],
         NEW u \in A \cup {HEAD}, Precedes(s, u, v),
         g[u] = NULL \/ Precedes(s, v, g[u]),
         NEW h, h[v] = g[u], h[u] = v, \A n \in A \cup {HEAD} : n # u => h[n] = g[n]
  PROVE  Chained(h, s, A \cup {v})
<1>1. ASSUME NEW n \in A \cup {v} \cup {HEAD}  PROVE Follows(h[n], n, s, A \cup {v})
  <2>0. /\ A \cup {HEAD} \subseteq Node /\ v # HEAD /\ u # v
    BY Distinct DEF Node
  <2>1. Follows(g[u], u, s, A)  BY DEF Chained
  <2>2. \A b \in A : Precedes(s, b, v) => b = u \/ (u \in A /\ Precedes(s, b, u))
    <3> SUFFICES ASSUME NEW b \in A, Precedes(s, b, v), b # u, u \in A => ~Precedes(s, b, u)
                 PROVE  FALSE
      OBVIOUS
    <3>1. Precedes(s, u, b)
      <4>1. CASE u = HEAD  BY <4>1, PrecedesOrder
      <4>2. CASE u \in A
        <5>1. s[u] # s[b]  BY <4>2 DEF Chained
        <5> QED  BY <4>2, <5>1, PrecedesOrder
      <4> QED  BY <4>1, <4>2
    <3>2. g[u] \in A /\ (b = g[u] \/ Precedes(s, g[u], b))  BY <2>1, <3>1 DEF Follows
    <3>3. g[u] # NULL  BY <3>2, Distinct
    <3>4. Precedes(s, v, b)  BY <3>2, <3>3, PrecedesOrder, v \in Node DEF Node
    <3>5. Precedes(s, b, b)  BY <3>4, PrecedesOrder, <2>0
    <3> QED  BY <3>5, PrecedesOrder
  <2>3. CASE n = u
    <3>1. \A b \in A : Precedes(s, u, b) => Precedes(s, v, b)
      <4> TAKE b \in A
      <4> SUFFICES ASSUME Precedes(s, u, b) PROVE Precedes(s, v, b)  OBVIOUS
      <4>1. g[u] \in A /\ (b = g[u] \/ Precedes(s, g[u], b))  BY <2>1 DEF Follows
      <4>2. Precedes(s, v, g[u])  BY <4>1, Distinct
      <4> QED  BY <4>1, <4>2, PrecedesOrder DEF Node
    <3> QED  BY <2>3, <3>1 DEF Follows
  <2>4. CASE n = v
    <3>1. g[u] = NULL => \A b \in A : ~Precedes(s, v, b)
      <4> SUFFICES ASSUME g[u] = NULL, NEW b \in A, Precedes(s, v, b) PROVE FALSE  OBVIOUS
      <4>1. Precedes(s, u, b)  BY PrecedesOrder, <2>0
      <4> QED  BY <4>1, <2>1, Distinct DEF Follows
    <3>2. g[u] # NULL => \A b \in A : Precedes(s, v, b) => b = g[u] \/ Precedes(s, g[u], b)
      <4> SUFFICES ASSUME NEW b \in A, Precedes(s, v, b), g[u] # NULL
                   PROVE  b = g[u] \/ Precedes(s, g[u], b)
        OBVIOUS
      <4>1. Precedes(s, u, b)  BY PrecedesOrder, <2>0
      <4> QED  BY <4>1, <2>1 DEF Follows
    <3>3. ~Precedes(s, v, v)  BY PrecedesOrder
    <3>4. g[u] = NULL \/ g[u] \in A  BY <2>1 DEF Follows
    <3> QED  BY <2>4, <3>1, <3>2, <3>3, <3>4 DEF Follows
  <2>5. CASE n # u /\ n # v
    <3>1. h[n] = g[n] /\ Follows(g[n], n, s, A) /\ n \in A \cup {HEAD}  BY <2>5 DEF Chained
    <3>2. CASE ~Precedes(s, n, v)  BY <3>1, <3>2 DEF Follows
    <3>3. CASE Precedes(s, n, v)
      <4>1. u \in A /\ Precedes(s, n, u)
        <5>1. CASE n = HEAD  BY <5>1, <2>5, PrecedesOrder
        <5>2. CASE n \in A  BY <5>2, <2>5, <3>3, <2>2
        <5> QED  BY <5>1, <5>2, <3>1
      <4>2. g[n] \in A /\ (u = g[n] \/ Precedes(s, g[n], u))  BY <3>1, <4>1 DEF Follows
      <4>3. Precedes(s, g[n], v)  BY <4>1, <4>2, <2>0, PrecedesOrder, u = HEAD \/ Precedes(s, u, v)
      <4> QED  BY <3>1, <4>1, <4>2, <4>3 DEF Follows
    <3> QED  BY <3>2, <3>3
  <2> QED  BY <2>3, <2>4, <2>5
<1>2. \A b, c \in A \cup {v} : s[b] = s[c] => b = c  BY DEF Chained
<1> QED  BY <1>1, <1>2 DEF Chained
(* Unlinking v from behind u.                                              *)
LEMMA ChainRemove ==
  ASSUME NEW s \in [Block -> Nat], NEW A, A \subseteq Block, NEW g, Chained(g, s, A),
         NEW v \in A, NEW u \in A \cup {HEAD}, g[u] = v,
         NEW h, h[u] = g[v], \A n \in A \cup {HEAD} : n # u => h[n] = g[n]
  PROVE  Chained(h, s, A \ {v})
<1>0. /\ A \cup {HEAD} \subseteq Node /\ NULL \notin A /\ HEAD \notin A
  BY Distinct DEF Node
<1>1. Follows(v, u, s, A) /\ Follows(g[v], v, s, A)  BY DEF Chained
<1>2. Precedes(s, u, v) /\ \A b \in A : Precedes(s, u, b) => b = v \/ Precedes(s, v, b)
  BY <1>0, <1>1 DEF Follows
<1>3. ASSUME NEW n \in (A \ {v}) \cup {HEAD}  PROVE Follows(h[n], n, s, A \ {v})
  <2>1. CASE n = u
    <3>1. CASE g[v] = NULL
      <4>1. \A b \in A : ~Precedes(s, v, b)  BY <3>1, <1>0, <1>1 DEF Follows
      <4>2. \A b \in A \ {v} : ~Precedes(s, u, b)  BY <4>1, <1>2
      <4> QED  BY <2>1, <3>1, <4>2 DEF Follows
    <3>2. CASE g[v] # NULL
      <4>1. /\ g[v] \in A /\ Precedes(s, v, g[v])
            /\ \A b \in A : Precedes(s, v, b) => b = g[v] \/ Precedes(s, g[v], b)
        BY <3>2, <1>1 DEF Follows
      <4>2. g[v] # v  BY <4>1, PrecedesOrder
      <4>3. Precedes(s, u, g[v])  BY <4>1, <1>0, <1>2, PrecedesOrder
      <4>4. \A b \in A \ {v} : Precedes(s, u, b) => b = g[v] \/ Precedes(s, g[v], b)
        BY <4>1, <1>2
      <4> QED  BY <2>1, <4>1, <4>2, <4>3, <4>4 DEF Follows
    <3> QED  BY <3>1, <3>2
  <2>2. CASE n # u
    <3>1. h[n] = g[n] /\ Follows(g[n], n, s, A) /\ n # v  BY <2>2, <1>0 DEF Chained
    <3>2. g[n] # v
      <4> SUFFICES ASSUME g[n] = v PROVE FALSE  OBVIOUS
      <4>1. /\ Precedes(s, n, v)
            /\ \A b \in A : Precedes(s, n, b) => b = v \/ Precedes(s, v, b)
        BY <3>1, <1>0 DEF Follows
      <4>2. u \in A => ~Precedes(s, n, u)
        <5> SUFFICES ASSUME u \in A, Precedes(s, n, u) PROVE FALSE  OBVIOUS
        <5>1. u = v \/ Precedes(s, v, u)  BY <4>1
        <5> QED  BY <5>1, <1>0, <1>2, PrecedesOrder
      <4>3. n \in A => ~Precedes(s, u, n)
        <5> SUFFICES ASSUME n \in A, Precedes(s, u, n) PROVE FALSE  OBVIOUS
        <5>1. Precedes(s, v, n)  BY <1>2, <3>1
        <5> QED  BY <5>1, <4>1, <1>0, PrecedesOrder
      <4>4. u # HEAD  BY <2>2, <4>3, PrecedesOrder
      <4>5. n # HEAD  BY <2>2, <4>2, PrecedesOrder
      <4>6. n \in A /\ u \in A /\ s[n] # s[u]  BY <2>2, <4>4, <4>5 DEF Chained
      <4> QED  BY <2>2, <4>2, <4>3, <4>6, PrecedesOrder
    <3> QED  BY <3>1, <3>2 DEF Follows
  <2> QED  BY <2>1, <2>2
<1>4. \A b, c \in A \ {v} : s[b] = s[c] => b = c  BY DEF Chained
<1> QED  BY <1>3, <1>4 DEF Chained

----------------------------------------------------------------------------
(* The hops of module SkipListInv.  TLA+ chooses a function with the       *)
(* equation of Hop(l); there is one.                                       *)
Pointers == [Node -> [Levels -> Block \cup {NULL}]]

LEMMA HopWalks ==
  ASSUME forward \in Pointers, NEW l \in Levels
  PROVE  /\ Hop(l)[0] = HEAD
         /\ \A k \in Nat :
              /\ Hop(l)[k] \in Node \cup {NULL}
              /\ Hop(l)[k+1] = IF Hop(l)[k] = NULL THEN NULL ELSE forward[Hop(l)[k]][l]
<1> DEFINE IsHop(h) == h = [k \in Nat |->
                              IF k = 0 THEN HEAD
                              ELSE IF h[k-1] = NULL THEN NULL ELSE forward[h[k-1]][l]]
           step == [x \in Node \cup {NULL} |-> IF x = NULL THEN NULL ELSE forward[x][l]]
<1>1. Hop(l) = CHOOSE h : IsHop(h)  BY DEF Hop
<1>2. PICK h : Iterates(h, step, HEAD)  BY IterateExists
<1> HIDE DEF step
<1>3. /\ h = [k \in Nat |-> h[k]]
      /\ h[0] = HEAD
      /\ \A k \in Nat : h[k+1] = step[h[k]]
  BY <1>2 DEF Iterates
<1>4. \A x \in Node \cup {NULL} :
        /\ step[x] \in Node \cup {NULL}
        /\ step[x] = IF x = NULL THEN NULL ELSE forward[x][l]
  BY DEF step, Pointers, Node
<1>5. \A k \in Nat : h[k] \in Node \cup {NULL}
  <2> DEFINE T == {k \in Nat : h[k] \in Node \cup {NULL}}
  <2>1. 0 \in T  BY <1>3 DEF Node
  <2>2. \A k \in Nat : k \in T => k + 1 \in T  BY <1>3, <1>4
  <2> HIDE DEF T
  <2>3. Nat \subseteq T  BY <2>1, <2>2, InductionOn
  <2> QED  BY <2>3 DEF T
<1>6. IsHop(h)
  <2>1. \A k \in Nat : h[k] = IF k = 0 THEN HEAD
                              ELSE IF h[k-1] = NULL THEN NULL ELSE forward[h[k-1]][l]
    <3> TAKE k \in Nat
    <3>1. CASE k = 0  BY <3>1, <1>3
    <3>2. CASE k # 0
      <4>1. k - 1 \in Nat /\ (k - 1) + 1 = k  BY <3>2
      <4>2. h[(k - 1) + 1] = step[h[k-1]] /\ h[k-1] \in Node \cup {NULL}  BY <4>1, <1>3, <1>5
      <4> QED  BY <3>2, <4>1, <4>2, <1>4
    <3> QED  BY <3>1, <3>2
  <2> QED  BY <1>3, <2>1
<1>7. IsHop(Hop(l))
  <2> HIDE DEF IsHop
  <2> QED  BY <1>1, <1>6
<1>8. Hop(l)[0] = HEAD  BY <1>7
<1>9. \A k \in Nat : Hop(l)[k+1] = IF Hop(l)[k] = NULL THEN NULL ELSE forward[Hop(l)[k]][l]
  BY <1>7
<1>10. \A k \in Nat : Hop(l)[k] \in Node \cup {NULL}
  <2> DEFINE T == {k \in Nat : Hop(l)[k] \in Node \cup {NULL}}
  <2>1. 0 \in T  BY <1>8 DEF Node
  <2>2. \A k \in Nat : k \in T => k + 1 \in T
    <3> SUFFICES ASSUME NEW k \in Nat, Hop(l)[k] \in Node \cup {NULL}
                 PROVE  Hop(l)[k+1] \in Node \cup {NULL}
      OBVIOUS
    <3> QED  BY <1>9 DEF Pointers, Node
  <2> HIDE DEF T
  <2>3. Nat \subseteq T  BY <2>1, <2>2, InductionOn
  <2> QED  BY <2>3 DEF T
<1> QED  BY <1>8, <1>9, <1>10

(* The hops of a chain are its blocks, in order, and then NULL.            *)
LEMMA ChainWalked ==
  ASSUME forward \in Pointers, NEW l \in Levels, NEW s \in [Block -> Nat],
         NEW A, A \subseteq Block, NEW g, Chained(g, s, A),
         \A n \in A \cup {HEAD} : g[n] = forward[n][l]
  PROVE  /\ Ends(l) /\ OnLevel(l) = A
         /\ \A b, c \in A : Before(l, b, c) <=> Precedes(s, b, c)
<1> DEFINE h == Hop(l)
           N == Cardinality(Block)
<1>0. /\ A \cup {HEAD} \subseteq Node /\ NULL \notin A /\ HEAD \notin A /\ HEAD # NULL
      /\ N \in Nat /\ Hops = 1 .. N + 1
  BY Distinct, SkipListConstants, FS_CardinalityType DEF SkipListConstants, Node, Hops
<1>1. h[0] = HEAD /\ \A k \in Nat : h[k+1] = IF h[k] = NULL THEN NULL ELSE forward[h[k]][l]
  BY HopWalks
<1> HIDE DEF h, N
<1>2. \A k \in Nat : h[k] \in A \cup {HEAD, NULL} /\ h[k+1] \in A \cup {NULL}
  <2> DEFINE T == {k \in Nat : h[k] \in A \cup {HEAD, NULL} /\ h[k+1] \in A \cup {NULL}}
  <2>1. \A k \in Nat : h[k] \in A \cup {HEAD, NULL} => h[k+1] \in A \cup {NULL}
    <3> SUFFICES ASSUME NEW k \in Nat, h[k] \in A \cup {HEAD}, h[k] # NULL
                 PROVE  h[k+1] \in A \cup {NULL}
      BY <1>1
    <3>1. h[k+1] = g[h[k]] /\ Follows(g[h[k]], h[k], s, A)  BY <1>1 DEF Chained
    <3> QED  BY <3>1 DEF Follows
  <2>2. 0 \in T  BY <1>1, <2>1
  <2>3. \A k \in Nat : k \in T => k + 1 \in T  BY <2>1
  <2> HIDE DEF T
  <2>4. Nat \subseteq T  BY <2>2, <2>3, InductionOn
  <2> QED  BY <2>4 DEF T
<1>3. \A k \in Nat : h[k] # NULL => Follows(h[k+1], h[k], s, A)
  <2> SUFFICES ASSUME NEW k \in Nat, h[k] # NULL PROVE Follows(h[k+1], h[k], s, A)  OBVIOUS
  <2>1. h[k] \in A \cup {HEAD}  BY <1>2
  <2> QED  BY <2>1, <1>1 DEF Chained
<1>4. \A j, k \in Nat : j < k /\ h[k] # NULL => h[j] # NULL /\ Precedes(s, h[j], h[k])
  <2> SUFFICES ASSUME NEW j \in Nat
               PROVE  \A k \in Nat : j < k /\ h[k] # NULL => h[j] # NULL /\ Precedes(s, h[j], h[k])
    OBVIOUS
  <2> DEFINE T == {k \in Nat : j < k /\ h[k] # NULL => h[j] # NULL /\ Precedes(s, h[j], h[k])}
  <2>1. 0 \in T  OBVIOUS
  <2>2. \A k \in Nat : k \in T => k + 1 \in T
    <3> SUFFICES ASSUME NEW k \in Nat, k \in T, j < k + 1, h[k+1] # NULL
                 PROVE  h[j] # NULL /\ Precedes(s, h[j], h[k+1])
      OBVIOUS
    <3>1. h[k] # NULL /\ Precedes(s, h[k], h[k+1]) /\ h[k+1] \in A
      BY <1>0, <1>1, <1>2, <1>3 DEF Follows
    <3>2. CASE j = k  BY <3>1, <3>2
    <3>3. CASE j < k
      <4>1. h[j] # NULL /\ Precedes(s, h[j], h[k])  BY <3>1, <3>3
      <4>2. h[k] \in A
        <5>1. h[(k-1)+1] \in A \cup {NULL}  BY <3>3, <1>2
        <5> QED  BY <3>1, <3>3, <5>1
      <4>3. h[j] \in Node  BY <4>1, <1>0, <1>2
      <4> QED  BY <3>1, <4>1, <4>2, <4>3, PrecedesOrder
    <3> QED  BY <3>2, <3>3
  <2> HIDE DEF T
  <2>3. Nat \subseteq T  BY <2>1, <2>2, InductionOn
  <2> QED  BY <2>3 DEF T
<1>5. h[N+1] = NULL
  <2> SUFFICES ASSUME h[N+1] # NULL PROVE FALSE  OBVIOUS
  <2> DEFINE f == [k \in 1 .. N + 1 |-> h[k]]
  <2>1. \A k \in 1 .. N + 1 : h[k] # NULL  BY <1>0, <1>4
  <2>2. \A k \in 1 .. N + 1 : h[k] \in A
    <3> TAKE k \in 1 .. N + 1
    <3>1. k - 1 \in Nat /\ (k - 1) + 1 = k  BY <1>0
    <3>2. h[(k-1)+1] \in A \cup {NULL}  BY <3>1, <1>2
    <3> QED  BY <3>1, <3>2, <2>1
  <2>3. f \in [1 .. N + 1 -> Block]  BY <2>2
  <2>4. IsFiniteSet(1 .. N + 1) /\ Cardinality(1 .. N + 1) = N + 1  BY <1>0, FS_Interval
  <2>5. IsFiniteSet(Block)  BY SkipListConstants DEF SkipListConstants
  <2>6. Cardinality(Block) < Cardinality(1 .. N + 1)  BY <1>0, <2>4 DEF N
  <2> HIDE DEF f
  <2>7. \E x, y \in 1 .. N + 1 : x # y /\ f[x] = f[y]
    <3>1. \A I : IsFiniteSet(I) /\ Cardinality(Block) < Cardinality(I) =>
            \A e \in [I -> Block] : \E x, y \in I : x # y /\ e[x] = e[y]
      BY <2>5, FS_PigeonHole
    <3> QED  BY <3>1, <2>3, <2>4, <2>6, ZenonT(60)
  <2>8. PICK x, y \in 1 .. N + 1 : x # y /\ h[x] = h[y]  BY <2>7 DEF f
  <2>9. \A k, m \in 1 .. N + 1 : k < m => Precedes(s, h[k], h[m])  BY <1>0, <1>4, <2>1
  <2>10. Precedes(s, h[x], h[x])  BY <2>8, <2>9, <1>0
  <2> QED  BY <2>2, <2>10, PrecedesOrder
<1>6. \A b \in A : \E k \in Hops : h[k] = b
  <2> SUFFICES ASSUME NEW b \in A, \A k \in Hops : h[k] # b PROVE FALSE  OBVIOUS
  <2> DEFINE T == {k \in Nat : k <= N + 1 => h[k] # NULL /\ Precedes(s, h[k], b)}
  <2>1. 0 \in T  BY <1>0, <1>1, PrecedesOrder
  <2>2. \A k \in Nat : k \in T => k + 1 \in T
    <3> SUFFICES ASSUME NEW k \in Nat, k \in T, k + 1 <= N + 1
                 PROVE  h[k+1] # NULL /\ Precedes(s, h[k+1], b)
      OBVIOUS
    <3>1. h[k] # NULL /\ Precedes(s, h[k], b)  BY <1>0
    <3>2. h[k+1] \in A /\ (b = h[k+1] \/ Precedes(s, h[k+1], b))  BY <3>1, <1>3 DEF Follows
    <3>3. h[k+1] # b  BY <1>0
    <3> QED  BY <3>2, <3>3, <1>0
  <2> HIDE DEF T
  <2>3. Nat \subseteq T  BY <2>1, <2>2, InductionOn
  <2>4. N + 1 \in T /\ N + 1 \in Nat  BY <2>3, <1>0
  <2>5. h[N+1] # NULL  BY <2>4, <1>0 DEF T
  <2> QED  BY <2>5, <1>5
<1>7. OnLevel(l) = A
  <2>1. \A k \in Hops : h[k] \in A \cup {NULL}
    <3> TAKE k \in Hops
    <3>1. k - 1 \in Nat /\ (k - 1) + 1 = k  BY <1>0
    <3> QED  BY <3>1, <1>2
  <2>2. OnLevel(l) = {h[k] : k \in Hops} \ {NULL}  BY DEF OnLevel, h
  <2> QED  BY <2>1, <2>2, <1>0, <1>6
<1>8. ASSUME NEW b \in A, NEW c \in A  PROVE Before(l, b, c) <=> Precedes(s, b, c)
  <2>1. \A j, k \in Hops : j < k /\ h[j] = b /\ h[k] = c => Precedes(s, b, c)
    BY <1>0, <1>4
  <2>2. PICK j \in Hops : h[j] = b  BY <1>6
  <2>3. PICK k \in Hops : h[k] = c  BY <1>6
  <2>4. Precedes(s, b, c) => j < k
    <3> SUFFICES ASSUME Precedes(s, b, c), ~(j < k) PROVE FALSE  OBVIOUS
    <3>1. b # c  BY PrecedesOrder
    <3>2. k < j  BY <3>1, <2>2, <2>3, <1>0
    <3>3. Precedes(s, c, b)  BY <3>2, <2>2, <2>3, <1>0, <1>4
    <3>4. Precedes(s, b, b)  BY <3>3, <1>0, PrecedesOrder
    <3> QED  BY <3>4, PrecedesOrder
  <2> QED  BY <2>1, <2>2, <2>3, <2>4 DEF Before, h
<1>9. Ends(l)  BY <1>5 DEF Ends, h, N
<1> QED  BY <1>7, <1>8, <1>9

----------------------------------------------------------------------------
(* The inductive invariant, said with a clock's readings s of when a block *)
(* was listed and with the set on[l] of blocks that each level links.      *)
Shape(s, on) ==
  /\ s \in [Block -> Nat]
  /\ \E now \in Nat : \A b \in Block : s[b] < now
  /\ on \in [Levels -> SUBSET Block]
  /\ \A l \in Levels : Chained([n \in Node |-> forward[n][l]], s, on[l])

(* Each level is part of the one below, but for the block that is being    *)
(* unlinked; there is nothing above level, and something at it.            *)
Leaving(l) == IF pc = "unlink" /\ l = i THEN {value} ELSE {}

Levelled(on) ==
  /\ \A l \in Levels : l > 0 => on[l] \subseteq on[l-1] \cup Leaving(l)
  /\ \A l \in Levels : l > level => on[l] = {}
  /\ level > 0 /\ pc \in {"idle", "find", "insert", "delete", "walk"} => on[level] # {}

(* The block that neither the caller nor the list has.                     *)
Moving == IF \/ pc = "insert"
             \/ pc = "link" /\ i = 0
             \/ pc = "unlink" /\ i > 0
             \/ pc = "trim"
          THEN {value} ELSE {}

Unlisted == held \cup Moving

(* A node at which the search leaves level l: it is smaller, and the next  *)
(* is not.                                                                 *)
Stops(n, l) == forward[n][l] = NULL \/ Size[forward[n][l]] >= want

Front(on, n, l) == (n = HEAD \/ (n \in on[l] /\ Size[n] < want)) /\ Stops(n, l)

(* value is the first block of its size, and the best for some request.    *)
First(s, on) ==
  \A l \in Levels : \A b \in on[l] : b = value \/ Size[b] < Size[value] \/ Precedes(s, value, b)

Best(on) == value \in on[0] /\ \E n \in Requests : value \in FindBest(on[0], Size, n)

SearchOK(on) == pc \in {"find", "insert", "delete"} =>
  /\ i \in -1 .. level
  /\ node = HEAD \/ (node \in on[IF i < 0 THEN 0 ELSE i] /\ Size[node] < want)
  /\ i = -1 => Stops(node, 0)
  /\ pc # "find" => \A l \in Levels : i < l /\ l <= level => Front(on, update[l], l)

ValueOK(s, on) ==
  /\ pc = "find" => want \in Requests
  /\ pc \notin {"idle", "find"} => value \in Block \ held /\ want = Size[value]
  /\ pc \in {"delete", "walk"} => Best(on) /\ First(s, on)

LinkOK(s, on) == pc = "link" =>
  /\ node = value /\ i \in 0 .. lvl + 1 /\ lvl <= level
  /\ \A l \in Levels : i <= l /\ l <= lvl => Front(on, update[l], l)
  /\ \A l \in Levels : value \in on[l] <=> l < i
  /\ \A b \in Block : b # value => s[b] < s[value]
  /\ level > lvl => on[level] # {}

WalkOK(on) == pc = "walk" =>
  /\ node = value
  /\ \A l \in Levels : l <= level => Front(on, update[l], l)

UnlinkOK(s, on) == pc = "unlink" =>
  /\ node = value /\ i \in 0 .. level + 1
  /\ \A l \in Levels : i <= l /\ l <= level => Front(on, update[l], l)
  /\ \A l \in Levels : l < i => value \notin on[l]
  /\ First(s, on)
  /\ i = 0 => Best(on)

TrimOK(on) == pc = "trim" => \A l \in Levels : value \notin on[l]

Consistent(s, on) ==
  /\ Shape(s, on)
  /\ Levelled(on)
  /\ on[0] = Block \ Unlisted
  /\ SearchOK(on)
  /\ ValueOK(s, on)
  /\ LinkOK(s, on)
  /\ WalkOK(on)
  /\ UnlinkOK(s, on)
  /\ TrimOK(on)

IInv == TypeOK /\ \E s, on : Consistent(s, on)

----------------------------------------------------------------------------
LEMMA LevelsAre ==
  /\ 0 \in Levels /\ Levels \subseteq Nat
  /\ \A l \in Levels : l > 0 => l - 1 \in Levels
  /\ \A l \in Levels, k \in Nat : k <= l => k \in Levels
BY SkipListConstants DEF SkipListConstants, Levels

LEMMA SizesAre == Size \in [Block -> Nat \ {0}] /\ Requests \subseteq Nat
BY SkipListConstants DEF SkipListConstants

(* What a level's pointers are, for the head and the blocks on it.         *)
LEMMA Pointer ==
  ASSUME NEW s, NEW on, Shape(s, on), NEW l \in Levels, NEW n \in on[l] \cup {HEAD}
  PROVE  Follows(forward[n][l], n, s, on[l])
<1>1. n \in Node /\ Chained([m \in Node |-> forward[m][l]], s, on[l])
  BY DEF Shape, Node
<1> QED  BY <1>1 DEF Chained

LEMMA InitOK == Init => IInv
<1> SUFFICES ASSUME Init PROVE IInv  OBVIOUS
<1>1. TypeOK  BY LevelsAre, SkipListConstants DEF SkipListConstants, Init, TypeOK, NoUpdate, Node, Levels
<1> DEFINE s == [b \in Block |-> 0]
           on == [l \in Levels |-> {}]
<1>2. Shape(s, on)
  <2>1. \A l \in Levels : Chained([n \in Node |-> forward[n][l]], s, on[l])
    BY DEF Init, NoUpdate, Chained, Follows, Node
  <2>2. \A b \in Block : s[b] < 1  OBVIOUS
  <2> QED  BY <2>1, <2>2 DEF Shape
<1>3. Levelled(on)  BY LevelsAre DEF Levelled, Leaving, Init
<1>4. on[0] = Block \ Unlisted  BY LevelsAre DEF Init, Unlisted
<1>5. Consistent(s, on)
  BY <1>2, <1>3, <1>4 DEF Init, Consistent, SearchOK, ValueOK, LinkOK, WalkOK, UnlinkOK, TrimOK
<1> QED  BY <1>1, <1>5 DEF IInv

(* The three searches begin at the head.                                   *)
LEMMA MallocOK ==
  ASSUME TypeOK, NEW s, NEW on, Consistent(s, on), NEW n \in Requests, Malloc(n)
  PROVE  TypeOK' /\ Consistent(s, on)'
<1>1. TypeOK'
  BY LevelsAre, SizesAre, SkipListConstants DEF SkipListConstants, TypeOK, Malloc, Search, NoUpdate, Node, Levels
<1>2. Shape(s, on)' /\ Levelled(on)'
  BY DEF Consistent, Shape, Levelled, Leaving, Malloc, Search
<1>3. (on[0] = Block \ Unlisted)'
  BY DEF Consistent, Unlisted, Moving, Malloc, Search
<1>4. SearchOK(on)'
  BY DEF SearchOK, TypeOK, Levels, Malloc, Search
<1>5. ValueOK(s, on)' /\ LinkOK(s, on)' /\ WalkOK(on)' /\ UnlinkOK(s, on)' /\ TrimOK(on)'
  BY DEF ValueOK, LinkOK, WalkOK, UnlinkOK, TrimOK, Malloc, Search
<1> QED  BY <1>1, <1>2, <1>3, <1>4, <1>5 DEF Consistent

LEMMA FreeOK ==
  ASSUME TypeOK, NEW s, NEW on, Consistent(s, on), NEW v \in held, Free(v)
  PROVE  TypeOK' /\ Consistent(s, on)'
<1>0. v \in Block  BY DEF TypeOK
<1>1. TypeOK'
  BY <1>0, LevelsAre, SizesAre, SkipListConstants DEF SkipListConstants, TypeOK, Free, Search, NoUpdate, Node, Levels
<1>2. Shape(s, on)' /\ Levelled(on)'
  BY DEF Consistent, Shape, Levelled, Leaving, Free, Search
<1>3. (on[0] = Block \ Unlisted)'
  BY DEF Consistent, Unlisted, Moving, Free, Search
<1>4. SearchOK(on)'
  BY DEF SearchOK, TypeOK, Levels, Free, Search
<1>5. ValueOK(s, on)' /\ LinkOK(s, on)' /\ WalkOK(on)' /\ UnlinkOK(s, on)' /\ TrimOK(on)'
  BY <1>0 DEF ValueOK, LinkOK, WalkOK, UnlinkOK, TrimOK, Free, Search
<1> QED  BY <1>1, <1>2, <1>3, <1>4, <1>5 DEF Consistent

----------------------------------------------------------------------------
(* The search.                                                             *)
LEMMA OnLevels ==
  ASSUME NEW s, NEW on, Shape(s, on), NEW l \in Levels
  PROVE  on[l] \subseteq Block /\ HEAD \notin on[l] /\ NULL \notin on[l]
BY Distinct DEF Shape

(* What is on a level is on the levels below it, down to one that no block *)
(* is leaving.                                                             *)
LEMMA Downward ==
  ASSUME NEW on, NEW j \in Levels, \A l \in Levels : l > j => on[l] \subseteq on[l-1]
  PROVE  \A l \in Levels : l >= j => on[l] \subseteq on[j]
<1> DEFINE T == {k \in Nat : j + k \in Levels => on[j+k] \subseteq on[j]}
<1>0. j \in Nat  BY LevelsAre
<1>1. 0 \in T  BY <1>0
<1>2. \A k \in Nat : k \in T => k + 1 \in T
  <2> SUFFICES ASSUME NEW k \in Nat, k \in T, j + (k + 1) \in Levels
               PROVE  on[j + (k+1)] \subseteq on[j]
    OBVIOUS
  <2>1. j + k \in Levels /\ j + (k + 1) > j /\ (j + (k + 1)) - 1 = j + k  BY <1>0, LevelsAre
  <2> QED  BY <2>1
<1> HIDE DEF T
<1>3. Nat \subseteq T  BY <1>1, <1>2, InductionOn
<1>4. ASSUME NEW l \in Levels, l >= j  PROVE on[l] \subseteq on[j]
  <2>1. l - j \in Nat /\ j + (l - j) = l  BY <1>0, <1>4, LevelsAre
  <2> QED  BY <2>1, <1>3 DEF T
<1> QED  BY <1>4

LEMMA Nested ==
  ASSUME NEW on, Levelled(on), pc # "unlink"  PROVE \A l \in Levels : on[l] \subseteq on[0]
<1>1. \A l \in Levels : l > 0 => on[l] \subseteq on[l-1]  BY DEF Levelled, Leaving
<1>2. \A l \in Levels : l >= 0  BY LevelsAre
<1> QED  BY <1>1, <1>2, LevelsAre, Downward

LEMMA AdvanceOK ==
  ASSUME TypeOK, NEW s, NEW on, Consistent(s, on), Advance
  PROVE  TypeOK' /\ Consistent(s, on)'
<1> USE DEF Advance, Searching
<1>1. i \in Levels
  BY SkipListConstants DEF SkipListConstants, Consistent, SearchOK, TypeOK, Levels
<1>2. node \in on[i] \cup {HEAD}  BY <1>1, LevelsAre DEF Consistent, SearchOK
<1>3. node' \in on[i] /\ node' \in Block /\ Size[node'] < want
  <2>1. Follows(forward[node][i], node, s, on[i])  BY <1>1, <1>2, Pointer DEF Consistent
  <2> QED  BY <1>1, <2>1, OnLevels DEF NextIsSmaller, Follows, Consistent
<1>4. TypeOK'  BY <1>3 DEF TypeOK, Node
<1>5. Shape(s, on)' /\ Levelled(on)' /\ (on[0] = Block \ Unlisted)'
  BY DEF Consistent, Shape, Levelled, Leaving, Unlisted, Moving
<1>6. SearchOK(on)'
  BY <1>1, <1>3, LevelsAre DEF Consistent, SearchOK, Front, Stops
<1>7. ValueOK(s, on)' /\ LinkOK(s, on)' /\ WalkOK(on)' /\ UnlinkOK(s, on)' /\ TrimOK(on)'
  BY DEF Consistent, ValueOK, Best, First, LinkOK, WalkOK, UnlinkOK, TrimOK
<1> QED  BY <1>4, <1>5, <1>6, <1>7 DEF Consistent

LEMMA DescendOK ==
  ASSUME TypeOK, NEW s, NEW on, Consistent(s, on), Descend
  PROVE  TypeOK' /\ Consistent(s, on)'
<1> USE DEF Descend, Searching
<1>1. i \in Levels /\ i \in Nat /\ i <= level
  BY SkipListConstants DEF SkipListConstants, Consistent, SearchOK, TypeOK, Levels
<1>2. node \in on[i] \cup {HEAD} /\ (node = HEAD \/ Size[node] < want)
  BY <1>1 DEF Consistent, SearchOK
<1>3. Stops(node, i)
  <2>1. forward[node][i] \in Block \cup {NULL}  BY <1>1 DEF TypeOK
  <2> QED  BY <2>1, SizesAre DEF NextIsSmaller, Stops, TypeOK
<1>4. TypeOK'
  <2>1. i' \in -1 .. SKIP_MAX_LEVEL + 1
    BY <1>1, SkipListConstants DEF SkipListConstants, Levels
  <2>2. update' \in [Levels -> Node \cup {NULL}]  BY DEF TypeOK
  <2> QED  BY <2>1, <2>2 DEF TypeOK
<1>5. Shape(s, on)' /\ Levelled(on)' /\ (on[0] = Block \ Unlisted)'
  BY DEF Consistent, Shape, Levelled, Leaving, Unlisted, Moving
<1>6. SearchOK(on)'
  <2>1. i' \in -1 .. level'  BY <1>1 DEF TypeOK, Levels
  <2>2. (node = HEAD \/ (node \in on[IF i < 0 THEN 0 ELSE i] /\ Size[node] < want))'
    <3>1. CASE i = 0  BY <3>1, <1>2
    <3>2. CASE i > 0
      <4>1. on[i] \subseteq on[i-1]  BY <1>1, <3>2 DEF Consistent, Levelled, Leaving
      <4> QED  BY <3>2, <4>1, <1>1, <1>2
    <3> QED  BY <3>1, <3>2, <1>1
  <2>3. (i = -1 => Stops(node, 0))'
    <3>1. i' = -1 => i = 0  BY <1>1
    <3> QED  BY <3>1, <1>3 DEF Stops
  <2>4. (pc # "find" => \A l \in Levels : i < l /\ l <= level => Front(on, update[l], l))'
    <3> SUFFICES ASSUME pc # "find", NEW l \in Levels, i - 1 < l, l <= level
                 PROVE  Front(on, update[l], l)'
      OBVIOUS
    <3>1. CASE l = i
      <4>1. update'[l] = node  BY <3>1 DEF TypeOK
      <4> QED  BY <3>1, <4>1, <1>2, <1>3 DEF Front, Stops
    <3>2. CASE l # i
      <4>1. update'[l] = update[l] /\ i < l  BY <3>2, <1>1, LevelsAre DEF TypeOK
      <4> QED  BY <4>1 DEF Consistent, SearchOK, Front, Stops
    <3> QED  BY <3>1, <3>2
  <2> QED  BY <2>1, <2>2, <2>3, <2>4 DEF SearchOK
<1>7. ValueOK(s, on)' /\ LinkOK(s, on)' /\ WalkOK(on)' /\ UnlinkOK(s, on)' /\ TrimOK(on)'
  BY DEF Consistent, ValueOK, Best, First, LinkOK, WalkOK, UnlinkOK, TrimOK
<1> QED  BY <1>4, <1>5, <1>6, <1>7 DEF Consistent

(* After Return the invariant is about the chains alone.                   *)
LEMMA ReturnOK ==
  ASSUME TypeOK, NEW s, NEW on, Shape(s, on), UNCHANGED <<forward, level>>, Return,
         held' \subseteq Block,
         \A l \in Levels : l > 0 => on[l] \subseteq on[l-1],
         \A l \in Levels : l > level => on[l] = {},
         level > 0 => on[level] # {},
         on[0] = Block \ held'
  PROVE  TypeOK' /\ Consistent(s, on)'
<1> USE DEF Return
<1>1. TypeOK'
  BY LevelsAre, SkipListConstants DEF SkipListConstants, TypeOK, NoUpdate, Node, Levels
<1>2. Shape(s, on)' /\ Levelled(on)'  BY DEF Shape, Levelled, Leaving
<1>3. (on[0] = Block \ Unlisted)'  BY DEF Unlisted, Moving
<1> QED
  BY <1>1, <1>2, <1>3 DEF Consistent, SearchOK, ValueOK, LinkOK, WalkOK, UnlinkOK, TrimOK

LEMMA NothingFoundOK ==
  ASSUME TypeOK, NEW s, NEW on, Consistent(s, on), NothingFound
  PROVE  TypeOK' /\ Consistent(s, on)'
<1>1. pc = "find" /\ Return /\ UNCHANGED <<forward, level, held>>
  BY DEF NothingFound, Searched
<1>2. Shape(s, on) /\ Levelled(on) /\ on[0] = Block \ held /\ held' \subseteq Block
  BY <1>1 DEF Consistent, Unlisted, Moving, TypeOK
<1>3. /\ \A l \in Levels : l > 0 => on[l] \subseteq on[l-1]
      /\ \A l \in Levels : l > level => on[l] = {}
      /\ level > 0 => on[level] # {}
  BY <1>1, <1>2 DEF Levelled, Leaving
<1> QED  BY <1>1, <1>2, <1>3, ReturnOK

LEMMA BestFoundOK ==
  ASSUME TypeOK, NEW s, NEW on, Consistent(s, on), BestFound
  PROVE  TypeOK' /\ Consistent(s, on)'
<1> USE DEF BestFound, Searched, Search
<1> DEFINE c == Candidate
<1>1. /\ i = -1 /\ want \in Requests /\ want \in Nat /\ 0 \in Levels
      /\ node \in on[0] \cup {HEAD} /\ (node = HEAD \/ Size[node] < want)
      /\ Stops(node, 0)
  BY LevelsAre, SizesAre DEF Consistent, SearchOK, ValueOK, TypeOK
<1>2. c \in on[0] /\ c \in Block /\ Size[c] >= want
      /\ \A b \in on[0] : Precedes(s, node, b) => b = c \/ Precedes(s, c, b)
  <2>1. Follows(c, node, s, on[0])  BY <1>1, Pointer DEF Consistent, Candidate
  <2> QED  BY <1>1, <2>1, OnLevels DEF Candidate, Stops, Follows, Consistent
<1>3. \A b \in on[0] : Size[b] >= want => b = c \/ Precedes(s, c, b)
  <2> SUFFICES ASSUME NEW b \in on[0], Size[b] >= want PROVE Precedes(s, node, b)
    BY <1>2
  <2>1. b \in Block  BY <1>1, OnLevels DEF Consistent
  <2>2. node = HEAD \/ node \in Block  BY <1>1, OnLevels DEF Consistent
  <2> QED  BY <1>1, <2>1, <2>2, SizesAre DEF Precedes
<1> HIDE DEF c
<1>4. \A b \in on[0] : b \in Block /\ Size[b] \in Nat /\ b # HEAD
  BY <1>1, OnLevels, SizesAre DEF Consistent
<1>5. c \in FindBest(on[0], Size, want)
  BY <1>2, <1>3, <1>4 DEF FindBest, Fitting, Precedes
<1>6. pc' = "delete" /\ value' = c /\ want' = Size[c] /\ node' = HEAD /\ i' = level
      /\ UNCHANGED <<forward, level, held, lvl>>
  BY DEF c
<1>7. TypeOK'
  BY <1>2, <1>6, LevelsAre, SizesAre, SkipListConstants
  DEF SkipListConstants, TypeOK, NoUpdate, Node, Levels
<1>8. Shape(s, on)' /\ Levelled(on)' /\ (on[0] = Block \ Unlisted)'
  BY DEF Consistent, Shape, Levelled, Leaving, Unlisted, Moving
<1>9. SearchOK(on)'  BY <1>6 DEF SearchOK, TypeOK, Levels
<1>10. ValueOK(s, on)'
  <2>1. c \notin held  BY <1>2 DEF Consistent, Unlisted
  <2>2. Best(on)'  BY <1>1, <1>2, <1>5, <1>6 DEF Best
  <2>3. First(s, on)'
    <3> SUFFICES ASSUME NEW l \in Levels, NEW b \in on[l]
                 PROVE  b = c \/ Size[b] < Size[c] \/ Precedes(s, c, b)
      BY <1>6 DEF First, Precedes
    <3>1. b \in on[0]  BY Nested DEF Consistent
    <3> QED  BY <3>1, <1>1, <1>2, <1>3, <1>4
  <2> QED  BY <1>2, <1>6, <2>1, <2>2, <2>3 DEF ValueOK
<1>11. LinkOK(s, on)' /\ WalkOK(on)' /\ UnlinkOK(s, on)' /\ TrimOK(on)'
  BY <1>6 DEF LinkOK, WalkOK, UnlinkOK, TrimOK
<1> QED  BY <1>7, <1>8, <1>9, <1>10, <1>11 DEF Consistent

----------------------------------------------------------------------------
(* insert().                                                               *)

(* A later clock's reading for a block that no level links.                *)
LEMMA ShapeClock ==
  ASSUME NEW s, NEW on, Shape(s, on), NEW v \in Block, \A l \in Levels : v \notin on[l],
         NEW now \in Nat, \A b \in Block : s[b] < now
  PROVE  Shape([s EXCEPT ![v] = now], on)
<1> DEFINE r == [s EXCEPT ![v] = now]
<1>1. /\ r \in [Block -> Nat] /\ r[v] = now
      /\ \A b \in Block : b # v => r[b] = s[b]
      /\ \A b \in Block : r[b] <= now
  BY DEF Shape
<1> HIDE DEF r
<1>2. now + 1 \in Nat /\ \A b \in Block : r[b] < now + 1  BY <1>1
<1>3. ASSUME NEW l \in Levels  PROVE Chained([n \in Node |-> forward[n][l]], r, on[l])
  <2> DEFINE g == [n \in Node |-> forward[n][l]]
             A == on[l]
  <2>1. A \subseteq Block /\ v \notin A /\ HEAD \notin A /\ Chained(g, s, A)
    BY OnLevels DEF Shape
  <2> HIDE DEF g, A
  <2>2. \A b \in A : r[b] = s[b]  BY <1>1, <2>1
  <2>3. \A n \in A \cup {HEAD}, b \in A : Precedes(r, n, b) <=> Precedes(s, n, b)
    BY <2>2 DEF Precedes
  <2>4. ASSUME NEW n \in A \cup {HEAD}  PROVE Follows(g[n], n, r, A)
    <3>1. Follows(g[n], n, s, A)  BY <2>1 DEF Chained
    <3> QED  BY <3>1, <2>3 DEF Follows
  <2>5. Chained(g, r, A)  BY <2>1, <2>2, <2>4 DEF Chained
  <2> QED  BY <2>5 DEF g, A
<1>4. on \in [Levels -> SUBSET Block]  BY DEF Shape
<1> QED  BY <1>1, <1>2, <1>3, <1>4 DEF Shape, r

LEMMA ChooseLevelOK ==
  ASSUME TypeOK, NEW s, NEW on, Consistent(s, on), NEW l \in Levels, ChooseLevel(l)
  PROVE  TypeOK' /\ \E r : Consistent(r, on)'
<1> USE DEF ChooseLevel, Searched
<1>1. /\ pc = "insert" /\ i = -1 /\ value \in Block \ held /\ want = Size[value]
      /\ on[0] = Block \ (held \cup {value}) /\ 0 \in Levels
  BY LevelsAre DEF Consistent, SearchOK, ValueOK, Unlisted, Moving, TypeOK
<1>2. \A k \in Levels : value \notin on[k]  BY <1>1, Nested DEF Consistent
<1>3. Candidate # value
  <2>1. node \in on[0] \cup {HEAD}  BY <1>1 DEF Consistent, SearchOK
  <2>2. Follows(Candidate, node, s, on[0])  BY <1>1, <2>1, Pointer DEF Consistent, Candidate
  <2> QED  BY <1>1, <1>2, <2>2, Distinct DEF Follows
<1>4. /\ lvl' = l
      /\ update' = [j \in Levels |-> IF level < j /\ j <= l THEN HEAD ELSE update[j]]
      /\ level' = IF l > level THEN l ELSE level
      /\ node' = value /\ pc' = "link" /\ i' = 0
      /\ UNCHANGED <<forward, held, value, want>>
  BY <1>3
<1>5. level \in Nat /\ l \in Nat /\ level' \in Levels /\ l <= level' /\ level <= level'
  BY <1>4, SkipListConstants DEF SkipListConstants, TypeOK, Levels
<1>6. TypeOK'
  BY <1>1, <1>4, <1>5, LevelsAre, SkipListConstants DEF SkipListConstants, TypeOK, Node
<1>7. PICK now \in Nat : \A b \in Block : s[b] < now  BY DEF Consistent, Shape
<1>0. PICK r : r = [s EXCEPT ![value] = now]  OBVIOUS
<1>8. Shape(r, on)'
  <2>1. Shape(r, on)  BY <1>0, <1>1, <1>2, <1>7, ShapeClock DEF Consistent
  <2> QED  BY <2>1, <1>4 DEF Shape
<1>9. \A b \in Block : b # value => r[b] < r[value]
  BY <1>0, <1>1, <1>7 DEF Consistent, Shape
<1>10. Levelled(on)'
  BY <1>1, <1>4, <1>5, LevelsAre DEF Consistent, Levelled, Leaving
<1>11. (on[0] = Block \ Unlisted)'  BY <1>1, <1>4 DEF Unlisted, Moving
<1>12. LinkOK(r, on)'
  <2>1. ASSUME NEW k \in Levels, k <= l  PROVE Front(on, update[k], k)'
    <3>1. CASE k <= level
      <4>1. update'[k] = update[k]  BY <3>1, <1>4, <1>5, LevelsAre
      <4>2. Front(on, update[k], k)  BY <3>1, <1>1, LevelsAre DEF Consistent, SearchOK
      <4> QED  BY <4>1, <4>2, <1>4 DEF Front, Stops
    <3>2. CASE k > level
      <4>1. update'[k] = HEAD  BY <3>2, <2>1, <1>4
      <4>2. on[k] = {}  BY <3>2 DEF Consistent, Levelled
      <4>3. Follows(forward[HEAD][k], HEAD, s, on[k])  BY Pointer DEF Consistent
      <4>4. forward[HEAD][k] = NULL  BY <4>2, <4>3 DEF Follows
      <4> QED  BY <4>1, <4>4, <1>4 DEF Front, Stops
    <3> QED  BY <3>1, <3>2, <1>5, LevelsAre
  <2>2. (level > lvl => on[level] # {})'
    <3>1. CASE l > level  BY <3>1, <1>4, <1>5
    <3>2. CASE ~(l > level)
      <4> SUFFICES ASSUME level > l PROVE on[level] # {}  BY <3>2, <1>4
      <4> QED  BY <1>1, <1>5 DEF Consistent, Levelled
    <3> QED  BY <3>1, <3>2
  <2>3. \A k \in Levels : value' \in on[k] <=> k < i'  BY <1>2, <1>4, LevelsAre
  <2> QED  BY <1>4, <1>5, <1>9, <2>1, <2>2, <2>3 DEF LinkOK
<1>13. SearchOK(on)' /\ ValueOK(r, on)' /\ WalkOK(on)' /\ UnlinkOK(r, on)' /\ TrimOK(on)'
  BY <1>1, <1>4 DEF SearchOK, ValueOK, WalkOK, UnlinkOK, TrimOK
<1>14. Consistent(r, on)'
  BY <1>8, <1>10, <1>11, <1>12, <1>13 DEF Consistent
<1> QED  BY <1>6, <1>14

(* What one iteration of the linking loop does to the pointers.            *)
LEMMA LinkPointers ==
  ASSUME TypeOK, NEW s, NEW on, Consistent(s, on), Link
  PROVE  /\ i \in Levels /\ value \in Block /\ value \notin on[i]
         /\ update[i] \in on[i] \cup {HEAD} /\ update[i] # value
         /\ forward' \in Pointers
         /\ \A n \in Node, l \in Levels : l # i => forward'[n][l] = forward[n][l]
         /\ forward'[update[i]][i] = value /\ forward'[value][i] = forward[update[i]][i]
         /\ \A n \in Node : n # update[i] /\ n # value => forward'[n][i] = forward[n][i]
<1>1. /\ i \in Levels /\ value \in Block /\ node = value
      /\ value \notin on[i] /\ Front(on, update[i], i)
  <2>1. i \in Levels  BY SkipListConstants DEF SkipListConstants, TypeOK, Levels, Consistent, LinkOK, Link
  <2> QED  BY <2>1, LevelsAre DEF Consistent, LinkOK, ValueOK, Link
<1>2. update[i] \in on[i] \cup {HEAD} /\ update[i] # value /\ update[i] \in Node /\ value \in Node
  BY <1>1, Distinct, OnLevels DEF Front, Node, Consistent
<1>3. forward' = [forward EXCEPT ![value][i] = forward[update[i]][i], ![update[i]][i] = value]
  BY <1>1 DEF Link
<1>4. forward \in Pointers  BY DEF TypeOK, Pointers
<1> DEFINE mid == [forward EXCEPT ![value][i] = forward[update[i]][i]]
<1>5. /\ mid \in Pointers
      /\ \A n \in Node, l \in Levels : l # i => mid[n][l] = forward[n][l]
      /\ mid[value][i] = forward[update[i]][i]
      /\ \A n \in Node : n # value => mid[n] = forward[n]
  BY <1>1, <1>2, <1>4 DEF Pointers
<1>6. forward' = [mid EXCEPT ![update[i]][i] = value]  BY <1>3
<1> HIDE DEF mid
<1>7. /\ forward' \in Pointers
      /\ \A n \in Node, l \in Levels : l # i => forward'[n][l] = mid[n][l]
      /\ forward'[update[i]][i] = value
      /\ \A n \in Node : n # update[i] => forward'[n] = mid[n]
  BY <1>1, <1>2, <1>5, <1>6 DEF Pointers
<1> QED  BY <1>1, <1>2, <1>5, <1>7

LEMMA LinkOn ==
  ASSUME TypeOK, NEW s, NEW on, Consistent(s, on), Link,
         NEW on2, on2 = [on EXCEPT ![i] = @ \cup {value}]
  PROVE  TypeOK' /\ Consistent(s, on2)'
<1>1. /\ i \in Levels /\ value \in Block /\ value \notin on[i]
      /\ update[i] \in on[i] \cup {HEAD} /\ update[i] # value /\ forward' \in Pointers
      /\ \A n \in Node, l \in Levels : l # i => forward'[n][l] = forward[n][l]
      /\ forward'[update[i]][i] = value /\ forward'[value][i] = forward[update[i]][i]
      /\ \A n \in Node : n # update[i] /\ n # value => forward'[n][i] = forward[n][i]
  BY LinkPointers
<1>2. /\ i \in Nat /\ i <= lvl /\ lvl <= level /\ lvl \in Nat /\ level \in Nat
      /\ node = value /\ pc = "link" /\ pc' = "link" /\ i' = i + 1
      /\ value \notin held /\ want = Size[value] /\ Size[value] \in Nat
      /\ Front(on, update[i], i)
      /\ \A l \in Levels : i <= l /\ l <= lvl => Front(on, update[l], l)
      /\ \A l \in Levels : value \in on[l] <=> l < i
      /\ \A b \in Block : b # value => s[b] < s[value]
      /\ level > lvl => on[level] # {}
      /\ UNCHANGED <<level, held, value, want, node, update, lvl>>
  BY <1>1, LevelsAre, SizesAre DEF Consistent, LinkOK, ValueOK, TypeOK, Link
<1>3. on2 \in [Levels -> SUBSET Block] /\ on2[i] = on[i] \cup {value}
      /\ \A l \in Levels : l # i => on2[l] = on[l]
  BY <1>1 DEF Consistent, Shape
<1>4. TypeOK'
  <2>1. i' \in -1 .. SKIP_MAX_LEVEL + 1
    BY <1>1, <1>2, SkipListConstants DEF SkipListConstants, Levels
  <2> QED  BY <1>1, <1>2, <2>1 DEF TypeOK, Pointers
<1>5. ASSUME NEW l \in Levels  PROVE Chained([n \in Node |-> forward'[n][l]], s, on2[l])
  <2> DEFINE g == [n \in Node |-> forward[n][l]]
             h == [n \in Node |-> forward'[n][l]]
             A == on[l]
             u == update[i]
  <2>1. Chained(g, s, A) /\ A \subseteq Block /\ HEAD \notin A /\ NULL \notin A /\ s \in [Block -> Nat]
    BY OnLevels DEF Consistent, Shape
  <2>2. CASE l # i
    <3>1. \A n \in Node : forward'[n][l] = forward[n][l]  BY <1>1, <2>2
    <3>2. h = g  BY <3>1
    <3> QED  BY <3>2, <2>1, <2>2, <1>3
  <2>3. CASE l = i
    <3>1. u \in Node /\ value \in Node /\ A \cup {HEAD} \subseteq Node  BY <1>1, <2>1, <2>3 DEF Node
    <3>0. \A n \in Node : g[n] = forward[n][i] /\ h[n] = forward'[n][i]  BY <2>3
    <3>2. h[value] = g[u] /\ h[u] = value /\ \A n \in A \cup {HEAD} : n # u => h[n] = g[n]
      <4>1. h[value] = g[u] /\ h[u] = value  BY <1>1, <3>0, <3>1
      <4>2. ASSUME NEW n \in A \cup {HEAD}, n # u  PROVE h[n] = g[n]
        <5>1. n \in Node /\ n # value  BY <3>1, <2>1, <2>3, <1>1, Distinct
        <5> QED  BY <5>1, <4>2, <1>1, <3>0
      <4> QED  BY <4>1, <4>2
    <3>3. Precedes(s, u, value)  BY <1>2, <1>1 DEF Front, Precedes
    <3>4. g[u] = NULL \/ Precedes(s, value, g[u])
      <4>1. g[u] = forward[u][i] /\ Follows(g[u], u, s, A)  BY <1>1, <2>1, <2>3, <3>1 DEF Chained
      <4> SUFFICES ASSUME g[u] # NULL PROVE Precedes(s, value, g[u])  OBVIOUS
      <4>2. g[u] \in A /\ Size[g[u]] >= Size[value]
        BY <4>1, <1>2 DEF Follows, Front, Stops
      <4>3. g[u] \in Block /\ g[u] # value /\ Size[g[u]] \in Nat  BY <4>2, <2>1, <2>3, <1>1, SizesAre
      <4>4. s[g[u]] < s[value] /\ s[value] \in Nat /\ s[g[u]] \in Nat
        BY <4>3, <2>1, <1>1, <1>2
      <4> HIDE DEF g, u
      <4> QED  BY <4>2, <4>3, <4>4, <1>2 DEF Precedes
    <3>5. \A b \in A : s[b] # s[value]
      <4> TAKE b \in A
      <4>1. b \in Block /\ b # value  BY <1>1, <2>1, <2>3
      <4> QED  BY <4>1, <1>1, <1>2, <2>1
    <3>6. value \notin A /\ u \in A \cup {HEAD} /\ on2[l] = A \cup {value}  BY <1>1, <1>3, <2>3
    <3> HIDE DEF g, h, A, u
    <3>7. Chained(h, s, A \cup {value})
      <4>1. s \in [Block -> Nat] /\ A \subseteq Block /\ Chained(g, s, A)  BY <2>1
      <4>2. value \in Block  BY <1>1
      <4>3. ASSUME NEW f, f[value] = g[u], f[u] = value,
                   \A n \in A \cup {HEAD} : n # u => f[n] = g[n]
            PROVE  Chained(f, s, A \cup {value})
        BY <4>1, <4>2, <3>3, <3>4, <3>5, <3>6, <4>3, ChainInsert, ZenonT(60)
      <4>4. h[value] = g[u] /\ h[u] = value /\ \A n \in A \cup {HEAD} : n # u => h[n] = g[n]
        BY <3>2
      <4> QED  BY <4>3, <4>4
    <3> QED  BY <3>6, <3>7 DEF h
  <2> QED  BY <2>2, <2>3
<1>6. Shape(s, on2)'
  BY <1>3, <1>5 DEF Consistent, Shape
<1>7. Levelled(on2)'
  <2>1. ASSUME NEW l \in Levels, l > 0  PROVE on2[l] \subseteq on2[l-1]
    <3>1. on[l] \subseteq on[l-1] /\ l - 1 \in Levels /\ l \in Nat
      BY <1>2, <2>1, LevelsAre DEF Consistent, Levelled, Leaving
    <3>2. CASE l = i
      <4>1. value \in on[l-1] /\ l - 1 # i  BY <3>1, <3>2, <1>2
      <4> QED  BY <4>1, <3>1, <3>2, <1>3
    <3>3. CASE l # i  BY <3>1, <3>3, <1>3
    <3> QED  BY <3>2, <3>3
  <2>2. \A l \in Levels : l > level => on2[l] = {}
    BY <1>1, <1>2, <1>3, LevelsAre DEF Consistent, Levelled
  <2> QED  BY <1>2, <2>1, <2>2 DEF Levelled, Leaving
<1>8. (on2[0] = Block \ Unlisted)'
  <2>1. CASE i = 0  BY <2>1, <1>1, <1>2, <1>3 DEF Consistent, Unlisted, Moving
  <2>2. CASE i > 0  BY <2>2, <1>1, <1>2, <1>3, LevelsAre DEF Consistent, Unlisted, Moving
  <2> QED  BY <2>1, <2>2, <1>2
<1>9. LinkOK(s, on2)'
  <2>1. i' \in 0 .. lvl' + 1  BY <1>2
  <2>2. ASSUME NEW l \in Levels, i + 1 <= l, l <= lvl  PROVE Front(on2, update[l], l)'
    <3>1. Front(on, update[l], l) /\ l # i  BY <1>2, <2>2, LevelsAre
    <3>2. update[l] \in Node  BY <3>1, OnLevels DEF Front, Node, Consistent
    <3>3. forward'[update[l]][l] = forward[update[l]][l]  BY <1>1, <3>1, <3>2
    <3> QED  BY <1>2, <1>3, <3>1, <3>3 DEF Front, Stops
  <2>3. \A l \in Levels : value \in on2[l] <=> l < i + 1  BY <1>2, <1>3, LevelsAre
  <2>4. level > lvl => on2[level] # {}
    <3>1. level \in Levels  BY DEF TypeOK
    <3> QED  BY <3>1, <1>2, <1>3
  <2> QED  BY <1>2, <2>1, <2>2, <2>3, <2>4 DEF LinkOK
<1>10. SearchOK(on2)' /\ ValueOK(s, on2)' /\ WalkOK(on2)' /\ UnlinkOK(s, on2)' /\ TrimOK(on2)'
  BY <1>1, <1>2 DEF SearchOK, ValueOK, WalkOK, UnlinkOK, TrimOK
<1> QED  BY <1>4, <1>6, <1>7, <1>8, <1>9, <1>10 DEF Consistent

LEMMA LinkedOK ==
  ASSUME TypeOK, NEW s, NEW on, Consistent(s, on), Linked
  PROVE  TypeOK' /\ Consistent(s, on)'
<1>1. /\ pc = "link" /\ i > lvl /\ Return /\ UNCHANGED <<forward, level, held>>
  BY DEF Linked
<1>2. /\ i \in 0 .. lvl + 1 /\ lvl \in Nat /\ lvl \in Levels /\ level \in Levels /\ level \in Nat
      /\ lvl <= level
      /\ \A l \in Levels : value \in on[l] <=> l < i
      /\ level > lvl => on[level] # {}
  BY <1>1, LevelsAre DEF Consistent, LinkOK, TypeOK
<1>3. Shape(s, on) /\ Levelled(on) /\ on[0] = Block \ held /\ held' \subseteq Block
  BY <1>1, <1>2 DEF Consistent, Unlisted, Moving, TypeOK
<1>4. on[level] # {}  BY <1>1, <1>2
<1>5. /\ \A l \in Levels : l > 0 => on[l] \subseteq on[l-1]
      /\ \A l \in Levels : l > level => on[l] = {}
  BY <1>1, <1>3 DEF Levelled, Leaving
<1> QED  BY <1>1, <1>3, <1>4, <1>5, ReturnOK

----------------------------------------------------------------------------
(* delete().                                                               *)

(* In front of the first block of a size the search meets the block.       *)
LEMMA FrontPoints ==
  ASSUME NEW s, NEW on, Shape(s, on), NEW l \in Levels, value \in on[l],
         want = Size[value], First(s, on), NEW u, Front(on, u, l)
  PROVE  forward[u][l] = value
<1>1. /\ u \in on[l] \cup {HEAD} /\ value \in Block /\ s \in [Block -> Nat]
      /\ on[l] \subseteq Block /\ NULL \notin on[l]
  BY OnLevels DEF Front, Shape
<1>2. Precedes(s, u, value)  BY DEF Front, Precedes
<1> DEFINE t == forward[u][l]
<1>3. Follows(t, u, s, on[l])  BY <1>1, Pointer
<1>4. t \in on[l] /\ (value = t \/ Precedes(s, t, value)) /\ t # NULL
  BY <1>1, <1>2, <1>3 DEF Follows
<1>5. Size[t] >= Size[value]  BY <1>4 DEF Front, Stops
<1> HIDE DEF t
<1>6. t \in Block /\ Size[t] \in Nat /\ Size[value] \in Nat  BY <1>1, <1>4, SizesAre
<1>7. t = value \/ Precedes(s, value, t)  BY <1>4, <1>5, <1>6 DEF First
<1>8. t = value
  <2> SUFFICES ASSUME t # value PROVE FALSE  OBVIOUS
  <2>1. Precedes(s, t, value) /\ Precedes(s, value, t)  BY <1>4, <1>7
  <2>2. Precedes(s, t, t)  BY <2>1, <1>1, <1>6, PrecedesOrder DEF Node
  <2> QED  BY <2>2, <1>1, <1>6, PrecedesOrder
<1> QED  BY <1>8 DEF t

LEMMA LocateOK ==
  ASSUME TypeOK, NEW s, NEW on, Consistent(s, on), Locate
  PROVE  TypeOK' /\ Consistent(s, on)'
<1> USE DEF Locate, Searched
<1>1. /\ pc = "delete" /\ i = -1 /\ want = Size[value] /\ 0 \in Levels
      /\ Best(on) /\ First(s, on) /\ value \in Block
      /\ \A l \in Levels : l <= level => Front(on, update[l], l)
  BY LevelsAre DEF Consistent, SearchOK, ValueOK, TypeOK
<1>2. Front(on, node, 0)  BY <1>1 DEF Consistent, SearchOK, Front
<1>3. node' = value
  BY <1>1, <1>2, FrontPoints DEF Consistent, Best, Candidate
<1>4. TypeOK'  BY <1>1, <1>3 DEF TypeOK, Node
<1>5. Shape(s, on)' /\ Levelled(on)' /\ (on[0] = Block \ Unlisted)'
  BY DEF Consistent, Shape, Levelled, Leaving, Unlisted, Moving
<1>6. WalkOK(on)'  BY <1>1, <1>3 DEF WalkOK, Front, Stops
<1>7. ValueOK(s, on)'  BY <1>1 DEF Consistent, ValueOK, Best, First
<1>8. SearchOK(on)' /\ LinkOK(s, on)' /\ UnlinkOK(s, on)' /\ TrimOK(on)'
  BY DEF SearchOK, LinkOK, UnlinkOK, TrimOK
<1> QED  BY <1>4, <1>5, <1>6, <1>7, <1>8 DEF Consistent

LEMMA WalkStepOK ==
  ASSUME TypeOK, NEW s, NEW on, Consistent(s, on), Walk
  PROVE  TypeOK' /\ Consistent(s, on)'
<1>1. /\ pc = "walk" /\ node = value /\ Best(on) /\ First(s, on) /\ level \in Nat
      /\ value \in Block \ held /\ want = Size[value]
      /\ \A l \in Levels : l <= level => Front(on, update[l], l)
  BY LevelsAre DEF Consistent, WalkOK, ValueOK, TypeOK, Walk
<1>2. /\ pc' = "unlink" /\ i' = 0
      /\ UNCHANGED <<forward, level, held, value, want, node, update, lvl>>
  BY <1>1 DEF Walk
<1>3. TypeOK'  BY <1>2, SkipListConstants DEF SkipListConstants, TypeOK
<1>4. Shape(s, on)' /\ Levelled(on)' /\ (on[0] = Block \ Unlisted)'
  BY <1>1, <1>2 DEF Consistent, Shape, Levelled, Leaving, Unlisted, Moving
<1>5. UnlinkOK(s, on)'
  <2>1. \A l \in Levels : ~(l < 0)  BY LevelsAre
  <2>2. Best(on)' /\ First(s, on)'  BY <1>1, <1>2 DEF Best, First
  <2>3. (\A l \in Levels : i <= l /\ l <= level => Front(on, update[l], l))'
    BY <1>1, <1>2 DEF Front, Stops
  <2> QED  BY <1>1, <1>2, <2>1, <2>2, <2>3 DEF UnlinkOK
<1>6. SearchOK(on)' /\ ValueOK(s, on)' /\ LinkOK(s, on)' /\ WalkOK(on)' /\ TrimOK(on)'
  BY <1>1, <1>2 DEF SearchOK, ValueOK, LinkOK, WalkOK, TrimOK
<1> QED  BY <1>3, <1>4, <1>5, <1>6 DEF Consistent

(* What one iteration of the unlinking loop does to the pointers.          *)
LEMMA UnlinkPointers ==
  ASSUME TypeOK, NEW s, NEW on, Consistent(s, on), Unlink
  PROVE  /\ i \in Levels /\ value \in on[i] /\ update[i] \in on[i] \cup {HEAD}
         /\ forward[update[i]][i] = value
         /\ forward' \in Pointers
         /\ \A n \in Node, l \in Levels : l # i => forward'[n][l] = forward[n][l]
         /\ forward'[update[i]][i] = forward[value][i]
         /\ \A n \in Node : n # update[i] => forward'[n][i] = forward[n][i]
<1>1. /\ i \in Levels /\ value \in Block /\ node = value /\ Front(on, update[i], i)
      /\ forward[update[i]][i] = value
      /\ forward' = [forward EXCEPT ![update[i]][i] = forward[value][i]]
  <2>1. i \in Levels /\ i \in Nat
    BY SkipListConstants DEF SkipListConstants, TypeOK, Levels, Consistent, UnlinkOK, Unlink, PointsToNode
  <2>2. node = value /\ value \in Block /\ Front(on, update[i], i)
    BY <2>1 DEF Consistent, UnlinkOK, ValueOK, Unlink, PointsToNode
  <2> QED  BY <2>1, <2>2 DEF Unlink, PointsToNode
<1>2. update[i] \in on[i] \cup {HEAD} /\ update[i] \in Node /\ value \in Node
  BY <1>1, Distinct, OnLevels DEF Front, Node, Consistent
<1>3. value \in on[i]
  <2>1. Follows(value, update[i], s, on[i])  BY <1>1, <1>2, Pointer DEF Consistent
  <2> QED  BY <2>1, <1>1, Distinct DEF Follows
<1>4. forward \in Pointers  BY DEF TypeOK, Pointers
<1>5. /\ forward' \in Pointers
      /\ \A n \in Node, l \in Levels : l # i => forward'[n][l] = forward[n][l]
      /\ forward'[update[i]][i] = forward[value][i]
      /\ \A n \in Node : n # update[i] => forward'[n] = forward[n]
  BY <1>1, <1>2, <1>4 DEF Pointers
<1> QED  BY <1>1, <1>2, <1>3, <1>5

LEMMA UnlinkOn ==
  ASSUME TypeOK, NEW s, NEW on, Consistent(s, on), Unlink,
         NEW on2, on2 = [on EXCEPT ![i] = @ \ {value}]
  PROVE  TypeOK' /\ Consistent(s, on2)'
<1>1. /\ i \in Levels /\ value \in on[i] /\ update[i] \in on[i] \cup {HEAD}
      /\ forward[update[i]][i] = value
      /\ forward' \in Pointers
      /\ \A n \in Node, l \in Levels : l # i => forward'[n][l] = forward[n][l]
      /\ forward'[update[i]][i] = forward[value][i]
      /\ \A n \in Node : n # update[i] => forward'[n][i] = forward[n][i]
  BY UnlinkPointers
<1>2. /\ i \in Nat /\ i <= level /\ level \in Nat
      /\ node = value /\ pc = "unlink" /\ pc' = "unlink" /\ i' = i + 1
      /\ value \in Block \ held /\ want = Size[value]
      /\ \A l \in Levels : i <= l /\ l <= level => Front(on, update[l], l)
      /\ \A l \in Levels : l < i => value \notin on[l]
      /\ First(s, on)
      /\ UNCHANGED <<level, held, value, want, node, update, lvl>>
  BY <1>1, LevelsAre DEF Consistent, UnlinkOK, ValueOK, TypeOK, Unlink, PointsToNode
<1>3. /\ on2 \in [Levels -> SUBSET Block] /\ on2[i] = on[i] \ {value}
      /\ \A l \in Levels : l # i => on2[l] = on[l]
      /\ \A l \in Levels : on2[l] \subseteq on[l]
  BY <1>1 DEF Consistent, Shape
<1>4. TypeOK'
  <2>1. i' \in -1 .. SKIP_MAX_LEVEL + 1
    BY <1>1, <1>2, SkipListConstants DEF SkipListConstants, Levels
  <2> QED  BY <1>1, <1>2, <2>1 DEF TypeOK, Pointers
<1>5. ASSUME NEW l \in Levels  PROVE Chained([n \in Node |-> forward'[n][l]], s, on2[l])
  <2> DEFINE g == [n \in Node |-> forward[n][l]]
             h == [n \in Node |-> forward'[n][l]]
             A == on[l]
             u == update[i]
  <2>1. Chained(g, s, A) /\ A \subseteq Block /\ s \in [Block -> Nat]
    BY OnLevels DEF Consistent, Shape
  <2>2. CASE l # i
    <3>1. \A n \in Node : forward'[n][l] = forward[n][l]  BY <1>1, <2>2
    <3>2. h = g  BY <3>1
    <3> QED  BY <3>2, <2>1, <2>2, <1>3
  <2>3. CASE l = i
    <3>1. u \in Node /\ value \in Node /\ A \cup {HEAD} \subseteq Node  BY <1>1, <2>1, <2>3 DEF Node
    <3>2. \A n \in Node : g[n] = forward[n][i] /\ h[n] = forward'[n][i]  BY <2>3
    <3>3. h[u] = g[value] /\ g[u] = value  BY <1>1, <3>1, <3>2
    <3>4. \A n \in A \cup {HEAD} : n # u => h[n] = g[n]
      <4> SUFFICES ASSUME NEW n \in A \cup {HEAD}, n # u  PROVE h[n] = g[n]
        OBVIOUS
      <4>1. n \in Node  BY <3>1
      <4> QED  BY <4>1, <1>1, <3>2
    <3>5. value \in A /\ u \in A \cup {HEAD} /\ on2[l] = A \ {value}  BY <1>1, <1>3, <2>3
    <3> HIDE DEF g, h, A, u
    <3>6. Chained(h, s, A \ {value})
      <4>1. s \in [Block -> Nat] /\ A \subseteq Block /\ Chained(g, s, A)  BY <2>1
      <4>2. \A f : \A v \in A, w \in A \cup {HEAD} :
              /\ g[w] = v /\ f[w] = g[v]
              /\ \A n \in A \cup {HEAD} : n # w => f[n] = g[n]
              => Chained(f, s, A \ {v})
        BY <4>1, ChainRemove
      <4> QED  BY <4>2, <3>3, <3>4, <3>5
    <3> QED  BY <3>5, <3>6 DEF h
  <2> QED  BY <2>2, <2>3
<1>6. Shape(s, on2)'  BY <1>3, <1>5 DEF Consistent, Shape
<1>7. Levelled(on2)'
  <2>1. ASSUME NEW l \in Levels, l > 0  PROVE on2[l] \subseteq on2[l-1] \cup Leaving(l)'
    <3>1. on[l] \subseteq on[l-1] \cup Leaving(l) /\ l - 1 \in Levels /\ l \in Nat
      BY <2>1, LevelsAre DEF Consistent, Levelled
    <3>2. CASE l = i
      <4>1. on2[l-1] = on[l-1]  BY <3>1, <3>2, <1>3
      <4> QED  BY <4>1, <3>1, <3>2, <1>2, <1>3 DEF Leaving
    <3>3. CASE l = i + 1
      <4>1. on2[l] = on[l] /\ on2[l-1] = on[l-1] \ {value}  BY <3>1, <3>3, <1>2, <1>3
      <4>2. on[l] \subseteq on[l-1]  BY <3>1, <3>3, <1>2 DEF Leaving
      <4> QED  BY <4>1, <4>2, <3>3, <1>2 DEF Leaving
    <3>4. CASE l # i /\ l # i + 1
      <4>1. on2[l] = on[l] /\ on2[l-1] = on[l-1]  BY <3>1, <3>4, <1>2, <1>3
      <4>2. on[l] \subseteq on[l-1]  BY <3>1, <3>4 DEF Leaving
      <4> QED  BY <4>1, <4>2
    <3> QED  BY <3>2, <3>3, <3>4
  <2>2. \A l \in Levels : l > level => on2[l] = {}
    BY <1>3 DEF Consistent, Levelled
  <2> QED  BY <1>2, <2>1, <2>2 DEF Levelled
<1>8. (on2[0] = Block \ Unlisted)'
  <2>1. CASE i = 0  BY <2>1, <1>1, <1>2, <1>3 DEF Consistent, Unlisted, Moving
  <2>2. CASE i > 0  BY <2>2, <1>1, <1>2, <1>3, LevelsAre DEF Consistent, Unlisted, Moving
  <2> QED  BY <2>1, <2>2, <1>2
<1>9. UnlinkOK(s, on2)'
  <2>1. i' \in 0 .. level' + 1  BY <1>2
  <2>2. ASSUME NEW l \in Levels, i + 1 <= l, l <= level  PROVE Front(on2, update[l], l)'
    <3>1. Front(on, update[l], l) /\ l # i  BY <1>2, <2>2, LevelsAre
    <3>2. update[l] \in Node  BY <3>1, OnLevels DEF Front, Node, Consistent
    <3>3. forward'[update[l]][l] = forward[update[l]][l]  BY <1>1, <3>1, <3>2
    <3> QED  BY <1>2, <1>3, <3>1, <3>3 DEF Front, Stops
  <2>3. \A l \in Levels : l < i + 1 => value \notin on2[l]  BY <1>2, <1>3, LevelsAre
  <2>4. First(s, on2)'  BY <1>2, <1>3 DEF First
  <2>5. i' # 0  BY <1>2
  <2> QED  BY <1>2, <2>1, <2>2, <2>3, <2>4, <2>5, Zenon DEF UnlinkOK
<1>10. SearchOK(on2)' /\ ValueOK(s, on2)' /\ LinkOK(s, on2)' /\ WalkOK(on2)' /\ TrimOK(on2)'
  BY <1>2 DEF SearchOK, ValueOK, LinkOK, WalkOK, TrimOK
<1> QED  BY <1>4, <1>6, <1>7, <1>8, <1>9, <1>10 DEF Consistent

LEMMA UnlinkedOK ==
  ASSUME TypeOK, NEW s, NEW on, Consistent(s, on), Unlinked
  PROVE  TypeOK' /\ Consistent(s, on)'
<1> USE DEF Unlinked
<1>1. /\ pc = "unlink" /\ node = value /\ i \in Nat /\ level \in Nat /\ level \in Levels
      /\ value \in Block \ held /\ want = Size[value] /\ First(s, on)
      /\ \A l \in Levels : i <= l /\ l <= level => Front(on, update[l], l)
      /\ \A l \in Levels : l < i => value \notin on[l]
  BY LevelsAre DEF Consistent, UnlinkOK, ValueOK, TypeOK
<1>2. ASSUME i <= level  PROVE i \in Levels /\ value \notin on[i]
  <2>1. i \in Levels  BY <1>1, <1>2, LevelsAre
  <2>2. forward[update[i]][i] # value  BY <1>1, <1>2 DEF PointsToNode
  <2> QED  BY <2>1, <2>2, <1>1, <1>2, FrontPoints DEF Consistent
<1>3. \A l \in Levels : value \notin on[l]
  <2> SUFFICES ASSUME NEW l \in Levels PROVE value \notin on[l]  OBVIOUS
  <2>0. l \in Nat  BY LevelsAre
  <2>1. CASE l < i  BY <2>1, <1>1
  <2>2. CASE l > level  BY <2>2 DEF Consistent, Levelled
  <2>3. CASE i <= l /\ l <= level
    <3>1. i \in Levels /\ value \notin on[i]  BY <2>0, <2>3, <1>1, <1>2
    <3>2. \A k \in Levels : k > i => on[k] \subseteq on[k-1]
      BY <1>1, LevelsAre DEF Consistent, Levelled, Leaving
    <3>3. on[l] \subseteq on[i]  BY <2>3, <3>1, <3>2, Downward
    <3> QED  BY <3>1, <3>3
  <2> QED  BY <2>0, <2>1, <2>2, <2>3, <1>1
<1>4. i > 0
  <2>1. i = 0 => value \in on[0]  BY <1>1 DEF Consistent, UnlinkOK, Best
  <2> QED  BY <2>1, <1>1, <1>3, LevelsAre
<1>5. TypeOK'  BY DEF TypeOK
<1>6. Shape(s, on)' /\ Levelled(on)' /\ (on[0] = Block \ Unlisted)'
  BY <1>1, <1>3, <1>4 DEF Consistent, Shape, Levelled, Leaving, Unlisted, Moving
<1>7. TrimOK(on)'  BY <1>3 DEF TrimOK
<1>8. SearchOK(on)' /\ ValueOK(s, on)' /\ LinkOK(s, on)' /\ WalkOK(on)' /\ UnlinkOK(s, on)'
  BY <1>1 DEF SearchOK, ValueOK, LinkOK, WalkOK, UnlinkOK
<1> QED  BY <1>5, <1>6, <1>7, <1>8 DEF Consistent

(* The head of a level points to NULL exactly if the level is empty.       *)
LEMMA EmptyLevel ==
  ASSUME NEW s, NEW on, Shape(s, on), NEW l \in Levels
  PROVE  forward[HEAD][l] = NULL <=> on[l] = {}
<1>1. Follows(forward[HEAD][l], HEAD, s, on[l])  BY Pointer
<1> QED  BY <1>1, OnLevels DEF Follows, Precedes

LEMMA TrimStepOK ==
  ASSUME TypeOK, NEW s, NEW on, Consistent(s, on), Trim
  PROVE  TypeOK' /\ Consistent(s, on)'
<1> USE DEF Trim, TopIsEmpty
<1>1. level \in Levels /\ level \in Nat /\ level - 1 \in Levels  BY LevelsAre DEF TypeOK
<1>2. on[level] = {}  BY <1>1, EmptyLevel DEF Consistent
<1>3. TypeOK'  BY <1>1 DEF TypeOK
<1>4. Levelled(on)'  BY <1>1, <1>2, LevelsAre DEF Consistent, Levelled, Leaving
<1>5. Shape(s, on)' /\ (on[0] = Block \ Unlisted)'
  BY DEF Consistent, Shape, Unlisted, Moving
<1>6. /\ SearchOK(on)' /\ ValueOK(s, on)' /\ LinkOK(s, on)'
      /\ WalkOK(on)' /\ UnlinkOK(s, on)' /\ TrimOK(on)'
  BY DEF Consistent, SearchOK, ValueOK, LinkOK, WalkOK, UnlinkOK, TrimOK
<1> QED  BY <1>3, <1>4, <1>5, <1>6 DEF Consistent

LEMMA DeletedOK ==
  ASSUME TypeOK, NEW s, NEW on, Consistent(s, on), Deleted
  PROVE  TypeOK' /\ Consistent(s, on)'
<1>1. /\ pc = "trim" /\ Return /\ UNCHANGED <<forward, level>> /\ held' = held \cup {value}
      /\ ~TopIsEmpty /\ value \in Block /\ level \in Levels /\ level \in Nat
  BY LevelsAre DEF Deleted, Consistent, ValueOK, TypeOK
<1>2. Shape(s, on) /\ Levelled(on) /\ on[0] = Block \ held' /\ held' \subseteq Block
  BY <1>1 DEF Consistent, Unlisted, Moving, TypeOK
<1>3. level > 0 => on[level] # {}  BY <1>1, <1>2, EmptyLevel DEF TopIsEmpty
<1>4. /\ \A l \in Levels : l > 0 => on[l] \subseteq on[l-1]
      /\ \A l \in Levels : l > level => on[l] = {}
  BY <1>1, <1>2 DEF Levelled, Leaving
<1> QED  BY <1>1, <1>2, <1>3, <1>4, ReturnOK

----------------------------------------------------------------------------
(* What a step does to the listed blocks.                                  *)
Effect(on, on2) ==
  \/ on2[0] = on[0]
  \/ \E b \in Block \ on[0] : on2[0] = on[0] \cup {b}
  \/ \E n \in Requests : \E b \in FindBest(on[0], Size, n) : on2[0] = on[0] \ {b}

LEMMA LinkOKAndEffect ==
  ASSUME TypeOK, NEW s, NEW on, Consistent(s, on), Link
  PROVE  TypeOK' /\ \E on2 : Consistent(s, on2)' /\ Effect(on, on2)
<1>1. i \in Levels /\ value \in Block /\ value \notin on[i]  BY LinkPointers
<1>2. PICK on2 : on2 = [on EXCEPT ![i] = @ \cup {value}]  OBVIOUS
<1>3. TypeOK' /\ Consistent(s, on2)'  BY <1>2, LinkOn
<1>4. Effect(on, on2)
  <2>1. on \in [Levels -> SUBSET Block] /\ 0 \in Levels  BY LevelsAre DEF Consistent, Shape
  <2>2. CASE i = 0  BY <2>1, <2>2, <1>1, <1>2 DEF Effect
  <2>3. CASE i # 0  BY <2>1, <2>3, <1>1, <1>2 DEF Effect
  <2> QED  BY <2>2, <2>3
<1> QED  BY <1>3, <1>4

LEMMA UnlinkOKAndEffect ==
  ASSUME TypeOK, NEW s, NEW on, Consistent(s, on), Unlink
  PROVE  TypeOK' /\ \E on2 : Consistent(s, on2)' /\ Effect(on, on2)
<1>1. i \in Levels /\ value \in on[i]  BY UnlinkPointers
<1>2. PICK on2 : on2 = [on EXCEPT ![i] = @ \ {value}]  OBVIOUS
<1>3. TypeOK' /\ Consistent(s, on2)'  BY <1>2, UnlinkOn
<1>4. Effect(on, on2)
  <2>1. on \in [Levels -> SUBSET Block] /\ 0 \in Levels  BY LevelsAre DEF Consistent, Shape
  <2>2. CASE i = 0
    <3>1. PICK n \in Requests : value \in FindBest(on[0], Size, n)
      BY <2>2 DEF Consistent, UnlinkOK, Best, Unlink
    <3>2. on2[0] = on[0] \ {value}  BY <2>1, <2>2, <1>2
    <3> QED  BY <3>1, <3>2 DEF Effect
  <2>3. CASE i # 0  BY <2>1, <2>3, <1>1, <1>2 DEF Effect
  <2> QED  BY <2>2, <2>3
<1> QED  BY <1>3, <1>4

LEMMA StepOK ==
  ASSUME TypeOK, NEW s, NEW on, Consistent(s, on), [Next]_vars
  PROVE  TypeOK' /\ \E r, on2 : Consistent(r, on2)' /\ Effect(on, on2)
<1>0. Effect(on, on)  BY DEF Effect
<1>1. CASE UNCHANGED vars
  <2>1. TypeOK'  BY <1>1 DEF TypeOK, vars
  <2>2. Shape(s, on)' /\ Levelled(on)' /\ (on[0] = Block \ Unlisted)'
    BY <1>1 DEF Consistent, Shape, Levelled, Leaving, Unlisted, Moving, vars
  <2>3. SearchOK(on)' /\ ValueOK(s, on)' /\ TrimOK(on)'
    BY <1>1 DEF Consistent, SearchOK, Front, Stops, ValueOK, Best, First, TrimOK, vars
  <2>4. LinkOK(s, on)' /\ WalkOK(on)' /\ UnlinkOK(s, on)'
    BY <1>1 DEF Consistent, LinkOK, Front, Stops, WalkOK, UnlinkOK, Best, First, vars
  <2>5. Consistent(s, on)'  BY <2>2, <2>3, <2>4 DEF Consistent
  <2> QED  BY <1>0, <2>1, <2>5
<1>2. CASE \E n \in Requests : Malloc(n)  BY <1>0, <1>2, MallocOK
<1>3. CASE \E v \in held : Free(v)  BY <1>0, <1>3, FreeOK
<1>4. CASE Advance  BY <1>0, <1>4, AdvanceOK
<1>5. CASE Descend  BY <1>0, <1>5, DescendOK
<1>6. CASE NothingFound  BY <1>0, <1>6, NothingFoundOK
<1>7. CASE BestFound  BY <1>0, <1>7, BestFoundOK
<1>8. CASE \E l \in Levels : ChooseLevel(l)  BY <1>0, <1>8, ChooseLevelOK
<1>9. CASE Link  BY <1>9, LinkOKAndEffect
<1>10. CASE Linked  BY <1>0, <1>10, LinkedOK
<1>11. CASE Locate  BY <1>0, <1>11, LocateOK
<1>12. CASE Walk  BY <1>0, <1>12, WalkStepOK
<1>13. CASE Unlink  BY <1>13, UnlinkOKAndEffect
<1>14. CASE Unlinked  BY <1>0, <1>14, UnlinkedOK
<1>15. CASE Trim  BY <1>0, <1>15, TrimStepOK
<1>16. CASE Deleted  BY <1>0, <1>16, DeletedOK
<1> QED
  BY <1>1, <1>2, <1>3, <1>4, <1>5, <1>6, <1>7, <1>8, <1>9, <1>10, <1>11, <1>12,
     <1>13, <1>14, <1>15, <1>16
  DEF Next, Call, Run

(* The inductive invariant: there is an order in which the listed blocks   *)
(* were inserted and a set of blocks per level that explain all pointers,  *)
(* wherever malloc() or free() has got to.                                 *)
THEOREM SkipListInvariant == Spec => []IInv
<1>1. Init => IInv  BY InitOK
<1>2. IInv /\ [Next]_vars => IInv'
  <2> SUFFICES ASSUME IInv, [Next]_vars PROVE IInv'  OBVIOUS
  <2>1. PICK s, on : Consistent(s, on)  BY DEF IInv
  <2>2. TypeOK' /\ \E r, on2 : Consistent(r, on2)'  BY <2>1, StepOK DEF IInv
  <2> QED  BY <2>2 DEF IInv
<1> QED  BY <1>1, <1>2, PTL DEF Spec

(* The pointers and the local variables keep their types.                  *)
THEOREM SkipListTyped == Spec => []TypeOK
<1>1. IInv => TypeOK  BY DEF IInv
<1> QED  BY <1>1, SkipListInvariant, PTL

(* What the hops of SkipListInv see of the chains.                         *)
LEMMA LevelWalked ==
  ASSUME TypeOK, NEW s, NEW on, Shape(s, on), NEW l \in Levels
  PROVE  /\ Ends(l) /\ OnLevel(l) = on[l]
         /\ \A b, c \in on[l] : Before(l, b, c) <=> Precedes(s, b, c)
<1> DEFINE g == [n \in Node |-> forward[n][l]]
<1>1. Chained(g, s, on[l]) /\ on[l] \subseteq Block /\ s \in [Block -> Nat]
  BY OnLevels DEF Shape
<1>2. \A n \in on[l] \cup {HEAD} : g[n] = forward[n][l]  BY <1>1 DEF Node
<1>3. forward \in Pointers  BY DEF TypeOK, Pointers
<1> HIDE DEF g
<1> QED  BY <1>1, <1>2, <1>3, ChainWalked

(* WellFormed: between two calls every level ends, is sorted, and is part  *)
(* of the level below in the same order; what the caller does not hold is  *)
(* listed.  delete()'s loop (malloc.c:331) has left no level with the      *)
(* block, and no chain runs into stale pointers.                           *)
THEOREM SkipListStaysWellFormed == Spec => []WellFormed
<1>1. IInv => WellFormed
  <2> SUFFICES ASSUME IInv, pc = "idle" PROVE WellFormed!2  BY DEF WellFormed
  <2>1. TypeOK  BY DEF IInv
  <2>2. PICK s, on : Consistent(s, on)  BY DEF IInv
  <2>3. ASSUME NEW l \in Levels
        PROVE  /\ Ends(l) /\ OnLevel(l) = on[l] /\ on[l] \subseteq Block /\ HEAD \notin on[l]
               /\ \A b, c \in on[l] : Before(l, b, c) <=> Precedes(s, b, c)
    BY <2>1, <2>2, LevelWalked, OnLevels DEF Consistent
  <2>4. \A l \in Levels : on[l] \subseteq on[0]  BY <2>2, Nested DEF Consistent
  <2>5. ASSUME NEW l \in Levels, NEW b \in on[l], NEW c \in on[l], Before(l, b, c)
        PROVE  Size[b] <= Size[c] /\ Before(0, b, c)
    <3>1. Precedes(s, b, c) /\ b \in Block /\ c \in Block /\ b # HEAD  BY <2>3, <2>5
    <3>2. Size[b] <= Size[c]  BY <3>1, SizesAre DEF Precedes
    <3>3. b \in on[0] /\ c \in on[0]  BY <2>4
    <3> QED  BY <3>1, <3>2, <3>3, <2>3, LevelsAre
  <2>6. level \in Levels  BY <2>1 DEF TypeOK
  <2>7. /\ \A l \in Levels : l > 0 => on[l] \subseteq on[l-1] /\ l - 1 \in Levels
        /\ \A l \in Levels : l > level => on[l] = {}
        /\ level > 0 => on[level] # {}
        /\ on[0] = Block \ held
    BY <2>2, LevelsAre DEF Consistent, Levelled, Leaving, Unlisted, Moving
  <2>8. Listed = Block \ held  BY <2>3, <2>7, LevelsAre DEF Listed
  <2> QED  BY <2>3, <2>5, <2>6, <2>7, <2>8
<1> QED  BY <1>1, SkipListInvariant, PTL

(* NeverOnStale: no search stands on a node of which this level knows      *)
(* nothing (malloc.c:239), and no entry of update[] that the loops use is  *)
(* one that the search did not set.                                        *)
THEOREM NothingStaleIsUsed == Spec => []NeverOnStale
<1>1. IInv => NeverOnStale
  <2> SUFFICES ASSUME IInv PROVE NeverOnStale  OBVIOUS
  <2>1. TypeOK  BY DEF IInv
  <2>2. PICK s, on : Consistent(s, on)  BY DEF IInv
  <2>3. \A l \in Levels : OnLevel(l) = on[l]  BY <2>1, <2>2, LevelWalked DEF Consistent
  <2>4. level \in Levels /\ lvl \in Levels /\ i \in Int  BY <2>1 DEF TypeOK
  <2>5. Searching => i \in Levels /\ (node = HEAD \/ node \in on[i])
    BY <2>2, <2>4, LevelsAre, SkipListConstants
    DEF SkipListConstants, Consistent, SearchOK, Searching, Levels
  <2>6. ASSUME NEW l \in Used  PROVE l \in Levels /\ (update[l] = HEAD \/ update[l] \in on[l])
    <3>1. CASE pc = "link"
      <4>1. l \in i .. lvl /\ i \in Nat  BY <3>1, <2>2, <2>4 DEF Used, Consistent, LinkOK
      <4>2. l \in Levels /\ i <= l /\ l <= lvl  BY <4>1, <2>4, LevelsAre
      <4> QED  BY <3>1, <4>2, <2>2 DEF Consistent, LinkOK, Front
    <3>2. CASE pc = "unlink"
      <4>1. l \in i .. level /\ i \in Nat  BY <3>2, <2>2, <2>4 DEF Used, Consistent, UnlinkOK
      <4>2. l \in Levels /\ i <= l /\ l <= level  BY <4>1, <2>4, LevelsAre
      <4> QED  BY <3>2, <4>2, <2>2 DEF Consistent, UnlinkOK, Front
    <3> QED  BY <3>1, <3>2 DEF Used
  <2> QED  BY <2>3, <2>5, <2>6 DEF NeverOnStale
<1> QED  BY <1>1, SkipListInvariant, PTL

(* DeleteFindsNode: "Find the node" (malloc.c:314) has found it before its *)
(* loop over level 0 moves, and update[] is right in front of it on every  *)
(* level that links it.                                                    *)
THEOREM DeleteFindsItsNode == Spec => []DeleteFindsNode
<1>1. IInv => DeleteFindsNode
  <2> SUFFICES ASSUME IInv PROVE DeleteFindsNode  OBVIOUS
  <2>1. TypeOK  BY DEF IInv
  <2>2. PICK s, on : Consistent(s, on)  BY DEF IInv
  <2>3. \A l \in Levels : OnLevel(l) = on[l]  BY <2>1, <2>2, LevelWalked DEF Consistent
  <2>4. pc = "walk" => node = value  BY <2>2 DEF Consistent, WalkOK
  <2>5. ASSUME pc = "unlink", NEW l \in i .. level, value \in OnLevel(l)
        PROVE  forward[update[l]][l] = value
    <3>1. i \in Nat /\ level \in Levels  BY <2>1, <2>2, <2>5 DEF TypeOK, Consistent, UnlinkOK
    <3>2. l \in Levels /\ i <= l /\ l <= level  BY <3>1, LevelsAre
    <3>3. Front(on, update[l], l) /\ First(s, on) /\ want = Size[value]
      BY <3>2, <2>2, <2>5 DEF Consistent, UnlinkOK, ValueOK
    <3>4. value \in on[l]  BY <3>2, <2>3, <2>5
    <3> QED  BY <3>2, <3>3, <3>4, <2>2, FrontPoints DEF Consistent
  <2> QED  BY <2>4, <2>5 DEF DeleteFindsNode
<1> QED  BY <1>1, SkipListInvariant, PTL

----------------------------------------------------------------------------
(* The refinement.                                                         *)
LEMMA ListedIs ==
  ASSUME TypeOK, NEW s, NEW on, Consistent(s, on)
  PROVE  Listed = on[0] /\ on[0] \subseteq Block
BY LevelWalked, OnLevels, LevelsAre DEF Consistent, Listed

(* ImplementsFreeBlocks: for its callers the list is a set of blocks, from *)
(* which findbest() and delete() together take a smallest block that is    *)
(* large enough, and to which insert() adds one.                           *)
THEOREM SkipListIsSet == Spec => ImplementsFreeBlocks
<1>1. Init => FreeSet!Init
  <2> SUFFICES ASSUME Init PROVE Listed = {}  BY DEF FreeSet!Init
  <2>1. TypeOK /\ \E s, on : Consistent(s, on)  BY InitOK DEF IInv
  <2>2. PICK s, on : Consistent(s, on)  BY <2>1
  <2>3. on[0] = {}  BY <2>2 DEF Consistent, Unlisted, Init
  <2> QED  BY <2>1, <2>2, <2>3, ListedIs
<1>2. \A r, on2 : TypeOK /\ Consistent(r, on2) => Listed = on2[0]  BY ListedIs
<1>3. (\A r, on2 : TypeOK /\ Consistent(r, on2) => Listed = on2[0])'  BY <1>2, PTL
<1>4. IInv /\ IInv' /\ [Next]_vars => [FreeSet!Next]_<<Size, Listed>>
  <2> SUFFICES ASSUME IInv, IInv', [Next]_vars PROVE FreeSet!Next  OBVIOUS
  <2>1. TypeOK  BY DEF IInv
  <2>2. PICK s, on : Consistent(s, on)  BY DEF IInv
  <2>3. TypeOK'  BY DEF IInv
  <2>4. PICK r, on2 : Consistent(r, on2)' /\ Effect(on, on2)  BY <2>1, <2>2, StepOK
  <2>5. Listed = on[0] /\ on[0] \subseteq Block  BY <2>1, <2>2, ListedIs
  <2>6. Listed' = on2[0]  BY <1>3, <2>3, <2>4
  <2>7. FreeSet!SizesKept  BY DEF FreeSet!SizesKept
  <2>8. DOMAIN Size = Block  BY SizesAre
  <2>9. CASE Listed' = Listed  BY <2>7, <2>9 DEF FreeSet!Next
  <2>10. CASE \E b \in Block \ Listed : Listed' = Listed \cup {b}
    BY <2>7, <2>8, <2>10 DEF FreeSet!Next, FreeSet!Insert
  <2>11. CASE \E n \in Requests : \E b \in FindBest(Listed, Size, n) : Listed' = Listed \ {b}
    BY <2>7, <2>11 DEF FreeSet!Next, FreeSet!TakeBest, FreeSet!FindBest, FreeSet!Fitting,
                       FindBest, Fitting
  <2> QED  BY <2>4, <2>5, <2>6, <2>9, <2>10, <2>11 DEF Effect
<1> QED
  BY <1>1, <1>4, SkipListInvariant, PTL DEF Spec, ImplementsFreeBlocks, FreeSet!Spec
=============================================================================
