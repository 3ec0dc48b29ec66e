-------------------------- MODULE StructuresProofs --------------------------
(***************************************************************************)
(* Proofs about the data structures, for any values of their constants:    *)
(* their inductive invariants tie the links of the list, the slots of the  *)
(* vector, the chains of the hash table and the bytes of the string to the *)
(* sequence, array, map and characters they stand for.  PartsProofs states *)
(* what follows of the parts.                                              *)
(*                                                                         *)
(* What a loop over a structure returns is shown by induction on its       *)
(* length: Induct and Recursion state that of sets and functions of the    *)
(* naturals, from the library's theorem that these are well-founded.       *)
(***************************************************************************)
EXTENDS Structures, SequenceTheorems, FiniteSetTheorems, WellFoundedInduction, TLAPS

-----------------------------------------------------------------------------
(* Induction and recursion, of sets and of functions *)

\* A set of naturals that is not empty has a least element.
LEMMA Least ==
    ASSUME NEW S, S \subseteq Nat, S # {}
    PROVE  \E x \in S : \A y \in S : x <= y
<1>. DEFINE R == OpToRel(<, Nat)
<1>1. PICK x \in S : \A y \in S : <<y, x>> \notin R
  <2>. HIDE DEF R
  <2>1. IsWellFoundedOn(R, Nat)
    BY NatLessThanWellFounded DEF R
  <2>. QED
    BY <2>1, WFMin
<1>2. ASSUME NEW y \in S PROVE x <= y
  <2>1. <<y, x>> \in Nat \X Nat /\ ~ (y < x)
    BY <1>1 DEF OpToRel
  <2>. QED
    BY <2>1
<1>. QED
  BY <1>2

\* Induction, over a set rather than a predicate.
LEMMA Induct ==
    ASSUME NEW S, 0 \in S, \A k \in Nat : k \in S => k + 1 \in S
    PROVE  Nat \subseteq S
<1>. DEFINE D == {n \in Nat : n \notin S}
<1>. SUFFICES ASSUME D # {} PROVE FALSE
  OBVIOUS
<1>1. PICK m \in D : \A n \in D : m <= n
  BY Least
<1>2. m # 0 /\ m \in Nat
  OBVIOUS
<1>3. m - 1 \in Nat /\ (m - 1) + 1 = m /\ ~(m <= m - 1)
  BY <1>2
<1>4. m - 1 \in S
  BY <1>1, <1>3
<1>. QED
  BY <1>3, <1>4

\* What leads from a value, and its place, to the next value.
Rules(X) == [Nat \X X -> X]
\* And the values it leads to.
Runs(X) == [Nat -> X]

\* A function is defined by its first value and the step from one to the next.
LEMMA Recursion ==
    ASSUME NEW X, NEW a \in X, NEW F \in Rules(X)
    PROVE  \E w \in Runs(X) : w[0] = a /\ \A k \in Nat : w[k + 1] = F[<<k, w[k]>>]
<1>. USE DEF Rules, Runs
<1>. DEFINE Upto(n, g) == /\ g \in [0 .. n -> X] /\ g[0] = a
                          /\ \A k \in Nat : k < n => g[k + 1] = F[<<k, g[k]>>]
            S == {n \in Nat : \E g : Upto(n, g)}
<1>1. Nat \subseteq S
  <2>1. 0 \in S
    <3>1. Upto(0, [k \in 0 .. 0 |-> a])
      OBVIOUS
    <3>. QED
      BY <3>1
  <2>2. ASSUME NEW n \in Nat, n \in S PROVE n + 1 \in S
    <3>1. PICK g : Upto(n, g)
      BY <2>2
    <3>. DEFINE h == [k \in 0 .. n + 1 |-> IF k = n + 1 THEN F[<<n, g[n]>>] ELSE g[k]]
    <3>2. g[n] \in X /\ F[<<n, g[n]>>] \in X
      BY <3>1
    <3>3. h \in [0 .. n + 1 -> X]
      BY <3>1, <3>2
    <3>4. h[0] = a
      BY <3>1
    <3>5. ASSUME NEW k \in Nat, k < n + 1 PROVE h[k + 1] = F[<<k, h[k]>>]
      <4>1. CASE k = n
        <5>1. n \in 0 .. n + 1 /\ n + 1 \in 0 .. n + 1 /\ n # n + 1
          OBVIOUS
        <5>2. h[n] = g[n] /\ h[n + 1] = F[<<n, g[n]>>]
          BY <5>1
        <5>. QED
          BY <4>1, <5>2
      <4>2. CASE k # n
        <5>1. k < n /\ k \in 0 .. n + 1 /\ k + 1 \in 0 .. n + 1 /\ k + 1 # n + 1 /\ k # n + 1
          BY <3>5, <4>2
        <5>2. h[k] = g[k] /\ h[k + 1] = g[k + 1]
          BY <5>1
        <5>3. g[k + 1] = F[<<k, g[k]>>]
          BY <3>1, <5>1
        <5>. QED
          BY <5>2, <5>3
      <4>. QED
        BY <3>5, <4>1, <4>2
    <3>. HIDE DEF h
    <3>6. Upto(n + 1, h)
      BY <3>3, <3>4, <3>5
    <3>. QED
      BY <3>6
  <2>. HIDE DEF S
  <2>. QED
    BY <2>1, <2>2, Induct
<1>2. ASSUME NEW n \in Nat, NEW m \in Nat, NEW g, NEW h, Upto(n, g), Upto(m, h),
             NEW k \in Nat, k <= n, k <= m
      PROVE  g[k] = h[k]
  <2>. DEFINE E == {j \in Nat : j <= n /\ j <= m => g[j] = h[j]}
  <2>1. 0 \in E
    BY <1>2
  <2>2. ASSUME NEW j \in Nat, j \in E PROVE j + 1 \in E
    <3>. SUFFICES ASSUME j + 1 <= n, j + 1 <= m PROVE g[j + 1] = h[j + 1]
      OBVIOUS
    <3>1. j < n /\ j < m /\ j <= n /\ j <= m
      OBVIOUS
    <3>2. g[j + 1] = F[<<j, g[j]>>] /\ h[j + 1] = F[<<j, h[j]>>]
      BY <1>2, <3>1
    <3>. QED
      BY <2>2, <3>1, <3>2
  <2>3. Nat \subseteq E
    <3>. HIDE DEF E
    <3>. QED
      BY <2>1, <2>2, Induct
  <2>. QED
    BY <1>2, <2>3
<1>. DEFINE G == [n \in Nat |-> CHOOSE g : Upto(n, g)]
            w == [n \in Nat |-> G[n][n]]
<1>3. \A n \in Nat : Upto(n, G[n])
  BY <1>1
<1>. HIDE DEF G
<1>4. w \in [Nat -> X]
  BY <1>3
<1>5. w[0] = a
  BY <1>3
<1>6. ASSUME NEW k \in Nat PROVE w[k + 1] = F[<<k, w[k]>>]
  <2>1. G[k + 1][k + 1] = F[<<k, G[k + 1][k]>>]
    BY <1>3
  <2>2. G[k + 1][k] = G[k][k]
    <3>1. Upto(k + 1, G[k + 1]) /\ Upto(k, G[k]) /\ k + 1 \in Nat /\ k <= k /\ k <= k + 1
      BY <1>3
    <3>. HIDE DEF Upto
    <3>. QED
      BY <1>2, <3>1
  <2>. QED
    BY <2>1, <2>2
<1>. QED
  BY <1>4, <1>5, <1>6

\* A sequence without its element k.
LEMMA DroppedIs ==
    ASSUME NEW X, NEW l \in Seq(X), NEW k \in 1 .. Len(l)
    PROVE  LET r == SubSeq(l, 1, k - 1) \o SubSeq(l, k + 1, Len(l)) IN
           /\ r \in Seq(X) /\ Len(r) = Len(l) - 1
           /\ \A j \in 1 .. Len(r) : r[j] = IF j < k THEN l[j] ELSE l[j + 1]
<1>. DEFINE a == SubSeq(l, 1, k - 1)
            b == SubSeq(l, k + 1, Len(l))
            r == a \o b
<1>0. Len(l) \in Nat /\ \A j \in 1 .. Len(l) : l[j] \in X
  BY LenProperties, ElementOfSeq
<1>1. /\ a \in Seq(X) /\ Len(a) = k - 1
      /\ \A j \in 1 .. k - 1 : a[j] = l[j]
  <2>1. 1 \in Int /\ k - 1 \in Int /\ \A j \in 1 .. k - 1 : l[j] \in X
    BY <1>0
  <2>2. /\ a \in Seq(X) /\ Len(a) = IF 1 <= k - 1 THEN (k - 1) - 1 + 1 ELSE 0
        /\ \A j \in 1 .. (k - 1) - 1 + 1 : a[j] = l[1 + j - 1]
    BY <2>1, SubSeqProperties
  <2>. HIDE DEF a
  <2>. QED
    BY <1>0, <2>2
<1>2. /\ b \in Seq(X) /\ Len(b) = Len(l) - k
      /\ \A j \in 1 .. Len(l) - k : b[j] = l[k + j]
  <2>1. k + 1 \in Int /\ Len(l) \in Int /\ \A j \in k + 1 .. Len(l) : l[j] \in X
    BY <1>0
  <2>2. /\ b \in Seq(X) /\ Len(b) = IF k + 1 <= Len(l) THEN Len(l) - (k + 1) + 1 ELSE 0
        /\ \A j \in 1 .. Len(l) - (k + 1) + 1 : b[j] = l[k + 1 + j - 1]
    BY <2>1, SubSeqProperties
  <2>3. PICK L \in Nat : L = Len(l)
    BY <1>0
  <2>. HIDE DEF b
  <2>4. k \in 1 .. L /\ L - (k + 1) + 1 = L - k /\ (~(k + 1 <= L) => L - k = 0)
    BY <2>3
  <2>5. \A j \in 1 .. L - k : k + 1 + j - 1 = k + j
    BY <2>4
  <2>. QED
    BY <2>2, <2>3, <2>4, <2>5
<1>. HIDE DEF a, b
<1>3. /\ r \in Seq(X) /\ Len(r) = Len(a) + Len(b)
      /\ \A j \in 1 .. Len(a) + Len(b) : r[j] = IF j <= Len(a) THEN a[j] ELSE b[j - Len(a)]
  BY <1>1, <1>2, ConcatProperties
<1>. HIDE DEF r
<1>5. Len(r) = Len(l) - 1
  BY <1>0, <1>1, <1>2, <1>3
<1>6. ASSUME NEW j \in 1 .. Len(r) PROVE r[j] = IF j < k THEN l[j] ELSE l[j + 1]
  <2>1. CASE j < k
    <3>1. j \in 1 .. k - 1 /\ j \in 1 .. Len(a) + Len(b) /\ j <= Len(a)
      BY <1>0, <1>1, <1>3, <1>5, <2>1
    <3>. QED
      BY <1>1, <1>3, <2>1, <3>1
  <2>2. CASE ~(j < k)
    <3>1. /\ j \in 1 .. Len(a) + Len(b) /\ ~(j <= Len(a)) /\ j - Len(a) = j + 1 - k
          /\ j + 1 - k \in 1 .. Len(l) - k /\ k + (j + 1 - k) = j + 1
      BY <1>0, <1>1, <1>3, <1>5, <2>2
    <3>. QED
      BY <1>2, <1>3, <2>2, <3>1
  <2>. QED
    BY <2>1, <2>2
<1>. QED
  BY <1>3, <1>5, <1>6 DEF r, a, b

-----------------------------------------------------------------------------
(* The list: what its links are, with each operation *)

\* The node at a place of a list, NULL beyond its ends.
NodeAt(l, j) == IF j \in 1 .. Len(l) THEN l[j] ELSE NULL

\* No node is twice in l.
Distinct(l) == \A j, k \in 1 .. Len(l) : l[j] = l[k] => j = k

\* What prev and next are.
Chained == [Nodes -> Nodes \cup {NULL}]

\* The links of d are the list l.
Linked(d, l) ==
    /\ l \in Seq(Nodes) /\ Distinct(l)
    /\ d.len = Len(l) /\ d.head = NodeAt(l, 1) /\ d.tail = NodeAt(l, Len(l))
    /\ d.prev \in Chained /\ d.next \in Chained
    /\ \A j \in 1 .. Len(l) :
          d.next[l[j]] = NodeAt(l, j + 1) /\ d.prev[l[j]] = NodeAt(l, j - 1)

\* r is l with n at place k, and the rest moved up.
Inserted(l, r, k, n) ==
    /\ r \in Seq(Nodes) /\ Len(r) = Len(l) + 1
    /\ r[k] = n
    /\ \A j \in 1 .. Len(l) : IF j < k THEN r[j] = l[j] ELSE r[j + 1] = l[j]

\* r is l without what is at place k, and the rest moved down.
Removed(l, r, k) ==
    /\ r \in Seq(Nodes) /\ Len(r) = Len(l) - 1
    /\ \A j \in 1 .. Len(r) : r[j] = IF j < k THEN l[j] ELSE l[j + 1]

\* Nodes in a list are those at its places.
LEMMA ListNodes ==
    ASSUME NEW l \in Seq(Nodes)
    PROVE  /\ Len(l) \in Nat /\ DOMAIN l = 1 .. Len(l)
           /\ \A j \in 1 .. Len(l) : l[j] \in Nodes /\ l[j] # NULL
           /\ \A n : n \in List!Range(l) <=> \E j \in 1 .. Len(l) : n = l[j]
<1>1. Len(l) \in Nat /\ DOMAIN l = 1 .. Len(l) /\ \A j \in 1 .. Len(l) : l[j] \in Nodes
  BY LenProperties, ElementOfSeq
<1>2. NULL \notin Nodes
  BY StructuresAssumption DEF List!DListAssumption
<1>. QED
  BY <1>1, <1>2 DEF List!Range

\* An insertion keeps nodes different from each other.
LEMMA InsertedAt ==
    ASSUME NEW l \in Seq(Nodes), NEW r, NEW n, NEW k \in 1 .. Len(l) + 1, Inserted(l, r, k, n)
    PROVE  /\ NodeAt(r, k) = n
           /\ \A j \in 0 .. k - 1 : NodeAt(r, j) = NodeAt(l, j)
           /\ \A j \in k .. Len(l) + 1 : NodeAt(r, j + 1) = NodeAt(l, j)
           /\ \A j \in 1 .. Len(r) : \/ j < k /\ j \in 1 .. Len(l) /\ r[j] = l[j]
                                     \/ j = k /\ r[j] = n
                                     \/ j > k /\ j - 1 \in 1 .. Len(l) /\ r[j] = l[j - 1]
<1>1. Len(l) \in Nat /\ Len(r) = Len(l) + 1 /\ r[k] = n
  BY ListNodes DEF Inserted
<1>2. \A j \in 1 .. Len(l) : j < k => r[j] = l[j]
  BY DEF Inserted
<1>3. \A j \in 1 .. Len(l) : j >= k => r[j + 1] = l[j]
  BY <1>1 DEF Inserted
<1>4. \A j \in 1 .. Len(r) : \/ j < k /\ j \in 1 .. Len(l) /\ r[j] = l[j]
                             \/ j = k /\ r[j] = n
                             \/ j > k /\ j - 1 \in 1 .. Len(l) /\ r[j] = l[j - 1]
  <2>. SUFFICES ASSUME NEW j \in 1 .. Len(r)
               PROVE  \/ j < k /\ j \in 1 .. Len(l) /\ r[j] = l[j]
                      \/ j = k /\ r[j] = n
                      \/ j > k /\ j - 1 \in 1 .. Len(l) /\ r[j] = l[j - 1]
    OBVIOUS
  <2>1. CASE j < k
    BY <1>1, <1>2, <2>1
  <2>2. CASE j > k
    <3>1. j - 1 \in 1 .. Len(l) /\ j - 1 >= k /\ (j - 1) + 1 = j
      BY <1>1, <2>2
    <3>. QED
      BY <1>3, <2>2, <3>1
  <2>. QED
    BY <1>1, <2>1, <2>2
<1>5. NodeAt(r, k) = n
  BY <1>1 DEF NodeAt
<1>6. ASSUME NEW j \in 0 .. k - 1 PROVE NodeAt(r, j) = NodeAt(l, j)
  <2>1. j \in 1 .. Len(r) <=> j \in 1 .. Len(l)
    BY <1>1
  <2>2. j \in 1 .. Len(l) => r[j] = l[j]
    BY <1>1, <1>2
  <2>. QED
    BY <2>1, <2>2 DEF NodeAt
<1>7. ASSUME NEW j \in k .. Len(l) + 1 PROVE NodeAt(r, j + 1) = NodeAt(l, j)
  <2>1. j + 1 \in 1 .. Len(r) <=> j \in 1 .. Len(l)
    BY <1>1
  <2>2. j \in 1 .. Len(l) => r[j + 1] = l[j]
    BY <1>1, <1>3
  <2>. QED
    BY <2>1, <2>2 DEF NodeAt
<1>. QED
  BY <1>4, <1>5, <1>6, <1>7

\* So does a removal.
LEMMA RemovedAt ==
    ASSUME NEW l \in Seq(Nodes), NEW r, NEW k \in 1 .. Len(l), Removed(l, r, k)
    PROVE  /\ \A j \in 0 .. k - 1 : NodeAt(r, j) = NodeAt(l, j)
           /\ \A j \in k .. Len(l) : NodeAt(r, j) = NodeAt(l, j + 1)
<1>1. Len(l) \in Nat /\ Len(r) = Len(l) - 1
  BY ListNodes DEF Removed
<1>2. ASSUME NEW j \in 0 .. k - 1 PROVE NodeAt(r, j) = NodeAt(l, j)
  <2>1. j \in 1 .. Len(r) <=> j \in 1 .. Len(l)
    BY <1>1
  <2>2. j \in 1 .. Len(r) => r[j] = l[j]
    BY <1>1 DEF Removed
  <2>. QED
    BY <2>1, <2>2 DEF NodeAt
<1>3. ASSUME NEW j \in k .. Len(l) PROVE NodeAt(r, j) = NodeAt(l, j + 1)
  <2>1. j \in 1 .. Len(r) <=> j + 1 \in 1 .. Len(l)
    BY <1>1
  <2>2. j \in 1 .. Len(r) => r[j] = l[j + 1]
    BY <1>1 DEF Removed
  <2>. QED
    BY <2>1, <2>2 DEF NodeAt
<1>. QED
  BY <1>2, <1>3

\* A node that is linked in between p and s is in the list there.
LEMMA Spliced ==
    ASSUME NEW d, NEW l, Linked(d, l), NEW n \in Nodes, \A j \in 1 .. Len(l) : l[j] # n,
           NEW k \in 1 .. Len(l) + 1, NEW r, Inserted(l, r, k, n),
           NEW p, NEW s1, p = NodeAt(l, k - 1), s1 = NodeAt(l, k),
           NEW e, e.len = d.len + 1, e.prev \in Chained, e.next \in Chained,
           e.head = IF p = NULL THEN n ELSE d.head,
           e.tail = IF s1 = NULL THEN n ELSE d.tail,
           e.prev[n] = p, e.next[n] = s1,
           \A m \in Nodes \ {n} : /\ e.prev[m] = IF m = s1 THEN n ELSE d.prev[m]
                                  /\ e.next[m] = IF m = p THEN n ELSE d.next[m]
    PROVE  Linked(e, r)
<1>1. /\ l \in Seq(Nodes) /\ Distinct(l) /\ Len(l) \in Nat
      /\ \A j \in 1 .. Len(l) : l[j] \in Nodes /\ l[j] # NULL /\ l[j] # n
      /\ NULL \notin Nodes
  BY ListNodes, StructuresAssumption DEF Linked, List!DListAssumption
<1>2. /\ NodeAt(r, k) = n
      /\ \A j \in 0 .. k - 1 : NodeAt(r, j) = NodeAt(l, j)
      /\ \A j \in k .. Len(l) + 1 : NodeAt(r, j + 1) = NodeAt(l, j)
  BY <1>1, InsertedAt
<1>3. ASSUME NEW j \in 1 .. Len(r)
      PROVE  \/ j < k /\ j \in 1 .. Len(l) /\ r[j] = l[j]
             \/ j = k /\ r[j] = n
             \/ j > k /\ j - 1 \in 1 .. Len(l) /\ r[j] = l[j - 1]
  BY <1>1, InsertedAt
<1>4. Len(r) = Len(l) + 1 /\ r \in Seq(Nodes)
  BY DEF Inserted
<1>5. Distinct(r)
  <2>. SUFFICES ASSUME NEW i \in 1 .. Len(r), NEW j \in 1 .. Len(r), r[i] = r[j] PROVE i = j
    BY DEF Distinct
  <2>. DEFINE In(y, m) == r[y] = l[m] /\ y = IF m < k THEN m ELSE m + 1
  <2>0. r[k] = n
    BY DEF Inserted
  <2>1. \A x \in 1 .. Len(r) : (x = k /\ r[x] = n) \/ \E m \in 1 .. Len(l) : In(x, m)
    <3>. SUFFICES ASSUME NEW x \in 1 .. Len(r), x # k PROVE \E m \in 1 .. Len(l) : In(x, m)
      BY Zenon, <2>0
    <3>1. CASE x < k
      BY <1>3, <3>1
    <3>2. CASE x > k
      <4>1. x - 1 \in 1 .. Len(l) /\ r[x] = l[x - 1] /\ ~(x - 1 < k) /\ x = (x - 1) + 1
        BY <1>1, <1>3, <1>4, <3>2
      <4>. QED
        BY <4>1
    <3>. QED
      BY <1>1, <1>4, <3>1, <3>2
  <2>2. CASE i = k /\ j = k
    BY <2>2
  <2>3. ASSUME NEW m \in 1 .. Len(l), In(i, m) PROVE i = j
    <3>1. r[j] # n
      BY <1>1, <2>3
    <3>2. PICK o \in 1 .. Len(l) : In(j, o)
      BY <2>1, <3>1
    <3>3. l[m] = l[o]
      BY <2>3, <3>2
    <3>4. m = o
      BY <1>1, <3>3 DEF Distinct
    <3>. QED
      BY <2>3, <3>2, <3>4
  <2>4. ASSUME NEW m \in 1 .. Len(l), In(j, m) PROVE i = j
    <3>1. r[i] # n
      BY <1>1, <2>4
    <3>2. PICK o \in 1 .. Len(l) : In(i, o)
      BY <2>1, <3>1
    <3>. QED
      BY <2>3, <3>2
  <2>. QED
    BY <2>1, <2>2, <2>3, <2>4
<1>6. \A j \in 1 .. Len(l) : /\ d.next[l[j]] = NodeAt(l, j + 1)
                             /\ d.prev[l[j]] = NodeAt(l, j - 1)
                             /\ l[j] = p <=> j = k - 1
                             /\ l[j] = s1 <=> j = k
  <2>1. \A j \in 1 .. Len(l) : /\ d.next[l[j]] = NodeAt(l, j + 1)
                               /\ d.prev[l[j]] = NodeAt(l, j - 1)
    BY DEF Linked
  <2>2. \A j \in 1 .. Len(l) : l[j] = p <=> j = k - 1
    BY <1>1 DEF NodeAt, Distinct
  <2>3. \A j \in 1 .. Len(l) : l[j] = s1 <=> j = k
    BY <1>1 DEF NodeAt, Distinct
  <2>. QED
    BY <2>1, <2>2, <2>3
<1>7. ASSUME NEW j \in 1 .. Len(r) PROVE e.next[r[j]] = NodeAt(r, j + 1)
  <2>1. CASE j < k - 1
    <3>1. j \in 1 .. Len(l) /\ r[j] = l[j] /\ j + 1 \in 0 .. k - 1
      BY <1>1, <1>3, <1>4, <2>1
    <3>2. l[j] \in Nodes \ {n} /\ l[j] # p
      BY <1>1, <1>6, <2>1, <3>1
    <3>3. e.next[r[j]] = NodeAt(l, j + 1)
      BY ZenonT(60), <1>6, <3>1, <3>2
    <3>. QED
      BY <1>2, <3>1, <3>3
  <2>2. CASE j = k - 1
    <3>1. j \in 1 .. Len(l) /\ r[j] = l[j] /\ j + 1 = k
      BY <1>1, <1>3, <1>4, <2>2
    <3>2. e.next[r[j]] = n
      BY <1>1, <1>6, <2>2, <3>1
    <3>. QED
      BY <1>2, <3>1, <3>2
  <2>3. CASE j = k
    <3>1. r[j] = n /\ NodeAt(r, j + 1) = NodeAt(l, k)
      BY <1>1, <1>2, <1>3, <1>4, <2>3
    <3>. QED
      BY <3>1
  <2>4. CASE j > k
    <3>1. j - 1 \in 1 .. Len(l) /\ r[j] = l[j - 1] /\ j \in k .. Len(l) + 1 /\ j - 1 # k - 1
          /\ (j - 1) + 1 = j
      BY <1>1, <1>3, <1>4, <2>4
    <3>2. e.next[r[j]] = NodeAt(l, j)
      BY <1>1, <1>6, <3>1
    <3>. QED
      BY <1>2, <3>1, <3>2
  <2>. QED
    BY <1>4, <2>1, <2>2, <2>3, <2>4
<1>8. ASSUME NEW j \in 1 .. Len(r) PROVE e.prev[r[j]] = NodeAt(r, j - 1)
  <2>1. CASE j < k
    <3>1. j \in 1 .. Len(l) /\ r[j] = l[j] /\ j - 1 \in 0 .. k - 1 /\ j # k
      BY <1>1, <1>3, <1>4, <2>1
    <3>2. e.prev[r[j]] = NodeAt(l, j - 1)
      BY SMTT(30), <1>1, <1>6, <3>1
    <3>. QED
      BY <1>2, <3>1, <3>2
  <2>2. CASE j = k
    <3>1. r[j] = n /\ k - 1 \in 0 .. k - 1 /\ NodeAt(r, j - 1) = NodeAt(l, k - 1)
      BY <1>1, <1>2, <1>3, <1>4, <2>2
    <3>. QED
      BY <3>1
  <2>3. CASE j = k + 1
    <3>1. k \in 1 .. Len(l) /\ r[j] = l[k] /\ j - 1 = k
      BY <1>1, <1>3, <1>4, <2>3
    <3>2. e.prev[r[j]] = n
      BY <1>1, <1>6, <3>1
    <3>. QED
      BY <1>2, <3>1, <3>2
  <2>4. CASE j > k + 1
    <3>1. j - 1 \in 1 .. Len(l) /\ r[j] = l[j - 1] /\ j - 2 \in k .. Len(l) + 1 /\ j - 1 # k
          /\ (j - 2) + 1 = j - 1 /\ (j - 1) - 1 = j - 2
      BY <1>1, <1>3, <1>4, <2>4
    <3>2. l[j - 1] \in Nodes \ {n} /\ l[j - 1] # s1
      BY <1>1, <1>6, <3>1
    <3>3. d.prev[l[j - 1]] = NodeAt(l, j - 2)
      BY <1>6, <3>1
    <3>4. e.prev[r[j]] = NodeAt(l, j - 2)
      BY <3>1, <3>2, <3>3
    <3>. QED
      BY <1>2, <3>1, <3>4
  <2>. QED
    BY <1>4, <2>1, <2>2, <2>3, <2>4
<1>9. e.head = NodeAt(r, 1)
  <2>1. CASE k = 1
    BY <1>1, <1>2, <2>1 DEF NodeAt
  <2>2. CASE k > 1
    <3>1. p # NULL /\ 1 \in 0 .. k - 1
      BY <1>1, <2>2 DEF NodeAt
    <3>. QED
      BY <1>2, <3>1 DEF Linked
  <2>. QED
    BY <2>1, <2>2
<1>10. e.tail = NodeAt(r, Len(r))
  <2>1. CASE k = Len(l) + 1
    BY <1>1, <1>2, <1>4, <2>1 DEF NodeAt
  <2>2. CASE k < Len(l) + 1
    <3>1. s1 # NULL /\ Len(l) \in k .. Len(l) + 1
      BY <1>1, <2>2 DEF NodeAt
    <3>. QED
      BY <1>2, <1>4, <3>1 DEF Linked
  <2>. QED
    BY <1>1, <2>1, <2>2
<1>. QED
  BY <1>4, <1>5, <1>7, <1>8, <1>9, <1>10 DEF Linked

\* And one that is unlinked is out of it.
LEMMA Unspliced ==
    ASSUME NEW d, NEW l, Linked(d, l), NEW k \in 1 .. Len(l), NEW r, Removed(l, r, k),
           NEW n, NEW p, NEW s1, n = l[k], p = NodeAt(l, k - 1), s1 = NodeAt(l, k + 1),
           NEW e, e.len = d.len - 1, e.prev \in Chained, e.next \in Chained,
           e.head = IF p = NULL THEN s1 ELSE d.head,
           e.tail = IF s1 = NULL THEN p ELSE d.tail,
           \A m \in Nodes \ {n} : /\ e.prev[m] = IF m = s1 THEN p ELSE d.prev[m]
                                  /\ e.next[m] = IF m = p THEN s1 ELSE d.next[m]
    PROVE  Linked(e, r)
<1>1. /\ l \in Seq(Nodes) /\ Distinct(l) /\ Len(l) \in Nat
      /\ \A j \in 1 .. Len(l) : l[j] \in Nodes /\ l[j] # NULL
      /\ NULL \notin Nodes
  BY ListNodes, StructuresAssumption DEF Linked, List!DListAssumption
<1>2. /\ \A j \in 0 .. k - 1 : NodeAt(r, j) = NodeAt(l, j)
      /\ \A j \in k .. Len(l) : NodeAt(r, j) = NodeAt(l, j + 1)
  BY <1>1, RemovedAt
<1>3. Len(r) = Len(l) - 1 /\ r \in Seq(Nodes)
  BY DEF Removed
<1>4. \A j \in 1 .. Len(r) : r[j] = IF j < k THEN l[j] ELSE l[j + 1]
  BY DEF Removed
<1>5. \A j \in 1 .. Len(l) : l[j] = n <=> j = k
  BY <1>1 DEF Distinct
<1>6. Distinct(r)
  <2>. SUFFICES ASSUME NEW i \in 1 .. Len(r), NEW j \in 1 .. Len(r), r[i] = r[j] PROVE i = j
    BY DEF Distinct
  <2>. DEFINE To(y) == IF y < k THEN y ELSE y + 1
  <2>1. To(i) \in 1 .. Len(l) /\ To(j) \in 1 .. Len(l)
    BY <1>1, <1>3
  <2>2. r[i] = l[To(i)] /\ r[j] = l[To(j)]
    BY <1>4
  <2>3. To(i) = To(j)
    <3>1. PICK x \in 1 .. Len(l), y \in 1 .. Len(l) : x = To(i) /\ y = To(j)
      BY <2>1
    <3>2. l[x] = l[y]
      BY <2>2, <3>1
    <3>3. x = y
      BY <1>1, <3>2 DEF Distinct
    <3>. QED
      BY <3>1, <3>3
  <2>. QED
    BY <1>1, <1>3, <2>3
<1>7. /\ \A j \in 1 .. Len(l) : /\ d.next[l[j]] = NodeAt(l, j + 1)
                                /\ d.prev[l[j]] = NodeAt(l, j - 1)
      /\ \A j \in 1 .. Len(l) : l[j] = p <=> j = k - 1
      /\ \A j \in 1 .. Len(l) : l[j] = s1 <=> j = k + 1
  <2>1. \A j \in 1 .. Len(l) : /\ d.next[l[j]] = NodeAt(l, j + 1)
                               /\ d.prev[l[j]] = NodeAt(l, j - 1)
    BY DEF Linked
  <2>2. \A j \in 1 .. Len(l) : l[j] = p <=> j = k - 1
    BY <1>1 DEF NodeAt, Distinct
  <2>3. \A j \in 1 .. Len(l) : l[j] = s1 <=> j = k + 1
    BY <1>1 DEF NodeAt, Distinct
  <2>. QED
    BY <2>1, <2>2, <2>3
<1>8. ASSUME NEW j \in 1 .. Len(r) PROVE e.next[r[j]] = NodeAt(r, j + 1)
  <2>1. CASE j < k - 1
    <3>1. j \in 1 .. Len(l) /\ r[j] = l[j] /\ j + 1 \in 0 .. k - 1 /\ j # k /\ j # k - 1
      BY <1>1, <1>3, <1>4, <2>1
    <3>2. l[j] \in Nodes \ {n} /\ l[j] # p
      BY <1>1, <1>5, <1>7, <3>1
    <3>3. d.next[l[j]] = NodeAt(l, j + 1)
      BY <1>7, <3>1
    <3>4. e.next[r[j]] = NodeAt(l, j + 1)
      BY <3>1, <3>2, <3>3
    <3>. QED
      BY <1>2, <3>1, <3>4
  <2>2. CASE j = k - 1
    <3>1. j \in 1 .. Len(l) /\ r[j] = l[j] /\ j + 1 = k /\ j # k /\ k \in k .. Len(l)
      BY <1>1, <1>3, <1>4, <2>2
    <3>2. l[j] \in Nodes \ {n} /\ l[j] = p
      BY <1>1, <1>5, <1>7, <2>2, <3>1
    <3>3. e.next[r[j]] = NodeAt(l, k + 1)
      BY <3>1, <3>2
    <3>. QED
      BY <1>2, <3>1, <3>3
  <2>3. CASE j >= k
    <3>1. j + 1 \in 1 .. Len(l) /\ r[j] = l[j + 1] /\ j + 1 # k /\ j + 1 # k - 1
          /\ j + 1 \in k .. Len(l)
      BY <1>1, <1>3, <1>4, <2>3
    <3>2. l[j + 1] \in Nodes \ {n} /\ l[j + 1] # p
      BY <1>1, <1>5, <1>7, <3>1
    <3>3. d.next[l[j + 1]] = NodeAt(l, (j + 1) + 1)
      BY <1>7, <3>1
    <3>4. e.next[r[j]] = NodeAt(l, (j + 1) + 1)
      BY <3>1, <3>2, <3>3
    <3>. QED
      BY <1>2, <3>1, <3>4
  <2>. QED
    BY <1>3, <2>1, <2>2, <2>3
<1>9. ASSUME NEW j \in 1 .. Len(r) PROVE e.prev[r[j]] = NodeAt(r, j - 1)
  <2>1. CASE j < k
    <3>1. j \in 1 .. Len(l) /\ j - 1 \in 0 .. k - 1 /\ j # k /\ j # k + 1
      BY <1>1, <1>3, <2>1
    <3>2. r[j] = l[j]
      BY <1>4, <2>1
    <3>3. l[j] \in Nodes \ {n} /\ l[j] # s1
      BY <1>1, <1>5, <1>7, <3>1
    <3>4. d.prev[l[j]] = NodeAt(l, j - 1)
      BY <1>7, <3>1
    <3>5. e.prev[r[j]] = NodeAt(l, j - 1)
      BY <3>2, <3>3, <3>4
    <3>. QED
      BY <1>2, <3>1, <3>5
  <2>2. CASE j = k
    <3>1. k + 1 \in 1 .. Len(l) /\ r[j] = l[k + 1] /\ k + 1 # k /\ j - 1 \in 0 .. k - 1
          /\ j - 1 = k - 1
      BY <1>1, <1>3, <1>4, <2>2
    <3>2. l[k + 1] \in Nodes \ {n} /\ l[k + 1] = s1
      BY <1>1, <1>5, <1>7, <3>1
    <3>3. e.prev[r[j]] = NodeAt(l, k - 1)
      BY <3>1, <3>2
    <3>. QED
      BY <1>2, <3>1, <3>3
  <2>3. CASE j > k
    <3>1. j + 1 \in 1 .. Len(l) /\ r[j] = l[j + 1] /\ j + 1 # k /\ j + 1 # k + 1
          /\ j - 1 \in k .. Len(l) /\ (j + 1) - 1 = j /\ (j - 1) + 1 = j
      BY SMTT(30), <1>1, <1>3, <1>4, <2>3
    <3>2. l[j + 1] \in Nodes \ {n} /\ l[j + 1] # s1
      BY <1>1, <1>5, <1>7, <3>1
    <3>3. d.prev[l[j + 1]] = NodeAt(l, j)
      BY ZenonT(60), <1>7, <3>1
    <3>4. e.prev[r[j]] = NodeAt(l, j)
      BY <3>1, <3>2, <3>3
    <3>. QED
      BY <1>2, <3>1, <3>4
  <2>. QED
    BY <1>3, <2>1, <2>2, <2>3
<1>10. e.head = NodeAt(r, 1)
  <2>1. CASE k = 1
    <3>1. p = NULL /\ 1 \in k .. Len(l)
      BY <1>1, <2>1 DEF NodeAt
    <3>. QED
      BY <1>2, <2>1, <3>1
  <2>2. CASE k > 1
    <3>1. p # NULL /\ 1 \in 0 .. k - 1
      BY <1>1, <2>2 DEF NodeAt
    <3>. QED
      BY <1>2, <3>1 DEF Linked
  <2>. QED
    BY <2>1, <2>2
<1>11. e.tail = NodeAt(r, Len(r))
  <2>1. CASE k = Len(l)
    <3>1. s1 = NULL /\ k - 1 \in 0 .. k - 1
      BY <1>1, <2>1 DEF NodeAt
    <3>. QED
      BY <1>2, <1>3, <2>1, <3>1
  <2>2. CASE k < Len(l)
    <3>1. s1 # NULL /\ Len(r) \in k .. Len(l) /\ Len(r) + 1 = Len(l)
      BY <1>1, <1>3, <2>2 DEF NodeAt
    <3>. QED
      BY <1>2, <3>1 DEF Linked
  <2>. QED
    BY <1>1, <2>1, <2>2
<1>. QED
  BY <1>3, <1>6, <1>8, <1>9, <1>10, <1>11 DEF Linked

-----------------------------------------------------------------------------
\* InsertAt puts a node at a place (DList).
LEMMA InsertAtIs ==
    ASSUME NEW l \in Seq(Nodes), NEW n \in Nodes, NEW k \in 1 .. Len(l) + 1
    PROVE  Inserted(l, List!InsertAt(l, k, n), k, n)
<1>. DEFINE a == SubSeq(l, 1, k - 1)
            b == SubSeq(l, k, Len(l))
            c == a \o <<n>>
            r == c \o b
<1>0. Len(l) \in Nat /\ \A j \in 1 .. Len(l) : l[j] \in Nodes
  BY ListNodes
<1>1. /\ a \in Seq(Nodes) /\ Len(a) = k - 1
      /\ \A j \in 1 .. k - 1 : a[j] = l[j]
  <2>1. 1 \in Int /\ k - 1 \in Int /\ \A j \in 1 .. k - 1 : l[j] \in Nodes
    BY <1>0
  <2>2. /\ a \in Seq(Nodes) /\ Len(a) = IF 1 <= k - 1 THEN (k - 1) - 1 + 1 ELSE 0
        /\ \A j \in 1 .. (k - 1) - 1 + 1 : a[j] = l[1 + j - 1]
    BY <2>1, SubSeqProperties
  <2>. HIDE DEF a
  <2>. QED
    BY <1>0, <2>2
<1>2. /\ b \in Seq(Nodes) /\ Len(b) = Len(l) + 1 - k
      /\ \A j \in 1 .. Len(l) + 1 - k : b[j] = l[k + j - 1]
  <2>1. k \in Int /\ Len(l) \in Int /\ \A j \in k .. Len(l) : l[j] \in Nodes
    BY <1>0
  <2>2. /\ b \in Seq(Nodes) /\ Len(b) = IF k <= Len(l) THEN Len(l) - k + 1 ELSE 0
        /\ \A j \in 1 .. Len(l) - k + 1 : b[j] = l[k + j - 1]
    BY <2>1, SubSeqProperties
  <2>3. PICK L \in Nat : L = Len(l)
    BY <1>0
  <2>. HIDE DEF b
  <2>4. k \in 1 .. L + 1 /\ L - k + 1 = L + 1 - k /\ (~(k <= L) => L + 1 - k = 0)
    BY <2>3
  <2>. QED
    BY <2>2, <2>3, <2>4
<1>. HIDE DEF a, b
<1>3. /\ c \in Seq(Nodes) /\ Len(c) = k
      /\ \A j \in 1 .. k - 1 : c[j] = l[j]
      /\ c[k] = n
  <2>1. <<n>> \in Seq(Nodes) /\ Len(<<n>>) = 1 /\ <<n>>[1] = n
    OBVIOUS
  <2>2. /\ c \in Seq(Nodes) /\ Len(c) = Len(a) + Len(<<n>>)
        /\ \A j \in 1 .. Len(a) + Len(<<n>>) :
              c[j] = IF j <= Len(a) THEN a[j] ELSE <<n>>[j - Len(a)]
    BY <1>1, <2>1, ConcatProperties
  <2>3. Len(c) = k
    BY <1>1, <2>1, <2>2
  <2>4. ASSUME NEW j \in 1 .. k - 1 PROVE c[j] = l[j]
    BY <1>1, <2>1, <2>2, <2>4
  <2>5. c[k] = n
    <3>1. k \in 1 .. Len(a) + Len(<<n>>) /\ ~(k <= Len(a)) /\ k - Len(a) = 1
      BY <1>0, <1>1, <2>1
    <3>. QED
      BY <2>1, <2>2, <3>1
  <2>. QED
    BY <2>2, <2>3, <2>4, <2>5
<1>. HIDE DEF c
<1>4. /\ r \in Seq(Nodes) /\ Len(r) = Len(c) + Len(b)
      /\ \A j \in 1 .. Len(c) + Len(b) : r[j] = IF j <= Len(c) THEN c[j] ELSE b[j - Len(c)]
  BY <1>2, <1>3, ConcatProperties
<1>5. List!InsertAt(l, k, n) = r
  BY DEF List!InsertAt, r, c, a, b
<1>. HIDE DEF r
<1>6. Len(r) = Len(l) + 1
  BY <1>0, <1>2, <1>3, <1>4
<1>7. r[k] = n
  BY <1>0, <1>3, <1>4, <1>6
<1>8. ASSUME NEW j \in 1 .. Len(l) PROVE IF j < k THEN r[j] = l[j] ELSE r[j + 1] = l[j]
  <2>1. CASE j < k
    <3>1. j \in 1 .. k - 1 /\ j \in 1 .. Len(c) + Len(b) /\ j <= Len(c)
      BY <1>0, <1>3, <1>4, <1>6, <2>1
    <3>. QED
      BY <1>3, <1>4, <2>1, <3>1
  <2>2. CASE ~(j < k)
    <3>1. /\ j + 1 \in 1 .. Len(c) + Len(b) /\ ~(j + 1 <= Len(c)) /\ j + 1 - Len(c) = j + 1 - k
          /\ j + 1 - k \in 1 .. Len(l) + 1 - k /\ k + (j + 1 - k) - 1 = j
      BY SMTT(30), <1>0, <1>3, <1>4, <1>6, <2>2
    <3>. QED
      BY <1>2, <1>4, <2>2, <3>1
  <2>. QED
    BY <2>1, <2>2
<1>. QED
  BY <1>4, <1>5, <1>6, <1>7, <1>8 DEF Inserted

\* RemoveAt takes it out (DList).
LEMMA RemoveAtIs ==
    ASSUME NEW l \in Seq(Nodes), NEW k \in 1 .. Len(l)
    PROVE  Removed(l, List!RemoveAt(l, k), k)
<1>1. PICK r : r = SubSeq(l, 1, k - 1) \o SubSeq(l, k + 1, Len(l))
  OBVIOUS
<1>2. /\ r \in Seq(Nodes) /\ Len(r) = Len(l) - 1
      /\ \A j \in 1 .. Len(r) : r[j] = IF j < k THEN l[j] ELSE l[j + 1]
  BY <1>1, DroppedIs
<1>3. List!RemoveAt(l, k) = r
  BY Zenon, <1>1 DEF List!RemoveAt
<1>. QED
  BY <1>2, <1>3 DEF Removed

\* A node goes to the head of a list, or to its tail.
LEMMA EndsIs ==
    ASSUME NEW l \in Seq(Nodes), NEW n \in Nodes
    PROVE  Inserted(l, <<n>> \o l, 1, n) /\ Inserted(l, Append(l, n), Len(l) + 1, n)
<1>0. Len(l) \in Nat /\ <<n>> \in Seq(Nodes) /\ Len(<<n>>) = 1 /\ <<n>>[1] = n
  BY ListNodes
<1>1. Inserted(l, <<n>> \o l, 1, n)
  <2>. DEFINE r == <<n>> \o l
  <2>1. /\ r \in Seq(Nodes) /\ Len(r) = Len(<<n>>) + Len(l)
        /\ \A j \in 1 .. Len(<<n>>) + Len(l) :
              r[j] = IF j <= Len(<<n>>) THEN <<n>>[j] ELSE l[j - Len(<<n>>)]
    BY <1>0, ConcatProperties
  <2>. HIDE DEF r
  <2>2. Len(r) = Len(l) + 1 /\ r[1] = n
    BY <1>0, <2>1
  <2>3. ASSUME NEW j \in 1 .. Len(l) PROVE ~(j < 1) /\ r[j + 1] = l[j]
    <3>1. j + 1 \in 1 .. 1 + Len(l) /\ ~(j + 1 <= 1) /\ (j + 1) - 1 = j /\ ~(j < 1)
      BY <1>0
    <3>. QED
      BY <1>0, <2>1, <3>1
  <2>4. Inserted(l, r, 1, n)
    BY <2>1, <2>2, <2>3 DEF Inserted
  <2>. QED
    BY <2>4 DEF r
<1>2. Inserted(l, Append(l, n), Len(l) + 1, n)
  <2>1. /\ Append(l, n) \in Seq(Nodes) /\ Len(Append(l, n)) = Len(l) + 1
        /\ \A j \in 1 .. Len(l) : Append(l, n)[j] = l[j]
        /\ Append(l, n)[Len(l) + 1] = n
    BY AppendProperties
  <2>2. \A j \in 1 .. Len(l) : j < Len(l) + 1
    BY <1>0
  <2>. QED
    BY <2>1, <2>2 DEF Inserted
<1>. QED
  BY <1>1, <1>2

\* What a list is made of, at its ends and in between.
LEMMA LinkedIs ==
    ASSUME NEW d, NEW l, Linked(d, l)
    PROVE  /\ l \in Seq(Nodes) /\ Len(l) \in Nat /\ NULL \notin Nodes
           /\ \A j \in 1 .. Len(l) : l[j] \in Nodes /\ l[j] # NULL
           /\ d.head \in Nodes \cup {NULL} /\ d.tail \in Nodes \cup {NULL}
           /\ d.head = NULL <=> Len(l) = 0
           /\ d.tail = NULL <=> Len(l) = 0
           /\ d.prev \in Chained /\ d.next \in Chained
           /\ \A j \in 0 .. Len(l) + 1 : /\ NodeAt(l, j) \in Nodes \cup {NULL}
                                         /\ NodeAt(l, j) = NULL <=> j = 0 \/ j = Len(l) + 1
<1>1. l \in Seq(Nodes) /\ d.head = NodeAt(l, 1) /\ d.tail = NodeAt(l, Len(l))
      /\ d.prev \in Chained /\ d.next \in Chained
  BY DEF Linked
<1>2. /\ Len(l) \in Nat /\ NULL \notin Nodes
      /\ \A j \in 1 .. Len(l) : l[j] \in Nodes /\ l[j] # NULL
  BY <1>1, ListNodes, StructuresAssumption DEF List!DListAssumption
<1>3. \A j \in 0 .. Len(l) + 1 : /\ NodeAt(l, j) \in Nodes \cup {NULL}
                                 /\ NodeAt(l, j) = NULL <=> j = 0 \/ j = Len(l) + 1
  BY <1>2 DEF NodeAt
<1>4. /\ d.head \in Nodes \cup {NULL} /\ d.tail \in Nodes \cup {NULL}
      /\ d.head = NULL <=> Len(l) = 0
      /\ d.tail = NULL <=> Len(l) = 0
  BY <1>1, <1>2 DEF NodeAt
<1>. QED
  BY <1>1, <1>2, <1>3, <1>4

\* dlist_add_node_head links the node that is the list's first
\* (dlist.c:49-72).
LEMMA AddHeadLinks ==
    ASSUME NEW d, NEW l, Linked(d, l), NEW n \in Nodes, \A j \in 1 .. Len(l) : l[j] # n, NEW v
    PROVE  Linked(List!AddHead(d, n, v), <<n>> \o l)
<1>. DEFINE e == List!AddHead(d, n, v)
<1>1. /\ e.head = n /\ e.tail = (IF d.len = 0 THEN n ELSE d.tail) /\ e.len = d.len + 1
      /\ e.prev = [m \in Nodes |-> IF m = n THEN NULL ELSE IF m = d.head THEN n ELSE d.prev[m]]
      /\ e.next = [d.next EXCEPT ![n] = d.head]
  BY DEF List!AddHead
<1>. HIDE DEF e
<1>a. PICK p, s1, k : p = NULL /\ s1 = d.head /\ k = 1
  OBVIOUS
<1>2. /\ l \in Seq(Nodes) /\ Len(l) \in Nat /\ NULL \notin Nodes
      /\ d.prev \in [Nodes -> Nodes \cup {NULL}] /\ d.next \in [Nodes -> Nodes \cup {NULL}]
      /\ d.head \in Nodes \cup {NULL}
      /\ d.head = NULL <=> Len(l) = 0
  BY LinkedIs DEF Chained
<1>3. /\ s1 = NodeAt(l, k) /\ p = NodeAt(l, k - 1) /\ d.len = Len(l)
      /\ k \in 1 .. Len(l) + 1
  BY <1>a, <1>2 DEF Linked, NodeAt
<1>4. e.prev \in Chained /\ e.next \in Chained
  <2>1. \A m \in Nodes : (IF m = n THEN NULL ELSE IF m = d.head THEN n ELSE d.prev[m]) \in Nodes \cup {NULL}
    BY <1>2
  <2>2. e.next = [m \in Nodes |-> IF m = n THEN d.head ELSE d.next[m]]
    BY <1>1, <1>2
  <2>3. \A m \in Nodes : (IF m = n THEN d.head ELSE d.next[m]) \in Nodes \cup {NULL}
    BY <1>2
  <2>4. e.prev \in Chained
    BY <1>1, <2>1, <2>2, <2>3 DEF Chained
  <2>5. e.next \in Chained
    BY <1>1, <2>1, <2>2, <2>3 DEF Chained
  <2>. QED
    BY <2>4, <2>5
<1>5. /\ e.prev[n] = p /\ e.next[n] = s1
      /\ \A m \in Nodes \ {n} : /\ e.prev[m] = IF m = s1 THEN n ELSE d.prev[m]
                                /\ e.next[m] = IF m = p THEN n ELSE d.next[m]
  BY <1>a, <1>1, <1>2
<1>6. /\ e.head = IF p = NULL THEN n ELSE d.head
      /\ e.tail = IF s1 = NULL THEN n ELSE d.tail
  BY <1>a, <1>1, <1>2, <1>3
<1>7. PICK r : r = <<n>> \o l /\ Inserted(l, r, k, n)
  BY <1>a, <1>2, EndsIs
<1>8. Linked(e, r)
  <2>1. e.len = d.len + 1
    BY <1>1
  <2>. QED
    BY <1>3, <1>4, <1>5, <1>6, <1>7, <2>1, Spliced
<1>. QED
  BY <1>7, <1>8 DEF e

\* dlist_add_node_tail links the one that is its last (dlist.c:74-94).
LEMMA AddTailLinks ==
    ASSUME NEW d, NEW l, Linked(d, l), NEW n \in Nodes, \A j \in 1 .. Len(l) : l[j] # n, NEW v
    PROVE  Linked(List!AddTail(d, n, v), Append(l, n))
<1>. DEFINE e == List!AddTail(d, n, v)
<1>1. /\ e.head = (IF d.len = 0 THEN n ELSE d.head) /\ e.tail = n /\ e.len = d.len + 1
      /\ e.prev = [d.prev EXCEPT ![n] = d.tail]
      /\ e.next = [m \in Nodes |-> IF m = n THEN NULL ELSE IF m = d.tail THEN n ELSE d.next[m]]
  BY DEF List!AddTail
<1>. HIDE DEF e
<1>a. PICK p, s1, k : p = d.tail /\ s1 = NULL /\ k = Len(l) + 1
  OBVIOUS
<1>2. /\ l \in Seq(Nodes) /\ Len(l) \in Nat /\ NULL \notin Nodes
      /\ d.prev \in [Nodes -> Nodes \cup {NULL}] /\ d.next \in [Nodes -> Nodes \cup {NULL}]
      /\ d.tail \in Nodes \cup {NULL}
      /\ d.tail = NULL <=> Len(l) = 0
  BY LinkedIs DEF Chained
<1>3. /\ p = NodeAt(l, k - 1) /\ s1 = NodeAt(l, k) /\ d.len = Len(l)
      /\ k \in 1 .. Len(l) + 1
  BY <1>a, <1>2 DEF Linked, NodeAt
<1>4. e.prev \in Chained /\ e.next \in Chained
  <2>1. \A m \in Nodes : (IF m = n THEN NULL ELSE IF m = d.tail THEN n ELSE d.next[m]) \in Nodes \cup {NULL}
    BY <1>2
  <2>2. e.prev = [m \in Nodes |-> IF m = n THEN d.tail ELSE d.prev[m]]
    BY <1>1, <1>2
  <2>3. \A m \in Nodes : (IF m = n THEN d.tail ELSE d.prev[m]) \in Nodes \cup {NULL}
    BY <1>2
  <2>4. e.prev \in Chained
    BY <1>1, <2>1, <2>2, <2>3 DEF Chained
  <2>5. e.next \in Chained
    BY <1>1, <2>1, <2>2, <2>3 DEF Chained
  <2>. QED
    BY <2>4, <2>5
<1>5. /\ e.prev[n] = p /\ e.next[n] = s1
      /\ \A m \in Nodes \ {n} : /\ e.prev[m] = IF m = s1 THEN n ELSE d.prev[m]
                                /\ e.next[m] = IF m = p THEN n ELSE d.next[m]
  BY <1>a, <1>1, <1>2
<1>6. /\ e.head = IF p = NULL THEN n ELSE d.head
      /\ e.tail = IF s1 = NULL THEN n ELSE d.tail
  BY <1>a, <1>1, <1>2, <1>3
<1>7. PICK r : r = Append(l, n) /\ Inserted(l, r, k, n)
  BY <1>a, <1>2, EndsIs
<1>8. Linked(e, r)
  <2>1. e.len = d.len + 1
    BY <1>1
  <2>. QED
    BY Z3, <1>3, <1>4, <1>5, <1>6, <1>7, <2>1, Spliced
<1>. QED
  BY <1>7, <1>8 DEF e

\* dlist_insert_node links one before or after another, which may be the
\* list's first or last (dlist.c:96-129).
LEMMA InsertNodeLinks ==
    ASSUME NEW d, NEW l, Linked(d, l), NEW n \in Nodes, \A j \in 1 .. Len(l) : l[j] # n, NEW v,
           NEW i \in 1 .. Len(l), NEW after \in BOOLEAN,
           NEW k, k = IF after THEN i + 1 ELSE i
    PROVE  Linked(List!InsertNode(d, l[i], n, v, after), List!InsertAt(l, k, n))
<1>. DEFINE e == List!InsertNode(d, l[i], n, v, after)
<1>0. PICK p, s1 : /\ p = IF after THEN l[i] ELSE d.prev[l[i]]
                   /\ s1 = IF after THEN d.next[l[i]] ELSE l[i]
  OBVIOUS
<1>1. /\ e.head = (IF ~after /\ d.head = l[i] THEN n ELSE d.head)
      /\ e.tail = (IF after /\ d.tail = l[i] THEN n ELSE d.tail)
      /\ e.len = d.len + 1
      /\ e.prev = [m \in Nodes |-> IF m = n THEN p ELSE IF m = s1 THEN n ELSE d.prev[m]]
      /\ e.next = [m \in Nodes |-> IF m = n THEN s1 ELSE IF m = p THEN n ELSE d.next[m]]
  BY <1>0 DEF List!InsertNode
<1>. HIDE DEF e
<1>2. /\ l \in Seq(Nodes) /\ Len(l) \in Nat /\ NULL \notin Nodes
      /\ d.prev \in [Nodes -> Nodes \cup {NULL}] /\ d.next \in [Nodes -> Nodes \cup {NULL}]
      /\ \A j \in 1 .. Len(l) : l[j] \in Nodes /\ l[j] # NULL
      /\ \A j \in 0 .. Len(l) + 1 : /\ NodeAt(l, j) \in Nodes \cup {NULL}
                                    /\ NodeAt(l, j) = NULL <=> j = 0 \/ j = Len(l) + 1
  BY LinkedIs DEF Chained
<1>3. /\ d.head = NodeAt(l, 1) /\ d.tail = NodeAt(l, Len(l)) /\ d.len = Len(l)
      /\ d.next[l[i]] = NodeAt(l, i + 1) /\ d.prev[l[i]] = NodeAt(l, i - 1)
      /\ \A j \in 1 .. Len(l) : l[i] = l[j] => i = j
  BY DEF Linked, Distinct
<1>4. k \in 1 .. Len(l) + 1
  BY <1>2
<1>5. p = NodeAt(l, k - 1) /\ s1 = NodeAt(l, k)
  <2>1. CASE after
    BY <1>0, <1>2, <1>3, <2>1 DEF NodeAt
  <2>2. CASE ~after
    BY <1>0, <1>2, <1>3, <2>2 DEF NodeAt
  <2>. QED
    BY <2>1, <2>2
<1>6. p \in Nodes \cup {NULL} /\ s1 \in Nodes \cup {NULL}
  BY <1>2, <1>4, <1>5
<1>7. e.prev \in Chained /\ e.next \in Chained
  BY <1>1, <1>2, <1>6 DEF Chained
<1>8. /\ e.prev[n] = p /\ e.next[n] = s1
      /\ \A m \in Nodes \ {n} : /\ e.prev[m] = IF m = s1 THEN n ELSE d.prev[m]
                                /\ e.next[m] = IF m = p THEN n ELSE d.next[m]
  BY <1>1
<1>9. e.head = IF p = NULL THEN n ELSE d.head
  <2>1. p = NULL <=> k = 1
    BY <1>2, <1>4, <1>5
  <2>2. d.head = l[i] <=> i = 1
    BY <1>2, <1>3 DEF NodeAt
  <2>3. k = 1 <=> ~after /\ i = 1
    BY <1>2
  <2>. QED
    BY <1>1, <2>1, <2>2, <2>3
<1>10. e.tail = IF s1 = NULL THEN n ELSE d.tail
  <2>1. s1 = NULL <=> k = Len(l) + 1
    BY <1>2, <1>4, <1>5
  <2>2. d.tail = l[i] <=> i = Len(l)
    BY <1>2, <1>3 DEF NodeAt
  <2>3. k = Len(l) + 1 <=> after /\ i = Len(l)
    BY <1>2
  <2>. QED
    BY <1>1, <2>1, <2>2, <2>3
<1>11. Inserted(l, List!InsertAt(l, k, n), k, n)
  BY <1>2, <1>4, InsertAtIs
<1>12. Linked(e, List!InsertAt(l, k, n))
  BY <1>1, <1>4, <1>5, <1>7, <1>8, <1>9, <1>10, <1>11, Spliced
<1>. QED
  BY <1>12 DEF e

\* dlist_delete_node takes a node out, at an end or in between
\* (dlist.c:131-152).
LEMMA DeleteNodeLinks ==
    ASSUME NEW d, NEW l, Linked(d, l), NEW k \in 1 .. Len(l)
    PROVE  Linked(List!DeleteNode(d, l[k]), List!RemoveAt(l, k))
<1>. DEFINE e == List!DeleteNode(d, l[k])
<1>0. PICK n, p, s1 : n = l[k] /\ p = d.prev[n] /\ s1 = d.next[n]
  OBVIOUS
<1>1. /\ e.head = (IF p = NULL THEN s1 ELSE d.head)
      /\ e.tail = (IF s1 = NULL THEN p ELSE d.tail)
      /\ e.len = d.len - 1
      /\ e.prev = [m \in Nodes |-> IF m = n THEN NULL ELSE IF m = s1 THEN p ELSE d.prev[m]]
      /\ e.next = [m \in Nodes |-> IF m = n THEN NULL ELSE IF m = p THEN s1 ELSE d.next[m]]
  BY <1>0 DEF List!DeleteNode
<1>. HIDE DEF e
<1>2. /\ l \in Seq(Nodes) /\ Len(l) \in Nat
      /\ d.prev \in [Nodes -> Nodes \cup {NULL}] /\ d.next \in [Nodes -> Nodes \cup {NULL}]
      /\ n \in Nodes
  BY <1>0, LinkedIs DEF Chained
<1>3. p = NodeAt(l, k - 1) /\ s1 = NodeAt(l, k + 1)
  BY <1>0 DEF Linked
<1>4. p \in Nodes \cup {NULL} /\ s1 \in Nodes \cup {NULL}
  BY <1>0, <1>2
<1>5. e.prev \in Chained /\ e.next \in Chained
  BY <1>1, <1>2, <1>4 DEF Chained
<1>6. \A m \in Nodes \ {n} : /\ e.prev[m] = IF m = s1 THEN p ELSE d.prev[m]
                             /\ e.next[m] = IF m = p THEN s1 ELSE d.next[m]
  BY <1>1
<1>7. Removed(l, List!RemoveAt(l, k), k)
  BY <1>2, RemoveAtIs
<1>8. Linked(e, List!RemoveAt(l, k))
  BY <1>0, <1>1, <1>3, <1>5, <1>6, <1>7, Unspliced
<1>. QED
  BY <1>8 DEF e

\* malloc returns a node that is not in the list.
LEMMA NewNodeIs ==
    ASSUME list \in Seq(Nodes), List!Fresh # {}
    PROVE  List!NewNode \in Nodes /\ \A j \in 1 .. Len(list) : list[j] # List!NewNode
<1>1. List!Fresh \subseteq Nat
  BY StructuresAssumption DEF List!DListAssumption, List!Fresh
<1>2. \E n \in List!Fresh : \A m \in List!Fresh : n <= m
  BY <1>1, Least
<1>3. List!NewNode \in List!Fresh
  BY <1>2 DEF List!NewNode
<1>. QED
  BY <1>3, ListNodes DEF List!Fresh

-----------------------------------------------------------------------------
\* What an iterator that stands at place p has before it.
Ahead(direction, p, j) == IF direction = "head" THEN j >= p ELSE j <= p

\* It stands in the list, or at the end it goes to; what it owes is ahead of
\* it, and what it returned last is not.
Cursor(l, it, c, ow) ==
    it # NULL =>
        /\ it \in [next : Nodes \cup {NULL}, direction : List!Directions]
        /\ \E p \in (IF it.direction = "head" THEN 1 ELSE 0) ..
                    (IF it.direction = "head" THEN Len(l) + 1 ELSE Len(l)) :
              /\ it.next = NodeAt(l, p)
              /\ \A n \in ow : \E j \in 1 .. Len(l) : Ahead(it.direction, p, j) /\ n = l[j]
              /\ c # NULL => \E j \in 1 .. Len(l) : ~Ahead(it.direction, p, j) /\ c = l[j]

\* The iterator stays where it is when a node comes to the list.
LEMMA CursorInserted ==
    ASSUME NEW l \in Seq(Nodes), NEW r, NEW n, NEW k \in 1 .. Len(l) + 1, Inserted(l, r, k, n),
           NEW it, NEW c, NEW ow, Cursor(l, it, c, ow)
    PROVE  Cursor(r, it, c, ow)
<1>. SUFFICES ASSUME it # NULL PROVE Cursor(r, it, c, ow)
  BY DEF Cursor
<1>1. /\ Len(l) \in Nat /\ Len(r) = Len(l) + 1
      /\ \A j \in 1 .. Len(l) : IF j < k THEN r[j] = l[j] ELSE r[j + 1] = l[j]
      /\ \A j \in 0 .. k - 1 : NodeAt(r, j) = NodeAt(l, j)
      /\ \A j \in k .. Len(l) + 1 : NodeAt(r, j + 1) = NodeAt(l, j)
  BY SMTT(30), ListNodes, InsertedAt DEF Inserted
<1>2. PICK dir : dir = it.direction
  OBVIOUS
<1>3. PICK p \in (IF dir = "head" THEN 1 ELSE 0) .. (IF dir = "head" THEN Len(l) + 1 ELSE Len(l)) :
              /\ it.next = NodeAt(l, p)
              /\ \A m \in ow : \E j \in 1 .. Len(l) : Ahead(dir, p, j) /\ m = l[j]
              /\ c # NULL => \E j \in 1 .. Len(l) : ~Ahead(dir, p, j) /\ c = l[j]
  BY <1>2 DEF Cursor
<1>4. PICK q : q = IF p < k THEN p ELSE p + 1
  OBVIOUS
<1>5. /\ q \in (IF dir = "head" THEN 1 ELSE 0) .. (IF dir = "head" THEN Len(r) + 1 ELSE Len(r))
      /\ p \in 0 .. Len(l) + 1
  BY <1>1, <1>4
<1>6. NodeAt(r, q) = it.next
  <2>1. CASE p < k
    BY <1>1, <1>3, <1>4, <1>5, <2>1
  <2>2. CASE ~(p < k)
    <3>1. p \in k .. Len(l) + 1
      BY <1>1, <1>5, <2>2
    <3>. QED
      BY <1>1, <1>3, <1>4, <2>2, <3>1
  <2>. QED
    BY <2>1, <2>2
<1>7. ASSUME NEW j \in 1 .. Len(l)
      PROVE  \E i \in 1 .. Len(r) : r[i] = l[j] /\ (Ahead(dir, q, i) <=> Ahead(dir, p, j))
  <2>1. CASE j < k
    <3>1. j \in 1 .. Len(r) /\ r[j] = l[j]
      BY <1>1, <2>1
    <3>2. Ahead(dir, q, j) <=> Ahead(dir, p, j)
      BY <1>1, <1>4, <1>5, <2>1 DEF Ahead
    <3>. QED
      BY <3>1, <3>2
  <2>2. CASE ~(j < k)
    <3>1. j + 1 \in 1 .. Len(r) /\ r[j + 1] = l[j]
      BY <1>1, <2>2
    <3>2. Ahead(dir, q, j + 1) <=> Ahead(dir, p, j)
      BY <1>1, <1>4, <1>5, <2>2 DEF Ahead
    <3>. QED
      BY <3>1, <3>2
  <2>. QED
    BY <2>1, <2>2
<1>8. \A m \in ow : \E j \in 1 .. Len(r) : Ahead(dir, q, j) /\ m = r[j]
  BY <1>3, <1>7
<1>9. c # NULL => \E j \in 1 .. Len(r) : ~Ahead(dir, q, j) /\ c = r[j]
  BY <1>3, <1>7
<1>10. it \in [next : Nodes \cup {NULL}, direction : List!Directions]
  BY DEF Cursor
<1>. QED
  BY <1>2, <1>5, <1>6, <1>8, <1>9, <1>10 DEF Cursor

\* And when one goes that it is not about to return.
LEMMA CursorRemoved ==
    ASSUME NEW l \in Seq(Nodes), Distinct(l), NEW r, NEW k \in 1 .. Len(l), Removed(l, r, k),
           NEW it, NEW c, NEW ow, Cursor(l, it, c, ow), it # NULL => l[k] = c
    PROVE  Cursor(r, it, NULL, ow)
<1>. SUFFICES ASSUME it # NULL PROVE Cursor(r, it, NULL, ow)
  BY DEF Cursor
<1>1. /\ Len(l) \in Nat /\ Len(r) = Len(l) - 1
      /\ \A j \in 1 .. Len(r) : r[j] = IF j < k THEN l[j] ELSE l[j + 1]
      /\ \A j \in 0 .. k - 1 : NodeAt(r, j) = NodeAt(l, j)
      /\ \A j \in k .. Len(l) : NodeAt(r, j) = NodeAt(l, j + 1)
  BY ZenonT(60), ListNodes, RemovedAt DEF Removed
<1>2. PICK dir : dir = it.direction
  OBVIOUS
<1>3. PICK p \in (IF dir = "head" THEN 1 ELSE 0) .. (IF dir = "head" THEN Len(l) + 1 ELSE Len(l)) :
              /\ it.next = NodeAt(l, p)
              /\ \A m \in ow : \E j \in 1 .. Len(l) : Ahead(dir, p, j) /\ m = l[j]
              /\ c # NULL => \E j \in 1 .. Len(l) : ~Ahead(dir, p, j) /\ c = l[j]
  BY <1>2 DEF Cursor
<1>4. ~Ahead(dir, p, k)
  <2>1. c # NULL /\ c = l[k]
    BY ListNodes
  <2>2. PICK j \in 1 .. Len(l) : ~Ahead(dir, p, j) /\ c = l[j]
    BY <1>3, <2>1
  <2>3. j = k
    BY <2>1, <2>2 DEF Distinct
  <2>. QED
    BY <2>2, <2>3
<1>5. PICK q : q = IF dir = "head" THEN p - 1 ELSE p
  OBVIOUS
<1>6. /\ q \in (IF dir = "head" THEN 1 ELSE 0) .. (IF dir = "head" THEN Len(r) + 1 ELSE Len(r))
      /\ IF dir = "head" THEN k < p /\ p \in 1 .. Len(l) + 1 ELSE k > p /\ p \in 0 .. Len(l)
  BY <1>1, <1>4, <1>5 DEF Ahead
<1>7. NodeAt(r, q) = it.next
  <2>1. CASE dir = "head"
    <3>1. q \in k .. Len(l) /\ q + 1 = p
      BY <1>1, <1>5, <1>6, <2>1
    <3>. QED
      BY <1>1, <1>3, <3>1
  <2>2. CASE dir # "head"
    <3>1. q \in 0 .. k - 1 /\ q = p
      BY <1>1, <1>5, <1>6, <2>2
    <3>. QED
      BY <1>1, <1>3, <3>1
  <2>. QED
    BY <2>1, <2>2
<1>8. ASSUME NEW j \in 1 .. Len(l), Ahead(dir, p, j)
      PROVE  \E i \in 1 .. Len(r) : r[i] = l[j] /\ Ahead(dir, q, i)
  <2>1. CASE dir = "head"
    <3>1. j >= p
      BY <1>8, <2>1 DEF Ahead
    <3>2. j - 1 \in 1 .. Len(r) /\ ~(j - 1 < k) /\ (j - 1) + 1 = j /\ j - 1 >= q
      BY <1>1, <1>5, <1>6, <2>1, <3>1
    <3>3. r[j - 1] = l[j]
      BY <1>1, <3>2
    <3>. QED
      BY <2>1, <3>2, <3>3 DEF Ahead
  <2>2. CASE dir # "head"
    <3>1. j <= p
      BY <1>8, <2>2 DEF Ahead
    <3>2. j \in 1 .. Len(r) /\ j < k /\ j <= q
      BY <1>1, <1>5, <1>6, <2>2, <3>1
    <3>3. r[j] = l[j]
      BY <1>1, <3>2
    <3>. QED
      BY <2>2, <3>2, <3>3 DEF Ahead
  <2>. QED
    BY <2>1, <2>2
<1>9. \A m \in ow : \E j \in 1 .. Len(r) : Ahead(dir, q, j) /\ m = r[j]
  <2>. SUFFICES ASSUME NEW m \in ow PROVE \E j \in 1 .. Len(r) : Ahead(dir, q, j) /\ m = r[j]
    OBVIOUS
  <2>1. PICK j \in 1 .. Len(l) : Ahead(dir, p, j) /\ m = l[j]
    BY <1>3
  <2>. QED
    BY <1>8, <2>1
<1>10. it \in [next : Nodes \cup {NULL}, direction : List!Directions]
  BY DEF Cursor
<1>. QED
  BY <1>2, <1>6, <1>7, <1>9, <1>10 DEF Cursor

-----------------------------------------------------------------------------
(* The list and its iterator, in every behaviour *)

\* The links are the list, and the iterator is at a place of it.
ListWell ==
    /\ Linked(dl, list)
    /\ dl.value \in [Nodes -> Values \cup {NULL}]
    /\ Cursor(list, iter, curr, owed)

\* An empty list is well, and stays so when a node is added, is deleted,
\* when an iteration begins, and when it goes on.
LEMMA ListInit ==
    ASSUME List!Init
    PROVE  ListWell
<1>. USE DEF List!Init
<1>1. Len(<<>>) = 0 /\ <<>> \in Seq(Nodes) /\ 1 .. Len(<<>>) = {}
  OBVIOUS
<1>2. /\ dl.head = NULL /\ dl.tail = NULL /\ dl.len = 0
      /\ dl.prev = List!NoNodes /\ dl.next = List!NoNodes /\ dl.value = List!NoNodes
  BY DEF List!dlist_init
<1>3. List!NoNodes \in Chained /\ List!NoNodes \in [Nodes -> Values \cup {NULL}]
  BY DEF List!NoNodes, Chained
<1>4. Linked(dl, list)
  <2>1. \A j \in Int : NodeAt(list, j) = NULL
    BY <1>1 DEF NodeAt
  <2>. QED
    BY <1>1, <1>2, <1>3, <2>1 DEF Linked, Distinct
<1>5. Cursor(list, iter, curr, owed)
  BY DEF Cursor
<1>. QED
  BY <1>2, <1>3, <1>4, <1>5 DEF ListWell

\* dlist_add_node_head, dlist_add_node_tail and dlist_insert_node.
LEMMA ListAdd ==
    ASSUME ListWell, List!Add
    PROVE  ListWell'
<1>1. PICK v \in Values :
        /\ List!Fresh # {}
        /\ \/ /\ dl' = List!AddHead(dl, List!NewNode, v)
              /\ list' = <<List!NewNode>> \o list
           \/ /\ dl' = List!AddTail(dl, List!NewNode, v)
              /\ list' = Append(list, List!NewNode)
           \/ \E j \in DOMAIN list, after \in BOOLEAN :
              /\ dl' = List!InsertNode(dl, list[j], List!NewNode, v, after)
              /\ list' = List!InsertAt(list, IF after THEN j + 1 ELSE j, List!NewNode)
        /\ UNCHANGED <<iter, curr, owed>>
  BY DEF List!Add
<1>2. list \in Seq(Nodes) /\ DOMAIN list = 1 .. Len(list) /\ Len(list) \in Nat
      /\ Linked(dl, list) /\ dl.value \in [Nodes -> Values \cup {NULL}]
      /\ Cursor(list, iter, curr, owed)
  BY ListNodes DEF ListWell, Linked
<1>3. PICK n \in Nodes : n = List!NewNode /\ \A j \in 1 .. Len(list) : list[j] # n
  BY <1>1, <1>2, NewNodeIs
<1>4. ASSUME Linked(dl', list'), dl'.value = [dl.value EXCEPT ![n] = v],
             NEW k \in 1 .. Len(list) + 1, Inserted(list, list', k, n)
      PROVE  ListWell'
  <2>1. Cursor(list', iter, curr, owed)
    BY <1>2, <1>4, CursorInserted
  <2>2. Cursor(list', iter', curr', owed')
    BY <1>1, <2>1
  <2>3. dl'.value \in [Nodes -> Values \cup {NULL}]
    <3>1. dl'.value = [m \in Nodes |-> IF m = n THEN v ELSE dl.value[m]]
      BY <1>2, <1>4
    <3>2. \A m \in Nodes : (IF m = n THEN v ELSE dl.value[m]) \in Values \cup {NULL}
      BY <1>2
    <3>. QED
      BY <3>1, <3>2
  <2>. QED
    BY <1>4, <2>2, <2>3 DEF ListWell
<1>5. CASE dl' = List!AddHead(dl, n, v) /\ list' = <<n>> \o list
  <2>1. Linked(dl', list')
    BY <1>2, <1>3, <1>5, AddHeadLinks
  <2>2. dl'.value = [dl.value EXCEPT ![n] = v]
    BY <1>5 DEF List!AddHead
  <2>3. 1 \in 1 .. Len(list) + 1 /\ Inserted(list, list', 1, n)
    <3>1. Inserted(list, <<n>> \o list, 1, n)
      BY <1>2, EndsIs
    <3>. QED
      BY <1>2, <1>5, <3>1
  <2>. QED
    BY <1>4, <2>1, <2>2, <2>3
<1>6. CASE dl' = List!AddTail(dl, n, v) /\ list' = Append(list, n)
  <2>1. Linked(dl', list')
    BY <1>2, <1>3, <1>6, AddTailLinks
  <2>2. dl'.value = [dl.value EXCEPT ![n] = v]
    BY <1>6 DEF List!AddTail
  <2>3. Len(list) + 1 \in 1 .. Len(list) + 1 /\ Inserted(list, list', Len(list) + 1, n)
    <3>1. Inserted(list, Append(list, n), Len(list) + 1, n)
      BY <1>2, EndsIs
    <3>. QED
      BY <1>2, <1>6, <3>1
  <2>. QED
    BY <1>4, <2>1, <2>2, <2>3
<1>7. ASSUME NEW j \in 1 .. Len(list), NEW after \in BOOLEAN,
             dl' = List!InsertNode(dl, list[j], n, v, after),
             list' = List!InsertAt(list, IF after THEN j + 1 ELSE j, n)
      PROVE  ListWell'
  <2>1. PICK k : k = IF after THEN j + 1 ELSE j
    OBVIOUS
  <2>2. Linked(dl', list')
    BY <1>2, <1>3, <1>7, <2>1, InsertNodeLinks
  <2>3. dl'.value = [dl.value EXCEPT ![n] = v]
    BY <1>7 DEF List!InsertNode
  <2>4. k \in 1 .. Len(list) + 1
    BY <1>2, <2>1
  <2>5. Inserted(list, list', k, n)
    BY <1>2, <1>7, <2>1, <2>4, InsertAtIs
  <2>. QED
    BY <1>4, <2>2, <2>3, <2>4, <2>5
<1>. QED
  BY <1>1, <1>2, <1>3, <1>5, <1>6, <1>7

\* dlist_delete_node, of a node that the iterator does not return next.
LEMMA ListDelete ==
    ASSUME ListWell, List!Delete
    PROVE  ListWell'
<1>1. PICK j \in DOMAIN list :
        /\ iter # NULL => list[j] = curr
        /\ dl' = List!DeleteNode(dl, list[j])
        /\ list' = List!RemoveAt(list, j)
        /\ curr' = NULL
        /\ UNCHANGED <<iter, owed>>
  BY DEF List!Delete
<1>2. list \in Seq(Nodes) /\ Distinct(list) /\ DOMAIN list = 1 .. Len(list) /\ Len(list) \in Nat
      /\ Linked(dl, list) /\ dl.value \in [Nodes -> Values \cup {NULL}]
      /\ Cursor(list, iter, curr, owed)
  BY ListNodes DEF ListWell, Linked
<1>3. Linked(dl', list')
  BY <1>1, <1>2, DeleteNodeLinks
<1>4. dl'.value \in [Nodes -> Values \cup {NULL}]
  <2>1. PICK n : n = list[j]
    OBVIOUS
  <2>2. dl'.value = [dl.value EXCEPT ![n] = NULL]
    BY <1>1, <2>1 DEF List!DeleteNode
  <2>3. dl'.value = [m \in Nodes |-> IF m = n THEN NULL ELSE dl.value[m]]
    BY <1>2, <2>2
  <2>4. \A m \in Nodes : (IF m = n THEN NULL ELSE dl.value[m]) \in Values \cup {NULL}
    BY <1>2
  <2>. QED
    BY <2>3, <2>4
<1>5. Removed(list, list', j)
  BY <1>1, <1>2, RemoveAtIs
<1>6. Cursor(list', iter, NULL, owed)
  BY <1>1, <1>2, <1>5, CursorRemoved
<1>7. Cursor(list', iter', curr', owed')
  BY <1>1, <1>6
<1>. QED
  BY <1>3, <1>4, <1>7 DEF ListWell

\* dlist_get_iterator, dlist_rewind and dlist_rewind_tail.
LEMMA ListRewind ==
    ASSUME ListWell, List!Rewind
    PROVE  ListWell'
<1>1. PICK direction \in List!Directions :
        /\ iter' = [next |-> IF direction = "head" THEN dl.head ELSE dl.tail,
                    direction |-> direction]
        /\ curr' = NULL
        /\ owed' = List!Range(list)
        /\ UNCHANGED <<dl, list>>
  BY DEF List!Rewind
<1>2. /\ Len(list) \in Nat /\ dl.head \in Nodes \cup {NULL} /\ dl.tail \in Nodes \cup {NULL}
      /\ dl.head = NodeAt(list, 1) /\ dl.tail = NodeAt(list, Len(list))
      /\ \A n \in List!Range(list) : \E j \in 1 .. Len(list) : n = list[j]
  <2>1. Linked(dl, list)
    BY DEF ListWell
  <2>2. list \in Seq(Nodes) /\ dl.head = NodeAt(list, 1) /\ dl.tail = NodeAt(list, Len(list))
    BY <2>1 DEF Linked
  <2>3. dl.head \in Nodes \cup {NULL} /\ dl.tail \in Nodes \cup {NULL}
    BY <2>1, LinkedIs
  <2>. QED
    BY <2>2, <2>3, ListNodes
<1>3. PICK p : p = IF direction = "head" THEN 1 ELSE Len(list)
  OBVIOUS
<1>4. /\ iter' \in [next : Nodes \cup {NULL}, direction : List!Directions]
      /\ iter'.direction = direction
      /\ iter'.next = NodeAt(list, p)
  BY <1>1, <1>2, <1>3
<1>5. p \in (IF direction = "head" THEN 1 ELSE 0) ..
            (IF direction = "head" THEN Len(list) + 1 ELSE Len(list))
  BY <1>2, <1>3
<1>6. \A j \in 1 .. Len(list) : Ahead(direction, p, j)
  BY <1>2, <1>3 DEF Ahead
<1>7. Cursor(list, iter', NULL, List!Range(list))
  BY <1>2, <1>4, <1>5, <1>6 DEF Cursor
<1>. QED
  BY <1>1, <1>7 DEF ListWell

\* dlist_next: it has saved where to go before the caller has the node.
LEMMA ListNext ==
    ASSUME ListWell, List!NextNode
    PROVE  ListWell'
<1>1. /\ iter # NULL /\ curr' = iter.next
      /\ iter' = IF iter.next = NULL THEN NULL
                 ELSE [iter EXCEPT !.next = List!After(dl, iter.next, iter.direction)]
      /\ owed' = IF iter.next = NULL THEN {} ELSE owed \ {iter.next}
      /\ UNCHANGED <<dl, list>>
  BY DEF List!NextNode
<1>. SUFFICES ASSUME iter.next # NULL PROVE Cursor(list, iter', curr', owed')
  <2>1. iter.next = NULL => Cursor(list, iter', curr', owed')
    BY <1>1 DEF Cursor
  <2>. QED
    BY <1>1, <2>1 DEF ListWell
<1>2. iter \in [next : Nodes \cup {NULL}, direction : List!Directions]
  BY <1>1 DEF ListWell, Cursor
<1>3. PICK dir \in List!Directions : dir = iter.direction
  BY <1>2
<1>4. /\ Len(list) \in Nat
      /\ \A j \in 1 .. Len(list) : list[j] # NULL
      /\ \A j \in 0 .. Len(list) + 1 : NodeAt(list, j) \in Nodes \cup {NULL}
  BY LinkedIs DEF ListWell
<1>5. PICK p \in (IF dir = "head" THEN 1 ELSE 0) ..
                 (IF dir = "head" THEN Len(list) + 1 ELSE Len(list)) :
              /\ iter.next = NodeAt(list, p)
              /\ \A n \in owed : \E j \in 1 .. Len(list) : Ahead(dir, p, j) /\ n = list[j]
  BY <1>1, <1>3 DEF ListWell, Cursor
<1>6. p \in 1 .. Len(list) /\ iter.next = list[p]
  BY <1>5 DEF NodeAt
<1>7. PICK q : q = IF dir = "head" THEN p + 1 ELSE p - 1
  OBVIOUS
<1>8. List!After(dl, iter.next, dir) = NodeAt(list, q)
  BY <1>6, <1>7 DEF List!After, ListWell, Linked
<1>9. /\ q \in (IF dir = "head" THEN 1 ELSE 0) ..
               (IF dir = "head" THEN Len(list) + 1 ELSE Len(list))
      /\ q \in 0 .. Len(list) + 1
  BY <1>4, <1>6, <1>7
<1>10. /\ iter' \in [next : Nodes \cup {NULL}, direction : List!Directions]
       /\ iter'.direction = dir /\ iter'.next = NodeAt(list, q)
  BY <1>1, <1>2, <1>3, <1>4, <1>8, <1>9
<1>11. \A n \in owed' : \E j \in 1 .. Len(list) : Ahead(dir, q, j) /\ n = list[j]
  <2>. SUFFICES ASSUME NEW n \in owed' PROVE \E j \in 1 .. Len(list) : Ahead(dir, q, j) /\ n = list[j]
    OBVIOUS
  <2>1. n \in owed /\ n # list[p]
    BY <1>1, <1>6
  <2>2. PICK j \in 1 .. Len(list) : Ahead(dir, p, j) /\ n = list[j]
    BY <1>5, <2>1
  <2>3. j # p
    BY <2>1, <2>2
  <2>4. Ahead(dir, q, j)
    BY <1>4, <1>6, <1>7, <2>2, <2>3 DEF Ahead
  <2>. QED
    BY <2>2, <2>4
<1>12. curr' = list[p] /\ ~Ahead(dir, q, p)
  BY <1>1, <1>4, <1>6, <1>7 DEF Ahead
<1>. QED
  BY <1>6, <1>9, <1>10, <1>11, <1>12 DEF Cursor

\* Every operation keeps the list well.
LEMMA ListStays ==
    ASSUME ListWell, [List!Next]_listVars
    PROVE  ListWell'
<1>1. CASE UNCHANGED listVars
  BY <1>1 DEF ListWell, listVars
<1>2. CASE List!Next
  BY <1>2, ListAdd, ListDelete, ListRewind, ListNext DEF List!Next
<1>. QED
  BY <1>1, <1>2

\* What an iteration owes is ahead of it, as long as it is not at its end.
LEMMA ListVisitsAll == ListWell => List!VisitsAll
<1>. SUFFICES ASSUME ListWell, iter # NULL
              PROVE  /\ iter.next # NULL => iter.next \in List!Range(list)
                     /\ owed \subseteq List!Range(list)
                     /\ iter.next = NULL => owed = {}
  BY DEF List!VisitsAll
<1>1. /\ Len(list) \in Nat /\ \A j \in 1 .. Len(list) : list[j] # NULL
      /\ \A j \in 1 .. Len(list) : list[j] \in List!Range(list)
  BY LinkedIs, ListNodes DEF ListWell
<1>2. PICK dir \in List!Directions : dir = iter.direction
  BY DEF ListWell, Cursor
<1>3. PICK p \in (IF dir = "head" THEN 1 ELSE 0) ..
                 (IF dir = "head" THEN Len(list) + 1 ELSE Len(list)) :
            /\ iter.next = NodeAt(list, p)
            /\ \A n \in owed : \E j \in 1 .. Len(list) : Ahead(dir, p, j) /\ n = list[j]
  BY <1>2 DEF ListWell, Cursor
<1>4. iter.next # NULL => iter.next \in List!Range(list)
  BY <1>1, <1>3 DEF NodeAt
<1>5. owed \subseteq List!Range(list)
  BY <1>1, <1>3
<1>6. iter.next = NULL => \A j \in 1 .. Len(list) : ~Ahead(dir, p, j)
  <2>1. iter.next = NULL => p \notin 1 .. Len(list)
    BY <1>1, <1>3 DEF NodeAt
  <2>. QED
    BY <1>1, <2>1 DEF Ahead
<1>. QED
  BY <1>3, <1>4, <1>5, <1>6

-----------------------------------------------------------------------------
(* What is read from a list *)

\* The first n elements of a sequence.
LEMMA Firsts ==
    ASSUME NEW X, NEW l \in Seq(X), NEW n \in 0 .. Len(l)
    PROVE  /\ SubSeq(l, 1, n) \in Seq(X) /\ Len(SubSeq(l, 1, n)) = n
           /\ \A j \in 1 .. n : SubSeq(l, 1, n)[j] = l[j]
<1>0. Len(l) \in Nat /\ \A j \in 1 .. Len(l) : l[j] \in X
  BY LenProperties, ElementOfSeq
<1>1. 1 \in Int /\ n \in Int /\ \A j \in 1 .. n : l[j] \in X
  BY <1>0
<1>2. /\ SubSeq(l, 1, n) \in Seq(X) /\ Len(SubSeq(l, 1, n)) = IF 1 <= n THEN n - 1 + 1 ELSE 0
      /\ \A j \in 1 .. n - 1 + 1 : SubSeq(l, 1, n)[j] = l[1 + j - 1]
  BY <1>1, SubSeqProperties
<1>3. PICK r : r = SubSeq(l, 1, n)
  OBVIOUS
<1>4. r \in Seq(X) /\ Len(r) = n /\ \A j \in 1 .. n : r[j] = l[j]
  BY <1>0, <1>2, <1>3
<1>. QED
  BY <1>3, <1>4

\* The first n + 1 are the first n and one more.
LEMMA FirstsGrow ==
    ASSUME NEW X, NEW l \in Seq(X), NEW n \in 0 .. Len(l), n < Len(l)
    PROVE  /\ SubSeq(l, 1, n + 1) = Append(SubSeq(l, 1, n), l[n + 1])
           /\ SubSeq(l, 1, Len(l)) = l
<1>0. Len(l) \in Nat /\ (\A j \in 1 .. Len(l) : l[j] \in X) /\ n + 1 \in 0 .. Len(l) /\ Len(l) \in 0 .. Len(l)
      /\ n + 1 \in 1 .. Len(l) /\ n \in Nat
  BY LenProperties, ElementOfSeq
<1>1. PICK f, g, h : f = SubSeq(l, 1, n) /\ g = SubSeq(l, 1, n + 1) /\ h = SubSeq(l, 1, Len(l))
  OBVIOUS
<1>2. /\ f \in Seq(X) /\ Len(f) = n /\ \A j \in 1 .. n : f[j] = l[j]
      /\ g \in Seq(X) /\ Len(g) = n + 1 /\ \A j \in 1 .. n + 1 : g[j] = l[j]
      /\ h \in Seq(X) /\ Len(h) = Len(l) /\ \A j \in 1 .. Len(l) : h[j] = l[j]
  BY <1>0, <1>1, Firsts
<1>3. PICK e, x : x = l[n + 1] /\ e = Append(f, x)
  OBVIOUS
<1>4. /\ e \in Seq(X) /\ Len(e) = n + 1 /\ \A j \in 1 .. n : e[j] = f[j]
      /\ e[n + 1] = x
  BY <1>0, <1>2, <1>3, AppendProperties
<1>5. \A j \in 1 .. n + 1 : e[j] = g[j]
  BY <1>0, <1>2, <1>3, <1>4
<1>6. e = g
  BY <1>2, <1>4, <1>5, SeqEqual
<1>7. h = l
  BY <1>2, SeqEqual
<1>. QED
  BY <1>1, <1>3, <1>6, <1>7

\* Who starts at from and takes step meets c.
Leads(from, step, c) ==
    /\ c \in Seq(Nodes)
    /\ from = NodeAt(c, 1)
    /\ \A j \in 1 .. Len(c) : step[c[j]] = NodeAt(c, j + 1)

\* From its head a list is met forwards, from its tail backwards.
LEMMA BothWays ==
    ASSUME NEW d, NEW l, Linked(d, l)
    PROVE  Leads(d.head, d.next, l) /\ Leads(d.tail, d.prev, List!Reverse(l))
<1>1. Leads(d.head, d.next, l)
  BY DEF Leads, Linked
<1>2. PICK r : r = List!Reverse(l)
  OBVIOUS
<1>3. l \in Seq(Nodes) /\ Len(l) \in Nat /\ \A j \in 1 .. Len(l) : l[j] \in Nodes
  BY LinkedIs
<1>4. r = [j \in 1 .. Len(l) |-> l[(Len(l) - j) + 1]]
  BY <1>2 DEF List!Reverse
<1>5. r \in Seq(Nodes) /\ Len(r) = Len(l)
  <2>1. \A j \in 1 .. Len(l) : (Len(l) - j) + 1 \in 1 .. Len(l)
    BY <1>3
  <2>2. \A j \in 1 .. Len(l) : l[(Len(l) - j) + 1] \in Nodes
    BY <1>3, <2>1
  <2>3. r \in [1 .. Len(l) -> Nodes]
    BY <1>4, <2>2
  <2>. QED
    BY <1>3, <2>3, IsASeq, LenProperties
<1>6. \A j \in 0 .. Len(l) + 1 : NodeAt(r, j) = NodeAt(l, (Len(l) - j) + 1)
  <2>. SUFFICES ASSUME NEW j \in 0 .. Len(l) + 1 PROVE NodeAt(r, j) = NodeAt(l, (Len(l) - j) + 1)
    OBVIOUS
  <2>1. j \in 1 .. Len(r) <=> (Len(l) - j) + 1 \in 1 .. Len(l)
    BY <1>3, <1>5
  <2>2. j \in 1 .. Len(r) => r[j] = l[(Len(l) - j) + 1]
    BY <1>4, <1>5
  <2>. QED
    BY <2>1, <2>2 DEF NodeAt
<1>7. d.tail = NodeAt(r, 1)
  <2>1. 1 \in 0 .. Len(l) + 1 /\ (Len(l) - 1) + 1 = Len(l)
    BY <1>3
  <2>. QED
    BY <1>6, <2>1 DEF Linked
<1>8. ASSUME NEW j \in 1 .. Len(r) PROVE d.prev[r[j]] = NodeAt(r, j + 1)
  <2>1. PICK i \in 1 .. Len(l) : i = (Len(l) - j) + 1
    BY <1>3, <1>5
  <2>2. r[j] = l[i]
    BY <1>4, <1>5, <2>1
  <2>3. d.prev[l[i]] = NodeAt(l, i - 1)
    BY DEF Linked
  <2>4. j + 1 \in 0 .. Len(l) + 1 /\ (Len(l) - (j + 1)) + 1 = i - 1
    BY <1>3, <1>5, <2>1
  <2>. QED
    BY <1>6, <2>2, <2>3, <2>4
<1>. QED
  BY <1>1, <1>2, <1>5, <1>7, <1>8 DEF Leads

\* The list counts as this module does.
LEMMA CountsAlike ==
    /\ List!Cardinality(Nodes) = Cardinality(Nodes)
    /\ List!IsFiniteSet(Nodes) <=> IsFiniteSet(Nodes)
<1>1. List!Cardinality(Nodes) = Cardinality(Nodes)
  BY Zenon DEF List!Cardinality, Cardinality
<1>2. List!IsFiniteSet(Nodes) <=> IsFiniteSet(Nodes)
  BY Zenon DEF List!IsFiniteSet, IsFiniteSet
<1>. QED
  BY <1>1, <1>2

\* There are no more places in a list than nodes.
LEMMA ListFits ==
    ASSUME NEW l \in Seq(Nodes), Distinct(l)
    PROVE  Len(l) \in Nat /\ Cardinality(Nodes) \in Nat /\ Len(l) <= Cardinality(Nodes)
<1>1. Len(l) \in Nat /\ \A j \in 1 .. Len(l) : l[j] \in Nodes
  BY ListNodes
<1>2. IsFiniteSet(Nodes)
  BY StructuresAssumption, CountsAlike DEF List!DListAssumption
<1>3. Cardinality(Nodes) \in Nat
  BY <1>2, FS_CardinalityType
<1>4. IsFiniteSet(1 .. Len(l)) /\ Cardinality(1 .. Len(l)) = Len(l)
  <2>1. 1 \in Int /\ Len(l) \in Int
    BY <1>1
  <2>2. IsFiniteSet(1 .. Len(l)) /\ Cardinality(1 .. Len(l)) = IF 1 > Len(l) THEN 0 ELSE Len(l) - 1 + 1
    BY <2>1, FS_Interval
  <2>. QED
    BY <1>1, <2>2
<1>5. [j \in 1 .. Len(l) |-> l[j]] \in [1 .. Len(l) -> Nodes]
  BY <1>1
<1>6. SUFFICES ASSUME Cardinality(Nodes) < Cardinality(1 .. Len(l)) PROVE FALSE
  BY <1>1, <1>3, <1>4
<1>7. PICK x, y \in 1 .. Len(l) : x # y /\ [j \in 1 .. Len(l) |-> l[j]][x] = [j \in 1 .. Len(l) |-> l[j]][y]
  BY <1>2, <1>4, <1>5, <1>6, FS_PigeonHole
<1>8. l[x] = l[y]
  BY <1>7
<1>. QED
  BY <1>7, <1>8 DEF Distinct

\* A walk over a list returns it.
LEMMA WalkIs ==
    ASSUME NEW d, NEW direction, NEW c, Len(c) <= Cardinality(Nodes), Cardinality(Nodes) \in Nat,
           Leads(IF direction = "head" THEN d.head ELSE d.tail,
                 IF direction = "head" THEN d.next ELSE d.prev, c)
    PROVE  List!Walk(d, direction) = c
<1>1. PICK from, step : /\ from = IF direction = "head" THEN d.head ELSE d.tail
                        /\ step = IF direction = "head" THEN d.next ELSE d.prev
  OBVIOUS
<1>2. /\ c \in Seq(Nodes) /\ from = NodeAt(c, 1) /\ Len(c) \in Nat
      /\ \A j \in 1 .. Len(c) : step[c[j]] = NodeAt(c, j + 1)
      /\ \A j \in 1 .. Len(c) : c[j] # NULL
  <2>1. c \in Seq(Nodes) /\ from = NodeAt(c, 1)
        /\ \A j \in 1 .. Len(c) : step[c[j]] = NodeAt(c, j + 1)
    BY <1>1 DEF Leads
  <2>. QED
    BY <2>1, ListNodes
<1>. DEFINE N == Cardinality(Nodes)
            upto(k) == IF k < Len(c) THEN SubSeq(c, 1, k + 1) ELSE c
            ww == [k \in 0 .. N |-> upto(k)]
            E(w) == [k \in 0 .. N |->
                IF k = 0 THEN IF from = NULL THEN <<>> ELSE <<from>>
                ELSE IF w[k - 1] = <<>> \/ step[List!Last(w[k - 1])] = NULL THEN w[k - 1]
                     ELSE Append(w[k - 1], step[List!Last(w[k - 1])])]
<1>3. ASSUME NEW k \in Nat
      PROVE  /\ upto(k) \in Seq(Nodes)
             /\ Len(upto(k)) = IF k < Len(c) THEN k + 1 ELSE Len(c)
             /\ \A j \in 1 .. Len(upto(k)) : upto(k)[j] = c[j]
  <2>1. CASE k < Len(c)
    <3>1. k + 1 \in 0 .. Len(c)
      BY <1>2, <2>1
    <3>. QED
      BY <1>2, <2>1, <3>1, Firsts
  <2>2. CASE ~(k < Len(c))
    BY <1>2, <2>2
  <2>. QED
    BY <2>1, <2>2
<1>4. upto(0) = IF from = NULL THEN <<>> ELSE <<from>>
  <2>1. CASE Len(c) = 0
    BY <1>2, <2>1, EmptySeq DEF NodeAt
  <2>2. CASE Len(c) # 0
    <3>1. 0 < Len(c) /\ from = c[1] /\ from # NULL
      BY <1>2, <2>2 DEF NodeAt
    <3>2. PICK f : f = SubSeq(c, 1, 0 + 1)
      OBVIOUS
    <3>3. f \in Seq(Nodes) /\ Len(f) = 1 /\ f[1] = c[1]
      <4>1. 0 + 1 \in 0 .. Len(c)
        BY <1>2, <3>1
      <4>. QED
        BY <1>2, <3>2, <4>1, Firsts
    <3>4. f = <<from>>
      BY <3>1, <3>3
    <3>. QED
      BY <3>1, <3>2, <3>4
  <2>. QED
    BY <2>1, <2>2
<1>5. ASSUME NEW k \in Nat
      PROVE  upto(k + 1) = IF upto(k) = <<>> \/ step[List!Last(upto(k))] = NULL THEN upto(k)
                           ELSE Append(upto(k), step[List!Last(upto(k))])
  <2>1. CASE Len(c) = 0
    <3>1. upto(k) = c /\ upto(k + 1) = c /\ c = <<>>
      BY <1>2, <2>1, EmptySeq
    <3>. QED
      BY <3>1
  <2>2. CASE Len(c) # 0 /\ k + 1 < Len(c)
    <3>1. k + 1 \in 1 .. Len(c) /\ (k + 1) + 1 \in 1 .. Len(c) /\ k < Len(c) /\ k + 1 \in 0 .. Len(c)
      BY <1>2, <2>2
    <3>2. upto(k) = SubSeq(c, 1, k + 1) /\ upto(k + 1) = SubSeq(c, 1, (k + 1) + 1)
      BY <2>2, <3>1
    <3>3. SubSeq(c, 1, (k + 1) + 1) = Append(SubSeq(c, 1, k + 1), c[(k + 1) + 1])
      BY <1>2, <2>2, <3>1, FirstsGrow
    <3>4. PICK u : u = upto(k)
      OBVIOUS
    <3>5. Len(u) = k + 1 /\ u[k + 1] = c[k + 1]
      BY <1>3, <3>1, <3>4
    <3>6. List!Last(u) = c[k + 1] /\ u # <<>>
      BY <3>1, <3>5 DEF List!Last
    <3>7. step[c[k + 1]] = c[(k + 1) + 1] /\ c[(k + 1) + 1] # NULL
      BY <1>2, <3>1 DEF NodeAt
    <3>. QED
      BY <3>2, <3>3, <3>4, <3>6, <3>7
  <2>3. CASE Len(c) # 0 /\ ~(k + 1 < Len(c))
    <3>1. Len(c) \in 1 .. Len(c) /\ (~(k < Len(c)) \/ k + 1 = Len(c))
      BY <1>2, <2>3
    <3>2. upto(k) = c /\ upto(k + 1) = c
      <4>1. upto(k + 1) = c
        BY <2>3
      <4>2. CASE k + 1 = Len(c)
        <5>1. k \in 0 .. Len(c) /\ k < Len(c)
          BY <1>2, <4>2
        <5>2. SubSeq(c, 1, Len(c)) = c
          BY <1>2, <5>1, FirstsGrow
        <5>. QED
          BY <4>1, <4>2, <5>1, <5>2
      <4>. QED
        BY <3>1, <4>1, <4>2
    <3>3. List!Last(c) = c[Len(c)]
      BY DEF List!Last
    <3>4. step[c[Len(c)]] = NULL
      BY <1>2, <2>3 DEF NodeAt
    <3>. QED
      BY <3>2, <3>3, <3>4
  <2>. QED
    BY <2>1, <2>2, <2>3
<1>. HIDE DEF upto
<1>6. N \in Nat
  OBVIOUS
<1>. HIDE DEF N
<1>7. ww = E(ww)
  <2>1. ASSUME NEW k \in 0 .. N
        PROVE  ww[k] = E(ww)[k]
    <3>1. ww[k] = upto(k)
      OBVIOUS
    <3>2. CASE k = 0
      BY <1>4, <1>6, <3>1, <3>2
    <3>3. CASE k # 0
      <4>1. k - 1 \in Nat /\ k - 1 \in 0 .. N /\ (k - 1) + 1 = k
        BY <1>6, <3>3
      <4>2. ww[k - 1] = upto(k - 1)
        BY <4>1
      <4>3. upto(k) = IF upto(k - 1) = <<>> \/ step[List!Last(upto(k - 1))] = NULL THEN upto(k - 1)
                           ELSE Append(upto(k - 1), step[List!Last(upto(k - 1))])
        BY <1>5, <4>1
      <4>. HIDE DEF ww
      <4>. QED
        BY <3>1, <3>3, <4>2, <4>3
    <3>. QED
      BY <3>2, <3>3
  <2>. QED
    BY <2>1
<1>8. PICK w : w = E(w) /\ List!Walk(d, direction) = w[N]
  <2>. HIDE DEF ww
  <2>. QED
    BY ZenonT(60), <1>1, <1>7, CountsAlike DEF List!Walk, N
<1>. HIDE DEF ww
<1>9. \A k \in Nat : k <= N => w[k] = upto(k)
  <2>. DEFINE D == {k \in Nat : k <= N => w[k] = upto(k)}
  <2>1. 0 \in D
    <3>1. 0 \in 0 .. N
      BY <1>6
    <3>2. w[0] = E(w)[0]
      BY <1>8
    <3>3. w[0] = IF from = NULL THEN <<>> ELSE <<from>>
      BY <3>1, <3>2
    <3>. QED
      BY <1>4, <3>3
  <2>2. ASSUME NEW k \in Nat, k \in D PROVE k + 1 \in D
    <3>. SUFFICES ASSUME k + 1 <= N PROVE w[k + 1] = upto(k + 1)
      OBVIOUS
    <3>1. k + 1 \in 0 .. N /\ k + 1 # 0 /\ (k + 1) - 1 = k /\ k <= N
      BY <1>6
    <3>2. w[k] = upto(k)
      BY <2>2, <3>1
    <3>3. w[k + 1] = E(w)[k + 1]
      BY <1>8
    <3>4. w[k + 1] = IF w[k] = <<>> \/ step[List!Last(w[k])] = NULL THEN w[k]
                     ELSE Append(w[k], step[List!Last(w[k])])
      BY <3>1, <3>3
    <3>. QED
      BY <1>5, <3>2, <3>4
  <2>. HIDE DEF D
  <2>3. Nat \subseteq D
    BY <2>1, <2>2, Induct
  <2>. QED
    BY <2>3 DEF D
<1>10. w[N] = upto(N)
  BY <1>6, <1>9
<1>11. upto(N) = c
  BY <1>2, <1>6 DEF upto, N
<1>. QED
  BY <1>8, <1>10, <1>11

\* dlist_index counts from the head, or from the tail when it is negative
\* (dlist.c:278-295).
LEMMA IndexIs ==
    ASSUME NEW d, NEW index \in Int, NEW c,
           Leads(IF index < 0 THEN d.tail ELSE d.head, IF index < 0 THEN d.prev ELSE d.next, c),
           NEW k \in Nat, k = IF index < 0 THEN -index - 1 ELSE index
    PROVE  List!Index(d, index) = NodeAt(c, k + 1)
<1>1. PICK from, step : /\ from = IF index < 0 THEN d.tail ELSE d.head
                        /\ step = IF index < 0 THEN d.prev ELSE d.next
  OBVIOUS
<1>2. /\ c \in Seq(Nodes) /\ from = NodeAt(c, 1) /\ Len(c) \in Nat
      /\ \A j \in 1 .. Len(c) : step[c[j]] = NodeAt(c, j + 1)
      /\ \A j \in 1 .. Len(c) : c[j] # NULL
  <2>1. c \in Seq(Nodes) /\ from = NodeAt(c, 1)
        /\ \A j \in 1 .. Len(c) : step[c[j]] = NodeAt(c, j + 1)
    BY <1>1 DEF Leads
  <2>. QED
    BY <2>1, ListNodes
<1>. DEFINE ww == [j \in Nat |-> NodeAt(c, j + 1)]
            E(w) == [j \in Nat |-> IF j = 0 THEN from
                                   ELSE IF w[j - 1] = NULL THEN NULL ELSE step[w[j - 1]]]
<1>3. ASSUME NEW j \in Nat
      PROVE  NodeAt(c, (j + 1) + 1) = IF NodeAt(c, j + 1) = NULL THEN NULL ELSE step[NodeAt(c, j + 1)]
  <2>1. CASE j + 1 \in 1 .. Len(c)
    BY <1>2, <2>1 DEF NodeAt
  <2>2. CASE j + 1 \notin 1 .. Len(c)
    <3>1. (j + 1) + 1 \notin 1 .. Len(c)
      BY <1>2, <2>2
    <3>. QED
      BY <2>2, <3>1 DEF NodeAt
  <2>. QED
    BY <2>1, <2>2
<1>4. ww = E(ww)
  <2>1. ASSUME NEW j \in Nat PROVE ww[j] = E(ww)[j]
    <3>1. CASE j = 0
      BY <1>2, <3>1
    <3>2. CASE j # 0
      <4>1. j - 1 \in Nat /\ (j - 1) + 1 = j
        BY <3>2
      <4>2. ww[j - 1] = NodeAt(c, j) /\ ww[j] = NodeAt(c, j + 1)
        BY <4>1
      <4>3. NodeAt(c, j + 1) = IF NodeAt(c, j) = NULL THEN NULL ELSE step[NodeAt(c, j)]
        BY <1>3, <4>1
      <4>. HIDE DEF ww
      <4>. QED
        BY <3>2, <4>2, <4>3
    <3>. QED
      BY <3>1, <3>2
  <2>. QED
    BY <2>1
<1>5. PICK w : w = E(w) /\ List!Index(d, index) = w[k]
  <2>. HIDE DEF ww
  <2>. QED
    BY Zenon, <1>1, <1>4 DEF List!Index
<1>. HIDE DEF ww
<1>. DEFINE D == {j \in Nat : w[j] = NodeAt(c, j + 1)}
<1>6. 0 \in D
  <2>1. w[0] = E(w)[0]
    BY <1>5
  <2>. QED
    BY <1>2, <2>1
<1>7. ASSUME NEW j \in Nat, j \in D PROVE j + 1 \in D
  <2>1. w[j + 1] = E(w)[j + 1]
    BY <1>5
  <2>2. j + 1 \in Nat /\ j + 1 # 0 /\ (j + 1) - 1 = j
    OBVIOUS
  <2>3. w[j + 1] = IF w[j] = NULL THEN NULL ELSE step[w[j]]
    BY <2>1, <2>2
  <2>. QED
    BY <1>3, <1>7, <2>2, <2>3
<1>8. Nat \subseteq D
  <2>. HIDE DEF D
  <2>. QED
    BY <1>6, <1>7, Induct
<1>. QED
  BY <1>5, <1>8

\* What dlist_dup returns has the nodes, in their order, and their values.
LEMMA DupIs ==
    ASSUME NEW d, NEW l, Linked(d, l), d.value \in [Nodes -> Values \cup {NULL}],
           List!Walk(d, "head") = l
    PROVE  /\ Linked(List!Dup(d), l)
           /\ \A j \in 1 .. Len(l) : List!Dup(d).value[l[j]] = d.value[l[j]]
<1>1. /\ l \in Seq(Nodes) /\ Len(l) \in Nat /\ NULL \notin Nodes /\ Distinct(l)
      /\ \A j \in 1 .. Len(l) : l[j] \in Nodes /\ d.value[l[j]] \in Values \cup {NULL}
  BY LinkedIs DEF Linked
<1>. DEFINE Valued == [Nodes -> Values \cup {NULL}]
            Dls == [head : Nodes \cup {NULL}, tail : Nodes \cup {NULL}, len : Nat,
                  prev : Chained, next : Chained, value : Valued]
            Longer == [kx \in Nat \X Dls |->
                    IF kx[1] < Len(l)
                    THEN List!AddTail(kx[2], l[kx[1] + 1], d.value[l[kx[1] + 1]])
                    ELSE kx[2]]
            E(w) == [k \in 0 .. Len(l) |->
                        IF k = 0 THEN List!dlist_init
                        ELSE List!AddTail(w[k - 1], l[k], d.value[l[k]])]
<1>2. List!dlist_init \in Dls
  <2>1. List!NoNodes \in Chained /\ List!NoNodes \in Valued
    BY DEF List!NoNodes, Chained
  <2>. HIDE DEF Valued
  <2>. QED
    BY <2>1 DEF List!dlist_init
<1>3. ASSUME NEW x \in Dls, NEW n \in Nodes, NEW v \in Values \cup {NULL}
      PROVE  List!AddTail(x, n, v) \in Dls
  <2>1. x.prev \in [Nodes -> Nodes \cup {NULL}] /\ x.next \in [Nodes -> Nodes \cup {NULL}] /\ x.value \in Valued
        /\ x.head \in Nodes \cup {NULL} /\ x.tail \in Nodes \cup {NULL} /\ x.len \in Nat
    BY <1>3 DEF Chained
  <2>2. [x.prev EXCEPT ![n] = x.tail] \in Chained
    <3>1. [x.prev EXCEPT ![n] = x.tail] = [m \in Nodes |-> IF m = n THEN x.tail ELSE x.prev[m]]
      BY <2>1
    <3>2. \A m \in Nodes : (IF m = n THEN x.tail ELSE x.prev[m]) \in Nodes \cup {NULL}
      BY <2>1
    <3>. QED
      BY <3>1, <3>2 DEF Chained
  <2>3. [m \in Nodes |-> IF m = n THEN NULL ELSE IF m = x.tail THEN n ELSE x.next[m]] \in Chained
    <3>1. \A m \in Nodes : (IF m = n THEN NULL ELSE IF m = x.tail THEN n ELSE x.next[m]) \in Nodes \cup {NULL}
      BY <2>1
    <3>. QED
      BY <3>1 DEF Chained
  <2>4. [x.value EXCEPT ![n] = v] \in Valued
    <3>1. [x.value EXCEPT ![n] = v] = [m \in Nodes |-> IF m = n THEN v ELSE x.value[m]]
      BY <2>1
    <3>2. \A m \in Nodes : (IF m = n THEN v ELSE x.value[m]) \in Values \cup {NULL}
      BY <2>1
    <3>. QED
      BY <3>1, <3>2
  <2>5. (IF x.len = 0 THEN n ELSE x.head) \in Nodes \cup {NULL} /\ x.len + 1 \in Nat
    BY <2>1
  <2>. HIDE DEF Valued
  <2>. QED
    BY <2>2, <2>3, <2>4, <2>5 DEF List!AddTail
<1>4. Longer \in Rules(Dls)
  <2>1. ASSUME NEW kx \in Nat \X Dls
        PROVE  (IF kx[1] < Len(l) THEN List!AddTail(kx[2], l[kx[1] + 1], d.value[l[kx[1] + 1]])
                ELSE kx[2]) \in Dls
    <3>1. kx[1] \in Nat /\ kx[2] \in Dls
      <4>. HIDE DEF Dls
      <4>. QED
        OBVIOUS
    <3>2. kx[1] < Len(l) => kx[1] + 1 \in 1 .. Len(l)
      BY <1>1, <3>1
    <3>. HIDE DEF Dls
    <3>. QED
      BY <1>1, <1>3, <3>1, <3>2
  <2>. HIDE DEF Dls
  <2>. QED
    BY <2>1 DEF Rules
<1>5. PICK ww \in [Nat -> Dls] : /\ ww[0] = List!dlist_init
                               /\ \A k \in Nat : ww[k + 1] = Longer[<<k, ww[k]>>]
  <2>. HIDE DEF Dls, Longer
  <2>1. PICK a \in Dls : a = List!dlist_init
    BY <1>2
  <2>2. \E w \in Runs(Dls) : w[0] = a /\ \A k \in Nat : w[k + 1] = Longer[<<k, w[k]>>]
    BY <1>4, Recursion
  <2>. QED
    BY Zenon, <2>1, <2>2 DEF Runs
<1>6. ASSUME NEW k \in Nat, k < Len(l)
      PROVE  ww[k + 1] = List!AddTail(ww[k], l[k + 1], d.value[l[k + 1]])
  <2>. HIDE DEF Dls
  <2>1. <<k, ww[k]>> \in Nat \X Dls /\ <<k, ww[k]>>[1] = k /\ <<k, ww[k]>>[2] = ww[k]
    BY <1>5
  <2>. QED
    BY <1>5, <1>6, <2>1
<1>. HIDE DEF Dls, Longer
<1>. DEFINE g == [k \in 0 .. Len(l) |-> ww[k]]
<1>7. g = E(g)
  <2>1. ASSUME NEW k \in 0 .. Len(l) PROVE g[k] = E(g)[k]
    <3>1. CASE k = 0
      BY <1>1, <1>5, <3>1
    <3>2. CASE k # 0
      <4>1. k - 1 \in 0 .. Len(l) /\ k - 1 \in Nat /\ k - 1 < Len(l) /\ (k - 1) + 1 = k
        BY <1>1, <3>2
      <4>2. g[k] = ww[k] /\ g[k - 1] = ww[k - 1]
        BY <4>1
      <4>3. ww[k] = List!AddTail(ww[k - 1], l[k], d.value[l[k]])
        BY <1>6, <4>1
      <4>. HIDE DEF g
      <4>. QED
        BY <3>2, <4>2, <4>3
    <3>. QED
      BY <3>1, <3>2
  <2>. QED
    BY <2>1
<1>8. PICK w : w = E(w) /\ List!Dup(d) = w[Len(l)]
  <2>. HIDE DEF g
  <2>. QED
    BY Zenon, <1>7 DEF List!Dup
<1>. HIDE DEF g
<1>9. w[0] = List!dlist_init /\ \A k \in 1 .. Len(l) : w[k] = List!AddTail(w[k - 1], l[k], d.value[l[k]])
  <2>1. \A k \in 0 .. Len(l) : w[k] = E(w)[k]
    BY <1>8
  <2>2. 0 \in 0 .. Len(l) /\ \A k \in 1 .. Len(l) : k \in 0 .. Len(l) /\ k # 0
    BY <1>1
  <2>. QED
    BY <2>1, <2>2
<1>. HIDE DEF E
<1>. DEFINE Copied(k) == /\ Linked(w[k], SubSeq(l, 1, k))
                         /\ w[k].value \in Valued
                         /\ \A j \in 1 .. k : w[k].value[l[j]] = d.value[l[j]]
            D == {k \in Nat : k <= Len(l) => Copied(k)}
<1>10. 0 \in D
  <2>1. PICK f : f = SubSeq(l, 1, 0) /\ f \in Seq(Nodes) /\ Len(f) = 0
    <3>1. 0 \in 0 .. Len(l)
      BY <1>1
    <3>. QED
      BY ZenonT(60), <1>1, <3>1, Firsts
  <2>2. Linked(List!dlist_init, f)
    <3>1. \A j \in Int : NodeAt(f, j) = NULL
      BY <2>1 DEF NodeAt
    <3>2. List!NoNodes \in Chained
      BY DEF List!NoNodes, Chained
    <3>3. 1 .. Len(f) = {}
      BY <2>1
    <3>. QED
      BY <2>1, <3>1, <3>2, <3>3 DEF Linked, Distinct, List!dlist_init
  <2>3. List!dlist_init.value \in Valued
    BY DEF List!dlist_init, List!NoNodes
  <2>4. 1 .. 0 = {}
    OBVIOUS
  <2>. QED
    BY <1>9, <2>1, <2>2, <2>3, <2>4
<1>11. ASSUME NEW k \in Nat, k \in D PROVE k + 1 \in D
  <2>. SUFFICES ASSUME k + 1 <= Len(l) PROVE Copied(k + 1)
    OBVIOUS
  <2>1. k <= Len(l) /\ k < Len(l) /\ k + 1 \in 1 .. Len(l) /\ k \in 0 .. Len(l) /\ (k + 1) - 1 = k
    BY <1>1
  <2>2. Copied(k)
    BY <1>11, <2>1
  <2>3. PICK n, v, f, x : /\ n = l[k + 1] /\ v = d.value[n] /\ f = SubSeq(l, 1, k) /\ x = w[k]
    OBVIOUS
  <2>4. w[k + 1] = List!AddTail(x, n, v)
    BY <1>9, <2>1, <2>3
  <2>5. n \in Nodes /\ v \in Values \cup {NULL}
    BY <1>1, <2>1, <2>3
  <2>6. Len(f) = k /\ \A j \in 1 .. k : f[j] = l[j]
    BY <1>1, <2>1, <2>3, Firsts
  <2>7. \A j \in 1 .. k : j \in 1 .. Len(l) /\ j # k + 1 /\ l[j] # n
    <3>1. \A j \in 1 .. k : j \in 1 .. Len(l) /\ j # k + 1
      BY <1>1, <2>1
    <3>. QED
      BY <1>1, <2>1, <2>3, <3>1 DEF Distinct
  <2>8. Linked(w[k + 1], SubSeq(l, 1, k + 1))
    <3>1. Linked(x, f) /\ \A j \in 1 .. Len(f) : f[j] # n
      BY <2>2, <2>3, <2>6, <2>7
    <3>2. Linked(List!AddTail(x, n, v), Append(f, n))
      BY <2>5, <3>1, AddTailLinks
    <3>3. SubSeq(l, 1, k + 1) = Append(f, n)
      BY <1>1, <2>1, <2>3, FirstsGrow
    <3>. QED
      BY <2>4, <3>2, <3>3
  <2>9. w[k + 1].value = [x.value EXCEPT ![n] = v] /\ x.value \in Valued
    BY <2>2, <2>3, <2>4 DEF List!AddTail
  <2>10. w[k + 1].value \in Valued
    <3>1. w[k + 1].value = [m \in Nodes |-> IF m = n THEN v ELSE x.value[m]]
      BY <2>9
    <3>2. \A m \in Nodes : (IF m = n THEN v ELSE x.value[m]) \in Values \cup {NULL}
      BY <2>5, <2>9
    <3>. QED
      BY <3>1, <3>2
  <2>11. ASSUME NEW j \in 1 .. k + 1 PROVE w[k + 1].value[l[j]] = d.value[l[j]]
    <3>1. CASE j = k + 1
      BY <2>3, <2>5, <2>9, <3>1
    <3>2. CASE j # k + 1
      <4>1. j \in 1 .. k
        BY <3>2
      <4>2. l[j] \in Nodes /\ l[j] # n /\ x.value[l[j]] = d.value[l[j]]
        BY <1>1, <2>2, <2>3, <2>7, <4>1
      <4>. QED
        BY <2>9, <4>2
    <3>. QED
      BY <3>1, <3>2
  <2>. QED
    BY <2>8, <2>10, <2>11
<1>12. Nat \subseteq D
  <2>. HIDE DEF D
  <2>. QED
    BY <1>10, <1>11, Induct
<1>13. Copied(Len(l))
  <2>1. Len(l) \in D /\ Len(l) <= Len(l)
    BY <1>1, <1>12
  <2>. HIDE DEF Copied
  <2>. QED
    BY <2>1
<1>14. SubSeq(l, 1, Len(l)) = l
  <2>1. PICK f : f = SubSeq(l, 1, Len(l)) /\ f \in Seq(Nodes) /\ Len(f) = Len(l) /\ \A j \in 1 .. Len(l) : f[j] = l[j]
    <3>1. Len(l) \in 0 .. Len(l)
      BY <1>1
    <3>. QED
      BY <1>1, <3>1, Firsts
  <2>2. f = l
    BY <1>1, <2>1, SeqEqual
  <2>. QED
    BY <2>1, <2>2
<1>. QED
  BY <1>8, <1>13, <1>14

\* What is read from a list that is well is what is in it.
LEMMA ListAgrees == ListWell => List!Agrees
<1>. SUFFICES ASSUME ListWell PROVE List!Agrees
  OBVIOUS
<1>1. Linked(dl, list) /\ dl.value \in [Nodes -> Values \cup {NULL}]
  BY DEF ListWell
<1>2. /\ list \in Seq(Nodes) /\ Distinct(list) /\ dl.len = Len(list) /\ Len(list) \in Nat
      /\ DOMAIN list = 1 .. Len(list)
  BY <1>1, ListNodes DEF Linked
<1>3. Cardinality(Nodes) \in Nat /\ Len(list) <= Cardinality(Nodes)
  BY <1>2, ListFits
<1>4. PICK r : /\ r = List!Reverse(list) /\ r = [j \in 1 .. Len(list) |-> list[(Len(list) - j) + 1]]
  BY DEF List!Reverse
<1>5. Leads(dl.head, dl.next, list) /\ Leads(dl.tail, dl.prev, r)
  BY <1>1, <1>4, BothWays
<1>6. Len(r) = Len(list)
  <2>1. r \in Seq(Nodes) /\ DOMAIN r = 1 .. Len(list)
    BY <1>4, <1>5 DEF Leads
  <2>. QED
    BY <1>2, <2>1, LenProperties
<1>7. List!Walk(dl, "head") = list
  BY <1>3, <1>5, WalkIs
<1>8. List!Walk(dl, "tail") = r
  <2>1. "tail" # "head"
    OBVIOUS
  <2>. QED
    BY <1>3, <1>5, <1>6, <2>1, WalkIs
<1>9. ASSUME NEW j \in Nat
      PROVE  /\ List!Index(dl, j) = IF j < dl.len THEN list[j + 1] ELSE NULL
             /\ List!Index(dl, -1 - j) = IF j < dl.len THEN list[dl.len - j] ELSE NULL
  <2>1. ~(j < 0) /\ -1 - j < 0 /\ -1 - j \in Int /\ -(-1 - j) - 1 = j /\ j \in Int
    OBVIOUS
  <2>2. List!Index(dl, j) = NodeAt(list, j + 1)
    BY ZenonT(60), <1>5, <2>1, IndexIs
  <2>3. List!Index(dl, -1 - j) = NodeAt(r, j + 1)
    <3>1. PICK i \in Int : i = -1 - j /\ i < 0 /\ j = -i - 1
      BY <2>1
    <3>2. Leads(IF i < 0 THEN dl.tail ELSE dl.head, IF i < 0 THEN dl.prev ELSE dl.next, r)
      BY <1>5, <3>1
    <3>3. j = IF i < 0 THEN -i - 1 ELSE i
      BY <3>1
    <3>. QED
      BY <3>1, <3>2, <3>3, IndexIs
  <2>4. NodeAt(list, j + 1) = IF j < dl.len THEN list[j + 1] ELSE NULL
    BY <1>2 DEF NodeAt
  <2>5. NodeAt(r, j + 1) = IF j < dl.len THEN list[dl.len - j] ELSE NULL
    <3>1. j + 1 \in 1 .. Len(r) <=> j < dl.len
      BY <1>2, <1>6
    <3>2. j + 1 \in 1 .. Len(list) => r[j + 1] = list[(Len(list) - (j + 1)) + 1]
      BY <1>4
    <3>3. (Len(list) - (j + 1)) + 1 = dl.len - j
      BY <1>2
    <3>. QED
      BY <1>6, <3>1, <3>2, <3>3 DEF NodeAt
  <2>. QED
    BY <2>2, <2>3, <2>4, <2>5
<1>10. ASSUME NEW v \in Values
       PROVE  List!SearchKey(dl, v) = LET js == {j \in DOMAIN list : dl.value[list[j]] = v}
                                      IN  IF js = {} THEN NULL ELSE list[List!Min(js)]
  BY Zenon, <1>7 DEF List!SearchKey
<1>11. /\ Linked(List!Dup(dl), list)
       /\ \A j \in 1 .. Len(list) : List!Dup(dl).value[list[j]] = dl.value[list[j]]
  BY <1>1, <1>7, DupIs
<1>12. PICK c : c = List!Dup(dl)
  OBVIOUS
<1>13. List!Walk(c, "head") = list /\ c.len = dl.len
  <2>1. Leads(c.head, c.next, list)
    BY <1>11, <1>12, BothWays
  <2>2. c.len = dl.len
    BY <1>2, <1>11, <1>12 DEF Linked
  <2>. QED
    BY <1>3, <2>1, <2>2, WalkIs
<1>14. \A j \in DOMAIN list : c.value[List!Walk(c, "head")[j]] = dl.value[list[j]]
  BY <1>2, <1>11, <1>12, <1>13
<1>15. \A j \in 0 .. List!Cardinality(Nodes) :
          /\ List!Index(dl, j) = IF j < dl.len THEN list[j + 1] ELSE NULL
          /\ List!Index(dl, -1 - j) = IF j < dl.len THEN list[dl.len - j] ELSE NULL
  <2>1. \A j \in 0 .. List!Cardinality(Nodes) : j \in Nat
    BY <1>3, CountsAlike
  <2>. QED
    BY <1>9, <2>1
<1>. QED
  BY Zenon, <1>2, <1>4, <1>7, <1>8, <1>10, <1>12, <1>13, <1>14, <1>15 DEF List!Agrees

-----------------------------------------------------------------------------
(* The vector *)

\* What is in a slot.
Stored == Values \cup {Array!Zero, NULL}

\* What data may be, of any number of slots.
Datas == UNION {[0 .. n - 1 -> Stored] : n \in Nat}

\* The vectors there may be.
Vecs == {v \in [slots : Nat \ {0}, count : Nat, data : Datas] :
            v.data \in [0 .. v.slots - 1 -> Stored]}

\* w has what v has, and perhaps more slots.
KeepsSlots(v, w) ==
    /\ w.count = v.count /\ w.slots >= v.slots
    /\ \A i \in 0 .. v.slots - 1 : w.data[i] = v.data[i]

\* Unsigned arithmetic, below W.
LEMMA WrapIs ==
    /\ \A n \in 0 .. W - 1 : Array!Wrap(n) = n
    /\ Array!Wrap(-1) = W - 1
    /\ W \in Nat \ {0, 1} /\ VecCount \in Nat /\ VecSlots \in Nat /\ VecCount < W
<1>1. W \in Nat \ {0, 1} /\ VecCount \in Nat /\ VecSlots \in Nat /\ VecCount < W
  BY StructuresAssumption DEF Array!VectorAssumption
<1>2. ASSUME NEW n \in 0 .. W - 1 PROVE (n + W) % W = n
  BY <1>1
<1>3. (-1 + W) % W = W - 1
  BY <1>1
<1>. QED
  BY <1>1, <1>2, <1>3 DEF Array!Wrap

\* What a vector is made of.
LEMMA VecIs ==
    ASSUME NEW v \in Vecs
    PROVE  /\ v.slots \in Nat \ {0} /\ v.count \in Nat
           /\ v.data \in [0 .. v.slots - 1 -> Stored]
           /\ v = [slots |-> v.slots, count |-> v.count, data |-> v.data]
<1>. QED
  BY DEF Vecs

\* And what makes one.
LEMMA IsVec ==
    ASSUME NEW slots \in Nat \ {0}, NEW count \in Nat, NEW data \in [0 .. slots - 1 -> Stored]
    PROVE  [slots |-> slots, count |-> count, data |-> data] \in Vecs
<1>1. data \in Datas
  BY Zenon DEF Datas
<1>. QED
  BY <1>1 DEF Vecs

\* vector_resize keeps what is stored (vector.c:61-74).
LEMMA DoubledKeeps ==
    ASSUME NEW v \in Vecs
    PROVE  /\ Array!Doubled(v) \in Vecs /\ KeepsSlots(v, Array!Doubled(v))
           /\ Array!Doubled(v).slots = 2 * v.slots
<1>1. /\ v.slots \in Nat \ {0} /\ v.count \in Nat
      /\ v.data \in [0 .. v.slots - 1 -> Stored]
      /\ v = [slots |-> v.slots, count |-> v.count, data |-> v.data]
  BY VecIs
<1>2. PICK n : n = 2 * v.slots
  OBVIOUS
<1>3. n \in Nat \ {0} /\ n >= v.slots
  BY <1>1, <1>2
<1>4. PICK data : data = [i \in 0 .. n - 1 |-> IF i < v.slots THEN v.data[i] ELSE NULL]
  OBVIOUS
<1>5. data \in [0 .. n - 1 -> Stored] /\ \A i \in 0 .. v.slots - 1 : data[i] = v.data[i]
  <2>1. \A i \in 0 .. n - 1 : i < v.slots => i \in 0 .. v.slots - 1
    BY <1>1, <1>3
  <2>2. \A i \in 0 .. n - 1 : (IF i < v.slots THEN v.data[i] ELSE NULL) \in Stored
    <3>1. NULL \in Stored
      BY DEF Stored
    <3>. QED
      BY <1>1, <2>1, <3>1
  <2>3. data \in [0 .. n - 1 -> Stored]
    BY <1>4, <2>2
  <2>4. \A i \in 0 .. v.slots - 1 : i \in 0 .. n - 1 /\ i < v.slots
    BY <1>1, <1>3
  <2>. QED
    BY <1>4, <2>3, <2>4
<1>6. Array!Doubled(v) = [slots |-> n, count |-> v.count, data |-> data]
  <2>1. Array!Doubled(v) = [v EXCEPT !.slots = n, !.data = data]
    BY Zenon, <1>2, <1>4 DEF Array!Doubled
  <2>. QED
    BY <1>1, <2>1
<1>7. Array!Doubled(v) \in Vecs
  BY <1>1, <1>3, <1>5, <1>6, IsVec
<1>. QED
  BY <1>2, <1>3, <1>5, <1>6, <1>7 DEF KeepsSlots

\* vector_set_at ends with room, though it resizes only while there is none.
LEMMA WithRoomKeeps ==
    ASSUME NEW v \in Vecs, NEW index \in Nat
    PROVE  /\ Array!WithRoom(v, index) \in Vecs /\ KeepsSlots(v, Array!WithRoom(v, index))
           /\ index < Array!WithRoom(v, index).slots
<1>. DEFINE Grow(x) == IF index < x.slots THEN x ELSE Array!Doubled(x)
            F == [kx \in Nat \X Vecs |-> Grow(kx[2])]
            E(w) == [n \in Nat |->
                        IF n = 0 THEN v
                        ELSE IF index < w[n - 1].slots THEN w[n - 1] ELSE Array!Doubled(w[n - 1])]
<1>1. \A x \in Vecs : Grow(x) \in Vecs /\ Grow(x) = IF index < x.slots THEN x ELSE Array!Doubled(x)
  BY DoubledKeeps
<1>. HIDE DEF Grow
<1>2. F \in Rules(Vecs)
  <2>1. \A kx \in Nat \X Vecs : Grow(kx[2]) \in Vecs
    BY <1>1
  <2>. QED
    BY <2>1 DEF Rules
<1>3. PICK ww \in [Nat -> Vecs] : ww[0] = v /\ \A k \in Nat : ww[k + 1] = F[<<k, ww[k]>>]
  <2>. HIDE DEF F
  <2>1. \E w \in Runs(Vecs) : w[0] = v /\ \A k \in Nat : w[k + 1] = F[<<k, w[k]>>]
    BY <1>2, Recursion
  <2>. QED
    BY Zenon, <2>1 DEF Runs
<1>4. \A k \in Nat : ww[k + 1] = Grow(ww[k])
  <2>. SUFFICES ASSUME NEW k \in Nat PROVE ww[k + 1] = Grow(ww[k])
    OBVIOUS
  <2>1. <<k, ww[k]>> \in Nat \X Vecs /\ <<k, ww[k]>>[2] = ww[k]
    BY <1>3
  <2>. QED
    BY <1>3, <2>1
<1>. HIDE DEF F
<1>5. ww = E(ww)
  <2>1. ASSUME NEW n \in Nat PROVE ww[n] = E(ww)[n]
    <3>1. CASE n = 0
      BY <1>3, <3>1
    <3>2. CASE n # 0
      <4>1. n - 1 \in Nat /\ (n - 1) + 1 = n
        BY <3>2
      <4>2. ww[n] = Grow(ww[n - 1]) /\ ww[n - 1] \in Vecs
        BY <1>3, <1>4, <4>1
      <4>3. ww[n] = IF index < ww[n - 1].slots THEN ww[n - 1] ELSE Array!Doubled(ww[n - 1])
        BY <1>1, <4>2
      <4>. QED
        BY <3>2, <4>3
    <3>. QED
      BY <3>1, <3>2
  <2>. QED
    BY <1>3, <2>1
<1>6. PICK w : w = E(w) /\ Array!WithRoom(v, index) = w[index + 1]
  BY Zenon, <1>5 DEF Array!WithRoom
<1>7. w[0] = v /\ \A k \in Nat : w[k + 1] = IF index < w[k].slots THEN w[k] ELSE Array!Doubled(w[k])
  <2>1. \A n \in Nat : w[n] = E(w)[n]
    BY <1>6
  <2>2. 0 \in Nat /\ \A k \in Nat : k + 1 \in Nat /\ k + 1 # 0 /\ (k + 1) - 1 = k
    OBVIOUS
  <2>. QED
    BY <2>1, <2>2
<1>. HIDE DEF E
<1>. DEFINE D == {n \in Nat : /\ w[n] \in Vecs /\ KeepsSlots(v, w[n])
                              /\ n < w[n].slots \/ index < w[n].slots}
<1>8. 0 \in D
  <2>1. w[0] = v /\ v.slots \in Nat \ {0}
    BY <1>7, VecIs
  <2>2. KeepsSlots(v, v) /\ 0 < v.slots
    BY <2>1 DEF KeepsSlots
  <2>. QED
    BY <2>1, <2>2
<1>9. ASSUME NEW n \in Nat, n \in D PROVE n + 1 \in D
  <2>1. CASE index < w[n].slots
    <3>1. w[n + 1] = w[n]
      BY <1>7, <2>1
    <3>. QED
      BY <1>9, <2>1, <3>1
  <2>2. CASE ~(index < w[n].slots)
    <3>1. w[n + 1] = Array!Doubled(w[n]) /\ w[n] \in Vecs /\ KeepsSlots(v, w[n]) /\ n < w[n].slots
      BY <1>7, <1>9, <2>2
    <3>2. /\ Array!Doubled(w[n]) \in Vecs /\ KeepsSlots(w[n], Array!Doubled(w[n]))
          /\ Array!Doubled(w[n]).slots = 2 * w[n].slots
      BY <3>1, DoubledKeeps
    <3>3. v.slots \in Nat /\ w[n].slots \in Nat
      BY <3>1, VecIs
    <3>4. KeepsSlots(v, w[n + 1])
      <4>1. \A i \in 0 .. v.slots - 1 : i \in 0 .. w[n].slots - 1
        BY <3>1, <3>3 DEF KeepsSlots
      <4>. QED
        BY <3>1, <3>2, <3>3, <4>1 DEF KeepsSlots
    <3>5. n + 1 < w[n + 1].slots
      BY <3>1, <3>2, <3>3
    <3>. QED
      BY <3>1, <3>2, <3>4, <3>5
  <2>. QED
    BY <2>1, <2>2
<1>10. Nat \subseteq D
  <2>. HIDE DEF D
  <2>. QED
    BY <1>8, <1>9, Induct
<1>11. /\ w[index + 1] \in Vecs /\ KeepsSlots(v, w[index + 1])
       /\ index + 1 < w[index + 1].slots \/ index < w[index + 1].slots
  <2>1. index + 1 \in D
    BY <1>10
  <2>. QED
    BY <2>1
<1>12. index < w[index + 1].slots
  <2>1. w[index + 1].slots \in Nat
    BY <1>11, VecIs
  <2>. QED
    BY <1>11, <2>1
<1>. QED
  BY <1>6, <1>11, <1>12

\* vector_set_at stores a value, and nothing else goes (vector.c:41-52).
LEMMA SetAtStores ==
    ASSUME NEW v \in Vecs, NEW index \in Nat, NEW value \in Values, v.count + 1 \in 0 .. W - 1,
           NEW r, r = Array!SetAt(v, index, value)
    PROVE  /\ r \in Vecs /\ r.count = v.count + 1
           /\ index < r.slots /\ v.slots <= r.slots
           /\ r.data[index] = value
           /\ \A i \in 0 .. v.slots - 1 : i # index => r.data[i] = v.data[i]
<1>1. PICK w : w = Array!WithRoom(v, index)
  OBVIOUS
<1>2. w \in Vecs /\ KeepsSlots(v, w) /\ index < w.slots
  BY <1>1, WithRoomKeeps
<1>3. /\ w.slots \in Nat \ {0} /\ w.count = v.count /\ w.slots >= v.slots
      /\ w.data \in [0 .. w.slots - 1 -> Stored]
      /\ w = [slots |-> w.slots, count |-> w.count, data |-> w.data]
      /\ index \in 0 .. w.slots - 1
      /\ v.slots \in Nat
      /\ \A i \in 0 .. v.slots - 1 : i \in 0 .. w.slots - 1 /\ w.data[i] = v.data[i]
  BY <1>2, VecIs DEF KeepsSlots
<1>4. Array!Wrap(w.count + 1) = v.count + 1 /\ v.count + 1 \in Nat
  BY <1>3, WrapIs
<1>5. PICK data : data = [w.data EXCEPT ![index] = value]
  OBVIOUS
<1>6. r = [slots |-> w.slots, count |-> v.count + 1, data |-> data]
  <2>1. r = [w EXCEPT !.data[index] = value, !.count = Array!Wrap(@ + 1)]
    BY <1>1 DEF Array!SetAt
  <2>. QED
    BY <1>3, <1>4, <1>5, <2>1
<1>7. data \in [0 .. w.slots - 1 -> Stored]
  <2>1. value \in Stored
    BY DEF Stored
  <2>. QED
    BY <1>3, <1>5, <2>1
<1>8. data[index] = value /\ \A i \in 0 .. v.slots - 1 : i # index => data[i] = v.data[i]
  BY <1>3, <1>5
<1>9. r \in Vecs
  BY <1>3, <1>4, <1>6, <1>7, IsVec
<1>. QED
  BY <1>2, <1>3, <1>6, <1>8, <1>9

-----------------------------------------------------------------------------
\* A slot has what was stored there last; while there were pushes only, the
\* slots from 0 are what was pushed, and count is how many.
VecWell ==
    /\ vec \in Vecs /\ vec.count <= VecCount
    /\ \A i \in DOMAIN set : i \in 0 .. vec.slots - 1 /\ vec.data[i] = set[i]
    /\ pushed # Array!NotOnlyPushes =>
          /\ pushed \in Seq(Values) /\ Len(pushed) = vec.count
          /\ \A j \in 1 .. Len(pushed) : j <= vec.slots /\ vec.data[j - 1] = pushed[j]

\* A new vector is well.
LEMMA VecInit ==
    ASSUME Array!Init
    PROVE  VecWell
<1>1. PICK slots : slots = IF InitSlots = 0 THEN 16 ELSE InitSlots
  OBVIOUS
<1>2. slots \in Nat \ {0} /\ VecCount \in Nat
  BY <1>1, StructuresAssumption DEF Array!VectorAssumption
<1>3. /\ vec = [slots |-> slots, count |-> 0, data |-> [i \in 0 .. slots - 1 |-> Array!Zero]]
      /\ set = <<>> /\ pushed = <<>>
  BY <1>1 DEF Array!Init
<1>4. vec \in Vecs /\ vec.count = 0
  <2>1. [i \in 0 .. slots - 1 |-> Array!Zero] \in [0 .. slots - 1 -> Stored]
    BY DEF Stored
  <2>. QED
    BY <1>2, <1>3, <2>1, IsVec
<1>5. DOMAIN set = {} /\ pushed \in Seq(Values) /\ Len(pushed) = 0
  BY <1>3
<1>6. 1 .. Len(pushed) = {}
  BY <1>5
<1>. QED
  BY <1>2, <1>4, <1>5, <1>6 DEF VecWell

\* vector_set_at keeps it well.
LEMMA VecSet ==
    ASSUME VecWell, Array!Set
    PROVE  VecWell'
<1>1. PICK index \in 0 .. VecSlots - 1, value \in Values :
        /\ vec.count < VecCount
        /\ vec' = Array!SetAt(vec, index, value)
        /\ pushed' = Array!NotOnlyPushes
        /\ set' = [i \in DOMAIN set \cup {index} |-> IF i = index THEN value ELSE set[i]]
  BY DEF Array!Set
<1>2. /\ vec \in Vecs /\ vec.slots \in Nat /\ vec.count \in Nat /\ index \in Nat
      /\ vec.count + 1 \in 0 .. W - 1 /\ vec.count + 1 <= VecCount
  BY <1>1, VecIs, WrapIs DEF VecWell
<1>3. /\ vec' \in Vecs /\ vec'.count = vec.count + 1
      /\ index < vec'.slots /\ vec.slots <= vec'.slots
      /\ vec'.data[index] = value
      /\ \A i \in 0 .. vec.slots - 1 : i # index => vec'.data[i] = vec.data[i]
  BY <1>1, <1>2, SetAtStores
<1>4. vec'.slots \in Nat
  BY <1>3, VecIs
<1>5. ASSUME NEW i \in DOMAIN set' PROVE i \in 0 .. vec'.slots - 1 /\ vec'.data[i] = set'[i]
  <2>1. DOMAIN set' = DOMAIN set \cup {index} /\ set'[i] = IF i = index THEN value ELSE set[i]
    BY <1>1, <1>5
  <2>2. CASE i = index
    BY <1>2, <1>3, <1>4, <2>1, <2>2
  <2>3. CASE i # index
    <3>1. i \in DOMAIN set /\ set'[i] = set[i]
      BY <2>1, <2>3
    <3>2. i \in 0 .. vec.slots - 1 /\ vec.data[i] = set[i]
      BY <3>1 DEF VecWell
    <3>. QED
      BY <1>2, <1>3, <1>4, <2>3, <3>1, <3>2
  <2>. QED
    BY <2>2, <2>3
<1>. QED
  BY <1>1, <1>2, <1>3, <1>5 DEF VecWell

\* So does vector_push, which resizes before there is no room.
LEMMA VecPush ==
    ASSUME VecWell, Array!Push
    PROVE  VecWell'
<1>1. PICK value \in Values :
        /\ vec.count < VecCount
        /\ vec' = Array!SetAt(Array!Room(vec), vec.count, value)
        /\ pushed' = IF pushed = Array!NotOnlyPushes THEN pushed ELSE Append(pushed, value)
        /\ set' = [i \in DOMAIN set \cup {vec.count} |-> IF i = vec.count THEN value ELSE set[i]]
  BY DEF Array!Push
<1>2. /\ vec \in Vecs /\ vec.slots \in Nat /\ vec.count \in Nat
      /\ vec.count + 1 \in 0 .. W - 1 /\ vec.count + 1 <= VecCount
  BY <1>1, VecIs, WrapIs DEF VecWell
<1>3. PICK v \in Vecs, index \in Nat : /\ v = Array!Room(vec) /\ index = vec.count
                                       /\ KeepsSlots(vec, v)
  <2>1. Array!Room(vec) \in Vecs /\ KeepsSlots(vec, Array!Room(vec))
    <3>1. KeepsSlots(vec, vec)
      BY <1>2 DEF KeepsSlots
    <3>. QED
      BY <1>2, <3>1, DoubledKeeps DEF Array!Room
  <2>. QED
    BY <1>2, <2>1
<1>4. /\ vec' \in Vecs /\ vec'.count = v.count + 1
      /\ index < vec'.slots /\ v.slots <= vec'.slots
      /\ vec'.data[index] = value
      /\ \A i \in 0 .. v.slots - 1 : i # index => vec'.data[i] = v.data[i]
  <2>1. v.count + 1 \in 0 .. W - 1
    BY <1>2, <1>3 DEF KeepsSlots
  <2>. QED
    BY <1>1, <1>3, <2>1, SetAtStores
<1>5. vec'.slots \in Nat /\ v.slots \in Nat
  BY <1>4, VecIs
<1>6. /\ vec'.count = vec.count + 1 /\ vec.slots <= vec'.slots
      /\ \A i \in 0 .. vec.slots - 1 : i # index => vec'.data[i] = vec.data[i]
  <2>1. /\ v.count = vec.count /\ vec.slots <= v.slots
        /\ \A i \in 0 .. vec.slots - 1 : v.data[i] = vec.data[i]
    BY <1>2, <1>3, <1>5 DEF KeepsSlots
  <2>2. \A i \in 0 .. vec.slots - 1 : i \in 0 .. v.slots - 1
    BY <1>2, <1>5, <2>1
  <2>. QED
    BY <1>2, <1>4, <1>5, <2>1, <2>2
<1>7. ASSUME NEW i \in DOMAIN set' PROVE i \in 0 .. vec'.slots - 1 /\ vec'.data[i] = set'[i]
  <2>1. DOMAIN set' = DOMAIN set \cup {index} /\ set'[i] = IF i = index THEN value ELSE set[i]
    BY <1>1, <1>3, <1>7
  <2>2. CASE i = index
    BY <1>3, <1>4, <1>5, <2>1, <2>2
  <2>3. CASE i # index
    <3>1. i \in DOMAIN set /\ set'[i] = set[i]
      BY <2>1, <2>3
    <3>2. i \in 0 .. vec.slots - 1 /\ vec.data[i] = set[i]
      BY <3>1 DEF VecWell
    <3>. QED
      BY <1>2, <1>5, <1>6, <2>3, <3>1, <3>2
  <2>. QED
    BY <2>2, <2>3
<1>8. ASSUME pushed' # Array!NotOnlyPushes
      PROVE  /\ pushed' \in Seq(Values) /\ Len(pushed') = vec'.count
             /\ \A j \in 1 .. Len(pushed') : j <= vec'.slots /\ vec'.data[j - 1] = pushed'[j]
  <2>1. /\ pushed # Array!NotOnlyPushes /\ pushed \in Seq(Values) /\ Len(pushed) = vec.count
        /\ \A j \in 1 .. Len(pushed) : j <= vec.slots /\ vec.data[j - 1] = pushed[j]
    BY <1>1, <1>8 DEF VecWell
  <2>2. PICK p : p = Append(pushed, value) /\ p = pushed'
    BY <1>1, <2>1
  <2>3. /\ p \in Seq(Values) /\ Len(p) = vec.count + 1
        /\ \A j \in 1 .. vec.count : p[j] = pushed[j]
        /\ p[vec.count + 1] = value
    <3>1. /\ Append(pushed, value) \in Seq(Values) /\ Len(Append(pushed, value)) = Len(pushed) + 1
          /\ \A j \in 1 .. Len(pushed) : Append(pushed, value)[j] = pushed[j]
          /\ Append(pushed, value)[Len(pushed) + 1] = value
      BY <2>1, AppendProperties
    <3>. QED
      BY Zenon, <2>1, <2>2, <3>1
  <2>4. ASSUME NEW j \in 1 .. Len(p) PROVE j <= vec'.slots /\ vec'.data[j - 1] = p[j]
    <3>1. CASE j = vec.count + 1
      <4>1. j - 1 = index /\ j <= vec'.slots
        BY <1>2, <1>3, <1>4, <1>5, <3>1
      <4>. QED
        BY <1>4, <2>3, <3>1, <4>1
    <3>2. CASE j # vec.count + 1
      <4>1. j \in 1 .. vec.count /\ j <= vec.slots /\ j - 1 # index
        BY <1>2, <1>3, <2>1, <2>3, <3>2
      <4>2. j - 1 \in 0 .. vec.slots - 1 /\ j <= vec'.slots
        BY <1>2, <1>5, <1>6, <4>1
      <4>3. vec'.data[j - 1] = vec.data[j - 1]
        BY <1>6, <4>1, <4>2
      <4>. QED
        BY <2>1, <2>3, <4>1, <4>2, <4>3
    <3>. QED
      BY <3>1, <3>2
  <2>. QED
    BY <1>6, <2>2, <2>3, <2>4
<1>. QED
  BY <1>2, <1>4, <1>6, <1>7, <1>8 DEF VecWell

-----------------------------------------------------------------------------
(* What is read from a vector *)

\* How many values an iteration meets that starts with count c.
Met(c) == IF c = 0 THEN W ELSE IF c = 1 THEN 0 ELSE c

\* The iterator before it moves, and after it has been moved k - 1 times.
Its == [pos : Nat, started : BOOLEAN]
\* (k = 1: as vector_iter_init leaves it)
It(k) == IF k = 1 THEN [pos |-> 0, started |-> FALSE]
         ELSE [pos |-> k - 2, started |-> TRUE]

\* What an iterator is, at each of its moves.
LEMMA ItIs ==
    /\ It(1) = [pos |-> 0, started |-> FALSE]
    /\ \A k \in Nat \ {0, 1} : It(k) = [pos |-> k - 2, started |-> TRUE]
    /\ \A k \in Nat \ {0} : It(k) \in Its
<1>1. It(1) = [pos |-> 0, started |-> FALSE]
  BY DEF It
<1>2. \A k \in Nat \ {0, 1} : It(k) = [pos |-> k - 2, started |-> TRUE]
  BY DEF It
<1>a. \A p \in Nat : \A b \in BOOLEAN : [pos |-> p, started |-> b] \in Its
  BY DEF Its
<1>3. ASSUME NEW k \in Nat \ {0} PROVE It(k) \in Its
  <2>1. CASE k = 1
    <3>1. 0 \in Nat /\ FALSE \in BOOLEAN
      OBVIOUS
    <3>. QED
      BY Zenon, <1>1, <1>a, <2>1, <3>1
  <2>2. CASE k # 1
    <3>1. k - 2 \in Nat /\ k \in Nat \ {0, 1}
      BY <2>2
    <3>2. TRUE \in BOOLEAN
      OBVIOUS
    <3>. QED
      BY Zenon, <1>2, <1>a, <3>1, <3>2
  <2>. QED
    BY <2>1, <2>2
<1>. QED
  BY <1>1, <1>2, <1>3

\* The values that an iteration meets are those of the slots from 0, as many
\* as Met says (vector.c:110-133).
LEMMA IteratedIs ==
    ASSUME NEW v, NEW c \in 0 .. W - 1, v.count = c
    PROVE  Array!Iterated(v) = [j \in 1 .. Met(c) |-> IF j - 1 < v.slots THEN v.data[j - 1] ELSE NULL]
<1>0. W \in Nat \ {0, 1} /\ c \in Nat /\ Met(c) \in Nat /\ Met(c) <= W
  BY WrapIs DEF Met
<1>. DEFINE e == Met(c)
            least(n) == IF n < e THEN n ELSE e
            S(n) == [k \in 1 .. least(n) + 1 |-> It(k)]
            E(w) == [n \in 0 .. W |->
                        IF n = 0 THEN <<[pos |-> 0, started |-> FALSE]>>
                        ELSE IF Array!AtEnd(v, w[n - 1][Len(w[n - 1])]) THEN w[n - 1]
                             ELSE Append(w[n - 1], Array!IterNext(v, w[n - 1][Len(w[n - 1])]))]
            ww == [n \in 0 .. W |-> S(n)]
<1>1. e \in Nat /\ e <= W
  BY <1>0
<1>2. ASSUME NEW n \in 0 .. e PROVE Array!AtEnd(v, It(n + 1)) <=> n = e
  <2>1. It(n + 1).pos = IF n = 0 THEN 0 ELSE n - 1
    <3>1. CASE n = 0
      <4>1. n + 1 = 1
        BY <3>1
      <4>. QED
        BY <3>1, <4>1, ItIs
    <3>2. CASE n # 0
      <4>1. n + 1 \in Nat \ {0, 1} /\ (n + 1) - 2 = n - 1
        BY <1>1, <3>2
      <4>. QED
        BY <3>2, <4>1, ItIs
    <3>. QED
      BY <3>1, <3>2
  <2>2. Array!Wrap(v.count - 1) = IF c = 0 THEN W - 1 ELSE c - 1
    <3>1. CASE c = 0
      <4>1. v.count - 1 = -1
        BY <3>1
      <4>. QED
        BY <3>1, <4>1, WrapIs
    <3>2. CASE c # 0
      BY <1>0, <3>2, WrapIs
    <3>. QED
      BY <3>1, <3>2
  <2>3. (IF n = 0 THEN 0 ELSE n - 1) = (IF c = 0 THEN W - 1 ELSE c - 1) <=> n = e
    BY <1>0 DEF Met
  <2>. QED
    BY <2>1, <2>2, <2>3 DEF Array!AtEnd
<1>. HIDE DEF e
<1>3. ASSUME NEW n \in Nat, n < e PROVE Array!IterNext(v, It(n + 1)) = It(n + 2)
  <2>1. It(n + 2) = [pos |-> n, started |-> TRUE]
    <3>1. n + 2 \in Nat \ {0, 1} /\ (n + 2) - 2 = n
      OBVIOUS
    <3>. QED
      BY <3>1, ItIs
  <2>2. PICK it : it = It(n + 1)
    OBVIOUS
  <2>3. CASE n = 0
    <3>1. n + 1 = 1
      BY <2>3
    <3>2. it = [pos |-> 0, started |-> FALSE]
      BY <2>2, <3>1, ItIs
    <3>3. it.pos = 0 /\ ~it.started
      BY <3>2
    <3>4. Array!IterNext(v, it) = [pos |-> it.pos, started |-> TRUE]
      BY Zenon, <3>3 DEF Array!IterNext
    <3>. QED
      BY Zenon, <2>1, <2>2, <2>3, <3>3, <3>4
  <2>4. CASE n # 0
    <3>1. n + 1 \in Nat \ {0, 1} /\ (n + 1) - 2 = n - 1 /\ (n - 1) + 1 = n /\ n \in 0 .. W - 1
      BY <1>0, <1>1, <1>3, <2>4
    <3>2. it = [pos |-> n - 1, started |-> TRUE]
      BY <2>2, <3>1, ItIs
    <3>3. it.pos = n - 1 /\ it.started = TRUE
      BY <3>2
    <3>4. Array!Wrap(it.pos + 1) = n
      BY <3>1, <3>3, WrapIs
    <3>5. Array!IterNext(v, it) = [pos |-> Array!Wrap(it.pos + 1), started |-> TRUE]
      BY Zenon, <3>3 DEF Array!IterNext
    <3>. QED
      BY Zenon, <2>1, <2>2, <3>4, <3>5
  <2>. QED
    BY <2>3, <2>4
<1>4. \A k \in Nat \ {0} : It(k) \in Its
  BY ItIs
<1>5. ASSUME NEW n \in Nat
      PROVE  /\ least(n) \in 0 .. e /\ least(n) <= n
             /\ S(n) \in Seq(Its) /\ Len(S(n)) = least(n) + 1
             /\ \A k \in 1 .. least(n) + 1 : S(n)[k] = It(k)
  <2>1. least(n) \in 0 .. e /\ least(n) <= n /\ least(n) + 1 \in Nat
    BY <1>1
  <2>2. PICK m : m = least(n) + 1
    OBVIOUS
  <2>3. \A k \in 1 .. m : k \in Nat \ {0}
    BY <2>1, <2>2
  <2>4. S(n) \in [1 .. m -> Its]
    BY <1>4, <2>2, <2>3
  <2>5. S(n) \in Seq(Its) /\ DOMAIN S(n) = 1 .. m
    BY <2>1, <2>2, <2>4, IsASeq
  <2>6. Len(S(n)) = m
    <3>. HIDE DEF S
    <3>. QED
      BY <2>1, <2>2, <2>5, LenProperties
  <2>. QED
    BY <2>1, <2>2, <2>5, <2>6
<1>6. S(0) = <<[pos |-> 0, started |-> FALSE]>>
  <2>1. least(0) = 0 /\ It(1) = [pos |-> 0, started |-> FALSE]
    BY <1>1, ItIs
  <2>2. Len(S(0)) = 1 /\ S(0)[1] = It(1) /\ S(0) \in Seq(Its)
    BY <1>5, <2>1
  <2>. HIDE DEF S
  <2>. QED
    BY <2>1, <2>2
<1>7. ASSUME NEW n \in Nat
      PROVE  S(n + 1) = IF Array!AtEnd(v, S(n)[Len(S(n))]) THEN S(n)
                        ELSE Append(S(n), Array!IterNext(v, S(n)[Len(S(n))]))
  <2>1. S(n)[Len(S(n))] = It(least(n) + 1)
    <3>1. PICK m : m = least(n) + 1 /\ m \in 1 .. m
      BY <1>1, <1>5
    <3>. HIDE DEF S, least
    <3>. QED
      BY <1>5, <3>1
  <2>2. CASE least(n) = e
    <3>1. least(n + 1) = least(n)
      BY <1>1, <2>2
    <3>2. S(n + 1) = S(n)
      BY <3>1
    <3>3. Array!AtEnd(v, It(least(n) + 1))
      BY <1>2, <1>5, <2>2
    <3>. HIDE DEF S
    <3>. QED
      BY <2>1, <3>2, <3>3
  <2>3. CASE least(n) # e
    <3>1. least(n) = n /\ n < e /\ least(n + 1) = n + 1 /\ n \in 0 .. e
      BY <1>1, <1>5, <2>3
    <3>2. ~Array!AtEnd(v, It(n + 1)) /\ Array!IterNext(v, It(n + 1)) = It(n + 2)
      BY <1>2, <1>3, <2>3, <3>1
    <3>3. PICK s1, t, x : s1 = S(n) /\ t = S(n + 1) /\ x = It(n + 2)
      OBVIOUS
    <3>4. /\ s1 \in Seq(Its) /\ Len(s1) = n + 1 /\ \A k \in 1 .. n + 1 : s1[k] = It(k)
          /\ t \in Seq(Its) /\ Len(t) = n + 2 /\ \A k \in 1 .. n + 2 : t[k] = It(k)
      <4>1. (n + 1) + 1 = n + 2 /\ n + 1 \in Nat
        OBVIOUS
      <4>. HIDE DEF S, least
      <4>. QED
        BY <1>5, <3>1, <3>3, <4>1
    <3>5. PICK a : a = Append(s1, x)
      OBVIOUS
    <3>6. x \in Its
      BY <1>4, <3>3
    <3>7. /\ a \in Seq(Its) /\ Len(a) = n + 2 /\ \A k \in 1 .. n + 1 : a[k] = s1[k]
          /\ a[n + 2] = x
      <4>1. /\ a \in Seq(Its) /\ Len(a) = Len(s1) + 1 /\ \A k \in 1 .. Len(s1) : a[k] = s1[k]
            /\ a[Len(s1) + 1] = x
        BY <3>4, <3>5, <3>6, AppendProperties
      <4>. QED
        BY <3>4, <4>1
    <3>8. \A k \in 1 .. n + 2 : a[k] = t[k]
      <4>. SUFFICES ASSUME NEW k \in 1 .. n + 2 PROVE a[k] = t[k]
        OBVIOUS
      <4>1. k = n + 2 \/ k \in 1 .. n + 1
        OBVIOUS
      <4>. QED
        BY <3>3, <3>4, <3>7, <4>1
    <3>9. a = t
      BY <3>4, <3>7, <3>8, SeqEqual
    <3>. HIDE DEF S, least
    <3>. QED
      BY <2>1, <3>1, <3>2, <3>3, <3>5, <3>9
  <2>. QED
    BY <2>2, <2>3
<1>. HIDE DEF S, least
<1>8. ww = E(ww)
  <2>1. ASSUME NEW n \in 0 .. W PROVE ww[n] = E(ww)[n]
    <3>1. CASE n = 0
      BY <1>0, <1>6, <3>1
    <3>2. CASE n # 0
      <4>1. n - 1 \in Nat /\ n - 1 \in 0 .. W /\ (n - 1) + 1 = n
        BY <1>0, <3>2
      <4>2. ww[n] = S(n) /\ ww[n - 1] = S(n - 1)
        BY <4>1
      <4>3. S(n) = IF Array!AtEnd(v, S(n - 1)[Len(S(n - 1))]) THEN S(n - 1)
                   ELSE Append(S(n - 1), Array!IterNext(v, S(n - 1)[Len(S(n - 1))]))
        BY <1>7, <4>1
      <4>. HIDE DEF ww
      <4>. QED
        BY <3>2, <4>2, <4>3
    <3>. QED
      BY <3>1, <3>2
  <2>. QED
    BY <2>1
<1>9. PICK w : /\ w = E(w)
               /\ Array!Iterated(v) = [j \in 1 .. Len(w[W]) - 1 |->
                     IF w[W][j + 1].pos < v.slots THEN v.data[w[W][j + 1].pos] ELSE NULL]
  <2>. HIDE DEF ww
  <2>. QED
    BY Zenon, <1>8 DEF Array!Iterated
<1>. HIDE DEF ww
<1>. DEFINE D == {n \in Nat : n <= W => w[n] = S(n)}
<1>10. 0 \in D
  <2>1. 0 \in 0 .. W
    BY <1>0
  <2>2. w[0] = E(w)[0]
    BY <1>9
  <2>3. w[0] = <<[pos |-> 0, started |-> FALSE]>>
    BY <2>1, <2>2
  <2>. QED
    BY <1>6, <2>3
<1>11. ASSUME NEW n \in Nat, n \in D PROVE n + 1 \in D
  <2>. SUFFICES ASSUME n + 1 <= W PROVE w[n + 1] = S(n + 1)
    OBVIOUS
  <2>1. n + 1 \in 0 .. W /\ n + 1 # 0 /\ (n + 1) - 1 = n /\ n <= W
    BY <1>0
  <2>2. w[n] = S(n)
    BY <1>11, <2>1
  <2>3. w[n + 1] = E(w)[n + 1]
    BY <1>9
  <2>4. w[n + 1] = IF Array!AtEnd(v, w[n][Len(w[n])]) THEN w[n]
                   ELSE Append(w[n], Array!IterNext(v, w[n][Len(w[n])]))
    BY <2>1, <2>3
  <2>. QED
    BY <1>7, <2>2, <2>4
<1>12. Nat \subseteq D
  <2>. HIDE DEF D
  <2>. QED
    BY <1>10, <1>11, Induct
<1>13. /\ w[W] \in Seq(Its) /\ Len(w[W]) = e + 1
       /\ \A k \in 1 .. e + 1 : w[W][k] = It(k)
  <2>1. w[W] = S(W)
    BY <1>0, <1>12
  <2>2. least(W) = e
    BY <1>0, <1>1 DEF least
  <2>. QED
    BY <1>0, <1>5, <2>1, <2>2
<1>14. Len(w[W]) - 1 = e
  BY <1>1, <1>13
<1>15. \A j \in 1 .. e : w[W][j + 1].pos = j - 1
  <2>1. \A j \in 1 .. e : j + 1 \in 1 .. e + 1 /\ j + 1 \in Nat \ {0, 1} /\ (j + 1) - 2 = j - 1
    BY <1>1
  <2>2. \A j \in 1 .. e : w[W][j + 1] = It(j + 1)
    BY <1>13, <2>1
  <2>. QED
    BY <1>1, <2>1, <2>2, ItIs
<1>. QED
  BY <1>9, <1>14, <1>15 DEF e

\* Every operation keeps the vector well.
LEMMA VecStays ==
    ASSUME VecWell, [Array!Next]_vecVars
    PROVE  VecWell'
<1>1. CASE UNCHANGED vecVars
  BY <1>1 DEF VecWell, vecVars
<1>2. CASE Array!Next
  BY <1>2, VecPush, VecSet DEF Array!Next
<1>. QED
  BY <1>1, <1>2

\* What is read from a vector that is well is what was stored.
LEMMA VecIsAnArray == VecWell => Array!IsAnArray
<1>. SUFFICES ASSUME VecWell PROVE Array!IsAnArray
  OBVIOUS
<1>1. vec \in Vecs /\ vec.slots \in Nat /\ vec.count \in Nat /\ vec.count \in 0 .. W - 1
  BY VecIs, WrapIs DEF VecWell
<1>2. Array!Stores
  <2>. SUFFICES ASSUME NEW i \in DOMAIN set PROVE Array!GetAt(vec, i) = set[i]
    BY DEF Array!Stores
  <2>1. i \in 0 .. vec.slots - 1 /\ vec.data[i] = set[i]
    BY DEF VecWell
  <2>2. ~(i >= vec.slots)
    BY <1>1, <2>1
  <2>. QED
    BY <2>1, <2>2 DEF Array!GetAt
<1>3. Array!Iterates
  <2>. SUFFICES ASSUME pushed # Array!NotOnlyPushes
                PROVE  /\ vec.count = Len(pushed)
                       /\ CASE pushed = <<>>    -> Len(Array!Iterated(vec)) = W
                            [] Len(pushed) = 1   -> Array!Iterated(vec) = <<>>
                            [] Len(pushed) > 1   -> Array!Iterated(vec) = pushed
    BY DEF Array!Iterates
  <2>1. /\ pushed \in Seq(Values) /\ Len(pushed) = vec.count
        /\ \A j \in 1 .. Len(pushed) : j <= vec.slots /\ vec.data[j - 1] = pushed[j]
    BY DEF VecWell
  <2>2. PICK c \in 0 .. W - 1 : c = vec.count
    BY <1>1
  <2>3. PICK r : /\ r = Array!Iterated(vec)
                 /\ r = [j \in 1 .. Met(c) |-> IF j - 1 < vec.slots THEN vec.data[j - 1] ELSE NULL]
    BY <2>2, IteratedIs
  <2>4. W \in Nat /\ Met(c) \in Nat
    BY WrapIs DEF Met
  <2>5. CASE c = 0
    <3>1. pushed = <<>>
      BY <2>1, <2>2, <2>5, EmptySeq
    <3>a. Len(pushed) # 1 /\ ~(Len(pushed) > 1)
      BY <2>1, <2>2, <2>5
    <3>2. Met(c) = W
      BY <2>5 DEF Met
    <3>3. \A j \in 1 .. W : r[j] = IF j - 1 < vec.slots THEN vec.data[j - 1] ELSE NULL
      BY <2>3, <3>2
    <3>4. DOMAIN r = 1 .. W
      BY <2>3, <3>2
    <3>5. Len(r) = W
      <4>1. r \in Seq(Stored)
        <5>1. \A j \in 1 .. W : j - 1 < vec.slots => j - 1 \in 0 .. vec.slots - 1
          BY <1>1, <2>4
        <5>2. vec.data \in [0 .. vec.slots - 1 -> Stored] /\ NULL \in Stored
          BY <1>1, VecIs DEF Stored
        <5>3. r \in [1 .. W -> Stored]
          <6>1. \A j \in 1 .. W : (IF j - 1 < vec.slots THEN vec.data[j - 1] ELSE NULL) \in Stored
            BY <5>1, <5>2
          <6>. QED
            BY <2>3, <3>2, <6>1
        <5>. QED
          BY <2>4, <5>3, IsASeq
      <4>2. Len(r) \in Nat /\ DOMAIN r = 1 .. Len(r)
        BY <4>1, LenProperties
      <4>3. 1 .. Len(r) = 1 .. W
        BY <3>4, <4>2
      <4>4. CASE Len(r) < W
        <5>1. W \in 1 .. W /\ ~(W \in 1 .. Len(r))
          BY <2>4, <4>2, <4>4, WrapIs
        <5>. QED
          BY Zenon, <4>3, <5>1
      <4>5. CASE W < Len(r)
        <5>1. Len(r) \in 1 .. Len(r) /\ ~(Len(r) \in 1 .. W)
          BY <2>4, <4>2, <4>5
        <5>. QED
          BY Zenon, <4>3, <5>1
      <4>6. W \in Nat /\ Len(r) \in Nat
        BY <2>4, <4>2
      <4>7. Len(r) < W \/ W < Len(r) \/ Len(r) = W
        BY <4>6
      <4>. QED
        BY Zenon, <4>4, <4>5, <4>7
    <3>. QED
      BY Zenon, <2>1, <2>2, <2>3, <2>5, <3>1, <3>a, <3>5
  <2>6. CASE c = 1
    <3>0. Len(<<>>) = 0 /\ 0 # 1
      OBVIOUS
    <3>a. Len(pushed) = 1
      BY Zenon, <2>1, <2>2, <2>6
    <3>1. pushed # <<>> /\ Len(pushed) = 1
      BY Zenon, <3>0, <3>a
    <3>2. Met(c) = 0
      BY <2>6 DEF Met
    <3>3. r = <<>>
      BY <2>3, <3>2
    <3>4. ~(Len(pushed) > 1)
      BY <3>1
    <3>. QED
      BY Zenon, <2>1, <2>2, <2>3, <2>6, <3>1, <3>3, <3>4
  <2>7. CASE c > 1
    <3>1. pushed # <<>> /\ Len(pushed) # 1 /\ Len(pushed) > 1 /\ Met(c) = c
      BY <2>1, <2>2, <2>7 DEF Met
    <3>2. \A j \in 1 .. c : j - 1 < vec.slots
      BY <1>1, <2>1, <2>2
    <3>3. \A j \in 1 .. c : r[j] = pushed[j]
      BY <2>1, <2>2, <2>3, <3>1, <3>2
    <3>4. r = [j \in 1 .. c |-> pushed[j]]
      BY <2>3, <3>1, <3>3
    <3>5. pushed = [j \in 1 .. c |-> pushed[j]]
      <4>1. DOMAIN pushed = 1 .. c /\ pushed \in [1 .. c -> Values]
        BY <2>1, <2>2, LenProperties, ElementOfSeq
      <4>. QED
        BY <4>1
    <3>6. r = pushed
      BY <3>4, <3>5
    <3>. QED
      BY Zenon, <2>1, <2>2, <2>3, <3>1, <3>6
  <2>8. c = 0 \/ c = 1 \/ c > 1
    BY <2>2, <2>4
  <2>. QED
    BY Zenon, <2>5, <2>6, <2>7, <2>8
<1>. QED
  BY <1>2, <1>3 DEF Array!IsAnArray

-----------------------------------------------------------------------------
(* The hash table *)

\* An entry, a chain of them, and the chains of a table, of any number of slots.
Pairs == Keys \X Values
ChainSeqs == Seq(Pairs)
Chains == UNION {[0 .. n - 1 -> ChainSeqs] : n \in Nat}

\* Tables, of any size.
Tables == {h \in [slots : Nat \ {0}, count : Nat, data : Chains] :
              h.data \in [0 .. h.slots - 1 -> ChainSeqs]}

\* m is a finite map.
IsMap(m) == /\ m = [k \in DOMAIN m |-> m[k]]
            /\ DOMAIN m \subseteq Keys /\ IsFiniteSet(DOMAIN m)
            /\ \A k \in DOMAIN m : m[k] \in Values

\* m, and v for key.
With(m, key, v) == [k \in DOMAIN m \cup {key} |-> IF k = key THEN v ELSE m[k]]

\* The entries of a chain of slot i are of different keys, and as in m.
ChainOf(h, m, i) ==
    /\ \A j \in 1 .. Len(h.data[i]) :
          LET c == h.data[i][j]
          IN  Table!Index(h, c[1]) = i /\ c[1] \in DOMAIN m /\ c[2] = m[c[1]]
    /\ \A j, k \in 1 .. Len(h.data[i]) : h.data[i][j][1] = h.data[i][k][1] => j = k

\* The table h is the map m.
Maps(h, m) ==
    /\ h \in Tables /\ IsMap(m)
    /\ h.count = Cardinality(DOMAIN m)
    /\ \A i \in 0 .. h.slots - 1 : ChainOf(h, m, i)
    /\ \A key \in DOMAIN m :
          \E j \in 1 .. Len(Table!Chain(h, key)) : Table!Chain(h, key)[j][1] = key

\* What a table is made of.
LEMMA TableIs ==
    ASSUME NEW h \in Tables
    PROVE  /\ h.slots \in Nat \ {0} /\ h.count \in Nat
           /\ h.data \in [0 .. h.slots - 1 -> ChainSeqs]
           /\ h = [slots |-> h.slots, count |-> h.count, data |-> h.data]
BY DEF Tables

\* What makes a table.
LEMMA IsTable ==
    ASSUME NEW slots \in Nat \ {0}, NEW count \in Nat, NEW data \in [0 .. slots - 1 -> ChainSeqs]
    PROVE  [slots |-> slots, count |-> count, data |-> data] \in Tables
<1>1. data \in Chains
  BY Zenon DEF Chains
<1>. QED
  BY <1>1 DEF Tables

\* Every key has a chain (hash.c:23-32).
LEMMA IndexIn ==
    ASSUME NEW h \in Tables, NEW key \in Keys
    PROVE  /\ Table!Index(h, key) \in 0 .. h.slots - 1
           /\ Table!Chain(h, key) = h.data[Table!Index(h, key)]
           /\ Table!Chain(h, key) \in ChainSeqs
<1>1. hash_func[key] \in Nat
  BY StructuresAssumption DEF Table!HashAssumption
<1>2. h.slots \in Nat \ {0} /\ h.data \in [0 .. h.slots - 1 -> ChainSeqs]
  BY TableIs
<1>3. hash_func[key] % h.slots \in 0 .. h.slots - 1
  BY <1>1, <1>2
<1>4. Table!Index(h, key) \in 0 .. h.slots - 1
  BY Zenon, <1>3 DEF Table!Index
<1>. QED
  BY <1>2, <1>4 DEF Table!Chain

\* A chain is of pairs of a key and a value.
LEMMA ChainIs ==
    ASSUME NEW c \in ChainSeqs
    PROVE  /\ Len(c) \in Nat /\ DOMAIN c = 1 .. Len(c)
           /\ \A j \in 1 .. Len(c) : /\ c[j] \in Pairs /\ c[j][1] \in Keys /\ c[j][2] \in Values
                                     /\ c[j] = <<c[j][1], c[j][2]>>
<1>1. Len(c) \in Nat /\ DOMAIN c = 1 .. Len(c) /\ \A j \in 1 .. Len(c) : c[j] \in Pairs
  BY LenProperties, ElementOfSeq DEF ChainSeqs
<1>. QED
  BY <1>1 DEF Pairs

\* A search of a chain finds the key, or there is none (hash.c:127-133).
LEMMA PositionIs ==
    ASSUME NEW c \in ChainSeqs, NEW key
    PROVE  \/ /\ Table!Position(c, key) = 0
              /\ \A j \in 1 .. Len(c) : c[j][1] # key
           \/ /\ Table!Position(c, key) \in 1 .. Len(c)
              /\ c[Table!Position(c, key)][1] = key
<1>. DEFINE at == {j \in DOMAIN c : c[j][1] = key}
<1>1. at = {j \in 1 .. Len(c) : c[j][1] = key} /\ at \subseteq Nat /\ Len(c) \in Nat
  BY ChainIs
<1>2. Table!Position(c, key) = IF at = {} THEN 0 ELSE Table!Min(at)
  BY Zenon DEF Table!Position
<1>3. CASE at = {}
  BY <1>1, <1>2, <1>3
<1>4. CASE at # {}
  <2>. HIDE DEF at
  <2>1. \E x \in at : \A y \in at : x <= y
    BY <1>1, <1>4, Least
  <2>2. Table!Min(at) \in at
    BY Zenon, <2>1 DEF Table!Min
  <2>. QED
    BY <1>1, <1>2, <1>4, <2>2
<1>. QED
  BY <1>3, <1>4

\* hash_get_val finds what the map has (hash.c:121-136).
LEMMA GetIs ==
    ASSUME NEW h, NEW m, Maps(h, m), NEW key \in Keys
    PROVE  Table!hash_get_val(h, key) = IF key \in DOMAIN m THEN m[key] ELSE NULL
<1>1. PICK c \in ChainSeqs, i \in 0 .. h.slots - 1 :
           c = h.data[i] /\ i = Table!Index(h, key) /\ c = Table!Chain(h, key)
  BY IndexIn DEF Maps
<1>2. ChainOf(h, m, i)
  BY DEF Maps
<1>3. PICK j : j = Table!Position(c, key)
  OBVIOUS
<1>4. Table!hash_get_val(h, key) = IF j = 0 THEN NULL ELSE c[j][2]
  BY Zenon, <1>1, <1>3 DEF Table!hash_get_val
<1>5. CASE j = 0
  <2>1. \A x \in 1 .. Len(c) : c[x][1] # key
    BY <1>1, <1>3, <1>5, PositionIs
  <2>2. key \in DOMAIN m => \E x \in 1 .. Len(Table!Chain(h, key)) : Table!Chain(h, key)[x][1] = key
    BY DEF Maps
  <2>3. key \notin DOMAIN m
    BY <1>1, <2>1, <2>2
  <2>. QED
    BY <1>4, <1>5, <2>3
<1>6. CASE j # 0
  <2>1. j \in 1 .. Len(c) /\ c[j][1] = key
    BY <1>1, <1>3, <1>6, PositionIs
  <2>2. key \in DOMAIN m /\ c[j][2] = m[key]
    BY <1>1, <1>2, <2>1 DEF ChainOf
  <2>. QED
    BY <1>4, <1>6, <2>2
<1>. QED
  BY <1>5, <1>6

\* The table counts as this module does.
LEMMA TableCounts ==
    ASSUME NEW S
    PROVE  Table!Cardinality(S) = Cardinality(S)
BY Zenon DEF Table!Cardinality, Cardinality

\* A new entry goes to the head of its chain (hash.c:108-118, 239-244).
LEMMA PushedMaps ==
    ASSUME NEW h, NEW m, Maps(h, m), NEW key \in Keys, key \notin DOMAIN m, NEW v \in Values
    PROVE  Maps(Table!Pushed(h, <<key, v>>), With(m, key, v))
<1>1. h \in Tables /\ IsMap(m) /\ h.slots \in Nat \ {0} /\ h.count \in Nat
      /\ h.data \in [0 .. h.slots - 1 -> ChainSeqs]
      /\ h = [slots |-> h.slots, count |-> h.count, data |-> h.data]
  BY TableIs DEF Maps
<1>2. PICK c \in ChainSeqs, i \in 0 .. h.slots - 1 :
           c = h.data[i] /\ i = Table!Index(h, key) /\ c = Table!Chain(h, key)
  BY <1>1, IndexIn
<1>3. PICK e : e = <<key, v>> /\ e \in Pairs /\ e[1] = key /\ e[2] = v
  <2>1. <<key, v>> \in Pairs /\ <<key, v>>[1] = key /\ <<key, v>>[2] = v
    BY DEF Pairs
  <2>. QED
    BY Zenon, <2>1
<1>4. PICK r : r = <<e>> \o c
  OBVIOUS
<1>5. /\ r \in ChainSeqs /\ Len(r) = Len(c) + 1 /\ Len(c) \in Nat /\ r[1] = e
      /\ \A j \in 2 .. Len(c) + 1 : r[j] = c[j - 1]
  <2>1. <<e>> \in Seq(Pairs) /\ Len(<<e>>) = 1 /\ <<e>>[1] = e
    BY <1>3
  <2>2. c \in Seq(Pairs) /\ Len(c) \in Nat
    BY ChainIs DEF ChainSeqs
  <2>3. /\ r \in Seq(Pairs) /\ Len(r) = Len(<<e>>) + Len(c)
        /\ \A j \in 1 .. Len(<<e>>) + Len(c) :
              r[j] = IF j <= Len(<<e>>) THEN <<e>>[j] ELSE c[j - Len(<<e>>)]
    BY <1>4, <2>1, <2>2, ConcatProperties
  <2>4. \A j \in 2 .. Len(c) + 1 : r[j] = c[j - 1]
    <3>. SUFFICES ASSUME NEW j \in 2 .. Len(c) + 1 PROVE r[j] = c[j - 1]
      OBVIOUS
    <3>1. j \in 1 .. 1 + Len(c) /\ ~(j <= 1)
      BY <2>2
    <3>. QED
      BY <2>1, <2>3, <3>1
  <2>5. r[1] = e
    <3>1. 1 \in 1 .. 1 + Len(c) /\ 1 <= 1
      BY <2>2
    <3>. QED
      BY <2>1, <2>3, <3>1
  <2>. QED
    BY <2>1, <2>2, <2>3, <2>4, <2>5 DEF ChainSeqs
<1>6. PICK data : data = [h.data EXCEPT ![i] = r]
  OBVIOUS
<1>7. /\ data \in [0 .. h.slots - 1 -> ChainSeqs]
      /\ data[i] = r
      /\ \A x \in 0 .. h.slots - 1 : x # i => data[x] = h.data[x]
  BY <1>1, <1>5, <1>6
<1>8. PICK g : g = [slots |-> h.slots, count |-> h.count + 1, data |-> data]
  OBVIOUS
<1>9. Table!Pushed(h, <<key, v>>) = g
  <2>1. Table!Index(h, <<key, v>>[1]) = i /\ Table!Chain(h, <<key, v>>[1]) = c
    BY Zenon, <1>2, <1>3
  <2>2. Table!Pushed(h, <<key, v>>) =
            [Table!WithChain(h, i, <<<<key, v>>>> \o c) EXCEPT !.count = h.count + 1]
    BY Zenon, <2>1 DEF Table!Pushed
  <2>3. Table!WithChain(h, i, <<<<key, v>>>> \o c) = [h EXCEPT !.data[i] = r]
    BY Zenon, <1>3, <1>4 DEF Table!WithChain
  <2>4. PICK x : x = [h EXCEPT !.data[i] = r]
    OBVIOUS
  <2>5. x = [slots |-> h.slots, count |-> h.count, data |-> data]
    BY <1>1, <1>6, <2>4
  <2>6. PICK y : y = [x EXCEPT !.count = h.count + 1]
    OBVIOUS
  <2>7. y = g
    BY <1>8, <2>5, <2>6
  <2>. QED
    BY Zenon, <2>2, <2>3, <2>4, <2>6, <2>7
<1>10. g \in Tables /\ g.slots = h.slots /\ g.count = h.count + 1 /\ g.data = data
  <2>1. h.count + 1 \in Nat
    BY <1>1
  <2>. QED
    BY <1>1, <1>7, <1>8, <2>1, IsTable
<1>11. \A k : Table!Index(g, k) = Table!Index(h, k)
  BY Zenon, <1>10 DEF Table!Index
<1>12. PICK n : n = With(m, key, v)
  OBVIOUS
<1>13. /\ DOMAIN n = DOMAIN m \cup {key} /\ n[key] = v
       /\ \A k \in DOMAIN m : k # key /\ n[k] = m[k]
       /\ IsMap(n)
  <2>1. DOMAIN n = DOMAIN m \cup {key} /\ \A k \in DOMAIN n : n[k] = IF k = key THEN v ELSE m[k]
    BY <1>12 DEF With
  <2>2. IsFiniteSet(DOMAIN n)
    BY <1>1, <2>1, FS_AddElement DEF IsMap
  <2>3. n = [k \in DOMAIN n |-> n[k]]
    BY <1>12 DEF With
  <2>. QED
    BY <1>1, <2>1, <2>2, <2>3 DEF IsMap
<1>14. g.count = Cardinality(DOMAIN n)
  <2>1. Cardinality(DOMAIN n) = Cardinality(DOMAIN m) + 1 /\ h.count = Cardinality(DOMAIN m)
    BY <1>1, <1>13, FS_AddElement DEF IsMap, Maps
  <2>. QED
    BY <1>10, <2>1
<1>15. ASSUME NEW x \in 0 .. g.slots - 1 PROVE ChainOf(g, n, x)
  <2>1. ChainOf(h, m, x) /\ x \in 0 .. h.slots - 1
    BY <1>10 DEF Maps
  <2>2. CASE x # i
    <3>1. g.data[x] = h.data[x]
      BY <1>7, <1>10, <2>1, <2>2
    <3>. QED
      BY Zenon, <1>11, <1>13, <2>1, <3>1 DEF ChainOf
  <2>3. CASE x = i
    <3>1. g.data[x] = r /\ h.data[x] = c
      BY <1>2, <1>7, <1>10, <2>3
    <3>2. \A j \in 1 .. Len(c) : Table!Index(h, c[j][1]) = i /\ c[j][1] \in DOMAIN m /\ c[j][2] = m[c[j][1]]
      BY Zenon, <2>1, <2>3, <3>1 DEF ChainOf
    <3>3. \A j, k \in 1 .. Len(c) : c[j][1] = c[k][1] => j = k
      BY Zenon, <2>1, <3>1 DEF ChainOf
    <3>4. \A j \in 1 .. Len(r) : \/ j = 1 /\ r[j] = e
                                 \/ j - 1 \in 1 .. Len(c) /\ r[j] = c[j - 1]
      BY <1>5
    <3>5. ASSUME NEW j \in 1 .. Len(r)
          PROVE  Table!Index(g, r[j][1]) = x /\ r[j][1] \in DOMAIN n /\ r[j][2] = n[r[j][1]]
      <4>1. CASE r[j] = e
        <5>1. Table!Index(g, key) = x /\ key \in DOMAIN n /\ v = n[key]
          BY Zenon, <1>2, <1>11, <1>13, <2>3
        <5>. QED
          BY Zenon, <1>3, <4>1, <5>1
      <4>2. CASE j - 1 \in 1 .. Len(c) /\ r[j] = c[j - 1]
        <5>1. PICK y \in 1 .. Len(c) : r[j] = c[y]
          BY Zenon, <4>2
        <5>2. Table!Index(h, c[y][1]) = i /\ c[y][1] \in DOMAIN m /\ c[y][2] = m[c[y][1]]
          BY Zenon, <3>2, <5>1
        <5>. QED
          BY Zenon, <1>11, <1>13, <2>3, <5>1, <5>2
      <4>. QED
        BY <3>4, <4>1, <4>2
    <3>6. ASSUME NEW j \in 1 .. Len(r), NEW k \in 1 .. Len(r), r[j][1] = r[k][1] PROVE j = k
      <4>1. \A y \in 1 .. Len(c) : c[y][1] # key
        BY Zenon, <3>2
      <4>2. CASE j = 1 /\ r[j] = e
        BY <1>3, <3>4, <3>6, <4>1, <4>2
      <4>3. CASE j - 1 \in 1 .. Len(c) /\ r[j] = c[j - 1]
        <5>1. ~(r[k] = e)
          BY Zenon, <1>3, <3>6, <4>1, <4>3
        <5>2. k - 1 \in 1 .. Len(c) /\ r[k] = c[k - 1]
          BY <3>4, <5>1
        <5>3. j - 1 = k - 1
          BY Zenon, <3>3, <3>6, <4>3, <5>2
        <5>. QED
          BY <1>5, <5>3
      <4>. QED
        BY <3>4, <4>2, <4>3
    <3>. QED
      BY <3>1, <3>5, <3>6 DEF ChainOf
  <2>. QED
    BY <2>2, <2>3
<1>16. ASSUME NEW k \in DOMAIN n
       PROVE  \E j \in 1 .. Len(Table!Chain(g, k)) : Table!Chain(g, k)[j][1] = k
  <2>1. Table!Chain(g, k) = data[Table!Index(h, k)]
    BY Zenon, <1>10, <1>11 DEF Table!Chain
  <2>2. CASE k = key
    <3>1. Table!Chain(g, k) = r
      BY Zenon, <1>2, <1>7, <2>1, <2>2
    <3>2. 1 \in 1 .. Len(r) /\ r[1][1] = key
      BY <1>3, <1>5
    <3>. QED
      BY Zenon, <2>2, <3>1, <3>2
  <2>3. CASE k # key
    <3>1. k \in DOMAIN m /\ k \in Keys
      BY <1>1, <1>13, <2>3 DEF IsMap
    <3>2. PICK j \in 1 .. Len(Table!Chain(h, k)) : Table!Chain(h, k)[j][1] = k
      BY Zenon, <3>1 DEF Maps
    <3>3. Table!Index(h, k) \in 0 .. h.slots - 1 /\ Table!Chain(h, k) = h.data[Table!Index(h, k)]
      BY <1>1, <3>1, IndexIn
    <3>4. CASE Table!Index(h, k) # i
      BY Zenon, <1>7, <2>1, <3>2, <3>3, <3>4
    <3>5. CASE Table!Index(h, k) = i
      <4>1. Table!Chain(g, k) = r /\ Table!Chain(h, k) = c
        BY Zenon, <1>2, <1>7, <2>1, <3>3, <3>5
      <4>2. PICK y \in 1 .. Len(c) : c[y][1] = k
        BY Zenon, <3>2, <4>1
      <4>3. y + 1 \in 1 .. Len(r) /\ r[y + 1] = c[y]
        <5>1. y + 1 \in 2 .. Len(c) + 1 /\ (y + 1) - 1 = y /\ y + 1 \in 1 .. Len(r)
          BY <1>5
        <5>. QED
          BY <1>5, <5>1
      <4>. QED
        BY Zenon, <4>1, <4>2, <4>3
    <3>. QED
      BY <3>4, <3>5
  <2>. QED
    BY <2>2, <2>3
<1>17. Maps(g, n)
  BY Zenon, <1>10, <1>13, <1>14, <1>15, <1>16 DEF Maps
<1>. QED
  BY <1>9, <1>12, <1>17

\* m with a value is a map again.
LEMMA WithIs ==
    ASSUME NEW m, IsMap(m), NEW key \in Keys, NEW v \in Values
    PROVE  /\ IsMap(With(m, key, v))
           /\ DOMAIN With(m, key, v) = DOMAIN m \cup {key}
           /\ With(m, key, v)[key] = v
           /\ \A k \in DOMAIN m : k # key => With(m, key, v)[k] = m[k]
<1>1. PICK n : n = With(m, key, v)
  OBVIOUS
<1>2. DOMAIN n = DOMAIN m \cup {key} /\ \A k \in DOMAIN n : n[k] = IF k = key THEN v ELSE m[k]
  BY <1>1 DEF With
<1>3. IsFiniteSet(DOMAIN n)
  BY <1>2, FS_AddElement DEF IsMap
<1>4. n = [k \in DOMAIN n |-> n[k]]
  BY <1>1 DEF With
<1>5. IsMap(n)
  BY <1>2, <1>3, <1>4 DEF IsMap
<1>. QED
  BY <1>1, <1>2, <1>5

\* hash_insert puts the new value where the key is (hash.c:96-103).
LEMMA ReplacedMaps ==
    ASSUME NEW h, NEW m, Maps(h, m), NEW key \in Keys, NEW v \in Values,
           NEW j, j = Table!Position(Table!Chain(h, key), key), j # 0
    PROVE  Maps(Table!WithChain(h, Table!Index(h, key), [Table!Chain(h, key) EXCEPT ![j] = <<key, v>>]),
                With(m, key, v))
<1>1. h \in Tables /\ IsMap(m) /\ h.slots \in Nat \ {0} /\ h.count \in Nat
      /\ h.data \in [0 .. h.slots - 1 -> ChainSeqs]
      /\ h = [slots |-> h.slots, count |-> h.count, data |-> h.data]
  BY TableIs DEF Maps
<1>2. PICK c, i : /\ c \in ChainSeqs /\ i \in 0 .. h.slots - 1
                  /\ c = h.data[i] /\ i = Table!Index(h, key) /\ c = Table!Chain(h, key)
  BY <1>1, IndexIn
<1>3. PICK e : e = <<key, v>> /\ e \in Pairs /\ e[1] = key /\ e[2] = v
  <2>1. <<key, v>> \in Pairs /\ <<key, v>>[1] = key /\ <<key, v>>[2] = v
    BY DEF Pairs
  <2>. QED
    BY Zenon, <2>1
<1>4. j \in 1 .. Len(c) /\ c[j][1] = key
  BY <1>2, PositionIs
<1>5. PICK r : r = [c EXCEPT ![j] = e]
  OBVIOUS
<1>6. /\ r \in ChainSeqs /\ Len(r) = Len(c) /\ r[j] = e
      /\ \A x \in 1 .. Len(c) : x # j => r[x] = c[x]
      /\ \A x \in 1 .. Len(c) : r[x][1] = c[x][1]
  <2>1. c \in Seq(Pairs) /\ Len(c) \in Nat /\ DOMAIN c = 1 .. Len(c)
    BY <1>2, ChainIs DEF ChainSeqs
  <2>2. r \in Seq(Pairs) /\ Len(r) = Len(c)
    BY <1>3, <1>4, <1>5, <2>1, ExceptSeq
  <2>3. r[j] = e /\ \A x \in 1 .. Len(c) : x # j => r[x] = c[x]
    BY <1>4, <1>5, <2>1
  <2>4. \A x \in 1 .. Len(c) : r[x][1] = c[x][1]
    BY Zenon, <1>3, <1>4, <2>3
  <2>. QED
    BY <2>2, <2>3, <2>4 DEF ChainSeqs
<1>7. PICK data : data = [h.data EXCEPT ![i] = r]
  OBVIOUS
<1>8. /\ data \in [0 .. h.slots - 1 -> ChainSeqs]
      /\ data[i] = r
      /\ \A x \in 0 .. h.slots - 1 : x # i => data[x] = h.data[x]
  BY <1>1, <1>2, <1>6, <1>7
<1>9. PICK g : g = [slots |-> h.slots, count |-> h.count, data |-> data]
  OBVIOUS
<1>10. Table!WithChain(h, Table!Index(h, key), [Table!Chain(h, key) EXCEPT ![j] = <<key, v>>]) = g
  <2>1. PICK x : x = [h EXCEPT !.data[i] = r]
    OBVIOUS
  <2>a. x = [h EXCEPT !.data = data]
    BY Zenon, <1>7, <2>1
  <2>2. x = g
    BY <1>1, <1>9, <2>a
  <2>3. Table!WithChain(h, i, r) = g
    BY Zenon, <2>1, <2>2 DEF Table!WithChain
  <2>4. [Table!Chain(h, key) EXCEPT ![j] = <<key, v>>] = r
    BY Zenon, <1>2, <1>3, <1>5
  <2>5. Table!Index(h, key) = i
    BY <1>2
  <2>. QED
    BY Zenon, <2>3, <2>4, <2>5
<1>11. g \in Tables /\ g.slots = h.slots /\ g.count = h.count /\ g.data = data
  BY <1>1, <1>8, <1>9, IsTable
<1>12. \A k : Table!Index(g, k) = Table!Index(h, k)
  BY Zenon, <1>11 DEF Table!Index
<1>13. \A x \in 0 .. h.slots - 1 : ChainOf(h, m, x)
  BY Zenon DEF Maps
<1>a. ChainOf(h, m, i) /\ c = h.data[i]
  BY Zenon, <1>2, <1>13
<1>14. \A x \in 1 .. Len(c) : Table!Index(h, c[x][1]) = i /\ c[x][1] \in DOMAIN m /\ c[x][2] = m[c[x][1]]
  BY <1>a DEF ChainOf
<1>15. \A x, y \in 1 .. Len(c) : c[x][1] = c[y][1] => x = y
  BY <1>a DEF ChainOf
<1>16. PICK n : n = With(m, key, v)
  OBVIOUS
<1>17. /\ DOMAIN n = DOMAIN m /\ n[key] = v /\ key \in DOMAIN m
       /\ \A k \in DOMAIN m : k # key => n[k] = m[k]
       /\ IsMap(n)
  <2>1. key \in DOMAIN m
    BY Zenon, <1>4, <1>14
  <2>2. DOMAIN m \cup {key} = DOMAIN m
    BY <2>1
  <2>3. IsMap(m)
    BY <1>1
  <2>4. /\ IsMap(With(m, key, v))
        /\ DOMAIN With(m, key, v) = DOMAIN m \cup {key}
        /\ With(m, key, v)[key] = v
        /\ \A k \in DOMAIN m : k # key => With(m, key, v)[k] = m[k]
    BY <2>3, WithIs
  <2>. QED
    BY Zenon, <1>16, <2>1, <2>2, <2>4
<1>18. g.count = Cardinality(DOMAIN n)
  BY Zenon, <1>11, <1>17 DEF Maps
<1>19. ASSUME NEW x \in 0 .. g.slots - 1 PROVE ChainOf(g, n, x)
  <2>1. ChainOf(h, m, x) /\ x \in 0 .. h.slots - 1
    BY <1>11, <1>13
  <2>2. CASE x # i
    <3>1. g.data[x] = h.data[x]
      BY <1>8, <1>11, <2>1, <2>2
    <3>2. \A y \in 1 .. Len(h.data[x]) : h.data[x][y][1] # key
      <4>1. \A y \in 1 .. Len(h.data[x]) : Table!Index(h, h.data[x][y][1]) = x
        BY <2>1 DEF ChainOf
      <4>2. Table!Index(h, key) # x
        BY <1>2, <2>2
      <4>. QED
        BY Zenon, <4>1, <4>2
    <3>3. ASSUME NEW y \in 1 .. Len(g.data[x])
          PROVE  /\ Table!Index(g, g.data[x][y][1]) = x
                 /\ g.data[x][y][1] \in DOMAIN n /\ g.data[x][y][2] = n[g.data[x][y][1]]
      <4>1. /\ Table!Index(h, h.data[x][y][1]) = x
            /\ h.data[x][y][1] \in DOMAIN m /\ h.data[x][y][2] = m[h.data[x][y][1]]
        BY <2>1, <3>1 DEF ChainOf
      <4>. QED
        BY Zenon, <1>12, <1>17, <3>1, <3>2, <4>1
    <3>4. \A y, z \in 1 .. Len(g.data[x]) : g.data[x][y][1] = g.data[x][z][1] => y = z
      BY <2>1, <3>1 DEF ChainOf
    <3>. QED
      BY <3>3, <3>4 DEF ChainOf
  <2>3. CASE x = i
    <3>1. g.data[x] = r
      BY <1>8, <1>11, <2>3
    <3>2. ASSUME NEW y \in 1 .. Len(r)
          PROVE  Table!Index(g, r[y][1]) = x /\ r[y][1] \in DOMAIN n /\ r[y][2] = n[r[y][1]]
      <4>1. y \in 1 .. Len(c) /\ r[y][1] = c[y][1]
        BY Zenon, <1>6
      <4>2. Table!Index(g, r[y][1]) = x /\ r[y][1] \in DOMAIN n
        BY Zenon, <1>12, <1>14, <1>17, <2>3, <4>1
      <4>3. CASE y = j
        BY Zenon, <1>3, <1>6, <1>17, <4>2, <4>3
      <4>4. CASE y # j
        <5>1. r[y] = c[y] /\ c[y][1] # key
          BY Zenon, <1>4, <1>6, <1>15, <4>1, <4>4
        <5>. QED
          BY Zenon, <1>14, <1>17, <4>1, <4>2, <5>1
      <4>. QED
        BY <4>3, <4>4
    <3>3. \A y, z \in 1 .. Len(r) : r[y][1] = r[z][1] => y = z
      BY Zenon, <1>6, <1>15
    <3>. QED
      BY Zenon, <3>1, <3>2, <3>3 DEF ChainOf
  <2>. QED
    BY <2>2, <2>3
<1>20. ASSUME NEW k \in DOMAIN n
       PROVE  \E y \in 1 .. Len(Table!Chain(g, k)) : Table!Chain(g, k)[y][1] = k
  <2>1. Table!Chain(g, k) = data[Table!Index(h, k)]
    BY Zenon, <1>11, <1>12 DEF Table!Chain
  <2>2. k \in DOMAIN m /\ k \in Keys
    BY <1>1, <1>17 DEF IsMap
  <2>3. PICK y \in 1 .. Len(Table!Chain(h, k)) : Table!Chain(h, k)[y][1] = k
    BY Zenon, <2>2 DEF Maps
  <2>4. Table!Index(h, k) \in 0 .. h.slots - 1 /\ Table!Chain(h, k) = h.data[Table!Index(h, k)]
    BY <1>1, <2>2, IndexIn
  <2>5. CASE Table!Index(h, k) # i
    BY Zenon, <1>8, <2>1, <2>3, <2>4, <2>5
  <2>6. CASE Table!Index(h, k) = i
    <3>0. c = h.data[i] /\ data[i] = r
      BY <1>2, <1>8
    <3>1. Table!Chain(g, k) = r /\ Table!Chain(h, k) = c
      BY Zenon, <2>1, <2>4, <2>6, <3>0
    <3>2. y \in 1 .. Len(r) /\ r[y][1] = k
      BY Zenon, <1>6, <2>3, <3>1
    <3>. QED
      BY Zenon, <3>1, <3>2
  <2>. QED
    BY <2>5, <2>6
<1>21. Maps(g, n)
  BY Zenon, <1>11, <1>17, <1>18, <1>19, <1>20 DEF Maps
<1>. QED
  BY Zenon, <1>10, <1>16, <1>21

\* hash_insert, once there is room, puts an entry into the map
\* (hash.c:93-119).
LEMMA InsertedMaps ==
    ASSUME NEW h, NEW m, Maps(h, m), NEW key \in Keys, NEW v \in Values
    PROVE  Maps(Table!Inserted(h, <<key, v>>), With(m, key, v))
<1>1. PICK j : j = Table!Position(Table!Chain(h, key), key)
  OBVIOUS
<1>2. <<key, v>>[1] = key
  OBVIOUS
<1>3. Table!Inserted(h, <<key, v>>) =
          IF j # 0 THEN Table!WithChain(h, Table!Index(h, key), [Table!Chain(h, key) EXCEPT ![j] = <<key, v>>])
          ELSE Table!Pushed(h, <<key, v>>)
  BY Zenon, <1>1, <1>2 DEF Table!Inserted
<1>4. CASE j # 0
  BY Zenon, <1>1, <1>3, <1>4, ReplacedMaps
<1>5. CASE j = 0
  <2>1. PICK c \in ChainSeqs : c = Table!Chain(h, key)
    BY IndexIn DEF Maps
  <2>a. Table!Position(c, key) = 0
    BY Zenon, <1>1, <1>5, <2>1
  <2>b. c \in ChainSeqs /\ 0 \notin 1 .. Len(c)
    BY <2>1, ChainIs
  <2>2. \A y \in 1 .. Len(c) : c[y][1] # key
    BY Zenon, <2>a, <2>b, PositionIs
  <2>3. key \notin DOMAIN m
    BY Zenon, <2>1, <2>2 DEF Maps
  <2>. QED
    BY Zenon, <1>3, <1>5, <2>3, PushedMaps
<1>. QED
  BY <1>4, <1>5

\* next_power ends, with a positive number (hash.c:8-20).
LEMMA PowerIs ==
    ASSUME NEW size \in Nat
    PROVE  Table!next_power(size) \in Nat \ {0}
<1>. DEFINE NN == [Nat -> Nat]
            E(f) == [i \in Nat |-> IF i >= size THEN i ELSE f[2 * i]]
            a == [i \in Nat |-> IF i >= size THEN i ELSE 0]
            F == [kx \in Nat \X NN |-> E(kx[2])]
<1>1. \A f \in NN : E(f) \in NN
  <2>. SUFFICES ASSUME NEW f \in NN PROVE E(f) \in NN
    OBVIOUS
  <2>1. \A i \in Nat : (IF i >= size THEN i ELSE f[2 * i]) \in Nat
    OBVIOUS
  <2>. QED
    BY <2>1
<1>2. a \in NN
  OBVIOUS
<1>3. F \in Rules(NN)
  <2>. HIDE DEF E, NN
  <2>1. \A kx \in Nat \X NN : E(kx[2]) \in NN
    BY <1>1
  <2>. QED
    BY <2>1 DEF Rules
<1>4. PICK w : w \in [Nat -> NN] /\ w[0] = a /\ \A k \in Nat : w[k + 1] = F[<<k, w[k]>>]
  <2>. HIDE DEF F, NN, a
  <2>1. \E w \in Runs(NN) : w[0] = a /\ \A k \in Nat : w[k + 1] = F[<<k, w[k]>>]
    BY <1>2, <1>3, Recursion
  <2>. QED
    BY Zenon, <2>1 DEF Runs
<1>5. \A k \in Nat : w[k] \in NN /\ w[k + 1] = E(w[k])
  <2>. SUFFICES ASSUME NEW k \in Nat PROVE w[k] \in NN /\ w[k + 1] = E(w[k])
    OBVIOUS
  <2>. HIDE DEF NN, E
  <2>1. w[k] \in NN
    BY <1>4
  <2>2. <<k, w[k]>> \in Nat \X NN /\ <<k, w[k]>>[2] = w[k]
    BY <2>1
  <2>3. F[<<k, w[k]>>] = E(w[k])
    BY <2>2
  <2>. QED
    BY <1>4, <2>1, <2>3
<1>6. \A k, i \in Nat : w[k + 1][i] = IF i >= size THEN i ELSE w[k][2 * i]
  BY <1>5
<1>7. \A i \in Nat : w[0][i] = IF i >= size THEN i ELSE 0
  BY <1>4
<1>. HIDE DEF E, F, a, NN
<1>8. \A k \in Nat : w[k][0] = 0
  <2>. DEFINE S == {k \in Nat : w[k][0] = 0}
  <2>1. 0 \in S
    BY <1>7
  <2>2. ASSUME NEW k \in Nat, k \in S PROVE k + 1 \in S
    <3>1. w[k + 1][0] = IF 0 >= size THEN 0 ELSE w[k][2 * 0]
      BY <1>6
    <3>2. w[k][0] = 0 /\ 2 * 0 = 0 /\ k + 1 \in Nat
      BY <2>2
    <3>. QED
      BY <3>1, <3>2
  <2>. HIDE DEF S
  <2>3. Nat \subseteq S
    BY <2>1, <2>2, Induct
  <2>. QED
    BY <2>3 DEF S
<1>9. \A k \in Nat : \A i \in Nat : i # 0 /\ i + k >= size => w[k + 1][i] = w[k][i]
  <2>. DEFINE S == {k \in Nat : \A i \in Nat : i # 0 /\ i + k >= size => w[k + 1][i] = w[k][i]}
  <2>1. 0 \in S
    <3>. SUFFICES ASSUME NEW i \in Nat, i >= size PROVE w[0 + 1][i] = w[0][i]
      OBVIOUS
    <3>. QED
      BY <1>6, <1>7
  <2>2. ASSUME NEW k \in Nat, k \in S PROVE k + 1 \in S
    <3>. SUFFICES ASSUME NEW i \in Nat, i # 0, i + (k + 1) >= size PROVE w[(k + 1) + 1][i] = w[k + 1][i]
      OBVIOUS
    <3>1. CASE i >= size
      BY <1>6, <3>1
    <3>2. CASE ~(i >= size)
      <4>1. w[(k + 1) + 1][i] = w[k + 1][2 * i] /\ w[k + 1][i] = w[k][2 * i]
        BY <1>6, <3>2
      <4>2. 2 * i \in Nat /\ 2 * i # 0 /\ 2 * i + k >= size
        OBVIOUS
      <4>3. w[k + 1][2 * i] = w[k][2 * i]
        BY <2>2, <4>2
      <4>. QED
        BY <4>1, <4>3
    <3>. QED
      BY <3>1, <3>2
  <2>. HIDE DEF S
  <2>3. Nat \subseteq S
    BY <2>1, <2>2, Induct
  <2>. QED
    BY <2>3 DEF S
<1>10. w[size] = E(w[size])
  <2>1. \A i \in Nat : w[size + 1][i] = w[size][i]
    <3>. SUFFICES ASSUME NEW i \in Nat PROVE w[size + 1][i] = w[size][i]
      OBVIOUS
    <3>1. CASE i = 0
      BY <1>8, <3>1
    <3>2. CASE i # 0
      BY <1>9, <3>2
    <3>. QED
      BY <3>1, <3>2
  <2>2. w[size] \in NN /\ w[size + 1] \in NN
    BY <1>5
  <2>3. w[size + 1] = w[size]
    BY <2>1, <2>2 DEF NN
  <2>. QED
    BY <1>5, <2>3
<1>11. PICK up : up = E(up) /\ Table!next_power(size) = up[HASH_INIT_SLOTS]
  <2>1. \E up : up = E(up)
    BY Zenon, <1>10
  <2>. QED
    BY Zenon, <2>1 DEF Table!next_power, E
<1>12. \A i \in Nat : up[i] = IF i >= size THEN i ELSE up[2 * i]
  BY <1>11 DEF E
<1>13. \A k \in Nat : \A i \in Nat : i # 0 /\ i + k >= size => up[i] \in Nat \ {0}
  <2>. DEFINE S == {k \in Nat : \A i \in Nat : i # 0 /\ i + k >= size => up[i] \in Nat \ {0}}
  <2>1. 0 \in S
    <3>. SUFFICES ASSUME NEW i \in Nat, i # 0, i >= size PROVE up[i] \in Nat \ {0}
      OBVIOUS
    <3>. QED
      BY <1>12
  <2>2. ASSUME NEW k \in Nat, k \in S PROVE k + 1 \in S
    <3>. SUFFICES ASSUME NEW i \in Nat, i # 0, i + (k + 1) >= size PROVE up[i] \in Nat \ {0}
      OBVIOUS
    <3>1. CASE i >= size
      BY <1>12, <3>1
    <3>2. CASE ~(i >= size)
      <4>1. 2 * i \in Nat /\ 2 * i # 0 /\ 2 * i + k >= size
        OBVIOUS
      <4>. QED
        BY <1>12, <2>2, <3>2, <4>1
    <3>. QED
      BY <3>1, <3>2
  <2>. HIDE DEF S
  <2>3. Nat \subseteq S
    BY <2>1, <2>2, Induct
  <2>. QED
    BY <2>3 DEF S
<1>14. HASH_INIT_SLOTS \in Nat /\ HASH_INIT_SLOTS # 0
  BY StructuresAssumption DEF Table!HashAssumption
<1>. QED
  BY <1>11, <1>13, <1>14

\* A new table is empty (hash.c:68-79).
LEMMA NewMaps ==
    ASSUME NEW size \in Nat, NEW m, IsMap(m), DOMAIN m = {}
    PROVE  Maps(Table!hash_init(size), m)
<1>1. PICK n \in Nat \ {0} : n = Table!next_power(size)
  BY PowerIs
<1>2. PICK data : data = [i \in 0 .. n - 1 |-> <<>>]
  OBVIOUS
<1>3. data \in [0 .. n - 1 -> ChainSeqs]
  <2>1. <<>> \in ChainSeqs
    BY DEF ChainSeqs
  <2>. QED
    BY <1>2, <2>1
<1>4. PICK h : h = [slots |-> n, count |-> 0, data |-> data]
  OBVIOUS
<1>5. Table!hash_init(size) = h
  BY Zenon, <1>1, <1>2, <1>4 DEF Table!hash_init
<1>6. h \in Tables /\ h.slots = n /\ h.count = 0 /\ h.data = data
  <2>1. 0 \in Nat
    OBVIOUS
  <2>. QED
    BY <1>3, <1>4, <2>1, IsTable
<1>7. h.count = Cardinality(DOMAIN m)
  BY <1>6, FS_EmptySet
<1>8. ASSUME NEW i \in 0 .. h.slots - 1 PROVE ChainOf(h, m, i)
  <2>1. h.data[i] = <<>>
    BY <1>2, <1>6
  <2>2. 1 .. Len(<<>>) = {}
    OBVIOUS
  <2>3. 1 .. Len(h.data[i]) = {}
    BY Zenon, <2>1, <2>2
  <2>. QED
    BY <2>3 DEF ChainOf
<1>9. Maps(h, m)
  BY Zenon, <1>6, <1>7, <1>8 DEF Maps
<1>. QED
  BY <1>5, <1>9

\* x has the entries of the first i chains of h, of each key once.
Gathers(h, m, i, x) ==
    /\ x \in ChainSeqs
    /\ \A j \in 1 .. Len(x) : /\ Table!Index(h, x[j][1]) \in 0 .. i - 1
                              /\ x[j][1] \in DOMAIN m /\ x[j][2] = m[x[j][1]]
    /\ \A j, k \in 1 .. Len(x) : x[j][1] = x[k][1] => j = k
    /\ \A key \in DOMAIN m : Table!Index(h, key) \in 0 .. i - 1 =>
          \E j \in 1 .. Len(x) : x[j][1] = key

\* One chain after the other (hash.c:184-196).
LEMMA GathersNext ==
    ASSUME NEW h, NEW m, Maps(h, m), NEW i \in 0 .. h.slots - 1, NEW x, Gathers(h, m, i, x)
    PROVE  Gathers(h, m, i + 1, x \o h.data[i])
<1>1. h \in Tables /\ IsMap(m) /\ h.slots \in Nat \ {0}
      /\ h.data \in [0 .. h.slots - 1 -> ChainSeqs]
  BY TableIs DEF Maps
<1>2. PICK c \in ChainSeqs : c = h.data[i]
  BY <1>1
<1>3. ChainOf(h, m, i) /\ x \in ChainSeqs
  BY DEF Maps, Gathers
<1>4. PICK a \in Nat, b \in Nat : a = Len(x) /\ b = Len(c)
  BY <1>2, <1>3, ChainIs
<1>5. PICK y : y = x \o c
  OBVIOUS
<1>6. /\ y \in ChainSeqs /\ Len(y) = a + b
      /\ \A j \in 1 .. a + b : y[j] = IF j <= a THEN x[j] ELSE c[j - a]
  BY <1>2, <1>3, <1>4, <1>5, ConcatProperties DEF ChainSeqs
<1>7. \A j \in 1 .. a : /\ Table!Index(h, x[j][1]) \in 0 .. i - 1
                        /\ x[j][1] \in DOMAIN m /\ x[j][2] = m[x[j][1]]
  BY <1>4 DEF Gathers
<1>8. \A j, k \in 1 .. a : x[j][1] = x[k][1] => j = k
  BY <1>4 DEF Gathers
<1>9. \A j \in 1 .. b : Table!Index(h, c[j][1]) = i /\ c[j][1] \in DOMAIN m /\ c[j][2] = m[c[j][1]]
  BY <1>2, <1>3, <1>4 DEF ChainOf
<1>10. \A j, k \in 1 .. b : c[j][1] = c[k][1] => j = k
  BY <1>2, <1>3, <1>4 DEF ChainOf
<1>11. i \in Nat /\ (i + 1) - 1 = i /\ 0 .. i - 1 \subseteq 0 .. i /\ i \in 0 .. i /\ i \notin 0 .. i - 1
  BY <1>1
<1>12. \A j \in 1 .. a + b : \/ j \in 1 .. a /\ y[j] = x[j]
                             \/ j - a \in 1 .. b /\ y[j] = c[j - a]
  BY <1>6
<1>13. ASSUME NEW j \in 1 .. a + b
       PROVE  /\ Table!Index(h, y[j][1]) \in 0 .. i
              /\ y[j][1] \in DOMAIN m /\ y[j][2] = m[y[j][1]]
  <2>1. CASE j \in 1 .. a /\ y[j] = x[j]
    BY Zenon, <1>7, <1>11, <2>1
  <2>2. CASE j - a \in 1 .. b /\ y[j] = c[j - a]
    <3>1. PICK k \in 1 .. b : y[j] = c[k]
      BY Zenon, <2>2
    <3>. QED
      BY Zenon, <1>9, <1>11, <3>1
  <2>. QED
    BY <1>12, <2>1, <2>2
<1>14. ASSUME NEW j \in 1 .. a + b, NEW k \in 1 .. a + b, y[j][1] = y[k][1] PROVE j = k
  <2>1. \A u \in 1 .. a, v \in 1 .. b : x[u][1] # c[v][1]
    BY Zenon, <1>7, <1>9, <1>11
  <2>2. CASE j \in 1 .. a /\ y[j] = x[j]
    <3>1. CASE k \in 1 .. a /\ y[k] = x[k]
      BY Zenon, <1>8, <1>14, <2>2, <3>1
    <3>2. CASE k - a \in 1 .. b /\ y[k] = c[k - a]
      <4>1. PICK v \in 1 .. b : y[k] = c[v]
        BY Zenon, <3>2
      <4>. QED
        BY Zenon, <1>14, <2>1, <2>2, <4>1
    <3>. QED
      BY <1>12, <3>1, <3>2
  <2>3. CASE j - a \in 1 .. b /\ y[j] = c[j - a]
    <3>1. CASE k \in 1 .. a /\ y[k] = x[k]
      <4>1. PICK v \in 1 .. b : y[j] = c[v]
        BY Zenon, <2>3
      <4>. QED
        BY Zenon, <1>14, <2>1, <3>1, <4>1
    <3>2. CASE k - a \in 1 .. b /\ y[k] = c[k - a]
      <4>1. j - a = k - a
        BY Zenon, <1>10, <1>14, <2>3, <3>2
      <4>. QED
        BY <4>1
    <3>. QED
      BY <1>12, <3>1, <3>2
  <2>. QED
    BY <1>12, <2>2, <2>3
<1>15. ASSUME NEW key \in DOMAIN m, Table!Index(h, key) \in 0 .. i
       PROVE  \E j \in 1 .. a + b : y[j][1] = key
  <2>1. CASE Table!Index(h, key) \in 0 .. i - 1
    <3>1. PICK j \in 1 .. a : x[j][1] = key
      BY <1>4, <2>1 DEF Gathers
    <3>2. j \in 1 .. a + b /\ y[j] = x[j]
      BY <1>6
    <3>. QED
      BY Zenon, <3>1, <3>2
  <2>2. CASE Table!Index(h, key) \notin 0 .. i - 1
    <3>1. Table!Index(h, key) = i
      BY <1>11, <1>15, <2>2
    <3>2. Table!Chain(h, key) = c
      BY Zenon, <1>2, <3>1 DEF Table!Chain
    <3>3. \E j \in 1 .. Len(Table!Chain(h, key)) : Table!Chain(h, key)[j][1] = key
      BY DEF Maps
    <3>4. PICK j \in 1 .. b : c[j][1] = key
      BY Zenon, <1>4, <3>2, <3>3
    <3>5. j + a \in 1 .. a + b /\ y[j + a] = c[j]
      <4>1. j + a \in 1 .. a + b /\ ~(j + a <= a) /\ (j + a) - a = j
        OBVIOUS
      <4>. QED
        BY <1>6, <4>1
    <3>. QED
      BY Zenon, <3>4, <3>5
  <2>. QED
    BY <2>1, <2>2
<1>16. Gathers(h, m, i + 1, y)
  BY Zenon, <1>6, <1>11, <1>13, <1>14, <1>15 DEF Gathers
<1>. QED
  BY <1>2, <1>5, <1>16

\* es has every entry of m once.
Lists(es, m) ==
    /\ es \in ChainSeqs
    /\ \A j \in 1 .. Len(es) : es[j][1] \in DOMAIN m /\ es[j][2] = m[es[j][1]]
    /\ \A j, k \in 1 .. Len(es) : es[j][1] = es[k][1] => j = k
    /\ \A key \in DOMAIN m : \E j \in 1 .. Len(es) : es[j][1] = key

\* A traversal meets every entry, and each once (hash.c:175-199, 296-331).
LEMMA EntriesAre ==
    ASSUME NEW h, NEW m, Maps(h, m), NEW es, es = Table!Entries(h)
    PROVE  Lists(es, m) /\ Len(es) = h.count
<1>1. h \in Tables /\ IsMap(m) /\ h.slots \in Nat \ {0}
      /\ h.data \in [0 .. h.slots - 1 -> ChainSeqs]
  BY TableIs DEF Maps
<1>2. PICK n \in Nat \ {0} : n = h.slots
  BY <1>1
<1>3. PICK s1 : s1 = [i \in 1 .. n |-> h.data[i - 1]]
  OBVIOUS
<1>4. /\ s1 \in Seq(ChainSeqs) /\ Len(s1) = n
      /\ \A i \in 1 .. n : s1[i] = h.data[i - 1] /\ s1[i] \in ChainSeqs
  <2>1. \A i \in 1 .. n : i - 1 \in 0 .. n - 1
    BY <1>2
  <2>2. s1 \in [1 .. n -> ChainSeqs]
    BY <1>1, <1>2, <1>3, <2>1
  <2>3. s1 \in Seq(ChainSeqs)
    BY <2>2, IsASeq
  <2>4. DOMAIN s1 = 1 .. Len(s1) /\ Len(s1) \in Nat
    BY <2>3, LenProperties
  <2>5. Len(s1) = n
    BY <2>2, <2>3
  <2>. QED
    BY <1>3, <2>2, <2>3, <2>5
<1>. DEFINE Rest(k) == IF k + 2 <= n THEN s1[k + 2] ELSE <<>>
            F == [kx \in Nat \X ChainSeqs |-> kx[2] \o Rest(kx[1])]
            E(w) == [i \in 1 .. Len(s1) |-> IF i = 1 THEN s1[i] ELSE w[i - 1] \o s1[i]]
<1>5. \A k \in Nat : Rest(k) \in ChainSeqs
  <2>. SUFFICES ASSUME NEW k \in Nat PROVE Rest(k) \in ChainSeqs
    OBVIOUS
  <2>1. <<>> \in ChainSeqs
    BY DEF ChainSeqs
  <2>2. k + 2 <= n => k + 2 \in 1 .. n
    OBVIOUS
  <2>. QED
    BY <1>4, <2>1, <2>2
<1>6. F \in Rules(ChainSeqs)
  <2>. HIDE DEF Rest
  <2>1. \A kx \in Nat \X ChainSeqs : kx[2] \o Rest(kx[1]) \in ChainSeqs
    BY <1>5, ConcatProperties DEF ChainSeqs
  <2>. QED
    BY <2>1 DEF Rules
<1>7. PICK w : w \in [Nat -> ChainSeqs] /\ w[0] = s1[1] /\ \A k \in Nat : w[k + 1] = F[<<k, w[k]>>]
  <2>. HIDE DEF F
  <2>1. s1[1] \in ChainSeqs
    BY <1>4
  <2>2. \E w \in Runs(ChainSeqs) : w[0] = s1[1] /\ \A k \in Nat : w[k + 1] = F[<<k, w[k]>>]
    BY <1>6, <2>1, Recursion
  <2>. QED
    BY Zenon, <2>2 DEF Runs
<1>8. \A k \in Nat : w[k + 1] = w[k] \o Rest(k)
  <2>. SUFFICES ASSUME NEW k \in Nat PROVE w[k + 1] = w[k] \o Rest(k)
    OBVIOUS
  <2>. HIDE DEF Rest
  <2>1. <<k, w[k]>> \in Nat \X ChainSeqs /\ <<k, w[k]>>[1] = k /\ <<k, w[k]>>[2] = w[k]
    BY <1>7
  <2>2. F[<<k, w[k]>>] = w[k] \o Rest(k)
    BY Zenon, <2>1
  <2>. QED
    BY <1>7, <2>2
<1>. HIDE DEF F
<1>. DEFINE ww == [i \in 1 .. n |-> w[i - 1]]
<1>9. ww = E(ww)
  <2>1. ASSUME NEW i \in 1 .. n PROVE w[i - 1] = IF i = 1 THEN s1[i] ELSE ww[i - 1] \o s1[i]
    <3>1. CASE i = 1
      BY <1>7, <3>1
    <3>2. CASE i # 1
      <4>1. PICK k \in Nat : k = i - 2
        BY <3>2
      <4>2. k + 2 = i /\ k + 1 = i - 1 /\ k + 2 <= n /\ i - 1 \in 1 .. n /\ (i - 1) - 1 = k
        BY <3>2, <4>1
      <4>3. w[k + 1] = w[k] \o s1[k + 2]
        BY <1>8, <4>2
      <4>4. ww[i - 1] = w[k]
        BY <4>2
      <4>. HIDE DEF ww
      <4>. QED
        BY Zenon, <3>2, <4>2, <4>3, <4>4
    <3>. QED
      BY <3>1, <3>2
  <2>2. Len(s1) = n
    BY <1>4
  <2>. QED
    BY Zenon, <2>1, <2>2
<1>. HIDE DEF ww
<1>10. PICK u : u = E(u) /\ Table!FlattenSeq(s1) = u[n]
  <2>1. \E u : u = E(u)
    BY Zenon, <1>9
  <2>2. Len(s1) # 0 /\ Len(s1) = n
    BY <1>4
  <2>. QED
    BY Zenon, <2>1, <2>2 DEF Table!FlattenSeq, E
<1>11. u[1] = h.data[0]
  <2>1. 1 \in 1 .. n /\ 1 - 1 = 0 /\ Len(s1) = n
    BY <1>4
  <2>. QED
    BY <1>4, <1>10, <2>1
<1>12. \A i \in 1 .. n - 1 : u[i + 1] = u[i] \o h.data[i]
  <2>. SUFFICES ASSUME NEW i \in 1 .. n - 1 PROVE u[i + 1] = u[i] \o h.data[i]
    OBVIOUS
  <2>1. i + 1 \in 1 .. n /\ i + 1 # 1 /\ (i + 1) - 1 = i /\ Len(s1) = n
    BY <1>4
  <2>2. u[i + 1] = u[i] \o s1[i + 1]
    BY <1>10, <2>1
  <2>. QED
    BY <1>4, <2>1, <2>2
<1>. HIDE DEF E
<1>13. \A i \in 1 .. n : Gathers(h, m, i, u[i])
  <2>. DEFINE S == {k \in Nat : k + 1 <= n => Gathers(h, m, k + 1, u[k + 1])}
  <2>1. 0 \in S
    <3>1. Gathers(h, m, 0, <<>>)
      <4>1. <<>> \in ChainSeqs /\ 1 .. Len(<<>>) = {} /\ 0 .. 0 - 1 = {}
        BY DEF ChainSeqs
      <4>. QED
        BY <4>1 DEF Gathers
    <3>2. 0 \in 0 .. h.slots - 1
      BY <1>1
    <3>3. Gathers(h, m, 0 + 1, <<>> \o h.data[0])
      BY <3>1, <3>2, GathersNext
    <3>4. <<>> \o h.data[0] = h.data[0]
      <4>1. h.data[0] \in Seq(Pairs)
        BY <1>1, <3>2 DEF ChainSeqs
      <4>. QED
        BY <4>1, ConcatEmptySeq
    <3>. QED
      BY <1>11, <3>3, <3>4
  <2>2. ASSUME NEW k \in Nat, k \in S PROVE k + 1 \in S
    <3>. SUFFICES ASSUME (k + 1) + 1 <= n PROVE Gathers(h, m, (k + 1) + 1, u[(k + 1) + 1])
      OBVIOUS
    <3>1. k + 1 \in 1 .. n - 1 /\ k + 1 \in 0 .. h.slots - 1 /\ k + 1 <= n
      BY <1>2
    <3>2. Gathers(h, m, k + 1, u[k + 1])
      BY <2>2, <3>1
    <3>3. Gathers(h, m, (k + 1) + 1, u[k + 1] \o h.data[k + 1])
      BY <3>1, <3>2, GathersNext
    <3>. QED
      BY <1>12, <3>1, <3>3
  <2>. HIDE DEF S
  <2>3. Nat \subseteq S
    BY <2>1, <2>2, Induct
  <2>. SUFFICES ASSUME NEW i \in 1 .. n PROVE Gathers(h, m, i, u[i])
    OBVIOUS
  <2>4. i - 1 \in Nat /\ (i - 1) + 1 = i /\ i <= n
    OBVIOUS
  <2>. QED
    BY <2>3, <2>4 DEF S
<1>14. Gathers(h, m, n, es)
  <2>1. n \in 1 .. n
    OBVIOUS
  <2>2. Table!Entries(h) = Table!FlattenSeq(s1)
    BY Zenon, <1>2, <1>3 DEF Table!Entries
  <2>. QED
    BY <1>10, <1>13, <2>1, <2>2
<1>15. /\ es \in ChainSeqs
       /\ \A j \in 1 .. Len(es) : es[j][1] \in DOMAIN m /\ es[j][2] = m[es[j][1]]
       /\ \A j, k \in 1 .. Len(es) : es[j][1] = es[k][1] => j = k
  BY <1>14 DEF Gathers
<1>16. \A key \in DOMAIN m : \E j \in 1 .. Len(es) : es[j][1] = key
  <2>. SUFFICES ASSUME NEW key \in DOMAIN m PROVE \E j \in 1 .. Len(es) : es[j][1] = key
    OBVIOUS
  <2>1. Table!Index(h, key) \in 0 .. n - 1
    BY <1>1, <1>2, IndexIn DEF IsMap
  <2>. QED
    BY <1>14, <2>1 DEF Gathers
<1>17. Len(es) = h.count
  <2>1. PICK L \in Nat : L = Len(es)
    BY <1>15, ChainIs
  <2>2. PICK f : f = [j \in 1 .. L |-> es[j][1]]
    OBVIOUS
  <2>3. f \in Bijection(1 .. L, DOMAIN m)
    <3>1. f \in [1 .. L -> DOMAIN m] /\ \A j, k \in 1 .. L : f[j] = f[k] => j = k
      BY <1>15, <2>1, <2>2
    <3>2. \A key \in DOMAIN m : \E j \in 1 .. L : f[j] = key
      BY <1>16, <2>1, <2>2
    <3>. QED
      BY Zenon, <3>1, <3>2 DEF Bijection, Injection, Surjection, IsInjective
  <2>4. IsFiniteSet(1 .. L) /\ Cardinality(1 .. L) = L
    BY FS_Interval
  <2>5. Cardinality(DOMAIN m) = L
    <3>1. ExistsBijection(1 .. L, DOMAIN m)
      BY Zenon, <2>3 DEF ExistsBijection
    <3>. QED
      BY <2>4, <3>1, FS_Bijection
  <2>. QED
    BY <2>1, <2>5 DEF Maps
<1>. QED
  BY Zenon, <1>15, <1>16, <1>17 DEF Lists

\* The map of the first k entries of es, which are of m.
Part(m, es, k) == [x \in {es[j][1] : j \in 1 .. k} |-> m[x]]

\* The entries of a table, one more each time, until they are its map.
LEMMA PartIs ==
    ASSUME NEW h, NEW m, Maps(h, m), NEW es, es = Table!Entries(h), NEW L \in Nat, L = Len(es)
    PROVE  /\ DOMAIN Part(m, es, 0) = {} /\ Part(m, es, L) = m
           /\ \A k \in 0 .. L : IsMap(Part(m, es, k))
           /\ \A k \in Nat : k < L =>
                 /\ es[k + 1] = <<es[k + 1][1], es[k + 1][2]>>
                 /\ es[k + 1][1] \in Keys /\ es[k + 1][2] \in Values
                 /\ es[k + 1][1] \notin DOMAIN Part(m, es, k)
                 /\ With(Part(m, es, k), es[k + 1][1], es[k + 1][2]) = Part(m, es, k + 1)
<1>1. IsMap(m)
  BY DEF Maps
<1>2. /\ es \in ChainSeqs
      /\ \A j \in 1 .. L : es[j][1] \in DOMAIN m /\ es[j][2] = m[es[j][1]]
      /\ \A j, k \in 1 .. L : es[j][1] = es[k][1] => j = k
      /\ \A key \in DOMAIN m : \E j \in 1 .. L : es[j][1] = key
  <2>1. Lists(es, m)
    BY EntriesAre
  <2>. QED
    BY Zenon, <2>1 DEF Lists
<1>3. \A j \in 1 .. L : /\ es[j][1] \in Keys /\ es[j][2] \in Values
                        /\ es[j] = <<es[j][1], es[j][2]>>
  <2>1. \A j \in 1 .. Len(es) : /\ es[j][1] \in Keys /\ es[j][2] \in Values
                                /\ es[j] = <<es[j][1], es[j][2]>>
    BY <1>2, ChainIs
  <2>. QED
    BY Zenon, <2>1
<1>4. \A k : /\ DOMAIN Part(m, es, k) = {es[j][1] : j \in 1 .. k}
             /\ \A x \in {es[j][1] : j \in 1 .. k} : Part(m, es, k)[x] = m[x]
             /\ Part(m, es, k) = [x \in DOMAIN Part(m, es, k) |-> Part(m, es, k)[x]]
  BY DEF Part
<1>5. DOMAIN Part(m, es, 0) = {}
  <2>1. 1 .. 0 = {}
    OBVIOUS
  <2>. QED
    BY <1>4, <2>1
<1>6. Part(m, es, L) = m
  <2>1. {es[j][1] : j \in 1 .. L} = DOMAIN m
    <3>1. ASSUME NEW x \in {es[j][1] : j \in 1 .. L} PROVE x \in DOMAIN m
      BY <1>2
    <3>2. ASSUME NEW x \in DOMAIN m PROVE x \in {es[j][1] : j \in 1 .. L}
      <4>1. PICK j \in 1 .. L : es[j][1] = x
        BY <1>2
      <4>. QED
        BY <4>1
    <3>. QED
      BY Zenon, <3>1, <3>2
  <2>2. Part(m, es, L) = [x \in DOMAIN m |-> m[x]]
    BY Zenon, <2>1 DEF Part
  <2>. QED
    BY Zenon, <1>1, <2>2 DEF IsMap
<1>7. ASSUME NEW k \in 0 .. L PROVE IsMap(Part(m, es, k))
  <2>1. PICK n : n = Part(m, es, k)
    OBVIOUS
  <2>2. {es[j][1] : j \in 1 .. k} \subseteq DOMAIN m
    BY <1>2
  <2>3. DOMAIN n \subseteq DOMAIN m /\ \A x \in DOMAIN n : n[x] = m[x]
    BY <1>4, <2>1, <2>2
  <2>4. n = [x \in DOMAIN n |-> n[x]]
    BY Zenon, <1>4, <2>1
  <2>5. IsFiniteSet(DOMAIN n)
    BY <1>1, <2>3, FS_Subset DEF IsMap
  <2>6. DOMAIN n \subseteq Keys /\ \A x \in DOMAIN n : n[x] \in Values
    BY <1>1, <2>3 DEF IsMap
  <2>. QED
    BY Zenon, <2>1, <2>4, <2>5, <2>6 DEF IsMap
<1>8. ASSUME NEW k \in Nat, k < L
      PROVE  /\ es[k + 1] = <<es[k + 1][1], es[k + 1][2]>>
             /\ es[k + 1][1] \in Keys /\ es[k + 1][2] \in Values
             /\ es[k + 1][1] \notin DOMAIN Part(m, es, k)
             /\ With(Part(m, es, k), es[k + 1][1], es[k + 1][2]) = Part(m, es, k + 1)
  <2>1. /\ k + 1 \in 1 .. L /\ \A j \in 1 .. k : j # k + 1 /\ j \in 1 .. L
        /\ 1 .. k + 1 = (1 .. k) \cup {k + 1}
    BY <1>8
  <2>2. PICK i \in 1 .. L : i = k + 1
    BY <2>1
  <2>3. \A j \in 1 .. k : es[j][1] # es[i][1]
    BY Zenon, <1>2, <2>1, <2>2
  <2>4. es[i][1] \notin {es[j][1] : j \in 1 .. k}
    BY Zenon, <2>3
  <2>5. {es[j][1] : j \in 1 .. k + 1} = {es[j][1] : j \in 1 .. k} \cup {es[i][1]}
    BY Zenon, <2>1, <2>2
  <2>6. PICK D : D = {es[j][1] : j \in 1 .. k}
    OBVIOUS
  <2>7. Part(m, es, k) = [x \in D |-> m[x]]
        /\ Part(m, es, k + 1) = [x \in D \cup {es[i][1]} |-> m[x]]
    BY Zenon, <2>5, <2>6 DEF Part
  <2>8. DOMAIN Part(m, es, k) = D /\ \A x \in D : Part(m, es, k)[x] = m[x]
    BY <1>4, <2>6
  <2>9. With(Part(m, es, k), es[i][1], es[i][2]) =
            [x \in D \cup {es[i][1]} |-> IF x = es[i][1] THEN es[i][2] ELSE Part(m, es, k)[x]]
    BY Zenon, <2>8 DEF With
  <2>10. \A x \in D \cup {es[i][1]} :
            (IF x = es[i][1] THEN es[i][2] ELSE Part(m, es, k)[x]) = m[x]
    BY <1>2, <2>8
  <2>11. With(Part(m, es, k), es[i][1], es[i][2]) = Part(m, es, k + 1)
    BY Z3, <2>7, <2>9, <2>10
  <2>12. es[i] = <<es[i][1], es[i][2]>> /\ es[i][1] \in Keys /\ es[i][2] \in Values
    BY Zenon, <1>3
  <2>. QED
    BY Zenon, <2>2, <2>4, <2>6, <2>8, <2>11, <2>12
<1>. QED
  BY Zenon, <1>5, <1>6, <1>7, <1>8

\* Tables that take over the entries one by one.
LEMMA CollectedMaps ==
    ASSUME NEW h, NEW m, Maps(h, m), NEW es, es = Table!Entries(h), NEW L \in Nat, L = Len(es),
           NEW g, Maps(g[0], Part(m, es, 0)),
           \A k \in Nat : k < L /\ Maps(g[k], Part(m, es, k)) =>
               Maps(g[k + 1], With(Part(m, es, k), es[k + 1][1], es[k + 1][2]))
    PROVE  \A k \in Nat : k <= L => Maps(g[k], Part(m, es, k))
<1>. DEFINE S == {k \in Nat : k <= L => Maps(g[k], Part(m, es, k))}
<1>1. 0 \in S
  OBVIOUS
<1>2. ASSUME NEW k \in Nat, k \in S PROVE k + 1 \in S
  <2>1. CASE k < L
    <3>1. Maps(g[k], Part(m, es, k))
      BY <1>2, <2>1
    <3>2. Maps(g[k + 1], With(Part(m, es, k), es[k + 1][1], es[k + 1][2]))
      BY <2>1, <3>1
    <3>3. With(Part(m, es, k), es[k + 1][1], es[k + 1][2]) = Part(m, es, k + 1)
      BY <2>1, PartIs
    <3>4. Maps(g[k + 1], Part(m, es, k + 1)) /\ k + 1 \in Nat
      BY <3>2, <3>3
    <3>. QED
      BY <3>4
  <2>2. CASE ~(k < L)
    <3>1. k + 1 \in Nat /\ ~(k + 1 <= L)
      BY <2>2
    <3>. QED
      BY <3>1
  <2>. QED
    BY <2>1, <2>2
<1>3. Nat \subseteq S
  <2>. HIDE DEF S
  <2>. QED
    BY <1>1, <1>2, Induct
<1>. QED
  BY <1>3

\* hash_resize keeps the map (hash.c:221-251).
LEMMA ResizedMaps ==
    ASSUME NEW h, NEW m, Maps(h, m)
    PROVE  Maps(Table!Resized(h), m)
<1>1. PICK es : es = Table!Entries(h)
  OBVIOUS
<1>2. PICK L \in Nat : L = Len(es)
  BY <1>1, EntriesAre, ChainIs DEF Lists
<1>. DEFINE E(u) == [n \in 0 .. L |-> IF n = 0 THEN Table!hash_init(h.slots * 2)
                                     ELSE Table!Pushed(u[n - 1], es[n])]
            F == [kx \in Nat \X Tables |->
                    IF kx[1] < L /\ Table!Pushed(kx[2], es[kx[1] + 1]) \in Tables
                    THEN Table!Pushed(kx[2], es[kx[1] + 1]) ELSE kx[2]]
<1>3. Maps(Table!hash_init(h.slots * 2), Part(m, es, 0))
  <2>1. h.slots \in Nat \ {0}
    BY TableIs DEF Maps
  <2>2. h.slots * 2 \in Nat /\ 0 \in 0 .. L
    BY <2>1
  <2>3. IsMap(Part(m, es, 0)) /\ DOMAIN Part(m, es, 0) = {}
    BY <1>1, <1>2, <2>2, PartIs
  <2>. QED
    BY <2>2, <2>3, NewMaps
<1>4. ASSUME NEW k \in Nat, k < L, NEW x, Maps(x, Part(m, es, k))
      PROVE  Maps(Table!Pushed(x, es[k + 1]), With(Part(m, es, k), es[k + 1][1], es[k + 1][2]))
  <2>1. /\ es[k + 1] = <<es[k + 1][1], es[k + 1][2]>>
        /\ es[k + 1][1] \in Keys /\ es[k + 1][2] \in Values
        /\ es[k + 1][1] \notin DOMAIN Part(m, es, k)
    BY <1>1, <1>2, <1>4, PartIs
  <2>2. Maps(Table!Pushed(x, <<es[k + 1][1], es[k + 1][2]>>),
             With(Part(m, es, k), es[k + 1][1], es[k + 1][2]))
    BY <1>4, <2>1, PushedMaps
  <2>. QED
    BY Zenon, <2>1, <2>2
<1>5. PICK w : /\ w \in [Nat -> Tables] /\ w[0] = Table!hash_init(h.slots * 2)
               /\ \A k \in Nat : w[k + 1] = F[<<k, w[k]>>]
  <2>1. F \in Rules(Tables)
    BY Zenon DEF Rules
  <2>2. Table!hash_init(h.slots * 2) \in Tables
    BY <1>3 DEF Maps
  <2>. HIDE DEF F
  <2>3. \E r \in Runs(Tables) : r[0] = Table!hash_init(h.slots * 2)
                                /\ \A k \in Nat : r[k + 1] = F[<<k, r[k]>>]
    BY <2>1, <2>2, Recursion
  <2>. QED
    BY Zenon, <2>3 DEF Runs
<1>6. ASSUME NEW k \in Nat, k < L, Maps(w[k], Part(m, es, k))
      PROVE  w[k + 1] = Table!Pushed(w[k], es[k + 1])
  <2>1. Table!Pushed(w[k], es[k + 1]) \in Tables
    BY <1>4, <1>6 DEF Maps
  <2>2. w[k] \in Tables
    BY <1>5
  <2>3. <<k, w[k]>> \in Nat \X Tables /\ <<k, w[k]>>[1] = k /\ <<k, w[k]>>[2] = w[k]
    BY <2>2
  <2>4. F[<<k, w[k]>>] = Table!Pushed(w[k], es[k + 1])
    BY Zenon, <1>6, <2>1, <2>3
  <2>. QED
    BY <1>5, <2>4
<1>. HIDE DEF F
<1>7. \A k \in Nat : k <= L => Maps(w[k], Part(m, es, k))
  <2>1. \A k \in Nat : k < L /\ Maps(w[k], Part(m, es, k)) =>
            Maps(w[k + 1], With(Part(m, es, k), es[k + 1][1], es[k + 1][2]))
    BY Zenon, <1>4, <1>6
  <2>2. Maps(w[0], Part(m, es, 0))
    BY <1>3, <1>5
  <2>. QED
    BY <1>1, <1>2, <2>1, <2>2, CollectedMaps
<1>. DEFINE ww == [n \in 0 .. L |-> w[n]]
<1>8. ww = E(ww)
  <2>1. ASSUME NEW n \in 0 .. L
        PROVE  w[n] = IF n = 0 THEN Table!hash_init(h.slots * 2) ELSE Table!Pushed(ww[n - 1], es[n])
    <3>1. CASE n = 0
      BY <1>5, <3>1
    <3>2. CASE n # 0
      <4>1. PICK k \in Nat : k = n - 1
        BY <3>2
      <4>2. k + 1 = n /\ k < L /\ k <= L /\ k \in 0 .. L
        BY <4>1
      <4>3. w[k + 1] = Table!Pushed(w[k], es[k + 1])
        BY <1>6, <1>7, <4>2
      <4>4. ww[k] = w[k]
        BY <4>2
      <4>. HIDE DEF ww
      <4>. QED
        BY Zenon, <3>2, <4>1, <4>2, <4>3, <4>4
    <3>. QED
      BY <3>1, <3>2
  <2>. QED
    BY Zenon, <2>1
<1>. HIDE DEF ww
<1>9. PICK u : u = E(u) /\ Table!Resized(h) = u[L]
  <2>1. \E u : u = E(u)
    BY Zenon, <1>8
  <2>. QED
    BY Zenon, <1>1, <1>2, <2>1 DEF Table!Resized, E
<1>10. u[0] = Table!hash_init(h.slots * 2) /\ \A k \in Nat : k < L => u[k + 1] = Table!Pushed(u[k], es[k + 1])
  <2>1. 0 \in 0 .. L /\ \A k \in Nat : k < L => k + 1 \in 0 .. L /\ k + 1 # 0 /\ (k + 1) - 1 = k
    OBVIOUS
  <2>2. \A n \in 0 .. L : u[n] = IF n = 0 THEN Table!hash_init(h.slots * 2)
                                     ELSE Table!Pushed(u[n - 1], es[n])
    BY Zenon, <1>9
  <2>3. u[0] = Table!hash_init(h.slots * 2)
    BY Zenon, <2>1, <2>2
  <2>4. ASSUME NEW k \in Nat, k < L PROVE u[k + 1] = Table!Pushed(u[k], es[k + 1])
    BY Zenon, <2>1, <2>2, <2>4
  <2>. QED
    BY <2>3, <2>4
<1>. HIDE DEF E
<1>11. \A k \in Nat : k <= L => Maps(u[k], Part(m, es, k))
  <2>1. \A k \in Nat : k < L /\ Maps(u[k], Part(m, es, k)) =>
            Maps(u[k + 1], With(Part(m, es, k), es[k + 1][1], es[k + 1][2]))
    BY Zenon, <1>4, <1>10
  <2>2. Maps(u[0], Part(m, es, 0))
    BY <1>3, <1>10
  <2>. QED
    BY <1>1, <1>2, <2>1, <2>2, CollectedMaps
<1>12. Part(m, es, L) = m /\ L <= L
  BY <1>1, <1>2, PartIs
<1>. QED
  BY <1>9, <1>11, <1>12

\* hash_insert puts an entry into the map (hash.c:82-119).
LEMMA InsertMaps ==
    ASSUME NEW h, NEW m, Maps(h, m), NEW key \in Keys, NEW v \in Values
    PROVE  Maps(Table!hash_insert(h, <<key, v>>), With(m, key, v))
<1>1. PICK g : g = IF Table!Full(h) THEN Table!Resized(h) ELSE h
  OBVIOUS
<1>2. Maps(g, m)
  BY Zenon, <1>1, ResizedMaps
<1>3. Maps(Table!Inserted(g, <<key, v>>), With(m, key, v))
  BY <1>2, InsertedMaps
<1>. QED
  BY Zenon, <1>1, <1>3 DEF Table!hash_insert

\* The table h is a part of the map m, and all of it.
Copies(h, m, all) ==
    \E keys \in SUBSET DOMAIN m :
        /\ Maps(h, Table!Restrict(m, keys))
        /\ all => keys = DOMAIN m

\* hash_dup makes a table of the entries that are copied (hash.c:254-269).
LEMMA DupMaps ==
    ASSUME NEW h, NEW m, Maps(h, m), NEW n \in 0 .. Len(Table!Entries(h))
    PROVE  Copies(Table!Dup(h, n), m, n = Len(Table!Entries(h)))
<1>1. PICK es : es = Table!Entries(h)
  OBVIOUS
<1>2. PICK L \in Nat : L = Len(es)
  BY <1>1, EntriesAre, ChainIs DEF Lists
<1>. DEFINE E(u) == [k \in 0 .. L |-> IF k = 0 THEN Table!hash_init(h.slots)
                                     ELSE Table!hash_insert(u[k - 1], es[k])]
            F == [kx \in Nat \X Tables |->
                    IF kx[1] < L /\ Table!hash_insert(kx[2], es[kx[1] + 1]) \in Tables
                    THEN Table!hash_insert(kx[2], es[kx[1] + 1]) ELSE kx[2]]
<1>3. Maps(Table!hash_init(h.slots), Part(m, es, 0))
  <2>1. h.slots \in Nat \ {0}
    BY TableIs DEF Maps
  <2>2. h.slots \in Nat /\ 0 \in 0 .. L
    BY <2>1
  <2>3. IsMap(Part(m, es, 0)) /\ DOMAIN Part(m, es, 0) = {}
    BY <1>1, <1>2, <2>2, PartIs
  <2>. QED
    BY <2>2, <2>3, NewMaps
<1>4. ASSUME NEW k \in Nat, k < L, NEW x, Maps(x, Part(m, es, k))
      PROVE  Maps(Table!hash_insert(x, es[k + 1]), With(Part(m, es, k), es[k + 1][1], es[k + 1][2]))
  <2>1. /\ es[k + 1] = <<es[k + 1][1], es[k + 1][2]>>
        /\ es[k + 1][1] \in Keys /\ es[k + 1][2] \in Values
    BY <1>1, <1>2, <1>4, PartIs
  <2>2. Maps(Table!hash_insert(x, <<es[k + 1][1], es[k + 1][2]>>),
             With(Part(m, es, k), es[k + 1][1], es[k + 1][2]))
    BY <1>4, <2>1, InsertMaps
  <2>. QED
    BY Zenon, <2>1, <2>2
<1>5. PICK w : /\ w \in [Nat -> Tables] /\ w[0] = Table!hash_init(h.slots)
               /\ \A k \in Nat : w[k + 1] = F[<<k, w[k]>>]
  <2>1. F \in Rules(Tables)
    BY Zenon DEF Rules
  <2>2. Table!hash_init(h.slots) \in Tables
    BY <1>3 DEF Maps
  <2>. HIDE DEF F
  <2>3. \E r \in Runs(Tables) : r[0] = Table!hash_init(h.slots)
                                /\ \A k \in Nat : r[k + 1] = F[<<k, r[k]>>]
    BY <2>1, <2>2, Recursion
  <2>. QED
    BY Zenon, <2>3 DEF Runs
<1>6. ASSUME NEW k \in Nat, k < L, Maps(w[k], Part(m, es, k))
      PROVE  w[k + 1] = Table!hash_insert(w[k], es[k + 1])
  <2>1. Table!hash_insert(w[k], es[k + 1]) \in Tables
    BY <1>4, <1>6 DEF Maps
  <2>2. w[k] \in Tables
    BY <1>5
  <2>3. <<k, w[k]>> \in Nat \X Tables /\ <<k, w[k]>>[1] = k /\ <<k, w[k]>>[2] = w[k]
    BY <2>2
  <2>4. F[<<k, w[k]>>] = Table!hash_insert(w[k], es[k + 1])
    BY Zenon, <1>6, <2>1, <2>3
  <2>. QED
    BY <1>5, <2>4
<1>. HIDE DEF F
<1>7. \A k \in Nat : k <= L => Maps(w[k], Part(m, es, k))
  <2>1. \A k \in Nat : k < L /\ Maps(w[k], Part(m, es, k)) =>
            Maps(w[k + 1], With(Part(m, es, k), es[k + 1][1], es[k + 1][2]))
    BY Zenon, <1>4, <1>6
  <2>2. Maps(w[0], Part(m, es, 0))
    BY <1>3, <1>5
  <2>. QED
    BY <1>1, <1>2, <2>1, <2>2, CollectedMaps
<1>. DEFINE ww == [k \in 0 .. L |-> w[k]]
<1>8. ww = E(ww)
  <2>1. ASSUME NEW j \in 0 .. L
        PROVE  w[j] = IF j = 0 THEN Table!hash_init(h.slots) ELSE Table!hash_insert(ww[j - 1], es[j])
    <3>1. CASE j = 0
      BY <1>5, <3>1
    <3>2. CASE j # 0
      <4>1. PICK k \in Nat : k = j - 1
        BY <3>2
      <4>2. k + 1 = j /\ k < L /\ k <= L /\ k \in 0 .. L
        BY <4>1
      <4>3. w[k + 1] = Table!hash_insert(w[k], es[k + 1])
        BY <1>6, <1>7, <4>2
      <4>4. ww[k] = w[k]
        BY <4>2
      <4>. HIDE DEF ww
      <4>. QED
        BY Zenon, <3>2, <4>1, <4>2, <4>3, <4>4
    <3>. QED
      BY <3>1, <3>2
  <2>. QED
    BY Zenon, <2>1
<1>. HIDE DEF ww
<1>9. PICK u : u = E(u) /\ Table!Dup(h, n) = u[n]
  <2>1. \E u : u = E(u)
    BY Zenon, <1>8
  <2>. QED
    BY Zenon, <1>1, <1>2, <2>1 DEF Table!Dup, E
<1>10. u[0] = Table!hash_init(h.slots) /\ \A k \in Nat : k < L => u[k + 1] = Table!hash_insert(u[k], es[k + 1])
  <2>1. 0 \in 0 .. L /\ \A k \in Nat : k < L => k + 1 \in 0 .. L /\ k + 1 # 0 /\ (k + 1) - 1 = k
    OBVIOUS
  <2>2. \A j \in 0 .. L : u[j] = IF j = 0 THEN Table!hash_init(h.slots)
                                     ELSE Table!hash_insert(u[j - 1], es[j])
    BY Zenon, <1>9
  <2>3. u[0] = Table!hash_init(h.slots)
    BY Zenon, <2>1, <2>2
  <2>4. ASSUME NEW k \in Nat, k < L PROVE u[k + 1] = Table!hash_insert(u[k], es[k + 1])
    BY Zenon, <2>1, <2>2, <2>4
  <2>. QED
    BY <2>3, <2>4
<1>. HIDE DEF E
<1>11. \A k \in Nat : k <= L => Maps(u[k], Part(m, es, k))
  <2>1. \A k \in Nat : k < L /\ Maps(u[k], Part(m, es, k)) =>
            Maps(u[k + 1], With(Part(m, es, k), es[k + 1][1], es[k + 1][2]))
    BY Zenon, <1>4, <1>10
  <2>2. Maps(u[0], Part(m, es, 0))
    BY <1>3, <1>10
  <2>. QED
    BY <1>1, <1>2, <2>1, <2>2, CollectedMaps
<1>12. n \in 0 .. L /\ n <= L /\ n \in Nat
  BY <1>1, <1>2
<1>13. Maps(Table!Dup(h, n), Part(m, es, n))
  BY Zenon, <1>9, <1>11, <1>12
<1>14. PICK keys : keys = {es[j][1] : j \in 1 .. n}
  OBVIOUS
<1>15. Part(m, es, n) = Table!Restrict(m, keys) /\ DOMAIN Part(m, es, n) = keys
  BY Zenon, <1>14 DEF Part, Table!Restrict
<1>16. keys \in SUBSET DOMAIN m
  <2>1. \A j \in 1 .. L : es[j][1] \in DOMAIN m
    BY Zenon, <1>1, <1>2, EntriesAre DEF Lists
  <2>2. \A j \in 1 .. n : j \in 1 .. L
    BY <1>12
  <2>. QED
    BY Zenon, <1>14, <2>1, <2>2
<1>17. n = L => keys = DOMAIN m
  <2>1. Part(m, es, L) = m
    BY <1>1, <1>2, PartIs
  <2>. QED
    BY Zenon, <1>15, <2>1
<1>. QED
  BY Zenon, <1>1, <1>2, <1>13, <1>15, <1>16, <1>17 DEF Copies

\* m without a key.
Without(m, key) == Table!Restrict(m, DOMAIN m \ {key})

\* hash_delete takes the key's entry out of its chain (hash.c:139-172).
LEMMA DeletedMaps ==
    ASSUME NEW h, NEW m, Maps(h, m), NEW key \in Keys,
           NEW j, j = Table!Position(Table!Chain(h, key), key), j # 0,
           NEW tb, tb = Table!WithChain(h, Table!Index(h, key), Table!RemoveAt(Table!Chain(h, key), j))
    PROVE  Maps([tb EXCEPT !.count = @ - 1], Without(m, key))
<1>1. h \in Tables /\ IsMap(m) /\ h.slots \in Nat \ {0} /\ h.count \in Nat
      /\ h.data \in [0 .. h.slots - 1 -> ChainSeqs]
      /\ h = [slots |-> h.slots, count |-> h.count, data |-> h.data]
  BY TableIs DEF Maps
<1>2. PICK c, i : /\ c \in ChainSeqs /\ i \in 0 .. h.slots - 1
                  /\ c = h.data[i] /\ i = Table!Index(h, key) /\ c = Table!Chain(h, key)
  BY <1>1, IndexIn
<1>3. j \in 1 .. Len(c) /\ c[j][1] = key
  BY <1>2, PositionIs
<1>4. PICK r : r = Table!RemoveAt(c, j)
  OBVIOUS
<1>5. PICK L \in Nat : L = Len(c) /\ j \in 1 .. L
  BY <1>2, <1>3, ChainIs
<1>6. /\ r \in ChainSeqs /\ Len(r) = L - 1
      /\ \A x \in 1 .. L - 1 : r[x] = IF x < j THEN c[x] ELSE c[x + 1]
  <2>1. PICK q : q = SubSeq(c, 1, j - 1) \o SubSeq(c, j + 1, Len(c))
    OBVIOUS
  <2>2. /\ q \in Seq(Pairs) /\ Len(q) = Len(c) - 1
        /\ \A x \in 1 .. Len(q) : q[x] = IF x < j THEN c[x] ELSE c[x + 1]
    <3>1. c \in Seq(Pairs)
      BY <1>2 DEF ChainSeqs
    <3>. QED
      BY <1>3, <2>1, <3>1, DroppedIs
  <2>3. q = r
    BY Zenon, <1>4, <2>1 DEF Table!RemoveAt
  <2>. QED
    BY <1>5, <2>2, <2>3 DEF ChainSeqs
<1>7. PICK data : data = [h.data EXCEPT ![i] = r]
  OBVIOUS
<1>8. /\ data \in [0 .. h.slots - 1 -> ChainSeqs]
      /\ data[i] = r
      /\ \A x \in 0 .. h.slots - 1 : x # i => data[x] = h.data[x]
  BY <1>1, <1>2, <1>6, <1>7
<1>a. PICK g : g = [slots |-> h.slots, count |-> h.count - 1, data |-> data]
  OBVIOUS
<1>9. [tb EXCEPT !.count = @ - 1] = g
  <2>1. tb = [h EXCEPT !.data[i] = r]
    BY Zenon, <1>2, <1>4 DEF Table!WithChain
  <2>2. tb = [h EXCEPT !.data = data]
    BY Zenon, <1>7, <2>1
  <2>3. tb = [slots |-> h.slots, count |-> h.count, data |-> data]
    BY <1>1, <2>2
  <2>. QED
    BY <1>a, <2>3
<1>10. \A x \in 0 .. h.slots - 1 : ChainOf(h, m, x)
  BY Zenon DEF Maps
<1>11. ChainOf(h, m, i)
  BY Zenon, <1>2, <1>10
<1>12. \A x \in 1 .. L : Table!Index(h, c[x][1]) = i /\ c[x][1] \in DOMAIN m /\ c[x][2] = m[c[x][1]]
  BY <1>2, <1>5, <1>11 DEF ChainOf
<1>13. \A x, y \in 1 .. L : c[x][1] = c[y][1] => x = y
  BY <1>2, <1>5, <1>11 DEF ChainOf
<1>14. key \in DOMAIN m
  BY Zenon, <1>3, <1>5, <1>12
<1>15. PICK n : n = Without(m, key)
  OBVIOUS
<1>16. /\ DOMAIN n = DOMAIN m \ {key}
       /\ \A k \in DOMAIN m : k # key => n[k] = m[k]
       /\ n = [k \in DOMAIN n |-> n[k]]
  <2>1. n = [k \in DOMAIN m \ {key} |-> m[k]]
    BY Zenon, <1>15 DEF Without, Table!Restrict
  <2>. QED
    BY <2>1
<1>17. IsFiniteSet(DOMAIN n) /\ Cardinality(DOMAIN n) = Cardinality(DOMAIN m) - 1
  BY <1>1, <1>14, <1>16, FS_RemoveElement DEF IsMap
<1>18. IsMap(n)
  <2>1. DOMAIN n \subseteq Keys /\ \A k \in DOMAIN n : n[k] \in Values
    BY <1>1, <1>16 DEF IsMap
  <2>. QED
    BY Zenon, <1>16, <1>17, <2>1 DEF IsMap
<1>19. h.count = Cardinality(DOMAIN m) /\ Cardinality(DOMAIN n) \in Nat
  BY <1>17, FS_CardinalityType DEF Maps
<1>20. g \in Tables /\ g.slots = h.slots /\ g.count = Cardinality(DOMAIN n) /\ g.data = data
  <2>1. h.count - 1 = Cardinality(DOMAIN n) /\ h.count - 1 \in Nat
    BY <1>17, <1>19
  <2>2. PICK t \in Nat : t = h.count - 1
    BY <2>1
  <2>3. g = [slots |-> h.slots, count |-> t, data |-> data]
    BY <1>a, <2>2
  <2>4. [slots |-> h.slots, count |-> t, data |-> data] \in Tables
    BY <1>1, <1>8, IsTable
  <2>5. g.slots = h.slots /\ g.count = t /\ g.data = data
    BY <2>3
  <2>. QED
    BY Zenon, <2>1, <2>2, <2>3, <2>4, <2>5
<1>21. \A k : Table!Index(g, k) = Table!Index(h, k)
  BY Zenon, <1>20 DEF Table!Index
<1>22. ASSUME NEW x \in 1 .. L - 1
       PROVE  \E y \in 1 .. L : r[x] = c[y] /\ y # j /\ y = IF x < j THEN x ELSE x + 1
  <2>1. CASE x < j
    BY <1>5, <1>6, <2>1
  <2>2. CASE ~(x < j)
    <3>1. x + 1 \in 1 .. L /\ x + 1 # j
      BY <1>5, <2>2
    <3>. QED
      BY <1>6, <2>2, <3>1
  <2>. QED
    BY <2>1, <2>2
<1>23. ASSUME NEW y \in 1 .. L, y # j PROVE \E x \in 1 .. L - 1 : r[x] = c[y]
  <2>1. CASE y < j
    <3>1. y \in 1 .. L - 1
      BY <1>5, <2>1
    <3>. QED
      BY <1>6, <2>1, <3>1
  <2>2. CASE ~(y < j)
    <3>1. y - 1 \in 1 .. L - 1 /\ ~(y - 1 < j) /\ (y - 1) + 1 = y
      BY <1>5, <1>23, <2>2
    <3>. QED
      BY <1>6, <3>1
  <2>. QED
    BY <2>1, <2>2
<1>24. ASSUME NEW x \in 0 .. g.slots - 1 PROVE ChainOf(g, n, x)
  <2>1. ChainOf(h, m, x) /\ x \in 0 .. h.slots - 1
    BY <1>10, <1>20
  <2>2. CASE x # i
    <3>1. g.data[x] = h.data[x]
      BY <1>8, <1>20, <2>1, <2>2
    <3>2. \A y \in 1 .. Len(h.data[x]) : h.data[x][y][1] # key
      BY Zenon, <1>2, <2>1, <2>2 DEF ChainOf
    <3>3. \A y \in 1 .. Len(h.data[x]) :
              h.data[x][y][1] \in DOMAIN n /\ n[h.data[x][y][1]] = m[h.data[x][y][1]]
      <4>1. \A y \in 1 .. Len(h.data[x]) : h.data[x][y][1] \in DOMAIN m
        BY Zenon, <2>1 DEF ChainOf
      <4>. QED
        BY <1>16, <3>2, <4>1
    <3>4. PICK d : d = h.data[x]
      OBVIOUS
    <3>5. /\ \A y \in 1 .. Len(d) : Table!Index(h, d[y][1]) = x /\ d[y][2] = m[d[y][1]]
          /\ \A y, z \in 1 .. Len(d) : d[y][1] = d[z][1] => y = z
      BY Zenon, <2>1, <3>4 DEF ChainOf
    <3>6. \A y \in 1 .. Len(d) : /\ Table!Index(g, d[y][1]) = x
                                 /\ d[y][1] \in DOMAIN n /\ d[y][2] = n[d[y][1]]
      BY Zenon, <1>21, <3>3, <3>4, <3>5
    <3>7. g.data[x] = d
      BY Zenon, <3>1, <3>4
    <3>. QED
      BY Zenon, <3>5, <3>6, <3>7 DEF ChainOf
  <2>3. CASE x = i
    <3>1. g.data[x] = r
      BY <1>8, <1>20, <2>3
    <3>2. Len(r) = L - 1
      BY <1>6
    <3>3. ASSUME NEW y \in 1 .. L - 1
          PROVE  Table!Index(g, r[y][1]) = x /\ r[y][1] \in DOMAIN n /\ r[y][2] = n[r[y][1]]
      <4>1. PICK z \in 1 .. L : r[y] = c[z] /\ z # j
        BY <1>22
      <4>2. c[z][1] # key
        BY Zenon, <1>3, <1>5, <1>13, <4>1
      <4>3. PICK k : k = c[z][1] /\ k \in DOMAIN m /\ c[z][2] = m[k] /\ Table!Index(h, k) = i
        BY Zenon, <1>12
      <4>4. k \in DOMAIN n /\ n[k] = m[k]
        BY <1>16, <4>2, <4>3
      <4>. QED
        BY Zenon, <1>21, <2>3, <4>1, <4>3, <4>4
    <3>4. ASSUME NEW y \in 1 .. L - 1, NEW z \in 1 .. L - 1, r[y][1] = r[z][1] PROVE y = z
      <4>1. PICK u \in 1 .. L : r[y] = c[u] /\ u = IF y < j THEN y ELSE y + 1
        BY <1>22
      <4>2. PICK v \in 1 .. L : r[z] = c[v] /\ v = IF z < j THEN z ELSE z + 1
        BY <1>22
      <4>3. u = v
        BY Zenon, <1>13, <3>4, <4>1, <4>2
      <4>4. (IF y < j THEN y ELSE y + 1) = (IF z < j THEN z ELSE z + 1)
        BY Zenon, <4>1, <4>2, <4>3
      <4>. QED
        BY <1>5, <4>4
    <3>. QED
      BY Zenon, <3>1, <3>2, <3>3, <3>4 DEF ChainOf
  <2>. QED
    BY <2>2, <2>3
<1>25. ASSUME NEW k \in DOMAIN n
       PROVE  \E y \in 1 .. Len(Table!Chain(g, k)) : Table!Chain(g, k)[y][1] = k
  <2>1. k \in DOMAIN m /\ k # key /\ k \in Keys
    BY <1>1, <1>16 DEF IsMap
  <2>2. PICK y \in 1 .. Len(Table!Chain(h, k)) : Table!Chain(h, k)[y][1] = k
    BY Zenon, <2>1 DEF Maps
  <2>3. Table!Index(h, k) \in 0 .. h.slots - 1 /\ Table!Chain(h, k) = h.data[Table!Index(h, k)]
    BY <1>1, <2>1, IndexIn
  <2>4. Table!Chain(g, k) = data[Table!Index(h, k)]
    BY Zenon, <1>20, <1>21 DEF Table!Chain
  <2>5. CASE Table!Index(h, k) # i
    <3>1. Table!Chain(g, k) = Table!Chain(h, k)
      BY <1>8, <2>3, <2>4, <2>5
    <3>. QED
      BY Zenon, <2>2, <3>1
  <2>6. CASE Table!Index(h, k) = i
    <3>1. Table!Chain(g, k) = r /\ Table!Chain(h, k) = c
      BY Zenon, <1>2, <1>8, <2>3, <2>4, <2>6
    <3>2. PICK z \in 1 .. L : c[z][1] = k
      BY Zenon, <1>5, <2>2, <3>1
    <3>3. z # j
      BY Zenon, <1>3, <2>1, <3>2
    <3>4. PICK x \in 1 .. L - 1 : r[x] = c[z]
      BY <1>23, <3>3
    <3>. QED
      BY Zenon, <1>6, <3>1, <3>2, <3>4
  <2>. QED
    BY <2>5, <2>6
<1>26. Maps(g, n)
  BY Zenon, <1>18, <1>20, <1>24, <1>25 DEF Maps
<1>. QED
  BY <1>9, <1>15, <1>26

\* Without its entries a table is the empty map.
LEMMA ClearedMaps ==
    ASSUME NEW h, NEW m, Maps(h, m), NEW n, IsMap(n), DOMAIN n = {}
    PROVE  Maps([h EXCEPT !.count = 0, !.data = [i \in DOMAIN h.data |-> <<>>]], n)
<1>1. h \in Tables /\ h.slots \in Nat \ {0}
      /\ h.data \in [0 .. h.slots - 1 -> ChainSeqs]
      /\ h = [slots |-> h.slots, count |-> h.count, data |-> h.data]
  BY TableIs DEF Maps
<1>2. PICK data : data = [i \in 0 .. h.slots - 1 |-> <<>>]
  OBVIOUS
<1>3. data \in [0 .. h.slots - 1 -> ChainSeqs]
  <2>1. <<>> \in ChainSeqs
    BY DEF ChainSeqs
  <2>. QED
    BY <1>2, <2>1
<1>4. PICK g : g = [slots |-> h.slots, count |-> 0, data |-> data]
  OBVIOUS
<1>5. [h EXCEPT !.count = 0, !.data = [i \in DOMAIN h.data |-> <<>>]] = g
  <2>1. DOMAIN h.data = 0 .. h.slots - 1
    BY <1>1
  <2>2. [h EXCEPT !.count = 0, !.data = [i \in DOMAIN h.data |-> <<>>]] = [h EXCEPT !.count = 0, !.data = data]
    BY Zenon, <1>2, <2>1
  <2>3. [h EXCEPT !.count = 0, !.data = data] = g
    <3>1. PICK x : x = [h EXCEPT !.count = 0]
      OBVIOUS
    <3>2. x = [slots |-> h.slots, count |-> 0, data |-> h.data]
      BY <1>1, <3>1
    <3>3. [x EXCEPT !.data = data] = g
      BY <1>4, <3>2
    <3>4. [h EXCEPT !.count = 0, !.data = data] = [x EXCEPT !.data = data]
      BY Zenon, <3>1
    <3>. QED
      BY Zenon, <3>3, <3>4
  <2>. QED
    BY Zenon, <2>2, <2>3
<1>6. g \in Tables /\ g.slots = h.slots /\ g.count = 0 /\ g.data = data
  <2>1. 0 \in Nat
    OBVIOUS
  <2>. QED
    BY <1>1, <1>3, <1>4, <2>1, IsTable
<1>7. g.count = Cardinality(DOMAIN n)
  BY <1>6, FS_EmptySet
<1>8. ASSUME NEW i \in 0 .. g.slots - 1 PROVE ChainOf(g, n, i)
  <2>1. g.data[i] = <<>>
    BY <1>2, <1>6
  <2>2. 1 .. Len(<<>>) = {}
    OBVIOUS
  <2>3. 1 .. Len(g.data[i]) = {}
    BY Zenon, <2>1, <2>2
  <2>. QED
    BY <2>3 DEF ChainOf
<1>9. Maps(g, n)
  BY Zenon, <1>6, <1>7, <1>8 DEF Maps
<1>. QED
  BY Zenon, <1>5, <1>9

\* The table, unless a resize has lost it, is the map, and the copy is what the
\* map was, or a part of that.
HashWell ==
    /\ ht.data # NULL => Maps(ht, map)
    /\ copy # NULL => Copies(copy, copied, whole)

\* The empty sequence, of no keys, is the empty map.
LEMMA EmptyMap == IsMap(<<>>) /\ DOMAIN <<>> = {}
<1>1. DOMAIN <<>> = {}
  OBVIOUS
<1>2. PICK e : e = <<>>
  OBVIOUS
<1>3. e \in Seq(Values) /\ DOMAIN e = {}
  BY <1>1, <1>2
<1>4. e = [k \in DOMAIN e |-> e[k]]
  BY <1>3
<1>5. IsFiniteSet(DOMAIN e)
  BY <1>3, FS_EmptySet
<1>6. DOMAIN e \subseteq Keys /\ \A k \in DOMAIN e : e[k] \in Values
  BY <1>3
<1>7. IsMap(e)
  BY Zenon, <1>4, <1>5, <1>6 DEF IsMap
<1>. QED
  BY Zenon, <1>1, <1>2, <1>7

\* A new table is well.
LEMMA HashInit ==
    ASSUME Table!Init
    PROVE  HashWell
<1>1. HASH_INIT_SLOTS \in Nat
  BY StructuresAssumption DEF Table!HashAssumption
<1>2. ht = Table!hash_init(HASH_INIT_SLOTS) /\ map = <<>> /\ copy = NULL
  BY DEF Table!Init
<1>3. IsMap(map) /\ DOMAIN map = {}
  BY Zenon, <1>2, EmptyMap
<1>4. Maps(Table!hash_init(HASH_INIT_SLOTS), map)
  BY <1>1, <1>3, NewMaps
<1>. QED
  BY Zenon, <1>2, <1>4 DEF HashWell

\* Every operation keeps the table and its copy well.
LEMMA HashStays ==
    ASSUME HashWell, [Table!Next]_hashVars
    PROVE  HashWell'
<1>1. CASE Table!Insert
  <2>1. PICK key \in Keys, v \in Values :
            /\ ht.data # NULL
            /\ ht' = Table!hash_insert(ht, <<key, v>>)
            /\ map' = [k \in DOMAIN map \cup {key} |-> IF k = key THEN v ELSE map[k]]
            /\ UNCHANGED <<copy, copied, whole>>
    BY Zenon, <1>1 DEF Table!Insert, Table!Usable
  <2>2. map' = With(map, key, v)
    BY Zenon, <2>1 DEF With
  <2>3. Maps(ht, map)
    BY <2>1 DEF HashWell
  <2>4. Maps(Table!hash_insert(ht, <<key, v>>), With(map, key, v))
    BY <2>3, InsertMaps
  <2>5. Maps(ht', map')
    BY Zenon, <2>1, <2>2, <2>4 DEF Maps
  <2>6. copy' = copy /\ copied' = copied /\ whole' = whole
    BY <2>1
  <2>. QED
    BY Zenon, <2>5, <2>6 DEF HashWell
<1>2. CASE Table!InsertFails
  <2>1. /\ ht.data # NULL
        /\ copy' = copy /\ map' = map /\ copied' = copied /\ whole' = whole
        /\ \/ ht' = Table!FailedResize(ht)
           \/ ht' = IF Table!Full(ht) THEN Table!Resized(ht) ELSE ht
    BY Zenon, <1>2 DEF Table!InsertFails, Table!Usable
  <2>2. CASE ht' = Table!FailedResize(ht)
    <3>1. ht'.data = NULL
      <4>1. ht' = [slots |-> Table!next_power(ht.slots * 2), count |-> 0, data |-> NULL]
        BY Zenon, <2>2 DEF Table!FailedResize
      <4>. QED
        BY <4>1
    <3>. QED
      BY Zenon, <2>1, <3>1 DEF HashWell
  <2>3. CASE ht' = IF Table!Full(ht) THEN Table!Resized(ht) ELSE ht
    <3>1. Maps(ht, map)
      BY Zenon, <2>1 DEF HashWell
    <3>2. Maps(Table!Resized(ht), map)
      BY <3>1, ResizedMaps
    <3>3. Maps(ht', map')
      BY Zenon, <2>1, <2>3, <3>1, <3>2
    <3>. QED
      BY Zenon, <2>1, <3>3 DEF HashWell
  <2>. QED
    BY Zenon, <2>1, <2>2, <2>3
<1>3. CASE Table!Delete
  <2>1. PICK key \in Keys :
            LET j == Table!Position(Table!Chain(ht, key), key) IN
            /\ ht.data # NULL
            /\ j # 0
            /\ ht' = [Table!WithChain(ht, Table!Index(ht, key), Table!RemoveAt(Table!Chain(ht, key), j))
                        EXCEPT !.count = @ - 1]
            /\ map' = Table!Restrict(map, DOMAIN map \ {key})
            /\ UNCHANGED <<copy, copied, whole>>
    BY Zenon, <1>3 DEF Table!Delete, Table!Usable
  <2>2. PICK j : j = Table!Position(Table!Chain(ht, key), key)
    OBVIOUS
  <2>3. PICK tb : tb = Table!WithChain(ht, Table!Index(ht, key), Table!RemoveAt(Table!Chain(ht, key), j))
    OBVIOUS
  <2>4. j # 0 /\ ht' = [tb EXCEPT !.count = @ - 1] /\ map' = Without(map, key)
    BY Zenon, <2>1, <2>2, <2>3 DEF Without
  <2>5. Maps(ht, map)
    BY Zenon, <2>1 DEF HashWell
  <2>6. Maps([tb EXCEPT !.count = @ - 1], Without(map, key))
    BY Zenon, <2>2, <2>3, <2>4, <2>5, DeletedMaps
  <2>7. Maps(ht', map')
    BY Zenon, <2>4, <2>6
  <2>8. copy' = copy /\ copied' = copied /\ whole' = whole
    BY Zenon, <2>1
  <2>. QED
    BY Zenon, <2>7, <2>8 DEF HashWell
<1>4. CASE Table!Clear
  <2>1. /\ ht.data # NULL
        /\ ht' = [ht EXCEPT !.count = 0, !.data = [i \in DOMAIN ht.data |-> <<>>]]
        /\ map' = <<>>
        /\ copy' = copy /\ copied' = copied /\ whole' = whole
    BY Zenon, <1>4 DEF Table!Clear, Table!Usable
  <2>2. Maps(ht, map)
    BY Zenon, <2>1 DEF HashWell
  <2>3. PICK n : n = <<>> /\ IsMap(n) /\ DOMAIN n = {}
    BY Zenon, EmptyMap
  <2>4. Maps([ht EXCEPT !.count = 0, !.data = [i \in DOMAIN ht.data |-> <<>>]], n)
    BY Zenon, <2>2, <2>3, ClearedMaps
  <2>5. Maps(ht', map')
    BY Zenon, <2>1, <2>3, <2>4
  <2>. QED
    BY Zenon, <2>1, <2>5 DEF HashWell
<1>5. CASE Table!Duplicate
  <2>1. /\ ht.data # NULL /\ ht' = ht /\ map' = map
        /\ \/ \E n \in 0 .. Len(Table!Entries(ht)) :
                 /\ copy' = Table!Dup(ht, n) /\ copied' = map
                 /\ whole' = (n = Len(Table!Entries(ht)))
           \/ copy' = NULL
    BY Zenon, <1>5 DEF Table!Duplicate, Table!Usable
  <2>2. Maps(ht, map)
    BY Zenon, <2>1 DEF HashWell
  <2>3. ASSUME NEW n \in 0 .. Len(Table!Entries(ht)),
               copy' = Table!Dup(ht, n), copied' = map, whole' = (n = Len(Table!Entries(ht)))
        PROVE  Copies(copy', copied', whole')
    <3>1. Copies(Table!Dup(ht, n), map, n = Len(Table!Entries(ht)))
      BY <2>2, DupMaps
    <3>. QED
      BY Zenon, <2>3, <3>1
  <2>. QED
    BY Zenon, <2>1, <2>2, <2>3 DEF HashWell
<1>6. CASE UNCHANGED hashVars
  <2>1. ht' = ht /\ copy' = copy /\ map' = map /\ copied' = copied /\ whole' = whole
    BY <1>6 DEF hashVars
  <2>. QED
    BY Zenon, <2>1 DEF HashWell
<1>. QED
  BY Zenon, <1>1, <1>2, <1>3, <1>4, <1>5, <1>6 DEF Table!Next

\* What is read from the table is the map.
LEMMA MapsIs ==
    ASSUME NEW h, NEW m, Maps(h, m)
    PROVE  Table!Is(h, m)
<1>1. h.count = Table!Cardinality(DOMAIN m)
  BY Zenon, TableCounts DEF Maps
<1>2. \A key \in Keys : Table!hash_get_val(h, key) = IF key \in DOMAIN m THEN m[key] ELSE NULL
  BY Zenon, GetIs
<1>3. PICK es : es = Table!Entries(h) /\ Lists(es, m) /\ Len(es) = h.count
  BY EntriesAre
<1>4. Table!ToSet(es) = {es[j] : j \in DOMAIN es}
  BY Zenon DEF Table!ToSet
<1>5. es \in ChainSeqs /\ DOMAIN es = 1 .. Len(es)
      /\ \A j \in 1 .. Len(es) : es[j] = <<es[j][1], es[j][2]>>
  BY <1>3, ChainIs DEF Lists
<1>6. \A j \in 1 .. Len(es) : es[j][1] \in DOMAIN m /\ es[j] = <<es[j][1], m[es[j][1]]>>
  BY Zenon, <1>3, <1>5 DEF Lists
<1>7. \A key \in DOMAIN m : \E j \in 1 .. Len(es) : es[j][1] = key
  BY Zenon, <1>3 DEF Lists
<1>8. {es[j] : j \in 1 .. Len(es)} = {<<key, m[key]>> : key \in DOMAIN m}
  <2>1. ASSUME NEW x \in {es[j] : j \in 1 .. Len(es)} PROVE x \in {<<key, m[key]>> : key \in DOMAIN m}
    <3>1. PICK j \in 1 .. Len(es) : x = es[j]
      BY Zenon
    <3>2. PICK key \in DOMAIN m : es[j] = <<key, m[key]>>
      BY Zenon, <1>6
    <3>. QED
      BY Zenon, <3>1, <3>2
  <2>2. ASSUME NEW x \in {<<key, m[key]>> : key \in DOMAIN m} PROVE x \in {es[j] : j \in 1 .. Len(es)}
    <3>1. PICK key \in DOMAIN m : x = <<key, m[key]>>
      BY Zenon
    <3>2. PICK j \in 1 .. Len(es) : es[j][1] = key
      BY Zenon, <1>7
    <3>. QED
      BY Zenon, <1>6, <3>1, <3>2
  <2>. QED
    BY Zenon, <2>1, <2>2
<1>9. Table!ToSet(Table!Entries(h)) = {<<key, m[key]>> : key \in DOMAIN m} /\ Len(Table!Entries(h)) = h.count
  BY Zenon, <1>3, <1>4, <1>5, <1>8
<1>. QED
  BY Zenon, <1>1, <1>2, <1>9 DEF Table!Is

\* What is read from a table that is well is the map.
LEMMA HashIsTheMap ==
    ASSUME HashWell
    PROVE  Table!IsTheMap
<1>1. copy # NULL => \E keys \in SUBSET DOMAIN copied :
                         /\ Table!Is(copy, Table!Restrict(copied, keys))
                         /\ whole => keys = DOMAIN copied
  BY Zenon, MapsIs DEF HashWell, Copies
<1>. QED
  BY Zenon, <1>1, MapsIs DEF HashWell, Table!IsTheMap, Table!Usable

-----------------------------------------------------------------------------
(* The string: each operation, and every behaviour *)

\* What is in a buffer: characters, and what was there before.
Bytes == Chars \cup {String!Garbage}

\* A string of any length, with its room.
Rooms == {x \in [len : Nat, free : Nat, buf : Seq(Bytes)] : Len(x.buf) = x.len + x.free + 1}

\* x holds t.
Holds(x, t) ==
    /\ x \in Rooms /\ t \in Seq(Chars)
    /\ x.len = Len(t)
    /\ \A j \in 1 .. Len(t) : x.buf[j] = t[j]
    /\ x.buf[Len(t) + 1] = String!NUL

\* The invariant: the buffer holds the string.
StrWell == Holds(s, str)

\* What a buffer is made of.
LEMMA RoomIs ==
    ASSUME NEW x \in Rooms
    PROVE  /\ x.len \in Nat /\ x.free \in Nat /\ x.buf \in Seq(Bytes)
           /\ Len(x.buf) = x.len + x.free + 1
           /\ x = [len |-> x.len, free |-> x.free, buf |-> x.buf]
BY DEF Rooms

\* Min and Max are what they are called.
LEMMA StrMinIs ==
    ASSUME NEW S, NEW m \in S, S \subseteq Int, \A y \in S : m <= y
    PROVE  String!Min(S) = m
<1>1. String!Min(S) \in S /\ \A y \in S : String!Min(S) <= y
  BY Zenon DEF String!Min
<1>2. String!Min(S) <= m /\ m <= String!Min(S) /\ m \in Int /\ String!Min(S) \in Int
  BY <1>1
<1>. QED
  BY <1>2

LEMMA StrMaxIs ==
    ASSUME NEW S, NEW m \in S, S \subseteq Int, \A y \in S : m >= y
    PROVE  String!Max(S) = m
<1>1. String!Max(S) \in S /\ \A y \in S : String!Max(S) >= y
  BY Zenon DEF String!Max
<1>2. String!Max(S) >= m /\ m >= String!Max(S) /\ m \in Int /\ String!Max(S) \in Int
  BY <1>1
<1>. QED
  BY <1>2

LEMMA StrMax2 ==
    ASSUME NEW a \in Int, NEW b \in Int
    PROVE  String!Max({a, b}) = IF a >= b THEN a ELSE b
<1>. DEFINE m == IF a >= b THEN a ELSE b
<1>1. m \in {a, b} /\ {a, b} \subseteq Int /\ \A y \in {a, b} : m >= y
  OBVIOUS
<1>. HIDE DEF m
<1>2. String!Max({a, b}) = m
  BY <1>1, StrMaxIs
<1>. QED
  BY <1>2 DEF m

\* What memcpy writes, and leaves (sds.c:132).
LEMMA OverlayIs ==
    ASSUME NEW b \in Seq(Bytes), NEW at \in Nat, NEW t \in Seq(Bytes)
    PROVE  LET r == String!Overlay(b, at, t) IN
           /\ r \in Seq(Bytes)
           /\ Len(r) = IF Len(b) >= at + Len(t) THEN Len(b) ELSE at + Len(t)
           /\ \A j \in 1 .. Len(r) :
                 r[j] = IF at < j /\ j <= at + Len(t) THEN t[j - at]
                        ELSE IF j <= Len(b) THEN b[j] ELSE String!Garbage
<1>. DEFINE n == IF Len(b) >= at + Len(t) THEN Len(b) ELSE at + Len(t)
            At(j) == IF at < j /\ j <= at + Len(t) THEN t[j - at]
                     ELSE IF j <= Len(b) THEN b[j] ELSE String!Garbage
            r == String!Overlay(b, at, t)
<1>0. Len(b) \in Nat /\ Len(t) \in Nat
  BY LenProperties
<1>1. n \in Nat /\ String!Max({Len(b), at + Len(t)}) = n
  BY <1>0, StrMax2
<1>2. ASSUME NEW j \in 1 .. n PROVE At(j) \in Bytes
  <2>1. CASE at < j /\ j <= at + Len(t)
    <3>1. j - at \in 1 .. Len(t)
      BY <1>0, <2>1
    <3>. QED
      BY <2>1, <3>1, ElementOfSeq
  <2>2. CASE ~(at < j /\ j <= at + Len(t)) /\ j <= Len(b)
    <3>1. j \in 1 .. Len(b)
      BY <1>0, <1>1, <2>2
    <3>. QED
      BY <2>2, <3>1, ElementOfSeq
  <2>3. CASE ~(at < j /\ j <= at + Len(t)) /\ ~(j <= Len(b))
    BY <2>3 DEF Bytes
  <2>. QED
    BY <2>1, <2>2, <2>3
<1>3. r = [j \in 1 .. n |-> At(j)]
  BY <1>1, Zenon DEF String!Overlay
<1>. HIDE DEF n, At, r
<1>4. r \in Seq(Bytes) /\ Len(r) = n /\ \A j \in 1 .. n : r[j] = At(j)
  BY <1>1, <1>2, <1>3
<1>. QED
  BY <1>4 DEF n, At, r

\* t after what the buffer has, where there is room, is the longer string u.
LEMMA EndedHolds ==
    ASSUME NEW x \in Rooms, NEW at \in Nat, NEW t \in Seq(Chars), NEW u \in Seq(Chars),
           String!NUL \in Chars,
           at + Len(t) <= x.len + x.free, Len(u) = at + Len(t),
           \A j \in 1 .. at : x.buf[j] = u[j],
           \A j \in 1 .. Len(t) : u[at + j] = t[j]
    PROVE  Holds(String!Ended(x, at, t), u)
<1>. DEFINE tt == Append(t, String!NUL)
            r == String!Overlay(x.buf, at, tt)
            e == [len |-> Len(u), free |-> x.len + x.free - Len(u), buf |-> r]
<1>3. String!Ended(x, at, t) = e
  <2>1. String!Ended(x, at, t) = [len |-> at + Len(t), free |-> x.len + x.free - (at + Len(t)), buf |-> r]
    BY DEF String!Ended
  <2>2. at + Len(t) = Len(u)
    OBVIOUS
  <2>. HIDE DEF r
  <2>. QED
    BY <2>1, <2>2
<1>0. /\ x.len \in Nat /\ x.free \in Nat /\ x.buf \in Seq(Bytes) /\ Len(x.buf) = x.len + x.free + 1
      /\ Len(t) \in Nat /\ Len(u) \in Nat
  BY RoomIs, LenProperties
<1>1. /\ tt \in Seq(Bytes) /\ Len(tt) = Len(t) + 1
      /\ \A j \in 1 .. Len(t) : tt[j] = t[j]
      /\ tt[Len(t) + 1] = String!NUL
  <2>1. /\ tt \in Seq(Chars) /\ Len(tt) = Len(t) + 1
        /\ \A j \in 1 .. Len(t) : tt[j] = t[j]
        /\ tt[Len(t) + 1] = String!NUL
    BY AppendProperties
  <2>2. \A j \in 1 .. Len(tt) : tt[j] \in Bytes
    BY <2>1, ElementOfSeq DEF Bytes
  <2>. HIDE DEF tt
  <2>3. tt \in Seq(Bytes)
    BY <1>0, <2>1, <2>2 DEF Bytes
  <2>. QED
    BY <2>1, <2>3
<1>. HIDE DEF tt
<1>2. /\ r \in Seq(Bytes) /\ Len(r) = Len(x.buf)
      /\ \A j \in 1 .. Len(r) :
            r[j] = IF at < j /\ j <= at + Len(tt) THEN tt[j - at]
                   ELSE IF j <= Len(x.buf) THEN x.buf[j] ELSE String!Garbage
  <2>1. Len(x.buf) >= at + Len(tt)
    BY <1>0, <1>1
  <2>2. /\ r \in Seq(Bytes)
        /\ Len(r) = IF Len(x.buf) >= at + Len(tt) THEN Len(x.buf) ELSE at + Len(tt)
        /\ \A j \in 1 .. Len(r) :
            r[j] = IF at < j /\ j <= at + Len(tt) THEN tt[j - at]
                   ELSE IF j <= Len(x.buf) THEN x.buf[j] ELSE String!Garbage
    BY <1>0, <1>1, OverlayIs
  <2>. HIDE DEF r
  <2>. QED
    BY <2>1, <2>2
<1>. HIDE DEF r
<1>4. e \in Rooms /\ e.len = Len(u) /\ e.buf = r
  BY <1>0, <1>2 DEF Rooms
<1>. HIDE DEF e
<1>5. ASSUME NEW j \in 1 .. Len(u) PROVE r[j] = u[j]
  <2>1. j \in 1 .. Len(r) /\ j <= Len(x.buf)
    BY <1>0, <1>2
  <2>2. CASE j <= at
    <3>1. ~(at < j) /\ j \in 1 .. at
      BY <2>2
    <3>. QED
      BY <1>2, <2>1, <3>1
  <2>3. CASE ~(j <= at)
    <3>1. at < j /\ j <= at + Len(tt) /\ j - at \in 1 .. Len(t) /\ at + (j - at) = j
      BY <1>0, <1>1, <2>3
    <3>2. r[j] = tt[j - at] /\ tt[j - at] = t[j - at]
      BY <1>1, <1>2, <2>1, <3>1
    <3>3. u[at + (j - at)] = t[j - at]
      BY <3>1
    <3>. QED
      BY <3>1, <3>2, <3>3
  <2>. QED
    BY <2>2, <2>3
<1>6. r[Len(u) + 1] = String!NUL
  <2>1. /\ Len(u) + 1 \in 1 .. Len(r) /\ at < Len(u) + 1 /\ Len(u) + 1 <= at + Len(tt)
        /\ Len(u) + 1 - at = Len(t) + 1
    BY <1>0, <1>1, <1>2
  <2>. QED
    BY <1>1, <1>2, <2>1
<1>. QED
  BY <1>3, <1>4, <1>5, <1>6 DEF Holds

\* There is room then, and the string is still there (sds.c:73-93).
LEMMA MakeRoomFits ==
    ASSUME NEW x \in Rooms, NEW addlen \in Nat
    PROVE  LET y == String!MakeRoom(x, addlen) IN
           /\ y \in Rooms /\ y.len = x.len /\ y.free >= addlen /\ y.free >= x.free
           /\ \A j \in 1 .. x.len + 1 : y.buf[j] = x.buf[j]
<1>. DEFINE newlen == (x.len + addlen) * 2
            g == <<String!Garbage>>
            r == String!Overlay(x.buf, newlen, g)
            y == String!MakeRoom(x, addlen)
<1>0. /\ x.len \in Nat /\ x.free \in Nat /\ x.buf \in Seq(Bytes) /\ Len(x.buf) = x.len + x.free + 1
      /\ x = [len |-> x.len, free |-> x.free, buf |-> x.buf]
  BY RoomIs
<1>1. CASE x.free >= addlen
  <2>1. y = x
    BY <1>1 DEF String!MakeRoom
  <2>. QED
    BY <1>0, <1>1, <2>1
<1>2. CASE ~(x.free >= addlen)
  <2>1. y = [x EXCEPT !.free = newlen - x.len, !.buf = String!Overlay(@, newlen, g)]
    BY <1>2, Zenon DEF String!MakeRoom
  <2>2. y = [len |-> x.len, free |-> newlen - x.len, buf |-> r]
    <3>1. PICK x1 : x1 = [x EXCEPT !.free = newlen - x.len]
      OBVIOUS
    <3>2. x1 = [len |-> x.len, free |-> newlen - x.len, buf |-> x.buf]
      BY <1>0, <3>1
    <3>3. y = [x1 EXCEPT !.buf = r]
      BY <2>1, <3>1, <3>2
    <3>. HIDE DEF y, r, newlen
    <3>. QED
      BY <3>2, <3>3
  <2>3. newlen \in Nat /\ g \in Seq(Bytes) /\ Len(g) = 1 /\ g[1] = String!Garbage
    BY <1>0 DEF Bytes
  <2>4. /\ r \in Seq(Bytes)
        /\ Len(r) = IF Len(x.buf) >= newlen + Len(g) THEN Len(x.buf) ELSE newlen + Len(g)
        /\ \A j \in 1 .. Len(r) :
              r[j] = IF newlen < j /\ j <= newlen + Len(g) THEN g[j - newlen]
                     ELSE IF j <= Len(x.buf) THEN x.buf[j] ELSE String!Garbage
    <3>. HIDE DEF g, newlen
    <3>. QED
      BY <1>0, <2>3, OverlayIs
  <2>. HIDE DEF g, r, y
  <2>5. newlen = x.len + x.len + addlen + addlen
    BY <1>0
  <2>. HIDE DEF newlen
  <2>6. Len(r) = newlen + 1 /\ newlen - x.len \in Nat /\ newlen - x.len >= addlen /\ newlen - x.len >= x.free
    BY <1>0, <1>2, <2>3, <2>4, <2>5
  <2>7. y \in Rooms /\ y.len = x.len /\ y.free = newlen - x.len /\ y.buf = r
    <3>1. y.len = x.len /\ y.free = newlen - x.len /\ y.buf = r
      BY <2>2
    <3>2. y \in [len : Nat, free : Nat, buf : Seq(Bytes)]
      BY <1>0, <2>2, <2>4, <2>6
    <3>3. x.len + (newlen - x.len) + 1 = newlen + 1
      BY <1>0, <2>3
    <3>. QED
      BY <2>6, <3>1, <3>2, <3>3, Zenon DEF Rooms
  <2>8. ASSUME NEW j \in 1 .. x.len + 1 PROVE r[j] = x.buf[j]
    <3>1. j \in 1 .. Len(r) /\ ~(newlen < j) /\ j <= Len(x.buf)
      BY <1>0, <1>2, <2>5, <2>6
    <3>. QED
      BY <2>4, <3>1
  <2>. QED
    BY <2>6, <2>7, <2>8 DEF y
<1>. QED
  BY <1>1, <1>2

\* What is known of a buffer that holds a string.
LEMMA HoldsIs ==
    ASSUME NEW x, NEW u, Holds(x, u)
    PROVE  /\ x \in Rooms /\ u \in Seq(Chars)
           /\ x.len \in Nat /\ x.free \in Nat /\ x.buf \in Seq(Bytes)
           /\ x.len = Len(u) /\ Len(x.buf) = Len(u) + x.free + 1
           /\ \A j \in 1 .. Len(u) : x.buf[j] = u[j] /\ u[j] \in Chars
           /\ x.buf[Len(u) + 1] = String!NUL
<1>1. x \in Rooms /\ u \in Seq(Chars) /\ x.len = Len(u)
  BY DEF Holds
<1>2. x.len \in Nat /\ x.free \in Nat /\ x.buf \in Seq(Bytes) /\ Len(x.buf) = x.len + x.free + 1
  BY <1>1, RoomIs
<1>3. \A j \in 1 .. Len(u) : x.buf[j] = u[j] /\ u[j] \in Chars
  BY <1>1, ElementOfSeq DEF Holds
<1>. QED
  BY <1>1, <1>2, <1>3 DEF Holds

\* The terminator may be in a string.
LEMMA NULIs == String!NUL \in Chars
BY StructuresAssumption DEF String!SdsAssumption

\* Making room keeps the string.
LEMMA RoomFor ==
    ASSUME NEW x, NEW u, Holds(x, u), NEW addlen \in Nat
    PROVE  LET y == String!MakeRoom(x, addlen)
           IN  Holds(y, u) /\ y.free >= addlen
<1>. DEFINE y == String!MakeRoom(x, addlen)
<1>1. x \in Rooms /\ x.len = Len(u) /\ u \in Seq(Chars)
  BY HoldsIs
<1>2. /\ y \in Rooms /\ y.len = x.len /\ y.free >= addlen
      /\ \A j \in 1 .. x.len + 1 : y.buf[j] = x.buf[j]
  BY <1>1, MakeRoomFits
<1>. HIDE DEF y
<1>3. \A j \in 1 .. Len(u) : x.buf[j] = u[j] /\ j \in 1 .. x.len + 1
  BY <1>1, HoldsIs
<1>4. x.buf[Len(u) + 1] = String!NUL /\ Len(u) + 1 \in 1 .. x.len + 1
  BY <1>1, HoldsIs
<1>5. Holds(y, u)
  BY <1>1, <1>2, <1>3, <1>4 DEF Holds
<1>. QED
  BY <1>2, <1>5 DEF y

\* Appending, copying, clearing and growing (sds.c:66-162).
LEMMA CatHolds ==
    ASSUME NEW x, NEW u, Holds(x, u), NEW t \in Seq(Chars)
    PROVE  Holds(String!sdscatlen(x, t), u \o t)
<1>. DEFINE y == String!MakeRoom(x, Len(t))
            ut == u \o t
<1>1. Len(t) \in Nat /\ Len(u) \in Nat /\ x.len = Len(u) /\ u \in Seq(Chars)
  BY HoldsIs, LenProperties
<1>2. Holds(y, u) /\ y.free >= Len(t)
  BY <1>1, RoomFor
<1>3. String!sdscatlen(x, t) = String!Ended(y, x.len, t)
  BY DEF String!sdscatlen
<1>4. /\ ut \in Seq(Chars) /\ Len(ut) = Len(u) + Len(t)
      /\ \A j \in 1 .. Len(u) + Len(t) : ut[j] = IF j <= Len(u) THEN u[j] ELSE t[j - Len(u)]
  BY <1>1, ConcatProperties
<1>. HIDE DEF y, ut
<1>5. y \in Rooms /\ y.len = Len(u) /\ y.free \in Nat /\ \A j \in 1 .. Len(u) : y.buf[j] = u[j]
  BY <1>2, HoldsIs
<1>6. x.len + Len(t) <= y.len + y.free /\ Len(ut) = x.len + Len(t)
  BY <1>1, <1>2, <1>4, <1>5
<1>7. \A j \in 1 .. x.len : y.buf[j] = ut[j]
  BY <1>1, <1>4, <1>5
<1>8. ASSUME NEW j \in 1 .. Len(t) PROVE ut[x.len + j] = t[j]
  <2>1. /\ x.len + j \in 1 .. Len(u) + Len(t) /\ ~(x.len + j <= Len(u)) /\ (x.len + j) - Len(u) = j
    BY <1>1
  <2>. QED
    BY <1>4, <2>1
<1>9. Holds(String!Ended(y, x.len, t), ut)
  BY <1>1, <1>4, <1>5, <1>6, <1>7, <1>8, NULIs, EndedHolds
<1>. QED
  BY <1>3, <1>9 DEF ut

\* Written over from the start.
LEMMA OverHolds ==
    ASSUME NEW x \in Rooms, NEW t \in Seq(Chars), Len(t) <= x.len + x.free
    PROVE  Holds(String!Ended(x, 0, t), t)
<1>1. Len(t) \in Nat /\ 0 + Len(t) = Len(t) /\ \A j \in 1 .. Len(t) : 0 + j = j
  BY LenProperties
<1>2. \A j \in 1 .. 0 : x.buf[j] = t[j]
  OBVIOUS
<1>3. 0 \in Nat /\ 0 + Len(t) <= x.len + x.free /\ \A j \in 1 .. Len(t) : t[0 + j] = t[j]
  BY <1>1
<1>. QED
  BY <1>1, <1>2, <1>3, NULIs, EndedHolds

LEMMA CopyHolds ==
    ASSUME NEW x, NEW u, Holds(x, u), NEW t \in Seq(Chars)
    PROVE  Holds(String!sdscpylen(x, t), t)
<1>1. /\ Len(t) \in Nat /\ Len(u) \in Nat /\ x.len = Len(u) /\ u \in Seq(Chars)
      /\ x \in Rooms /\ x.free \in Nat
  BY HoldsIs, LenProperties
<1>2. CASE x.len + x.free < Len(t)
  <2>. DEFINE y == String!MakeRoom(x, Len(t) - x.len)
  <2>1. Len(t) - x.len \in Nat
    BY <1>1, <1>2
  <2>2. Holds(y, u) /\ y.free >= Len(t) - x.len
    BY <2>1, RoomFor
  <2>3. String!sdscpylen(x, t) = String!Ended(y, 0, t)
    BY <1>2 DEF String!sdscpylen
  <2>. HIDE DEF y
  <2>4. y \in Rooms /\ y.len = Len(u) /\ y.free \in Nat
    BY <2>2, HoldsIs
  <2>5. Len(t) <= y.len + y.free
    BY <1>1, <2>2, <2>4
  <2>. QED
    BY <2>3, <2>4, <2>5, OverHolds
<1>3. CASE ~(x.len + x.free < Len(t))
  <2>1. String!sdscpylen(x, t) = String!Ended(x, 0, t)
    BY <1>3 DEF String!sdscpylen
  <2>2. Len(t) <= x.len + x.free
    BY <1>1, <1>3
  <2>. QED
    BY <1>1, <2>1, <2>2, OverHolds
<1>. QED
  BY <1>2, <1>3

LEMMA ClearHolds ==
    ASSUME NEW x, NEW u, Holds(x, u)
    PROVE  Holds(String!sdsclear(x), <<>>)
<1>1. x \in Rooms /\ x.len \in Nat /\ x.free \in Nat
  BY HoldsIs
<1>2. <<>> \in Seq(Chars) /\ Len(<<>>) <= x.len + x.free
  BY <1>1
<1>. QED
  BY <1>1, <1>2, OverHolds DEF String!sdsclear

LEMMA GrowHolds ==
    ASSUME NEW x, NEW u, Holds(x, u), NEW n \in Nat
    PROVE  Holds(String!sdsgrowzero(x, n), u \o String!Zeros(String!Max({n - Len(u), 0})))
<1>1. Len(u) \in Nat /\ x.len = Len(u) /\ u \in Seq(Chars)
  BY HoldsIs, LenProperties
<1>2. CASE n <= x.len
  <2>1. String!Max({n - Len(u), 0}) = 0
    <3>1. n - Len(u) \in Int /\ 0 \in Int /\ (n - Len(u) >= 0 => n - Len(u) = 0)
      BY <1>1, <1>2
    <3>. QED
      BY <3>1, StrMax2
  <2>2. String!Zeros(0) = <<>>
    BY DEF String!Zeros
  <2>3. u \o <<>> = u
    BY <1>1, ConcatEmptySeq
  <2>4. String!sdsgrowzero(x, n) = x
    BY <1>2 DEF String!sdsgrowzero
  <2>. QED
    BY <2>1, <2>2, <2>3, <2>4
<1>3. CASE ~(n <= x.len)
  <2>. DEFINE k == n - x.len
              z == String!Zeros(k)
  <2>1. k \in Nat /\ n - Len(u) = k
    BY <1>1, <1>3
  <2>2. String!Max({n - Len(u), 0}) = k
    <3>1. k \in Int /\ 0 \in Int /\ k >= 0
      BY <2>1
    <3>. HIDE DEF k
    <3>2. String!Max({k, 0}) = k
      BY <3>1, StrMax2
    <3>. QED
      BY <2>1, <3>2
  <2>3. z = [j \in 1 .. k |-> String!NUL]
    BY DEF String!Zeros
  <2>4. z \in Seq(Chars) /\ Len(z) = k
    <3>. HIDE DEF z, k
    <3>. QED
      BY <2>1, <2>3, NULIs
  <2>5. String!sdsgrowzero(x, n) = String!sdscatlen(x, z)
    <3>1. String!sdsgrowzero(x, n) = String!Ended(String!MakeRoom(x, k), x.len, [j \in 1 .. k |-> String!NUL])
      BY <1>3, Zenon DEF String!sdsgrowzero
    <3>2. String!sdscatlen(x, z) = String!Ended(String!MakeRoom(x, Len(z)), x.len, z)
      BY DEF String!sdscatlen
    <3>. HIDE DEF z, k
    <3>. QED
      BY <2>3, <2>4, <3>1, <3>2
  <2>. HIDE DEF k
  <2>6. Holds(String!sdscatlen(x, z), u \o z)
    <3>. HIDE DEF z
    <3>. QED
      BY <2>4, CatHolds
  <2>. QED
    BY <2>2, <2>5, <2>6
<1>. QED
  BY <1>2, <1>3

\* What is left of the buffer, at its start.
LEMMA SliceHolds ==
    ASSUME NEW x, NEW u, Holds(x, u), NEW a \in Nat, NEW n \in Nat, a + n <= Len(u)
    PROVE  Holds(String!Ended(x, 0, SubSeq(x.buf, a + 1, a + n)), SubSeq(u, a + 1, a + n))
<1>1. /\ Len(u) \in Nat /\ x.len = Len(u) /\ u \in Seq(Chars)
      /\ x \in Rooms /\ x.free \in Nat
      /\ \A j \in 1 .. Len(u) : x.buf[j] = u[j] /\ u[j] \in Chars
  BY HoldsIs, LenProperties
<1>. DEFINE p == SubSeq(x.buf, a + 1, a + n)
            q == SubSeq(u, a + 1, a + n)
            m == IF a + 1 <= a + n THEN a + n - (a + 1) + 1 ELSE 0
<1>2. \A j \in a + 1 .. a + n : u[j] \in Chars /\ x.buf[j] \in Chars /\ x.buf[j] = u[j]
  BY <1>1
<1>3. a + 1 \in Int /\ a + n \in Int /\ m = n /\ a + n - (a + 1) + 1 = n
  OBVIOUS
<1>4. p \in Seq(Chars) /\ Len(p) = m /\ \A i \in 1 .. a + n - (a + 1) + 1 : p[i] = x.buf[a + 1 + i - 1]
  BY <1>2, <1>3, SubSeqProperties
<1>5. q \in Seq(Chars) /\ Len(q) = m /\ \A i \in 1 .. a + n - (a + 1) + 1 : q[i] = u[a + 1 + i - 1]
  BY <1>2, <1>3, SubSeqProperties
<1>6. \A i \in 1 .. n : a + 1 + i - 1 \in a + 1 .. a + n
  OBVIOUS
<1>. HIDE DEF p, q, m
<1>7. \A i \in 1 .. n : p[i] = q[i]
  BY <1>2, <1>3, <1>4, <1>5, <1>6
<1>8. p = q
  BY <1>3, <1>4, <1>5, <1>7, SeqEqual
<1>9. Len(q) <= x.len + x.free
  BY <1>1, <1>3, <1>5
<1>10. Holds(String!Ended(x, 0, q), q)
  BY <1>1, <1>5, <1>9, OverHolds
<1>. QED
  BY <1>8, <1>10 DEF p, q

\* The length is again what strlen says (sds.c:59-64).
LEMMA UpdateHolds ==
    ASSUME NEW x, NEW u, Holds(x, u)
    PROVE  Holds(String!sdsupdatelen(x),
                 SubSeq(u, 1, String!Min({j \in DOMAIN u : u[j] = String!NUL} \cup {Len(u) + 1}) - 1))
<1>. DEFINE D == {j \in DOMAIN u : u[j] = String!NUL} \cup {Len(u) + 1}
            N == {j \in 1 .. Len(x.buf) : x.buf[j] = String!NUL}
<1>1. /\ Len(u) \in Nat /\ x.len = Len(u) /\ u \in Seq(Chars) /\ DOMAIN u = 1 .. Len(u)
      /\ x \in Rooms /\ x.len \in Nat /\ x.free \in Nat /\ x.buf \in Seq(Bytes)
      /\ Len(x.buf) = Len(u) + x.free + 1
      /\ \A j \in 1 .. Len(u) : x.buf[j] = u[j] /\ u[j] \in Chars
      /\ x.buf[Len(u) + 1] = String!NUL
      /\ x = [len |-> x.len, free |-> x.free, buf |-> x.buf]
  BY HoldsIs, LenProperties, RoomIs
<1>2. D \subseteq Nat /\ D # {}
  BY <1>1
<1>3. PICK m \in D : \A y \in D : m <= y
  BY <1>2, Least
<1>4. m \in 1 .. Len(u) + 1 /\ m <= Len(u) + 1
  BY <1>1, <1>3
<1>5. x.buf[m] = String!NUL
  BY <1>1, <1>3, <1>4
<1>6. m \in N /\ N \subseteq Int
  BY <1>1, <1>4, <1>5
<1>7. ASSUME NEW y \in N PROVE m <= y
  <2>1. CASE y <= Len(u)
    <3>1. y \in 1 .. Len(u) /\ x.buf[y] = String!NUL
      BY <1>1, <2>1
    <3>2. y \in D
      BY <1>1, <3>1
    <3>. QED
      BY <1>3, <3>2
  <2>2. CASE ~(y <= Len(u))
    BY <1>1, <1>4, <2>2
  <2>. QED
    BY <2>1, <2>2
<1>8. String!Min(D) = m
  <2>1. m \in D /\ D \subseteq Int /\ \A y \in D : m <= y
    BY <1>2, <1>3
  <2>. HIDE DEF D
  <2>. QED
    BY <2>1, StrMinIs
<1>9. String!Min(N) = m
  <2>. HIDE DEF N
  <2>. QED
    BY <1>6, <1>7, StrMinIs
<1>. DEFINE r == m - 1
            y == [len |-> r, free |-> x.free + x.len - r, buf |-> x.buf]
            q == SubSeq(u, 1, r)
<1>10. String!sdsupdatelen(x) = y
  <2>1. String!sdsupdatelen(x) = [x EXCEPT !.len = r, !.free = x.free + x.len - r]
    BY <1>9, Zenon DEF String!sdsupdatelen
  <2>2. PICK x1 : x1 = [x EXCEPT !.len = r]
    OBVIOUS
  <2>3. x1 = [len |-> r, free |-> x.free, buf |-> x.buf]
    BY <1>1, <2>2
  <2>4. String!sdsupdatelen(x) = [x1 EXCEPT !.free = x.free + x.len - r]
    BY <2>1, <2>2
  <2>. HIDE DEF r
  <2>. QED
    BY <2>3, <2>4
<1>11. r \in Nat /\ r <= Len(u) /\ r + 1 = m
  BY <1>4
<1>. HIDE DEF r
<1>12. q \in Seq(Chars) /\ Len(q) = r /\ \A j \in 1 .. r : q[j] = u[j]
  <2>1. \A j \in 1 .. r : u[j] \in Chars /\ 1 + j - 1 = j
    BY <1>1, <1>11
  <2>2. 1 \in Int /\ r \in Int /\ r - 1 + 1 = r /\ (~(1 <= r) => r = 0)
    BY <1>11
  <2>3. /\ q \in Seq(Chars) /\ Len(q) = IF 1 <= r THEN r - 1 + 1 ELSE 0
        /\ \A j \in 1 .. r - 1 + 1 : q[j] = u[1 + j - 1]
    BY <2>1, <2>2, SubSeqProperties
  <2>. HIDE DEF q
  <2>. QED
    BY <2>1, <2>2, <2>3
<1>13. x.free + x.len - r \in Nat /\ r + (x.free + x.len - r) + 1 = Len(x.buf)
  BY <1>1, <1>11
<1>14. y \in Rooms /\ y.len = r /\ y.buf = x.buf
  <2>1. y.len = r /\ y.free = x.free + x.len - r /\ y.buf = x.buf
    OBVIOUS
  <2>2. y \in [len : Nat, free : Nat, buf : Seq(Bytes)]
    BY <1>1, <1>11, <1>13
  <2>. HIDE DEF y
  <2>. QED
    BY <1>13, <2>1, <2>2 DEF Rooms
<1>. HIDE DEF q, y
<1>15. \A j \in 1 .. r : x.buf[j] = q[j]
  BY <1>1, <1>11, <1>12
<1>16. Holds(y, q)
  BY <1>5, <1>11, <1>12, <1>14, <1>15 DEF Holds
<1>17. q = SubSeq(u, 1, String!Min(D) - 1)
  BY <1>8 DEF q, r
<1>. QED
  BY <1>10, <1>16, <1>17

\* A set of the first numbers that is not empty has a greatest element.
LEMMA Greatest ==
    ASSUME NEW n \in Nat, NEW S, S \subseteq 1 .. n, S # {}
    PROVE  \E x \in S : \A y \in S : y <= x
<1>. DEFINE T == {n - y : y \in S}
<1>1. T \subseteq Nat /\ T # {}
  <2>1. \A y \in S : n - y \in Nat
    OBVIOUS
  <2>2. PICK y \in S : TRUE
    OBVIOUS
  <2>3. n - y \in T
    BY <2>2
  <2>4. T \subseteq Nat
    BY <2>1, Zenon
  <2>. QED
    BY <2>3, <2>4
<1>2. PICK t \in T : \A z \in T : t <= z
  BY <1>1, Least
<1>3. PICK x \in S : t = n - x
  BY <1>2
<1>4. ASSUME NEW y \in S PROVE y <= x
  <2>1. n - y \in T
    OBVIOUS
  <2>2. t <= n - y
    BY <1>2, <2>1
  <2>. QED
    BY <1>3, <2>2
<1>. QED
  BY <1>4

\* The characters that are not trimmed.
OuterOf(u, cset) == {j \in DOMAIN u : u[j] \notin cset \cup {String!NUL}}

\* From the first of them to the last (sds.c:210-235).
LEMMA TrimHolds ==
    ASSUME NEW x, NEW u, Holds(x, u), NEW cset
    PROVE  Holds(String!sdstrim(x, cset),
                 IF OuterOf(u, cset) = {} THEN <<>>
                 ELSE SubSeq(u, String!Min(OuterOf(u, cset)), String!Max(OuterOf(u, cset))))
<1>. DEFINE O == OuterOf(u, cset)
            I == {j \in 0 .. x.len - 1 : ~(x.buf[j + 1] \in cset \cup {String!NUL})}
            sp == String!Min(I \cup {x.len})
            ep == String!Max(I \cup {0})
            len == IF x.len = 0 \/ sp > ep THEN 0 ELSE ep - sp + 1
<1>0. String!sdstrim(x, cset) = String!Ended(x, 0, SubSeq(x.buf, sp + 1, sp + len))
  BY Zenon DEF String!sdstrim
<1>1. /\ Len(u) \in Nat /\ x.len = Len(u) /\ u \in Seq(Chars) /\ DOMAIN u = 1 .. Len(u)
      /\ x \in Rooms /\ x.free \in Nat
      /\ \A j \in 1 .. Len(u) : x.buf[j] = u[j]
  BY HoldsIs, LenProperties
<1>2. ASSUME NEW j \in I PROVE j + 1 \in O
  <2>1. j + 1 \in 1 .. Len(u)
    BY <1>1
  <2>. QED
    BY <1>1, <2>1 DEF OuterOf
<1>3. ASSUME NEW j \in O PROVE j - 1 \in I
  <2>1. j \in 1 .. Len(u) /\ u[j] \notin cset \cup {String!NUL}
    BY <1>1 DEF OuterOf
  <2>2. j - 1 \in 0 .. x.len - 1 /\ (j - 1) + 1 = j
    BY <1>1, <2>1
  <2>. QED
    BY <1>1, <2>1, <2>2
<1>4. I \subseteq 0 .. x.len - 1 /\ O \subseteq 1 .. Len(u)
  BY <1>1 DEF OuterOf
<1>. HIDE DEF O, I
<1>5. CASE O = {}
  <2>1. I = {}
    BY <1>2, <1>5
  <2>2. sp = x.len /\ ep = 0
    <3>1. I \cup {x.len} = {x.len} /\ I \cup {0} = {0}
      BY <2>1
    <3>2. ASSUME NEW k \in Int PROVE String!Min({k}) = k /\ String!Max({k}) = k
      <4>1. k \in {k} /\ {k} \subseteq Int /\ (\A y \in {k} : k <= y) /\ (\A y \in {k} : k >= y)
        OBVIOUS
      <4>2. String!Min({k}) = k
        BY <4>1, StrMinIs
      <4>3. String!Max({k}) = k
        BY <4>1, StrMaxIs
      <4>. QED
        BY <4>2, <4>3
    <3>3. x.len \in Int /\ 0 \in Int
      BY <1>1
    <3>. QED
      BY <3>1, <3>2, <3>3
  <2>. HIDE DEF sp, ep
  <2>3. len = 0 /\ sp + len = Len(u) + 0 /\ sp + 1 = Len(u) + 1
    <3>1. sp \in Nat /\ (sp = 0 \/ sp > ep) /\ sp = x.len /\ sp = Len(u)
      BY <1>1, <2>2
    <3>2. len = 0
      BY <3>1
    <3>. HIDE DEF len
    <3>. QED
      BY <3>1, <3>2
  <2>. HIDE DEF len
  <2>4. Holds(String!Ended(x, 0, SubSeq(x.buf, Len(u) + 1, Len(u) + 0)), SubSeq(u, Len(u) + 1, Len(u) + 0))
    <3>1. Len(u) + 0 <= Len(u) /\ 0 \in Nat
      BY <1>1
    <3>. QED
      BY <1>1, <3>1, SliceHolds
  <2>5. SubSeq(u, Len(u) + 1, Len(u) + 0) = <<>>
    <3>1. Len(u) + 1 \in Int /\ Len(u) + 0 \in Int /\ Len(u) + 0 < Len(u) + 1
      BY <1>1
    <3>. QED
      BY <3>1, SubSeqEmpty
  <2>. QED
    BY <1>0, <1>5, <2>3, <2>4, <2>5 DEF O
<1>6. CASE O # {}
  <2>0. O \subseteq Nat
    BY <1>4
  <2>1. PICK lo \in O : \A y \in O : lo <= y
    BY <1>6, <2>0, Least
  <2>2. PICK hi \in O : \A y \in O : y <= hi
    BY <1>1, <1>4, <1>6, Greatest
  <2>3. lo \in 1 .. Len(u) /\ hi \in 1 .. Len(u) /\ lo <= hi /\ O \subseteq Int
    BY <1>4, <2>1, <2>2
  <2>4. String!Min(O) = lo
    BY <2>1, <2>3, StrMinIs
  <2>5. String!Max(O) = hi
    <3>1. \A y \in O : hi >= y
      BY <2>2, <2>3
    <3>. QED
      BY <2>2, <2>3, <3>1, StrMaxIs
  <2>6. lo - 1 \in I /\ hi - 1 \in I
    BY <1>3, <2>1, <2>2
  <2>7. ASSUME NEW j \in I PROVE lo - 1 <= j /\ hi - 1 >= j /\ j \in Int
    <3>1. j + 1 \in O /\ j \in Int
      BY <1>1, <1>2, <1>4
    <3>2. lo <= j + 1 /\ j + 1 <= hi
      BY <2>1, <2>2, <3>1
    <3>. QED
      BY <2>3, <3>1, <3>2
  <2>8. sp = lo - 1
    <3>1. /\ lo - 1 \in I \cup {x.len} /\ I \cup {x.len} \subseteq Int
          /\ \A y \in I \cup {x.len} : lo - 1 <= y
      BY <1>1, <2>3, <2>6, <2>7
    <3>. QED
      BY <3>1, StrMinIs
  <2>9. ep = hi - 1
    <3>1. /\ hi - 1 \in I \cup {0} /\ I \cup {0} \subseteq Int
          /\ \A y \in I \cup {0} : hi - 1 >= y
      BY <1>1, <2>3, <2>6, <2>7
    <3>. QED
      BY <3>1, StrMaxIs
  <2>. HIDE DEF sp, ep
  <2>. DEFINE n == hi - lo + 1
  <2>10. n \in Nat /\ lo - 1 \in Nat /\ (lo - 1) + n <= Len(u) /\ (lo - 1) + n = hi /\ (lo - 1) + 1 = lo
    BY <1>1, <2>3
  <2>11. len = n /\ sp + len = (lo - 1) + n /\ sp + 1 = (lo - 1) + 1
    BY <1>1, <2>3, <2>8, <2>9
  <2>. HIDE DEF n, len
  <2>12. Holds(String!Ended(x, 0, SubSeq(x.buf, (lo - 1) + 1, (lo - 1) + n)), SubSeq(u, (lo - 1) + 1, (lo - 1) + n))
    BY <2>10, SliceHolds
  <2>13. Holds(String!sdstrim(x, cset), SubSeq(u, lo, hi))
    BY <1>0, <2>10, <2>11, <2>12
  <2>. QED
    BY <1>6, <2>4, <2>5, <2>13 DEF O
<1>. QED
  BY <1>5, <1>6

\* An offset from the end, if it is negative.
OffsetOf(u, n) == IF n < 0 THEN String!Max({Len(u) + n, 0}) ELSE n

\* From one offset to another (sds.c:237-277).
LEMMA RangeHolds ==
    ASSUME NEW x, NEW u, Holds(x, u), NEW first \in Int, NEW last \in Int
    PROVE  Holds(String!sdsrange(x, first, last),
                 SubSeq(u, OffsetOf(u, first) + 1, String!Min({OffsetOf(u, last) + 1, Len(u)})))
<1>. DEFINE start == OffsetOf(u, first)
            e == OffsetOf(u, last)
            end == IF e >= Len(u) THEN Len(u) - 1 ELSE e
            newlen == IF start > e \/ start >= Len(u) THEN 0 ELSE end - start + 1
            m == IF e + 1 <= Len(u) THEN e + 1 ELSE Len(u)
<1>1. /\ Len(u) \in Nat /\ x.len = Len(u) /\ u \in Seq(Chars)
      /\ x \in Rooms /\ x.free \in Nat /\ x.len \in Nat
  BY HoldsIs, LenProperties
<1>2. ASSUME NEW n \in Int PROVE OffsetOf(u, n) \in Nat
  <2>1. CASE n < 0
    <3>1. Len(u) + n \in Int /\ 0 \in Int
      BY <1>1
    <3>2. String!Max({Len(u) + n, 0}) = IF Len(u) + n >= 0 THEN Len(u) + n ELSE 0
      BY <3>1, StrMax2
    <3>. QED
      BY <2>1, <3>1, <3>2 DEF OffsetOf
  <2>2. CASE ~(n < 0)
    BY <2>2 DEF OffsetOf
  <2>. QED
    BY <2>1, <2>2
<1>3. start \in Nat /\ e \in Nat
  BY <1>2
<1>4. /\ (IF first < 0 THEN String!Max({x.len + first, 0}) ELSE first) = start
      /\ (IF last < 0 THEN String!Max({x.len + last, 0}) ELSE last) = e
  BY <1>1 DEF OffsetOf
<1>. HIDE DEF start, e
<1>5. String!Min({e + 1, Len(u)}) = m
  <2>. DEFINE S == {e + 1, Len(u)}
  <2>1. m \in S /\ S \subseteq Int /\ \A y \in S : m <= y
    BY <1>1, <1>3
  <2>. HIDE DEF m, S
  <2>2. String!Min(S) = m
    BY <2>1, StrMinIs
  <2>. QED
    BY <2>2 DEF S
<1>6. CASE x.len = 0
  <2>1. String!sdsrange(x, first, last) = x
    BY <1>6, Zenon DEF String!sdsrange
  <2>2. u = <<>>
    <3>1. Len(u) = 0 /\ u \in Seq(Chars)
      BY <1>1, <1>6
    <3>2. <<>> \in Seq(Chars) /\ Len(<<>>) = 0 /\ \A j \in 1 .. 0 : u[j] = <<>>[j]
      OBVIOUS
    <3>. QED
      BY <3>1, <3>2, SeqEqual
  <2>3. m = 0 /\ start + 1 \in Int /\ 0 < start + 1
    BY <1>1, <1>3, <1>6
  <2>4. SubSeq(u, start + 1, m) = <<>>
    <3>. HIDE DEF m
    <3>1. SubSeq(u, start + 1, 0) = <<>>
      BY <2>3, SubSeqEmpty
    <3>. QED
      BY <2>3, <3>1
  <2>. HIDE DEF m
  <2>. QED
    BY <1>5, <2>1, <2>2, <2>4 DEF start, e
<1>7. CASE x.len # 0
  <2>1. String!sdsrange(x, first, last) = String!Ended(x, 0, SubSeq(x.buf, start + 1, start + newlen))
    <3>1. String!sdsrange(x, first, last)
          = LET f == IF first < 0 THEN String!Max({x.len + first, 0}) ELSE first
                l == IF last < 0 THEN String!Max({x.len + last, 0}) ELSE last
                d == IF l >= x.len THEN x.len - 1 ELSE l
                k == IF f > l \/ f >= x.len THEN 0 ELSE d - f + 1
            IN  String!Ended(x, 0, SubSeq(x.buf, f + 1, f + k))
      BY <1>7, Zenon DEF String!sdsrange
    <3>. QED
      BY <1>1, <1>4, <3>1, Zenon
  <2>2. CASE start > e \/ start >= Len(u)
    <3>1. newlen = 0 /\ m < start + 1 /\ start + 0 < start + 1 /\ start + 1 \in Int /\ start + 0 \in Int /\ m \in Int
      BY <1>1, <1>3, <2>2
    <3>. HIDE DEF newlen, m
    <3>2. SubSeq(x.buf, start + 1, start + 0) = <<>> /\ SubSeq(u, start + 1, m) = <<>>
      BY <3>1, SubSeqEmpty
    <3>3. String!sdsrange(x, first, last) = String!Ended(x, 0, <<>>)
      BY <2>1, <3>1, <3>2
    <3>4. Holds(String!Ended(x, 0, <<>>), <<>>)
      <4>1. <<>> \in Seq(Chars) /\ Len(<<>>) <= x.len + x.free
        BY <1>1
      <4>. QED
        BY <1>1, <4>1, OverHolds
    <3>. QED
      BY <1>5, <3>2, <3>3, <3>4 DEF start, e
  <2>3. CASE ~(start > e \/ start >= Len(u))
    <3>1. newlen \in Nat /\ start + newlen = m /\ start + newlen <= Len(u)
      BY <1>1, <1>3, <2>3
    <3>. HIDE DEF newlen, m
    <3>2. Holds(String!Ended(x, 0, SubSeq(x.buf, start + 1, start + newlen)), SubSeq(u, start + 1, start + newlen))
      BY <1>3, <3>1, SliceHolds
    <3>. QED
      BY <1>5, <2>1, <3>1, <3>2 DEF start, e
  <2>. QED
    BY <2>2, <2>3
<1>. QED
  BY <1>6, <1>7

\* A new string is well.
LEMMA StrInit == String!Init => StrWell
<1>. SUFFICES ASSUME String!Init PROVE StrWell
  OBVIOUS
<1>. DEFINE b == <<String!NUL>>
<1>1. s = [len |-> 0, free |-> 0, buf |-> b] /\ str = <<>>
  BY DEF String!Init
<1>2. b \in Seq(Bytes) /\ Len(b) = 1 /\ b[1] = String!NUL
  BY NULIs DEF Bytes
<1>. HIDE DEF b
<1>3. s \in Rooms /\ s.len = 0 /\ s.buf = b
  BY <1>1, <1>2 DEF Rooms
<1>4. <<>> \in Seq(Chars) /\ Len(<<>>) = 0 /\ 1 .. 0 = {}
  OBVIOUS
<1>. QED
  BY <1>1, <1>2, <1>3, <1>4 DEF StrWell, Holds

\* Every operation keeps the string well.
LEMMA StrStays ==
    ASSUME StrWell, [String!Next]_strVars
    PROVE  StrWell'
<1>0. /\ String!NUL \in Chars /\ MaxLen \in Nat /\ MaxRoom \in Nat
      /\ \A t \in Pieces : t \in Seq(Chars)
  BY StructuresAssumption DEF String!SdsAssumption
<1>1. Holds(s, str)
  BY DEF StrWell
<1>2. ASSUME NEW x, NEW t, Holds(x, t), s' = x, str' = t PROVE StrWell'
  BY <1>2 DEF StrWell
<1>3. CASE String!Cat
  <2>1. PICK t \in Pieces : String!Change(String!sdscatlen(s, t), str \o t)
    BY <1>3 DEF String!Cat
  <2>2. Holds(String!sdscatlen(s, t), str \o t)
    BY <1>0, <1>1, CatHolds
  <2>. QED
    BY <1>2, <2>1, <2>2 DEF String!Change
<1>4. CASE String!Copy
  <2>1. PICK t \in Pieces : String!Change(String!sdscpylen(s, t), t)
    BY <1>4 DEF String!Copy
  <2>2. Holds(String!sdscpylen(s, t), t)
    BY <1>0, <1>1, CopyHolds
  <2>. QED
    BY <1>2, <2>1, <2>2 DEF String!Change
<1>5. CASE String!Grow
  <2>1. PICK n \in 0 .. MaxLen :
           String!Change(String!sdsgrowzero(s, n), str \o String!Zeros(String!Max({n - Len(str), 0})))
    BY <1>5 DEF String!Grow
  <2>2. Holds(String!sdsgrowzero(s, n), str \o String!Zeros(String!Max({n - Len(str), 0})))
    BY <1>0, <1>1, GrowHolds
  <2>. QED
    BY <1>2, <2>1, <2>2 DEF String!Change
<1>6. CASE String!Clear
  <2>1. Holds(String!sdsclear(s), <<>>)
    BY <1>1, ClearHolds
  <2>. QED
    BY <1>2, <1>6, <2>1 DEF String!Clear, String!Change
<1>7. CASE String!Update
  <2>. DEFINE t == SubSeq(str, 1, String!Min({j \in DOMAIN str : str[j] = String!NUL} \cup {Len(str) + 1}) - 1)
  <2>1. String!Change(String!sdsupdatelen(s), t)
    BY <1>7, Zenon DEF String!Update
  <2>2. Holds(String!sdsupdatelen(s), t)
    BY <1>1, UpdateHolds
  <2>. HIDE DEF t
  <2>. QED
    BY <1>2, <2>1, <2>2 DEF String!Change
<1>8. CASE String!Trim
  <2>1. PICK c \in Sets :
           String!Change(String!sdstrim(s, c),
                         IF String!Outer(c) = {} THEN <<>>
                         ELSE SubSeq(str, String!Min(String!Outer(c)), String!Max(String!Outer(c))))
    BY <1>8, Zenon DEF String!Trim
  <2>2. String!Outer(c) = OuterOf(str, c)
    BY DEF String!Outer, OuterOf
  <2>. DEFINE t == IF OuterOf(str, c) = {} THEN <<>>
                   ELSE SubSeq(str, String!Min(OuterOf(str, c)), String!Max(OuterOf(str, c)))
  <2>3. Holds(String!sdstrim(s, c), t)
    BY <1>1, TrimHolds
  <2>4. String!Change(String!sdstrim(s, c), t)
    BY <2>1, <2>2, Zenon
  <2>. HIDE DEF t
  <2>. QED
    BY <1>2, <2>3, <2>4 DEF String!Change
<1>9. CASE String!Slice
  <2>0. ASSUME NEW n PROVE String!Offset(n) = OffsetOf(str, n)
    BY Zenon DEF String!Offset, OffsetOf
  <2>1. PICK first \in -MaxLen - 1 .. MaxLen, last \in -MaxLen - 1 .. MaxLen :
           String!Change(String!sdsrange(s, first, last),
                         SubSeq(str, String!Offset(first) + 1, String!Min({String!Offset(last) + 1, Len(str)})))
    BY <1>9 DEF String!Slice
  <2>. DEFINE t == SubSeq(str, OffsetOf(str, first) + 1, String!Min({OffsetOf(str, last) + 1, Len(str)}))
  <2>2. first \in Int /\ last \in Int
    BY <1>0
  <2>3. Holds(String!sdsrange(s, first, last), t)
    BY <1>1, <2>2, RangeHolds
  <2>4. String!Change(String!sdsrange(s, first, last), t)
    BY <2>0, <2>1, Zenon
  <2>. HIDE DEF t
  <2>. QED
    BY <1>2, <2>3, <2>4 DEF String!Change
<1>10. CASE UNCHANGED strVars
  BY <1>1, <1>2, <1>10 DEF strVars
<1>. QED
  BY <1>3, <1>4, <1>5, <1>6, <1>7, <1>8, <1>9, <1>10 DEF String!Next

\* What the invariant says of the buffer's bytes.
LEMMA StrHoldsIt == StrWell => String!HoldsIt
<1>. SUFFICES ASSUME StrWell PROVE String!HoldsIt
  OBVIOUS
<1>1. /\ s.len \in Nat /\ s.free \in Nat /\ s.len = Len(str) /\ Len(s.buf) = Len(str) + s.free + 1
      /\ str \in Seq(Chars)
      /\ \A j \in 1 .. Len(str) : s.buf[j] = str[j] /\ str[j] \in Chars
      /\ s.buf[Len(str) + 1] = String!NUL
  BY HoldsIs DEF StrWell
<1>. DEFINE p == SubSeq(s.buf, 1, s.len + 1)
            q == Append(str, String!NUL)
<1>2. p \in Seq(Chars) /\ Len(p) = s.len + 1 /\ \A i \in 1 .. s.len + 1 : p[i] = s.buf[i]
  <2>1. 1 \in Int /\ s.len + 1 \in Int /\ 1 <= s.len + 1 /\ s.len + 1 - 1 + 1 = s.len + 1
    BY <1>1
  <2>2. ASSUME NEW i \in 1 .. s.len + 1 PROVE s.buf[i] \in Chars /\ 1 + i - 1 = i
    <3>1. CASE i = s.len + 1
      BY <1>1, <3>1, NULIs
    <3>2. CASE i # s.len + 1
      <4>1. i \in 1 .. Len(str) /\ 1 + i - 1 = i
        BY <1>1, <3>2
      <4>2. s.buf[i] = str[i] /\ str[i] \in Chars
        BY <1>1, <4>1
      <4>. QED
        BY Zenon, <4>1, <4>2
    <3>. QED
      BY <3>1, <3>2
  <2>3. /\ p \in Seq(Chars) /\ Len(p) = IF 1 <= s.len + 1 THEN s.len + 1 - 1 + 1 ELSE 0
        /\ \A i \in 1 .. s.len + 1 - 1 + 1 : p[i] = s.buf[1 + i - 1]
    BY <2>1, <2>2, SubSeqProperties
  <2>. HIDE DEF p
  <2>. QED
    BY <2>1, <2>2, <2>3
<1>3. q \in Seq(Chars) /\ Len(q) = Len(str) + 1 /\ (\A i \in 1 .. Len(str) : q[i] = str[i]) /\ q[Len(str) + 1] = String!NUL
  BY <1>1, NULIs, AppendProperties
<1>. HIDE DEF p, q
<1>4. \A i \in 1 .. Len(p) : p[i] = q[i]
  BY <1>1, <1>2, <1>3
<1>5. p = q
  BY <1>1, <1>2, <1>3, <1>4, SeqEqual
<1>6. s.free >= 0 /\ Len(s.buf) = s.len + s.free + 1
  BY <1>1
<1>. QED
  BY <1>1, <1>5, <1>6 DEF String!HoldsIt, p, q

-----------------------------------------------------------------------------
(* A loop, and what holds along it *)

\* v is what L steps of G make of a.
Follows(v, a, G, L) == v[0] = a /\ \A k \in Nat : k < L => v[k + 1] = G[<<k, v[k]>>]

\* I, of pairs of a number and a value, is kept by the steps, in X,
KeptBy(I, X, G, L) ==
    \A k \in Nat : \A x \in X :
       k < L /\ <<k, x>> \in I => G[<<k, x>>] \in X /\ <<k + 1, G[<<k, x>>]>> \in I

\* and so holds of all of them, and there is such a function.
Loops(I, X, a, G, L) ==
    /\ \E w : w = [n \in 0 .. L |-> w[n]] /\ Follows(w, a, G, L)
    /\ \A v : Follows(v, a, G, L) => \A k \in 0 .. L : v[k] \in X /\ <<k, v[k]>> \in I

\* So it does.
LEMMA Looping ==
    ASSUME NEW X, NEW a \in X, NEW L \in Nat, NEW G, NEW I,
           <<0, a>> \in I, KeptBy(I, X, G, L)
    PROVE  Loops(I, X, a, G, L)
<1>1. ASSUME NEW v, Follows(v, a, G, L)
      PROVE  \A k \in 0 .. L : v[k] \in X /\ <<k, v[k]>> \in I
  <2>. DEFINE S == {k \in Nat : k <= L => v[k] \in X /\ <<k, v[k]>> \in I}
  <2>1. 0 \in S
    BY <1>1 DEF Follows
  <2>2. ASSUME NEW k \in Nat, k \in S PROVE k + 1 \in S
    <3>. SUFFICES ASSUME k + 1 <= L PROVE v[k + 1] \in X /\ <<k + 1, v[k + 1]>> \in I
      OBVIOUS
    <3>1. k < L /\ k <= L
      OBVIOUS
    <3>2. v[k] \in X /\ <<k, v[k]>> \in I
      BY <2>2, <3>1
    <3>3. v[k + 1] = G[<<k, v[k]>>]
      BY <1>1, <3>1 DEF Follows
    <3>. QED
      BY <3>1, <3>2, <3>3 DEF KeptBy
  <2>. HIDE DEF S
  <2>3. Nat \subseteq S
    BY <2>1, <2>2, Induct
  <2>. QED
    BY <2>3 DEF S
<1>. DEFINE F == [kx \in Nat \X X |-> IF kx[1] < L /\ G[kx] \in X THEN G[kx] ELSE kx[2]]
<1>2. PICK w : w \in [Nat -> X] /\ w[0] = a /\ \A k \in Nat : w[k + 1] = F[<<k, w[k]>>]
  <2>1. F \in Rules(X)
    BY Zenon DEF Rules
  <2>. HIDE DEF F
  <2>2. \E r \in Runs(X) : r[0] = a /\ \A k \in Nat : r[k + 1] = F[<<k, r[k]>>]
    BY <2>1, Recursion
  <2>. QED
    BY Zenon, <2>2 DEF Runs
<1>3. ASSUME NEW k \in Nat, k < L, <<k, w[k]>> \in I
      PROVE  w[k + 1] = G[<<k, w[k]>>] /\ <<k + 1, w[k + 1]>> \in I
  <2>1. w[k] \in X
    BY <1>2
  <2>2. G[<<k, w[k]>>] \in X /\ <<k + 1, G[<<k, w[k]>>]>> \in I
    BY <1>3, <2>1 DEF KeptBy
  <2>3. <<k, w[k]>> \in Nat \X X /\ <<k, w[k]>>[1] = k
    BY <2>1
  <2>4. F[<<k, w[k]>>] = G[<<k, w[k]>>]
    BY Zenon, <1>3, <2>2, <2>3
  <2>. HIDE DEF F
  <2>. QED
    BY <1>2, <2>2, <2>4
<1>. HIDE DEF F
<1>4. \A k \in Nat : k < L => w[k + 1] = G[<<k, w[k]>>]
  <2>. DEFINE S == {k \in Nat : k <= L => <<k, w[k]>> \in I}
  <2>1. 0 \in S
    BY <1>2
  <2>2. ASSUME NEW k \in Nat, k \in S PROVE k + 1 \in S
    <3>1. k + 1 <= L => k < L /\ k <= L
      OBVIOUS
    <3>. QED
      BY <1>3, <2>2, <3>1
  <2>. HIDE DEF S
  <2>3. Nat \subseteq S
    BY <2>1, <2>2, Induct
  <2>4. \A k \in Nat : k < L => <<k, w[k]>> \in I
    BY <2>3 DEF S
  <2>. QED
    BY <1>3, <2>4
<1>. DEFINE ww == [n \in 0 .. L |-> w[n]]
<1>5. ww = [n \in 0 .. L |-> ww[n]]
  BY Zenon
<1>6. Follows(ww, a, G, L)
  <2>1. 0 \in 0 .. L /\ \A k \in Nat : k < L => k \in 0 .. L /\ k + 1 \in 0 .. L
    OBVIOUS
  <2>2. \A n \in 0 .. L : ww[n] = w[n]
    OBVIOUS
  <2>. HIDE DEF ww
  <2>. QED
    BY <1>2, <1>4, <2>1, <2>2 DEF Follows
<1>7. \E r : r = [n \in 0 .. L |-> r[n]] /\ Follows(r, a, G, L)
  <2>. HIDE DEF ww
  <2>. QED
    BY Zenon, <1>5, <1>6
<1>. QED
  BY Zenon, <1>1, <1>7 DEF Loops

\* sep at an offset, a character at a time.
LEMMA AtIs ==
    ASSUME NEW t \in Seq(Chars), NEW sep \in Seq(Chars), NEW j \in Nat
    PROVE  String!At(t, j, sep) <=>
              (j + Len(sep) <= Len(t) /\ \A i \in 1 .. Len(sep) : t[j + i] = sep[i])
<1>. DEFINE p == SubSeq(t, j + 1, j + Len(sep))
<1>1. Len(sep) \in Nat /\ Len(t) \in Nat /\ \A i \in 1 .. Len(t) : t[i] \in Chars
  BY LenProperties, ElementOfSeq
<1>2. ASSUME j + Len(sep) <= Len(t)
      PROVE  p \in Seq(Chars) /\ Len(p) = Len(sep) /\ \A i \in 1 .. Len(sep) : p[i] = t[j + i]
  <2>1. /\ \A i \in j + 1 .. j + Len(sep) : t[i] \in Chars
        /\ j + 1 \in Int /\ j + Len(sep) \in Int
        /\ j + Len(sep) - (j + 1) + 1 = Len(sep) /\ (~(j + 1 <= j + Len(sep)) => Len(sep) = 0)
        /\ \A i \in 1 .. Len(sep) : j + 1 + i - 1 = j + i
    BY <1>1, <1>2
  <2>2. /\ p \in Seq(Chars)
        /\ Len(p) = IF j + 1 <= j + Len(sep) THEN j + Len(sep) - (j + 1) + 1 ELSE 0
        /\ \A i \in 1 .. j + Len(sep) - (j + 1) + 1 : p[i] = t[j + 1 + i - 1]
    BY <2>1, SubSeqProperties
  <2>. HIDE DEF p
  <2>. QED
    BY <2>1, <2>2
<1>3. String!At(t, j, sep) <=> (j + Len(sep) <= Len(t) /\ p = sep)
  BY Zenon DEF String!At
<1>. HIDE DEF p
<1>4. ASSUME j + Len(sep) <= Len(t)
      PROVE  p = sep <=> \A i \in 1 .. Len(sep) : t[j + i] = sep[i]
  <2>1. ASSUME \A i \in 1 .. Len(sep) : t[j + i] = sep[i] PROVE p = sep
    <3>1. \A i \in 1 .. Len(p) : p[i] = sep[i]
      BY <1>2, <1>4, <2>1
    <3>. QED
      BY <1>2, <1>4, <3>1, SeqEqual
  <2>. QED
    BY <1>2, <1>4, <2>1
<1>. QED
  BY <1>3, <1>4

\* Part of a string.
LEMMA PartOf ==
    ASSUME NEW t \in Seq(Chars), NEW a \in Nat, NEW c \in Nat, a <= c, c <= Len(t)
    PROVE  LET p == SubSeq(t, a + 1, c) IN
           p \in Seq(Chars) /\ Len(p) = c - a /\ \A i \in 1 .. c - a : p[i] = t[a + i]
<1>. DEFINE p == SubSeq(t, a + 1, c)
<1>1. Len(t) \in Nat /\ \A i \in 1 .. Len(t) : t[i] \in Chars
  BY LenProperties, ElementOfSeq
<1>2. /\ \A i \in a + 1 .. c : t[i] \in Chars
      /\ a + 1 \in Int /\ c \in Int
      /\ c - (a + 1) + 1 = c - a /\ (~(a + 1 <= c) => c - a = 0)
      /\ \A i \in 1 .. c - a : a + 1 + i - 1 = a + i
  BY <1>1
<1>3. /\ p \in Seq(Chars)
      /\ Len(p) = IF a + 1 <= c THEN c - (a + 1) + 1 ELSE 0
      /\ \A i \in 1 .. c - (a + 1) + 1 : p[i] = t[a + 1 + i - 1]
  BY <1>2, SubSeqProperties
<1>. HIDE DEF p
<1>4. p \in Seq(Chars) /\ Len(p) = c - a /\ \A i \in 1 .. c - a : p[i] = t[a + i]
  BY <1>2, <1>3
<1>. QED
  BY <1>4 DEF p

\* sep in part of a string is sep in the string.
LEMMA AtPart ==
    ASSUME NEW t \in Seq(Chars), NEW sep \in Seq(Chars),
           NEW a \in Nat, NEW c \in Nat, a <= c, c <= Len(t), NEW j \in Nat
    PROVE  String!At(SubSeq(t, a + 1, c), j, sep) <=>
              (a + j + Len(sep) <= c /\ String!At(t, a + j, sep))
<1>. DEFINE p == SubSeq(t, a + 1, c)
<1>1. p \in Seq(Chars) /\ Len(p) = c - a /\ \A i \in 1 .. c - a : p[i] = t[a + i]
  BY PartOf
<1>. HIDE DEF p
<1>2. Len(sep) \in Nat /\ Len(t) \in Nat
  BY LenProperties
<1>3. String!At(p, j, sep) <=> (j + Len(sep) <= c - a /\ \A i \in 1 .. Len(sep) : p[j + i] = sep[i])
  BY <1>1, AtIs
<1>4. a + j \in Nat
  OBVIOUS
<1>5. String!At(t, a + j, sep) <=> (a + j + Len(sep) <= Len(t) /\ \A i \in 1 .. Len(sep) : t[a + j + i] = sep[i])
  BY <1>4, AtIs
<1>6. j + Len(sep) <= c - a <=> a + j + Len(sep) <= c
  BY <1>2
<1>7. ASSUME j + Len(sep) <= c - a, NEW i \in 1 .. Len(sep)
      PROVE  p[j + i] = t[a + j + i]
  <2>1. j + i \in 1 .. c - a /\ a + (j + i) = a + j + i
    BY <1>2, <1>7
  <2>. QED
    BY <1>1, <2>1
<1>8. a + j + Len(sep) <= c => a + j + Len(sep) <= Len(t)
  BY <1>2
<1>9. String!At(p, j, sep) <=> (a + j + Len(sep) <= c /\ String!At(t, a + j, sep))
  BY <1>3, <1>5, <1>6, <1>7, <1>8
<1>. QED
  BY <1>9 DEF p

-----------------------------------------------------------------------------
(* The tokens of a string *)

\* What sdssplitlen has found of t: tokens, and where the next one begins.
Found == [tokens : Seq(Seq(Chars)), start : Nat]

\* A token from `from', and the separator that ends it, before `to'.
EndsAt(t, sep, token, from, to) ==
    LET e == to - Len(sep) IN
    /\ e \in Nat /\ from <= e
    /\ token = SubSeq(t, from + 1, e)
    /\ String!At(t, e, sep)
    /\ \A j \in Nat : from <= j /\ j < e => ~String!At(t, j, sep)

\* The tokens begin at b[1], b[2], .. and each ends where the next separator begins.
Cut(t, sep, tokens, b) ==
    /\ tokens \in Seq(Seq(Chars)) /\ b \in Seq(Nat)
    /\ Len(b) = Len(tokens) + 1 /\ b[1] = 0
    /\ \A k \in 1 .. Len(tokens) : EndsAt(t, sep, tokens[k], b[k], b[k + 1])

\* What is known after the first n offsets.
Looked(t, sep, n, st) ==
    /\ st \in Found /\ st.start <= Len(t)
    /\ \E b : Cut(t, sep, st.tokens, b) /\ b[Len(b)] = st.start
    /\ \A j \in Nat : st.start <= j /\ j < n => ~String!At(t, j, sep)

\* What is found is made of.
LEMMA FoundIs ==
    ASSUME NEW st \in Found
    PROVE  st.tokens \in Seq(Seq(Chars)) /\ st.start \in Nat
BY DEF Found

\* One look keeps what is known.
LEMMA LookNext ==
    ASSUME NEW t \in Seq(Chars), NEW sep \in Seq(Chars), sep # <<>>,
           NEW n \in Nat, NEW st, Looked(t, sep, n, st)
    PROVE  Looked(t, sep, n + 1, String!Look(t, sep, st, n))
<1>0. /\ Len(t) \in Nat /\ Len(sep) \in Nat /\ Len(sep) >= 1
      /\ st \in Found /\ st.tokens \in Seq(Seq(Chars)) /\ st.start \in Nat /\ st.start <= Len(t)
  BY LenProperties, FoundIs DEF Looked
<1>1. CASE n < st.start \/ ~String!At(t, n, sep)
  <2>1. String!Look(t, sep, st, n) = st
    BY <1>1, Zenon DEF String!Look
  <2>2. ASSUME NEW j \in Nat, st.start <= j, j < n + 1 PROVE ~String!At(t, j, sep)
    <3>1. CASE j = n
      BY <1>0, <1>1, <2>2, <3>1
    <3>2. CASE j # n
      BY <2>2, <3>2 DEF Looked
    <3>. QED
      BY <3>1, <3>2
  <2>. QED
    BY <2>1, <2>2 DEF Looked
<1>2. CASE ~(n < st.start \/ ~String!At(t, n, sep))
  <2>. DEFINE tok == SubSeq(t, st.start + 1, n)
              tokens == Append(st.tokens, tok)
              start == n + Len(sep)
              new == [tokens |-> tokens, start |-> start]
  <2>1. String!Look(t, sep, st, n) = new
    BY <1>2, Zenon DEF String!Look
  <2>2. st.start <= n /\ n <= Len(t) /\ start <= Len(t) /\ start \in Nat /\ String!At(t, n, sep)
    <3>1. String!At(t, n, sep) /\ n + Len(sep) <= Len(t)
      BY <1>2, AtIs
    <3>. QED
      BY <1>0, <1>2, <3>1
  <2>3. tok \in Seq(Chars)
    BY <1>0, <2>2, PartOf
  <2>. HIDE DEF tok
  <2>4. /\ tokens \in Seq(Seq(Chars)) /\ Len(tokens) = Len(st.tokens) + 1
        /\ \A k \in 1 .. Len(st.tokens) : tokens[k] = st.tokens[k]
        /\ tokens[Len(st.tokens) + 1] = tok
        /\ Len(st.tokens) \in Nat
    BY <1>0, <2>3, AppendProperties, LenProperties
  <2>. HIDE DEF tokens
  <2>5. new \in Found /\ new.tokens = tokens /\ new.start = start
    BY <2>2, <2>4 DEF Found
  <2>6. PICK b : Cut(t, sep, st.tokens, b) /\ b[Len(b)] = st.start
    BY DEF Looked
  <2>. DEFINE c == Append(b, start)
              N == Len(st.tokens)
  <2>7. b \in Seq(Nat) /\ Len(b) = N + 1 /\ b[1] = 0 /\ b[N + 1] = st.start
    BY <2>4, <2>6 DEF Cut
  <2>8. /\ c \in Seq(Nat) /\ Len(c) = N + 2
        /\ \A k \in 1 .. N + 1 : c[k] = b[k]
        /\ c[N + 2] = start
    <3>1. /\ c \in Seq(Nat) /\ Len(c) = Len(b) + 1
          /\ (\A k \in 1 .. Len(b) : c[k] = b[k]) /\ c[Len(b) + 1] = start
      BY <2>2, <2>7, AppendProperties
    <3>2. N + 1 + 1 = N + 2
      BY <2>4
    <3>. HIDE DEF c, start
    <3>. QED
      BY <2>4, <2>7, <3>1, <3>2
  <2>. HIDE DEF c
  <2>9. ASSUME NEW k \in 1 .. N + 1
        PROVE  EndsAt(t, sep, tokens[k], c[k], c[k + 1])
    <3>1. CASE k = N + 1
      <4>1. c[k] = st.start /\ c[k + 1] = start /\ tokens[k] = tok
        <5>1. N + 1 \in 1 .. N + 1 /\ (N + 1) + 1 = N + 2
          BY <2>4
        <5>. HIDE DEF start, N
        <5>2. c[N + 1] = b[N + 1] /\ c[(N + 1) + 1] = start
          BY <2>8, <5>1
        <5>3. tokens[N + 1] = tok
          BY <2>4 DEF N
        <5>. QED
          BY <2>7, <3>1, <5>2, <5>3
      <4>3. \A j \in Nat : st.start <= j /\ j < n => ~String!At(t, j, sep)
        BY DEF Looked
      <4>4. EndsAt(t, sep, tok, st.start, start)
        <5>1. start - Len(sep) = n
          BY <1>0
        <5>. HIDE DEF start
        <5>. QED
          BY <2>2, <4>3, <5>1, Zenon DEF EndsAt, tok
      <4>. QED
        BY <4>1, <4>4, Zenon
    <3>2. CASE k # N + 1
      <4>1. k \in 1 .. N /\ k + 1 \in 1 .. N + 1
        BY <2>4, <3>2
      <4>2. c[k] = b[k] /\ c[k + 1] = b[k + 1] /\ tokens[k] = st.tokens[k]
        BY <2>4, <2>8, <4>1
      <4>. QED
        BY Zenon, <2>6, <4>1, <4>2 DEF Cut
    <3>. QED
      BY <3>1, <3>2
  <2>10. Cut(t, sep, tokens, c) /\ c[Len(c)] = start
    <3>1. Len(tokens) = N + 1 /\ Len(c) = Len(tokens) + 1 /\ c[1] = 0 /\ c[Len(c)] = start
      <4>1. N \in Nat /\ 1 \in 1 .. N + 1 /\ (N + 1) + 1 = N + 2 /\ Len(tokens) = N + 1
        BY <2>4
      <4>. HIDE DEF start, N
      <4>. QED
        BY <2>7, <2>8, <4>1
    <3>2. \A k \in 1 .. Len(tokens) : EndsAt(t, sep, tokens[k], c[k], c[k + 1])
      BY <2>9, <3>1
    <3>. HIDE DEF N, start
    <3>. QED
      BY Zenon, <2>4, <2>8, <3>1, <3>2 DEF Cut
  <2>11. \A j \in Nat : start <= j /\ j < n + 1 => ~String!At(t, j, sep)
    BY <1>0
  <2>. HIDE DEF start, new
  <2>. QED
    BY Zenon, <2>1, <2>2, <2>5, <2>10, <2>11 DEF Looked
<1>. QED
  BY <1>1, <1>2

\* Before the first look.
LEMMA LookFirst ==
    ASSUME NEW t \in Seq(Chars), NEW sep \in Seq(Chars)
    PROVE  Looked(t, sep, 0, [tokens |-> <<>>, start |-> 0])
<1>. DEFINE st == [tokens |-> <<>>, start |-> 0]
            b == <<0>>
<1>1. st \in Found /\ st.start = 0 /\ st.tokens = <<>> /\ 0 <= Len(t)
  BY LenProperties DEF Found
<1>2. /\ <<>> \in Seq(Seq(Chars)) /\ b \in Seq(Nat) /\ Len(b) = Len(<<>>) + 1 /\ b[1] = 0 /\ b[Len(b)] = 0
      /\ 1 .. Len(<<>>) = {}
  OBVIOUS
<1>. HIDE DEF b
<1>3. Cut(t, sep, <<>>, b)
  BY <1>2 DEF Cut
<1>4. \A j \in Nat : ~(0 <= j /\ j < 0)
  OBVIOUS
<1>. HIDE DEF st
<1>5. Looked(t, sep, 0, st)
  BY <1>1, <1>2, <1>3, <1>4 DEF Looked
<1>. QED
  BY <1>5 DEF st

\* The tokens of t: they begin at b and end at e, and a separator begins only there.
Divided(t, sep, tokens, b, e) ==
    /\ tokens \in Seq(Seq(Chars)) /\ Len(tokens) >= 1
    /\ b \in [1 .. Len(tokens) -> Nat] /\ e \in [1 .. Len(tokens) -> Nat]
    /\ b[1] = 0 /\ e[Len(tokens)] = Len(t)
    /\ \A k \in 1 .. Len(tokens) :
          /\ b[k] <= e[k] /\ e[k] <= Len(t)
          /\ tokens[k] = SubSeq(t, b[k] + 1, e[k])
          /\ \A j \in Nat : b[k] <= j /\ j < e[k] => ~String!At(t, j, sep)
    /\ \A k \in 1 .. Len(tokens) - 1 :
          b[k + 1] = e[k] + Len(sep) /\ String!At(t, e[k], sep)

\* sdssplitlen divides the string so.
LEMMA SplitDivides ==
    ASSUME NEW t \in Seq(Chars), t # <<>>, NEW sep \in Seq(Chars), sep # <<>>
    PROVE  \E b, e : Divided(t, sep, String!sdssplitlen(t, sep), b, e)
<1>. DEFINE n == String!Looks(t, sep)
            a == [tokens |-> <<>>, start |-> 0]
            G == [kx \in Nat \X Found |-> String!Look(t, sep, kx[2], kx[1])]
            I == {kx \in Nat \X Found : Looked(t, sep, kx[1], kx[2])}
            E(u) == [m \in 0 .. n |-> IF m = 0 THEN a ELSE String!Look(t, sep, u[m - 1], m - 1)]
<1>0. Len(t) \in Nat /\ Len(sep) \in Nat /\ Len(sep) >= 1
  BY LenProperties
<1>1. n \in Nat /\ n > Len(t) - Len(sep)
  BY <1>0 DEF String!Looks
<1>2. a \in Found /\ <<0, a>> \in I
  <2>1. Looked(t, sep, 0, a)
    BY LookFirst
  <2>2. a \in Found
    BY DEF Found
  <2>. HIDE DEF a
  <2>. QED
    BY <2>1, <2>2
<1>. HIDE DEF a, n
<1>3. ASSUME NEW k \in Nat, NEW x \in Found
      PROVE  G[<<k, x>>] = String!Look(t, sep, x, k)
  <2>1. <<k, x>> \in Nat \X Found /\ <<k, x>>[1] = k /\ <<k, x>>[2] = x
    OBVIOUS
  <2>. QED
    BY Zenon, <2>1
<1>4. ASSUME NEW k \in Nat, NEW x \in Found, k < n, <<k, x>> \in I
      PROVE  G[<<k, x>>] \in Found /\ <<k + 1, G[<<k, x>>]>> \in I
  <2>1. Looked(t, sep, k, x)
    BY <1>4
  <2>2. Looked(t, sep, k + 1, String!Look(t, sep, x, k))
    BY <2>1, LookNext
  <2>3. String!Look(t, sep, x, k) \in Found
    BY <2>2 DEF Looked
  <2>. HIDE DEF G
  <2>. QED
    BY <1>3, <2>2, <2>3
<1>. HIDE DEF G, I
<1>5. Loops(I, Found, a, G, n)
  <2>1. KeptBy(I, Found, G, n)
    BY <1>4 DEF KeptBy
  <2>. QED
    BY <1>1, <1>2, <2>1, Looping
<1>6. PICK w : w = [k \in 0 .. n |-> w[k]] /\ Follows(w, a, G, n)
  BY <1>5, Zenon DEF Loops
<1>7. w = E(w)
  <2>1. ASSUME NEW m \in 0 .. n
        PROVE  w[m] = IF m = 0 THEN a ELSE String!Look(t, sep, w[m - 1], m - 1)
    <3>1. CASE m = 0
      BY <1>6, <3>1 DEF Follows
    <3>2. CASE m # 0
      <4>1. m - 1 \in Nat /\ m - 1 < n /\ (m - 1) + 1 = m /\ m - 1 \in 0 .. n
        BY <1>1, <3>2
      <4>2. w[m - 1] \in Found
        BY <1>5, <1>6, <4>1 DEF Loops
      <4>3. w[m] = G[<<m - 1, w[m - 1]>>]
        BY <1>6, <4>1 DEF Follows
      <4>4. G[<<m - 1, w[m - 1]>>] = String!Look(t, sep, w[m - 1], m - 1)
        BY <1>3, <4>1, <4>2
      <4>. QED
        BY <3>2, <4>3, <4>4
    <3>. QED
      BY <3>1, <3>2
  <2>. QED
    BY Zenon, <1>6, <2>1
<1>8. PICK u : u = E(u) /\ String!sdssplitlen(t, sep) = Append(u[n].tokens, SubSeq(t, u[n].start + 1, Len(t)))
  <2>1. \E u : u = E(u)
    BY Zenon, <1>7
  <2>. QED
    BY Zenon, <2>1 DEF String!sdssplitlen, E, n, a
<1>9. u[0] = a /\ \A k \in Nat : k < n => u[k + 1] = String!Look(t, sep, u[k], k)
  <2>1. 0 \in 0 .. n /\ \A k \in Nat : k < n => k + 1 \in 0 .. n /\ k + 1 # 0 /\ (k + 1) - 1 = k
    BY <1>1
  <2>2. \A m \in 0 .. n : u[m] = IF m = 0 THEN a ELSE String!Look(t, sep, u[m - 1], m - 1)
    BY Zenon, <1>8
  <2>3. u[0] = a
    BY Zenon, <2>1, <2>2
  <2>4. ASSUME NEW k \in Nat, k < n PROVE u[k + 1] = String!Look(t, sep, u[k], k)
    BY Zenon, <2>1, <2>2, <2>4
  <2>. QED
    BY <2>3, <2>4
<1>. HIDE DEF E
<1>10. Looked(t, sep, n, u[n])
  <2>. DEFINE S == {k \in Nat : k <= n => Looked(t, sep, k, u[k])}
  <2>1. 0 \in S
    BY <1>9, LookFirst DEF a
  <2>2. ASSUME NEW k \in Nat, k \in S PROVE k + 1 \in S
    <3>. SUFFICES ASSUME k + 1 <= n PROVE Looked(t, sep, k + 1, u[k + 1])
      OBVIOUS
    <3>1. k < n /\ k <= n
      BY <1>1
    <3>2. Looked(t, sep, k + 1, String!Look(t, sep, u[k], k))
      BY <2>2, <3>1, LookNext
    <3>. QED
      BY <1>9, <3>1, <3>2
  <2>. HIDE DEF S
  <2>3. Nat \subseteq S
    BY <2>1, <2>2, Induct
  <2>4. n <= n
    BY <1>1
  <2>. QED
    BY <1>1, <2>3, <2>4 DEF S
<1>. DEFINE st == u[n]
            tok == SubSeq(t, st.start + 1, Len(t))
            tokens == Append(st.tokens, tok)
<1>11. /\ st.tokens \in Seq(Seq(Chars)) /\ st.start \in Nat /\ st.start <= Len(t)
       /\ \A j \in Nat : st.start <= j /\ j < n => ~String!At(t, j, sep)
  BY <1>10, FoundIs DEF Looked
<1>12. PICK c : Cut(t, sep, st.tokens, c) /\ c[Len(c)] = st.start
  BY <1>10 DEF Looked
<1>. HIDE DEF st
<1>13. tok \in Seq(Chars)
  BY <1>0, <1>11, PartOf
<1>. HIDE DEF tok
<1>14. /\ tokens \in Seq(Seq(Chars)) /\ Len(tokens) = Len(st.tokens) + 1
       /\ \A k \in 1 .. Len(st.tokens) : tokens[k] = st.tokens[k]
       /\ tokens[Len(st.tokens) + 1] = tok
       /\ Len(st.tokens) \in Nat
  BY <1>11, <1>13, AppendProperties, LenProperties
<1>. HIDE DEF tokens
<1>. DEFINE N == Len(st.tokens)
            b == [k \in 1 .. N + 1 |-> c[k]]
            e == [k \in 1 .. N + 1 |-> IF k = N + 1 THEN Len(t) ELSE c[k + 1] - Len(sep)]
<1>15. c \in Seq(Nat) /\ Len(c) = N + 1 /\ c[1] = 0 /\ c[N + 1] = st.start
  BY <1>12, <1>14 DEF Cut
<1>16. ASSUME NEW k \in 1 .. N
       PROVE  /\ c[k + 1] - Len(sep) \in Nat /\ c[k] <= c[k + 1] - Len(sep)
              /\ st.tokens[k] = SubSeq(t, c[k] + 1, c[k + 1] - Len(sep))
              /\ String!At(t, c[k + 1] - Len(sep), sep)
              /\ \A j \in Nat : c[k] <= j /\ j < c[k + 1] - Len(sep) => ~String!At(t, j, sep)
  BY <1>12 DEF Cut, EndsAt
<1>17. \A k \in 1 .. N + 1 : c[k] \in Nat
  BY <1>15, ElementOfSeq
<1>18. b \in [1 .. N + 1 -> Nat] /\ e \in [1 .. N + 1 -> Nat]
  <2>1. \A k \in 1 .. N + 1 : k # N + 1 => k \in 1 .. N
    BY <1>14
  <2>2. \A k \in 1 .. N + 1 : (IF k = N + 1 THEN Len(t) ELSE c[k + 1] - Len(sep)) \in Nat
    BY <1>0, <1>16, <2>1
  <2>. QED
    BY <1>17, <2>2, Zenon
<1>19. \A k \in 1 .. N + 1 : b[k] = c[k] /\ e[k] = IF k = N + 1 THEN Len(t) ELSE c[k + 1] - Len(sep)
  OBVIOUS
<1>. HIDE DEF b, e
<1>20. b[1] = 0 /\ e[N + 1] = Len(t)
  <2>1. 1 \in 1 .. N + 1 /\ N + 1 \in 1 .. N + 1
    BY <1>14
  <2>. QED
    BY <1>15, <1>19, <2>1
<1>21. ASSUME NEW k \in 1 .. N + 1
       PROVE  /\ b[k] <= e[k] /\ e[k] <= Len(t)
              /\ tokens[k] = SubSeq(t, b[k] + 1, e[k])
              /\ \A j \in Nat : b[k] <= j /\ j < e[k] => ~String!At(t, j, sep)
  <2>1. CASE k = N + 1
    <3>1. b[k] = st.start /\ e[k] = Len(t) /\ tokens[k] = tok
      BY <1>14, <1>15, <1>19, <2>1
    <3>2. ASSUME NEW j \in Nat, st.start <= j PROVE ~String!At(t, j, sep)
      <4>1. CASE j < n
        BY <1>11, <3>2, <4>1
      <4>2. CASE ~(j < n)
        <5>1. ~(j + Len(sep) <= Len(t))
          BY <1>0, <1>1, <4>2
        <5>. QED
          BY <5>1, AtIs
      <4>. QED
        BY <4>1, <4>2
    <3>. QED
      BY <1>0, <1>11, <3>1, <3>2 DEF tok
  <2>2. CASE k # N + 1
    <3>1. k \in 1 .. N
      BY <1>14, <2>2
    <3>2. b[k] = c[k] /\ e[k] = c[k + 1] - Len(sep) /\ tokens[k] = st.tokens[k]
      BY <1>14, <1>19, <2>2, <3>1
    <3>3. e[k] \in Nat /\ b[k] <= e[k] /\ String!At(t, e[k], sep)
      BY <1>16, <3>1, <3>2
    <3>4. e[k] + Len(sep) <= Len(t)
      BY <3>3, AtIs
    <3>5. e[k] <= Len(t)
      BY <1>0, <3>3, <3>4
    <3>. QED
      BY <1>16, <3>1, <3>2, <3>3, <3>5
  <2>. QED
    BY <2>1, <2>2
<1>22. ASSUME NEW k \in 1 .. N
       PROVE  b[k + 1] = e[k] + Len(sep) /\ String!At(t, e[k], sep)
  <2>1. k \in 1 .. N + 1 /\ k # N + 1 /\ k + 1 \in 1 .. N + 1
    BY <1>14
  <2>2. b[k + 1] = c[k + 1] /\ e[k] = c[k + 1] - Len(sep)
    BY <1>19, <2>1
  <2>3. c[k + 1] \in Nat
    BY <1>17, <2>1
  <2>4. b[k + 1] = e[k] + Len(sep)
    BY <1>0, <2>2, <2>3
  <2>. QED
    BY <1>16, <2>2, <2>4
<1>23. Divided(t, sep, tokens, b, e)
  <2>1. Len(tokens) = N + 1 /\ N + 1 >= 1 /\ (N + 1) - 1 = N
    BY <1>14
  <2>. HIDE DEF N
  <2>. QED
    BY <1>14, <1>18, <1>20, <1>21, <1>22, <2>1 DEF Divided
<1>24. String!sdssplitlen(t, sep) = tokens
  BY <1>8, Zenon DEF tokens, tok, st
<1>. QED
  BY Zenon, <1>23, <1>24

\* The tokens up to one, with the separators between them, are the string up to its end.
LEMMA Joins ==
    ASSUME NEW t \in Seq(Chars), NEW sep \in Seq(Chars),
           NEW a \in Nat, NEW c \in Nat, String!At(t, a, sep), a + Len(sep) <= c, c <= Len(t)
    PROVE  SubSeq(t, 1, a) \o sep \o SubSeq(t, a + Len(sep) + 1, c) = SubSeq(t, 1, c)
<1>. DEFINE p == SubSeq(t, 1, a)
            q == SubSeq(t, a + Len(sep) + 1, c)
            r == SubSeq(t, 1, c)
            m == p \o sep
<1>0. Len(t) \in Nat /\ Len(sep) \in Nat
  BY LenProperties
<1>1. p \in Seq(Chars) /\ Len(p) = a /\ \A i \in 1 .. a : p[i] = t[i]
  <2>1. 0 \in Nat /\ 0 <= a /\ a <= Len(t)
    BY <1>0
  <2>2. LET z == SubSeq(t, 0 + 1, a)
        IN  z \in Seq(Chars) /\ Len(z) = a - 0 /\ \A i \in 1 .. a - 0 : z[i] = t[0 + i]
    BY <2>1, PartOf
  <2>3. 0 + 1 = 1 /\ a - 0 = a /\ \A i \in 1 .. a : 0 + i = i
    OBVIOUS
  <2>. QED
    BY <2>2, <2>3
<1>2. r \in Seq(Chars) /\ Len(r) = c /\ \A i \in 1 .. c : r[i] = t[i]
  <2>1. 0 \in Nat /\ 0 <= c /\ c <= Len(t)
    BY <1>0
  <2>2. LET z == SubSeq(t, 0 + 1, c)
        IN  z \in Seq(Chars) /\ Len(z) = c - 0 /\ \A i \in 1 .. c - 0 : z[i] = t[0 + i]
    BY <2>1, PartOf
  <2>3. 0 + 1 = 1 /\ c - 0 = c /\ \A i \in 1 .. c : 0 + i = i
    OBVIOUS
  <2>. QED
    BY <2>2, <2>3
<1>3. /\ q \in Seq(Chars) /\ Len(q) = c - (a + Len(sep))
      /\ \A i \in 1 .. c - (a + Len(sep)) : q[i] = t[a + Len(sep) + i]
  <2>1. a + Len(sep) \in Nat
    BY <1>0
  <2>. QED
    BY <2>1, PartOf
<1>4. \A i \in 1 .. Len(sep) : t[a + i] = sep[i]
  BY AtIs
<1>. HIDE DEF p, q, r
<1>5. /\ m \in Seq(Chars) /\ Len(m) = a + Len(sep)
      /\ \A i \in 1 .. a + Len(sep) : m[i] = IF i <= a THEN p[i] ELSE sep[i - a]
  <2>1. /\ m \in Seq(Chars) /\ Len(m) = Len(p) + Len(sep)
        /\ \A i \in 1 .. Len(p) + Len(sep) : m[i] = IF i <= Len(p) THEN p[i] ELSE sep[i - Len(p)]
    BY <1>1, ConcatProperties
  <2>. HIDE DEF m
  <2>. QED
    BY <1>1, <2>1
<1>6. ASSUME NEW i \in 1 .. a + Len(sep) PROVE m[i] = t[i]
  <2>. HIDE DEF m
  <2>1. CASE i <= a
    <3>1. i \in 1 .. a
      BY <2>1
    <3>. QED
      BY <1>1, <1>5, <2>1, <3>1
  <2>2. CASE ~(i <= a)
    <3>1. i - a \in 1 .. Len(sep) /\ a + (i - a) = i
      BY <1>0, <2>2
    <3>. QED
      BY <1>4, <1>5, <2>2, <3>1
  <2>. QED
    BY <2>1, <2>2
<1>. HIDE DEF m
<1>7. /\ m \o q \in Seq(Chars) /\ Len(m \o q) = Len(m) + Len(q)
      /\ \A i \in 1 .. Len(m) + Len(q) : (m \o q)[i] = IF i <= Len(m) THEN m[i] ELSE q[i - Len(m)]
  <2>1. m \in Seq(Chars) /\ q \in Seq(Chars)
    BY <1>3, <1>5
  <2>. QED
    BY <2>1, ConcatProperties
<1>8. Len(m) + Len(q) = c
  BY <1>0, <1>3, <1>5
<1>9. ASSUME NEW i \in 1 .. c PROVE (m \o q)[i] = t[i]
  <2>1. CASE i <= Len(m)
    <3>1. i \in 1 .. a + Len(sep)
      BY <1>5, <2>1
    <3>. QED
      BY <1>6, <1>7, <1>8, <2>1, <3>1
  <2>2. CASE ~(i <= Len(m))
    <3>1. i - Len(m) \in 1 .. c - (a + Len(sep)) /\ a + Len(sep) + (i - Len(m)) = i
      BY <1>0, <1>5, <2>2
    <3>. QED
      BY <1>3, <1>7, <1>8, <2>2, <3>1
  <2>. QED
    BY <2>1, <2>2
<1>10. m \o q = r
  <2>1. Len(m \o q) = Len(r) /\ \A i \in 1 .. Len(m \o q) : (m \o q)[i] = r[i]
    BY <1>2, <1>7, <1>8, <1>9
  <2>. QED
    BY <1>2, <1>7, <2>1, SeqEqual
<1>. QED
  BY <1>10 DEF m, p, q, r

\* A token and what follows it are the string up to there.
LEMMA TokenThenSep ==
    ASSUME NEW t \in Seq(Chars), NEW sep \in Seq(Chars),
           NEW b \in Nat, NEW e \in Nat, b <= e, String!At(t, e, sep)
    PROVE  SubSeq(t, b + 1, e) \o sep = SubSeq(t, b + 1, e + Len(sep))
<1>. DEFINE p == SubSeq(t, b + 1, e)
            r == SubSeq(t, b + 1, e + Len(sep))
<1>0. Len(t) \in Nat /\ Len(sep) \in Nat /\ e + Len(sep) <= Len(t) /\ \A i \in 1 .. Len(sep) : t[e + i] = sep[i]
  BY LenProperties, AtIs
<1>1. p \in Seq(Chars) /\ Len(p) = e - b /\ \A i \in 1 .. e - b : p[i] = t[b + i]
  <2>1. e <= Len(t)
    BY <1>0
  <2>. QED
    BY <2>1, PartOf
<1>2. r \in Seq(Chars) /\ Len(r) = e + Len(sep) - b /\ \A i \in 1 .. e + Len(sep) - b : r[i] = t[b + i]
  <2>1. e + Len(sep) \in Nat /\ b <= e + Len(sep)
    BY <1>0
  <2>. QED
    BY <1>0, <2>1, PartOf
<1>. HIDE DEF p, r
<1>3. /\ p \o sep \in Seq(Chars) /\ Len(p \o sep) = Len(p) + Len(sep)
      /\ \A i \in 1 .. Len(p) + Len(sep) : (p \o sep)[i] = IF i <= Len(p) THEN p[i] ELSE sep[i - Len(p)]
  BY <1>1, ConcatProperties
<1>4. Len(p) + Len(sep) = e + Len(sep) - b
  BY <1>0, <1>1
<1>5. ASSUME NEW i \in 1 .. e + Len(sep) - b PROVE (p \o sep)[i] = r[i]
  <2>1. CASE i <= Len(p)
    <3>1. i \in 1 .. e - b
      BY <1>1, <2>1
    <3>. QED
      BY <1>1, <1>2, <1>3, <1>4, <2>1, <3>1
  <2>2. CASE ~(i <= Len(p))
    <3>1. i - Len(p) \in 1 .. Len(sep) /\ e + (i - Len(p)) = b + i
      BY <1>0, <1>1, <2>2
    <3>. QED
      BY <1>0, <1>2, <1>3, <1>4, <2>2, <3>1
  <2>. QED
    BY <2>1, <2>2
<1>6. p \o sep = r
  <2>1. Len(p \o sep) = Len(r) /\ \A i \in 1 .. Len(p \o sep) : (p \o sep)[i] = r[i]
    BY <1>2, <1>3, <1>4, <1>5
  <2>. QED
    BY <1>2, <1>3, <2>1, SeqEqual
<1>. QED
  BY <1>6 DEF p, r

\* What is known of one token.
LEMMA DividedIs ==
    ASSUME NEW t \in Seq(Chars), NEW sep \in Seq(Chars), sep # <<>>,
           NEW tokens, NEW b, NEW e, Divided(t, sep, tokens, b, e),
           NEW k \in 1 .. Len(tokens)
    PROVE  /\ b[k] \in Nat /\ e[k] \in Nat /\ b[k] <= e[k] /\ e[k] <= Len(t)
           /\ tokens[k] = SubSeq(t, b[k] + 1, e[k])
           /\ tokens[k] \in Seq(Chars) /\ Len(tokens[k]) = e[k] - b[k]
           /\ \A j \in Nat : b[k] <= j /\ j < e[k] => ~String!At(t, j, sep)
<1>1. b[k] \in Nat /\ e[k] \in Nat
  BY DEF Divided
<1>2. /\ b[k] <= e[k] /\ e[k] <= Len(t)
      /\ tokens[k] = SubSeq(t, b[k] + 1, e[k])
      /\ \A j \in Nat : b[k] <= j /\ j < e[k] => ~String!At(t, j, sep)
  BY DEF Divided
<1>3. SubSeq(t, b[k] + 1, e[k]) \in Seq(Chars) /\ Len(SubSeq(t, b[k] + 1, e[k])) = e[k] - b[k]
  BY <1>1, <1>2, PartOf
<1>. QED
  BY <1>1, <1>2, <1>3

\* Where sep is in t.
Offsets(t, sep) == {j \in 0 .. Len(t) : String!At(t, j, sep)}

\* It is nowhere from x to before y.
NoneIn(t, sep, x, y) == \A j \in Nat : x <= j /\ j < y => ~String!At(t, j, sep)

\* A token ends where the first separator begins.
LEMMA FirstIn ==
    ASSUME NEW t \in Seq(Chars), NEW sep \in Seq(Chars), NEW x \in Nat, NEW y \in Nat, x <= y, y <= Len(t),
           NoneIn(t, sep, x, y), String!At(t, y, sep)
    PROVE  String!Min(Offsets(SubSeq(t, x + 1, y) \o sep, sep)) = Len(SubSeq(t, x + 1, y))
<1>0. PICK token \in Seq(Chars) : token = SubSeq(t, x + 1, y)
  BY PartOf
<1>. DEFINE S == {j \in 0 .. Len(token \o sep) : String!At(token \o sep, j, sep)}
<1>1. PICK n \in Nat : n = Len(token)
  BY LenProperties
<1>2. PICK l \in Nat : l = Len(sep)
  BY LenProperties
<1>3. y + l <= Len(t) /\ Len(t) \in Nat
  BY <1>2, AtIs, LenProperties
<1>4. n = y - x
  <2>1. Len(SubSeq(t, x + 1, y)) = y - x
    BY PartOf
  <2>. QED
    BY <1>0, <1>1, <2>1
<1>5. token \o sep = SubSeq(t, x + 1, y + l)
  <2>1. SubSeq(t, x + 1, y) \o sep = SubSeq(t, x + 1, y + Len(sep))
    BY TokenThenSep
  <2>. QED
    BY <1>0, <1>2, <2>1
<1>6. ASSUME NEW j \in Nat
      PROVE  String!At(token \o sep, j, sep) <=> (x + j + l <= y + l /\ String!At(t, x + j, sep))
  <2>1. y + l \in Nat /\ x <= y + l
    OBVIOUS
  <2>2. String!At(SubSeq(t, x + 1, y + l), j, sep) <=> (x + j + Len(sep) <= y + l /\ String!At(t, x + j, sep))
    BY <1>3, <2>1, AtPart
  <2>. QED
    BY <1>2, <1>5, <2>2
<1>7. Len(token \o sep) = n + l
  BY <1>1, <1>2, ConcatProperties
<1>8. n \in S
  <2>1. x + n = y /\ n \in 0 .. n + l /\ x + n + l <= y + l
    BY <1>4
  <2>. QED
    BY <1>6, <1>7, <2>1
<1>9. ASSUME NEW j \in S PROVE n <= j
  <2>1. j \in 0 .. n + l /\ String!At(token \o sep, j, sep)
    BY <1>7
  <2>2. j \in Nat /\ x + j \in Nat /\ x <= x + j
    BY <2>1
  <2>3. String!At(t, x + j, sep)
    BY <1>6, <2>1, <2>2
  <2>4. ~(x + j < y)
    BY <2>2, <2>3 DEF NoneIn
  <2>. QED
    BY <1>4, <2>2, <2>4
<1>10. S \subseteq Int
  BY <1>7
<1>. HIDE DEF S
<1>11. String!Min(S) = n
  BY <1>8, <1>9, <1>10, StrMinIs
<1>. QED
  BY <1>0, <1>1, <1>11, Zenon DEF S, Offsets

\* So it is of the tokens of a string.
LEMMA FirstSep ==
    ASSUME NEW t \in Seq(Chars), NEW sep \in Seq(Chars), sep # <<>>,
           NEW tokens, NEW b, NEW e, Divided(t, sep, tokens, b, e),
           NEW k \in 1 .. Len(tokens) - 1
    PROVE  String!Min(Offsets(tokens[k] \o sep, sep)) = Len(tokens[k])
<1>1. Len(tokens) \in Nat /\ k \in 1 .. Len(tokens)
  <2>1. Len(tokens) \in Nat
    BY LenProperties DEF Divided
  <2>. QED
    BY <2>1
<1>2. /\ b[k] \in Nat /\ e[k] \in Nat /\ b[k] <= e[k] /\ e[k] <= Len(t)
      /\ tokens[k] = SubSeq(t, b[k] + 1, e[k])
      /\ tokens[k] \in Seq(Chars)
      /\ \A j \in Nat : b[k] <= j /\ j < e[k] => ~String!At(t, j, sep)
  BY <1>1, DividedIs
<1>3. String!At(t, e[k], sep)
  BY DEF Divided
<1>4. NoneIn(t, sep, b[k], e[k])
  BY <1>2 DEF NoneIn
<1>5. String!Min(Offsets(SubSeq(t, b[k] + 1, e[k]) \o sep, sep)) = Len(SubSeq(t, b[k] + 1, e[k]))
  BY <1>2, <1>3, <1>4, FirstIn
<1>. QED
  BY <1>2, <1>5, Zenon

\* In the last one there is none.
LEMMA LastSep ==
    ASSUME NEW t \in Seq(Chars), NEW sep \in Seq(Chars), sep # <<>>,
           NEW tokens, NEW b, NEW e, Divided(t, sep, tokens, b, e)
    PROVE  Offsets(String!Last(tokens), sep) = {}
<1>. DEFINE k == Len(tokens)
            last == tokens[k]
<1>0. k \in Nat /\ k >= 1 /\ k \in 1 .. Len(tokens)
  <2>1. Len(tokens) \in Nat /\ Len(tokens) >= 1
    BY LenProperties DEF Divided
  <2>. QED
    BY <2>1
<1>. HIDE DEF k
<1>1. /\ b[k] \in Nat /\ e[k] \in Nat /\ b[k] <= e[k] /\ e[k] <= Len(t)
      /\ tokens[k] = SubSeq(t, b[k] + 1, e[k])
      /\ tokens[k] \in Seq(Chars) /\ Len(tokens[k]) = e[k] - b[k]
      /\ \A j \in Nat : b[k] <= j /\ j < e[k] => ~String!At(t, j, sep)
  BY <1>0, DividedIs
<1>2. Len(sep) \in Nat /\ Len(sep) >= 1
  BY LenProperties
<1>3. ASSUME NEW j \in 0 .. Len(last), String!At(last, j, sep) PROVE FALSE
  <2>1. j \in Nat
    BY <1>1
  <2>2. String!At(SubSeq(t, b[k] + 1, e[k]), j, sep) <=> (b[k] + j + Len(sep) <= e[k] /\ String!At(t, b[k] + j, sep))
    BY <1>1, <2>1, AtPart
  <2>3. b[k] + j + Len(sep) <= e[k] /\ String!At(t, b[k] + j, sep)
    BY <1>1, <1>3, <2>2
  <2>4. b[k] + j \in Nat /\ b[k] <= b[k] + j /\ b[k] + j < e[k]
    BY <1>1, <1>2, <2>1, <2>3
  <2>. QED
    BY <1>1, <2>3, <2>4
<1>4. String!Last(tokens) = last
  BY DEF String!Last, k
<1>. HIDE DEF last
<1>. QED
  BY <1>3, <1>4 DEF Offsets

\* The tokens with the separators between them are the string.
LEMMA JoinedIs ==
    ASSUME NEW t \in Seq(Chars), NEW sep \in Seq(Chars), sep # <<>>,
           NEW tokens, NEW b, NEW e, Divided(t, sep, tokens, b, e)
    PROVE  LET joined[n \in 1 .. Len(tokens)] ==
                  IF n = 1 THEN tokens[1] ELSE joined[n - 1] \o sep \o tokens[n]
           IN  joined[Len(tokens)] = t
<1>. DEFINE N == Len(tokens)
            v == [n \in 1 .. N |-> SubSeq(t, 1, e[n])]
            J(u) == [n \in 1 .. N |-> IF n = 1 THEN tokens[1] ELSE u[n - 1] \o sep \o tokens[n]]
            joined == CHOOSE u : u = J(u)
<1>0. N \in Nat /\ N >= 1
  BY LenProperties DEF Divided
<1>. HIDE DEF N
<1>1. \A k \in 1 .. N : /\ b[k] \in Nat /\ e[k] \in Nat /\ b[k] <= e[k] /\ e[k] <= Len(t)
                        /\ tokens[k] = SubSeq(t, b[k] + 1, e[k])
  BY DividedIs DEF N
<1>2. b[1] = 0 /\ e[N] = Len(t) /\ \A k \in 1 .. N - 1 : b[k + 1] = e[k] + Len(sep) /\ String!At(t, e[k], sep)
  BY DEF Divided, N
<1>3. tokens[1] = SubSeq(t, 1, e[1])
  <2>1. 1 \in 1 .. N /\ 0 + 1 = 1
    BY <1>0
  <2>. QED
    BY <1>1, <1>2, <2>1
<1>4. ASSUME NEW n \in 1 .. N, n # 1
      PROVE  SubSeq(t, 1, e[n - 1]) \o sep \o tokens[n] = SubSeq(t, 1, e[n])
  <2>1. PICK k : k = n - 1
    OBVIOUS
  <2>2. k \in 1 .. N - 1 /\ k \in 1 .. N /\ k + 1 = n
    BY <1>0, <1>4, <2>1
  <2>3. b[n] = e[k] + Len(sep) /\ String!At(t, e[k], sep)
    BY <1>2, <2>2
  <2>4. e[k] \in Nat /\ e[n] \in Nat /\ e[k] + Len(sep) <= e[n] /\ e[n] <= Len(t)
    BY <1>1, <2>2, <2>3
  <2>5. SubSeq(t, 1, e[k]) \o sep \o SubSeq(t, e[k] + Len(sep) + 1, e[n]) = SubSeq(t, 1, e[n])
    BY <2>3, <2>4, Joins
  <2>6. tokens[n] = SubSeq(t, b[n] + 1, e[n])
    BY <1>1
  <2>. QED
    BY <2>1, <2>3, <2>5, <2>6
<1>5. v = J(v)
  <2>1. ASSUME NEW n \in 1 .. N
        PROVE  SubSeq(t, 1, e[n]) = IF n = 1 THEN tokens[1] ELSE v[n - 1] \o sep \o tokens[n]
    <3>1. CASE n = 1
      BY <1>3, <3>1
    <3>2. CASE n # 1
      <4>1. n - 1 \in 1 .. N
        BY <1>0, <3>2
      <4>2. v[n - 1] = SubSeq(t, 1, e[n - 1])
        BY <4>1, Zenon
      <4>. HIDE DEF v
      <4>. QED
        BY <1>4, <3>2, <4>2
    <3>. QED
      BY <3>1, <3>2
  <2>. QED
    BY Zenon, <2>1
<1>. HIDE DEF v
<1>6. joined = J(joined)
  BY Zenon, <1>5
<1>. HIDE DEF joined
<1>7. joined[N] = SubSeq(t, 1, e[N])
  <2>. DEFINE S == {k \in Nat : k + 1 <= N => joined[k + 1] = SubSeq(t, 1, e[k + 1])}
  <2>0. \A n \in 1 .. N : joined[n] = IF n = 1 THEN tokens[1] ELSE joined[n - 1] \o sep \o tokens[n]
    BY Zenon, <1>6
  <2>. HIDE DEF J
  <2>1. 0 \in S
    <3>1. 1 \in 1 .. N /\ 0 + 1 = 1
      BY <1>0
    <3>2. joined[1] = tokens[1]
      BY Zenon, <2>0, <3>1
    <3>. QED
      BY <1>3, <3>1, <3>2
  <2>2. ASSUME NEW k \in Nat, k \in S PROVE k + 1 \in S
    <3>. SUFFICES ASSUME (k + 1) + 1 <= N PROVE joined[(k + 1) + 1] = SubSeq(t, 1, e[(k + 1) + 1])
      OBVIOUS
    <3>1. PICK n : n = (k + 1) + 1
      OBVIOUS
    <3>2. n \in 1 .. N /\ n # 1 /\ n - 1 = k + 1 /\ k + 1 <= N
      BY <1>0, <3>1
    <3>3. joined[n] = joined[n - 1] \o sep \o tokens[n]
      BY <2>0, <3>2
    <3>4. joined[n - 1] = SubSeq(t, 1, e[n - 1])
      BY <2>2, <3>2
    <3>. QED
      BY <1>4, <3>1, <3>2, <3>3, <3>4
  <2>. HIDE DEF S
  <2>3. Nat \subseteq S
    BY <2>1, <2>2, Induct
  <2>4. N - 1 \in Nat /\ (N - 1) + 1 = N /\ N <= N
    BY <1>0
  <2>. QED
    BY <2>3, <2>4 DEF S
<1>8. SubSeq(t, 1, Len(t)) = t
  <2>1. 0 \in Nat /\ Len(t) \in Nat /\ 0 <= Len(t) /\ Len(t) <= Len(t)
    BY LenProperties
  <2>. DEFINE p == SubSeq(t, 0 + 1, Len(t))
  <2>2. p \in Seq(Chars) /\ Len(p) = Len(t) - 0 /\ \A i \in 1 .. Len(t) - 0 : p[i] = t[0 + i]
    BY <2>1, PartOf
  <2>. HIDE DEF p
  <2>3. Len(p) = Len(t) /\ \A i \in 1 .. Len(p) : p[i] = t[i]
    BY <2>1, <2>2
  <2>4. p = t
    BY <2>2, <2>3, SeqEqual
  <2>5. 0 + 1 = 1
    OBVIOUS
  <2>. QED
    BY <2>4, <2>5 DEF p
<1>9. joined[N] = t
  BY <1>2, <1>7, <1>8
<1>. QED
  BY Zenon, <1>9 DEF joined, J, N

\* The tokens of a string that is well.
LEMMA StrSplits == StrWell => String!Splits
<1>. SUFFICES ASSUME StrWell PROVE String!Splits
  OBVIOUS
<1>0. str \in Seq(Chars) /\ \A sep \in Seps : sep \in Seq(Chars) /\ sep # <<>>
  BY StructuresAssumption, HoldsIs DEF String!SdsAssumption, StrWell
<1>1. ASSUME NEW sep \in Seps, str # <<>>
      PROVE  LET tokens == String!sdssplitlen(str, sep)
                 joined[n \in 1 .. Len(tokens)] ==
                     IF n = 1 THEN tokens[1] ELSE joined[n - 1] \o sep \o tokens[n]
                 First(t) == {j \in 0 .. Len(t) : String!At(t, j, sep)}
             IN  /\ joined[Len(tokens)] = str
                 /\ \A j \in 1 .. Len(tokens) - 1 :
                       String!Min(First(tokens[j] \o sep)) = Len(tokens[j])
                 /\ First(String!Last(tokens)) = {}
  <2>1. sep \in Seq(Chars) /\ sep # <<>>
    BY <1>0
  <2>2. PICK b, e : Divided(str, sep, String!sdssplitlen(str, sep), b, e)
    BY <1>0, <1>1, <2>1, SplitDivides
  <2>3. PICK tokens : tokens = String!sdssplitlen(str, sep)
    OBVIOUS
  <2>4. Divided(str, sep, tokens, b, e)
    BY <2>2, <2>3
  <2>5. LET joined[n \in 1 .. Len(tokens)] ==
                  IF n = 1 THEN tokens[1] ELSE joined[n - 1] \o sep \o tokens[n]
        IN  joined[Len(tokens)] = str
    BY <1>0, <2>1, <2>4, JoinedIs
  <2>6. \A j \in 1 .. Len(tokens) - 1 :
           String!Min(Offsets(tokens[j] \o sep, sep)) = Len(tokens[j])
    BY <1>0, <2>1, <2>4, FirstSep
  <2>7. Offsets(String!Last(tokens), sep) = {}
    BY <1>0, <2>1, <2>4, LastSep
  <2>. QED
    BY Zenon, <2>3, <2>5, <2>6, <2>7 DEF Offsets
<1>. QED
  BY Zenon, <1>1 DEF String!Splits

-----------------------------------------------------------------------------
(* What quoting writes is what splitting reads *)

\* A state of sdssplitargs.
St(m, current, argv, skip) == [mode |-> m, current |-> current, argv |-> argv, skip |-> skip]

\* Inside quotes, the first j characters of t are read.
Amid(m, t, j, skip) == St(m, SubSeq(t, 1, j), <<>>, skip)

\* What a state is made of.
LEMMA StIs ==
    ASSUME NEW m, NEW c, NEW a, NEW k
    PROVE  /\ St(m, c, a, k).mode = m /\ St(m, c, a, k).current = c
           /\ St(m, c, a, k).argv = a /\ St(m, c, a, k).skip = k
BY DEF St

\* The first characters, and one more.
LEMMA Begun ==
    ASSUME NEW t \in Seq(Chars)
    PROVE  /\ SubSeq(t, 1, 0) = <<>> /\ SubSeq(t, 1, Len(t)) = t
           /\ \A j \in 0 .. Len(t) - 1 : SubSeq(t, 1, j + 1) = Append(SubSeq(t, 1, j), t[j + 1])
<1>0. Len(t) \in Nat
  BY LenProperties
<1>1. SubSeq(t, 1, 0) = <<>>
  BY SubSeqEmpty
<1>. DEFINE P(j) == SubSeq(t, 1, j)
<1>2. ASSUME NEW j \in 0 .. Len(t)
      PROVE  P(j) \in Seq(Chars) /\ Len(P(j)) = j /\ \A i \in 1 .. j : P(j)[i] = t[i]
  <2>1. 0 \in Nat /\ j \in Nat /\ 0 <= j /\ j <= Len(t)
    BY <1>0
  <2>2. LET z == SubSeq(t, 0 + 1, j)
        IN  z \in Seq(Chars) /\ Len(z) = j - 0 /\ \A i \in 1 .. j - 0 : z[i] = t[0 + i]
    BY <2>1, PartOf
  <2>3. 0 + 1 = 1 /\ j - 0 = j /\ \A i \in 1 .. j : 0 + i = i
    BY <2>1
  <2>. QED
    BY <2>2, <2>3
<1>. HIDE DEF P
<1>3. P(Len(t)) = t
  <2>1. Len(t) \in 0 .. Len(t)
    BY <1>0
  <2>2. P(Len(t)) \in Seq(Chars) /\ Len(P(Len(t))) = Len(t) /\ \A i \in 1 .. Len(P(Len(t))) : P(Len(t))[i] = t[i]
    BY <1>2, <2>1
  <2>. QED
    BY <2>2, SeqEqual
<1>4. ASSUME NEW j \in 0 .. Len(t) - 1 PROVE P(j + 1) = Append(P(j), t[j + 1])
  <2>1. j \in 0 .. Len(t) /\ j + 1 \in 0 .. Len(t) /\ j + 1 \in 1 .. Len(t) /\ j \in Nat
    BY <1>0
  <2>2. PICK a : a = P(j)
    OBVIOUS
  <2>3. PICK b : b = P(j + 1)
    OBVIOUS
  <2>4. a \in Seq(Chars) /\ Len(a) = j /\ \A i \in 1 .. j : a[i] = t[i]
    BY <1>2, <2>1, <2>2
  <2>5. b \in Seq(Chars) /\ Len(b) = j + 1 /\ \A i \in 1 .. j + 1 : b[i] = t[i]
    BY <1>2, <2>1, <2>3
  <2>6. PICK c : c = Append(a, t[j + 1])
    OBVIOUS
  <2>7. t[j + 1] \in Chars
    BY <2>1, ElementOfSeq
  <2>8. c \in Seq(Chars) /\ Len(c) = j + 1 /\ (\A i \in 1 .. j : c[i] = a[i]) /\ c[j + 1] = t[j + 1]
    BY <2>4, <2>6, <2>7, AppendProperties
  <2>9. \A i \in 1 .. Len(b) : b[i] = c[i]
    BY <2>1, <2>4, <2>5, <2>8
  <2>10. b = c
    BY <2>5, <2>8, <2>9, SeqEqual
  <2>. QED
    BY <2>2, <2>3, <2>6, <2>10
<1>. QED
  BY <1>1, <1>3, <1>4 DEF P

\* A character that an escape has taken.
LEMMA ReadSkip ==
    ASSUME NEW line, NEW m, NEW c, NEW a, NEW k \in Nat, k > 0, NEW j
    PROVE  String!Read(line, St(m, c, a, k), j) = St(m, c, a, k - 1)
<1>1. PICK st : st = St(m, c, a, k)
  OBVIOUS
<1>2. st.skip = k /\ k > 0 /\ k # 0
  BY <1>1, StIs
<1>3. String!Read(line, st, j) = [st EXCEPT !.skip = @ - 1]
  BY Zenon, <1>2 DEF String!Read
<1>4. [st EXCEPT !.skip = k - 1] = St(m, c, a, k - 1)
  BY <1>1 DEF St
<1>5. [st EXCEPT !.skip = @ - 1] = [st EXCEPT !.skip = k - 1]
  BY Zenon, <1>2
<1>. QED
  BY Zenon, <1>1, <1>3, <1>4, <1>5

\* After the end.
LEMMA ReadEnd ==
    ASSUME NEW line, NEW a, NEW j \in Nat, j > Len(line), Len(line) \in Nat
    PROVE  String!Read(line, St("blank", <<>>, a, 0), j) = St("blank", <<>>, a, 0)
<1>1. PICK st : st = St("blank", <<>>, a, 0)
  OBVIOUS
<1>2. st.skip = 0 /\ ~(0 > 0) /\ st.mode = "blank" /\ "blank" # "quoted" /\ "blank" # "single" /\ "blank" # "plain"
  BY <1>1, StIs
<1>3. String!Char(line, j) = String!NUL
  <2>1. ~(j <= Len(line))
    OBVIOUS
  <2>. QED
    BY Zenon, <2>1 DEF String!Char
<1>4. String!Read(line, st, j) = st
  BY Zenon, <1>2, <1>3 DEF String!Read
<1>. QED
  BY <1>1, <1>4

\* line is the characters of t, each of them written from p[j] on, in quotes:
\* reading it gives t.
Marks(line, t, m, p) ==
    /\ p \in [0 .. Len(t) -> Nat] /\ p[0] = 1 /\ Len(line) = p[Len(t)] + 1
    /\ \A j \in 0 .. Len(t) - 1 :
          /\ p[j] < p[j + 1]
          /\ String!Read(line, Amid(m, t, j, 0), p[j] + 1) = Amid(m, t, j + 1, p[j + 1] - (p[j] + 1))
    /\ String!Read(line, St("blank", <<>>, <<>>, 0), 1) = Amid(m, t, 0, 0)
    /\ String!Read(line, Amid(m, t, Len(t), 0), p[Len(t)] + 1) = St("blank", <<>>, <<t>>, 0)

\* What is known after k characters of it.
Known(t, m, p, k, x) ==
    \/ k = 0 /\ x = St("blank", <<>>, <<>>, 0)
    \/ \E j \in 0 .. Len(t) : /\ 1 <= k /\ k <= p[j]
                              /\ x = Amid(m, t, j, p[j] - k)
    \/ k > p[Len(t)] /\ x = St("blank", <<>>, <<t>>, 0)

\* One character keeps what is known.
LEMMA KnownNext ==
    ASSUME NEW line, NEW t \in Seq(Chars), NEW m, NEW p, Marks(line, t, m, p),
           NEW k \in Nat, k < p[Len(t)] + 2, NEW x, Known(t, m, p, k, x)
    PROVE  Known(t, m, p, k + 1, String!Read(line, x, k + 1))
<1>. DEFINE y == String!Read(line, x, k + 1)
<1>0. /\ Len(t) \in Nat /\ Len(t) \in 0 .. Len(t) /\ 0 \in 0 .. Len(t)
      /\ \A j \in 0 .. Len(t) : p[j] \in Nat
      /\ p[0] = 1 /\ Len(line) = p[Len(t)] + 1
  <2>1. Len(t) \in Nat
    BY LenProperties
  <2>. QED
    BY <2>1 DEF Marks
<1>1. CASE k = 0 /\ x = St("blank", <<>>, <<>>, 0)
  <2>1. y = Amid(m, t, 0, 0)
    BY <1>1 DEF Marks
  <2>. HIDE DEF y
  <2>2. k + 1 = 1 /\ 1 <= k + 1 /\ k + 1 <= p[0] /\ p[0] - (k + 1) = 0
    BY <1>0, <1>1
  <2>3. y = Amid(m, t, 0, p[0] - (k + 1))
    BY <2>1, <2>2
  <2>4. Known(t, m, p, k + 1, y)
    BY Zenon, <1>0, <2>2, <2>3 DEF Known
  <2>. QED
    BY <2>4 DEF y
<1>2. ASSUME NEW j \in 0 .. Len(t), 1 <= k, k <= p[j], x = Amid(m, t, j, p[j] - k)
      PROVE  Known(t, m, p, k + 1, y)
  <2>0. PICK pj \in Nat : pj = p[j]
    BY <1>0
  <2>1. CASE k < pj
    <3>1. pj - k \in Nat /\ pj - k > 0 /\ (pj - k) - 1 = pj - (k + 1) /\ 1 <= k + 1 /\ k + 1 <= pj
      BY <2>1
    <3>2. String!Read(line, St(m, SubSeq(t, 1, j), <<>>, pj - k), k + 1) = St(m, SubSeq(t, 1, j), <<>>, (pj - k) - 1)
      BY <3>1, ReadSkip
    <3>3. y = Amid(m, t, j, p[j] - (k + 1))
      BY Zenon, <1>2, <2>0, <3>1, <3>2 DEF Amid
    <3>. HIDE DEF y
    <3>. QED
      BY Zenon, <2>0, <3>1, <3>3 DEF Known
  <2>2. CASE ~(k < pj)
    <3>1. k = pj /\ pj - k = 0
      BY <1>2, <2>0, <2>2
    <3>2. x = Amid(m, t, j, 0)
      BY <1>2, <2>0, <3>1
    <3>3. CASE j = Len(t)
      <4>1. y = St("blank", <<>>, <<t>>, 0)
        BY <2>0, <3>1, <3>2, <3>3 DEF Marks
      <4>. HIDE DEF y
      <4>2. k + 1 > p[Len(t)]
        BY <2>0, <3>1, <3>3
      <4>. QED
        BY Zenon, <4>1, <4>2 DEF Known
    <3>4. CASE j # Len(t)
      <4>1. j \in 0 .. Len(t) - 1 /\ j + 1 \in 0 .. Len(t)
        BY <1>0, <3>4
      <4>2. PICK pn \in Nat : pn = p[j + 1]
        BY <1>0, <4>1
      <4>3. pj < pn /\ y = Amid(m, t, j + 1, pn - (pj + 1))
        BY <2>0, <3>1, <3>2, <4>1, <4>2 DEF Marks
      <4>4. 1 <= k + 1 /\ k + 1 <= pn /\ pj + 1 = k + 1
        BY <3>1, <4>3
      <4>. HIDE DEF y
      <4>5. y = Amid(m, t, j + 1, p[j + 1] - (k + 1)) /\ k + 1 <= p[j + 1]
        BY Zenon, <4>2, <4>3, <4>4
      <4>. QED
        BY Zenon, <4>1, <4>4, <4>5 DEF Known
    <3>. QED
      BY <3>3, <3>4
  <2>. QED
    BY <2>1, <2>2
<1>3. CASE k > p[Len(t)] /\ x = St("blank", <<>>, <<t>>, 0)
  <2>0. PICK pn \in Nat : pn = p[Len(t)]
    BY <1>0
  <2>1. k + 1 \in Nat /\ k + 1 > pn + 1 /\ k + 1 > pn /\ pn + 1 \in Nat
    BY <1>3, <2>0
  <2>2. k + 1 > Len(line) /\ Len(line) \in Nat
    BY <1>0, <2>0, <2>1
  <2>3. y = x
    BY <1>3, <2>1, <2>2, ReadEnd
  <2>4. k + 1 > p[Len(t)] /\ y = St("blank", <<>>, <<t>>, 0)
    BY <1>3, <2>0, <2>1, <2>3
  <2>. HIDE DEF y
  <2>. QED
    BY Zenon, <2>4 DEF Known, y
<1>. QED
  BY Zenon, <1>1, <1>2, <1>3 DEF Known

\* And so t is read.
LEMMA ReadsBack ==
    ASSUME NEW line, NEW t \in Seq(Chars), NEW m, NEW p, Marks(line, t, m, p)
    PROVE  String!sdssplitargs(line) = <<t>>
<1>. DEFINE n == Len(line) + 1
            a == St("blank", <<>>, <<>>, 0)
            fin == St("blank", <<>>, <<t>>, 0)
            X == {a, fin} \cup {Amid(m, t, j, k) : j \in 0 .. Len(t), k \in Nat}
            G == [kx \in Nat \X X |-> String!Read(line, kx[2], kx[1] + 1)]
            I == {kx \in Nat \X X : Known(t, m, p, kx[1], kx[2])}
            E(u) == [i \in 0 .. n |-> IF i = 0 THEN a ELSE String!Read(line, u[i - 1], i)]
<1>0. PICK pn \in Nat : pn = p[Len(t)] /\ Len(line) = pn + 1
  <2>1. Len(t) \in Nat /\ Len(t) \in 0 .. Len(t)
    BY LenProperties
  <2>. QED
    BY <2>1 DEF Marks
<1>1. n \in Nat /\ n = pn + 2 /\ Len(line) = n - 1
  BY <1>0
<1>2. \A j \in 0 .. Len(t) : p[j] \in Nat
  BY DEF Marks
<1>. HIDE DEF n
<1>3. ASSUME NEW k \in Nat, NEW x, Known(t, m, p, k, x) PROVE x \in X
  <2>1. CASE x = a \/ x = fin
    BY <2>1
  <2>2. ASSUME NEW j \in 0 .. Len(t), k <= p[j], x = Amid(m, t, j, p[j] - k) PROVE x \in X
    <3>1. p[j] - k \in Nat
      BY <1>2, <2>2
    <3>2. x \in {Amid(m, t, i, l) : i \in 0 .. Len(t), l \in Nat}
      <4>1. PICK l \in Nat : l = p[j] - k
        BY <3>1
      <4>2. x = Amid(m, t, j, l)
        BY Zenon, <2>2, <4>1
      <4>. QED
        BY <4>2
    <3>. QED
      BY <3>2
  <2>. HIDE DEF X
  <2>. QED
    BY Zenon, <1>3, <2>1, <2>2 DEF Known
<1>4. a \in X /\ <<0, a>> \in I
  <2>1. Known(t, m, p, 0, a)
    BY Zenon DEF Known
  <2>2. a \in X
    OBVIOUS
  <2>. HIDE DEF a, X
  <2>. QED
    BY <2>1, <2>2
<1>. HIDE DEF a, X, fin
<1>5. ASSUME NEW k \in Nat, NEW x \in X
      PROVE  G[<<k, x>>] = String!Read(line, x, k + 1)
  <2>1. <<k, x>> \in Nat \X X /\ <<k, x>>[1] = k /\ <<k, x>>[2] = x
    OBVIOUS
  <2>. QED
    BY Zenon, <2>1
<1>6. ASSUME NEW k \in Nat, NEW x \in X, k < n, <<k, x>> \in I
      PROVE  G[<<k, x>>] \in X /\ <<k + 1, G[<<k, x>>]>> \in I
  <2>1. Known(t, m, p, k, x) /\ k < p[Len(t)] + 2 /\ k + 1 \in Nat
    BY <1>0, <1>1, <1>6
  <2>2. PICK y : y = String!Read(line, x, k + 1)
    OBVIOUS
  <2>3. Known(t, m, p, k + 1, y)
    BY <2>1, <2>2, KnownNext
  <2>4. y \in X
    BY <1>3, <2>1, <2>3
  <2>5. G[<<k, x>>] = y
    BY <1>5, <2>2
  <2>6. <<k + 1, y>> \in I
    BY <2>1, <2>3, <2>4
  <2>. HIDE DEF G, I
  <2>. QED
    BY <2>4, <2>5, <2>6
<1>7. ASSUME NEW k, NEW x, <<k, x>> \in I PROVE Known(t, m, p, k, x)
  BY <1>7
<1>. HIDE DEF G, I
<1>8. Loops(I, X, a, G, n)
  <2>1. KeptBy(I, X, G, n)
    BY <1>6 DEF KeptBy
  <2>. QED
    BY <1>1, <1>4, <2>1, Looping
<1>9. PICK w : w = [k \in 0 .. n |-> w[k]] /\ Follows(w, a, G, n)
  BY <1>8, Zenon DEF Loops
<1>10. w = E(w)
  <2>1. ASSUME NEW i \in 0 .. n
        PROVE  w[i] = IF i = 0 THEN a ELSE String!Read(line, w[i - 1], i)
    <3>1. CASE i = 0
      BY <1>9, <3>1 DEF Follows
    <3>2. CASE i # 0
      <4>1. i - 1 \in Nat /\ i - 1 < n /\ (i - 1) + 1 = i /\ i - 1 \in 0 .. n
        BY <1>1, <3>2
      <4>2. w[i - 1] \in X
        BY <1>8, <1>9, <4>1 DEF Loops
      <4>3. w[i] = G[<<i - 1, w[i - 1]>>]
        BY <1>9, <4>1 DEF Follows
      <4>4. G[<<i - 1, w[i - 1]>>] = String!Read(line, w[i - 1], i)
        BY <1>5, <4>1, <4>2
      <4>. QED
        BY <3>2, <4>3, <4>4
    <3>. QED
      BY <3>1, <3>2
  <2>. QED
    BY Zenon, <1>9, <2>1
<1>11. PICK u : u = E(u) /\ String!sdssplitargs(line) = IF u[n].mode = "err" THEN <<"NULL">> ELSE u[n].argv
  <2>1. \E u : u = E(u)
    BY Zenon, <1>10
  <2>. QED
    BY Zenon, <2>1 DEF String!sdssplitargs, E, n, a, St
<1>12. u[0] = a /\ \A k \in Nat : k < n => u[k + 1] = String!Read(line, u[k], k + 1)
  <2>1. 0 \in 0 .. n /\ \A k \in Nat : k < n => k + 1 \in 0 .. n /\ k + 1 # 0 /\ (k + 1) - 1 = k
    BY <1>1
  <2>2. \A i \in 0 .. n : u[i] = IF i = 0 THEN a ELSE String!Read(line, u[i - 1], i)
    BY Zenon, <1>11
  <2>3. u[0] = a
    BY Zenon, <2>1, <2>2
  <2>4. ASSUME NEW k \in Nat, k < n PROVE u[k + 1] = String!Read(line, u[k], k + 1)
    BY Zenon, <2>1, <2>2, <2>4
  <2>. QED
    BY <2>3, <2>4
<1>. HIDE DEF E
<1>13. Known(t, m, p, n, u[n])
  <2>. DEFINE S == {k \in Nat : k <= n => Known(t, m, p, k, u[k])}
  <2>1. 0 \in S
    <3>1. Known(t, m, p, 0, a)
      BY Zenon DEF Known, a
    <3>. QED
      BY <1>12, <3>1
  <2>2. ASSUME NEW k \in Nat, k \in S PROVE k + 1 \in S
    <3>. SUFFICES ASSUME k + 1 <= n PROVE Known(t, m, p, k + 1, u[k + 1])
      OBVIOUS
    <3>1. k < n /\ k <= n /\ k < p[Len(t)] + 2
      BY <1>0, <1>1
    <3>2. Known(t, m, p, k, u[k])
      BY <2>2, <3>1
    <3>3. Known(t, m, p, k + 1, String!Read(line, u[k], k + 1))
      BY <3>1, <3>2, KnownNext
    <3>. QED
      BY <1>12, <3>1, <3>3
  <2>. HIDE DEF S
  <2>3. Nat \subseteq S
    BY <2>1, <2>2, Induct
  <2>4. n <= n
    BY <1>1
  <2>. QED
    BY <1>1, <2>3, <2>4 DEF S
<1>14. u[n] = fin
  <2>1. n # 0
    BY <1>1
  <2>2. ASSUME NEW j \in 0 .. Len(t), n <= p[j] PROVE FALSE
    <3>. DEFINE S == {k \in Nat : k <= Len(t) => p[Len(t) - k] <= pn}
    <3>0. Len(t) \in Nat
      BY LenProperties
    <3>1. 0 \in S
      BY <1>0, <3>0
    <3>2. ASSUME NEW k \in Nat, k \in S PROVE k + 1 \in S
      <4>. SUFFICES ASSUME k + 1 <= Len(t) PROVE p[Len(t) - (k + 1)] <= pn
        OBVIOUS
      <4>1. PICK i : i = Len(t) - (k + 1)
        OBVIOUS
      <4>2. i \in 0 .. Len(t) - 1 /\ i + 1 = Len(t) - k /\ i \in 0 .. Len(t) /\ i + 1 \in 0 .. Len(t) /\ k <= Len(t)
        BY <3>0, <4>1
      <4>3. p[i] < p[i + 1] /\ p[i] \in Nat /\ p[i + 1] \in Nat
        BY <1>2, <4>2 DEF Marks
      <4>4. p[i + 1] <= pn
        BY <3>2, <4>2
      <4>. QED
        BY <1>0, <4>1, <4>3, <4>4
    <3>. HIDE DEF S
    <3>3. Nat \subseteq S
      BY <3>1, <3>2, Induct
    <3>4. Len(t) - j \in Nat /\ Len(t) - j <= Len(t) /\ Len(t) - (Len(t) - j) = j
      BY <3>0
    <3>5. p[j] <= pn
      BY <3>3, <3>4 DEF S
    <3>. QED
      BY <1>1, <1>2, <2>2, <3>5
  <2>. QED
    BY Zenon, <1>13, <2>1, <2>2 DEF Known, fin
<1>15. u[n].mode = "blank" /\ u[n].argv = <<t>> /\ "blank" # "err"
  BY <1>14, StIs DEF fin
<1>. QED
  BY <1>11, <1>15

\* A state of sdssplitargs that is not in an escape reads by its mode.
LEMMA ReadQuoted ==
    ASSUME NEW line, NEW c, NEW a, NEW j
    PROVE  String!Read(line, St("quoted", c, a, 0), j) = String!Quoted(line, St("quoted", c, a, 0), j)
<1>1. PICK st : st = St("quoted", c, a, 0)
  OBVIOUS
<1>2. st.skip = 0 /\ ~(0 > 0) /\ st.mode = "quoted" /\ "quoted" # "single" /\ "quoted" # "plain" /\ "quoted" # "blank"
  BY <1>1, StIs
<1>3. String!Read(line, st, j) = String!Quoted(line, st, j)
  BY Zenon, <1>2 DEF String!Read
<1>. QED
  BY <1>1, <1>3

LEMMA ReadSingle ==
    ASSUME NEW line, NEW c, NEW a, NEW j
    PROVE  String!Read(line, St("single", c, a, 0), j) = String!Single(line, St("single", c, a, 0), j)
<1>1. PICK st : st = St("single", c, a, 0)
  OBVIOUS
<1>2. st.skip = 0 /\ ~(0 > 0) /\ st.mode = "single" /\ "single" # "quoted" /\ "single" # "plain" /\ "single" # "blank"
  BY <1>1, StIs
<1>3. String!Read(line, st, j) = String!Single(line, st, j)
  BY Zenon, <1>2 DEF String!Read
<1>. QED
  BY <1>1, <1>3

\* The quote that opens.
LEMMA ReadOpen ==
    ASSUME NEW line, NEW q, q \in {String!Quote, String!Apostrophe}, String!Char(line, 1) = q
    PROVE  String!Read(line, St("blank", <<>>, <<>>, 0), 1)
              = St(IF q = String!Quote THEN "quoted" ELSE "single", <<>>, <<>>, 0)
<1>1. PICK st : st = St("blank", <<>>, <<>>, 0)
  OBVIOUS
<1>2. st.skip = 0 /\ ~(0 > 0) /\ st.mode = "blank" /\ "blank" # "quoted" /\ "blank" # "single" /\ "blank" # "plain"
  BY <1>1, StIs
<1>3. q # String!NUL /\ ~String!IsSpace(q) /\ String!Quote # String!Apostrophe
  BY DEF String!NUL, String!IsSpace, String!Space, String!Newline, String!Quote, String!Apostrophe
<1>4. PICK s2 : s2 = [st EXCEPT !.mode = "plain"]
  OBVIOUS
<1>5. String!Read(line, st, 1) = String!Plain(s2, q)
  BY Zenon, <1>2, <1>3, <1>4 DEF String!Read
<1>6. s2 = St("plain", <<>>, <<>>, 0)
  BY <1>1, <1>4 DEF St
<1>7. CASE q = String!Quote
  <2>1. String!Plain(s2, q) = [s2 EXCEPT !.mode = "quoted"]
    BY Zenon, <1>3, <1>7 DEF String!Plain
  <2>2. [s2 EXCEPT !.mode = "quoted"] = St("quoted", <<>>, <<>>, 0)
    BY <1>6 DEF St
  <2>. QED
    BY Zenon, <1>1, <1>5, <1>7, <2>1, <2>2
<1>8. CASE q = String!Apostrophe
  <2>1. String!Plain(s2, q) = [s2 EXCEPT !.mode = "single"]
    BY Zenon, <1>3, <1>8 DEF String!Plain
  <2>2. [s2 EXCEPT !.mode = "single"] = St("single", <<>>, <<>>, 0)
    BY <1>6 DEF St
  <2>. QED
    BY Zenon, <1>1, <1>3, <1>5, <1>8, <2>1, <2>2
<1>. QED
  BY <1>7, <1>8

\* A character is taken, and one argument is done.
LEMMA TakeIs ==
    ASSUME NEW m, NEW c, NEW a, NEW x, NEW n
    PROVE  String!Take(St(m, c, a, 0), x, n) = St(m, Append(c, x), a, n)
<1>1. PICK st : st = St(m, c, a, 0)
  OBVIOUS
<1>2. st.current = c
  BY <1>1, StIs
<1>3. String!Take(st, x, n) = [st EXCEPT !.current = Append(@, x), !.skip = n]
  BY Zenon DEF String!Take
<1>4. PICK y : y = Append(c, x)
  OBVIOUS
<1>5. PICK s2 : s2 = [st EXCEPT !.current = y]
  OBVIOUS
<1>6. s2 = St(m, y, a, 0)
  BY <1>1, <1>5 DEF St
<1>7. String!Take(st, x, n) = [s2 EXCEPT !.skip = n]
  BY Zenon, <1>2, <1>3, <1>4, <1>5
<1>8. [s2 EXCEPT !.skip = n] = St(m, y, a, n)
  BY <1>6 DEF St
<1>. QED
  BY Zenon, <1>1, <1>4, <1>7, <1>8

LEMMA ClosedIs ==
    ASSUME NEW line, NEW m, NEW c, NEW j \in Nat, String!Char(line, j + 1) = String!NUL
    PROVE  String!Closed(line, St(m, c, <<>>, 0), j) = St("blank", <<>>, <<c>>, 0)
<1>1. PICK st : st = St(m, c, <<>>, 0)
  OBVIOUS
<1>2. st.current = c /\ st.argv = <<>> /\ Append(<<>>, c) = <<c>>
  BY <1>1, StIs
<1>3. String!Closed(line, st, j) = [st EXCEPT !.argv = Append(@, st.current), !.mode = "blank", !.current = <<>>]
  BY Zenon DEF String!Closed, String!Done
<1>4. PICK s2 : s2 = [st EXCEPT !.argv = <<c>>]
  OBVIOUS
<1>5. s2 = St(m, c, <<c>>, 0)
  BY <1>1, <1>4 DEF St
<1>6. PICK s3 : s3 = [s2 EXCEPT !.mode = "blank"]
  OBVIOUS
<1>7. s3 = St("blank", c, <<c>>, 0)
  BY <1>5, <1>6 DEF St
<1>8. String!Closed(line, st, j) = [s3 EXCEPT !.current = <<>>]
  BY Zenon, <1>2, <1>3, <1>4, <1>6
<1>9. [s3 EXCEPT !.current = <<>>] = St("blank", <<>>, <<c>>, 0)
  BY <1>7 DEF St
<1>. QED
  BY Zenon, <1>1, <1>8, <1>9

\* A sequence of sequences, one after the other.
LEMMA FlatIs ==
    ASSUME NEW C, NEW r \in Seq(Seq(C))
    PROVE  \E u \in [0 .. Len(r) -> Seq(C)] :
              /\ u[0] = <<>> /\ String!FlattenSeq(r) = u[Len(r)]
              /\ \A k \in 0 .. Len(r) - 1 : u[k + 1] = u[k] \o r[k + 1]
<1>. DEFINE n == Len(r)
            X == Seq(C)
            G == [kx \in Nat \X X |-> kx[2] \o r[kx[1] + 1]]
            I == Nat \X X
            E(u) == [i \in 1 .. n |-> IF i = 1 THEN r[i] ELSE u[i - 1] \o r[i]]
<1>0. n \in Nat /\ \A i \in 1 .. n : r[i] \in Seq(C)
  BY LenProperties, ElementOfSeq
<1>. HIDE DEF n
<1>1. <<>> \in X /\ <<0, <<>>>> \in I
  <2>1. <<>> \in X
    BY EmptySeq
  <2>. HIDE DEF X
  <2>. QED
    BY <2>1
<1>2. ASSUME NEW k \in Nat, NEW x \in X PROVE G[<<k, x>>] = x \o r[k + 1]
  <2>1. <<k, x>> \in Nat \X X /\ <<k, x>>[1] = k /\ <<k, x>>[2] = x
    OBVIOUS
  <2>. HIDE DEF X
  <2>. QED
    BY Zenon, <2>1
<1>3. ASSUME NEW k \in Nat, NEW x \in X, k < n PROVE G[<<k, x>>] \in X /\ <<k + 1, G[<<k, x>>]>> \in I
  <2>1. k + 1 \in 1 .. n /\ k + 1 \in Nat
    BY <1>0, <1>3
  <2>2. r[k + 1] \in Seq(C)
    BY <1>0, <2>1
  <2>3. x \o r[k + 1] \in X
    BY <2>2, ConcatProperties
  <2>4. G[<<k, x>>] = x \o r[k + 1]
    BY <1>2
  <2>. HIDE DEF X, G
  <2>. QED
    BY <2>1, <2>3, <2>4
<1>. HIDE DEF G, I
<1>4. Loops(I, X, <<>>, G, n)
  <2>1. KeptBy(I, X, G, n)
    BY <1>3 DEF KeptBy
  <2>. HIDE DEF X
  <2>. QED
    BY <1>0, <1>1, <2>1, Looping
<1>. HIDE DEF X
<1>5. PICK w : w = [k \in 0 .. n |-> w[k]] /\ Follows(w, <<>>, G, n)
  BY <1>4, Zenon DEF Loops
<1>6. /\ w[0] = <<>> /\ \A k \in 0 .. n : w[k] \in X
      /\ \A k \in 0 .. n - 1 : w[k + 1] = w[k] \o r[k + 1]
  <2>1. w[0] = <<>> /\ \A k \in 0 .. n : w[k] \in X
    BY <1>4, <1>5 DEF Loops, Follows
  <2>2. ASSUME NEW k \in 0 .. n - 1 PROVE w[k + 1] = w[k] \o r[k + 1]
    <3>1. k \in Nat /\ k < n /\ k \in 0 .. n
      BY <1>0
    <3>2. w[k] \in X
      BY <2>1, <3>1
    <3>. QED
      BY <1>2, <1>5, <3>1, <3>2 DEF Follows
  <2>. QED
    BY <2>1, <2>2
<1>7. CASE n = 0
  <2>1. r = <<>>
    <3>1. <<>> \in Seq(Seq(C)) /\ Len(<<>>) = 0 /\ \A i \in 1 .. 0 : r[i] = <<>>[i]
      OBVIOUS
    <3>2. Len(r) = 0
      BY <1>7 DEF n
    <3>. QED
      BY <3>1, <3>2, SeqEqual
  <2>2. String!FlattenSeq(r) = r
    BY Zenon, <1>7 DEF String!FlattenSeq, n
  <2>3. w \in [0 .. n -> X]
    BY <1>5, <1>6
  <2>4. String!FlattenSeq(r) = w[n]
    BY <1>6, <1>7, <2>1, <2>2
  <2>. QED
    BY Zenon, <1>6, <2>3, <2>4 DEF n, X
<1>8. CASE n # 0
  <2>. DEFINE v == [i \in 1 .. n |-> w[i]]
  <2>0. ASSUME NEW x \in X PROVE <<>> \o x = x
    BY ConcatEmptySeq DEF X
  <2>1. v = E(v)
    <3>1. ASSUME NEW i \in 1 .. n PROVE w[i] = IF i = 1 THEN r[i] ELSE v[i - 1] \o r[i]
      <4>1. PICK k : k = i - 1
        OBVIOUS
      <4>2. k \in 0 .. n - 1 /\ k + 1 = i
        BY <1>0, <4>1
      <4>3. w[i] = w[k] \o r[i]
        BY <1>6, <4>2
      <4>4. CASE i = 1
        <5>1. w[k] = <<>> /\ r[i] \in X
          BY <1>0, <1>6, <4>1, <4>4 DEF X
        <5>. QED
          BY <2>0, <4>3, <4>4, <5>1
      <4>5. CASE i # 1
        <5>1. i - 1 \in 1 .. n
          BY <1>0, <4>5
        <5>2. v[i - 1] = w[k]
          BY Zenon, <4>1, <5>1
        <5>. HIDE DEF v
        <5>. QED
          BY <4>3, <4>5, <5>2
      <4>. QED
        BY <4>4, <4>5
    <3>. QED
      BY Zenon, <3>1
  <2>. HIDE DEF v
  <2>2. PICK u : u = E(u) /\ String!FlattenSeq(r) = u[n]
    <3>1. \E u : u = E(u)
      BY Zenon, <2>1
    <3>. QED
      BY Zenon, <1>8, <3>1 DEF String!FlattenSeq, E, n
  <2>. DEFINE z == [k \in 0 .. n |-> IF k = 0 THEN <<>> ELSE u[k]]
  <2>3. \A i \in 1 .. n : u[i] = IF i = 1 THEN r[i] ELSE u[i - 1] \o r[i]
    BY Zenon, <2>2
  <2>4. z[0] = <<>> /\ z[n] = u[n] /\ \A k \in 1 .. n : z[k] = u[k]
    BY <1>0, <1>8
  <2>8. z = [k \in 0 .. n |-> z[k]]
    BY Zenon
  <2>. HIDE DEF z, E
  <2>5. ASSUME NEW k \in 0 .. n - 1, z[k] \in X PROVE z[k + 1] = z[k] \o r[k + 1] /\ z[k + 1] \in X
    <3>1. k + 1 \in 1 .. n /\ (k + 1) - 1 = k /\ r[k + 1] \in X
      BY <1>0 DEF X
    <3>2. z[k + 1] = u[k + 1]
      BY <2>4, <3>1
    <3>3. z[k + 1] = z[k] \o r[k + 1]
      <4>1. CASE k = 0
        <5>1. u[k + 1] = r[k + 1]
          BY <2>3, <3>1, <4>1
        <5>2. <<>> \o r[k + 1] = r[k + 1]
          BY <2>0, <3>1
        <5>3. z[k] = <<>>
          BY <2>4, <4>1
        <5>. QED
          BY Zenon, <3>2, <5>1, <5>2, <5>3
      <4>2. CASE k # 0
        <5>1. k + 1 # 1 /\ k \in 1 .. n
          BY <1>0, <4>2
        <5>2. u[k + 1] = u[k] \o r[k + 1]
          BY <2>3, <3>1, <5>1
        <5>. QED
          BY <2>4, <3>2, <5>1, <5>2
      <4>. QED
        BY <4>1, <4>2
    <3>4. z[k] \o r[k + 1] \in X
      <4>1. z[k] \in Seq(C) /\ r[k + 1] \in Seq(C)
        BY <2>5, <3>1 DEF X
      <4>2. z[k] \o r[k + 1] \in Seq(C)
        BY <4>1, ConcatProperties
      <4>. QED
        BY <4>2 DEF X
    <3>. QED
      BY <3>3, <3>4
  <2>6. \A k \in 0 .. n : z[k] \in X
    <3>. DEFINE S == {k \in Nat : k <= n => z[k] \in X}
    <3>1. 0 \in S
      BY <1>1, <2>4 DEF X
    <3>2. ASSUME NEW k \in Nat, k \in S PROVE k + 1 \in S
      <4>. SUFFICES ASSUME k + 1 <= n PROVE z[k + 1] \in X
        OBVIOUS
      <4>1. k \in 0 .. n - 1 /\ k <= n
        BY <1>0
      <4>2. z[k] \in X
        BY <3>2, <4>1
      <4>. QED
        BY <2>5, <4>1, <4>2
    <3>. HIDE DEF S
    <3>3. Nat \subseteq S
      BY <3>1, <3>2, Induct
    <3>. QED
      BY <1>0, <3>3 DEF S
  <2>7. z \in [0 .. n -> X]
    BY Zenon, <2>6, <2>8
  <2>9. String!FlattenSeq(r) = z[n]
    BY <2>2, <2>4
  <2>10. ASSUME NEW k \in 0 .. n - 1 PROVE z[k + 1] = z[k] \o r[k + 1]
    <3>1. k \in 0 .. n
      BY <1>0
    <3>. QED
      BY <2>5, <2>6, <3>1
  <2>. QED
    BY Zenon, <2>4, <2>7, <2>9, <2>10 DEF n, X
<1>. QED
  BY <1>7, <1>8

\* s between two quotes.
LEMMA BetweenIs ==
    ASSUME NEW C, NEW t \in Seq(C), NEW q \in C
    PROVE  LET line == <<q>> \o t \o <<q>> IN
           /\ line \in Seq(C) /\ Len(line) = Len(t) + 2
           /\ line[1] = q /\ line[Len(t) + 2] = q
           /\ \A i \in 1 .. Len(t) : line[i + 1] = t[i]
<1>. DEFINE a == <<q>> \o t
            line == a \o <<q>>
<1>0. Len(t) \in Nat /\ <<q>> \in Seq(C) /\ Len(<<q>>) = 1 /\ <<q>>[1] = q
  BY LenProperties
<1>1. /\ a \in Seq(C) /\ Len(a) = Len(t) + 1
      /\ a[1] = q /\ \A i \in 1 .. Len(t) : a[i + 1] = t[i]
  <2>1. PICK b : b = <<q>>
    OBVIOUS
  <2>2. b \in Seq(C) /\ Len(b) = 1 /\ b[1] = q
    BY <1>0, <2>1
  <2>3. PICK c : c = b \o t
    OBVIOUS
  <2>4. /\ c \in Seq(C) /\ Len(c) = Len(b) + Len(t)
        /\ \A i \in 1 .. Len(b) + Len(t) : c[i] = IF i <= Len(b) THEN b[i] ELSE t[i - Len(b)]
    BY <2>2, <2>3, ConcatProperties
  <2>5. c[1] = q /\ Len(c) = Len(t) + 1
    BY <1>0, <2>2, <2>4
  <2>6. ASSUME NEW i \in 1 .. Len(t) PROVE c[i + 1] = t[i]
    <3>1. i + 1 \in 1 .. 1 + Len(t) /\ ~(i + 1 <= 1) /\ (i + 1) - 1 = i
      BY <1>0
    <3>. QED
      BY <2>2, <2>4, <3>1
  <2>. QED
    BY <2>1, <2>3, <2>4, <2>5, <2>6
<1>. HIDE DEF a
<1>2. /\ line \in Seq(C) /\ Len(line) = Len(t) + 2 /\ line[Len(t) + 2] = q
      /\ \A i \in 1 .. Len(t) + 1 : line[i] = a[i]
  <2>1. PICK b : b = <<q>>
    OBVIOUS
  <2>2. b \in Seq(C) /\ Len(b) = 1 /\ b[1] = q
    BY <1>0, <2>1
  <2>3. PICK c : c = a \o b
    OBVIOUS
  <2>4. /\ c \in Seq(C) /\ Len(c) = Len(a) + Len(b)
        /\ \A i \in 1 .. Len(a) + Len(b) : c[i] = IF i <= Len(a) THEN a[i] ELSE b[i - Len(a)]
    BY <1>1, <2>2, <2>3, ConcatProperties
  <2>5. Len(c) = Len(t) + 2
    BY <1>0, <1>1, <2>2, <2>4
  <2>6. ASSUME NEW i \in 1 .. Len(t) + 1 PROVE c[i] = a[i]
    <3>1. i \in 1 .. (Len(t) + 1) + 1 /\ i <= Len(t) + 1
      BY <1>0
    <3>. QED
      BY <1>1, <2>2, <2>4, <3>1
  <2>7. c[Len(t) + 2] = q
    <3>1. Len(t) + 2 \in 1 .. (Len(t) + 1) + 1 /\ ~(Len(t) + 2 <= Len(t) + 1) /\ (Len(t) + 2) - (Len(t) + 1) = 1
      BY <1>0
    <3>. QED
      BY <1>1, <2>2, <2>4, <3>1
  <2>. QED
    BY <2>1, <2>3, <2>4, <2>5, <2>6, <2>7
<1>. HIDE DEF line
<1>3. line[1] = q
  <2>1. 1 \in 1 .. Len(t) + 1
    BY <1>0
  <2>. QED
    BY <1>1, <1>2, <2>1
<1>4. ASSUME NEW i \in 1 .. Len(t) PROVE line[i + 1] = t[i]
  <2>1. i + 1 \in 1 .. Len(t) + 1
    BY <1>0
  <2>. QED
    BY <1>1, <1>2, <2>1
<1>. QED
  BY <1>2, <1>3, <1>4 DEF line, a

\* The characters of a sequence of sequences: from p[j] on, those of r[j + 1].
Laid(x, r, p) ==
    /\ p \in [0 .. Len(r) -> Nat] /\ p[0] = 0 /\ Len(x) = p[Len(r)]
    /\ \A j \in 0 .. Len(r) - 1 :
          /\ p[j + 1] = p[j] + Len(r[j + 1]) /\ p[j + 1] <= Len(x)
          /\ \A i \in 1 .. Len(r[j + 1]) : x[p[j] + i] = r[j + 1][i]

\* A sequence that is flattened is laid out so.
LEMMA FlatLaid ==
    ASSUME NEW C, NEW r \in Seq(Seq(C))
    PROVE  String!FlattenSeq(r) \in Seq(C) /\ \E p : Laid(String!FlattenSeq(r), r, p)
<1>. DEFINE n == Len(r)
<1>0. n \in Nat /\ \A i \in 1 .. n : r[i] \in Seq(C) /\ Len(r[i]) \in Nat
  BY LenProperties, ElementOfSeq
<1>1. PICK u \in [0 .. n -> Seq(C)] :
              /\ u[0] = <<>> /\ String!FlattenSeq(r) = u[n]
              /\ \A k \in 0 .. n - 1 : u[k + 1] = u[k] \o r[k + 1]
  BY FlatIs
<1>. HIDE DEF n
<1>2. \A k \in 0 .. n : u[k] \in Seq(C) /\ Len(u[k]) \in Nat
  BY LenProperties
<1>. DEFINE p == [k \in 0 .. n |-> Len(u[k])]
<1>3. p \in [0 .. n -> Nat] /\ \A k \in 0 .. n : p[k] = Len(u[k]) /\ p[k] \in Nat
  BY <1>2
<1>. HIDE DEF p
<1>4. ASSUME NEW k \in 0 .. n - 1
      PROVE  /\ p[k + 1] = p[k] + Len(r[k + 1])
             /\ \A i \in 1 .. p[k] : u[k + 1][i] = u[k][i]
             /\ \A i \in 1 .. Len(r[k + 1]) : u[k + 1][p[k] + i] = r[k + 1][i]
  <2>0. k \in 0 .. n /\ k + 1 \in 0 .. n /\ k + 1 \in 1 .. n
    BY <1>0
  <2>1. PICK a : a = u[k]
    OBVIOUS
  <2>2. PICK b : b = r[k + 1]
    OBVIOUS
  <2>3. PICK c : c = u[k + 1]
    OBVIOUS
  <2>4. a \in Seq(C) /\ b \in Seq(C) /\ c = a \o b /\ Len(a) \in Nat /\ Len(b) \in Nat
    BY <1>0, <1>1, <1>2, <2>0, <2>1, <2>2, <2>3
  <2>5. /\ Len(c) = Len(a) + Len(b)
        /\ \A i \in 1 .. Len(a) + Len(b) : c[i] = IF i <= Len(a) THEN a[i] ELSE b[i - Len(a)]
    BY <2>4, ConcatProperties
  <2>6. \A i \in 1 .. Len(a) : c[i] = a[i]
    BY <2>4, <2>5
  <2>7. ASSUME NEW i \in 1 .. Len(b) PROVE c[Len(a) + i] = b[i]
    <3>1. Len(a) + i \in 1 .. Len(a) + Len(b) /\ ~(Len(a) + i <= Len(a)) /\ (Len(a) + i) - Len(a) = i
      BY <2>4
    <3>. QED
      BY <2>5, <3>1
  <2>8. p[k] = Len(a) /\ p[k + 1] = Len(c)
    BY <1>3, <2>0, <2>1, <2>3
  <2>. QED
    BY <2>1, <2>2, <2>3, <2>5, <2>6, <2>7, <2>8
<1>. DEFINE Upto(k) == \A j \in 0 .. k - 1 :
                          /\ p[j + 1] <= p[k]
                          /\ \A i \in 1 .. Len(r[j + 1]) : u[k][p[j] + i] = r[j + 1][i]
            S == {k \in Nat : k <= n => Upto(k)}
<1>5. 0 \in S
  OBVIOUS
<1>6. ASSUME NEW k \in Nat, k \in S PROVE k + 1 \in S
  <2>. SUFFICES ASSUME k + 1 <= n PROVE Upto(k + 1)
    OBVIOUS
  <2>1. k \in 0 .. n - 1 /\ k \in 0 .. n /\ k + 1 \in 0 .. n /\ k <= n
    BY <1>0
  <2>2. Upto(k)
    BY <1>6, <2>1
  <2>3. p[k] \in Nat /\ p[k + 1] \in Nat /\ Len(r[k + 1]) \in Nat
    <3>1. k + 1 \in 1 .. n
      BY <2>1
    <3>. QED
      BY <1>0, <1>3, <2>1, <3>1
  <2>4. p[k] <= p[k + 1]
    <3>1. PICK l \in Nat : l = Len(r[k + 1])
      BY <2>3
    <3>2. PICK x \in Nat : x = p[k]
      BY <2>3
    <3>3. p[k + 1] = x + l
      BY <1>4, <2>1, <3>1, <3>2
    <3>. QED
      BY <3>2, <3>3
  <2>5. ASSUME NEW j \in 0 .. (k + 1) - 1
        PROVE  /\ p[j + 1] <= p[k + 1]
               /\ \A i \in 1 .. Len(r[j + 1]) : u[k + 1][p[j] + i] = r[j + 1][i]
    <3>1. CASE j = k
      <4>1. p[k + 1] <= p[k + 1]
        BY <2>3
      <4>2. \A i \in 1 .. Len(r[k + 1]) : u[k + 1][p[k] + i] = r[k + 1][i]
        BY <1>4, <2>1
      <4>. QED
        BY <3>1, <4>1, <4>2
    <3>2. CASE j # k
      <4>1. j \in 0 .. k - 1 /\ j \in 0 .. n /\ j + 1 \in 0 .. n /\ j \in 0 .. n - 1 /\ j + 1 \in 1 .. n
        BY <1>0, <2>1, <3>2
      <4>2. p[j + 1] <= p[k] /\ \A i \in 1 .. Len(r[j + 1]) : u[k][p[j] + i] = r[j + 1][i]
        BY <2>2, <4>1
      <4>3. ASSUME NEW i \in 1 .. Len(r[j + 1]) PROVE u[k + 1][p[j] + i] = r[j + 1][i]
        <5>1. p[j] + i \in 1 .. p[k]
          <6>1. PICK l \in Nat : l = Len(r[j + 1])
            BY <1>0, <4>1
          <6>2. PICK x \in Nat : x = p[j]
            BY <1>3, <4>1
          <6>3. PICK z \in Nat : z = p[k]
            BY <2>3
          <6>4. p[j + 1] = x + l
            BY <1>4, <4>1, <6>1, <6>2
          <6>5. x + l <= z
            BY <4>2, <6>3, <6>4
          <6>6. i \in 1 .. l
            BY <6>1
          <6>7. x + i \in 1 .. z
            BY <6>5, <6>6
          <6>. QED
            BY <6>2, <6>3, <6>7
        <5>2. u[k + 1][p[j] + i] = u[k][p[j] + i]
          BY <1>4, <2>1, <5>1
        <5>. QED
          BY <4>2, <5>2
      <4>4. p[j + 1] <= p[k + 1]
        <5>1. p[j + 1] \in Nat
          BY <1>3, <4>1
        <5>. QED
          BY <2>3, <2>4, <4>2, <5>1
      <4>. QED
        BY <4>3, <4>4
    <3>. QED
      BY <3>1, <3>2
  <2>. QED
    BY <2>5
<1>7. Upto(n)
  <2>. HIDE DEF S
  <2>1. Nat \subseteq S
    BY <1>5, <1>6, Induct
  <2>2. n \in S /\ n <= n
    BY <1>0, <2>1
  <2>. HIDE DEF Upto
  <2>. QED
    BY <2>2 DEF S
<1>8. p[0] = 0 /\ Len(u[n]) = p[n]
  <2>1. 0 \in 0 .. n /\ n \in 0 .. n
    BY <1>0
  <2>2. Len(<<>>) = 0
    OBVIOUS
  <2>. QED
    BY <1>1, <1>3, <2>1, <2>2
<1>9. Laid(u[n], r, p)
  BY <1>0, <1>3, <1>4, <1>7, <1>8 DEF Laid, n
<1>10. u[n] \in Seq(C)
  BY <1>0, <1>2
<1>. QED
  BY Zenon, <1>1, <1>9, <1>10

\* What is written in quotes.
Text == Chars \cup {String!Backslash, "n", "x", "0", String!Quote, String!Apostrophe}

\* A character that stands for itself.
Itself(c) == c \notin {String!Backslash, String!Quote, String!Newline, String!NUL}

\* What a character is written as.
LEMMA ReprIs ==
    ASSUME NEW c
    PROVE  /\ c \in {String!Backslash, String!Quote} => String!Repr(c) = <<String!Backslash, c>>
           /\ c = String!Newline => String!Repr(c) = <<String!Backslash, "n">>
           /\ c = String!NUL => String!Repr(c) = <<String!Backslash, "x", "0", "0">>
           /\ Itself(c) => String!Repr(c) = <<c>>
<1>1. /\ String!Backslash # String!NUL /\ String!Quote # String!NUL /\ String!Newline # String!NUL
      /\ String!Backslash # String!Newline /\ String!Quote # String!Newline
  BY DEF String!Backslash, String!Quote, String!Newline, String!NUL
<1>2. c \in {String!Backslash, String!Quote} => String!Repr(c) = <<String!Backslash, c>>
  BY Zenon, <1>1 DEF String!Repr
<1>3. c = String!Newline => String!Repr(c) = <<String!Backslash, "n">>
  BY Zenon, <1>1 DEF String!Repr
<1>4. c = String!NUL => String!Repr(c) = <<String!Backslash, "x", "0", "0">>
  BY Zenon, <1>1 DEF String!Repr
<1>5. Itself(c) => String!Repr(c) = <<c>>
  BY Zenon DEF String!Repr, Itself
<1>. QED
  BY <1>2, <1>3, <1>4, <1>5

LEMMA ReprText ==
    ASSUME NEW c \in Chars
    PROVE  String!Repr(c) \in Seq(Text) /\ Len(String!Repr(c)) \in Nat /\ Len(String!Repr(c)) > 0
<1>1. PICK b : b = String!Backslash
  OBVIOUS
<1>2. c \in Text /\ b \in Text /\ "n" \in Text /\ "x" \in Text /\ "0" \in Text
  BY <1>1 DEF Text
<1>3. /\ <<b, c>> \in Seq(Text) /\ <<b, "n">> \in Seq(Text) /\ <<c>> \in Seq(Text)
      /\ <<b, "x", "0", "0">> \in Seq(Text)
      /\ Len(<<b, c>>) = 2 /\ Len(<<b, "n">>) = 2 /\ Len(<<c>>) = 1 /\ Len(<<b, "x", "0", "0">>) = 4
  BY <1>2
<1>4. \/ c \in {b, String!Quote} /\ String!Repr(c) = <<b, c>>
      \/ c = String!Newline /\ String!Repr(c) = <<b, "n">>
      \/ c = String!NUL /\ String!Repr(c) = <<b, "x", "0", "0">>
      \/ Itself(c) /\ String!Repr(c) = <<c>>
  BY Zenon, <1>1, ReprIs DEF Itself
<1>. HIDE DEF Text
<1>5. PICK y : y = String!Repr(c)
  OBVIOUS
<1>6. y \in {<<b, c>>, <<b, "n">>, <<b, "x", "0", "0">>, <<c>>}
  BY Zenon, <1>4, <1>5
<1>7. y \in Seq(Text) /\ Len(y) \in {1, 2, 4}
  <2>1. CASE y = <<b, c>>
    BY <1>3, <2>1
  <2>2. CASE y = <<b, "n">>
    BY <1>3, <2>2
  <2>3. CASE y = <<b, "x", "0", "0">>
    BY <1>3, <2>3
  <2>4. CASE y = <<c>>
    BY <1>3, <2>4
  <2>. QED
    BY <1>6, <2>1, <2>2, <2>3, <2>4
<1>8. Len(y) \in Nat /\ Len(y) > 0
  BY <1>7
<1>. QED
  BY <1>5, <1>7, <1>8

\* Reading what a character is written as gives the character.
LEMMA ReprRead ==
    ASSUME NEW line, NEW t \in Seq(Chars), NEW j \in 0 .. Len(t) - 1, NEW at \in Nat,
           \A i \in 1 .. Len(String!Repr(t[j + 1])) :
               String!Char(line, at + i) = String!Repr(t[j + 1])[i]
    PROVE  String!Read(line, Amid("quoted", t, j, 0), at + 1)
              = Amid("quoted", t, j + 1, Len(String!Repr(t[j + 1])) - 1)
<1>. DEFINE c == t[j + 1]
            r == String!Repr(c)
            st == St("quoted", SubSeq(t, 1, j), <<>>, 0)
            k == at + 1
<1>1. String!Read(line, Amid("quoted", t, j, 0), k) = String!Quoted(line, st, k)
  BY ReadQuoted DEF Amid
<1>2. ASSUME NEW n PROVE String!Take(st, c, n) = Amid("quoted", t, j + 1, n)
  <2>1. SubSeq(t, 1, j + 1) = Append(SubSeq(t, 1, j), t[j + 1])
    BY Begun
  <2>2. String!Take(St("quoted", SubSeq(t, 1, j), <<>>, 0), c, n)
           = St("quoted", Append(SubSeq(t, 1, j), c), <<>>, n)
    BY TakeIs
  <2>. QED
    BY Zenon, <2>1, <2>2 DEF Amid
<1>3. \A i \in 1 .. Len(r) : String!Char(line, at + i) = r[i]
  OBVIOUS
<1>4. k = at + 1 /\ k + 1 = at + 2 /\ k + 2 = at + 3 /\ k + 3 = at + 4 /\ (k + 1) + 1 = at + 3 /\ (k + 1) + 2 = at + 4
  OBVIOUS
<1>5. /\ String!Backslash # String!NUL /\ String!Quote # String!NUL /\ String!Newline # String!NUL
      /\ String!Backslash # String!Quote /\ "n" # String!NUL
      /\ String!Backslash # "x" /\ String!Quote # "x" /\ "n" # "x"
      /\ String!Backslash \notin {"n", "a"} /\ String!Quote \notin {"n", "a"}
  BY DEF String!Backslash, String!Quote, String!Newline, String!NUL
<1>. HIDE DEF st, c, r, k
<1>6. CASE c \in {String!Backslash, String!Quote}
  <2>1. r = <<String!Backslash, c>>
    BY <1>6, ReprIs DEF r
  <2>2. String!Char(line, k) = String!Backslash /\ String!Char(line, k + 1) = c /\ Len(r) - 1 = 1
    <3>1. Len(r) = 2 /\ r[1] = String!Backslash /\ r[2] = c
      BY <2>1
    <3>2. 1 \in 1 .. 2 /\ 2 \in 1 .. 2 /\ 2 - 1 = 1
      OBVIOUS
    <3>. QED
      BY <1>3, <1>4, <3>1, <3>2
  <2>3. c # "x" /\ c # String!NUL /\ c # "n" /\ c # "a"
    BY <1>5, <1>6
  <2>4. ~String!IsHex(line, k + 1)
    BY Zenon, <2>2, <2>3 DEF String!IsHex
  <2>5. String!Unescape(c) = c
    BY Zenon, <2>3 DEF String!Unescape
  <2>6. String!Quoted(line, st, k) = String!Take(st, String!Unescape(c), 1)
    BY Zenon, <1>5, <2>2, <2>3, <2>4 DEF String!Quoted
  <2>. QED
    BY Zenon, <1>1, <1>2, <2>2, <2>5, <2>6 DEF c, r, k
<1>7. CASE c = String!Newline
  <2>1. r = <<String!Backslash, "n">>
    BY <1>7, ReprIs DEF r
  <2>2. String!Char(line, k) = String!Backslash /\ String!Char(line, k + 1) = "n" /\ Len(r) - 1 = 1
    <3>1. Len(r) = 2 /\ r[1] = String!Backslash /\ r[2] = "n"
      BY <2>1
    <3>2. 1 \in 1 .. 2 /\ 2 \in 1 .. 2 /\ 2 - 1 = 1
      OBVIOUS
    <3>. QED
      BY <1>3, <1>4, <3>1, <3>2
  <2>4. ~String!IsHex(line, k + 1)
    BY Zenon, <1>5, <2>2 DEF String!IsHex
  <2>5. String!Unescape("n") = c
    <3>1. "n" # "a"
      OBVIOUS
    <3>. QED
      BY Zenon, <1>7, <3>1 DEF String!Unescape
  <2>6. String!Quoted(line, st, k) = String!Take(st, String!Unescape("n"), 1)
    BY Zenon, <1>5, <2>2, <2>4 DEF String!Quoted
  <2>. QED
    BY Zenon, <1>1, <1>2, <2>2, <2>5, <2>6 DEF c, r, k
<1>8. CASE c = String!NUL
  <2>1. r = <<String!Backslash, "x", "0", "0">>
    BY <1>8, ReprIs DEF r
  <2>2. /\ String!Char(line, k) = String!Backslash /\ String!Char(line, k + 1) = "x"
        /\ String!Char(line, k + 2) = "0" /\ String!Char(line, k + 3) = "0"
        /\ String!Char(line, (k + 1) + 1) = "0" /\ String!Char(line, (k + 1) + 2) = "0"
        /\ Len(r) - 1 = 3
    <3>1. Len(r) = 4 /\ r[1] = String!Backslash /\ r[2] = "x" /\ r[3] = "0" /\ r[4] = "0"
      BY <2>1
    <3>2. 1 \in 1 .. 4 /\ 2 \in 1 .. 4 /\ 3 \in 1 .. 4 /\ 4 \in 1 .. 4 /\ 4 - 1 = 3
      OBVIOUS
    <3>. QED
      BY <1>3, <1>4, <3>1, <3>2
  <2>4. String!IsHex(line, k + 1)
    <3>1. "0" \in String!HexDigits
      BY DEF String!HexDigits
    <3>2. {String!Char(line, (k + 1) + 1), String!Char(line, (k + 1) + 2)} \subseteq String!HexDigits
      BY Zenon, <2>2, <3>1
    <3>. QED
      BY Zenon, <2>2, <3>2 DEF String!IsHex
  <2>5. String!Byte("0", "0") = c
    BY Zenon, <1>8 DEF String!Byte
  <2>6. String!Quoted(line, st, k) = String!Take(st, String!Byte("0", "0"), 3)
    BY Zenon, <1>5, <2>2, <2>4 DEF String!Quoted
  <2>. QED
    BY Zenon, <1>1, <1>2, <2>2, <2>5, <2>6 DEF c, r, k
<1>9. CASE Itself(c)
  <2>1. r = <<c>>
    BY <1>9, ReprIs DEF r
  <2>2. String!Char(line, k) = c /\ Len(r) - 1 = 0
    <3>1. Len(r) = 1 /\ r[1] = c
      BY <2>1
    <3>2. 1 \in 1 .. 1 /\ 1 - 1 = 0
      OBVIOUS
    <3>. QED
      BY <1>3, <1>4, <3>1, <3>2
  <2>3. c # String!Backslash /\ c # String!Quote /\ c # String!NUL
    BY <1>9 DEF Itself
  <2>6. String!Quoted(line, st, k) = String!Take(st, c, 0)
    BY Zenon, <2>2, <2>3 DEF String!Quoted
  <2>. QED
    BY Zenon, <1>1, <1>2, <2>2, <2>6 DEF c, r, k
<1>. QED
  BY <1>6, <1>7, <1>8, <1>9 DEF Itself

\* line is a quote, t, and the same quote; read it is so, too.
Between(line, t, q) == line = <<q>> \o t \o <<q>>
ReadsAs(line, t, q) ==
    /\ Len(t) \in Nat /\ Len(line) = Len(t) + 2
    /\ String!Char(line, 1) = q /\ String!Char(line, Len(t) + 2) = q
    /\ String!Char(line, Len(t) + 3) = String!NUL
    /\ \A i \in 1 .. Len(t) : String!Char(line, i + 1) = t[i]

\* What is between quotes is read so.
LEMMA InQuotes ==
    ASSUME NEW C, NEW t \in Seq(C), NEW q \in C, NEW line, Between(line, t, q)
    PROVE  ReadsAs(line, t, q)
<1>1. PICK n \in Nat : n = Len(t)
  BY LenProperties
<1>2. /\ Len(line) = n + 2 /\ line[1] = q /\ line[n + 2] = q
      /\ \A i \in 1 .. n : line[i + 1] = t[i]
  BY <1>1, BetweenIs DEF Between
<1>3. 1 <= n + 2 /\ n + 2 <= n + 2 /\ ~(n + 3 <= n + 2) /\ \A i \in 1 .. n : i + 1 <= n + 2
  OBVIOUS
<1>4. \A i : i <= n + 2 => String!Char(line, i) = line[i]
  BY Zenon, <1>2 DEF String!Char
<1>5. String!Char(line, n + 3) = String!NUL
  BY Zenon, <1>2, <1>3 DEF String!Char
<1>. QED
  BY <1>1, <1>2, <1>3, <1>4, <1>5 DEF ReadsAs

\* The written string reads back.
LEMMA QuoteMarks ==
    ASSUME NEW t \in Seq(Chars)
    PROVE  String!sdssplitargs(String!sdscatrepr(t)) = <<t>>
<1>. DEFINE r == [j \in DOMAIN t |-> String!Repr(t[j])]
            f == String!FlattenSeq(r)
            line == <<String!Quote>> \o f \o <<String!Quote>>
            q == String!Quote
<1>0. Len(t) \in Nat /\ DOMAIN t = 1 .. Len(t) /\ \A j \in 1 .. Len(t) : t[j] \in Chars
  BY LenProperties, ElementOfSeq
<1>1. String!sdscatrepr(t) = line
  BY Zenon DEF String!sdscatrepr
<1>2. /\ r \in Seq(Seq(Text)) /\ Len(r) = Len(t)
      /\ \A j \in 1 .. Len(t) : r[j] = String!Repr(t[j]) /\ Len(r[j]) \in Nat /\ Len(r[j]) > 0
  <2>1. \A j \in 1 .. Len(t) : String!Repr(t[j]) \in Seq(Text) /\ Len(String!Repr(t[j])) \in Nat /\ Len(String!Repr(t[j])) > 0
    BY <1>0, ReprText
  <2>2. r = [j \in 1 .. Len(t) |-> String!Repr(t[j])]
    BY Zenon, <1>0
  <2>. HIDE DEF r
  <2>. DEFINE X == Seq(Text)
  <2>3. \A j \in 1 .. Len(t) : r[j] = String!Repr(t[j])
    BY Zenon, <2>2
  <2>4. \A j \in 1 .. Len(t) : String!Repr(t[j]) \in X
    BY <2>1
  <2>. HIDE DEF X
  <2>5. r \in Seq(X) /\ Len(r) = Len(t)
    <3>1. r \in [1 .. Len(t) -> X]
      BY <2>2, <2>4
    <3>. QED
      BY <1>0, <3>1
  <2>6. r \in Seq(Seq(Text))
    BY <2>5 DEF X
  <2>. QED
    BY <2>1, <2>3, <2>5, <2>6
<1>. HIDE DEF r
<1>3. f \in Seq(Text) /\ \E p0 : Laid(f, r, p0)
  BY <1>2, FlatLaid
<1>. HIDE DEF f
<1>4. PICK p0 : Laid(f, r, p0)
  BY <1>3
<1>5. /\ Len(f) \in Nat /\ Len(line) = Len(f) + 2
      /\ String!Char(line, 1) = q /\ String!Char(line, Len(f) + 2) = q
      /\ String!Char(line, Len(f) + 3) = String!NUL
      /\ \A i \in 1 .. Len(f) : String!Char(line, i + 1) = f[i]
  <2>1. q \in Text
    BY DEF Text
  <2>2. PICK x : x = q
    OBVIOUS
  <2>3. PICK l : l = <<x>> \o f \o <<x>>
    OBVIOUS
  <2>4. f \in Seq(Text) /\ x \in Text
    BY <1>3, <2>1, <2>2
  <2>5. Between(l, f, x)
    BY Zenon, <2>3 DEF Between
  <2>6. ReadsAs(l, f, x)
    BY <2>4, <2>5, InQuotes
  <2>7. l = line
    BY Zenon, <2>2, <2>3
  <2>. HIDE DEF line, q
  <2>. QED
    BY Zenon, <2>2, <2>6, <2>7 DEF ReadsAs
<1>. HIDE DEF line
<1>. DEFINE p == [j \in 0 .. Len(t) |-> p0[j] + 1]
<1>6. p0[0] = 0 /\ Len(f) = p0[Len(t)] /\ \A j \in 0 .. Len(t) : p0[j] \in Nat
  BY <1>0, <1>2, <1>4 DEF Laid
<1>7. p \in [0 .. Len(t) -> Nat] /\ \A j \in 0 .. Len(t) : p[j] = p0[j] + 1
  BY <1>6
<1>. HIDE DEF p
<1>8. ASSUME NEW j \in 0 .. Len(t) - 1
      PROVE  /\ p[j] < p[j + 1]
             /\ String!Read(line, Amid("quoted", t, j, 0), p[j] + 1) = Amid("quoted", t, j + 1, p[j + 1] - (p[j] + 1))
  <2>1. j \in 0 .. Len(t) /\ j + 1 \in 0 .. Len(t) /\ j + 1 \in 1 .. Len(t)
    BY <1>0
  <2>2. PICK l \in Nat : l = Len(String!Repr(t[j + 1])) /\ l > 0
    BY <1>2, <2>1
  <2>3. PICK x \in Nat : x = p0[j]
    BY <1>6, <2>1
  <2>4. /\ p0[j + 1] = x + l /\ x + l <= Len(f)
        /\ \A i \in 1 .. l : f[x + i] = String!Repr(t[j + 1])[i]
    <3>1. /\ p0[j + 1] = p0[j] + Len(r[j + 1]) /\ p0[j + 1] <= Len(f)
          /\ \A i \in 1 .. Len(r[j + 1]) : f[p0[j] + i] = r[j + 1][i]
      BY <1>2, <1>4 DEF Laid
    <3>2. r[j + 1] = String!Repr(t[j + 1])
      BY <1>2, <2>1
    <3>. QED
      BY <2>2, <2>3, <3>1, <3>2
  <2>5. p[j] = x + 1 /\ p[j + 1] = x + l + 1
    BY <1>7, <2>1, <2>3, <2>4
  <2>6. x + 1 \in Nat /\ x + 1 < x + l + 1 /\ (x + l + 1) - ((x + 1) + 1) = l - 1
    BY <2>2
  <2>7. ASSUME NEW i \in 1 .. l PROVE String!Char(line, (x + 1) + i) = String!Repr(t[j + 1])[i]
    <3>1. x + i \in 1 .. Len(f) /\ (x + i) + 1 = (x + 1) + i
      BY <1>5, <2>4
    <3>. QED
      BY <1>5, <2>4, <3>1
  <2>8. String!Read(line, Amid("quoted", t, j, 0), (x + 1) + 1) = Amid("quoted", t, j + 1, l - 1)
    BY <2>2, <2>6, <2>7, ReprRead
  <2>. QED
    BY <2>5, <2>6, <2>8
<1>9. String!Read(line, St("blank", <<>>, <<>>, 0), 1) = Amid("quoted", t, 0, 0)
  <2>1. String!Read(line, St("blank", <<>>, <<>>, 0), 1)
           = St(IF String!Quote = String!Quote THEN "quoted" ELSE "single", <<>>, <<>>, 0)
    BY <1>5, ReadOpen
  <2>2. SubSeq(t, 1, 0) = <<>>
    BY Begun
  <2>. QED
    BY Zenon, <2>1, <2>2 DEF Amid
<1>10. String!Read(line, Amid("quoted", t, Len(t), 0), p[Len(t)] + 1) = St("blank", <<>>, <<t>>, 0)
  <2>1. PICK k \in Nat : k = p[Len(t)] + 1 /\ k = Len(f) + 2 /\ k + 1 = Len(f) + 3
    <3>1. Len(t) \in 0 .. Len(t)
      BY <1>0
    <3>. QED
      BY <1>5, <1>6, <1>7, <3>1
  <2>2. PICK st : st = St("quoted", t, <<>>, 0)
    OBVIOUS
  <2>3. Amid("quoted", t, Len(t), 0) = st
    BY Zenon, <2>2, Begun DEF Amid
  <2>4. String!Read(line, st, k) = String!Quoted(line, st, k)
    BY <2>2, ReadQuoted
  <2>5. String!Quote # String!Backslash /\ String!Quote # String!NUL
    BY DEF String!Quote, String!Backslash, String!NUL
  <2>6. String!Quoted(line, st, k) = String!Closed(line, st, k)
    <3>1. String!Char(line, k) = String!Quote
      BY <1>5, <2>1
    <3>. QED
      BY Zenon, <2>5, <3>1 DEF String!Quoted
  <2>7. String!Closed(line, st, k) = St("blank", <<>>, <<t>>, 0)
    <3>1. String!Char(line, k + 1) = String!NUL
      BY <1>5, <2>1
    <3>. QED
      BY <2>2, <3>1, ClosedIs
  <2>. QED
    BY Zenon, <2>1, <2>3, <2>4, <2>6, <2>7
<1>11. Marks(line, t, "quoted", p)
  <2>1. p[0] = 1 /\ Len(line) = p[Len(t)] + 1
    <3>1. Len(t) \in 0 .. Len(t) /\ 0 \in 0 .. Len(t)
      BY <1>0
    <3>. QED
      BY <1>5, <1>6, <1>7, <3>1
  <2>. QED
    BY <1>7, <1>8, <1>9, <1>10, <2>1 DEF Marks
<1>12. String!sdssplitargs(line) = <<t>>
  BY <1>11, ReadsBack
<1>. QED
  BY <1>1, <1>12

\* Apostrophes.
LEMMA SingleMarks ==
    ASSUME NEW t \in Seq(Chars), \A i \in 1 .. Len(t) : t[i] \notin {String!Apostrophe, String!NUL, String!Backslash}
    PROVE  String!sdssplitargs(<<String!Apostrophe>> \o t \o <<String!Apostrophe>>) = <<t>>
<1>. DEFINE q == String!Apostrophe
            line == <<q>> \o t \o <<q>>
<1>0. Len(t) \in Nat /\ \A j \in 1 .. Len(t) : t[j] \in Chars
  BY LenProperties, ElementOfSeq
<1>1. /\ Len(line) = Len(t) + 2
      /\ String!Char(line, 1) = q /\ String!Char(line, Len(t) + 2) = q
      /\ String!Char(line, Len(t) + 3) = String!NUL
      /\ \A i \in 1 .. Len(t) : String!Char(line, i + 1) = t[i]
  <2>. DEFINE C == Chars \cup {q}
  <2>1. t \in Seq(C) /\ q \in C
    BY <1>0
  <2>. HIDE DEF C
  <2>2. PICK x : x = q
    OBVIOUS
  <2>3. PICK l : l = <<x>> \o t \o <<x>>
    OBVIOUS
  <2>4. t \in Seq(C) /\ x \in C
    BY <2>1, <2>2
  <2>5. Between(l, t, x)
    BY Zenon, <2>3 DEF Between
  <2>6. ReadsAs(l, t, x)
    BY <2>4, <2>5, InQuotes
  <2>7. l = line
    BY Zenon, <2>2, <2>3
  <2>. HIDE DEF line, q
  <2>. QED
    BY Zenon, <2>2, <2>6, <2>7 DEF ReadsAs
<1>2. q # String!NUL /\ q # String!Backslash /\ q # String!Quote
  BY DEF String!Apostrophe, String!NUL, String!Backslash, String!Quote
<1>. HIDE DEF line
<1>. DEFINE p == [j \in 0 .. Len(t) |-> j + 1]
<1>3. p \in [0 .. Len(t) -> Nat] /\ \A j \in 0 .. Len(t) : p[j] = j + 1
  OBVIOUS
<1>. HIDE DEF p
<1>4. ASSUME NEW j \in 0 .. Len(t) - 1
      PROVE  /\ p[j] < p[j + 1]
             /\ String!Read(line, Amid("single", t, j, 0), p[j] + 1) = Amid("single", t, j + 1, p[j + 1] - (p[j] + 1))
  <2>1. j \in 0 .. Len(t) /\ j + 1 \in 0 .. Len(t) /\ j + 1 \in 1 .. Len(t) /\ j \in Nat
    BY <1>0
  <2>2. PICK k \in Nat : k = (j + 1) + 1
    BY <2>1
  <2>3. p[j] + 1 = k /\ p[j] < p[j + 1] /\ p[j + 1] - (p[j] + 1) = 0
    BY <1>3, <2>1, <2>2
  <2>4. PICK c : c = t[j + 1]
    OBVIOUS
  <2>5. String!Char(line, k) = c /\ c \notin {String!Apostrophe, String!NUL, String!Backslash}
    BY <1>1, <2>1, <2>2, <2>4
  <2>6. PICK st : st = St("single", SubSeq(t, 1, j), <<>>, 0)
    OBVIOUS
  <2>7. String!Read(line, st, k) = String!Single(line, st, k)
    BY <2>6, ReadSingle
  <2>8. String!Single(line, st, k) = String!Take(st, c, 0)
    BY Zenon, <2>5 DEF String!Single
  <2>9. String!Take(st, c, 0) = St("single", Append(SubSeq(t, 1, j), c), <<>>, 0)
    BY <2>6, TakeIs
  <2>10. SubSeq(t, 1, j + 1) = Append(SubSeq(t, 1, j), t[j + 1])
    BY Begun
  <2>11. String!Read(line, Amid("single", t, j, 0), k) = Amid("single", t, j + 1, 0)
    BY Zenon, <2>4, <2>6, <2>7, <2>8, <2>9, <2>10 DEF Amid
  <2>. QED
    BY <2>3, <2>11
<1>5. String!Read(line, St("blank", <<>>, <<>>, 0), 1) = Amid("single", t, 0, 0)
  <2>1. String!Read(line, St("blank", <<>>, <<>>, 0), 1)
           = St(IF q = String!Quote THEN "quoted" ELSE "single", <<>>, <<>>, 0)
    BY <1>1, ReadOpen
  <2>2. SubSeq(t, 1, 0) = <<>>
    BY Begun
  <2>. QED
    BY Zenon, <1>2, <2>1, <2>2 DEF Amid
<1>6. String!Read(line, Amid("single", t, Len(t), 0), p[Len(t)] + 1) = St("blank", <<>>, <<t>>, 0)
  <2>1. PICK k \in Nat : k = p[Len(t)] + 1 /\ k = Len(t) + 2 /\ k + 1 = Len(t) + 3
    <3>1. Len(t) \in 0 .. Len(t)
      BY <1>0
    <3>. QED
      BY <1>0, <1>3, <3>1
  <2>2. PICK st : st = St("single", t, <<>>, 0)
    OBVIOUS
  <2>3. Amid("single", t, Len(t), 0) = st
    BY Zenon, <2>2, Begun DEF Amid
  <2>4. String!Read(line, st, k) = String!Single(line, st, k)
    BY <2>2, ReadSingle
  <2>5. String!Single(line, st, k) = String!Closed(line, st, k)
    <3>1. String!Char(line, k) = String!Apostrophe
      BY <1>1, <2>1
    <3>. QED
      BY Zenon, <1>2, <3>1 DEF String!Single, q
  <2>6. String!Closed(line, st, k) = St("blank", <<>>, <<t>>, 0)
    <3>1. String!Char(line, k + 1) = String!NUL
      BY <1>1, <2>1
    <3>. QED
      BY <2>2, <3>1, ClosedIs
  <2>. QED
    BY Zenon, <2>1, <2>3, <2>4, <2>5, <2>6
<1>7. Marks(line, t, "single", p)
  <2>1. p[0] = 1 /\ Len(line) = p[Len(t)] + 1
    <3>1. Len(t) \in 0 .. Len(t) /\ 0 \in 0 .. Len(t)
      BY <1>0
    <3>. QED
      BY <1>0, <1>1, <1>3, <3>1
  <2>. QED
    BY <1>3, <1>4, <1>5, <1>6, <2>1 DEF Marks
<1>8. String!sdssplitargs(line) = <<t>>
  BY <1>7, ReadsBack
<1>. QED
  BY <1>8 DEF line

\* What quoting writes of a string that is well, and apostrophes, are read back.
LEMMA StrRoundTrip ==
    ASSUME StrWell
    PROVE  String!RoundTrip
<1>1. str \in Seq(Chars) /\ Len(str) \in Nat
  BY LenProperties DEF StrWell, Holds
<1>2. String!sdssplitargs(String!sdscatrepr(str)) = <<str>>
  BY <1>1, QuoteMarks
<1>3. ASSUME String!ToSet(str) \cap {String!Apostrophe, String!NUL, String!Backslash} = {}
      PROVE  String!sdssplitargs(<<String!Apostrophe>> \o str \o <<String!Apostrophe>>) = <<str>>
  <2>. DEFINE bad == {String!Apostrophe, String!NUL, String!Backslash}
  <2>1. ASSUME NEW i \in 1 .. Len(str) PROVE str[i] \notin bad
    <3>1. String!ToSet(str) \cap bad = {}
      BY <1>3
    <3>. HIDE DEF bad
    <3>2. i \in DOMAIN str
      BY <1>1
    <3>3. str[i] \in String!ToSet(str)
      BY Zenon, <3>2 DEF String!ToSet
    <3>. QED
      BY Zenon, <3>1, <3>3
  <2>. QED
    BY <1>1, <2>1, SingleMarks
<1>. QED
  BY Zenon, <1>2, <1>3 DEF String!RoundTrip

\* All of it.
LEMMA StrIsAString ==
    ASSUME StrWell
    PROVE  String!IsAString
BY StrHoldsIt, StrSplits, StrRoundTrip DEF String!IsAString
=============================================================================
