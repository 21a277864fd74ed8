-------------------------- MODULE HierarchyProofs --------------------------
(* Lemmas about edge maps and about reaching the root.                     *)
EXTENDS Hierarchy, FiniteSetTheorems, SequenceTheorems, WellFoundedInduction, TLAPS

-----------------------------------------------------------------------------
(* Least elements, and induction and recursion up to a bound               *)

\* Every non-empty set of naturals has a least element.
LEMMA LeastNatural ==
    ASSUME NEW T \in SUBSET Nat, T # {}
    PROVE  \E n \in T : \A m \in T : n <= m
<1>1. PICK n \in T : \A m \in T : ~ (<<m, n>> \in OpToRel(<, Nat))
  BY NatLessThanWellFounded, WFMin
<1>2. \A m \in T : ~ (m < n)
  BY <1>1 DEF OpToRel
<1> QED
  BY <1>2

\* Induction up to a bound: what holds of the start, and of an iteration when it
\* holds of the one before, holds of all. States of an iteration are stated as
\* members of a set, which may differ from one iteration to the next.
LEMMA BoundedInduction ==
    ASSUME NEW n \in Nat, NEW f, NEW D,
           f[0] \in D[0],
           \A i \in 1 .. n : f[i - 1] \in D[i - 1] => f[i] \in D[i]
    PROVE  \A i \in 0 .. n : f[i] \in D[i]
<1> DEFINE T == {i \in 0 .. n : f[i] \notin D[i]}
<1> SUFFICES ASSUME T # {} PROVE FALSE
  OBVIOUS
<1>1. T \in SUBSET Nat
  OBVIOUS
<1>2. PICK i \in T : \A j \in T : i <= j
  <2> HIDE DEF T
  <2> QED
    BY <1>1, LeastNatural
<1>3. i \in 1 .. n
  <2>1. i \in 0 .. n /\ i # 0
    BY <1>2
  <2> QED
    BY <2>1
<1>4. i - 1 \in 0 .. n /\ i - 1 \notin T
  BY <1>2, <1>3
<1> QED
  BY <1>2, <1>3, <1>4

\* The recursive definition of f, up to the bound n, from e by the steps F.
IsRecursion(f, n, e, F) == f = [i \in 0 .. n |-> IF i = 0 THEN e ELSE F[<<i, f[i - 1]>>]]

\* A function may be defined by recursion up to a bound: there is one that
\* satisfies the definition.
LEMMA BoundedRecursion ==
    ASSUME NEW n \in Nat, NEW D, NEW e \in D[0], NEW F,
           \A i \in 1 .. n : \A x \in D[i - 1] : F[<<i, x>>] \in D[i]
    PROVE  \E f : IsRecursion(f, n, e, F) /\ \A i \in 0 .. n : f[i] \in D[i]
<1> USE DEF IsRecursion
<1> DEFINE Is(f, m) == /\ f = [i \in 0 .. m |-> IF i = 0 THEN e ELSE F[<<i, f[i - 1]>>]]
                       /\ \A i \in 0 .. m : f[i] \in D[i]
           T == {m \in 0 .. n : ~ \E f : Is(f, m)}
<1> SUFFICES ASSUME T # {} PROVE FALSE
  BY DEF T
<1>1. T \in SUBSET Nat
  OBVIOUS
<1>2. PICK m \in T : \A k \in T : m <= k
  <2> HIDE DEF T
  <2> QED
    BY <1>1, LeastNatural
<1>3. m # 0
  <2>1. Is([i \in 0 .. 0 |-> e], 0)
    BY DEF Is
  <2> HIDE DEF Is
  <2> QED
    BY <1>2, <2>1
<1>4. m \in 1 .. n /\ m - 1 \in 0 .. n
  <2>1. m \in 0 .. n /\ m # 0
    BY <1>2, <1>3
  <2> QED
    BY <2>1
<1>5. PICK f : Is(f, m - 1)
  <2>1. m - 1 \notin T
    <3> HIDE DEF T
    <3> QED
      BY <1>2, <1>4
  <2> HIDE DEF Is
  <2> QED
    BY <1>4, <2>1
<1> DEFINE g == [i \in 0 .. m |-> IF i = m THEN F[<<m, f[m - 1]>>] ELSE f[i]]
<1>6. \A i \in 0 .. m - 1 : g[i] = f[i]
  BY <1>4
<1>7. g[m] = F[<<m, f[m - 1]>>] /\ f[m - 1] \in D[m - 1]
  BY <1>4, <1>5
<1>8. \A i \in 0 .. m : g[i] \in D[i]
  <2>1. g[m] \in D[m]
    BY <1>4, <1>7
  <2> QED
    BY <1>4, <1>5, <1>6, <2>1
<1>9. \A i \in 0 .. m : g[i] = IF i = 0 THEN e ELSE F[<<i, g[i - 1]>>]
  <2> SUFFICES ASSUME NEW i \in 0 .. m
               PROVE  g[i] = IF i = 0 THEN e ELSE F[<<i, g[i - 1]>>]
    OBVIOUS
  <2>1. CASE i = m
    <3>1. m - 1 \in 0 .. m - 1
      BY <1>4
    <3>2. g[m - 1] = f[m - 1] /\ m # 0
      BY <1>4, <1>6, <3>1
    <3> HIDE DEF g
    <3> QED
      BY <1>7, <2>1, <3>2
  <2>2. CASE i = 0
    BY <1>4, <1>5, <1>6, <2>2
  <2>3. CASE i # m /\ i # 0
    <3>1. i \in 0 .. m - 1 /\ i - 1 \in 0 .. m - 1
      BY <1>4, <2>3
    <3>2. g[i] = f[i] /\ g[i - 1] = f[i - 1]
      BY <1>6, <3>1
    <3>3. f[i] = F[<<i, f[i - 1]>>]
      BY <1>5, <2>3, <3>1
    <3> QED
      BY <2>3, <3>2, <3>3
  <2> QED
    BY <2>1, <2>2, <2>3
<1>10. Is(g, m)
  <2>1. g = [i \in 0 .. m |-> g[i]]
    OBVIOUS
  <2> HIDE DEF g
  <2>2. g = [i \in 0 .. m |-> IF i = 0 THEN e ELSE F[<<i, g[i - 1]>>]]
    BY <1>9, <2>1
  <2> QED
    BY <1>8, <2>2
<1> HIDE DEF Is
<1> QED
  BY <1>2, <1>10

-----------------------------------------------------------------------------
(* Sorting                                                                 *)

\* Sorted lists the elements of a finite set in the order given: every one
\* once, each after those before it.
LEMMA SortedFacts ==
    ASSUME NEW S, IsFiniteSet(S), NEW before,
           \A a \in S : <<a, a>> \notin before,
           \A a, b, c \in S : <<a, b>> \in before /\ <<b, c>> \in before => <<a, c>> \in before,
           \A a, b \in S : a # b => <<a, b>> \in before \/ <<b, a>> \in before
    PROVE  /\ Sorted(S, before) \in [1 .. Cardinality(S) -> S]
           /\ \A a \in S : \E i \in 1 .. Cardinality(S) : Sorted(S, before)[i] = a
           /\ \A i, j \in 1 .. Cardinality(S) :
                i < j => <<Sorted(S, before)[i], Sorted(S, before)[j]>> \in before
           /\ \A i, j \in 1 .. Cardinality(S) :
                Sorted(S, before)[i] = Sorted(S, before)[j] => i = j
<1> DEFINE n        == Cardinality(S)
           Below(a) == {b \in S : <<b, a>> \in before}
           rank     == [a \in S |-> Cardinality(Below(a)) + 1]
           s        == Sorted(S, before)
<1>1. n \in Nat
  BY FS_CardinalityType
<1>2. \A a \in S : IsFiniteSet(Below(a)) /\ Cardinality(Below(a)) \in 0 .. n - 1
  <2> SUFFICES ASSUME NEW a \in S
               PROVE  IsFiniteSet(Below(a)) /\ Cardinality(Below(a)) \in 0 .. n - 1
    OBVIOUS
  <2>1. Below(a) \in SUBSET S /\ Below(a) # S
    OBVIOUS
  <2> HIDE DEF Below
  <2>2. IsFiniteSet(Below(a)) /\ Cardinality(Below(a)) <= n /\ Cardinality(Below(a)) # n
    BY <2>1, FS_Subset
  <2>3. Cardinality(Below(a)) \in Nat
    BY <2>2, FS_CardinalityType
  <2> HIDE DEF n
  <2> QED
    BY <1>1, <2>2, <2>3
<1>3. rank \in [S -> 1 .. n] /\ \A a \in S : rank[a] = Cardinality(Below(a)) + 1
  <2> HIDE DEF n, Below
  <2> QED
    BY <1>1, <1>2
<1>4. ASSUME NEW a \in S, NEW b \in S, <<a, b>> \in before
      PROVE  rank[a] < rank[b]
  <2>1. Below(a) \in SUBSET Below(b) /\ a \in Below(b) /\ a \notin Below(a)
    BY <1>4
  <2> HIDE DEF Below, rank, n
  <2>2. Cardinality(Below(a)) <= Cardinality(Below(b)) /\ Cardinality(Below(a)) # Cardinality(Below(b))
    BY <1>2, <2>1, FS_Subset
  <2> QED
    BY <1>1, <1>2, <1>3, <2>2
<1> HIDE DEF rank, n, Below
<1>5. \A a \in S : rank[a] \in 1 .. n /\ Cardinality(Below(a)) = rank[a] - 1
  <2> SUFFICES ASSUME NEW a \in S
               PROVE  rank[a] \in 1 .. n /\ Cardinality(Below(a)) = rank[a] - 1
    OBVIOUS
  <2>1. rank[a] \in 1 .. n /\ Cardinality(Below(a)) \in 0 .. n - 1
    BY <1>2, <1>3
  <2>2. rank[a] = Cardinality(Below(a)) + 1
    BY <1>3
  <2> QED
    BY <1>1, <2>1, <2>2
<1>6. \A a, b \in S : rank[a] = rank[b] => a = b
  <2> SUFFICES ASSUME NEW a \in S, NEW b \in S, rank[a] = rank[b], a # b
               PROVE  FALSE
    OBVIOUS
  <2>1. rank[a] < rank[b] \/ rank[b] < rank[a]
    BY <1>4
  <2>2. rank[a] \in Int
    BY <1>1, <1>5
  <2> QED
    BY <2>1, <2>2
<1>7. \A i \in 1 .. n : \E a \in S : rank[a] = i
  <2>1. rank \in Injection(S, 1 .. n)
    BY <1>3, <1>6 DEF Injection, IsInjective
  <2>2. IsFiniteSet(1 .. n) /\ Cardinality(1 .. n) = n
    BY <1>1, FS_Interval
  <2>3. rank \in Surjection(S, 1 .. n)
    BY <2>1, <2>2, FS_Injection DEF n
  <2> QED
    BY <2>3 DEF Surjection
<1>8. \A i \in 1 .. n : s[i] \in S /\ rank[s[i]] = i
  <2> SUFFICES ASSUME NEW i \in 1 .. n
               PROVE  s[i] \in S /\ rank[s[i]] = i
    OBVIOUS
  <2>1. s[i] = CHOOSE a \in S : Cardinality(Below(a)) = i - 1
    BY DEF Sorted, n, Below
  <2>2. PICK a \in S : rank[a] = i
    BY <1>7
  <2>3. Cardinality(Below(a)) = i - 1
    BY <1>5, <2>2
  <2> HIDE DEF s
  <2>4. s[i] \in S /\ Cardinality(Below(s[i])) = i - 1
    BY <2>1, <2>3
  <2>5. rank[s[i]] \in 1 .. n /\ i - 1 = rank[s[i]] - 1 /\ i \in Int /\ rank[s[i]] \in Int
    BY <1>1, <1>5, <2>4
  <2> QED
    BY <2>4, <2>5
<1>9. DOMAIN s = 1 .. n /\ s = [i \in 1 .. n |-> s[i]]
  <2> DEFINE at(i) == CHOOSE a \in S : Cardinality(Below(a)) = i - 1
  <2>1. s = [i \in 1 .. n |-> at(i)]
    BY DEF Sorted, n, Below
  <2> HIDE DEF at, s
  <2> QED
    BY <2>1
<1> HIDE DEF s
<1>10. s \in [1 .. n -> S]
  BY <1>8, <1>9
<1>11. \A a \in S : \E i \in 1 .. n : s[i] = a
  <2> SUFFICES ASSUME NEW a \in S PROVE s[rank[a]] = a
    BY <1>5
  <2> QED
    BY <1>5, <1>6, <1>8
<1>12. \A i, j \in 1 .. n : s[i] = s[j] => i = j
  BY <1>8
<1>13. \A i, j \in 1 .. n : i < j => <<s[i], s[j]>> \in before
  <2> SUFFICES ASSUME NEW i \in 1 .. n, NEW j \in 1 .. n, i < j
               PROVE  <<s[i], s[j]>> \in before
    OBVIOUS
  <2>1. s[i] \in S /\ s[j] \in S /\ rank[s[i]] = i /\ rank[s[j]] = j
    BY <1>8
  <2>2. i # j /\ ~ (j < i)
    BY <1>1
  <2>3. s[i] # s[j] /\ <<s[j], s[i]>> \notin before
    BY <1>4, <2>1, <2>2
  <2> QED
    BY <2>1, <2>3
<1> QED
  BY <1>10, <1>11, <1>12, <1>13 DEF n, s

\* What lists every element of a set in the order given is Sorted.
LEMMA SortedIsUnique ==
    ASSUME NEW S, NEW before, NEW n \in Nat, NEW q \in [1 .. n -> S],
           \A a \in S : <<a, a>> \notin before,
           \A a, b, c \in S : <<a, b>> \in before /\ <<b, c>> \in before => <<a, c>> \in before,
           \A a \in S : \E i \in 1 .. n : q[i] = a,
           \A i, j \in 1 .. n : i < j => <<q[i], q[j]>> \in before
    PROVE  Sorted(S, before) = q
<1> DEFINE Below(a) == {b \in S : <<b, a>> \in before}
           at(i)    == CHOOSE a \in S : Cardinality(Below(a)) = i - 1
<1>1. \A i, j \in 1 .. n : <<q[i], q[j]>> \in before => i < j
  <2> SUFFICES ASSUME NEW i \in 1 .. n, NEW j \in 1 .. n, <<q[i], q[j]>> \in before, ~ (i < j)
               PROVE  FALSE
    OBVIOUS
  <2>1. q[i] \in S /\ q[j] \in S
    OBVIOUS
  <2>2. i = j \/ j < i
    OBVIOUS
  <2>3. <<q[i], q[i]>> \in before
    BY <2>1, <2>2
  <2> QED
    BY <2>1, <2>3
<1>2. \A i, j \in 1 .. n : q[i] = q[j] => i = j
  <2> SUFFICES ASSUME NEW i \in 1 .. n, NEW j \in 1 .. n, q[i] = q[j], i # j
               PROVE  FALSE
    OBVIOUS
  <2>1. i < j \/ j < i
    OBVIOUS
  <2>2. <<q[i], q[i]>> \in before /\ q[i] \in S
    BY <2>1
  <2> QED
    BY <2>2
<1>3. ASSUME NEW i \in 1 .. n
      PROVE  Cardinality(Below(q[i])) = i - 1
  <2> DEFINE B == {q[j] : j \in 1 .. i - 1}
             r == [j \in 1 .. i - 1 |-> q[j]]
  <2>1. Below(q[i]) = B
    <3>1. \A b \in S : <<b, q[i]>> \in before => b \in B
      <4> SUFFICES ASSUME NEW b \in S, <<b, q[i]>> \in before
                   PROVE  b \in B
        OBVIOUS
      <4>1. PICK j \in 1 .. n : q[j] = b
        OBVIOUS
      <4>2. j < i
        BY <1>1, <4>1
      <4> QED
        BY <4>1, <4>2
    <3>2. \A j \in 1 .. i - 1 : j \in 1 .. n /\ j < i
      OBVIOUS
    <3>3. \A j \in 1 .. i - 1 : q[j] \in S /\ <<q[j], q[i]>> \in before
      BY <3>2
    <3> QED
      BY <3>1, <3>3
  <2>2. r \in Bijection(1 .. i - 1, B)
    <3>1. \A j, k \in 1 .. i - 1 : r[j] = r[k] => j = k
      BY <1>2
    <3> QED
      BY <3>1 DEF Bijection, Injection, Surjection, IsInjective
  <2>3. IsFiniteSet(1 .. i - 1) /\ Cardinality(1 .. i - 1) = i - 1
    BY FS_Interval
  <2> HIDE DEF B, r, Below
  <2> QED
    BY <2>1, <2>2, <2>3, FS_Bijection DEF ExistsBijection
<1>4. Cardinality(S) = n
  <2>1. q \in Bijection(1 .. n, S)
    BY <1>2 DEF Bijection, Injection, Surjection, IsInjective
  <2>2. IsFiniteSet(1 .. n) /\ Cardinality(1 .. n) = n
    BY FS_Interval
  <2> QED
    BY <2>1, <2>2, FS_Bijection DEF ExistsBijection
<1> HIDE DEF Below
<1>5. ASSUME NEW i \in 1 .. n
      PROVE  at(i) = q[i]
  <2>1. \A a \in S : Cardinality(Below(a)) = i - 1 => a = q[i]
    <3> SUFFICES ASSUME NEW a \in S, Cardinality(Below(a)) = i - 1
                 PROVE  a = q[i]
      OBVIOUS
    <3>1. PICK j \in 1 .. n : q[j] = a
      OBVIOUS
    <3>2. j - 1 = i - 1
      BY <1>3, <3>1
    <3> QED
      BY <3>1, <3>2
  <2> QED
    BY <1>3, <2>1
<1>6. Sorted(S, before) = [i \in 1 .. n |-> at(i)]
  BY <1>4 DEF Sorted, Below
<1> HIDE DEF at
<1> QED
  BY <1>5, <1>6

-----------------------------------------------------------------------------
(* Edge maps                                                               *)

\* The nodes are finitely many naturals, so that greatest edges exist.
LEMMA NodesFinite == IsFiniteSet(Nodes) /\ Nodes \subseteq Nat
<1>1. IsFiniteSet(Ids \cup {Root})
  BY IdsAssumption, FS_AddElement
<1> QED
  BY <1>1, IdsAssumption DEF Nodes, Root

\* max_edge answers for every edge map that has edges: the HashMap is finite.
LEMMA MaxEdgesNonEmpty ==
    ASSUME NEW em \in EdgeMap, Parents(em) # {}
    PROVE  MaxEdges(em) # {}
<1> DEFINE Above(p) == {q \in Nodes : em[q] > em[p]}
           Sizes    == {Cardinality(Above(p)) : p \in Parents(em)}
<1>1. \A p \in Nodes : /\ IsFiniteSet(Above(p))
                       /\ Cardinality(Above(p)) \in Nat
  BY NodesFinite, FS_Subset, FS_CardinalityType
<1>2. Sizes \in SUBSET Nat /\ Sizes # {}
  BY <1>1 DEF Parents
<1>3. PICK p \in Parents(em) :
          \A q \in Parents(em) : Cardinality(Above(p)) <= Cardinality(Above(q))
  <2>1. PICK n \in Sizes : \A m \in Sizes : n <= m
    <3> HIDE DEF Sizes
    <3> QED
      BY <1>2, LeastNatural
  <2> QED
    BY <2>1
<1>4. \A q \in Nodes : em[q] \in Int
  BY DEF EdgeMap, NoEdge
<1>5. ASSUME NEW q \in Parents(em), em[q] > em[p]
      PROVE  FALSE
  <2>1. q \in Nodes /\ p \in Nodes
    BY DEF Parents
  <2>2. Above(q) \in SUBSET Above(p) /\ q \in Above(p) /\ q \notin Above(q)
    BY <1>4, <1>5, <2>1
  <2>3. Cardinality(Above(q)) <= Cardinality(Above(p)) /\ Cardinality(Above(q)) # Cardinality(Above(p))
    <3> HIDE DEF Above
    <3> QED
      BY <1>1, <2>1, <2>2, FS_Subset
  <2>4. Cardinality(Above(p)) <= Cardinality(Above(q))
    BY <1>3
  <2> HIDE DEF Above
  <2> QED
    BY <1>1, <2>1, <2>3, <2>4
<1>6. p \in MaxEdges(em)
  BY <1>4, <1>5 DEF MaxEdges, Parents
<1> QED
  BY <1>6

\* add_edge makes the edge it adds the only greatest one: after it, max_edge
\* has one answer, in whatever order the HashMap is met.
THEOREM AddEdgeIsUniqueMax ==
    ASSUME NEW em \in EdgeMap, NEW p \in Nodes
    PROVE  /\ NextEdge(em) \in Nat
           /\ AddEdge(em, p) \in EdgeMap
           /\ MaxEdges(AddEdge(em, p)) = {p}
<1>1. /\ NextEdge(em) \in Nat
      /\ \A q \in Parents(em) : em[q] < NextEdge(em)
  <2>1. CASE Parents(em) = {}
    BY <2>1 DEF NextEdge
  <2>2. CASE Parents(em) # {}
    <3> DEFINE top == CHOOSE q \in MaxEdges(em) : TRUE
    <3>1. top \in MaxEdges(em)
      BY <2>2, MaxEdgesNonEmpty
    <3>2. top \in Parents(em) /\ \A q \in Parents(em) : em[q] <= em[top]
      BY <3>1 DEF MaxEdges
    <3>3. \A q \in Parents(em) : em[q] \in Nat
      BY DEF EdgeMap, Parents, NoEdge
    <3>4. NextEdge(em) = em[top] + 1
      BY <2>2 DEF NextEdge
    <3> HIDE DEF top
    <3> QED
      BY <3>2, <3>3, <3>4
  <2> QED
    BY <2>1, <2>2
<1> DEFINE new == AddEdge(em, p)
<1>2. /\ new \in [Nodes -> Nat \cup {NoEdge}]
      /\ new[p] = NextEdge(em)
      /\ \A q \in Nodes \ {p} : new[q] = em[q]
  BY <1>1 DEF AddEdge, EdgeMap
<1>3. p \in Parents(new) /\ \A q \in Parents(new) \ {p} : q \in Parents(em)
  BY <1>1, <1>2 DEF Parents, NoEdge
<1>4. \A q \in Parents(new) \ {p} : new[q] < new[p]
  BY <1>1, <1>2, <1>3 DEF Parents
<1>5. MaxEdges(new) = {p}
  BY <1>1, <1>2, <1>3, <1>4 DEF MaxEdges, EdgeMap, Parents, NoEdge
<1> HIDE DEF new
<1>6. new \in EdgeMap
  BY <1>2, <1>5 DEF EdgeMap
<1> QED
  BY <1>1, <1>5, <1>6 DEF new

-----------------------------------------------------------------------------
(* The updates written back to the document                                *)

Updates == Seq(Ids \X Nodes \X Nat)

\* Of finitely many positions in a sequence one is the last.
LEMMA LastIndex ==
    ASSUME NEW n \in Nat, NEW S \in SUBSET (1 .. n), S # {}
    PROVE  \E i \in S : \A j \in S : j <= i
<1> DEFINE T == {n - i : i \in S}
<1>1. T \in SUBSET Nat /\ T # {}
  <2>1. \A i \in S : i \in 1 .. n
    OBVIOUS
  <2>2. \A i \in S : n - i \in Nat
    BY <2>1
  <2>3. PICK i \in S : TRUE
    OBVIOUS
  <2>4. n - i \in T
    BY <2>3
  <2> QED
    BY <2>2, <2>4
<1>2. PICK m \in T : \A k \in T : m <= k
  <2> HIDE DEF T
  <2> QED
    BY <1>1, LeastNatural
<1>3. PICK i \in S : m = n - i
  BY <1>2
<1>4. \A j \in S : j \in Int /\ n - i <= n - j
  BY <1>2, <1>3
<1> HIDE DEF T
<1> QED
  BY <1>3, <1>4

\* What apply_pending_edge_map_updates writes is an edge map again.
LEMMA WrittenType ==
    ASSUME NEW em \in EdgeMap, NEW n \in Ids, NEW ps \in Updates
    PROVE  Written(em, n, ps) \in EdgeMap
<1> DEFINE ofNode(p) == {i \in DOMAIN ps : ps[i][1] = n /\ ps[i][2] = p}
           last(S)   == CHOOSE i \in S : \A j \in S : j <= i
<1>1. /\ Len(ps) \in Nat /\ DOMAIN ps = 1 .. Len(ps)
      /\ \A i \in DOMAIN ps : ps[i][3] \in Nat
  BY DEF Updates
<1>2. ASSUME NEW p \in Nodes, ofNode(p) # {}
      PROVE  ps[last(ofNode(p))][3] \in Nat
  <2>1. ofNode(p) \in SUBSET (1 .. Len(ps))
    BY <1>1
  <2>2. last(ofNode(p)) \in ofNode(p)
    <3> HIDE DEF ofNode
    <3> QED
      BY <1>1, <1>2, <2>1, LastIndex
  <2> QED
    BY <1>1, <2>2
<1>3. \A p \in Nodes : em[p] \in Nat \cup {NoEdge}
  BY DEF EdgeMap
<1>4. Written(em, n, ps) =
          [p \in Nodes |-> IF ofNode(p) = {} THEN em[p] ELSE ps[last(ofNode(p))][3]]
  BY DEF Written
<1> HIDE DEF ofNode, last
<1> QED
  BY <1>2, <1>3, <1>4 DEF EdgeMap

\* Nothing pending, nothing written.
LEMMA WrittenNothing ==
    ASSUME NEW em \in EdgeMap, NEW n \in Ids
    PROVE  Written(em, n, <<>>) = em
<1>1. DOMAIN <<>> = {}
  OBVIOUS
<1>2. Written(em, n, <<>>) = [p \in Nodes |-> em[p]]
  BY <1>1 DEF Written
<1> QED
  BY <1>2 DEF EdgeMap

\* One more pending update is written over those before it, in the edge map
\* of its node and in no other.
LEMMA WrittenAppend ==
    ASSUME NEW em \in EdgeMap, NEW n \in Ids, NEW ps \in Updates,
           NEW m \in Ids, NEW p \in Nodes, NEW v \in Nat
    PROVE  Written(em, n, Append(ps, <<m, p, v>>)) =
               IF n = m THEN [Written(em, n, ps) EXCEPT ![p] = v]
                        ELSE Written(em, n, ps)
<1> DEFINE qs           == Append(ps, <<m, p, v>>)
           ofNode(s, q) == {i \in DOMAIN s : s[i][1] = n /\ s[i][2] = q}
           last(S)      == CHOOSE i \in S : \A j \in S : j <= i
           value(s, q)  == IF ofNode(s, q) = {} THEN em[q] ELSE s[last(ofNode(s, q))][3]
           k            == Len(ps) + 1
<1>1. /\ Len(ps) \in Nat /\ DOMAIN ps = 1 .. Len(ps)
      /\ DOMAIN qs = 1 .. k /\ qs[k] = <<m, p, v>>
      /\ \A i \in DOMAIN ps : qs[i] = ps[i]
  BY DEF Updates
<1>2. /\ Written(em, n, ps) = [q \in Nodes |-> value(ps, q)]
      /\ Written(em, n, qs) = [q \in Nodes |-> value(qs, q)]
  BY DEF Written
<1>3. ASSUME NEW q \in Nodes, n # m \/ q # p
      PROVE  value(qs, q) = value(ps, q)
  <2>1. k \notin ofNode(qs, q)
    BY <1>1, <1>3
  <2>2. ofNode(qs, q) = ofNode(ps, q)
    BY <1>1, <2>1
  <2>3. ASSUME ofNode(ps, q) # {}
        PROVE  last(ofNode(ps, q)) \in DOMAIN ps
    <3>1. ofNode(ps, q) \in SUBSET (1 .. Len(ps))
      BY <1>1
    <3>2. last(ofNode(ps, q)) \in ofNode(ps, q)
      <4> HIDE DEF ofNode
      <4> QED
        BY <1>1, <2>3, <3>1, LastIndex
    <3> QED
      BY <1>1, <3>1, <3>2
  <2> HIDE DEF ofNode, last, qs
  <2> QED
    BY <1>1, <2>2, <2>3
<1>4. ASSUME n = m
      PROVE  value(qs, p) = v
  <2>1. k \in ofNode(qs, p) /\ \A j \in ofNode(qs, p) : j \in 1 .. k
    BY <1>1, <1>4
  <2>2. last(ofNode(qs, p)) = k
    <3> HIDE DEF ofNode, k
    <3>1. \A j \in ofNode(qs, p) : j \in Int /\ j <= k
      BY <1>1, <2>1 DEF k
    <3>2. \A i \in ofNode(qs, p) : (\A j \in ofNode(qs, p) : j <= i) => i = k
      BY <2>1, <3>1
    <3> QED
      BY <2>1, <3>1, <3>2
  <2> HIDE DEF ofNode, last, qs
  <2> QED
    BY <1>1, <2>1, <2>2
<1> HIDE DEF value, qs
<1> QED
  BY <1>2, <1>3, <1>4 DEF qs

-----------------------------------------------------------------------------
(* Reaching the root                                                       *)

\* The attached nodes are a closed set ...
LEMMA AttachedIsClosed ==
    ASSUME NEW parent, Root \in DOMAIN parent
    PROVE  Closed(parent, Attached(parent))
BY DEF Closed, Attached

\* ... and the least one.
LEMMA AttachedIsLeast ==
    ASSUME NEW parent, NEW S \in SUBSET DOMAIN parent, Closed(parent, S)
    PROVE  Attached(parent) \subseteq S
BY DEF Attached

\* The parent of an attached node other than the root is attached.
LEMMA AttachedParent ==
    ASSUME NEW parent, Root \in DOMAIN parent,
           NEW n \in Attached(parent), n # Root
    PROVE  parent[n] \in Attached(parent)
<1> DEFINE S == {m \in Attached(parent) : m = Root \/ parent[m] \in Attached(parent)}
<1>1. Closed(parent, Attached(parent)) /\ Attached(parent) \subseteq DOMAIN parent
  BY AttachedIsClosed DEF Attached
<1>2. Closed(parent, S) /\ S \in SUBSET DOMAIN parent
  BY <1>1 DEF Closed
<1>3. Attached(parent) \subseteq S
  BY <1>2, AttachedIsLeast
<1> QED
  BY <1>3

\* Giving a node that does not lead to the root a new parent leaves the nodes
\* that do alone; if the new parent leads to the root, so does the node now.
LEMMA ReparentDetached ==
    ASSUME NEW parent, Root \in DOMAIN parent,
           NEW x \in DOMAIN parent \ Attached(parent), NEW p
    PROVE  LET after == [parent EXCEPT ![x] = p] IN
           /\ Attached(parent) \subseteq Attached(after)
           /\ p \in Attached(parent) => x \in Attached(after)
<1> DEFINE after == [parent EXCEPT ![x] = p]
<1>1. /\ DOMAIN after = DOMAIN parent
      /\ \A n \in DOMAIN parent : n # x => after[n] = parent[n]
      /\ after[x] = p
  OBVIOUS
<1>2. Closed(parent, Attached(parent)) /\ Attached(parent) \subseteq DOMAIN parent
  BY AttachedIsClosed DEF Attached
<1> HIDE DEF after
<1>3. ASSUME NEW S \in SUBSET DOMAIN parent, Closed(after, S)
      PROVE  Attached(parent) \subseteq S
  <2> DEFINE T == {n \in Attached(parent) : n \in S}
  <2>1. Root \in T
    BY <1>2, <1>3 DEF Closed
  <2>2. ASSUME NEW n \in DOMAIN parent, parent[n] \in T
        PROVE  n \in T
    <3>1. n \in Attached(parent)
      BY <1>2, <2>2 DEF Closed
    <3>2. after[n] \in S
      BY <1>1, <2>2, <3>1
    <3> QED
      BY <1>1, <1>3, <3>1, <3>2 DEF Closed
  <2>3. Closed(parent, T) /\ T \in SUBSET DOMAIN parent
    BY <1>2, <2>1, <2>2 DEF Closed
  <2> QED
    BY <2>3, AttachedIsLeast
<1>4. Attached(parent) \subseteq Attached(after)
  BY <1>1, <1>2, <1>3 DEF Attached
<1>5. p \in Attached(parent) => x \in Attached(after)
  BY <1>1, <1>4, AttachedIsClosed DEF Closed
<1> QED
  BY <1>4, <1>5 DEF after

\* A node is in its subtree, with its children and theirs.
LEMMA SubtreeIsClosed ==
    ASSUME NEW parent, NEW n \in DOMAIN parent
    PROVE  /\ n \in Subtree(parent, n) /\ Subtree(parent, n) \subseteq DOMAIN parent
           /\ \A k \in DOMAIN parent : parent[k] \in Subtree(parent, n) => k \in Subtree(parent, n)
BY DEF Subtree

\* The root, which has no parent, is nobody's descendant.
LEMMA RootNotInSubtree ==
    ASSUME NEW parent, Root \in DOMAIN parent, parent[Root] \notin DOMAIN parent,
           NEW n \in DOMAIN parent \ {Root}
    PROVE  Root \notin Subtree(parent, n)
<1> DEFINE S == DOMAIN parent \ {Root}
<1>1. n \in S /\ S \in SUBSET DOMAIN parent
  OBVIOUS
<1>2. \A k \in DOMAIN parent : parent[k] \in S => k \in S
  OBVIOUS
<1>3. Root \notin S
  OBVIOUS
<1> HIDE DEF S
<1> QED
  BY <1>1, <1>2, <1>3 DEF Subtree

\* Where every node leads to the root, no node is under itself: its parent is
\* not among its descendants, nor is the parent of its parent.
LEMMA ParentNotInSubtree ==
    ASSUME NEW parent, Root \in DOMAIN parent, parent[Root] \notin DOMAIN parent, Rooted(parent),
           NEW n \in DOMAIN parent \ {Root}
    PROVE  /\ parent[n] \in DOMAIN parent /\ parent[n] \notin Subtree(parent, n)
           /\ parent[n] # Root => parent[parent[n]] \in DOMAIN parent
           /\ parent[parent[n]] \notin Subtree(parent, n)
<1> DEFINE D == DOMAIN parent
           S == Subtree(parent, n)
           T == {m \in S : m = n \/ parent[m] \in S}
<1>1. n \in S /\ S \subseteq D /\ Root \notin S
  BY SubtreeIsClosed, RootNotInSubtree
<1>2. \A k \in D : parent[k] \in S => k \in S
  BY SubtreeIsClosed
<1>3. S \subseteq T
  <2>1. T \in SUBSET D /\ n \in T /\ \A k \in D : parent[k] \in T => k \in T
    BY <1>1, <1>2
  <2> HIDE DEF T
  <2> QED
    BY <2>1 DEF Subtree
<1> HIDE DEF S
<1>4. parent[n] \notin S
  <2> SUFFICES ASSUME parent[n] \in S PROVE FALSE
    OBVIOUS
  <2>1. Closed(parent, D \ S)
    BY <1>1, <1>3 DEF Closed
  <2>2. D \subseteq D \ S
    BY <2>1, AttachedIsLeast DEF Rooted
  <2> QED
    BY <1>1, <2>2
<1>5. parent[n] \in D
  BY AttachedParent DEF Rooted
<1>6. parent[n] # Root => parent[parent[n]] \in D
  BY <1>5, AttachedParent DEF Rooted
<1>7. parent[parent[n]] \notin S
  BY <1>2, <1>4, <1>5
<1> QED
  BY <1>4, <1>5, <1>6, <1>7 DEF S

\* A tree in which a node, new or not, gets a parent that is not one of its
\* descendants is a tree again.
LEMMA PlacingKeepsRooted ==
    ASSUME NEW parent, Root \in DOMAIN parent, Rooted(parent),
           NEW n, n # Root, NEW p \in DOMAIN parent,
           n \in DOMAIN parent => p \notin Subtree(parent, n)
    PROVE  Rooted([m \in DOMAIN parent \cup {n} |-> IF m = n THEN p ELSE parent[m]])
<1> DEFINE D == DOMAIN parent
           f == [m \in D \cup {n} |-> IF m = n THEN p ELSE parent[m]]
           A == Attached(f)
<1>1. DOMAIN f = D \cup {n} /\ f[n] = p /\ \A m \in D \ {n} : f[m] = parent[m]
  OBVIOUS
<1> HIDE DEF f
<1>2. A \subseteq D \cup {n} /\ Closed(f, A)
  BY <1>1, AttachedIsClosed DEF Attached
<1> HIDE DEF A
<1>3. ASSUME NEW T \in SUBSET D, Closed(parent, T)
      PROVE  D \subseteq T
  BY <1>3, AttachedIsLeast DEF Rooted
<1>4. p \in A
  <2>1. CASE n \notin D
    <3>1. Closed(parent, A \cap D)
      BY <1>1, <1>2, <2>1 DEF Closed
    <3> QED
      BY <1>3, <3>1
  <2>2. CASE n \in D
    <3> DEFINE T == A \cup Subtree(parent, n)
    <3>1. T \subseteq D
      BY <1>2, <2>2, SubtreeIsClosed
    <3>2. \A k \in D : parent[k] \in T => k \in T
      BY <1>1, <1>2, <2>2, SubtreeIsClosed DEF Closed
    <3>3. Closed(parent, T)
      BY <1>2, <3>2 DEF Closed
    <3> HIDE DEF T
    <3>4. p \in T
      BY <1>3, <3>1, <3>3
    <3> QED
      BY <2>2, <3>4 DEF T
  <2> QED
    BY <2>1, <2>2
<1>5. n \in A
  BY <1>1, <1>2, <1>4 DEF Closed
<1>6. Closed(parent, A \cap D)
  BY <1>1, <1>2, <1>5 DEF Closed
<1>7. D \subseteq A
  BY <1>3, <1>6
<1>8. A = DOMAIN f
  BY <1>1, <1>2, <1>5, <1>7
<1> QED
  BY <1>8 DEF Rooted, A, f

\* A tree without a node and its descendants is a tree.
LEMMA PruningKeepsRooted ==
    ASSUME NEW parent, Root \in DOMAIN parent, parent[Root] \notin DOMAIN parent, Rooted(parent),
           NEW n \in DOMAIN parent \ {Root}
    PROVE  Rooted([m \in DOMAIN parent \ Subtree(parent, n) |-> parent[m]])
<1> DEFINE D == DOMAIN parent
           S == Subtree(parent, n)
           g == [m \in D \ S |-> parent[m]]
           A == Attached(g)
<1>1. Root \notin S /\ S \subseteq D
  BY RootNotInSubtree, SubtreeIsClosed
<1>2. \A k \in D : parent[k] \in S => k \in S
  BY SubtreeIsClosed
<1> HIDE DEF S
<1>3. DOMAIN g = D \ S /\ \A m \in D \ S : g[m] = parent[m]
  OBVIOUS
<1> HIDE DEF g
<1>4. A \subseteq D \ S /\ Closed(g, A)
  BY <1>1, <1>3, AttachedIsClosed DEF Attached
<1> HIDE DEF A
<1>5. \A k \in D : parent[k] \in A \cup S => k \in A \cup S
  BY <1>2, <1>3, <1>4 DEF Closed
<1>6. Closed(parent, A \cup S) /\ A \cup S \in SUBSET D
  BY <1>1, <1>4, <1>5 DEF Closed
<1>7. D \subseteq A \cup S
  BY <1>6, AttachedIsLeast DEF Rooted
<1>8. A = DOMAIN g
  BY <1>3, <1>4, <1>7
<1> QED
  BY <1>8 DEF Rooted, A, g, S
=============================================================================
