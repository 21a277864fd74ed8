-------------------------- MODULE TraversalProofs --------------------------
(* Theorems about TreeIter and the printing of trees, for every finite set *)
(* of ids and every set of trees to iterate over.                          *)
EXTENDS Display, HierarchyProofs

-----------------------------------------------------------------------------
(* The items of a sequence                                                 *)

Items(s) == {s[i] : i \in DOMAIN s}

\* An item is added at the end.
LEMMA ItemsAppend ==
    ASSUME NEW S, NEW s \in Seq(S), NEW e \in S
    PROVE  Append(s, e) \in Seq(S) /\ Items(Append(s, e)) = Items(s) \cup {e}
<1> DEFINE t == Append(s, e)
<1>1. /\ t \in Seq(S) /\ Len(s) \in Nat
      /\ DOMAIN s = 1 .. Len(s) /\ DOMAIN t = 1 .. Len(s) + 1
      /\ t[Len(s) + 1] = e /\ \A i \in DOMAIN s : t[i] = s[i]
  OBVIOUS
<1> HIDE DEF t
<1>2. \A x \in Items(t) : x \in Items(s) \cup {e}
  BY <1>1 DEF Items
<1>3. \A x \in Items(s) \cup {e} : x \in Items(t)
  BY <1>1 DEF Items
<1> QED
  BY <1>1, <1>2, <1>3 DEF t

\* The first item is taken away and others are added at the end.
LEMMA ItemsPop ==
    ASSUME NEW S, NEW s \in Seq(S), s # <<>>, NEW t \in Seq(S)
    PROVE  /\ Head(s) \in S /\ Tail(s) \o t \in Seq(S)
           /\ Items(s) \cup Items(t) = {Head(s)} \cup Items(Tail(s) \o t)
<1> DEFINE r == Tail(s) \o t
<1>1. /\ Len(s) \in Nat \ {0} /\ Len(t) \in Nat
      /\ DOMAIN s = 1 .. Len(s) /\ DOMAIN t = 1 .. Len(t)
      /\ Tail(s) \in Seq(S) /\ Len(Tail(s)) = Len(s) - 1
      /\ Head(s) = s[1] /\ \A i \in 1 .. Len(s) - 1 : Tail(s)[i] = s[i + 1]
  OBVIOUS
<1>2. r \in Seq(S) /\ DOMAIN r = 1 .. Len(s) - 1 + Len(t)
  BY <1>1
<1>3. \A i \in 1 .. Len(s) - 1 : r[i] = s[i + 1]
  BY <1>1
<1>4. \A i \in 1 .. Len(t) : r[Len(s) - 1 + i] = t[i]
  BY <1>1
<1> HIDE DEF r
<1>5. ASSUME NEW x \in Items(r)
      PROVE  x \in Items(s) \cup Items(t)
  <2>1. PICK i \in DOMAIN r : x = r[i]
    BY DEF Items
  <2>2. CASE i \in 1 .. Len(s) - 1
    <3>1. i + 1 \in DOMAIN s /\ x = s[i + 1]
      BY <1>1, <1>3, <2>1, <2>2
    <3> QED
      BY <3>1 DEF Items
  <2>3. CASE i \notin 1 .. Len(s) - 1
    <3>1. i - (Len(s) - 1) \in 1 .. Len(t) /\ x = t[i - (Len(s) - 1)]
      BY <1>1, <1>2, <1>4, <2>1, <2>3
    <3> QED
      BY <1>1, <3>1 DEF Items
  <2> QED
    BY <2>2, <2>3
<1>6. ASSUME NEW x \in Items(s)
      PROVE  x \in {Head(s)} \cup Items(r)
  <2>1. PICK i \in 1 .. Len(s) : x = s[i]
    BY <1>1 DEF Items
  <2>2. CASE i # 1
    <3>1. i - 1 \in DOMAIN r /\ x = r[i - 1]
      BY <1>1, <1>2, <1>3, <2>1, <2>2
    <3> QED
      BY <3>1 DEF Items
  <2> QED
    BY <1>1, <2>1, <2>2
<1>7. ASSUME NEW x \in Items(t)
      PROVE  x \in Items(r)
  <2>1. PICK i \in 1 .. Len(t) : x = t[i]
    BY <1>1 DEF Items
  <2>2. Len(s) - 1 + i \in DOMAIN r /\ x = r[Len(s) - 1 + i]
    BY <1>1, <1>2, <1>4, <2>1
  <2> QED
    BY <2>2 DEF Items
<1>8. Head(s) \in Items(s)
  BY <1>1 DEF Items
<1> QED
  BY <1>1, <1>2, <1>5, <1>6, <1>7, <1>8 DEF r

\* The items of two sequences, one after the other.
LEMMA ItemsConcat ==
    ASSUME NEW S, NEW s \in Seq(S), NEW t \in Seq(S)
    PROVE  /\ s \o t \in Seq(S) /\ Len(s \o t) = Len(s) + Len(t)
           /\ \A i \in DOMAIN s : (s \o t)[i] = s[i]
           /\ \A i \in DOMAIN t : (s \o t)[Len(s) + i] = t[i]
           /\ Items(s \o t) = Items(s) \cup Items(t)
<1> DEFINE r == s \o t
<1>1. /\ Len(s) \in Nat /\ Len(t) \in Nat
      /\ DOMAIN s = 1 .. Len(s) /\ DOMAIN t = 1 .. Len(t) /\ DOMAIN r = 1 .. Len(s) + Len(t)
      /\ r \in Seq(S) /\ Len(r) = Len(s) + Len(t)
  OBVIOUS
<1>2. \A i \in DOMAIN s : r[i] = s[i]
  BY <1>1
<1>3. \A i \in DOMAIN t : r[Len(s) + i] = t[i]
  BY <1>1
<1> HIDE DEF r
<1>4. ASSUME NEW x \in Items(r)
      PROVE  x \in Items(s) \cup Items(t)
  <2>1. PICK i \in 1 .. Len(s) + Len(t) : x = r[i]
    BY <1>1 DEF Items
  <2>2. CASE i <= Len(s)
    BY <1>1, <1>2, <2>1, <2>2 DEF Items
  <2>3. CASE ~ (i <= Len(s))
    <3>1. i - Len(s) \in DOMAIN t /\ Len(s) + (i - Len(s)) = i
      BY <1>1, <2>3
    <3> QED
      BY <1>3, <2>1, <3>1 DEF Items
  <2> QED
    BY <2>2, <2>3
<1>5. \A x \in Items(s) : x \in Items(r)
  BY <1>1, <1>2 DEF Items
<1>6. \A i \in DOMAIN t : Len(s) + i \in DOMAIN r
  BY <1>1
<1>7. \A x \in Items(t) : x \in Items(r)
  BY <1>3, <1>6 DEF Items
<1> QED
  BY <1>1, <1>2, <1>3, <1>4, <1>5, <1>7 DEF r

\* Moving the first item of a sequence to the end of another changes nothing of
\* the two one after the other.
LEMMA MoveFirst ==
    ASSUME NEW S, NEW s \in Seq(S), NEW t \in Seq(S), t # <<>>
    PROVE  Append(s, Head(t)) \o Tail(t) = s \o t
<1> DEFINE a == Append(s, Head(t))
           b == Tail(t)
<1>1. /\ Len(s) \in Nat /\ Len(t) \in Nat \ {0}
      /\ DOMAIN s = 1 .. Len(s) /\ DOMAIN t = 1 .. Len(t)
      /\ Head(t) \in S /\ Head(t) = t[1]
  OBVIOUS
<1>2. /\ b \in Seq(S) /\ Len(b) = Len(t) - 1 /\ DOMAIN b = 1 .. Len(t) - 1
      /\ \A i \in 1 .. Len(t) - 1 : b[i] = t[i + 1]
  OBVIOUS
<1>3. /\ a \in Seq(S) /\ Len(a) = Len(s) + 1 /\ DOMAIN a = 1 .. Len(s) + 1
      /\ a[Len(s) + 1] = t[1] /\ \A i \in 1 .. Len(s) : a[i] = s[i]
  BY <1>1
<1> HIDE DEF a, b
<1>4. /\ s \o t \in Seq(S) /\ Len(s \o t) = Len(s) + Len(t)
      /\ \A i \in 1 .. Len(s) : (s \o t)[i] = s[i]
      /\ \A i \in 1 .. Len(t) : (s \o t)[Len(s) + i] = t[i]
  BY <1>1, ItemsConcat
<1>5. /\ a \o b \in Seq(S) /\ Len(a \o b) = Len(a) + Len(b)
      /\ \A i \in 1 .. Len(s) + 1 : (a \o b)[i] = a[i]
      /\ \A i \in 1 .. Len(t) - 1 : (a \o b)[(Len(s) + 1) + i] = b[i]
  <2>1. a \in Seq(S) /\ b \in Seq(S)
    BY <1>2, <1>3
  <2>2. /\ a \o b \in Seq(S) /\ Len(a \o b) = Len(a) + Len(b)
        /\ \A i \in DOMAIN a : (a \o b)[i] = a[i]
        /\ \A i \in DOMAIN b : (a \o b)[Len(a) + i] = b[i]
    BY <2>1, ItemsConcat
  <2> QED
    BY <1>2, <1>3, <2>2, Zenon
<1>6. ASSUME NEW i \in 1 .. Len(s) + Len(t)
      PROVE  (a \o b)[i] = (s \o t)[i]
  <2>1. CASE i <= Len(s)
    BY <1>1, <1>3, <1>4, <1>5, <2>1
  <2>2. CASE i = Len(s) + 1
    <3>1. (a \o b)[i] = t[1]
      BY <1>1, <1>3, <1>5, <2>2
    <3>2. (s \o t)[Len(s) + 1] = t[1]
      BY <1>1, <1>4
    <3> QED
      BY <2>2, <3>1, <3>2
  <2>3. CASE i > Len(s) + 1
    <3> DEFINE j == i - (Len(s) + 1)
    <3>1. j \in 1 .. Len(t) - 1 /\ j + 1 \in 1 .. Len(t)
          /\ i = (Len(s) + 1) + j /\ i = Len(s) + (j + 1)
      BY <1>1, <2>3
    <3> HIDE DEF j
    <3>2. (a \o b)[i] = t[j + 1]
      BY <1>2, <1>5, <3>1
    <3>3. (s \o t)[i] = t[j + 1]
      BY <1>4, <3>1
    <3> QED
      BY <3>2, <3>3
  <2>4. i <= Len(s) \/ i = Len(s) + 1 \/ i > Len(s) + 1
    BY <1>1
  <2> QED
    BY <2>1, <2>2, <2>3, <2>4
<1>7. Len(a \o b) = Len(s) + Len(t)
  BY <1>1, <1>2, <1>3, <1>5
<1> QED
  BY <1>4, <1>5, <1>6, <1>7, SeqEqual DEF a, b

\* Each item of a sequence comes before those after it, in an order given as a
\* set of pairs.
OrderedBy(s, before) == \A j \in DOMAIN s : \A i \in 1 .. j - 1 : <<s[i], s[j]>> \in before

\* Two ordered sequences, of which the items of one come before those of the
\* other, are an ordered sequence.
LEMMA OrderedConcat ==
    ASSUME NEW S, NEW s \in Seq(S), NEW t \in Seq(S), NEW before,
           OrderedBy(s, before), OrderedBy(t, before),
           \A x \in Items(s) : \A y \in Items(t) : <<x, y>> \in before
    PROVE  OrderedBy(s \o t, before)
<1> DEFINE r == s \o t
<1>1. /\ Len(s) \in Nat /\ Len(t) \in Nat
      /\ DOMAIN s = 1 .. Len(s) /\ DOMAIN t = 1 .. Len(t) /\ DOMAIN r = 1 .. Len(s) + Len(t)
  OBVIOUS
<1>2. /\ \A i \in DOMAIN s : r[i] = s[i]
      /\ \A i \in DOMAIN t : r[Len(s) + i] = t[i]
  BY ItemsConcat
<1> HIDE DEF r
<1>3. SUFFICES ASSUME NEW j \in DOMAIN r, NEW i \in 1 .. j - 1
               PROVE  <<r[i], r[j]>> \in before
  BY DEF OrderedBy, r
<1>4. CASE j <= Len(s)
  BY <1>1, <1>2, <1>4 DEF OrderedBy
<1>5. CASE ~ (j <= Len(s))
  <2>1. j - Len(s) \in DOMAIN t /\ r[j] = t[j - Len(s)]
    <3>1. j - Len(s) \in DOMAIN t /\ Len(s) + (j - Len(s)) = j
      BY <1>1, <1>5
    <3> QED
      BY <1>2, <3>1
  <2>2. CASE i <= Len(s)
    <3>1. r[i] \in Items(s)
      BY <1>1, <1>2, <2>2 DEF Items
    <3>2. r[j] \in Items(t)
      BY <2>1 DEF Items
    <3> QED
      BY <3>1, <3>2
  <2>3. CASE ~ (i <= Len(s))
    <3>1. i - Len(s) \in DOMAIN t /\ Len(s) + (i - Len(s)) = i /\ i - Len(s) \in 1 .. (j - Len(s)) - 1
      BY <1>1, <2>3
    <3>2. r[i] = t[i - Len(s)]
      BY <1>2, <3>1
    <3> QED
      BY <2>1, <3>1, <3>2 DEF OrderedBy
  <2> QED
    BY <2>2, <2>3
<1> QED
  BY <1>4, <1>5

\* An item that comes after all others is added at the end.
LEMMA OrderedAppend ==
    ASSUME NEW S, NEW s \in Seq(S), NEW e \in S, NEW before,
           OrderedBy(s, before), \A x \in Items(s) : <<x, e>> \in before
    PROVE  OrderedBy(Append(s, e), before)
<1> DEFINE t == Append(s, e)
<1>1. /\ Len(s) \in Nat /\ DOMAIN s = 1 .. Len(s) /\ DOMAIN t = 1 .. Len(s) + 1
      /\ t[Len(s) + 1] = e /\ \A i \in DOMAIN s : t[i] = s[i]
  OBVIOUS
<1> HIDE DEF t
<1>2. SUFFICES ASSUME NEW j \in DOMAIN t, NEW i \in 1 .. j - 1
               PROVE  <<t[i], t[j]>> \in before
  BY DEF OrderedBy, t
<1>3. i \in DOMAIN s
  BY <1>1
<1>4. CASE j = Len(s) + 1
  BY <1>1, <1>3, <1>4 DEF Items
<1>5. CASE j # Len(s) + 1
  <2>1. j \in DOMAIN s
    BY <1>1, <1>5
  <2> QED
    BY <1>1, <1>3, <2>1 DEF OrderedBy
<1> QED
  BY <1>4, <1>5

-----------------------------------------------------------------------------
(* Subtrees of a tree                                                      *)

IsRootedTree(parent) ==
    Root \in DOMAIN parent /\ parent[Root] \notin DOMAIN parent /\ Rooted(parent)

\* The subtree of a node holds the node and the children of what it holds, and
\* is the least such set.
LEMMA SubtreeFacts ==
    ASSUME NEW parent, NEW n \in DOMAIN parent
    PROVE  /\ n \in Subtree(parent, n) /\ Subtree(parent, n) \subseteq DOMAIN parent
           /\ \A k \in DOMAIN parent :
                parent[k] \in Subtree(parent, n) => k \in Subtree(parent, n)
           /\ \A S \in SUBSET DOMAIN parent :
                n \in S /\ (\A k \in DOMAIN parent : parent[k] \in S => k \in S)
                    => Subtree(parent, n) \subseteq S
BY DEF Subtree

\* The parent of a node in a subtree is in it, but for the one at the top.
LEMMA SubtreeParent ==
    ASSUME NEW parent, NEW n \in DOMAIN parent, NEW m \in Subtree(parent, n), m # n
    PROVE  parent[m] \in Subtree(parent, n)
<1> DEFINE S == {k \in Subtree(parent, n) : k = n \/ parent[k] \in Subtree(parent, n)}
<1>1. S \in SUBSET DOMAIN parent
  BY DEF Subtree
<1>2. n \in S /\ \A k \in DOMAIN parent : parent[k] \in S => k \in S
  BY SubtreeFacts
<1>3. Subtree(parent, n) \subseteq S
  <2> HIDE DEF S
  <2> QED
    BY <1>1, <1>2, SubtreeFacts
<1> QED
  BY <1>3

\* What is below a node that is below another is below that one.
LEMMA SubtreeTransitive ==
    ASSUME NEW parent, NEW a \in DOMAIN parent, NEW b \in Subtree(parent, a)
    PROVE  Subtree(parent, b) \subseteq Subtree(parent, a)
<1>1. b \in DOMAIN parent /\ Subtree(parent, a) \in SUBSET DOMAIN parent
  BY SubtreeFacts
<1> QED
  BY <1>1, SubtreeFacts

\* A node is not below its children, nor below any node that is below it.
LEMMA SubtreeAntisymmetric ==
    ASSUME NEW parent, IsRootedTree(parent),
           NEW a \in DOMAIN parent, NEW b \in Subtree(parent, a), a \in Subtree(parent, b)
    PROVE  a = b
<1> SUFFICES ASSUME a # b PROVE FALSE
  OBVIOUS
<1>1. b \in DOMAIN parent
  BY SubtreeFacts
<1>2. a # Root
  BY <1>1, RootNotInSubtree DEF IsRootedTree
<1>3. parent[a] \in Subtree(parent, b)
  BY <1>1, SubtreeParent
<1>4. parent[a] \in Subtree(parent, a)
  BY <1>3, SubtreeTransitive
<1> QED
  BY <1>2, <1>4, ParentNotInSubtree DEF IsRootedTree

\* Of two nodes above a third, one is above the other.
LEMMA SubtreeChain ==
    ASSUME NEW parent, NEW a \in DOMAIN parent, NEW b \in DOMAIN parent,
           NEW x \in Subtree(parent, a), x \in Subtree(parent, b)
    PROVE  a \in Subtree(parent, b) \/ b \in Subtree(parent, a)
<1> DEFINE OneAbove == a \in Subtree(parent, b) \/ b \in Subtree(parent, a)
           S == {k \in Subtree(parent, a) : k \in Subtree(parent, b) => OneAbove}
<1>1. S \in SUBSET DOMAIN parent /\ a \in S
  BY SubtreeFacts
<1>2. ASSUME NEW k \in DOMAIN parent, parent[k] \in S
      PROVE  k \in S
  <2>1. k \in Subtree(parent, a)
    BY <1>2, SubtreeFacts
  <2>2. ASSUME k \in Subtree(parent, b)
        PROVE  OneAbove
    BY <1>2, <2>1, <2>2, SubtreeParent
  <2> QED
    BY <2>1, <2>2
<1>3. Subtree(parent, a) \subseteq S
  <2> HIDE DEF S
  <2> QED
    BY <1>1, <1>2, SubtreeFacts
<1> QED
  BY <1>3

\* The subtrees of siblings have no node in common.
LEMMA SiblingsApart ==
    ASSUME NEW parent, IsRootedTree(parent),
           NEW a \in DOMAIN parent, NEW b \in DOMAIN parent,
           parent[a] = parent[b], parent[a] \in DOMAIN parent,
           NEW x \in Subtree(parent, a), x \in Subtree(parent, b)
    PROVE  a = b
<1>1. ASSUME NEW c \in DOMAIN parent, NEW d \in DOMAIN parent,
             parent[c] = parent[d], parent[c] \in DOMAIN parent, d \in Subtree(parent, c)
      PROVE  d = c
  <2>1. c # Root
    BY <1>1 DEF IsRootedTree
  <2>2. parent[c] \notin Subtree(parent, c)
    BY <2>1, ParentNotInSubtree DEF IsRootedTree
  <2> QED
    BY <1>1, <2>2, SubtreeParent
<1> QED
  BY <1>1, SubtreeChain

\* A node of a subtree is at its top or in the subtree of a child.
LEMMA SubtreeOfChild ==
    ASSUME NEW parent, NEW n \in DOMAIN parent, NEW x \in Subtree(parent, n), x # n
    PROVE  \E k \in DOMAIN parent : parent[k] = n /\ x \in Subtree(parent, k)
<1> DEFINE Below == {m \in DOMAIN parent :
                        \E k \in DOMAIN parent : parent[k] = n /\ m \in Subtree(parent, k)}
           S     == {n} \cup Below
<1>1. S \in SUBSET DOMAIN parent /\ n \in S
  OBVIOUS
<1>2. ASSUME NEW k \in DOMAIN parent, parent[k] \in S
      PROVE  k \in Below
  <2>1. CASE parent[k] = n
    BY <2>1, SubtreeFacts
  <2>2. CASE parent[k] # n
    <3>1. PICK c \in DOMAIN parent : parent[c] = n /\ parent[k] \in Subtree(parent, c)
      BY <1>2, <2>2
    <3> QED
      BY <3>1, SubtreeFacts
  <2> QED
    BY <2>1, <2>2
<1>3. \A k \in DOMAIN parent : parent[k] \in S => k \in S
  BY <1>2
<1>4. Subtree(parent, n) \subseteq S
  <2> HIDE DEF S
  <2> QED
    BY <1>1, <1>3, SubtreeFacts
<1> QED
  BY <1>4

-----------------------------------------------------------------------------
(* Type correctness                                                        *)

\* The children of a node are nodes, whether the snapshot is a tree or what a
\* failed build left; those of a tree are the nodes whose parent it is.
LEMMA ChildrenFacts ==
    ASSUME IsSnapshot(snap)
    PROVE  /\ Present \subseteq Nodes
           /\ DOMAIN snap.children = Present
           /\ \A n \in Present : snap.children[n] \in Seq(Nodes)
           /\ \A n : Children(n) \in Seq(Nodes)
           /\ IsTree(snap) => \A n : Items(Children(n)) = {k \in Present : n \in Present /\ snap.parent[k] = n}
<1>1. Present \subseteq Nodes
  BY DEF IsSnapshot, Present
<1>2. \A n \in Present : snap.children[n] \in Seq(Nodes)
  <2>1. CASE IsTree(snap)
    <3> SUFFICES ASSUME NEW n \in Present PROVE snap.children[n] \in Seq(Nodes)
      OBVIOUS
    <3>1. snap.children[n] \in Seq(Present)
      BY <2>1 DEF IsTree, Present
    <3> QED
      BY <1>1, <3>1
  <2>2. CASE IsRuin(snap)
    BY <2>2 DEF IsRuin, Present
  <2> QED
    BY <2>1, <2>2 DEF IsSnapshot
<1>3. DOMAIN snap.children = Present
  BY DEF IsSnapshot, IsTree, IsRuin, Present
<1>4. \A n : Children(n) \in Seq(Nodes)
  BY <1>2 DEF Children
<1>5. ASSUME IsTree(snap), NEW n
      PROVE  Items(Children(n)) = {k \in Present : n \in Present /\ snap.parent[k] = n}
  BY <1>5 DEF IsTree, Items, Children, Present
<1> QED
  BY <1>1, <1>2, <1>3, <1>4, <1>5

\* An iteration starts well typed.
LEMMA TypeInit == Init => TypeOK
<1> SUFFICES ASSUME Init PROVE TypeOK
  OBVIOUS
<1>1. IsSnapshot(snap)
  BY SnapshotsAssumption DEF Init
<1>2. <<start>> \in Seq(Nodes) /\ <<>> \in Seq(Nodes)
  BY DEF Init
<1> QED
  BY <1>1, <1>2 DEF Init, TypeOK, Queue

\* What is queued, climbed to and answered are nodes.
LEMMA TypeNext == TypeOK /\ [Next]_vars => TypeOK'
<1> SUFFICES ASSUME TypeOK, [Next]_vars PROVE TypeOK'
  OBVIOUS
<1>1. CASE PopFront
  <2>1. /\ Head(queue) \in Nodes
        /\ Tail(queue) \o Children(Head(queue)) \in Seq(Nodes)
    BY <1>1, ChildrenFacts, ItemsPop DEF PopFront, TypeOK
  <2>2. Append(yielded, Head(queue)) \in Seq(Nodes)
    BY <2>1 DEF TypeOK
  <2> QED
    BY <1>1, <2>1, <2>2 DEF PopFront, TypeOK
<1>2. CASE NothingQueued \/ StartMissing \/ BackAtStart \/ Exhausted \/ UNCHANGED vars
  BY <1>2 DEF NothingQueued, StartMissing, BackAtStart, End, Exhausted, vars, TypeOK
<1>3. ASSUME NEW n \in Nodes, Yield(n)
      PROVE  TypeOK'
  <2>1. Append(yielded, n) \in Seq(Nodes)
    BY DEF TypeOK
  <2> QED
    BY <1>3, <2>1 DEF Yield, TypeOK
<1>4. ASSUME NEW n \in Nodes, GoTo(n)
      PROVE  TypeOK'
  BY <1>4 DEF GoTo, TypeOK
<1>5. CASE Begin
  BY <1>3, <1>5 DEF Begin, TypeOK
<1>6. CASE ToFirstChild
  <2>1. snap.children[last] \in Seq(Nodes) /\ snap.children[last] # <<>>
    BY <1>6, ChildrenFacts DEF ToFirstChild, TypeOK
  <2>2. snap.children[last][1] \in Nodes
    BY <2>1
  <2> QED
    BY <1>3, <1>6, <2>2 DEF ToFirstChild
<1>7. CASE ToClimb
  BY <1>4, <1>7, ChildrenFacts DEF ToClimb, TypeOK
<1>8. CASE ToNextSibling
  <2>1. PICK i \in Places :
            /\ i + 1 <= Len(snap.children[snap.parent[current]])
            /\ Yield(snap.children[snap.parent[current]][i + 1])
    BY <1>8 DEF ToNextSibling
  <2>2. /\ i \in DOMAIN snap.children[snap.parent[current]]
        /\ snap.parent[current] \in Present
    BY <2>1 DEF Places
  <2>3. snap.children[snap.parent[current]] \in Seq(Nodes)
    BY <2>2, ChildrenFacts DEF TypeOK
  <2>4. snap.children[snap.parent[current]][i + 1] \in Nodes
    BY <2>1, <2>2, <2>3
  <2> QED
    BY <1>3, <2>1, <2>4
<1>9. CASE ToParent
  <2>1. snap.parent[current] \in Present
    BY <1>9 DEF ToParent, Places
  <2> QED
    BY <1>4, <1>9, <2>1, ChildrenFacts DEF ToParent, TypeOK
<1> QED
  BY <1>1, <1>2, <1>5, <1>6, <1>7, <1>8, <1>9 DEF Next

-----------------------------------------------------------------------------
(* The order of a tree                                                     *)

Sub(n) == Subtree(snap.parent, n)

\* The order of the answers as a set of pairs.
Pairs == {e \in Nodes \X Nodes : ComesBefore(e[1], e[2])}

\* What a snapshot that is a tree is.
LEMMA TreeFacts ==
    ASSUME IsSnapshot(snap), IsTree(snap)
    PROVE  /\ IsRootedTree(snap.parent) /\ Present = DOMAIN snap.parent
           /\ Present \subseteq Nodes /\ IsFiniteSet(Present) /\ None \notin Present
           /\ \A p \in Present : snap.children[p] \in Seq(Present)
           /\ \A p \in Present : \A i \in DOMAIN snap.children[p] :
                snap.children[p][i] \in Present /\ snap.parent[snap.children[p][i]] = p
           /\ \A p \in Present : \A k \in Present : snap.parent[k] = p =>
                \E i \in DOMAIN snap.children[p] : snap.children[p][i] = k
           /\ \A p \in Present : \A i, j \in DOMAIN snap.children[p] :
                snap.children[p][i] = snap.children[p][j] => i = j
<1>1. Present = DOMAIN snap.parent /\ Present \subseteq Nodes
  BY DEF IsSnapshot, Present
<1>2. None \notin Present /\ IsFiniteSet(Present)
  BY <1>1, NodesFinite, FS_Subset DEF None
<1>3. IsRootedTree(snap.parent)
  BY <1>1, <1>2 DEF IsTree, IsRootedTree
<1>4. \A p \in Present : snap.children[p] \in Seq(Present)
  BY <1>1 DEF IsTree
<1>5. \A p \in Present :
        {snap.children[p][i] : i \in DOMAIN snap.children[p]} = {k \in Present : snap.parent[k] = p}
  BY <1>1 DEF IsTree
<1>6. \A p \in Present : \A i, j \in DOMAIN snap.children[p] :
        snap.children[p][i] = snap.children[p][j] => i = j
  BY <1>1 DEF IsTree, IsInjective
<1>7. ASSUME NEW p \in Present, NEW i \in DOMAIN snap.children[p]
      PROVE  snap.children[p][i] \in Present /\ snap.parent[snap.children[p][i]] = p
  BY <1>5
<1>8. ASSUME NEW p \in Present, NEW k \in Present, snap.parent[k] = p
      PROVE  \E i \in DOMAIN snap.children[p] : snap.children[p][i] = k
  BY <1>5, <1>8
<1> QED
  BY <1>1, <1>2, <1>3, <1>4, <1>6, <1>7, <1>8

\* Nothing below a node precedes it, nor does the node itself.
LEMMA BelowNotBefore ==
    ASSUME IsSnapshot(snap), IsTree(snap), NEW m \in Present, NEW n \in Sub(m)
    PROVE  ~ Precedes(n, m)
<1>1. IsRootedTree(snap.parent) /\ Present = DOMAIN snap.parent /\ n \in Present
  BY TreeFacts, SubtreeFacts DEF Sub
<1>2. n \notin Above(m)
  BY <1>1, SubtreeAntisymmetric DEF Above, Sub
<1>3. ASSUME NEW p \in Present,
             NEW i \in DOMAIN snap.children[p], NEW j \in DOMAIN snap.children[p],
             n \in Sub(snap.children[p][i]), m \in Sub(snap.children[p][j])
      PROVE  i = j
  <2> DEFINE a == snap.children[p][i]
             b == snap.children[p][j]
  <2>1. a \in Present /\ b \in Present /\ snap.parent[a] = p /\ snap.parent[b] = p
    BY TreeFacts
  <2> HIDE DEF a, b
  <2>2. n \in Sub(b)
    BY <1>1, <1>3, <2>1, SubtreeTransitive DEF Sub, a, b
  <2>3. a = b
    BY <1>1, <1>3, <2>1, <2>2, SiblingsApart DEF Sub, a, b
  <2> QED
    BY <2>3, TreeFacts DEF a, b
<1>4. ASSUME NEW p \in Present,
             NEW i \in DOMAIN snap.children[p], NEW j \in DOMAIN snap.children[p],
             i < j, n \in Sub(snap.children[p][i]), m \in Sub(snap.children[p][j])
      PROVE  FALSE
  <2>1. i \in Int /\ i = j
    BY <1>3, <1>4, TreeFacts
  <2> QED
    BY <1>4, <2>1
<1> QED
  BY <1>2, <1>4 DEF Precedes, Sub

\* The subtree of a node is the node and the subtrees of its children.
LEMMA SubtreeByChildren ==
    ASSUME IsSnapshot(snap), IsTree(snap), NEW p \in Present
    PROVE  \A x : x \in Sub(p) <=>
               x = p \/ \E i \in DOMAIN snap.children[p] : x \in Sub(snap.children[p][i])
<1>1. Present = DOMAIN snap.parent
  BY TreeFacts
<1>2. ASSUME NEW x \in Sub(p), x # p
      PROVE  \E i \in DOMAIN snap.children[p] : x \in Sub(snap.children[p][i])
  <2>1. PICK k \in Present : snap.parent[k] = p /\ x \in Sub(k)
    BY <1>1, <1>2, SubtreeOfChild DEF Sub
  <2>2. PICK i \in DOMAIN snap.children[p] : snap.children[p][i] = k
    BY <2>1, TreeFacts
  <2> QED
    BY <2>1, <2>2
<1>3. ASSUME NEW i \in DOMAIN snap.children[p], NEW x \in Sub(snap.children[p][i])
      PROVE  x \in Sub(p)
  <2>1. snap.children[p][i] \in Sub(p)
    BY <1>1, TreeFacts, SubtreeFacts DEF Sub
  <2> QED
    BY <1>1, <2>1, SubtreeTransitive DEF Sub
<1>4. p \in Sub(p)
  BY <1>1, SubtreeFacts DEF Sub
<1> QED
  BY <1>2, <1>3, <1>4

\* What precedes a child: its parent, what precedes that, and the subtrees of
\* the siblings before it.
LEMMA PrecedesChild ==
    ASSUME IsSnapshot(snap), IsTree(snap),
           NEW p \in Present, NEW i \in DOMAIN snap.children[p], NEW x \in Present
    PROVE  Precedes(x, snap.children[p][i]) <=>
               \/ x = p \/ Precedes(x, p)
               \/ \E j \in DOMAIN snap.children[p] : j < i /\ x \in Sub(snap.children[p][j])
<1> DEFINE c == snap.children[p][i]
<1>1. /\ IsRootedTree(snap.parent) /\ Present = DOMAIN snap.parent
      /\ c \in Present /\ snap.parent[c] = p
  BY TreeFacts
<1>2. c # Root /\ p \notin Sub(c) /\ c \in Sub(p) /\ c \in Sub(c) /\ c # p
  BY <1>1, ParentNotInSubtree, SubtreeFacts DEF IsRootedTree, Sub
<1>3. ASSUME NEW y \in Present
      PROVE  p \in Sub(y) => c \in Sub(y)
  BY <1>1, SubtreeFacts DEF Sub
<1>4. ASSUME NEW y \in Present, c \in Sub(y), c # y
      PROVE  p \in Sub(y)
  BY <1>1, <1>4, SubtreeParent DEF Sub
<1>5. ASSUME Precedes(x, c)
      PROVE  \/ x = p \/ Precedes(x, p)
             \/ \E j \in DOMAIN snap.children[p] : j < i /\ x \in Sub(snap.children[p][j])
  <2>1. CASE x \in Above(c)
    <3>1. p \in Sub(x)
      BY <1>4, <2>1 DEF Above, Sub
    <3> QED
      BY <3>1 DEF Precedes, Above, Sub
  <2>2. ASSUME NEW q \in Present,
               NEW a \in DOMAIN snap.children[q], NEW b \in DOMAIN snap.children[q],
               a < b, x \in Sub(snap.children[q][a]), c \in Sub(snap.children[q][b])
        PROVE  \/ Precedes(x, p)
               \/ \E j \in DOMAIN snap.children[p] : j < i /\ x \in Sub(snap.children[p][j])
    <3>1. CASE c = snap.children[q][b]
      <4>1. q = p
        BY <1>1, <3>1, TreeFacts
      <4>2. b = i
        BY <3>1, <4>1, TreeFacts
      <4> QED
        BY <2>2, <4>1, <4>2
    <3>2. CASE c # snap.children[q][b]
      <4>1. p \in Sub(snap.children[q][b])
        BY <1>4, <2>2, <3>2, TreeFacts
      <4> QED
        BY <2>2, <4>1 DEF Precedes, Sub
    <3> QED
      BY <3>1, <3>2
  <2> HIDE DEF c
  <2> QED
    BY <1>5, <2>1, <2>2 DEF Precedes, Sub
<1>6. ASSUME x = p
      PROVE  Precedes(x, c)
  BY <1>2, <1>6 DEF Precedes, Above, Sub
<1>7. ASSUME Precedes(x, p)
      PROVE  Precedes(x, c)
  <2>1. CASE x \in Above(p)
    <3>1. p \in Sub(x) /\ c \in Sub(x)
      BY <1>3, <2>1 DEF Above, Sub
    <3>2. x # c
      BY <1>2, <3>1
    <3> QED
      BY <3>1, <3>2 DEF Precedes, Above, Sub
  <2>2. ASSUME NEW q \in Present,
               NEW a \in DOMAIN snap.children[q], NEW b \in DOMAIN snap.children[q],
               a < b, x \in Sub(snap.children[q][a]), p \in Sub(snap.children[q][b])
        PROVE  Precedes(x, c)
    <3>1. c \in Sub(snap.children[q][b])
      BY <1>3, <2>2, TreeFacts
    <3> HIDE DEF c
    <3> QED
      BY <2>2, <3>1 DEF Precedes, Sub
  <2> HIDE DEF c
  <2> QED
    BY <1>7, <2>1, <2>2 DEF Precedes, Sub
<1>8. ASSUME NEW j \in DOMAIN snap.children[p], j < i, x \in Sub(snap.children[p][j])
      PROVE  Precedes(x, c)
  BY <1>2, <1>8 DEF Precedes, Sub
<1> QED
  BY <1>5, <1>6, <1>7, <1>8

\* The nodes of the iteration that precede a node.
Earlier(n) == {x \in Sub(start) : Precedes(x, n)}

\* Nothing precedes the start of the iteration.
LEMMA EarlierThanStart ==
    ASSUME IsSnapshot(snap), IsTree(snap), start \in Present
    PROVE  Earlier(start) = {}
BY BelowNotBefore DEF Earlier

\* A node and what precedes it are all that precedes its first child.
LEMMA EarlierThanFirstChild ==
    ASSUME IsSnapshot(snap), IsTree(snap), start \in Present,
           NEW p \in Sub(start), snap.children[p] # <<>>
    PROVE  /\ 1 \in DOMAIN snap.children[p]
           /\ Earlier(snap.children[p][1]) = Earlier(p) \cup {p}
<1>1. p \in Present /\ Sub(start) \subseteq Present
  BY TreeFacts, SubtreeFacts DEF Sub
<1>2. snap.children[p] \in Seq(Present)
  BY <1>1, TreeFacts
<1>3. 1 \in DOMAIN snap.children[p] /\ \A j \in DOMAIN snap.children[p] : ~ (j < 1)
  BY <1>2
<1>4. \A x \in Sub(start) :
        Precedes(x, snap.children[p][1]) <=> x = p \/ Precedes(x, p)
  BY <1>1, <1>3, PrecedesChild
<1> QED
  BY <1>3, <1>4 DEF Earlier

\* A node's subtree and what precedes it are all that precedes its next sibling.
LEMMA EarlierThanSibling ==
    ASSUME IsSnapshot(snap), IsTree(snap), start \in Present,
           NEW p \in Sub(start), NEW i \in DOMAIN snap.children[p], i + 1 <= Len(snap.children[p])
    PROVE  /\ i + 1 \in DOMAIN snap.children[p]
           /\ Earlier(snap.children[p][i + 1]) =
                Earlier(snap.children[p][i]) \cup Sub(snap.children[p][i])
<1>1. p \in Present /\ Sub(start) \subseteq Present
  BY TreeFacts, SubtreeFacts DEF Sub
<1>2. snap.children[p] \in Seq(Present)
  BY <1>1, TreeFacts
<1>3. /\ i \in Int /\ i + 1 \in DOMAIN snap.children[p]
      /\ \A j \in DOMAIN snap.children[p] : j < i + 1 <=> (j < i \/ j = i)
  BY <1>2
<1>4. Sub(snap.children[p][i]) \subseteq Sub(start)
  <2>1. snap.children[p][i] \in Present /\ snap.parent[snap.children[p][i]] = p
    BY <1>1, TreeFacts
  <2> QED
    BY <2>1, TreeFacts, SubtreeFacts, SubtreeTransitive DEF Sub
<1>5. ASSUME NEW x \in Sub(start)
      PROVE  Precedes(x, snap.children[p][i + 1]) <=>
                Precedes(x, snap.children[p][i]) \/ x \in Sub(snap.children[p][i])
  <2>1. Precedes(x, snap.children[p][i + 1]) <=>
            \/ x = p \/ Precedes(x, p)
            \/ \E j \in DOMAIN snap.children[p] : j < i + 1 /\ x \in Sub(snap.children[p][j])
    BY <1>1, <1>3, PrecedesChild
  <2>2. Precedes(x, snap.children[p][i]) <=>
            \/ x = p \/ Precedes(x, p)
            \/ \E j \in DOMAIN snap.children[p] : j < i /\ x \in Sub(snap.children[p][j])
    BY <1>1, <1>3, PrecedesChild
  <2> QED
    BY <1>3, <2>1, <2>2
<1> QED
  BY <1>3, <1>4, <1>5 DEF Earlier

\* The last of siblings is finished: so is its parent.
LEMMA EarlierThanParent ==
    ASSUME IsSnapshot(snap), IsTree(snap), start \in Present,
           NEW p \in Sub(start), NEW i \in DOMAIN snap.children[p], i = Len(snap.children[p])
    PROVE  Earlier(snap.children[p][i]) \cup Sub(snap.children[p][i]) = Earlier(p) \cup Sub(p)
<1>1. p \in Present /\ Sub(start) \subseteq Present /\ Sub(p) \subseteq Sub(start)
  BY TreeFacts, SubtreeFacts, SubtreeTransitive DEF Sub
<1>2. snap.children[p] \in Seq(Present)
  BY <1>1, TreeFacts
<1>3. \A j \in DOMAIN snap.children[p] : j < i \/ j = i
  BY <1>2
<1>4. \A x : x \in Sub(p) <=>
        x = p \/ \E j \in DOMAIN snap.children[p] : x \in Sub(snap.children[p][j])
  BY <1>1, SubtreeByChildren
<1>5. ASSUME NEW x \in Sub(start)
      PROVE  Precedes(x, snap.children[p][i]) \/ x \in Sub(snap.children[p][i]) <=>
                Precedes(x, p) \/ x \in Sub(p)
  <2>1. Precedes(x, snap.children[p][i]) <=>
            \/ x = p \/ Precedes(x, p)
            \/ \E j \in DOMAIN snap.children[p] : j < i /\ x \in Sub(snap.children[p][j])
    BY <1>1, PrecedesChild
  <2>2. CASE \E j \in DOMAIN snap.children[p] : x \in Sub(snap.children[p][j])
    BY <1>3, <1>4, <2>1, <2>2
  <2>3. CASE ~ \E j \in DOMAIN snap.children[p] : x \in Sub(snap.children[p][j])
    BY <1>4, <2>1, <2>3
  <2> QED
    BY <2>2, <2>3
<1> QED
  BY <1>1, <1>4, <1>5 DEF Earlier

\* A node without children is its subtree.
LEMMA SubtreeOfLeaf ==
    ASSUME IsSnapshot(snap), IsTree(snap), NEW p \in Present, snap.children[p] = <<>>
    PROVE  Sub(p) = {p}
<1>1. DOMAIN snap.children[p] = {}
  OBVIOUS
<1> QED
  BY <1>1, SubtreeByChildren

-----------------------------------------------------------------------------
(* The iteration visits the subtree of the start                           *)

\* What has been answered and what is queued are nodes of the subtree, the
\* start is one of them, and the children of a node that has been answered
\* are. VisitsTheSubtree says nothing of the queue and is not inductive.
BreadthInv ==
    order = "breadth" /\ start \in Present /\ IsTree(snap) =>
        /\ Items(yielded) \cup Items(queue) \subseteq Subtree(snap.parent, start)
        /\ start \in Items(yielded) \cup Items(queue)
        /\ \A n \in Items(yielded) :
            Items(Children(n)) \subseteq Items(yielded) \cup Items(queue)
        /\ done => queue = <<>>

\* A node is taken from the queue, and its children are queued.
LEMMA PopFrontKeeps ==
    ASSUME TypeOK, BreadthInv, PopFront
    PROVE  BreadthInv'
<1> SUFFICES ASSUME start \in Present, IsTree(snap)
             PROVE  BreadthInv'
  BY DEF PopFront, BreadthInv, Present
<1> DEFINE n == Head(queue)
           kids == Children(n)
<1>1. /\ order = "breadth" /\ done = FALSE /\ UNCHANGED <<snap, start, order, done>>
      /\ queue \in Seq(Nodes) /\ queue # <<>> /\ yielded \in Seq(Nodes)
      /\ kids \in Seq(Nodes)
      /\ queue' = Tail(queue) \o kids /\ yielded' = Append(yielded, n)
      /\ \A m : Items(Children(m)) = {k \in Present : m \in Present /\ snap.parent[k] = m}
  BY ChildrenFacts DEF PopFront, TypeOK
<1>2. Items(queue) \cup Items(kids) = {n} \cup Items(queue')
  BY <1>1, ItemsPop
<1>3. Items(yielded') = Items(yielded) \cup {n}
  <2>1. n \in Nodes
    BY <1>1, ItemsPop
  <2> QED
    BY <1>1, <2>1, ItemsAppend
<1>4. n \in Items(queue)
  BY <1>1 DEF Items
<1>5. Items(yielded') \cup Items(queue') = Items(yielded) \cup Items(queue) \cup Items(kids)
  BY <1>2, <1>3, <1>4
<1>6. Items(kids) \subseteq Subtree(snap.parent, start)
  <2>1. n \in Subtree(snap.parent, start)
    BY <1>1, <1>4 DEF BreadthInv
  <2> QED
    BY <1>1, <2>1, SubtreeFacts DEF Present
<1>7. \A m : Children(m)' = Children(m)
  BY <1>1 DEF Children, Present
<1>8. \A m \in Items(yielded') : Items(Children(m)) \subseteq Items(yielded') \cup Items(queue')
  BY <1>1, <1>3, <1>5 DEF BreadthInv
<1> HIDE DEF kids
<1>9. /\ Items(yielded') \cup Items(queue') \subseteq Subtree(snap.parent, start)
      /\ start \in Items(yielded') \cup Items(queue')
  BY <1>1, <1>5, <1>6 DEF BreadthInv
<1>10. \A m \in Items(yielded') : Items(Children(m)') \subseteq Items(yielded') \cup Items(queue')
  BY <1>7, <1>8
<1> QED
  BY <1>1, <1>9, <1>10 DEF BreadthInv, Items

\* When nothing is queued, what has been answered is the subtree: it holds the
\* start and the children of what it holds.
LEMMA BreadthInvSuffices ==
    ASSUME TypeOK, BreadthInv, order = "breadth", start \in Present, IsTree(snap)
    PROVE  /\ Items(yielded) \subseteq Subtree(snap.parent, start)
           /\ done => Items(yielded) = Subtree(snap.parent, start)
<1>1. Items(yielded) \subseteq Subtree(snap.parent, start)
  BY DEF BreadthInv
<1>2. ASSUME done
      PROVE  Subtree(snap.parent, start) \subseteq Items(yielded)
  <2>1. Items(queue) = {}
    BY <1>2 DEF BreadthInv, Items
  <2>2. start \in Items(yielded) /\ Items(yielded) \in SUBSET Present
    BY <1>1, <2>1 DEF BreadthInv, Subtree, Present
  <2>3. \A k \in Present : snap.parent[k] \in Items(yielded) => k \in Items(yielded)
    BY <2>1, <2>2, ChildrenFacts DEF BreadthInv, TypeOK
  <2> QED
    BY <2>2, <2>3, SubtreeFacts DEF Present
<1> QED
  BY <1>1, <1>2

-----------------------------------------------------------------------------
(* The breadth-first order                                                 *)

\* A child has its parent above it, and what is above that.
LEMMA DepthOfChild ==
    ASSUME IsSnapshot(snap), IsTree(snap),
           NEW p \in Present, NEW k \in Present, snap.parent[k] = p
    PROVE  /\ Above(k) = Above(p) \cup {p} /\ p \notin Above(p)
           /\ Depth(p) \in Nat /\ Depth(k) = Depth(p) + 1
<1>1. IsRootedTree(snap.parent) /\ Present = DOMAIN snap.parent /\ IsFiniteSet(Present)
  BY TreeFacts
<1>2. p \notin Sub(k) /\ k \in Sub(p) /\ k # p
  <2>1. k # Root
    BY <1>1 DEF IsRootedTree
  <2> QED
    BY <1>1, <2>1, ParentNotInSubtree, SubtreeFacts DEF IsRootedTree, Sub
<1>3. Above(k) = Above(p) \cup {p} /\ p \notin Above(p)
  <2>1. ASSUME NEW m \in Above(k)
        PROVE  m \in Above(p) \cup {p}
    BY <1>1, <2>1, SubtreeParent DEF Above
  <2>2. ASSUME NEW m \in Above(p)
        PROVE  m \in Above(k)
    <3>1. k \in Sub(m) /\ m \in Present
      BY <1>1, <2>2, SubtreeFacts DEF Above, Sub
    <3>2. m # k
      BY <1>2, <2>2 DEF Above, Sub
    <3> QED
      BY <3>1, <3>2 DEF Above, Sub
  <2>3. p \in Above(k) /\ p \notin Above(p)
    BY <1>2 DEF Above, Sub
  <2> QED
    BY <2>1, <2>2, <2>3
<1>4. IsFiniteSet(Above(p))
  BY <1>1, FS_Subset DEF Above
<1> QED
  BY <1>3, <1>4, FS_CardinalityType, FS_AddElement DEF Depth

\* A node is deeper than those above it.
LEMMA DepthBelow ==
    ASSUME IsSnapshot(snap), IsTree(snap), NEW n \in Present, NEW m \in Above(n)
    PROVE  Depth(m) \in Nat /\ Depth(n) \in Nat /\ Depth(m) < Depth(n)
<1>1. /\ IsRootedTree(snap.parent) /\ Present = DOMAIN snap.parent /\ IsFiniteSet(Present)
      /\ m \in Present
  BY TreeFacts DEF Above
<1>2. Above(m) \cup {m} \subseteq Above(n)
  <2> SUFFICES ASSUME NEW a \in Above(m) PROVE a \in Above(n)
    OBVIOUS
  <2>1. a \in Present /\ m \in Sub(a) /\ n \in Sub(m) /\ a # m
    BY DEF Above, Sub
  <2>2. n \in Sub(a)
    BY <1>1, <2>1, SubtreeTransitive DEF Sub
  <2>3. a # n
    BY <1>1, <2>1, SubtreeAntisymmetric DEF Sub
  <2> QED
    BY <2>1, <2>2, <2>3 DEF Above, Sub
<1>3. IsFiniteSet(Above(m)) /\ IsFiniteSet(Above(n)) /\ m \notin Above(m)
  BY <1>1, FS_Subset DEF Above
<1>4. Cardinality(Above(m) \cup {m}) = Cardinality(Above(m)) + 1
  BY <1>3, FS_AddElement
<1>5. Cardinality(Above(m) \cup {m}) <= Cardinality(Above(n))
  BY <1>2, <1>3, FS_Subset
<1> QED
  BY <1>3, <1>4, <1>5, FS_CardinalityType DEF Depth

\* Of two nodes at one depth, the children of the one that precedes precede
\* those of the other.
LEMMA ChildrenOfALevel ==
    ASSUME IsSnapshot(snap), IsTree(snap),
           NEW a \in Present, NEW b \in Present, Depth(a) = Depth(b), Precedes(a, b),
           NEW k \in Present, snap.parent[k] = a, NEW l \in Present, snap.parent[l] = b
    PROVE  Precedes(k, l)
<1>1. Present = DOMAIN snap.parent
  BY TreeFacts
<1>2. a \notin Above(b)
  BY DepthBelow
<1>3. ASSUME NEW p \in Present,
             NEW i \in DOMAIN snap.children[p], NEW j \in DOMAIN snap.children[p],
             i < j, a \in Sub(snap.children[p][i]), b \in Sub(snap.children[p][j])
      PROVE  Precedes(k, l)
  <2>1. k \in Sub(snap.children[p][i])
    BY <1>1, <1>3, TreeFacts, SubtreeFacts DEF Sub
  <2>2. l \in Sub(snap.children[p][j])
    BY <1>1, <1>3, TreeFacts, SubtreeFacts DEF Sub
  <2> QED
    BY <1>3, <2>1, <2>2 DEF Precedes, Sub
<1> QED
  BY <1>2, <1>3 DEF Precedes, Sub

\* The children of a node are in the breadth-first order.
LEMMA ChildrenInOrder ==
    ASSUME IsSnapshot(snap), IsTree(snap), order = "breadth", NEW h \in Present
    PROVE  OrderedBy(Children(h), Pairs)
<1> DEFINE kids == snap.children[h]
<1>1. Children(h) = kids
  BY DEF Children
<1>2. /\ kids \in Seq(Present) /\ Present \subseteq Nodes
      /\ \A i \in DOMAIN kids : kids[i] \in Present /\ snap.parent[kids[i]] = h
  BY TreeFacts
<1>3. ASSUME NEW j \in DOMAIN kids, NEW i \in 1 .. j - 1
      PROVE  <<kids[i], kids[j]>> \in Pairs
  <2>1. i \in DOMAIN kids /\ i < j
    BY <1>2
  <2>2. Precedes(kids[i], kids[j])
    <3>1. kids[i] \in Sub(kids[i]) /\ kids[j] \in Sub(kids[j])
      BY <1>2, <2>1, TreeFacts, SubtreeFacts DEF Sub
    <3> QED
      BY <2>1, <3>1 DEF Precedes, Sub
  <2>3. Depth(kids[i]) = Depth(kids[j])
    <3> HIDE DEF kids
    <3> QED
      BY <1>2, <2>1, DepthOfChild
  <2> QED
    BY <1>2, <2>1, <2>2, <2>3 DEF Pairs, ComesBefore
<1> HIDE DEF kids
<1> QED
  BY <1>1, <1>3 DEF OrderedBy

\* What has been answered and what is queued are in the breadth-first order,
\* and the parents of what is queued have been answered.
LevelInv ==
    order = "breadth" /\ start \in Present /\ IsTree(snap) =>
        /\ OrderedBy(yielded \o queue, Pairs)
        /\ \A x \in Items(queue) : x = start \/ snap.parent[x] \in Items(yielded)

\* Where a pair of nodes comes from.
LEMMA PairFacts ==
    ASSUME IsSnapshot(snap), IsTree(snap), order = "breadth",
           NEW a \in Present, NEW b \in Present
    PROVE  /\ Depth(a) \in Nat /\ Depth(b) \in Nat
           /\ <<a, b>> \in Pairs <=>
                Depth(a) < Depth(b) \/ (Depth(a) = Depth(b) /\ Precedes(a, b))
<1>1. Present \subseteq Nodes /\ IsFiniteSet(Present)
  BY TreeFacts
<1>2. IsFiniteSet(Above(a)) /\ IsFiniteSet(Above(b))
  BY <1>1, FS_Subset DEF Above
<1> QED
  BY <1>1, <1>2, FS_CardinalityType DEF Pairs, ComesBefore, Depth

\* The items that are queued come after those that have been answered.
LEMMA AnsweredBeforeQueued ==
    ASSUME TypeOK, LevelInv, order = "breadth", start \in Present, IsTree(snap), queue # <<>>
    PROVE  \A x \in Items(yielded) : <<x, Head(queue)>> \in Pairs
<1> SUFFICES ASSUME NEW x \in Items(yielded)
             PROVE  <<x, Head(queue)>> \in Pairs
  OBVIOUS
<1> DEFINE w == yielded \o queue
           m == Len(yielded)
<1>1. yielded \in Seq(Nodes) /\ queue \in Seq(Nodes) /\ OrderedBy(w, Pairs)
  BY DEF TypeOK, LevelInv
<1>2. PICK i \in DOMAIN yielded : x = yielded[i]
  BY DEF Items
<1>3. /\ 1 \in DOMAIN queue /\ Head(queue) = queue[1]
      /\ i \in 1 .. (m + 1) - 1 /\ m + 1 \in 1 .. Len(yielded) + Len(queue)
  BY <1>1, <1>2
<1>4. w[i] = x /\ w[m + 1] = Head(queue) /\ DOMAIN w = 1 .. Len(yielded) + Len(queue)
  <2>1. /\ Len(w) = Len(yielded) + Len(queue) /\ w \in Seq(Nodes)
        /\ \A k \in DOMAIN yielded : w[k] = yielded[k]
        /\ \A k \in DOMAIN queue : w[m + k] = queue[k]
    BY <1>1, ItemsConcat
  <2> HIDE DEF w
  <2> QED
    BY <1>2, <1>3, <2>1
<1> HIDE DEF w, m
<1> QED
  BY <1>1, <1>3, <1>4 DEF OrderedBy

\* The node that is taken from the queue is the deepest so far at most, and its
\* children come after all that is queued.
LEMMA PopFrontKeepsLevels ==
    ASSUME TypeOK, BreadthInv, LevelInv, PopFront
    PROVE  LevelInv'
<1> SUFFICES ASSUME start \in Present, IsTree(snap)
             PROVE  LevelInv'
  BY DEF PopFront, LevelInv, Present
<1> DEFINE h == Head(queue)
           kids == Children(h)
           w == yielded \o queue
<1>1. /\ order = "breadth" /\ UNCHANGED <<snap, start, order>>
      /\ queue \in Seq(Nodes) /\ queue # <<>> /\ yielded \in Seq(Nodes)
      /\ queue' = Tail(queue) \o kids /\ yielded' = Append(yielded, h)
      /\ IsSnapshot(snap) /\ OrderedBy(w, Pairs)
      /\ \A x \in Items(queue) : x = start \/ snap.parent[x] \in Items(yielded)
  BY DEF PopFront, TypeOK, LevelInv
<1>2. /\ kids \in Seq(Nodes)
      /\ \A x \in Items(kids) : x \in Present /\ snap.parent[x] = h
  BY <1>1, ChildrenFacts
<1>3. /\ h \in Items(queue) /\ Items(yielded) \cup Items(queue) \subseteq Sub(start)
      /\ Sub(start) \subseteq Present /\ start \in Present
  <2>1. h \in Items(queue)
    BY <1>1 DEF Items
  <2> QED
    BY <1>1, <2>1, SubtreeFacts DEF BreadthInv, Sub, Present
<1>4. \A x \in Items(yielded) : <<x, h>> \in Pairs
  BY <1>1, AnsweredBeforeQueued
<1>5. ASSUME NEW x \in Items(w), NEW k \in Items(kids)
      PROVE  <<x, k>> \in Pairs
  <2>1. x \in Items(yielded) \/ x \in Items(queue)
    BY <1>1, ItemsConcat
  <2>2. x \in Present /\ h \in Present /\ k \in Present /\ snap.parent[k] = h
    BY <1>2, <1>3, <2>1
  <2>3. Depth(h) \in Nat /\ Depth(x) \in Nat /\ Depth(k) = Depth(h) + 1
    BY <1>1, <2>2, DepthOfChild, PairFacts
  <2>4. CASE x \in Items(yielded)
    <3>1. <<x, h>> \in Pairs
      BY <1>4, <2>4
    <3>2. Depth(x) < Depth(h) \/ (Depth(x) = Depth(h) /\ Precedes(x, h))
      BY <1>1, <2>2, <3>1, PairFacts
    <3>3. Depth(x) < Depth(k)
      BY <2>3, <3>2
    <3> QED
      BY <1>1, <2>2, <3>3, PairFacts
  <2>5. CASE x = start
    <3>1. x = h \/ x \in Above(h)
      BY <1>3, <2>2, <2>5 DEF Above, Sub
    <3>2. Depth(x) <= Depth(h)
      BY <1>1, <2>2, <2>3, <3>1, DepthBelow
    <3> QED
      BY <1>1, <2>2, <2>3, <3>2, PairFacts
  <2>6. CASE x \in Items(queue) /\ x # start
    <3> DEFINE p == snap.parent[x]
    <3>1. p \in Items(yielded)
      BY <1>1, <2>6
    <3>2. p \in Present /\ <<p, h>> \in Pairs
      BY <1>3, <1>4, <3>1
    <3> HIDE DEF p
    <3>3. Depth(p) \in Nat /\ Depth(x) = Depth(p) + 1
      BY <1>1, <2>2, <3>2, DepthOfChild DEF p
    <3>4. Depth(p) < Depth(h) \/ (Depth(p) = Depth(h) /\ Precedes(p, h))
      BY <1>1, <2>2, <3>2, PairFacts
    <3>5. Depth(p) = Depth(h) /\ Precedes(p, h) => Precedes(x, k)
      BY <1>1, <2>2, <3>2, ChildrenOfALevel DEF p
    <3>6. Depth(x) < Depth(k) \/ (Depth(x) = Depth(k) /\ Precedes(x, k))
      BY <2>3, <3>3, <3>4, <3>5
    <3> QED
      BY <1>1, <2>2, <3>6, PairFacts
  <2> QED
    BY <2>1, <2>4, <2>5, <2>6
<1>6. OrderedBy(w \o kids, Pairs)
  <2>1. w \in Seq(Nodes)
    BY <1>1
  <2>2. OrderedBy(kids, Pairs)
    BY <1>1, <1>3, ChildrenInOrder
  <2> HIDE DEF w, kids
  <2> QED
    BY <1>1, <1>2, <1>5, <2>1, <2>2, OrderedConcat
<1>7. yielded' \o queue' = w \o kids
  <2>1. h \in Nodes /\ Tail(queue) \in Seq(Nodes)
    BY <1>1
  <2>2. Append(yielded, h) \in Seq(Nodes)
    BY <1>1, <2>1
  <2>3. Append(yielded, h) \o Tail(queue) = w
    BY <1>1, MoveFirst
  <2>4. \A a, b, c \in Seq(Nodes) : (a \o b) \o c = a \o (b \o c)
    BY ConcatAssociative
  <2> HIDE DEF w, kids
  <2>5. yielded' = Append(yielded, h) /\ queue' = Tail(queue) \o kids
    BY <1>1
  <2> QED
    BY <1>2, <2>1, <2>2, <2>3, <2>4, <2>5, Zenon
<1>8. Items(yielded') = Items(yielded) \cup {h} /\ Items(queue') \subseteq Items(queue) \cup Items(kids)
  <2>1. Items(queue) \cup Items(kids) = {h} \cup Items(queue')
    BY <1>1, <1>2, ItemsPop
  <2> QED
    BY <1>1, <2>1, ItemsAppend
<1>9. \A x \in Items(queue') : x = start \/ snap.parent[x] \in Items(yielded')
  BY <1>1, <1>2, <1>8
<1>10. OrderedBy(yielded \o queue, Pairs)'
  <2>1. Pairs' = Pairs
    BY <1>1 DEF Pairs, ComesBefore, Precedes, Depth, Above, Present
  <2>2. OrderedBy(yielded \o queue, Pairs)' = OrderedBy(yielded' \o queue', Pairs')
    BY DEF OrderedBy
  <2> QED
    BY <1>6, <1>7, <2>1, <2>2
<1>11. Items(queue)' = Items(queue') /\ Items(yielded)' = Items(yielded')
  BY DEF Items
<1> QED
  BY <1>1, <1>9, <1>10, <1>11 DEF LevelInv

-----------------------------------------------------------------------------
(* The depth-first order                                                   *)

\* On the way down what has been answered is the last node and what precedes
\* it. On the way up, it is what precedes the node that the climb has come to,
\* and all below that. Only the start ends the iteration.
DepthInv ==
    order = "depth" /\ start \in Present /\ IsTree(snap) =>
        /\ OrderedBy(yielded, Pairs)
        /\ last = None => yielded = <<>> /\ current = None /\ done = FALSE
        /\ last # None =>
            /\ last \in Sub(start)
            /\ yielded # <<>> /\ yielded[Len(yielded)] = last
        /\ last # None /\ current = None =>
            /\ Items(yielded) = Earlier(last) \cup {last}
            /\ done = FALSE
        /\ current # None =>
            /\ current \in Sub(start) /\ last \in Sub(current)
            /\ Items(yielded) = Earlier(current) \cup Sub(current)
        /\ done => current = start

\* The depth-first order answers a node when exactly what precedes it has been
\* answered.
LEMMA YieldKeeps ==
    ASSUME TypeOK, DepthInv, order = "depth", start \in Present, IsTree(snap), done = FALSE,
           NEW n \in Sub(start), Yield(n), Items(yielded) = Earlier(n)
    PROVE  DepthInv'
<1>1. /\ UNCHANGED <<snap, start, order, done>> /\ last' = n /\ current' = None
      /\ yielded' = Append(yielded, n) /\ yielded \in Seq(Nodes)
      /\ IsSnapshot(snap) /\ n \in Nodes /\ n # None
  BY TreeFacts, SubtreeFacts DEF Yield, TypeOK, Sub
<1>2. /\ Pairs' = Pairs /\ Earlier(n)' = Earlier(n) /\ Sub(start)' = Sub(start)
      /\ Items(yielded)' = Items(yielded')
  BY <1>1 DEF Pairs, ComesBefore, Precedes, Depth, Above, Present, Earlier, Sub, Items
<1>3. \A x \in Items(yielded) : <<x, n>> \in Pairs
  <2> SUFFICES ASSUME NEW x \in Items(yielded) PROVE <<x, n>> \in Pairs
    OBVIOUS
  <2>1. x \in Nodes /\ Precedes(x, n)
    BY <1>1 DEF Items, Earlier
  <2> QED
    BY <1>1, <2>1 DEF Pairs, ComesBefore
<1>4. OrderedBy(yielded', Pairs)
  <2>1. OrderedBy(yielded, Pairs)
    BY DEF DepthInv
  <2> QED
    BY <1>1, <1>3, <2>1, OrderedAppend
<1>5. Items(yielded') = Earlier(n) \cup {n}
  BY <1>1, ItemsAppend
<1>6. yielded' # <<>> /\ yielded'[Len(yielded')] = n
  BY <1>1
<1>7. OrderedBy(yielded, Pairs)' /\ (Earlier(last) \cup {last})' = Earlier(n) \cup {n}
  <2>1. OrderedBy(yielded, Pairs)' = OrderedBy(yielded', Pairs')
    BY DEF OrderedBy
  <2>2. Earlier(last)' = Earlier(n)'
    BY <1>1 DEF Earlier
  <2> QED
    BY <1>1, <1>2, <1>4, <2>1, <2>2
<1> QED
  BY <1>1, <1>2, <1>5, <1>6, <1>7 DEF DepthInv

\* The climb comes to a node when what precedes it and all below it has been
\* answered.
LEMMA GoToKeeps ==
    ASSUME TypeOK, DepthInv, order = "depth", start \in Present, IsTree(snap), done = FALSE,
           last # None,
           NEW n \in Sub(start), GoTo(n), last \in Sub(n), Items(yielded) = Earlier(n) \cup Sub(n)
    PROVE  DepthInv'
<1>1. /\ UNCHANGED <<snap, start, order, done, last, yielded>> /\ current' = n /\ n # None
  BY TreeFacts, SubtreeFacts DEF GoTo, TypeOK, Sub
<1>2. /\ Pairs' = Pairs /\ Earlier(n)' = Earlier(n) /\ Sub(start)' = Sub(start) /\ Sub(n)' = Sub(n)
      /\ Items(yielded)' = Items(yielded)
  BY <1>1 DEF Pairs, ComesBefore, Precedes, Depth, Above, Present, Earlier, Sub, Items
<1>3. OrderedBy(yielded, Pairs)' = OrderedBy(yielded, Pairs)
  BY <1>1, <1>2 DEF OrderedBy
<1>4. (Earlier(current) \cup Sub(current))' = Earlier(n) \cup Sub(n) /\ Sub(current)' = Sub(n)
  <2>1. Earlier(current)' = Earlier(n)' /\ Sub(current)' = Sub(n)'
    BY <1>1 DEF Earlier, Sub
  <2> QED
    BY <1>2, <2>1
<1> QED
  BY <1>1, <1>2, <1>3, <1>4 DEF DepthInv

\* Where the climb has come to, below the start.
LEMMA ClimbFacts ==
    ASSUME TypeOK, DepthInv, order = "depth", start \in Present, IsTree(snap),
           current # None, current # start, NEW i \in Places
    PROVE  /\ snap.parent[current] \in Sub(start)
           /\ i \in DOMAIN snap.children[snap.parent[current]]
           /\ snap.children[snap.parent[current]][i] = current
<1>1. current \in Sub(start) /\ Present = DOMAIN snap.parent
  BY DEF DepthInv, Present
<1>2. snap.parent[current] \in Sub(start)
  BY <1>1, SubtreeParent DEF Sub
<1> QED
  BY <1>2 DEF Places

\* Each step of the depth-first order goes one node further in the order.
LEMMA DepthInvInductive ==
    ASSUME TypeOK, DepthInv, [Next]_vars
    PROVE  DepthInv'
<1> SUFFICES ASSUME order = "depth", start \in Present, IsTree(snap),
                    UNCHANGED <<snap, start, order>>
             PROVE  DepthInv'
  BY DEF DepthInv, Present, Next, PopFront, NothingQueued, Begin, ToFirstChild, ToClimb,
     StartMissing, BackAtStart, ToNextSibling, ToParent, Exhausted, Yield, GoTo, End, vars
<1>1. /\ IsSnapshot(snap) /\ None \notin Present
      /\ Sub(start) \subseteq Present /\ start \in Sub(start)
      /\ \A p \in Sub(start) : \A i \in DOMAIN snap.children[p] : snap.children[p][i] \in Sub(start)
  <2>1. IsSnapshot(snap) /\ None \notin Present /\ Present = DOMAIN snap.parent
    BY TreeFacts DEF TypeOK
  <2>2. Sub(start) \subseteq Present /\ start \in Sub(start)
    BY <2>1, SubtreeFacts DEF Sub
  <2> QED
    BY <2>1, <2>2, TreeFacts, SubtreeFacts DEF Sub
<1>2. CASE Begin
  <2>1. done = FALSE /\ Items(yielded) = {}
    BY <1>2 DEF Begin, Descending, DepthInv, Items, TypeOK
  <2> QED
    BY <1>1, <1>2, <2>1, EarlierThanStart, YieldKeeps DEF Begin
<1>3. CASE ToFirstChild
  <2>1. /\ done = FALSE /\ last \in Sub(start) /\ snap.children[last] # <<>>
        /\ Items(yielded) = Earlier(last) \cup {last}
    BY <1>1, <1>3 DEF ToFirstChild, Descending, DepthInv, TypeOK
  <2>2. /\ Items(yielded) = Earlier(snap.children[last][1])
        /\ snap.children[last][1] \in Sub(start)
    BY <1>1, <2>1, EarlierThanFirstChild
  <2> QED
    BY <1>3, <2>1, <2>2, YieldKeeps DEF ToFirstChild
<1>4. CASE ToClimb
  <2>1. /\ done = FALSE /\ last \in Sub(start) /\ last # None /\ snap.children[last] = <<>>
        /\ Items(yielded) = Earlier(last) \cup {last}
    BY <1>1, <1>4 DEF ToClimb, Descending, DepthInv, TypeOK
  <2>2. Sub(last) = {last}
    BY <1>1, <2>1, SubtreeOfLeaf
  <2> QED
    BY <1>4, <2>1, <2>2, GoToKeeps DEF ToClimb
<1>5. CASE ToNextSibling
  <2> DEFINE p == snap.parent[current]
  <2>1. /\ done = FALSE /\ current # None /\ current # start
        /\ Items(yielded) = Earlier(current) \cup Sub(current)
    BY <1>5 DEF ToNextSibling, Climbing, DepthInv, TypeOK
  <2>2. PICK i \in Places : i + 1 <= Len(snap.children[p]) /\ Yield(snap.children[p][i + 1])
    BY <1>5 DEF ToNextSibling
  <2>3. p \in Sub(start) /\ i \in DOMAIN snap.children[p] /\ snap.children[p][i] = current
    BY <2>1, ClimbFacts
  <2>4. /\ snap.children[p][i + 1] \in Sub(start)
        /\ Items(yielded) = Earlier(snap.children[p][i + 1])
    BY <1>1, <2>1, <2>2, <2>3, EarlierThanSibling
  <2> QED
    BY <2>1, <2>2, <2>4, YieldKeeps
<1>6. CASE ToParent
  <2> DEFINE p == snap.parent[current]
  <2>1. /\ done = FALSE /\ current # None /\ current # start
        /\ last # None /\ last \in Sub(current)
        /\ Items(yielded) = Earlier(current) \cup Sub(current)
    BY <1>6 DEF ToParent, Climbing, DepthInv, TypeOK
  <2>2. PICK i \in Places : i = Len(snap.children[p])
    BY <1>6 DEF ToParent
  <2>3. p \in Sub(start) /\ i \in DOMAIN snap.children[p] /\ snap.children[p][i] = current
    BY <2>1, ClimbFacts
  <2>4. Items(yielded) = Earlier(p) \cup Sub(p)
    BY <1>1, <2>1, <2>2, <2>3, EarlierThanParent
  <2>5. last \in Sub(p)
    <3>1. current \in Sub(p)
      BY <1>1, <2>3, SubtreeByChildren, TreeFacts, SubtreeFacts DEF Sub
    <3> QED
      BY <1>1, <2>1, <2>3, <3>1, TreeFacts, SubtreeTransitive DEF Sub
  <2>6. GoTo(p)
    BY <1>6 DEF ToParent
  <2> QED
    BY <2>1, <2>3, <2>4, <2>5, <2>6, GoToKeeps
<1>7. CASE BackAtStart \/ Exhausted \/ UNCHANGED vars
  <2>1. UNCHANGED <<snap, start, order, yielded, last, current>> /\ (done' = done \/ current = start)
    BY <1>7 DEF BackAtStart, Exhausted, End, vars
  <2>2. current = start => current # None /\ last # None
    BY <1>1 DEF DepthInv
  <2>3. /\ OrderedBy(yielded, Pairs)' = OrderedBy(yielded, Pairs) /\ Items(yielded)' = Items(yielded)
        /\ Earlier(last)' = Earlier(last) /\ Earlier(current)' = Earlier(current)
        /\ Sub(start)' = Sub(start) /\ Sub(current)' = Sub(current)
    BY <2>1 DEF OrderedBy, Pairs, ComesBefore, Precedes, Depth, Above, Present, Earlier, Sub, Items
  <2> QED
    BY <2>1, <2>2, <2>3 DEF DepthInv
<1>8. ~ PopFront /\ ~ NothingQueued
  BY DEF PopFront, NothingQueued
<1>9. ~ StartMissing
  <2> SUFFICES ASSUME StartMissing PROVE FALSE
    OBVIOUS
  <2>1. last # None /\ last \notin Present
    BY DEF StartMissing
  <2> QED
    BY <1>1, <2>1 DEF DepthInv
<1> QED
  BY <1>2, <1>3, <1>4, <1>5, <1>6, <1>7, <1>8, <1>9 DEF Next

-----------------------------------------------------------------------------
(* The iteration visits the subtree, in order                              *)

TraversalInv == TypeOK /\ BreadthInv /\ LevelInv /\ DepthInv

\* The invariants hold of the steps of the iterator, however it is run.
LEMMA TraversalInvariant == Init /\ [][Next]_vars => []TraversalInv
<1>1. Init => TraversalInv
  <2> SUFFICES ASSUME Init PROVE TraversalInv
    OBVIOUS
  <2>1. TypeOK
    BY TypeInit
  <2>2. /\ order = "breadth" => queue = <<start>>
        /\ yielded = <<>> /\ done = FALSE /\ last = None /\ current = None /\ start \in Nodes
    BY DEF Init, Queue
  <2>3. /\ order = "breadth" => Items(queue) = {start}
        /\ Items(yielded) = {}
    BY <2>2 DEF Items
  <2>4. start \in Present => start \in Subtree(snap.parent, start)
    BY SubtreeFacts DEF Present
  <2>5. BreadthInv
    BY <2>2, <2>3, <2>4 DEF BreadthInv
  <2>6. OrderedBy(yielded, Pairs)
    BY <2>2 DEF OrderedBy
  <2>7. DepthInv
    BY <2>2, <2>6 DEF DepthInv
  <2>8. ASSUME order = "breadth"
        PROVE  OrderedBy(yielded \o queue, Pairs)
    <3>1. yielded \o queue = <<start>>
      BY <2>2, <2>8
    <3>2. \A j \in DOMAIN <<start>> : 1 .. j - 1 = {}
      OBVIOUS
    <3> QED
      BY <3>1, <3>2 DEF OrderedBy
  <2>9. LevelInv
    BY <2>3, <2>8 DEF LevelInv
  <2> QED
    BY <2>1, <2>5, <2>7, <2>9 DEF TraversalInv
<1>2. TraversalInv /\ [Next]_vars => TraversalInv'
  <2> SUFFICES ASSUME TypeOK, BreadthInv, LevelInv, DepthInv, [Next]_vars
               PROVE  TraversalInv'
    BY DEF TraversalInv
  <2>1. TypeOK' /\ DepthInv'
    BY TypeNext, DepthInvInductive
  <2>2. CASE PopFront
    BY <2>1, <2>2, PopFrontKeeps, PopFrontKeepsLevels DEF TraversalInv
  <2>3. CASE NothingQueued \/ Exhausted \/ UNCHANGED vars
    <3>1. UNCHANGED <<snap, start, order, queue, yielded>> /\ (done' => done \/ queue = <<>>)
      BY <2>3 DEF NothingQueued, Exhausted, vars
    <3>2. /\ \A n : Children(n)' = Children(n)
          /\ Items(yielded)' = Items(yielded) /\ Items(queue)' = Items(queue)
          /\ OrderedBy(yielded \o queue, Pairs)' = OrderedBy(yielded \o queue, Pairs)
      BY <3>1 DEF Children, Items, OrderedBy, Pairs, ComesBefore, Precedes, Depth, Above, Present
    <3>3. BreadthInv'
      BY <3>1 DEF BreadthInv, Present, Children
    <3>4. LevelInv'
      BY <3>1, <3>2 DEF LevelInv, Present
    <3> QED
      BY <2>1, <3>3, <3>4 DEF TraversalInv
  <2>4. CASE Begin \/ ToFirstChild \/ ToClimb \/ StartMissing \/ BackAtStart
             \/ ToNextSibling \/ ToParent
    <3>1. order # "breadth" /\ order' = order
      BY <2>4 DEF Begin, ToFirstChild, ToClimb, StartMissing, BackAtStart, ToNextSibling,
         ToParent, Descending, Climbing, Yield, GoTo, End
    <3> QED
      BY <2>1, <3>1 DEF TraversalInv, BreadthInv, LevelInv
  <2> QED
    BY <2>2, <2>3, <2>4 DEF Next
<1> QED
  BY <1>1, <1>2, PTL

\* Every state of an iteration is well typed: what is queued, climbed to and
\* answered are nodes, and the depth-first order queues nothing.
THEOREM TraversalTypeCorrect == Spec => []TypeOK
BY TraversalInvariant, PTL DEF Spec, TraversalInv

\* A prefix of an ordered sequence is ordered.
LEMMA OrderedPrefix ==
    ASSUME NEW S, NEW s \in Seq(S), NEW t \in Seq(S), NEW before, OrderedBy(s \o t, before)
    PROVE  OrderedBy(s, before)
<1> DEFINE r == s \o t
<1>1. /\ DOMAIN s \subseteq DOMAIN r /\ \A i \in DOMAIN s : r[i] = s[i]
      /\ \A j \in DOMAIN s : 1 .. j - 1 \subseteq DOMAIN s
  OBVIOUS
<1> HIDE DEF r
<1>2. OrderedBy(r, before)
  BY DEF r
<1> QED
  BY <1>1, <1>2 DEF OrderedBy

\* What has been answered is in order.
LEMMA AnswersOrdered ==
    ASSUME TraversalInv, start \in Present, IsTree(snap)
    PROVE  OrderedBy(yielded, Pairs)
<1>1. CASE order = "depth"
  BY <1>1 DEF TraversalInv, DepthInv
<1>2. CASE order = "breadth"
  <2>1. OrderedBy(yielded \o queue, Pairs) /\ yielded \in Seq(Nodes) /\ queue \in Seq(Nodes)
    BY <1>2 DEF TraversalInv, LevelInv, TypeOK
  <2> QED
    BY <2>1, OrderedPrefix
<1> QED
  BY <1>1, <1>2 DEF TraversalInv, TypeOK

\* A node does not come before itself.
LEMMA NotBeforeItself ==
    ASSUME IsSnapshot(snap), IsTree(snap), NEW n \in Present
    PROVE  <<n, n>> \notin Pairs
<1>1. ~ Precedes(n, n)
  BY TreeFacts, SubtreeFacts, BelowNotBefore DEF Sub
<1>2. IsFiniteSet(Above(n))
  BY TreeFacts, FS_Subset DEF Above
<1>3. ~ (Depth(n) < Depth(n))
  BY <1>2, FS_CardinalityType DEF Depth
<1> QED
  BY <1>1, <1>3 DEF Pairs, ComesBefore

\* When the iteration is over, nothing of the subtree is missing.
LEMMA AllAnswered ==
    ASSUME TraversalInv, start \in Present, IsTree(snap)
    PROVE  /\ Items(yielded) \subseteq Sub(start)
           /\ done => Items(yielded) = Sub(start)
<1>1. CASE order = "breadth"
  BY <1>1, BreadthInvSuffices DEF TraversalInv, Sub
<1>2. CASE order = "depth"
  <2>1. IsSnapshot(snap) /\ None \notin Present /\ Present = DOMAIN snap.parent
    BY TreeFacts DEF TraversalInv, TypeOK
  <2>2. CASE current # None
    <3>1. current \in Sub(start) /\ Items(yielded) = Earlier(current) \cup Sub(current)
          /\ (done => current = start)
      BY <1>2, <2>2 DEF TraversalInv, DepthInv
    <3>2. Sub(current) \subseteq Sub(start) /\ Earlier(start) = {}
      BY <2>1, <3>1, SubtreeTransitive, EarlierThanStart DEF Sub
    <3> QED
      BY <3>1, <3>2 DEF Earlier
  <2>3. CASE current = None /\ last # None
    BY <1>2, <2>3 DEF TraversalInv, DepthInv, Earlier
  <2>4. CASE last = None
    BY <1>2, <2>4 DEF TraversalInv, DepthInv, Items
  <2> QED
    BY <2>2, <2>3, <2>4
<1> QED
  BY <1>1, <1>2 DEF TraversalInv, TypeOK

\* Both orders answer the start and its descendants, each once, in trees of any
\* size and shape.
THEOREM AlwaysVisitsTheSubtree == Spec => []VisitsTheSubtree
<1>1. TraversalInv => VisitsTheSubtree
  <2> SUFFICES ASSUME TraversalInv, start \in Present, IsTree(snap)
               PROVE  VisitsTheSubtree
    BY DEF VisitsTheSubtree
  <2>1. /\ Items(yielded) \subseteq Sub(start)
        /\ done => Items(yielded) = Sub(start)
    BY AllAnswered
  <2>2. OrderedBy(yielded, Pairs) /\ yielded \in Seq(Nodes) /\ IsSnapshot(snap)
    BY AnswersOrdered DEF TraversalInv, TypeOK
  <2>3. \A i \in DOMAIN yielded : yielded[i] \in Present
    BY <2>1, SubtreeFacts DEF Items, Sub, Present
  <2>4. ASSUME NEW i \in DOMAIN yielded, NEW j \in DOMAIN yielded, i < j
        PROVE  yielded[i] # yielded[j]
    <3>1. i \in 1 .. j - 1
      BY <2>2, <2>4
    <3>2. <<yielded[i], yielded[j]>> \in Pairs
      BY <2>2, <3>1 DEF OrderedBy
    <3> QED
      BY <2>2, <2>3, <3>2, NotBeforeItself
  <2>5. IsInjective(yielded)
    <3>1. \A i, j \in DOMAIN yielded : i < j \/ j < i \/ i = j
      BY <2>2
    <3>2. \A i, j \in DOMAIN yielded : yielded[i] = yielded[j] => i = j
      BY <2>4, <3>1
    <3> QED
      BY <3>2 DEF IsInjective
  <2> QED
    BY <2>1, <2>5 DEF VisitsTheSubtree, Visited, Items, Sub
<1> QED
  BY <1>1, TraversalInvariant, PTL DEF Spec

\* The answers are in the order that was asked for.
THEOREM AlwaysAnswersInOrder == Spec => []AnswersInOrder
<1>1. TraversalInv => AnswersInOrder
  <2> SUFFICES ASSUME TraversalInv, start \in Present, IsTree(snap),
                      NEW j \in DOMAIN yielded, NEW i \in 1 .. j - 1
               PROVE  ComesBefore(yielded[i], yielded[j])
    BY DEF AnswersInOrder
  <2>1. <<yielded[i], yielded[j]>> \in Pairs
    BY AnswersOrdered DEF OrderedBy
  <2> QED
    BY <2>1 DEF Pairs
<1> QED
  BY <1>1, TraversalInvariant, PTL DEF Spec

-----------------------------------------------------------------------------
(* The iteration comes nearer to its end                                   *)

\* An iteration from a node without children, in a ruin or of a handle whose node
\* has gone as well, answers the start alone and never leaves it.
LoneInv ==
    Children(start) = <<>> =>
        /\ last \in {None, start} /\ current \in {None, start}
        /\ order = "depth" /\ last = None => yielded = <<>>
        /\ order = "breadth" => queue = <<>> \/ (queue = <<start>> /\ yielded = <<>>)

\* All other iterations are in trees.
LEMMA TreeOrLone ==
    ASSUME TypeOK
    PROVE  Children(start) = <<>> \/ (start \in Present /\ IsTree(snap))
BY DEF TypeOK, IsSnapshot, IsRuin, Children, Present

\* A step from a start without children.
LEMMA LoneInvInductive ==
    ASSUME TypeOK, LoneInv, [Next]_vars
    PROVE  LoneInv'
<1>1. UNCHANGED <<snap, start, order>> /\ Children(start)' = Children(start)
  <2>1. UNCHANGED <<snap, start, order>>
    BY DEF Next, PopFront, NothingQueued, Begin, ToFirstChild, ToClimb, StartMissing,
       BackAtStart, ToNextSibling, ToParent, Exhausted, Yield, GoTo, End, vars
  <2> QED
    BY <2>1 DEF Children, Present
<1> SUFFICES ASSUME Children(start) = <<>>
             PROVE  /\ last' \in {None, start} /\ current' \in {None, start}
                    /\ order = "depth" /\ last' = None => yielded' = <<>>
                    /\ order = "breadth" =>
                         queue' = <<>> \/ (queue' = <<start>> /\ yielded' = <<>>)
  BY <1>1 DEF LoneInv
<1>2. None \notin Nodes /\ start \in Nodes /\ None \notin Present
  BY NodesFinite DEF TypeOK, None, IsSnapshot, Present
<1>3. CASE PopFront
  <2>1. order = "breadth" /\ queue = <<start>> /\ UNCHANGED <<last, current>>
    BY <1>3 DEF PopFront, LoneInv
  <2>2. queue' = Tail(queue) \o Children(Head(queue)) /\ Head(queue) = start /\ Tail(queue) = <<>>
    BY <1>3, <2>1 DEF PopFront
  <2>3. queue' = <<>>
    BY <2>2
  <2> QED
    BY <2>1, <2>3 DEF LoneInv
<1>4. CASE Begin
  BY <1>2, <1>4 DEF Begin, Descending, Yield
<1>5. CASE ToClimb
  BY <1>5 DEF ToClimb, Descending, GoTo, LoneInv
<1>6. ~ ToFirstChild
  <2> SUFFICES ASSUME ToFirstChild PROVE FALSE
    OBVIOUS
  <2>1. last = start /\ last \in Present /\ snap.children[last] # <<>>
    BY <1>2 DEF ToFirstChild, LoneInv
  <2> QED
    BY <2>1 DEF Children
<1>7. ~ ToNextSibling /\ ~ ToParent
  BY DEF ToNextSibling, ToParent, Climbing, LoneInv
<1>8. CASE NothingQueued \/ StartMissing \/ BackAtStart \/ Exhausted \/ UNCHANGED vars
  BY <1>8 DEF NothingQueued, StartMissing, BackAtStart, Exhausted, End, vars, LoneInv
<1> QED
  BY <1>3, <1>4, <1>5, <1>6, <1>7, <1>8 DEF Next

\* Such an iteration stays as it is described.
LEMMA LoneInvariant == Spec => []LoneInv
<1>1. Init => LoneInv
  BY DEF Init, Queue, LoneInv
<1> QED
  BY <1>1, LoneInvInductive, TraversalTypeCorrect, PTL DEF Spec

\* A climb that is not back at its start finds where it is among the siblings: of
\* the lookups on the way up none fails, in trees of any size.
THEOREM ClimbsAreNeverLost == Spec => []NeverLost
<1>1. ASSUME TypeOK, DepthInv, LoneInv, Climbing, current # start
      PROVE  Places # {}
  <2>1. start \in Present /\ IsTree(snap) /\ IsSnapshot(snap) /\ order = "depth" /\ current # None
    BY <1>1, TreeOrLone DEF Climbing, LoneInv, TypeOK
  <2>2. current \in Sub(start) /\ Present = DOMAIN snap.parent
    BY <1>1, <2>1 DEF DepthInv, Present
  <2>3. snap.parent[current] \in Sub(start) /\ Sub(start) \subseteq Present
    BY <1>1, <2>1, <2>2, SubtreeParent, SubtreeFacts DEF Sub
  <2>4. current \in Present /\ snap.parent[current] \in Present
    BY <2>2, <2>3
  <2>5. \E i \in DOMAIN snap.children[snap.parent[current]] :
            snap.children[snap.parent[current]][i] = current
    <3>1. \A p \in Present : \A k \in Present : snap.parent[k] = p =>
              \E i \in DOMAIN snap.children[p] : snap.children[p][i] = k
      BY <2>1, TreeFacts
    <3> QED
      BY <2>4, <3>1
  <2> QED
    BY <2>4, <2>5 DEF Places
<1>2. TraversalInv /\ LoneInv => NeverLost
  BY <1>1 DEF TraversalInv, NeverLost
<1> QED
  BY <1>2, TraversalInvariant, LoneInvariant, PTL DEF Spec

\* What has not been answered.
Unanswered == (Present \cup {start}) \ Visited

\* Sizes are numbers, and depths do not change.
LEMMA Sizes ==
    ASSUME TypeOK
    PROVE  /\ IsFiniteSet(Unanswered) /\ Cardinality(Unanswered) \in Nat
           /\ \A n : Depth(n) \in Nat
           /\ snap' = snap => \A n : Depth(n)' = Depth(n)
<1>1. IsFiniteSet(Present)
  BY NodesFinite, FS_Subset DEF TypeOK, IsSnapshot, Present
<1>2. IsFiniteSet(Present \cup {start})
  BY <1>1, FS_AddElement
<1>3. IsFiniteSet(Unanswered) /\ Cardinality(Unanswered) \in Nat
  BY <1>2, FS_Subset, FS_CardinalityType DEF Unanswered
<1>4. ASSUME NEW n PROVE Depth(n) \in Nat
  <2>1. Above(n) \in SUBSET Present
    BY DEF Above
  <2> QED
    BY <1>1, <2>1, FS_Subset, FS_CardinalityType DEF Depth
<1>5. snap' = snap => \A n : Depth(n)' = Depth(n)
  BY DEF Depth, Above, Present
<1> QED
  BY <1>3, <1>4, <1>5

\* An answer is a new one.
LEMMA AnswerIsNew ==
    ASSUME TypeOK, VisitsTheSubtree', UNCHANGED <<snap, start>>,
           NEW n \in Nodes, yielded' = Append(yielded, n),
           Children(start) = <<>> => n = start /\ yielded = <<>>
    PROVE  Cardinality(Unanswered') = Cardinality(Unanswered) - 1
<1>1. /\ yielded \in Seq(Nodes) /\ Len(yielded) \in Nat
      /\ DOMAIN yielded = 1 .. Len(yielded) /\ DOMAIN yielded' = 1 .. Len(yielded) + 1
      /\ yielded'[Len(yielded) + 1] = n
      /\ \A i \in DOMAIN yielded : yielded'[i] = yielded[i]
  BY DEF TypeOK
<1>2. Visited' = Visited \cup {n}
  BY <1>1, ItemsAppend DEF Visited, Items
<1>3. n \in Present \cup {start} /\ n \notin Visited
  <2>1. CASE Children(start) = <<>>
    BY <2>1 DEF Visited
  <2>2. CASE start \in Present /\ IsTree(snap)
    <3>1. Visited' \subseteq Sub(start) /\ IsInjective(yielded')
      BY <2>2 DEF VisitsTheSubtree, Present, Sub
    <3>2. n \in Present
      BY <1>2, <2>2, <3>1, SubtreeFacts DEF Sub, Present
    <3>3. ASSUME n \in Visited PROVE FALSE
      <4>1. PICK i \in DOMAIN yielded : yielded[i] = n
        BY <3>3 DEF Visited
      <4>2. /\ i \in DOMAIN yielded' /\ Len(yielded) + 1 \in DOMAIN yielded'
            /\ yielded'[i] = yielded'[Len(yielded) + 1] /\ i # Len(yielded) + 1
        BY <1>1, <4>1
      <4> QED
        BY <3>1, <4>2 DEF IsInjective
    <3> QED
      BY <3>2, <3>3
  <2> QED
    BY <2>1, <2>2, TreeOrLone
<1>4. Unanswered' = Unanswered \ {n} /\ n \in Unanswered
  BY <1>2, <1>3 DEF Unanswered, Present
<1> QED
  BY <1>4, Sizes, FS_RemoveElement

\* A step that does not end the iteration: an answer is a new one and at most one
\* deeper than where the iteration was, and a climb goes up.
LEMMA StepProgresses ==
    ASSUME TypeOK, DepthInv, LoneInv, VisitsTheSubtree', Next, ~ done'
    PROVE  Remaining' < Remaining
<1> DEFINE u == Cardinality(Unanswered)
           v == Cardinality(Unanswered')
<1>1. /\ UNCHANGED <<snap, start, order>>
      /\ IsSnapshot(snap) /\ start \in Nodes /\ start # None /\ None \notin Nodes
  <2>1. UNCHANGED <<snap, start, order>>
    BY DEF Next, PopFront, NothingQueued, Begin, ToFirstChild, ToClimb, StartMissing,
       BackAtStart, ToNextSibling, ToParent, Exhausted, Yield, GoTo, End, vars
  <2>2. None \notin Nodes
    BY NodesFinite DEF None
  <2> QED
    BY <2>1, <2>2 DEF TypeOK
<1>2. /\ u \in Nat /\ \A n : Depth(n) \in Nat
      /\ \A n : Depth(n)' = Depth(n)
      /\ Remaining = 2 * u + Depth(Position) + (IF current = None THEN 1 ELSE 0)
      /\ Remaining' = 2 * v + Depth(Position') + (IF current' = None THEN 1 ELSE 0)
  <2>1. u \in Nat /\ (\A n : Depth(n) \in Nat) /\ \A n : Depth(n)' = Depth(n)
    BY <1>1, Sizes
  <2>2. Depth(Position)' = Depth(Position')
    BY <1>1 DEF Depth, Above, Present
  <2> QED
    BY <2>1, <2>2 DEF Remaining, Unanswered
<1>3. yielded' = yielded => v = u
  BY <1>1 DEF Unanswered, Visited, Present
<1>4. /\ ~ NothingQueued /\ ~ StartMissing /\ ~ BackAtStart /\ ~ Exhausted
  BY DEF NothingQueued, StartMissing, BackAtStart, Exhausted, End, vars
<1> HIDE DEF u, v
<1>5. CASE PopFront
  <2>1. /\ order = "breadth" /\ queue # <<>> /\ Head(queue) \in Nodes
        /\ yielded' = Append(yielded, Head(queue)) /\ UNCHANGED <<last, current>>
    BY <1>5 DEF PopFront, TypeOK
  <2>2. Children(start) = <<>> => Head(queue) = start /\ yielded = <<>>
    BY <2>1 DEF LoneInv
  <2>3. v = u - 1
    BY <1>1, <2>1, <2>2, AnswerIsNew DEF u, v
  <2>4. Position' = Position
    BY <1>1, <2>1 DEF Position
  <2> QED
    BY <1>2, <2>1, <2>3, <2>4
<1>6. CASE Begin
  <2>1. /\ order = "depth" /\ current = None /\ last = None
        /\ current' = None /\ last' = start /\ yielded' = Append(yielded, start)
    BY <1>6 DEF Begin, Descending, Yield
  <2>2. yielded = <<>>
    BY <2>1, TreeOrLone DEF LoneInv, DepthInv
  <2>3. v = u - 1
    BY <1>1, <2>1, <2>2, AnswerIsNew DEF u, v
  <2>4. Position = start /\ Position' = start
    BY <1>1, <2>1 DEF Position
  <2> QED
    BY <1>2, <2>1, <2>3, <2>4
<1>7. CASE ToFirstChild
  <2> DEFINE c == snap.children[last][1]
  <2>1. /\ order = "depth" /\ current = None /\ last \in Present /\ snap.children[last] # <<>>
        /\ Yield(c)
    BY <1>7 DEF ToFirstChild, Descending
  <2>2. Children(start) # <<>>
    BY <1>1, <2>1 DEF LoneInv, Children, IsSnapshot, Present
  <2>3. start \in Present /\ IsTree(snap)
    BY <2>2, TreeOrLone
  <2>4. /\ 1 \in DOMAIN snap.children[last] /\ c \in Present /\ snap.parent[c] = last
        /\ Present \subseteq Nodes
    BY <1>1, <2>1, <2>3, TreeFacts
  <2>5. Depth(c) = Depth(last) + 1
    BY <1>1, <2>1, <2>3, <2>4, DepthOfChild
  <2>6. v = u - 1
    BY <1>1, <2>1, <2>2, <2>4, AnswerIsNew DEF u, v, Yield
  <2>7. Position = last /\ Position' = c /\ current' = None
    BY <1>1, <2>1, <2>4 DEF Position, Yield
  <2> QED
    BY <1>2, <2>1, <2>5, <2>6, <2>7
<1>8. CASE ToClimb
  <2>1. current = None /\ last # None /\ current' = last /\ yielded' = yielded
    BY <1>1, <1>8 DEF ToClimb, Descending, GoTo, IsSnapshot, Present
  <2>2. Position = last /\ Position' = last
    BY <2>1 DEF Position
  <2> QED
    BY <1>2, <1>3, <2>1, <2>2
<1>9. ASSUME Climbing, current # start, NEW i \in Places
      PROVE  /\ start \in Present /\ IsTree(snap) /\ Children(start) # <<>>
             /\ order = "depth" /\ current # None /\ current \in Present
             /\ i \in DOMAIN snap.children[snap.parent[current]]
             /\ snap.parent[current] \in Present
             /\ Depth(current) = Depth(snap.parent[current]) + 1
  <2>1. order = "depth" /\ current # None /\ Children(start) # <<>>
    BY <1>9 DEF Climbing, LoneInv
  <2>2. start \in Present /\ IsTree(snap)
    BY <2>1, TreeOrLone
  <2>3. current \in Sub(start) /\ snap.parent[current] \in Sub(start) /\ Sub(start) \subseteq Present
        /\ i \in DOMAIN snap.children[snap.parent[current]]
    BY <1>9, <2>1, <2>2, ClimbFacts, SubtreeFacts DEF DepthInv, Sub, Present
  <2> QED
    BY <1>1, <2>1, <2>2, <2>3, DepthOfChild
<1>10. CASE ToNextSibling
  <2> DEFINE p == snap.parent[current]
  <2>1. PICK i \in Places : i + 1 <= Len(snap.children[p]) /\ Yield(snap.children[p][i + 1])
    BY <1>10 DEF ToNextSibling
  <2> DEFINE c == snap.children[p][i + 1]
  <2>2. /\ Children(start) # <<>> /\ IsTree(snap)
        /\ current # None /\ p \in Present /\ i \in DOMAIN snap.children[p]
        /\ Depth(current) = Depth(p) + 1
    BY <1>9, <1>10 DEF ToNextSibling
  <2>3. c \in Present /\ snap.parent[c] = p /\ Present \subseteq Nodes
    <3>1. i + 1 \in DOMAIN snap.children[p]
      BY <1>1, <2>1, <2>2, TreeFacts
    <3> QED
      BY <1>1, <2>2, <3>1, TreeFacts
  <2>4. Depth(c) = Depth(p) + 1
    BY <1>1, <2>2, <2>3, DepthOfChild
  <2>5. v = u - 1
    BY <1>1, <2>1, <2>2, <2>3, AnswerIsNew DEF u, v, Yield
  <2>6. Position = current /\ Position' = c /\ current' = None
    BY <1>1, <2>1, <2>2, <2>3 DEF Position, Yield
  <2> QED
    BY <1>2, <2>2, <2>4, <2>5, <2>6
<1>11. CASE ToParent
  <2> DEFINE p == snap.parent[current]
  <2>1. PICK i \in Places : i = Len(snap.children[p])
    BY <1>11 DEF ToParent
  <2>2. /\ current # None /\ p \in Present /\ Present \subseteq Nodes
        /\ Depth(current) = Depth(p) + 1
    BY <1>1, <1>9, <1>11 DEF ToParent, IsSnapshot, Present
  <2>3. current' = p /\ yielded' = yielded
    BY <1>11 DEF ToParent, GoTo
  <2>4. Position = current /\ Position' = p
    BY <1>1, <2>2, <2>3 DEF Position
  <2> QED
    BY <1>1, <1>2, <1>3, <2>2, <2>3, <2>4
<1> QED
  BY <1>4, <1>5, <1>6, <1>7, <1>8, <1>10, <1>11 DEF Next

\* With every step of either order, in trees of any size and in ruins, there is
\* less before it.
THEOREM IterationAlwaysProgresses == Spec => IterationProgresses
<1>1. TraversalInv /\ LoneInv /\ VisitsTheSubtree' /\ [Next]_vars =>
        [~ done' => Remaining' < Remaining]_vars
  BY StepProgresses DEF TraversalInv
<1> QED
  BY <1>1, TraversalInvariant, LoneInvariant, AlwaysVisitsTheSubtree, PTL
     DEF Spec, IterationProgresses

-----------------------------------------------------------------------------
(* The tree that is printed                                                *)

\* The vector, extended or truncated, keeps the entries that it still has.
LEMMA AdjustedFacts ==
    ASSUME NEW S, FALSE \in S, isLast \in Seq(S), lastDepth \in Nat, Len(isLast) = lastDepth + 1,
           NEW d \in Nat
    PROVE  /\ Adjusted(d) \in Seq(S) /\ Len(Adjusted(d)) = d + 1
           /\ \A i \in 1 .. d + 1 : i <= lastDepth + 1 => Adjusted(d)[i] = isLast[i]
<1>1. ASSUME NEW f \in S, NEW more, d > lastDepth, more = [i \in 1 .. d - lastDepth |-> f]
      PROVE  /\ isLast \o more \in Seq(S) /\ Len(isLast \o more) = d + 1
             /\ \A i \in 1 .. d + 1 : i <= lastDepth + 1 => (isLast \o more)[i] = isLast[i]
  <2>1. more \in Seq(S) /\ Len(more) = d - lastDepth
    BY <1>1
  <2>2. /\ isLast \o more \in Seq(S)
        /\ Len(isLast \o more) = Len(isLast) + Len(more)
        /\ \A i \in DOMAIN isLast : (isLast \o more)[i] = isLast[i]
    BY <2>1, ItemsConcat
  <2>3. DOMAIN isLast = 1 .. lastDepth + 1
    OBVIOUS
  <2> QED
    BY <2>1, <2>2, <2>3
<1>2. CASE d > lastDepth
  <2> DEFINE more == [i \in 1 .. d - lastDepth |-> FALSE]
  <2>1. ~ (d < lastDepth)
    BY <1>2
  <2>2. Adjusted(d) = isLast \o more
    BY <1>2, <2>1, Zenon DEF Adjusted
  <2> QED
    BY <1>1, <1>2, <2>2, Zenon
<1>3. CASE d < lastDepth
  <2>1. ~ (d > lastDepth)
    BY <1>3
  <2>2. Adjusted(d) = SubSeq(isLast, 1, d + 1)
    BY <1>3, <2>1, Zenon DEF Adjusted
  <2>3. /\ SubSeq(isLast, 1, d + 1) \in Seq(S)
        /\ Len(SubSeq(isLast, 1, d + 1)) = d + 1
        /\ \A i \in 1 .. d + 1 : SubSeq(isLast, 1, d + 1)[i] = isLast[i]
    BY <1>3
  <2> QED
    BY <2>2, <2>3
<1>4. CASE d = lastDepth
  <2>1. ~ (d > lastDepth) /\ ~ (d < lastDepth)
    BY <1>4
  <2>2. Adjusted(d) = isLast
    BY <2>1, Zenon DEF Adjusted
  <2> QED
    BY <1>4, <2>2
<1> QED
  BY <1>2, <1>3, <1>4

\* The answers of the iteration that is printed: the root first, then a child
\* of the last node or of one above it.
LEMMA NextAnswer ==
    ASSUME TraversalInv, Drawing, Next, yielded' # yielded
    PROVE  /\ UNCHANGED <<snap, start, order>> /\ Drawing' /\ last' # None
           /\ yielded' # <<>> /\ Last(yielded') = last'
           /\ \/ last = None /\ last' = Root
              \/ /\ last \in Present /\ last' \in Present \ {Root}
                 /\ snap.parent[last'] \in Above(last) \cup {last}
<1>1. /\ TypeOK /\ DepthInv /\ IsSnapshot(snap) /\ IsTree(snap) /\ order = "depth" /\ start = Root
      /\ Root \in Present /\ yielded \in Seq(Nodes)
  BY DEF TraversalInv, TypeOK, Drawing, IsTree, Present
<1>2. /\ IsRootedTree(snap.parent) /\ Present = DOMAIN snap.parent /\ None \notin Present
      /\ Present \subseteq Nodes
  BY <1>1, TreeFacts
<1>3. \A k \in Present : snap.parent[k] \in Present => k # Root
  BY <1>2 DEF IsRootedTree
<1>4. Sub(start) \subseteq Present
  BY <1>1, <1>2, SubtreeFacts DEF Sub
<1>5. ASSUME NEW n \in Present, Yield(n)
      PROVE  /\ UNCHANGED <<snap, start, order>> /\ Drawing' /\ last' = n /\ last' # None
             /\ yielded' # <<>> /\ Last(yielded') = last'
  <2>1. yielded' # <<>> /\ yielded'[Len(yielded')] = n
    BY <1>1, <1>2, <1>5 DEF Yield
  <2> QED
    BY <1>1, <1>2, <1>5, <2>1 DEF Yield, Drawing, Last
<1>6. CASE Begin
  BY <1>1, <1>5, <1>6 DEF Begin
<1>7. CASE ToFirstChild
  <2>1. last \in Present /\ last \in Sub(start) /\ snap.children[last] # <<>>
    BY <1>1, <1>2, <1>7 DEF ToFirstChild, DepthInv
  <2>2. 1 \in DOMAIN snap.children[last]
    BY <1>1, <2>1, EarlierThanFirstChild
  <2>3. snap.children[last][1] \in Present /\ snap.parent[snap.children[last][1]] = last
    BY <1>1, <2>1, <2>2, TreeFacts
  <2>4. Yield(snap.children[last][1])
    BY <1>7 DEF ToFirstChild
  <2> QED
    BY <1>3, <1>5, <2>1, <2>3, <2>4
<1>8. CASE ToNextSibling
  <2> DEFINE p == snap.parent[current]
  <2>1. current # None /\ current # start /\ last \in Sub(current) /\ current \in Sub(start)
    BY <1>1, <1>8 DEF ToNextSibling, Climbing, DepthInv
  <2>2. PICK i \in Places : i + 1 <= Len(snap.children[p]) /\ Yield(snap.children[p][i + 1])
    BY <1>8 DEF ToNextSibling
  <2>3. p \in Sub(start) /\ i \in DOMAIN snap.children[p] /\ snap.children[p][i] = current
    BY <1>1, <2>1, ClimbFacts
  <2>4. i + 1 \in DOMAIN snap.children[p]
    BY <1>1, <2>2, <2>3, EarlierThanSibling
  <2>5. snap.children[p][i + 1] \in Present /\ snap.parent[snap.children[p][i + 1]] = p /\ p \in Present
    BY <1>1, <1>4, <2>3, <2>4, TreeFacts
  <2>6. current \in Present /\ last \in Present
    BY <1>2, <1>4, <2>1, SubtreeFacts DEF Sub
  <2>7. last \in Sub(p) /\ p # last
    <3>1. current # Root
      BY <1>1, <2>1
    <3>2. p \notin Sub(current)
      BY <1>2, <2>6, <3>1, ParentNotInSubtree DEF Sub, IsRootedTree
    <3>3. current \in Sub(p)
      BY <1>2, <2>5, <2>6, SubtreeFacts DEF Sub
    <3> QED
      BY <1>2, <2>1, <2>5, <3>2, <3>3, SubtreeTransitive DEF Sub
  <2>8. p \in Above(last)
    BY <2>5, <2>7 DEF Above, Sub
  <2> HIDE DEF p
  <2> QED
    BY <1>3, <1>5, <2>2, <2>5, <2>6, <2>8
<1>9. ~ (PopFront \/ NothingQueued \/ ToClimb \/ StartMissing \/ BackAtStart \/ ToParent \/ Exhausted)
  BY <1>1 DEF PopFront, NothingQueued, ToClimb, StartMissing, BackAtStart, ToParent, Exhausted,
     GoTo, End, vars
<1> QED
  BY <1>6, <1>7, <1>8, <1>9 DEF Next

\* Nothing is above the root.
LEMMA RootIsTop ==
    ASSUME IsSnapshot(snap), IsTree(snap)
    PROVE  Above(Root) = {} /\ Depth(Root) = 0
<1>1. Above(Root) = {}
  BY TreeFacts, RootNotInSubtree DEF IsRootedTree, Above
<1> QED
  BY <1>1, FS_EmptySet DEF Depth

\* The vector has the entries of the last node and of those above it.
Drawn(n) ==
    /\ lastDepth = Depth(n) /\ Len(isLast) = Depth(n) + 1
    /\ \A m \in (Above(n) \cup {n}) \ {Root} : isLast[Depth(m) + 1] = IsLastChild(m)

\* DrawsTheTree says nothing of last_depth, by which the vector is adjusted,
\* nor of the vector before the first line.
DrawInv ==
    Drawing =>
        /\ isLast \in Seq(BOOLEAN)
        /\ yielded = <<>> => lastDepth = 0 /\ Len(isLast) = 1
        /\ yielded # <<>> => last # None /\ Last(yielded) = last /\ Drawn(last)

\* A node is drawn when the last was one from which the iteration may come.
LEMMA DrawKeeps ==
    ASSUME IsSnapshot(snap), IsTree(snap), isLast \in Seq(BOOLEAN),
           NEW l \in Present, Drawn(l), NEW n \in Present \ {Root},
           snap.parent[n] \in Above(l) \cup {l}, Draw(n), snap' = snap
    PROVE  isLast' \in Seq(BOOLEAN) /\ Drawn(n)'
<1> DEFINE p == snap.parent[n]
           a == Adjusted(Depth(n))
<1>1. p \in Present
  BY DEF Above
<1>2. /\ Depth(p) \in Nat /\ Depth(n) = Depth(p) + 1 /\ Above(n) = Above(p) \cup {p}
  BY <1>1, DepthOfChild
<1>3. Depth(l) \in Nat /\ Depth(p) <= Depth(l)
  BY <1>2, DepthBelow
<1>4. \A m \in Above(n) : m \in Above(l) \cup {l} /\ Depth(m) \in Nat /\ Depth(m) <= Depth(p)
  <2> SUFFICES ASSUME NEW m \in Above(n)
               PROVE  m \in Above(l) \cup {l} /\ Depth(m) \in Nat /\ Depth(m) <= Depth(p)
    OBVIOUS
  <2>1. Depth(m) \in Nat /\ Depth(m) <= Depth(p)
    BY <1>1, <1>2, DepthBelow
  <2>2. ASSUME m \in Above(p), p \in Above(l)
        PROVE  m \in Above(l)
    <3>1. /\ IsRootedTree(snap.parent) /\ Present = DOMAIN snap.parent
          /\ m \in Present /\ p \in Sub(m) /\ l \in Sub(p)
      BY <2>2, TreeFacts DEF Above, Sub
    <3>2. l \in Sub(m)
      BY <3>1, SubtreeTransitive DEF Sub
    <3>3. m # l
      BY <1>2, <2>2, DepthBelow
    <3> QED
      BY <3>1, <3>2, <3>3 DEF Above, Sub
  <2> QED
    BY <1>2, <2>1, <2>2
<1>5. lastDepth = Depth(l) /\ Len(isLast) = lastDepth + 1 /\ lastDepth \in Nat /\ Depth(n) \in Nat
  BY <1>2, <1>3 DEF Drawn
<1>6. /\ a \in Seq(BOOLEAN) /\ Len(a) = Depth(n) + 1
      /\ \A i \in 1 .. Depth(n) + 1 : i <= lastDepth + 1 => a[i] = isLast[i]
  <2>1. FALSE \in BOOLEAN
    OBVIOUS
  <2> QED
    BY <1>5, <2>1, AdjustedFacts, Zenon
<1>7. isLast' = [a EXCEPT ![Depth(n) + 1] = IsLastChild(n)] /\ lastDepth' = Depth(n)
  BY DEF Draw
<1>8. IsLastChild(n) \in BOOLEAN
  BY DEF IsLastChild
<1>9. \A m \in Above(n) \ {Root} : a[Depth(m) + 1] = IsLastChild(m)
  <2> SUFFICES ASSUME NEW m \in Above(n) \ {Root}
               PROVE  a[Depth(m) + 1] = IsLastChild(m)
    OBVIOUS
  <2>1. isLast[Depth(m) + 1] = IsLastChild(m)
    BY <1>4 DEF Drawn
  <2>2. Depth(m) + 1 \in 1 .. Depth(n) + 1 /\ Depth(m) + 1 <= lastDepth + 1
    BY <1>2, <1>3, <1>4, <1>5
  <2> QED
    BY <1>6, <2>1, <2>2
<1> HIDE DEF a, p
<1>10. /\ isLast' \in Seq(BOOLEAN) /\ Len(isLast') = Depth(n) + 1
       /\ isLast'[Depth(n) + 1] = IsLastChild(n)
       /\ \A i \in 1 .. Depth(n) : isLast'[i] = a[i]
  BY <1>2, <1>6, <1>7, <1>8
<1>11. \A m \in (Above(n) \cup {n}) \ {Root} : isLast'[Depth(m) + 1] = IsLastChild(m)
  <2> SUFFICES ASSUME NEW m \in Above(n) \ {Root}
               PROVE  isLast'[Depth(m) + 1] = IsLastChild(m)
    BY <1>10
  <2>1. Depth(m) + 1 \in 1 .. Depth(n)
    BY <1>2, <1>4
  <2> QED
    BY <1>9, <1>10, <2>1
<1>12. /\ \A m : Depth(m)' = Depth(m) /\ Above(m)' = Above(m)
       /\ \A m : IsLastChild(m)' = IsLastChild(m)
  BY DEF Depth, Above, Present, IsLastChild
<1> QED
  BY <1>7, <1>10, <1>11, <1>12 DEF Drawn

\* The printed lines are those of the tree: each has an entry for its depth and
\* for every depth above it, and each entry is that of the ancestor there.
THEOREM AlwaysDrawsTheTree == DisplaySpec => []DrawsTheTree
<1>1. DisplayInit => DrawInv
  BY DEF DisplayInit, Init, DrawInv
<1>2. TraversalInv /\ DrawInv /\ [DisplayNext]_displayVars => DrawInv'
  <2> SUFFICES ASSUME TraversalInv, DrawInv, [DisplayNext]_displayVars, Drawing'
               PROVE  DrawInv'
    BY DEF DrawInv
  <2>1. UNCHANGED <<snap, start, order>> /\ [Next]_vars
    BY DEF DisplayNext, displayVars, Next, PopFront, NothingQueued, Begin, ToFirstChild, ToClimb,
       StartMissing, BackAtStart, ToNextSibling, ToParent, Exhausted, Yield, GoTo, End, vars
  <2>2. Drawing /\ IsSnapshot(snap) /\ IsTree(snap) /\ isLast \in Seq(BOOLEAN)
    BY <2>1 DEF Drawing, TraversalInv, TypeOK, DrawInv
  <2>3. CASE yielded' = yielded
    <3>1. UNCHANGED <<lastDepth, isLast>>
      BY <2>3 DEF DisplayNext, displayVars
    <3>2. last' = last
      <4>1. yielded \in Seq(Nodes)
        BY DEF TraversalInv, TypeOK
      <4>2. \A n : ~ Yield(n)
        <5> SUFFICES ASSUME NEW n, Yield(n) PROVE FALSE
          OBVIOUS
        <5>1. yielded = Append(yielded, n)
          BY <2>3 DEF Yield
        <5>2. Len(yielded) \in Nat /\ Len(Append(yielded, n)) = Len(yielded) + 1
          BY <4>1
        <5> QED
          BY <5>1, <5>2
      <4> QED
        BY <2>1, <4>2 DEF Next, PopFront, NothingQueued, Begin, ToFirstChild, ToClimb,
           StartMissing, BackAtStart, ToNextSibling, ToParent, Exhausted, GoTo, End, vars
    <3>3. Drawn(last)' = Drawn(last)
      BY <2>1, <3>1, <3>2 DEF Drawn, Depth, Above, Present, IsLastChild
    <3> QED
      BY <2>2, <2>3, <3>1, <3>2, <3>3 DEF DrawInv, Last
  <2>4. CASE yielded' # yielded
    <3>1. Next /\ Draw(Last(yielded'))
      BY <2>2, <2>4 DEF DisplayNext, displayVars, vars
    <3>2. /\ last' # None /\ yielded' # <<>> /\ Last(yielded') = last'
          /\ \/ last = None /\ last' = Root
             \/ /\ last \in Present /\ last' \in Present \ {Root}
                /\ snap.parent[last'] \in Above(last) \cup {last}
      BY <2>2, <2>4, <3>1, NextAnswer
    <3>3. Root \in Present /\ start = Root /\ order = "depth" /\ None \notin Present
      BY <2>2, TreeFacts DEF Drawing, IsTree, Present
    <3>4. PICK n : n = last'
      OBVIOUS
    <3>5. Draw(n)
      BY <3>1, <3>2, <3>4
    <3>6. ASSUME last = None, n = Root
          PROVE  isLast' \in Seq(BOOLEAN) /\ Drawn(n)'
      <4>1. yielded = <<>>
        BY <2>2, <3>3, <3>6 DEF TraversalInv, DepthInv
      <4>2. Depth(Root) = 0 /\ Above(Root) = {}
        BY <2>2, RootIsTop
      <4>3. /\ Adjusted(0) \in Seq(BOOLEAN) /\ Len(Adjusted(0)) = 1
        <5>1. lastDepth = 0 /\ Len(isLast) = lastDepth + 1 /\ lastDepth \in Nat /\ 0 \in Nat
          BY <2>2, <4>1 DEF DrawInv
        <5>2. FALSE \in BOOLEAN /\ Len(Adjusted(0)) = 0 + 1 /\ Adjusted(0) \in Seq(BOOLEAN)
          BY <2>2, <5>1, AdjustedFacts, Zenon
        <5> QED
          BY <5>2
      <4>4. isLast' = Adjusted(0) /\ lastDepth' = 0
        BY <3>5, <3>6, <4>2 DEF Draw
      <4>5. Depth(Root)' = 0 /\ Above(Root)' = {}
        BY <2>1, <4>2 DEF Depth, Above, Present
      <4>6. isLast' \in Seq(BOOLEAN) /\ Drawn(Root)'
        BY <4>3, <4>4, <4>5 DEF Drawn
      <4> QED
        BY <3>6, <4>6
    <3>7. ASSUME last \in Present, n \in Present \ {Root},
                 snap.parent[n] \in Above(last) \cup {last}
          PROVE  isLast' \in Seq(BOOLEAN) /\ Drawn(n)'
      <4>1. Drawn(last)
        BY <2>2, <3>3, <3>7 DEF TraversalInv, DepthInv, DrawInv
      <4> QED
        BY <2>1, <2>2, <3>5, <3>7, <4>1, DrawKeeps
    <3>8. isLast' \in Seq(BOOLEAN) /\ Drawn(n)'
      BY <3>2, <3>4, <3>6, <3>7
    <3>9. Drawn(last)'
      BY <3>4, <3>8 DEF Drawn, Depth, Above, Present, IsLastChild
    <3> QED
      BY <3>2, <3>8, <3>9 DEF DrawInv, Last
  <2> QED
    BY <2>3, <2>4
<1>3. TraversalInv /\ DrawInv => DrawsTheTree
  BY DEF DrawInv, Drawn, DrawsTheTree
<1>4. DisplayInit => Init
  BY DEF DisplayInit
<1>5. [DisplayNext]_displayVars => [Next]_vars
  BY DEF DisplayNext, displayVars
<1> QED
  BY <1>1, <1>2, <1>3, <1>4, <1>5, TraversalInvariant, PTL DEF DisplaySpec
=============================================================================
