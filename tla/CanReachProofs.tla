--------------------------- MODULE CanReachProofs ---------------------------
(* can_reach is right for every set of ids and every parent function, and  *)
(* every iteration of its loop brings it nearer to its end.                *)
EXTENDS CanReach, HierarchyProofs

-----------------------------------------------------------------------------
(* Ancestors                                                               *)

\* A set that contains, with a node, its parent.
UpClosed(p, S) == \A k \in S : k \in DOMAIN p \ {Root} => p[k] \in S

\* The proper ancestors of a node: what every such set with its parent holds.
Above(p, n) ==
    {m \in Nodes : \A S \in SUBSET Nodes : p[n] \in S /\ UpClosed(p, S) => m \in S}

\* The parent functions can_reach is called with.
IsParents(p) ==
    /\ Root \in DOMAIN p /\ DOMAIN p \subseteq Nodes
    /\ p[Root] = None
    /\ \A n \in DOMAIN p \ {Root} : p[n] \in Nodes

\* The ancestors of a node are its parent and the ancestors of its parent.
LEMMA AboveUnfolds ==
    ASSUME NEW p, IsParents(p), NEW n \in DOMAIN p \ {Root}
    PROVE  /\ p[n] \in Above(p, n) /\ UpClosed(p, Above(p, n))
           /\ p[n] \in DOMAIN p \ {Root} => Above(p, n) \subseteq {p[n]} \cup Above(p, p[n])
<1>1. p[n] \in Above(p, n) /\ UpClosed(p, Above(p, n))
  BY DEF Above, UpClosed, IsParents
<1>2. ASSUME p[n] \in DOMAIN p \ {Root}
      PROVE  Above(p, n) \subseteq {p[n]} \cup Above(p, p[n])
  <2> DEFINE S == {p[n]} \cup Above(p, p[n])
  <2>1. /\ p[p[n]] \in Above(p, p[n])
        /\ UpClosed(p, Above(p, p[n]))
        /\ S \in SUBSET Nodes
    BY <1>2 DEF Above, UpClosed, IsParents
  <2>2. UpClosed(p, S)
    BY <2>1 DEF UpClosed
  <2> QED
    BY <2>1, <2>2 DEF Above
<1> QED
  BY <1>1, <1>2

\* A node that is its own ancestor does not lead to the root.
LEMMA CycleNotAttached ==
    ASSUME NEW p, IsParents(p), NEW n \in DOMAIN p \ {Root}, n \in Above(p, n)
    PROVE  n \notin Attached(p)
<1> DEFINE T == {k \in Attached(p) : k = Root \/ k \notin Above(p, k)}
<1>1. Closed(p, Attached(p)) /\ Attached(p) \subseteq DOMAIN p
  BY AttachedIsClosed DEF Attached, IsParents
<1>2. ASSUME NEW k \in DOMAIN p, p[k] \in T
      PROVE  k \in T
  <2>1. k \in Attached(p)
    BY <1>1, <1>2 DEF Closed
  <2>2. CASE k # Root /\ p[k] = Root
    <3>1. {Root} \in SUBSET Nodes /\ UpClosed(p, {Root})
      BY DEF UpClosed, Nodes
    <3>2. k \notin Above(p, k)
      BY <2>2, <3>1 DEF Above
    <3> QED
      BY <2>1, <3>2
  <2>3. CASE k # Root /\ p[k] # Root
    <3>1. p[k] \in DOMAIN p \ {Root} /\ p[k] \notin Above(p, p[k])
      BY <1>1, <1>2, <2>3
    <3>2. SUFFICES ASSUME k \in Above(p, k) PROVE FALSE
      BY <2>1
    <3>3. k \in {p[k]} \cup Above(p, p[k])
      BY <2>3, <3>1, <3>2, AboveUnfolds
    <3>4. p[k] \in Above(p, p[k])
      <4>1. CASE k = p[k]
        BY <3>2, <4>1
      <4>2. CASE k \in Above(p, p[k])
        BY <2>3, <3>1, <4>2, AboveUnfolds DEF UpClosed
      <4> QED
        BY <3>3, <4>1, <4>2
    <3> QED
      BY <3>1, <3>4
  <2> QED
    BY <2>1, <2>2, <2>3
<1>3. Closed(p, T) /\ T \in SUBSET DOMAIN p
  <2>1. Root \in T
    BY <1>1 DEF Closed
  <2> QED
    BY <1>1, <1>2, <2>1 DEF Closed
<1>4. Attached(p) \subseteq T
  BY <1>3, AttachedIsLeast
<1> QED
  BY <1>4

\* A node other than the root leads to it exactly when its parent does.
LEMMA AttachedIffParent ==
    ASSUME NEW p, IsParents(p), NEW n \in DOMAIN p \ {Root}
    PROVE  n \in Attached(p) <=> p[n] \in Attached(p)
BY AttachedParent, AttachedIsClosed DEF Closed, IsParents

-----------------------------------------------------------------------------
(* The search                                                              *)

\* While the search goes on, the hare is a proper ancestor of the tortoise and
\* leads to the root exactly when the start does. They are at one node only at
\* the start, of a node that is its own parent.
Inv ==
    /\ TypeOK
    /\ AnswerIsRight
    /\ answer = "searching" /\ hare = None => start = Root
    /\ answer = "searching" /\ hare # None =>
        /\ tortoise \in DOMAIN parent \ {Root}
        /\ hare \in Above(parent, tortoise)
        /\ start \in Attached(parent) <=> hare \in Attached(parent)
        /\ hare = tortoise => parent[tortoise] = tortoise

\* The search starts with the hare one node above the tortoise.
LEMMA InitInv == Init => Inv
<1> SUFFICES ASSUME Init PROVE Inv
  OBVIOUS
<1>1. TypeOK
  <2>1. PICK S \in SUBSET Ids : parent \in ParentsSet(S)
    BY DEF Init
  <2>2. /\ DOMAIN parent = S \cup {Root}
        /\ parent \in [S \cup {Root} -> Nodes \cup {None}]
        /\ \A n \in S \cup {Root} : parent[n] = None <=> n = Root
    BY <2>1 DEF ParentsSet
  <2>3. S \cup {Root} \subseteq Nodes
    BY DEF Nodes
  <2> QED
    BY <2>2, <2>3 DEF Init, TypeOK, ParentOf
<1>2. IsParents(parent)
  BY <1>1 DEF TypeOK, IsParents
<1>3. hare = parent[start] /\ start = tortoise /\ (hare = None => start = Root)
  BY <1>1, IdsAssumption DEF Init, TypeOK, ParentOf, None, Nodes, Root
<1>4. hare # None => start # Root
  BY <1>1, <1>3 DEF TypeOK
<1>5. hare # None => /\ hare \in Above(parent, tortoise)
                     /\ start \in Attached(parent) <=> hare \in Attached(parent)
  BY <1>1, <1>2, <1>3, <1>4, AboveUnfolds, AttachedIffParent DEF TypeOK
<1> QED
  BY <1>1, <1>3, <1>4, <1>5 DEF Inv, AnswerIsRight, Init, TypeOK

\* Where an iteration of the loop leads, when the hare finds neither the root nor
\* an end.
LEMMA HopFacts ==
    ASSUME Inv, Hop
    PROVE  /\ IsParents(parent) /\ parent' = parent
           /\ hare \in DOMAIN parent \ {Root} /\ parent[hare] \in DOMAIN parent \ {Root}
           /\ hare' = parent[parent[hare]] /\ hare' \in Nodes \ {Root}
           /\ tortoise \in DOMAIN parent \ {Root} /\ hare \in Above(parent, tortoise)
           /\ parent[tortoise] \in DOMAIN parent \ {Root}
           /\ Above(parent, tortoise) \subseteq
                 {parent[tortoise]} \cup Above(parent, parent[tortoise])
           /\ tortoise' = parent[tortoise]
<1> DEFINE one == parent[hare]
           two == parent[one]
           fol == parent[tortoise]
<1>1. IsParents(parent) /\ None \notin Nodes /\ None \notin DOMAIN parent
  BY IdsAssumption DEF Inv, TypeOK, IsParents, None, Nodes, Root
<1>2. /\ answer = "searching" /\ hare \in Nodes \ {Root} /\ hare # None
      /\ tortoise \in DOMAIN parent \ {Root} /\ hare \in Above(parent, tortoise)
      /\ start \in Attached(parent) <=> hare \in Attached(parent)
  BY <1>1 DEF Inv, Hop, Climbing, TypeOK
<1>3. /\ hare \in DOMAIN parent \ {Root} /\ one \in DOMAIN parent \ {Root}
      /\ two \in Nodes \ {Root}
      /\ hare' = two
  BY <1>1, <1>2 DEF Hop, RootAhead, OneUp, TwoUp, ParentOf, IsParents
<1>4. fol \in DOMAIN parent \ {Root} /\ Above(parent, tortoise) \subseteq {fol} \cup Above(parent, fol)
  <2>1. CASE fol = Root
    <3>1. {Root} \in SUBSET Nodes /\ UpClosed(parent, {Root})
      BY DEF UpClosed, Nodes
    <3>2. hare = Root
      BY <1>2, <2>1, <3>1 DEF Above
    <3> QED
      BY <1>2, <3>2
  <2>2. CASE fol \notin DOMAIN parent
    <3>1. fol \in Nodes /\ {fol} \in SUBSET Nodes /\ UpClosed(parent, {fol})
      BY <1>1, <1>2, <2>2 DEF UpClosed, IsParents
    <3>2. hare = fol
      BY <1>2, <3>1 DEF Above
    <3> QED
      BY <1>3, <2>2, <3>2
  <2> QED
    BY <1>1, <1>2, <2>1, <2>2, AboveUnfolds
<1>5. tortoise' = fol
  BY <1>1, <1>2, <1>4 DEF Hop, TortoiseFollows, Follow, ParentOf
<1> QED
  BY <1>1, <1>2, <1>3, <1>4, <1>5 DEF Hop

\* One iteration of the loop: the hare is still above the tortoise, and where
\* they meet there is a cycle below the hare.
LEMMA HopInv ==
    ASSUME Inv, Hop
    PROVE  Inv'
<1> DEFINE one == parent[hare]
           two == parent[one]
           fol == parent[tortoise]
<1>1. IsParents(parent) /\ None \notin Nodes /\ None \notin DOMAIN parent
  BY IdsAssumption DEF Inv, TypeOK, IsParents, None, Nodes, Root
<1>2. /\ answer = "searching" /\ hare # None
      /\ start \in Attached(parent) <=> hare \in Attached(parent)
  BY <1>1 DEF Inv, Hop, Climbing, TypeOK
<1>3. /\ hare \in DOMAIN parent \ {Root} /\ one \in DOMAIN parent \ {Root}
      /\ two \in Nodes \ {Root} /\ hare' = two
      /\ tortoise \in DOMAIN parent \ {Root} /\ hare \in Above(parent, tortoise)
  BY HopFacts
<1>4. /\ fol \in DOMAIN parent \ {Root} /\ tortoise' = fol
      /\ Above(parent, tortoise) \subseteq {fol} \cup Above(parent, fol)
  BY HopFacts
<1>5. two \in Above(parent, fol)
  <2>1. one \in Above(parent, fol)
    BY <1>1, <1>2, <1>3, <1>4, AboveUnfolds DEF UpClosed
  <2> QED
    BY <1>1, <1>3, <1>4, <2>1, AboveUnfolds DEF UpClosed
<1>6. start \in Attached(parent) <=> two \in Attached(parent)
  BY <1>1, <1>2, <1>3, AttachedIffParent
<1>7. fol = two => two \notin Attached(parent)
  BY <1>1, <1>3, <1>4, <1>5, CycleNotAttached
<1>8. /\ parent' = parent /\ start' = start
      /\ answer' = IF fol = two THEN "no" ELSE "searching"
  BY <1>3, <1>4 DEF Hop
<1>9. TypeOK' /\ two # None /\ fol \in Nodes
  BY <1>1, <1>3, <1>4, <1>8 DEF Inv, TypeOK
<1> QED
  BY <1>3, <1>4, <1>5, <1>6, <1>7, <1>8, <1>9 DEF Inv, AnswerIsRight

\* The cases in which the function returns without hopping on.
LEMMA ReturnInv ==
    ASSUME Inv, NoParent \/ AtOnce \/ HareArrives \/ HareFalls
    PROVE  Inv'
<1>1. /\ IsParents(parent) /\ None \notin Nodes /\ None \notin DOMAIN parent
      /\ Root \in Attached(parent)
  BY IdsAssumption, AttachedIsClosed DEF Inv, TypeOK, IsParents, None, Nodes, Root, Closed
<1>2. /\ parent' = parent /\ start' = start /\ tortoise' = tortoise /\ hare' = hare
      /\ answer = "searching" /\ answer' \in {"yes", "no"}
  BY DEF NoParent, AtOnce, HareArrives, HareFalls, Answer, Climbing
<1>3. /\ answer' = "yes" => start \in Attached(parent)
      /\ answer' = "no"  => start \notin Attached(parent)
  <2>1. CASE NoParent
    BY <1>1, <2>1 DEF NoParent, Inv, Answer
  <2>2. CASE AtOnce
    <3>1. Root # None
      BY DEF Root, None
    <3> QED
      BY <1>1, <2>2, <3>1 DEF AtOnce, Inv, Answer
  <2>3. CASE HareArrives \/ HareFalls
    <3>1. /\ hare \in Nodes \ {Root} /\ hare # None
          /\ start \in Attached(parent) <=> hare \in Attached(parent)
      BY <2>3 DEF Inv, TypeOK, HareArrives, HareFalls, Climbing
    <3>2. ASSUME NEW n \in DOMAIN parent \ {Root}
          PROVE  n \in Attached(parent) <=> parent[n] \in Attached(parent)
      BY <1>1, AttachedIffParent
    <3>3. CASE hare \notin DOMAIN parent
      <4>1. HareFalls /\ hare \notin Attached(parent)
        BY <1>1, <2>3, <3>3 DEF HareArrives, RootAhead, OneUp, TwoUp, ParentOf, Attached, Root, None
      <4> QED
        BY <3>1, <4>1 DEF HareFalls, Answer
    <3>4. CASE hare \in DOMAIN parent /\ parent[hare] \notin DOMAIN parent
      <4>1. HareFalls /\ parent[hare] \notin Attached(parent)
        BY <1>1, <2>3, <3>4 DEF HareArrives, RootAhead, OneUp, TwoUp, ParentOf, Attached, Root, None
      <4> QED
        BY <3>1, <3>2, <3>4, <4>1 DEF HareFalls, Answer
    <3>5. CASE hare \in DOMAIN parent /\ parent[hare] = Root
      <4>1. HareArrives
        BY <2>3, <3>5 DEF HareFalls, RootAhead, OneUp, ParentOf
      <4> QED
        BY <1>1, <3>1, <3>2, <3>5, <4>1 DEF HareArrives, Answer
    <3>6. CASE hare \in DOMAIN parent /\ parent[hare] \in DOMAIN parent \ {Root}
      <4>1. OneUp = parent[hare] /\ TwoUp = parent[parent[hare]] /\ TwoUp # None
        BY <1>1, <3>6 DEF OneUp, TwoUp, ParentOf, IsParents
      <4>2. HareArrives /\ TwoUp = Root
        BY <2>3, <3>6, <4>1 DEF HareFalls, HareArrives, RootAhead
      <4>3. parent[parent[hare]] \in Attached(parent) /\ hare \in DOMAIN parent \ {Root}
        BY <1>1, <3>1, <3>6, <4>1, <4>2
      <4>4. start \in Attached(parent)
        BY <3>1, <3>2, <3>6, <4>3
      <4> QED
        BY <4>2, <4>4 DEF HareArrives, Answer
    <3> QED
      BY <3>3, <3>4, <3>5, <3>6
  <2> QED
    BY <2>1, <2>2, <2>3
<1> QED
  BY <1>2, <1>3 DEF Inv, TypeOK, AnswerIsRight

\* Inv holds in every state of a search.
LEMMA InvInvariant == Spec => []Inv
<1>1. Inv /\ [Next]_vars => Inv'
  <2> SUFFICES ASSUME Inv, [Next]_vars PROVE Inv'
    OBVIOUS
  <2>1. CASE Returned \/ UNCHANGED vars
    BY <2>1 DEF Returned, vars, Inv, TypeOK, AnswerIsRight
  <2> QED
    BY <2>1, HopInv, ReturnInv DEF Next
<1> QED
  BY InitInv, <1>1, PTL DEF Spec

\* Type correctness of the search: the tortoise never leaves the nodes, and the
\* hare is at a node or has fallen off.
THEOREM CanReachTypeCorrect == Spec => []TypeOK
<1>1. Inv => TypeOK
  BY DEF Inv
<1> QED
  BY <1>1, InvInvariant, PTL

\* The answer of can_reach is right: it says that a node leads to the root if
\* and only if it does, whatever the parents are.
THEOREM CanReachIsRight == Spec => []AnswerIsRight
<1>1. Inv => AnswerIsRight
  BY DEF Inv
<1> QED
  BY <1>1, InvInvariant, PTL

-----------------------------------------------------------------------------
(* The search comes nearer to its end                                      *)

\* The way up from a node contains the node and, except at its stop, with a
\* node its parent.
LEMMA UpwardIsClosed ==
    ASSUME IsParents(parent), NEW x \in Nodes, NEW stop
    PROVE  /\ Upward(x, stop) \subseteq Nodes /\ x \in Upward(x, stop)
           /\ \A k \in Upward(x, stop) \ {stop} :
                 ParentOf(k) \in Upward(x, stop) \cup {None}
<1>1. \A k \in Nodes : ParentOf(k) \in Nodes \cup {None}
  BY DEF IsParents, ParentOf
<1> QED
  BY <1>1 DEF Upward

\* It is the least such set.
LEMMA UpwardIsLeast ==
    ASSUME NEW x, NEW stop, NEW S \in SUBSET Nodes, x \in S,
           \A k \in S \ {stop} : ParentOf(k) \in S \cup {None}
    PROVE  Upward(x, stop) \subseteq S
BY DEF Upward

\* The way up from a node is the node and the way up from its parent; it ends at
\* its stop.
LEMMA UpwardUnfolds ==
    ASSUME IsParents(parent), NEW x \in Nodes, NEW stop
    PROVE  /\ Upward(x, x) = {x}
           /\ ParentOf(x) = None => Upward(x, stop) = {x}
           /\ ParentOf(x) # None => Upward(x, stop) \subseteq {x} \cup Upward(ParentOf(x), stop)
           /\ ParentOf(x) # None /\ x # stop => Upward(ParentOf(x), stop) \subseteq Upward(x, stop)
<1>1. Upward(x, x) = {x}
  <2>1. /\ {x} \in SUBSET Nodes /\ x \in {x}
        /\ \A k \in {x} \ {x} : ParentOf(k) \in {x} \cup {None}
    OBVIOUS
  <2>2. Upward(x, x) \subseteq {x}
    BY <2>1, UpwardIsLeast
  <2> QED
    BY <2>2, UpwardIsClosed
<1>2. ASSUME ParentOf(x) = None PROVE Upward(x, stop) = {x}
  <2>1. /\ {x} \in SUBSET Nodes /\ x \in {x}
        /\ \A k \in {x} \ {stop} : ParentOf(k) \in {x} \cup {None}
    BY <1>2
  <2>2. Upward(x, stop) \subseteq {x}
    BY <2>1, UpwardIsLeast
  <2> QED
    BY <2>2, UpwardIsClosed
<1>3. ASSUME ParentOf(x) # None
      PROVE  Upward(x, stop) \subseteq {x} \cup Upward(ParentOf(x), stop)
  <2> DEFINE S == {x} \cup Upward(ParentOf(x), stop)
  <2>1. ParentOf(x) \in Nodes
    BY <1>3 DEF ParentOf, IsParents
  <2>2. /\ S \in SUBSET Nodes /\ x \in S
        /\ \A k \in S \ {stop} : ParentOf(k) \in S \cup {None}
    BY <2>1, UpwardIsClosed
  <2> HIDE DEF S
  <2>3. Upward(x, stop) \subseteq S
    BY <2>2, UpwardIsLeast
  <2> QED
    BY <2>3 DEF S
<1>4. ASSUME ParentOf(x) # None, x # stop
      PROVE  Upward(ParentOf(x), stop) \subseteq Upward(x, stop)
  <2>1. /\ Upward(x, stop) \subseteq Nodes /\ ParentOf(x) \in Upward(x, stop)
        /\ \A k \in Upward(x, stop) \ {stop} : ParentOf(k) \in Upward(x, stop) \cup {None}
    BY <1>4, UpwardIsClosed
  <2> QED
    BY <2>1, UpwardIsLeast
<1> QED
  BY <1>1, <1>2, <1>3, <1>4

\* On the way from a node up to the first t, the node is met but once: what is
\* left of the way from its parent is without it.
LEMMA UpwardLeaves ==
    ASSUME IsParents(parent), NEW x \in Nodes, ParentOf(x) # None,
           NEW t \in Upward(x, None), x # t
    PROVE  Upward(ParentOf(x), t) \subseteq Upward(x, t) \ {x}
<1>1. Upward(ParentOf(x), t) \subseteq Upward(x, t)
  BY UpwardUnfolds
<1>2. SUFFICES ASSUME x \in Upward(ParentOf(x), t) PROVE FALSE
  BY <1>1
<1> DEFINE W == {y \in Nodes : x \in Upward(y, t)}
<1>3. t \notin W
  BY UpwardUnfolds
<1>4. x \in W
  BY UpwardIsClosed
<1>5. ASSUME NEW y \in W, ParentOf(y) # None
      PROVE  ParentOf(y) \in W
  <2>1. ParentOf(y) \in Nodes
    BY <1>5 DEF ParentOf, IsParents
  <2>2. x \in Upward(ParentOf(y), t)
    <3>1. CASE y = x
      BY <1>2, <3>1
    <3>2. CASE y # x
      BY <1>5, <3>2, UpwardUnfolds
    <3> QED
      BY <3>1, <3>2
  <2> QED
    BY <2>1, <2>2
<1>6. Upward(x, None) \subseteq W
  BY <1>4, <1>5, UpwardIsLeast
<1> QED
  BY <1>3, <1>6

\* From every node above a node on a cycle, that node is reached again.
LEMMA CycleComesBack ==
    ASSUME IsParents(parent), NEW t \in Nodes, ParentOf(t) # None,
           t \in Upward(ParentOf(t), None), NEW x \in Upward(ParentOf(t), None)
    PROVE  t \in Upward(x, None)
<1> DEFINE Z == {y \in Nodes : t \in Upward(y, None)}
<1>1. ParentOf(t) \in Z
  BY DEF ParentOf, IsParents
<1>2. ASSUME NEW y \in Z, ParentOf(y) # None
      PROVE  ParentOf(y) \in Z
  <2>1. ParentOf(y) \in Nodes
    BY <1>2 DEF ParentOf, IsParents
  <2>2. CASE y = t
    BY <1>1, <2>2
  <2>3. CASE y # t
    BY <1>2, <2>1, <2>3, UpwardUnfolds
  <2> QED
    BY <2>2, <2>3
<1>3. Upward(ParentOf(t), None) \subseteq Z
  BY <1>1, <1>2, UpwardIsLeast
<1> QED
  BY <1>3

\* The hare is on the way up from the parent of the tortoise.
LEMMA AboveIsUpward ==
    ASSUME IsParents(parent), None \notin Nodes,
           NEW n \in DOMAIN parent \ {Root}
    PROVE  Above(parent, n) \subseteq Upward(parent[n], None)
<1>1. parent[n] \in Nodes
  BY DEF IsParents
<1>2. /\ Upward(parent[n], None) \in SUBSET Nodes
      /\ parent[n] \in Upward(parent[n], None)
      /\ UpClosed(parent, Upward(parent[n], None))
  <2>1. \A k \in DOMAIN parent \ {Root} : ParentOf(k) = parent[k] /\ parent[k] # None /\ k # None
    BY DEF ParentOf, IsParents
  <2> QED
    BY <1>1, <2>1, UpwardIsClosed DEF UpClosed
<1> QED
  BY <1>2 DEF Above

\* Ways are finite; a part of one that lacks a node is smaller.
LEMMA UpwardSize ==
    /\ \A x, stop : Cardinality(Upward(x, stop)) \in Nat
    /\ \A x, y, s, t : Upward(x, s) \subseteq Upward(y, t) =>
          Cardinality(Upward(x, s)) <= Cardinality(Upward(y, t))
    /\ \A x, y, s, t, a : Upward(x, s) \subseteq Upward(y, t) \ {a} /\ a \in Upward(y, t) =>
          Cardinality(Upward(x, s)) < Cardinality(Upward(y, t))
    /\ \A x, y, s, t, a : Upward(x, s) \subseteq Upward(y, t) \cup {a} =>
          Cardinality(Upward(x, s)) <= Cardinality(Upward(y, t)) + 1
<1>1. \A x, stop : Upward(x, stop) \subseteq Nodes
  BY DEF Upward
<1>2. \A S \in SUBSET Nodes : IsFiniteSet(S) /\ Cardinality(S) \in Nat
  BY NodesFinite, FS_Subset, FS_CardinalityType
<1>3. \A S, T \in SUBSET Nodes : S \subseteq T => Cardinality(S) <= Cardinality(T)
  BY <1>2, FS_Subset
<1>4. \A S, T \in SUBSET Nodes : \A a :
          S \subseteq T \ {a} /\ a \in T => Cardinality(S) < Cardinality(T)
  <2> SUFFICES ASSUME NEW S \in SUBSET Nodes, NEW T \in SUBSET Nodes, NEW a \in T,
                      S \subseteq T \ {a}
               PROVE  Cardinality(S) < Cardinality(T)
    OBVIOUS
  <2>1. S \subseteq T /\ S # T
    OBVIOUS
  <2>2. Cardinality(S) <= Cardinality(T) /\ Cardinality(S) # Cardinality(T)
    BY <1>2, <2>1, FS_Subset
  <2> QED
    BY <1>2, <2>2
<1>5. \A S, T \in SUBSET Nodes : \A a :
          S \subseteq T \cup {a} => Cardinality(S) <= Cardinality(T) + 1
  <2> SUFFICES ASSUME NEW S \in SUBSET Nodes, NEW T \in SUBSET Nodes, NEW a,
                      S \subseteq T \cup {a}
               PROVE  Cardinality(S) <= Cardinality(T) + 1
    OBVIOUS
  <2>1. IsFiniteSet(T \cup {a}) /\ Cardinality(T \cup {a}) <= Cardinality(T) + 1
    BY <1>2, FS_AddElement
  <2>2. Cardinality(S) <= Cardinality(T \cup {a}) /\ Cardinality(T \cup {a}) \in Nat
    BY <2>1, FS_Subset, FS_CardinalityType
  <2> QED
    BY <1>2, <2>1, <2>2
<1> QED
  BY <1>1, <1>2, <1>3, <1>4, <1>5

\* An iteration after which they have not met.
LEMMA HopProgresses ==
    ASSUME Inv, Hop, tortoise' # hare'
    PROVE  Remaining' < Remaining
<1> DEFINE t   == tortoise
           h   == hare
           fol == parent[t]
           one == parent[h]
           two == parent[one]
<1>1. IsParents(parent) /\ parent' = parent /\ None \notin Nodes
  BY HopFacts, IdsAssumption DEF None, Nodes, Root
<1>2. /\ t \in Nodes /\ fol \in Nodes /\ ParentOf(t) = fol
      /\ h \in Nodes /\ one \in Nodes /\ ParentOf(h) = one
      /\ two \in Nodes /\ ParentOf(one) = two
      /\ tortoise' = fol /\ hare' = two
  BY <1>1, HopFacts DEF ParentOf, IsParents
<1>3. h \in Upward(fol, None)
  BY <1>1, HopFacts, AboveIsUpward
<1>4. Remaining  = Cardinality(Upward(t, None)) + Cardinality(Upward(h, t))
      /\ Remaining' = Cardinality(Upward(fol, None)) + Cardinality(Upward(two, fol))
  <2>1. \A x, stop : Upward(x, stop)' = Upward(x, stop)
    BY <1>1 DEF Upward, ParentOf
  <2> QED
    BY <1>2, <2>1 DEF Remaining
<1>5. Upward(fol, None) \subseteq Upward(t, None) /\ t \in Upward(t, None)
  BY <1>1, <1>2, UpwardUnfolds, UpwardIsClosed
<1> DEFINE A == Cardinality(Upward(t, None))
           B == Cardinality(Upward(h, t))
           C == Cardinality(Upward(fol, None))
           D == Cardinality(Upward(two, fol))
<1>6. A \in Nat /\ B \in Nat /\ C \in Nat /\ D \in Nat
  BY UpwardSize
\* The tortoise is on its way to a cycle, or to where the hare falls: it leaves
\* a node behind.
<1>7. CASE t \notin Upward(fol, None)
  <2>1. C < A
    BY <1>5, <1>7, UpwardSize
  <2>2. t \notin Upward(h, t)
    <3>1. /\ Upward(fol, None) \in SUBSET Nodes
          /\ \A k \in Upward(fol, None) \ {t} :
                ParentOf(k) \in Upward(fol, None) \cup {None}
      BY <1>1, <1>2, UpwardIsClosed
    <3>2. Upward(h, t) \subseteq Upward(fol, None)
      BY <1>3, <3>1, UpwardIsLeast
    <3> QED
      BY <1>7, <3>2
  <2>3. Upward(two, fol) \subseteq Upward(h, t)
    <3>1. /\ Upward(h, t) \in SUBSET Nodes /\ h \in Upward(h, t)
          /\ \A k \in Upward(h, t) : ParentOf(k) \in Upward(h, t) \cup {None}
      BY <1>1, <1>2, <2>2, UpwardIsClosed
    <3>2. two \in Upward(h, t)
      BY <1>1, <1>2, <3>1
    <3> QED
      BY <3>1, <3>2, UpwardIsLeast
  <2>4. D <= B
    BY <2>3, UpwardSize
  <2> QED
    BY <1>4, <1>6, <2>1, <2>4
\* The tortoise is on a cycle: the hare comes one node nearer.
<1>8. CASE t \in Upward(fol, None)
  <2>1. C <= A
    BY <1>5, UpwardSize
  <2>2. h # t /\ one # t
    BY <1>1, <1>2, HopFacts DEF Inv, Hop, Climbing
  <2>3. t \in Upward(h, None) /\ t \in Upward(one, None)
    <3>1. one \in Upward(fol, None)
      BY <1>1, <1>2, <1>3, UpwardIsClosed
    <3> QED
      BY <1>1, <1>2, <1>3, <1>8, <3>1, CycleComesBack
  <2>4. Upward(one, t) \subseteq Upward(h, t) \ {h} /\ h \in Upward(h, t)
    BY <1>1, <1>2, <2>2, <2>3, UpwardLeaves, UpwardIsClosed
  <2>5. Upward(two, t) \subseteq Upward(one, t) \ {one} /\ one \in Upward(one, t)
    BY <1>1, <1>2, <2>2, <2>3, UpwardLeaves, UpwardIsClosed
  <2>6. Upward(two, fol) \subseteq Upward(two, t) \cup {fol}
    <3> DEFINE S == Upward(two, t) \cup {fol}
    <3>1. /\ S \in SUBSET Nodes /\ two \in S
          /\ \A k \in S \ {fol} : ParentOf(k) \in S \cup {None}
      BY <1>1, <1>2, UpwardIsClosed
    <3> HIDE DEF S
    <3>2. Upward(two, fol) \subseteq S
      BY <3>1, UpwardIsLeast
    <3> QED
      BY <3>2 DEF S
  <2> DEFINE E == Cardinality(Upward(one, t))
             G == Cardinality(Upward(two, t))
  <2>7. E \in Nat /\ G \in Nat /\ E < B /\ G < E /\ D <= G + 1
    BY <2>4, <2>5, <2>6, UpwardSize
  <2> QED
    BY <1>4, <1>6, <2>1, <2>7
<1> QED
  BY <1>7, <1>8

\* The search of can_reach comes nearer to its end with every iteration, in
\* graphs of any size, whether or not the start is on the cycle it leads to.
THEOREM SearchAlwaysProgresses == Spec => SearchProgresses
<1>1. Inv /\ [Next]_vars =>
        [answer = "searching" /\ answer' = "searching" => Remaining' < Remaining]_vars
  <2> SUFFICES ASSUME Inv, Next, answer = "searching", answer' = "searching"
               PROVE  Remaining' < Remaining
    OBVIOUS
  <2>1. Hop
    BY DEF Next, NoParent, AtOnce, HareArrives, HareFalls, Returned, Answer
  <2>2. tortoise' # hare'
    BY <2>1 DEF Hop
  <2> QED
    BY <2>1, <2>2, HopProgresses
<1> QED
  BY <1>1, InvInvariant, PTL DEF Spec, SearchProgresses
=============================================================================
