--------------------------- MODULE RebuildProofs ---------------------------
(* What every rebuild leaves in the cache, whatever the document holds.    *)
EXTENDS Rebuild, HierarchyProofs, SequencesExt

\* The builds of a document in the loop of reattach_nodes.
Builds(content) ==
    [parent   : [PresentIn(content) -> Nodes \cup {None}],
     edges    : [PresentIn(content) -> EdgeMap],
     detached : SUBSET DOMAIN content,
     pending  : Updates,
     ends     : {"reattach", "bad_doc"}]

\* The loop invariant: the nodes that are not detached any more lead to the
\* root, unless one was given a parent without a container.
Settled(content, b) ==
    b.ends = "reattach" =>
        \/ PresentIn(content) \ b.detached \subseteq Attached(b.parent)
        \/ \E n \in (DOMAIN content) \ b.detached : b.parent[n] \notin PresentIn(content)

\* No node has two edges of the same value.
NoTies(content) ==
    \A n \in DOMAIN content :
        \A p, q \in Parents(content[n].em) : content[n].em[p] = content[n].em[q] => p = q

\* How the edges of a build relate to the document, when carried are the
\* updates that were pending before it.
Recorded(content, carried, b) ==
    /\ b.parent[Root] = None
    /\ b.ends = "reattach" => \A n \in DOMAIN content : b.parent[n] \in MaxEdges(b.edges[n])
    /\ NoTies(content) /\ b.ends = "reattach" =>
        \A n \in DOMAIN content : MaxEdges(b.edges[n]) = {b.parent[n]}
    /\ carried = <<>> =>
        /\ \A i \in DOMAIN b.pending : b.pending[i][1] \in DOMAIN content
        /\ \A n \in DOMAIN content : b.edges[n] = Written(content[n].em, n, b.pending)

\* A build that has left so many nodes to look at, or has ended.
Left(b, k) == b.ends = "reattach" => Cardinality(b.detached) = k

\* The containers are among finitely many ids.
LEMMA ContentFacts ==
    ASSUME NEW content, IsDoc(content)
    PROVE  /\ Root \in PresentIn(content) /\ Root \notin DOMAIN content
           /\ DOMAIN content \subseteq Nat /\ IsFiniteSet(DOMAIN content)
           /\ DOMAIN content \subseteq Ids /\ PresentIn(content) \subseteq Nodes
           /\ \A n \in DOMAIN content : content[n].em \in EdgeMap /\ content[n].fi \in Nat
<1>1. IsFiniteSet(DOMAIN content)
  BY IdsAssumption, FS_Subset DEF IsDoc
<1>2. \A n \in DOMAIN content : content[n] \in Container
  BY DEF IsDoc
<1> QED
  BY <1>1, <1>2, IdsAssumption DEF IsDoc, PresentIn, Nodes, Root, Container

\* Where no edges tie there is one greatest edge.
LEMMA OnlyMaxEdge ==
    ASSUME NEW em \in EdgeMap, NEW p \in MaxEdges(em),
           \A q, r \in Parents(em) : em[q] = em[r] => q = r
    PROVE  MaxEdges(em) = {p}
<1>1. \A q \in Parents(em) : em[q] \in Nat
  BY DEF EdgeMap, Parents, NoEdge
<1>2. ASSUME NEW q \in MaxEdges(em)
      PROVE  q = p
  <2>1. q \in Parents(em) /\ p \in Parents(em) /\ em[q] <= em[p] /\ em[p] <= em[q]
    BY DEF MaxEdges
  <2>2. em[p] = em[q]
    BY <1>1, <2>1
  <2> QED
    BY <2>1, <2>2
<1> QED
  BY <1>2

\* A build starts with the nodes detached that do not lead to the root.
LEMMA StartedFacts ==
    ASSUME NEW content, IsDoc(content), NEW pending \in Updates,
           NEW b \in Started(content, pending)
    PROVE  b \in Builds(content) /\ Settled(content, b) /\ Recorded(content, pending, b)
<1>1. PICK f \in [PresentIn(content) -> Nodes \cup {None}], ends \in {"reattach", "bad_doc"} :
          /\ b = Build(content, f, pending, ends)
          /\ f[Root] = None
          /\ ends = "reattach" => \A n \in DOMAIN content : f[n] \in MaxEdges(content[n].em)
  BY DEF Started
<1>2. Attached(f) \subseteq PresentIn(content) /\ Root \in Attached(f)
  BY ContentFacts, AttachedIsClosed DEF Closed, Attached
<1> DEFINE em == [n \in PresentIn(content) |-> IF n = Root THEN NoEdges ELSE content[n].em]
<1>3. em \in [PresentIn(content) -> EdgeMap] /\ \A n \in DOMAIN content : em[n] = content[n].em
  BY ContentFacts DEF PresentIn, NoEdges, EdgeMap
<1> HIDE DEF em
<1>4. PresentIn(content) \ Attached(f) \subseteq DOMAIN content
  BY <1>2 DEF PresentIn
<1>5. /\ b.parent = f /\ b.edges = em /\ b.detached = PresentIn(content) \ Attached(f)
      /\ b.pending = pending /\ b.ends = ends
      /\ b = [parent |-> f, edges |-> em, detached |-> PresentIn(content) \ Attached(f),
              pending |-> pending, ends |-> ends]
  BY <1>1 DEF Build, em
<1>6. b \in Builds(content)
  BY <1>3, <1>4, <1>5 DEF Builds
<1>7. Recorded(content, pending, b)
  <2>1. ASSUME NoTies(content), ends = "reattach", NEW n \in DOMAIN content
        PROVE  MaxEdges(em[n]) = {f[n]}
    <3>1. content[n].em \in EdgeMap /\ f[n] \in MaxEdges(content[n].em)
      BY <1>1, <2>1, ContentFacts
    <3> QED
      BY <1>3, <2>1, <3>1, OnlyMaxEdge DEF NoTies
  <2>2. ASSUME pending = <<>>, NEW n \in DOMAIN content
        PROVE  em[n] = Written(content[n].em, n, pending)
    BY <1>3, <2>2, ContentFacts, WrittenNothing
  <2>3. pending = <<>> => DOMAIN pending = {}
    OBVIOUS
  <2>4. ends = "reattach" => \A n \in DOMAIN content : f[n] \in MaxEdges(em[n])
    BY <1>1, <1>3
  <2> QED
    BY <1>1, <1>5, <2>1, <2>2, <2>3, <2>4 DEF Recorded
<1> QED
  BY <1>2, <1>5, <1>6, <1>7 DEF Settled

\* An iteration keeps the loop invariant and is done with one more node.
LEMMA SettleFacts ==
    ASSUME NEW content, IsDoc(content), NEW carried,
           NEW b \in Builds(content), Settled(content, b), Recorded(content, carried, b),
           NEW k \in Nat, k # 0, Left(b, k), NEW c \in Settle(b)
    PROVE  /\ c \in Builds(content) /\ Settled(content, c) /\ Recorded(content, carried, c)
           /\ Left(c, k - 1)
<1>1. CASE b.ends # "reattach"
  BY <1>1 DEF Settle, Settled, Left, Builds
<1> SUFFICES ASSUME b.ends = "reattach"
             PROVE  /\ c \in Builds(content) /\ Settled(content, c) /\ Recorded(content, carried, c)
                    /\ Left(c, k - 1)
  BY <1>1
<1> DEFINE next == First(b.detached)
<1>2. /\ b.parent \in [PresentIn(content) -> Nodes \cup {None}]
      /\ b.edges \in [PresentIn(content) -> EdgeMap]
      /\ b.detached \in SUBSET DOMAIN content
      /\ b.pending \in Updates
  BY DEF Builds
<1>3. IsFiniteSet(b.detached) /\ Cardinality(b.detached) = k
  BY <1>2, ContentFacts, FS_Subset DEF Left
<1>4. next \in b.detached
  <2>1. b.detached # {} /\ b.detached \in SUBSET Nat
    BY <1>2, <1>3, ContentFacts, FS_EmptySet
  <2>2. \E n \in b.detached : \A m \in b.detached : n <= m
    BY <2>1, LeastNatural
  <2> QED
    BY <2>2 DEF First
<1>5. Cardinality(b.detached \ {next}) = k - 1
  BY <1>3, <1>4, FS_RemoveElement
<1>6. next \in DOMAIN content /\ next \in PresentIn(content) /\ next \in Ids /\ next # Root
  BY <1>2, <1>4, ContentFacts DEF PresentIn
<1> HIDE DEF next
<1>7. CASE next \in Attached(b.parent)
  <2>1. c = [b EXCEPT !.detached = @ \ {next}]
    BY <1>7 DEF Settle, next
  <2>2. /\ c.parent = b.parent /\ c.ends = "reattach"
        /\ c.edges = b.edges /\ c.pending = b.pending
        /\ c.detached = b.detached \ {next}
        /\ c \in Builds(content)
    BY <2>1 DEF Builds
  <2> QED
    BY <1>5, <1>7, <2>2 DEF Settled, Recorded, Left
<1>8. CASE next \notin Attached(b.parent) /\ MaxEdgesOutside(b.edges[next], b.detached) = {}
  <2>1. c = [b EXCEPT !.ends = "bad_doc"]
    BY <1>8 DEF Settle, next
  <2> QED
    BY <2>1 DEF Builds, Settled, Recorded, Left
<1>9. CASE next \notin Attached(b.parent) /\ MaxEdgesOutside(b.edges[next], b.detached) # {}
  <2>1. PICK p \in MaxEdgesOutside(b.edges[next], b.detached) :
            c = [b EXCEPT !.parent[next] = p,
                          !.edges[next] = AddEdge(@, p),
                          !.pending = Append(@, <<next, p, NextEdge(b.edges[next])>>),
                          !.detached = @ \ {next}]
    BY <1>9 DEF Settle, next
  <2>2. p \in Nodes /\ p \notin b.detached
    BY <2>1 DEF MaxEdgesOutside, Parents
  <2>3. b.edges[next] \in EdgeMap
    BY <1>2, <1>6
  <2>4. AddEdge(b.edges[next], p) \in EdgeMap /\ NextEdge(b.edges[next]) \in Nat
    BY <2>2, <2>3, AddEdgeIsUniqueMax
  <2>5. /\ c.parent = [b.parent EXCEPT ![next] = p]
        /\ c.edges = [b.edges EXCEPT ![next] = AddEdge(b.edges[next], p)]
        /\ c.pending = Append(b.pending, <<next, p, NextEdge(b.edges[next])>>)
        /\ c.detached = b.detached \ {next}
        /\ c.ends = "reattach"
        /\ c = [parent |-> c.parent, edges |-> c.edges, detached |-> c.detached,
                pending |-> c.pending, ends |-> c.ends]
    BY <2>1 DEF Builds
  <2>6. c.pending \in Updates
    BY <1>2, <1>6, <2>2, <2>4, <2>5, AppendProperties DEF Updates
  <2>7. /\ c.parent \in [PresentIn(content) -> Nodes \cup {None}]
        /\ c.edges \in [PresentIn(content) -> EdgeMap]
        /\ c.detached \in SUBSET DOMAIN content
    BY <1>2, <1>6, <2>2, <2>4, <2>5
  <2>8. c \in Builds(content)
    BY <2>5, <2>6, <2>7 DEF Builds
  <2>9. /\ Attached(b.parent) \subseteq Attached(c.parent)
        /\ p \in Attached(b.parent) => next \in Attached(c.parent)
    <3>1. next \in (DOMAIN b.parent) \ Attached(b.parent) /\ Root \in DOMAIN b.parent
      BY <1>2, <1>6, <1>9, ContentFacts
    <3> QED
      BY <2>5, <3>1, ReparentDetached
  <2>10. c.parent[next] = p /\ \A n \in PresentIn(content) \ {next} : c.parent[n] = b.parent[n]
    BY <1>2, <1>6, <2>5
  <2>11. Settled(content, c)
    <3>1. CASE p \notin PresentIn(content)
      BY <1>6, <2>5, <2>10, <3>1 DEF Settled
    <3>2. CASE \E n \in (DOMAIN content) \ b.detached : b.parent[n] \notin PresentIn(content)
      <4>1. PICK n \in (DOMAIN content) \ b.detached : b.parent[n] \notin PresentIn(content)
        BY <3>2
      <4>2. n \in (DOMAIN content) \ c.detached /\ c.parent[n] = b.parent[n]
        BY <1>4, <2>5, <2>10, <4>1 DEF PresentIn
      <4> QED
        BY <4>1, <4>2 DEF Settled
    <3>3. CASE p \in PresentIn(content) /\ PresentIn(content) \ b.detached \subseteq Attached(b.parent)
      BY <2>2, <2>5, <2>9, <3>3 DEF Settled
    <3> QED
      BY <3>1, <3>2, <3>3 DEF Settled
  <2>12. Recorded(content, carried, c)
    <3>1. c.edges[next] = AddEdge(b.edges[next], p)
          /\ \A n \in PresentIn(content) \ {next} : c.edges[n] = b.edges[n]
      BY <1>2, <1>6, <2>5
    <3>2. c.parent[Root] = None
      BY <1>6, <2>10, ContentFacts DEF Recorded
    <3>3. ASSUME NoTies(content), NEW n \in DOMAIN content
          PROVE  MaxEdges(c.edges[n]) = {c.parent[n]}
      <4>1. CASE n = next
        BY <2>2, <2>3, <2>10, <3>1, <4>1, AddEdgeIsUniqueMax
      <4>2. CASE n # next
        BY <2>10, <3>1, <3>3, <4>2 DEF Recorded, PresentIn
      <4> QED
        BY <4>1, <4>2
    <3>4. ASSUME carried = <<>>, NEW i \in DOMAIN c.pending
          PROVE  c.pending[i][1] \in DOMAIN content
      <4>1. /\ Len(b.pending) \in Nat /\ DOMAIN b.pending = 1 .. Len(b.pending)
            /\ DOMAIN c.pending = 1 .. Len(b.pending) + 1
        BY <1>2, <1>6, <2>2, <2>4, <2>5, AppendProperties, LenProperties DEF Updates
      <4>2. CASE i = Len(b.pending) + 1
        <5>1. c.pending[i] = <<next, p, NextEdge(b.edges[next])>>
          BY <1>2, <1>6, <2>2, <2>4, <2>5, <4>2, AppendProperties DEF Updates
        <5> QED
          BY <1>6, <5>1
      <4>3. CASE i # Len(b.pending) + 1
        <5>1. i \in DOMAIN b.pending
          BY <3>4, <4>1, <4>3
        <5>2. c.pending[i] = b.pending[i]
          BY <1>2, <1>6, <2>2, <2>4, <2>5, <4>1, <5>1, AppendProperties DEF Updates
        <5> QED
          BY <3>4, <5>1, <5>2 DEF Recorded
      <4> QED
        BY <4>2, <4>3
    <3>5. ASSUME carried = <<>>, NEW n \in DOMAIN content
          PROVE  c.edges[n] = Written(content[n].em, n, c.pending)
      <4>1. content[n].em \in EdgeMap /\ n \in Ids /\ n \in PresentIn(content)
        BY ContentFacts DEF PresentIn
      <4>2. b.edges[n] = Written(content[n].em, n, b.pending)
        BY <3>5 DEF Recorded
      <4>3. Written(content[n].em, n, c.pending) =
                IF n = next THEN [Written(content[n].em, n, b.pending) EXCEPT ![p] = NextEdge(b.edges[next])]
                            ELSE Written(content[n].em, n, b.pending)
        BY <1>2, <1>6, <2>2, <2>4, <2>5, <4>1, WrittenAppend
      <4> QED
        BY <3>1, <4>1, <4>2, <4>3 DEF AddEdge
    <3>6. ASSUME NEW n \in DOMAIN content
          PROVE  c.parent[n] \in MaxEdges(c.edges[n])
      <4>1. CASE n = next
        BY <2>2, <2>3, <2>10, <3>1, <4>1, AddEdgeIsUniqueMax
      <4>2. CASE n # next
        BY <2>10, <3>1, <4>2 DEF Recorded, PresentIn
      <4> QED
        BY <4>1, <4>2
    <3> QED
      BY <2>5, <3>2, <3>3, <3>4, <3>5, <3>6 DEF Recorded
  <2> QED
    BY <1>5, <2>5, <2>8, <2>11, <2>12 DEF Left
<1> QED
  BY <1>7, <1>8, <1>9

\* The build after an iteration that reattaches a node.
WithParent(b, n, p) ==
    [parent   |-> [b.parent EXCEPT ![n] = p],
     edges    |-> [b.edges EXCEPT ![n] = AddEdge(b.edges[n], p)],
     detached |-> b.detached \ {n},
     pending  |-> Append(b.pending, <<n, p, NextEdge(b.edges[n])>>),
     ends     |-> b.ends]

\* Reattaching the first of the detached nodes is an iteration.
LEMMA SettleReattaches ==
    ASSUME NEW content, NEW b \in Builds(content), b.ends = "reattach",
           NEW n, n = First(b.detached), n \notin Attached(b.parent),
           NEW p \in MaxEdgesOutside(b.edges[n], b.detached)
    PROVE  WithParent(b, n, p) \in Settle(b)
<1> DEFINE heads    == MaxEdgesOutside(b.edges[n], b.detached)
           after(q) == [b EXCEPT !.parent[n] = q,
                                 !.edges[n] = AddEdge(@, q),
                                 !.pending = Append(@, <<n, q, NextEdge(b.edges[n])>>),
                                 !.detached = @ \ {n}]
<1>1. heads # {}
  OBVIOUS
<1>2. Settle(b) = {after(q) : q \in heads}
  BY <1>1 DEF Settle
<1>3. after(p) = WithParent(b, n, p)
  <2> SUFFICES ASSUME NEW c, c = after(p) PROVE c = WithParent(b, n, p)
    OBVIOUS
  <2>1. /\ c.parent = [b.parent EXCEPT ![n] = p]
        /\ c.edges = [b.edges EXCEPT ![n] = AddEdge(b.edges[n], p)]
        /\ c.pending = Append(b.pending, <<n, p, NextEdge(b.edges[n])>>)
        /\ c.detached = b.detached \ {n}
        /\ c.ends = b.ends
        /\ c = [parent |-> c.parent, edges |-> c.edges, detached |-> c.detached,
                pending |-> c.pending, ends |-> c.ends]
    BY DEF Builds
  <2> QED
    BY <2>1 DEF WithParent
<1> QED
  BY <1>2, <1>3

\* The iterations of reattach_nodes: which builds there may be after each.
IsReattaching(after, b) ==
    after = [i \in 0 .. Cardinality(b.detached) |->
                IF i = 0 THEN {b} ELSE UNION {Settle(c) : c \in after[i - 1]}]

\* Where the loop is, for each number of iterations.
ReachedIn(b, k, c) == \A after : IsReattaching(after, b) => c \in after[k]

\* The iterations exist, and the loop ends after the last of them with every
\* node settled.
LEMMA ReattachedIsLast ==
    ASSUME NEW content, IsDoc(content), NEW carried,
           NEW b \in Builds(content), Settled(content, b), Recorded(content, carried, b)
    PROVE  \E after : /\ IsReattaching(after, b) /\ Reattached(b) = after[Cardinality(b.detached)]
                     /\ \A c \in Reattached(b) :
                            /\ c \in Builds(content) /\ Settled(content, c)
                            /\ Recorded(content, carried, c) /\ Left(c, 0)
<1> DEFINE N         == Cardinality(b.detached)
           States(i) == {x \in Builds(content) : /\ Settled(content, x) /\ Recorded(content, carried, x)
                                                 /\ Left(x, N - i)}
           D         == [i \in 0 .. N |-> SUBSET States(i)]
           F         == [x \in (1 .. N) \X SUBSET Builds(content) |->
                            UNION {Settle(s) : s \in x[2]}]
           Is(f)     == f = [i \in 0 .. N |-> IF i = 0 THEN {b}
                                              ELSE UNION {Settle(s) : s \in f[i - 1]}]
           after     == CHOOSE f : Is(f)
<1>1. N \in Nat /\ IsFiniteSet(b.detached)
  BY ContentFacts, FS_Subset, FS_CardinalityType DEF Builds
<1>2. \A i \in 1 .. N : \A x \in D[i - 1] : UNION {Settle(s) : s \in x} \in D[i]
  <2> SUFFICES ASSUME NEW i \in 1 .. N, NEW x \in D[i - 1], NEW s \in x, NEW t \in Settle(s)
               PROVE  t \in States(i)
    <3>1. \A i \in 1 .. N : i \in 0 .. N
      OBVIOUS
    <3> HIDE DEF States, N
    <3> QED
      BY <3>1
  <2>1. i - 1 \in 0 .. N /\ N - (i - 1) \in Nat /\ N - (i - 1) # 0 /\ N - (i - 1) - 1 = N - i
    BY <1>1
  <2>2. s \in States(i - 1)
    <3> HIDE DEF States, N
    <3> QED
      BY <2>1
  <2> HIDE DEF N
  <2> QED
    BY <2>1, <2>2, SettleFacts
<1>3. {b} \in D[0]
  <2>1. b \in States(0)
    BY <1>1 DEF Left
  <2> HIDE DEF States, N
  <2> QED
    BY <1>1, <2>1
<1>4. \A i \in 0 .. N : D[i] \in SUBSET SUBSET Builds(content)
  OBVIOUS
<1> HIDE DEF N, D
<1>5. \E f : Is(f)
  <2>1. \A i \in 1 .. N : \A x \in D[i - 1] : F[<<i, x>>] = UNION {Settle(s) : s \in x}
    <3> SUFFICES ASSUME NEW i \in 1 .. N, NEW x \in D[i - 1]
                 PROVE  F[<<i, x>>] = UNION {Settle(s) : s \in x}
      OBVIOUS
    <3>1. i - 1 \in 0 .. N
      BY <1>1
    <3>2. x \in SUBSET Builds(content)
      BY <1>4, <3>1
    <3> QED
      BY <3>2
  <2> HIDE DEF F
  <2>2. \A i \in 1 .. N : \A x \in D[i - 1] : F[<<i, x>>] \in D[i]
    BY <1>2, <2>1
  <2>3. PICK f : IsRecursion(f, N, {b}, F) /\ \A i \in 0 .. N : f[i] \in D[i]
    BY <1>1, <1>3, <2>2, BoundedRecursion
  <2>4. \A i \in 0 .. N : i # 0 => F[<<i, f[i - 1]>>] = UNION {Settle(s) : s \in f[i - 1]}
    <3> SUFFICES ASSUME NEW i \in 0 .. N, i # 0
                 PROVE  F[<<i, f[i - 1]>>] = UNION {Settle(s) : s \in f[i - 1]}
      OBVIOUS
    <3>1. i \in 1 .. N /\ i - 1 \in 0 .. N
      BY <1>1
    <3>2. f[i - 1] \in D[i - 1]
      BY <2>3, <3>1
    <3> QED
      BY <2>1, <3>1, <3>2
  <2>5. Is(f)
    BY <2>3, <2>4 DEF IsRecursion
  <2> QED
    BY <2>5
<1>6. Is(after)
  <2> HIDE DEF Is
  <2> QED
    BY <1>5
<1>7. Reattached(b) = after[N]
  BY DEF Reattached, N
<1> HIDE DEF after
<1>8. after[0] \in D[0]
  <2>1. 0 \in 0 .. N
    BY <1>1
  <2> QED
    BY <1>3, <1>6, <2>1
<1>9. \A i \in 1 .. N : after[i - 1] \in D[i - 1] => after[i] \in D[i]
  <2> SUFFICES ASSUME NEW i \in 1 .. N, after[i - 1] \in D[i - 1]
               PROVE  after[i] \in D[i]
    OBVIOUS
  <2>1. i \in 0 .. N /\ i # 0
    BY <1>1
  <2>2. after[i] = UNION {Settle(s) : s \in after[i - 1]}
    BY <1>6, <2>1
  <2> QED
    BY <1>2, <2>2
<1>10. Reattached(b) \subseteq States(N)
  <2>1. \A i \in 0 .. N : after[i] \in D[i]
    BY <1>1, <1>8, <1>9, BoundedInduction
  <2>2. N \in 0 .. N
    BY <1>1
  <2> QED
    BY <1>7, <2>1, <2>2 DEF D
<1>11. N - N = 0
  BY <1>1
<1>12. \A c \in Reattached(b) : /\ c \in Builds(content) /\ Settled(content, c)
                              /\ Recorded(content, carried, c) /\ Left(c, 0)
  BY <1>10, <1>11
<1>13. IsReattaching(after, b)
  BY <1>6 DEF IsReattaching, N
<1>14. Reattached(b) = after[Cardinality(b.detached)]
  BY <1>7 DEF N
<1> QED
  BY <1>12, <1>13, <1>14

\* The same, of one of the builds.
LEMMA ReattachedFacts ==
    ASSUME NEW content, IsDoc(content), NEW carried,
           NEW b \in Builds(content), Settled(content, b), Recorded(content, carried, b),
           NEW c \in Reattached(b)
    PROVE  /\ c \in Builds(content) /\ Recorded(content, carried, c)
           /\ c.ends = "reattach" =>
                \/ Attached(c.parent) = PresentIn(content)
                \/ \E n \in DOMAIN content : c.parent[n] \notin PresentIn(content)
<1>1. c \in Builds(content) /\ Settled(content, c) /\ Recorded(content, carried, c) /\ Left(c, 0)
  BY ReattachedIsLast
<1>2. ASSUME c.ends = "reattach"
      PROVE  c.detached = {}
  BY <1>1, <1>2, ContentFacts, FS_Subset, FS_EmptySet DEF Left, Builds
<1>3. Attached(c.parent) \subseteq PresentIn(content)
  BY <1>1 DEF Attached, Builds
<1> QED
  BY <1>1, <1>2, <1>3 DEF Settled

\* Whatever an iteration makes of a build is there after the next one.
LEMMA ReachedNext ==
    ASSUME NEW b, IsFiniteSet(b.detached), NEW k \in Nat, k < Cardinality(b.detached),
           NEW c, ReachedIn(b, k, c), NEW d \in Settle(c)
    PROVE  ReachedIn(b, k + 1, d)
<1> DEFINE N == Cardinality(b.detached)
<1>1. N \in Nat
  BY FS_CardinalityType
<1> SUFFICES ASSUME NEW after, IsReattaching(after, b)
             PROVE  d \in after[k + 1]
  BY DEF ReachedIn
<1>2. c \in after[k]
  BY DEF ReachedIn
<1>3. k + 1 \in 0 .. N /\ k + 1 # 0 /\ (k + 1) - 1 = k
  BY <1>1
<1>4. after[k + 1] = UNION {Settle(x) : x \in after[k]}
  <2> HIDE DEF N
  <2>1. after = [i \in 0 .. N |-> IF i = 0 THEN {b} ELSE UNION {Settle(x) : x \in after[i - 1]}]
    BY DEF IsReattaching, N
  <2> QED
    BY <1>3, <2>1
<1> QED
  BY <1>2, <1>4

\* A build that has ended is what the loop ends with.
LEMMA ReachedLast ==
    ASSUME NEW b, IsFiniteSet(b.detached), NEW k \in 0 .. Cardinality(b.detached),
           NEW c, ReachedIn(b, k, c), k = Cardinality(b.detached) \/ c.ends # "reattach"
    PROVE  ReachedIn(b, Cardinality(b.detached), c)
<1> DEFINE N == Cardinality(b.detached)
<1>1. N \in Nat
  BY FS_CardinalityType
<1>2. CASE k = N
  BY <1>2
<1>3. CASE c.ends # "reattach"
  <2> DEFINE T == {i \in k .. N : ~ ReachedIn(b, i, c)}
  <2> SUFFICES ASSUME T # {} PROVE FALSE
    BY <1>1
  <2>1. PICK i \in T : \A j \in T : i <= j
    <3>1. T \in SUBSET Nat
      BY <1>1
    <3> HIDE DEF T
    <3> QED
      BY <3>1, LeastNatural
  <2>2. i # k
    BY <2>1
  <2>3. i - 1 \in Nat /\ i - 1 < N /\ i - 1 \notin T /\ i - 1 \in k .. N /\ (i - 1) + 1 = i
    BY <1>1, <2>1, <2>2
  <2>4. ReachedIn(b, i - 1, c)
    BY <2>3
  <2>5. Settle(c) = {c}
    BY <1>3 DEF Settle
  <2>6. ReachedIn(b, i, c)
    BY <2>3, <2>4, <2>5, ReachedNext
  <2> QED
    BY <2>1, <2>6
<1> QED
  BY <1>2, <1>3

\* A build starts with itself.
LEMMA ReachedFirst ==
    ASSUME NEW b, IsFiniteSet(b.detached)
    PROVE  ReachedIn(b, 0, b)
<1>1. 0 \in 0 .. Cardinality(b.detached)
  BY FS_CardinalityType
<1> QED
  BY <1>1 DEF ReachedIn, IsReattaching

\* What is reached in the last iteration is what a rebuild finishes.
LEMMA ReachedIsRebuilt ==
    ASSUME NEW content, IsDoc(content), NEW pending \in Updates,
           NEW b \in Started(content, pending), NEW c,
           ReachedIn(b, Cardinality(b.detached), c)
    PROVE  Finished(content, c) \in Rebuilds(content, pending)
<1>1. b \in Builds(content) /\ Settled(content, b) /\ Recorded(content, pending, b)
  BY StartedFacts
<1>2. PICK after : IsReattaching(after, b) /\ Reattached(b) = after[Cardinality(b.detached)]
  BY <1>1, ReattachedIsLast
<1>3. c \in Reattached(b)
  BY <1>2 DEF ReachedIn
<1> QED
  BY <1>3 DEF Rebuilds

\* The children of a node, sorted: they are in the document, and each is in
\* the sequence once, after those it is to follow.
LEMMA SortedChildrenFacts ==
    ASSUME NEW content, IsDoc(content), NEW parent, NEW p
    PROVE  LET kids == SortedChildren(content, parent, p) IN
           /\ kids \in Seq(DOMAIN content)
           /\ \A n \in DOMAIN content : Times(n, kids) = IF parent[n] = p THEN 1 ELSE 0
           /\ \A i \in DOMAIN kids : parent[kids[i]] = p
           /\ \A n \in DOMAIN content : parent[n] = p => \E i \in DOMAIN kids : kids[i] = n
           /\ \A i, j \in DOMAIN kids : i < j => <<kids[i], kids[j]>> \in SiblingBefore(content)
<1> DEFINE S      == {c \in DOMAIN content : parent[c] = p}
           before == SiblingBefore(content)
           kids   == Sorted(S, before)
<1>1. IsFiniteSet(S)
  BY ContentFacts, FS_Subset
<1>2. \A a, b \in S : <<a, b>> \in before <=>
          \/ content[a].fi < content[b].fi
          \/ content[a].fi = content[b].fi /\ a < b
  BY DEF SiblingBefore
<1>3. \A a \in S : a \in Nat /\ content[a].fi \in Nat
  BY ContentFacts
<1> SUFFICES /\ kids \in Seq(DOMAIN content)
             /\ \A n \in DOMAIN content : Times(n, kids) = IF n \in S THEN 1 ELSE 0
             /\ \A i \in DOMAIN kids : kids[i] \in S
             /\ \A n \in S : \E i \in DOMAIN kids : kids[i] = n
             /\ \A i, j \in DOMAIN kids : i < j => <<kids[i], kids[j]>> \in before
  BY DEF SortedChildren
<1>4. S \subseteq DOMAIN content
  OBVIOUS
<1> HIDE DEF S, before
<1>5. /\ \A a \in S : <<a, a>> \notin before
      /\ \A a, b, c \in S : <<a, b>> \in before /\ <<b, c>> \in before => <<a, c>> \in before
      /\ \A a, b \in S : a # b => <<a, b>> \in before \/ <<b, a>> \in before
  <2>1. \A a \in S : <<a, a>> \notin before
    BY <1>2, <1>3
  <2>2. \A a, b, c \in S : <<a, b>> \in before /\ <<b, c>> \in before => <<a, c>> \in before
    <3> SUFFICES ASSUME NEW a \in S, NEW b \in S, NEW c \in S,
                        <<a, b>> \in before, <<b, c>> \in before
                 PROVE  <<a, c>> \in before
      OBVIOUS
    <3>1. /\ a \in Nat /\ b \in Nat /\ c \in Nat
          /\ content[a].fi \in Nat /\ content[b].fi \in Nat /\ content[c].fi \in Nat
      BY <1>3
    <3> QED
      BY <1>2, <3>1
  <2>3. \A a, b \in S : a # b => <<a, b>> \in before \/ <<b, a>> \in before
    BY <1>2, <1>3
  <2> QED
    BY <2>1, <2>2, <2>3
<1> DEFINE k == Cardinality(S)
<1>6. k \in Nat
  BY <1>1, FS_CardinalityType
<1>7. /\ kids \in [1 .. k -> S]
      /\ \A a \in S : \E i \in 1 .. k : kids[i] = a
      /\ \A i, j \in 1 .. k : i < j => <<kids[i], kids[j]>> \in before
      /\ \A i, j \in 1 .. k : kids[i] = kids[j] => i = j
  BY <1>1, <1>5, SortedFacts
<1> HIDE DEF k, kids
<1>8. kids \in Seq(DOMAIN content)
  <2>1. kids \in [1 .. k -> DOMAIN content]
    BY <1>4, <1>7
  <2> QED
    BY <1>6, <2>1, SeqDef
<1>9. ASSUME NEW n \in DOMAIN content
      PROVE  Times(n, kids) = IF n \in S THEN 1 ELSE 0
  <2> DEFINE at == {i \in DOMAIN kids : kids[i] = n}
  <2>1. CASE n \in S
    <3>1. PICK i \in 1 .. k : kids[i] = n
      BY <1>7, <2>1
    <3>2. at = {i}
      BY <1>7, <3>1
    <3> QED
      BY <2>1, <3>2, FS_Singleton DEF Times
  <2>2. CASE n \notin S
    <3>1. at = {}
      BY <1>7, <2>2
    <3> QED
      BY <2>2, <3>1, FS_EmptySet DEF Times
  <2> QED
    BY <2>1, <2>2
<1> QED
  BY <1>7, <1>8, <1>9

\* A node has no more children than there are ids.
LEMMA SortedChildrenBound ==
    ASSUME NEW content, IsDoc(content), NEW parent, NEW p
    PROVE  LET kids == SortedChildren(content, parent, p) IN
           Len(kids) \in Nat /\ Len(kids) <= Cardinality(Ids)
<1> DEFINE S    == {c \in DOMAIN content : parent[c] = p}
           kids == SortedChildren(content, parent, p)
           k    == Cardinality(S)
<1>1. S \in SUBSET Ids /\ IsFiniteSet(S)
  BY ContentFacts, FS_Subset
<1>2. DOMAIN kids = 1 .. k
  BY DEF SortedChildren, Sorted
<1>3. kids \in Seq(DOMAIN content)
  BY SortedChildrenFacts
<1> HIDE DEF S, kids
<1>4. k \in Nat /\ k <= Cardinality(Ids)
  BY <1>1, IdsAssumption, FS_Subset, FS_CardinalityType
<1>5. Len(kids) \in Nat /\ DOMAIN kids = 1 .. Len(kids)
  BY <1>3, LenProperties
<1> HIDE DEF k
<1>6. Len(kids) = k
  BY <1>2, <1>4, <1>5
<1> QED
  BY <1>4, <1>6 DEF kids

\* There is one way to list the children of a node in the order of the document.
LEMMA SortedChildrenUnique ==
    ASSUME NEW content, IsDoc(content), NEW parent, NEW p, NEW q \in Seq(DOMAIN content),
           \A i \in DOMAIN q : parent[q[i]] = p,
           \A n \in DOMAIN content : parent[n] = p => \E i \in DOMAIN q : q[i] = n,
           \A i, j \in DOMAIN q : i < j => <<q[i], q[j]>> \in SiblingBefore(content)
    PROVE  SortedChildren(content, parent, p) = q
<1> DEFINE S      == {c \in DOMAIN content : parent[c] = p}
           before == SiblingBefore(content)
           n      == Len(q)
<1>1. n \in Nat /\ q \in [1 .. n -> DOMAIN content] /\ DOMAIN q = 1 .. n
  BY LenProperties
<1>2. /\ \A a \in S : \E i \in 1 .. n : q[i] = a
      /\ \A i, j \in 1 .. n : i < j => <<q[i], q[j]>> \in before
      /\ q \in [1 .. n -> S]
  BY <1>1
<1>3. \A a, b \in S : <<a, b>> \in before <=>
          \/ content[a].fi < content[b].fi
          \/ content[a].fi = content[b].fi /\ a < b
  BY DEF SiblingBefore
<1>4. \A a \in S : a \in Nat /\ content[a].fi \in Nat
  BY ContentFacts
<1>5. SortedChildren(content, parent, p) = Sorted(S, before)
  BY DEF SortedChildren
<1> HIDE DEF S, before, n
<1>6. \A a \in S : <<a, a>> \notin before
  BY <1>3, <1>4
<1>7. \A a, b, c \in S : <<a, b>> \in before /\ <<b, c>> \in before => <<a, c>> \in before
  <2> SUFFICES ASSUME NEW a \in S, NEW b \in S, NEW c \in S,
                      <<a, b>> \in before, <<b, c>> \in before
               PROVE  <<a, c>> \in before
    OBVIOUS
  <2>1. /\ a \in Nat /\ b \in Nat /\ c \in Nat
        /\ content[a].fi \in Nat /\ content[b].fi \in Nat /\ content[c].fi \in Nat
    BY <1>4
  <2> QED
    BY <1>3, <2>1
<1> QED
  BY <1>1, <1>2, <1>5, <1>6, <1>7, SortedIsUnique

\* A sequence without the element at a position.
LEMMA RemoveAtFacts ==
    ASSUME NEW S, NEW a \in Seq(S), NEW k \in 1 .. Len(a)
    PROVE  LET r == RemoveAt(a, k) IN
           /\ r \in Seq(S) /\ Len(r) = Len(a) - 1
           /\ \A i \in 1 .. Len(r) : r[i] = IF i < k THEN a[i] ELSE a[i + 1]
<1> DEFINE N == Len(a)
           x == SubSeq(a, 1, k - 1)
           y == SubSeq(a, k + 1, N)
           r == RemoveAt(a, k)
<1>1. N \in Nat /\ \A i \in 1 .. N : a[i] \in S
  BY LenProperties, ElementOfSeq
<1>2. r = x \o y
  BY DEF RemoveAt
<1> HIDE DEF N, r
<1>3. k \in 1 .. N
  BY DEF N
<1>4. x \in Seq(S) /\ Len(x) = k - 1 /\ \A i \in 1 .. k - 1 : x[i] = a[i]
  <2>1. \A i \in 1 .. k - 1 : a[i] \in S
    BY <1>1, <1>3
  <2> QED
    BY <1>1, <1>3, <2>1, SubSeqProperties
<1>5. y \in Seq(S) /\ Len(y) = N - k /\ \A i \in 1 .. N - k : y[i] = a[k + i]
  <2>1. \A i \in k + 1 .. N : a[i] \in S
    BY <1>1, <1>3
  <2>2. /\ y \in Seq(S) /\ Len(y) = IF k + 1 <= N THEN N - (k + 1) + 1 ELSE 0
        /\ \A i \in 1 .. N - (k + 1) + 1 : y[i] = a[k + 1 + i - 1]
    BY <1>1, <1>3, <2>1, SubSeqProperties
  <2>3. N - (k + 1) + 1 = N - k /\ \A i \in Int : k + 1 + i - 1 = k + i
    BY <1>1, <1>3
  <2> HIDE DEF y
  <2> QED
    BY <1>1, <1>3, <2>2, <2>3
<1> HIDE DEF x, y
<1>6. /\ r \in Seq(S) /\ Len(r) = Len(x) + Len(y)
      /\ \A i \in 1 .. Len(x) + Len(y) : r[i] = IF i <= Len(x) THEN x[i] ELSE y[i - Len(x)]
  BY <1>2, <1>4, <1>5, ConcatProperties
<1>7. Len(r) = N - 1
  BY <1>1, <1>3, <1>4, <1>5, <1>6
<1>8. ASSUME NEW i \in 1 .. N - 1
      PROVE  r[i] = IF i < k THEN a[i] ELSE a[i + 1]
  <2>1. i \in 1 .. Len(x) + Len(y)
    BY <1>1, <1>3, <1>4, <1>5
  <2>2. CASE i < k
    BY <1>3, <1>4, <1>6, <2>1, <2>2
  <2>3. CASE ~ (i < k)
    <3>1. i - (k - 1) \in 1 .. N - k /\ k + (i - (k - 1)) = i + 1 /\ ~ (i <= k - 1)
      BY <1>1, <1>3, <2>3
    <3>2. r[i] = y[i - (k - 1)]
      BY <1>4, <1>6, <2>1, <3>1
    <3>3. y[i - (k - 1)] = a[i + 1]
      BY <1>5, <3>1
    <3> QED
      BY <2>3, <3>2, <3>3
  <2> QED
    BY <2>2, <2>3
<1> QED
  BY <1>6, <1>7, <1>8 DEF N, r

\* Document K and tree f are C and par after the children of n moved to its
\* parent p, each with an index above those of the others that are there then,
\* and n is gone.
IsPromotion(C, par, K, f, n, p, k) ==
    LET a    == SortedChildren(C, par, p)
        kids == SortedChildren(C, par, n)
    IN
    /\ IsDoc(C) /\ IsDoc(K) /\ n \in DOMAIN C /\ par[n] = p /\ p # n
    /\ k \in DOMAIN a /\ a[k] = n
    /\ DOMAIN K = DOMAIN C \ {n}
    /\ \A m \in DOMAIN K : f[m] = IF par[m] = n THEN p ELSE par[m]
    /\ \A m \in DOMAIN K : par[m] # n => K[m].fi = C[m].fi
    /\ \A j \in DOMAIN kids : \A m \in DOMAIN K :
         f[m] = p /\ (par[m] = n => \E l \in DOMAIN kids : l < j /\ kids[l] = m)
             => K[m].fi < K[kids[j]].fi

\* Then the children of p are those it had, without n, and then those of n, in
\* the order they had.
LEMMA PromotedChildren ==
    ASSUME NEW C, NEW par, NEW K, NEW f, NEW n, NEW p, NEW k,
           IsPromotion(C, par, K, f, n, p, k)
    PROVE  SortedChildren(K, f, p) =
               RemoveAt(SortedChildren(C, par, p), k) \o SortedChildren(C, par, n)
<1> DEFINE a    == SortedChildren(C, par, p)
           kids == SortedChildren(C, par, n)
           N    == Len(a)
           M    == Len(kids)
           r == RemoveAt(a, k)
           q == r \o kids
<1>0. /\ IsDoc(C) /\ IsDoc(K) /\ n \in DOMAIN C /\ par[n] = p /\ p # n
      /\ k \in DOMAIN a /\ a[k] = n /\ DOMAIN K = DOMAIN C \ {n}
      /\ \A m \in DOMAIN K : f[m] = IF par[m] = n THEN p ELSE par[m]
      /\ \A m \in DOMAIN K : par[m] # n => K[m].fi = C[m].fi
      /\ \A j \in DOMAIN kids : \A m \in DOMAIN K :
           f[m] = p /\ (par[m] = n => \E l \in DOMAIN kids : l < j /\ kids[l] = m)
               => K[m].fi < K[kids[j]].fi
  BY DEF IsPromotion
<1>1. /\ a \in Seq(DOMAIN C)
      /\ \A i \in DOMAIN a : par[a[i]] = p
      /\ \A m \in DOMAIN C : par[m] = p => \E i \in DOMAIN a : a[i] = m
      /\ \A i, j \in DOMAIN a : i < j => <<a[i], a[j]>> \in SiblingBefore(C)
  BY <1>0, SortedChildrenFacts
<1>2. /\ kids \in Seq(DOMAIN C)
      /\ \A i \in DOMAIN kids : par[kids[i]] = n
      /\ \A m \in DOMAIN C : par[m] = n => \E i \in DOMAIN kids : kids[i] = m
  BY <1>0, SortedChildrenFacts
<1> HIDE DEF a, kids
<1>3. /\ N \in Nat /\ DOMAIN a = 1 .. N /\ \A i \in 1 .. N : a[i] \in DOMAIN C
      /\ M \in Nat /\ DOMAIN kids = 1 .. M /\ \A i \in 1 .. M : kids[i] \in DOMAIN C
  BY <1>1, <1>2, LenProperties, ElementOfSeq
<1>4. k \in 1 .. N
  BY <1>0, <1>3
<1>5. /\ r \in Seq(DOMAIN C) /\ Len(r) = N - 1
      /\ \A i \in 1 .. N - 1 : r[i] = IF i < k THEN a[i] ELSE a[i + 1]
  <2>1. /\ r \in Seq(DOMAIN C) /\ Len(r) = N - 1
        /\ \A i \in 1 .. Len(r) : r[i] = IF i < k THEN a[i] ELSE a[i + 1]
    <3> HIDE DEF r
    <3>1. k \in 1 .. Len(a) /\ N = Len(a) /\ r = RemoveAt(a, k)
      BY <1>4 DEF r
    <3> HIDE DEF N
    <3> QED
      BY <1>1, <3>1, RemoveAtFacts
  <2> HIDE DEF r, N
  <2> QED
    BY <2>1
<1>6. \A m \in DOMAIN C : m \in Nat /\ C[m].fi \in Nat
  BY <1>0, ContentFacts
<1> HIDE DEF r, N, M
\* the children that p had, without n
<1>7. \A i \in 1 .. N : i # k => a[i] # n
  <2> SUFFICES ASSUME NEW i \in 1 .. N, i # k, a[i] = n PROVE FALSE
    OBVIOUS
  <2>1. i < k \/ k < i
    BY <1>3, <1>4
  <2>2. <<n, n>> \in SiblingBefore(C)
    BY <1>0, <1>1, <1>3, <1>4, <2>1
  <2> QED
    BY <1>6, <2>2 DEF SiblingBefore
<1>8. ASSUME NEW i \in 1 .. N - 1
      PROVE  r[i] \in DOMAIN K /\ f[r[i]] = p /\ par[r[i]] # n /\ K[r[i]].fi = C[r[i]].fi
  <2>1. PICK j \in 1 .. N : j # k /\ r[i] = a[j]
    <3>1. CASE i < k
      BY <1>3, <1>5, <3>1
    <3>2. CASE ~ (i < k)
      <4>1. i + 1 \in 1 .. N /\ i + 1 # k
        BY <1>3, <1>4, <3>2
      <4> QED
        BY <1>5, <3>2, <4>1
    <3> QED
      BY <3>1, <3>2
  <2>2. a[j] \in DOMAIN K /\ par[a[j]] = p
    BY <1>0, <1>1, <1>3, <1>7, <2>1
  <2> QED
    BY <1>0, <2>1, <2>2
<1>9. ASSUME NEW i \in 1 .. N - 1, NEW j \in 1 .. N - 1, i < j
      PROVE  <<r[i], r[j]>> \in SiblingBefore(K)
  <2>1. PICK x \in 1 .. N, y \in 1 .. N : x < y /\ r[i] = a[x] /\ r[j] = a[y]
    <3> DEFINE at(b) == IF b < k THEN b ELSE b + 1
    <3>1. at(i) \in 1 .. N /\ at(j) \in 1 .. N /\ at(i) < at(j)
      BY <1>0, <1>3, <1>9
    <3>2. r[i] = a[at(i)] /\ r[j] = a[at(j)]
      BY <1>5
    <3> HIDE DEF at
    <3> QED
      BY <3>1, <3>2
  <2>2. <<a[x], a[y]>> \in SiblingBefore(C)
    BY <1>1, <1>3, <2>1
  <2>3. <<r[i], r[j]>> \in SiblingBefore(C)
    BY <2>1, <2>2
  <2> QED
    BY <1>8, <2>3 DEF SiblingBefore
<1>10. ASSUME NEW m \in DOMAIN K, f[m] = p, par[m] # n
       PROVE  \E i \in 1 .. N - 1 : r[i] = m
  <2>1. PICK x \in 1 .. N : a[x] = m
    BY <1>0, <1>1, <1>3, <1>10
  <2>2. x # k
    BY <1>0, <1>10, <2>1
  <2>3. CASE x < k
    BY <1>3, <1>4, <1>5, <2>1, <2>3
  <2>4. CASE ~ (x < k)
    <3>1. x - 1 \in 1 .. N - 1 /\ ~ (x - 1 < k) /\ (x - 1) + 1 = x
      BY <1>3, <1>4, <2>2, <2>4
    <3>2. r[x - 1] = a[x]
      BY <1>5, <3>1
    <3> QED
      BY <2>1, <3>1, <3>2
  <2> QED
    BY <2>3, <2>4
\* the children that n had
<1>11. ASSUME NEW i \in 1 .. M
       PROVE  kids[i] \in DOMAIN K /\ f[kids[i]] = p /\ par[kids[i]] = n
  <2>1. kids[i] \in DOMAIN C /\ par[kids[i]] = n
    BY <1>0, <1>2, <1>3
  <2> QED
    BY <1>0, <2>1
<1>12. ASSUME NEW j \in 1 .. M, NEW m \in DOMAIN K, f[m] = p,
              par[m] = n => \E l \in 1 .. M : l < j /\ kids[l] = m
       PROVE  <<m, kids[j]>> \in SiblingBefore(K)
  BY <1>0, <1>3, <1>11, <1>12 DEF SiblingBefore
\* all of them
<1>13. /\ q \in Seq(DOMAIN C) /\ Len(q) = (N - 1) + M
       /\ \A i \in 1 .. (N - 1) + M : q[i] = IF i <= N - 1 THEN r[i] ELSE kids[i - (N - 1)]
  <2> HIDE DEF q
  <2>1. M = Len(kids) /\ q = r \o kids
    BY DEF M, q
  <2>2. /\ q \in Seq(DOMAIN C) /\ Len(q) = Len(r) + Len(kids)
        /\ \A i \in 1 .. Len(r) + Len(kids) : q[i] = IF i <= Len(r) THEN r[i] ELSE kids[i - Len(r)]
    <3>1. r \in Seq(DOMAIN C) /\ kids \in Seq(DOMAIN C)
      BY <1>2, <1>5
    <3>2. /\ r \o kids \in Seq(DOMAIN C) /\ Len(r \o kids) = Len(r) + Len(kids)
          /\ \A i \in 1 .. Len(r) + Len(kids) :
                (r \o kids)[i] = IF i <= Len(r) THEN r[i] ELSE kids[i - Len(r)]
      BY <3>1, ConcatProperties
    <3> QED
      BY <2>1, <3>2
  <2> QED
    BY <1>5, <2>1, <2>2
<1> HIDE DEF q
<1>14. DOMAIN q = 1 .. (N - 1) + M
  BY <1>13, LenProperties
<1>15. ASSUME NEW i \in DOMAIN q
       PROVE  \/ i \in 1 .. N - 1 /\ q[i] = r[i]
              \/ i > N - 1 /\ i - (N - 1) \in 1 .. M /\ q[i] = kids[i - (N - 1)]
  BY <1>3, <1>4, <1>13, <1>14
<1>16. \A i \in DOMAIN q : q[i] \in DOMAIN K /\ f[q[i]] = p
  BY <1>8, <1>11, <1>15
<1>17. q \in Seq(DOMAIN K)
  <2>1. q \in [1 .. (N - 1) + M -> DOMAIN K]
    <3>1. q \in [1 .. Len(q) -> DOMAIN C]
      BY <1>13, LenProperties
    <3> QED
      BY <1>13, <1>14, <1>16, <3>1
  <2>2. (N - 1) + M \in Nat
    BY <1>3, <1>4
  <2> QED
    BY <2>1, <2>2, SeqDef
<1>18. ASSUME NEW m \in DOMAIN K, f[m] = p
       PROVE  \E i \in DOMAIN q : q[i] = m
  <2>1. CASE par[m] # n
    <3>1. PICK i \in 1 .. N - 1 : r[i] = m
      BY <1>10, <1>18, <2>1
    <3>2. i \in DOMAIN q /\ q[i] = r[i]
      BY <1>3, <1>4, <1>13, <1>14
    <3> QED
      BY <3>1, <3>2
  <2>2. CASE par[m] = n
    <3>1. PICK j \in 1 .. M : kids[j] = m
      BY <1>0, <1>2, <1>3, <2>2
    <3>2. (N - 1) + j \in DOMAIN q /\ q[(N - 1) + j] = kids[j]
      <4>1. /\ (N - 1) + j \in 1 .. (N - 1) + M /\ ~ ((N - 1) + j <= N - 1)
            /\ ((N - 1) + j) - (N - 1) = j
        BY <1>3, <1>4
      <4> QED
        BY <1>13, <1>14, <4>1
    <3> QED
      BY <3>1, <3>2
  <2> QED
    BY <2>1, <2>2
<1>19. ASSUME NEW i \in DOMAIN q, NEW j \in DOMAIN q, i < j
       PROVE  <<q[i], q[j]>> \in SiblingBefore(K)
  <2>1. CASE j \in 1 .. N - 1
    <3>1. i \in 1 .. N - 1 /\ q[i] = r[i] /\ q[j] = r[j]
      BY <1>3, <1>14, <1>15, <1>19, <2>1
    <3> QED
      BY <1>9, <1>19, <2>1, <3>1
  <2>2. CASE j \notin 1 .. N - 1
    <3> DEFINE b == j - (N - 1)
    <3>1. b \in 1 .. M /\ q[j] = kids[b]
      BY <1>15, <2>2
    <3>2. q[i] \in DOMAIN K /\ f[q[i]] = p
      BY <1>16
    <3>3. par[q[i]] = n => \E l \in 1 .. M : l < b /\ kids[l] = q[i]
      <4>1. CASE i \in 1 .. N - 1 /\ q[i] = r[i]
        BY <1>8, <4>1
      <4>2. CASE i > N - 1 /\ i - (N - 1) \in 1 .. M /\ q[i] = kids[i - (N - 1)]
        <5>1. i - (N - 1) < b
          BY <1>3, <1>4, <1>14, <1>19
        <5> QED
          BY <4>2, <5>1
      <4> QED
        BY <1>15, <4>1, <4>2
    <3> HIDE DEF b
    <3> QED
      BY <1>12, <3>1, <3>2, <3>3
  <2> QED
    BY <2>1, <2>2
<1>20. SortedChildren(K, f, p) = q
  BY <1>16, <1>17, <1>18, <1>19, <1>0, SortedChildrenUnique
<1> QED
  BY <1>20 DEF q, r, a, kids

\* The last child has the greatest index.
LEMMA LastChild ==
    ASSUME NEW content, IsDoc(content), NEW parent, NEW p,
           NEW n \in DOMAIN content, parent[n] = p
    PROVE  LET kids == SortedChildren(content, parent, p) IN
           /\ kids # <<>> /\ Last(kids) \in DOMAIN content /\ parent[Last(kids)] = p
           /\ content[n].fi <= content[Last(kids)].fi
<1> DEFINE kids == SortedChildren(content, parent, p)
           k    == Len(kids)
<1>1. /\ kids \in Seq(DOMAIN content)
      /\ \A i \in DOMAIN kids : parent[kids[i]] = p
      /\ \E i \in DOMAIN kids : kids[i] = n
      /\ \A i, j \in DOMAIN kids : i < j => <<kids[i], kids[j]>> \in SiblingBefore(content)
  BY SortedChildrenFacts
<1> HIDE DEF kids
<1>2. PICK i \in DOMAIN kids : kids[i] = n
  BY <1>1
<1>3. k \in Nat /\ DOMAIN kids = 1 .. k /\ \A j \in 1 .. k : kids[j] \in DOMAIN content
  BY <1>1, LenProperties, ElementOfSeq
<1>4. i \in 1 .. k /\ k \in 1 .. k
  BY <1>2, <1>3
<1>5. kids # <<>> /\ kids[k] \in DOMAIN content /\ parent[kids[k]] = p
  BY <1>1, <1>3, <1>4
<1>6. content[n].fi \in Nat /\ content[kids[k]].fi \in Nat
  BY <1>5, ContentFacts
<1>7. content[n].fi <= content[kids[k]].fi
  <2>1. CASE i = k
    BY <1>2, <1>6, <2>1
  <2>2. CASE i # k
    <3>1. i < k
      BY <1>3, <1>4, <2>2
    <3>2. <<kids[i], kids[k]>> \in SiblingBefore(content)
      BY <1>1, <1>3, <1>4, <3>1
    <3> QED
      BY <1>2, <1>6, <3>2 DEF SiblingBefore
  <2> QED
    BY <2>1, <2>2
<1> QED
  BY <1>5, <1>7 DEF kids, Last

\* Positions among siblings are in the order of indices, and siblings with the
\* same index are neighbours when no third one has it.
LEMMA SortedPositions ==
    ASSUME NEW content, IsDoc(content), NEW parent, NEW p,
           NEW i \in DOMAIN SortedChildren(content, parent, p),
           NEW j \in DOMAIN SortedChildren(content, parent, p)
    PROVE  LET kids == SortedChildren(content, parent, p)
               x    == kids[i]
               y    == kids[j]
           IN  /\ content[y].fi < content[x].fi => i > j
               /\ /\ i # j /\ content[y].fi = content[x].fi
                  /\ \A m \in DOMAIN content \ {x, y} : parent[m] = p => content[m].fi # content[y].fi
                  => i - j \in {-1, 1}
<1> DEFINE kids == SortedChildren(content, parent, p)
           k    == Len(kids)
<1>1. /\ kids \in Seq(DOMAIN content) /\ i \in DOMAIN kids /\ j \in DOMAIN kids
      /\ \A l \in DOMAIN kids : parent[kids[l]] = p
      /\ \A l, m \in DOMAIN kids : l < m => <<kids[l], kids[m]>> \in SiblingBefore(content)
  BY SortedChildrenFacts
<1> HIDE DEF kids
<1>2. /\ k \in Nat /\ DOMAIN kids = 1 .. k /\ i \in 1 .. k /\ j \in 1 .. k
      /\ \A l \in 1 .. k : kids[l] \in DOMAIN content
  BY <1>1, LenProperties, ElementOfSeq
<1>3. \A l \in 1 .. k : kids[l] \in Nat /\ content[kids[l]].fi \in Nat
  BY <1>2, ContentFacts
<1>4. \A l, m \in 1 .. k : l < m =>
        \/ content[kids[l]].fi < content[kids[m]].fi
        \/ content[kids[l]].fi = content[kids[m]].fi /\ kids[l] < kids[m]
  BY <1>1, <1>2 DEF SiblingBefore
<1> HIDE DEF k
<1>5. ASSUME content[kids[j]].fi < content[kids[i]].fi
      PROVE  i > j
  BY <1>2, <1>3, <1>4, <1>5
<1>6. ASSUME NEW l \in 1 .. k, NEW m \in 1 .. k, l < m, content[kids[l]].fi = content[kids[m]].fi,
             \A n \in DOMAIN content \ {kids[l], kids[m]} : parent[n] = p => content[n].fi # content[kids[m]].fi
      PROVE  m = l + 1
  <2> SUFFICES ASSUME m # l + 1 PROVE FALSE
    OBVIOUS
  <2>1. l + 1 \in 1 .. k /\ l < l + 1 /\ l + 1 < m
    BY <1>2, <1>6
  <2>2. /\ kids[l + 1] \in DOMAIN content /\ parent[kids[l + 1]] = p
        /\ content[kids[l + 1]].fi = content[kids[m]].fi
        /\ kids[l + 1] # kids[l] /\ kids[l + 1] # kids[m]
    <3> DEFINE y == kids[l + 1]
    <3>1. y \in DOMAIN content /\ parent[y] = p
      BY <1>1, <1>2, <2>1
    <3>2. /\ \/ content[kids[l]].fi < content[y].fi
             \/ content[kids[l]].fi = content[y].fi /\ kids[l] < y
          /\ \/ content[y].fi < content[kids[m]].fi
             \/ content[y].fi = content[kids[m]].fi /\ y < kids[m]
      BY <1>4, <2>1
    <3>3. /\ y \in Nat /\ kids[l] \in Nat /\ kids[m] \in Nat
          /\ content[y].fi \in Nat /\ content[kids[l]].fi \in Nat /\ content[kids[m]].fi \in Nat
      BY <1>3, <2>1
    <3> HIDE DEF y
    <3>4. content[y].fi = content[kids[m]].fi /\ y # kids[l] /\ y # kids[m]
      BY <1>6, <3>2, <3>3
    <3> QED
      BY <3>1, <3>4 DEF y
  <2> QED
    BY <1>6, <2>2
<1>7. ASSUME i # j, content[kids[j]].fi = content[kids[i]].fi,
             \A m \in DOMAIN content \ {kids[i], kids[j]} : parent[m] = p => content[m].fi # content[kids[j]].fi
      PROVE  i - j \in {-1, 1}
  <2>1. CASE i < j
    BY <1>2, <1>6, <1>7, <2>1
  <2>2. CASE j < i
    BY <1>2, <1>6, <1>7, <2>2
  <2> QED
    BY <1>2, <1>7, <2>1, <2>2
<1> QED
  BY <1>5, <1>7 DEF kids

\* A rebuild leaves in the cache what is in the document and, when it ends
\* well, a tree: whatever cycles, ties and edges to missing nodes the document
\* holds, every node leads to the root, its parent is there, and it is once
\* among the children of its parent and of no other node.
THEOREM RebuildIsATree ==
    ASSUME NEW content, IsDoc(content), NEW pending \in Updates,
           NEW b \in Rebuilds(content, pending)
    PROVE  /\ b.parent \in [PresentIn(content) -> Nodes \cup {None}]
           /\ b.edges \in [PresentIn(content) -> EdgeMap]
           /\ b.children \in [PresentIn(content) -> Seq(DOMAIN content)]
           /\ b.pending \in Updates
           /\ b.ends \in {"built", "bad_doc", "panicked"}
           /\ b.ends = "built" =>
                /\ Rooted(b.parent)
                /\ \A n \in DOMAIN content : b.parent[n] \in PresentIn(content)
                /\ \A n \in DOMAIN content, p \in PresentIn(content) :
                    Times(n, b.children[p]) = IF b.parent[n] = p THEN 1 ELSE 0
<1>1. PICK s \in Started(content, pending) : \E c \in Reattached(s) : b = Finished(content, c)
  BY DEF Rebuilds
<1>2. PICK c \in Reattached(s) : b = Finished(content, c)
  BY <1>1
<1>3. /\ c \in Builds(content) /\ Recorded(content, pending, c)
      /\ c.ends = "reattach" =>
            \/ Attached(c.parent) = PresentIn(content)
            \/ \E n \in DOMAIN content : c.parent[n] \notin PresentIn(content)
  BY StartedFacts, ReattachedFacts
<1> DEFINE ends == CASE c.ends = "bad_doc" -> "bad_doc"
                     [] c.ends # "bad_doc" /\ \E n \in DOMAIN content : c.parent[n] \notin PresentIn(content) ->
                            "panicked"
                     [] OTHER -> "built"
           kids == [n \in PresentIn(content) |->
                        IF ends = "built" THEN SortedChildren(content, c.parent, n) ELSE <<>>]
<1>4. ends \in {"built", "bad_doc", "panicked"}
  OBVIOUS
<1>5. ASSUME ends = "built"
      PROVE  c.ends = "reattach" /\ \A n \in DOMAIN content : c.parent[n] \in PresentIn(content)
  BY <1>3, <1>5 DEF Builds
<1> HIDE DEF ends
<1>6. b.parent = c.parent /\ b.edges = c.edges /\ b.pending = c.pending /\ b.ends = ends
      /\ b.children = kids
  BY <1>2 DEF Finished, ends
<1>7. kids \in [PresentIn(content) -> Seq(DOMAIN content)]
  <2> SUFFICES ASSUME NEW n \in PresentIn(content)
               PROVE  kids[n] \in Seq(DOMAIN content)
    OBVIOUS
  <2>1. kids[n] \in {SortedChildren(content, c.parent, n), <<>>}
    OBVIOUS
  <2>2. SortedChildren(content, c.parent, n) \in Seq(DOMAIN content)
    BY SortedChildrenFacts
  <2> QED
    BY <2>1, <2>2, EmptySeq
<1>8. ASSUME ends = "built"
      PROVE  /\ Rooted(b.parent)
             /\ \A n \in DOMAIN content : b.parent[n] \in PresentIn(content)
             /\ \A n \in DOMAIN content, p \in PresentIn(content) :
                    Times(n, b.children[p]) = IF b.parent[n] = p THEN 1 ELSE 0
  <2>1. Rooted(b.parent)
    BY <1>3, <1>5, <1>6, <1>8 DEF Builds, Rooted
  <2>2. \A p \in PresentIn(content) : b.children[p] = SortedChildren(content, c.parent, p)
    BY <1>6, <1>8
  <2>3. \A n \in DOMAIN content, p \in PresentIn(content) :
            Times(n, b.children[p]) = IF b.parent[n] = p THEN 1 ELSE 0
    <3> SUFFICES ASSUME NEW n \in DOMAIN content, NEW p \in PresentIn(content)
                 PROVE  Times(n, b.children[p]) = IF b.parent[n] = p THEN 1 ELSE 0
      OBVIOUS
    <3> HIDE DEF kids
    <3>1. b.children[p] = SortedChildren(content, c.parent, p) /\ b.parent = c.parent
      BY <1>6, <2>2
    <3>2. Times(n, SortedChildren(content, c.parent, p)) = IF c.parent[n] = p THEN 1 ELSE 0
      BY SortedChildrenFacts
    <3> QED
      BY <3>1, <3>2
  <2> QED
    BY <1>5, <1>6, <1>8, <2>1, <2>3
<1> QED
  BY <1>3, <1>4, <1>6, <1>7, <1>8 DEF Builds

\* The tree that a rebuild leaves is that of the edges that it leaves, and these
\* are the recorded ones with the pending updates; siblings are in order.
LEMMA RebuildRecords ==
    ASSUME NEW content, IsDoc(content), NEW pending \in Updates,
           NEW b \in Rebuilds(content, pending), b.ends = "built"
    PROVE  /\ b.parent[Root] = None
           /\ \A p \in PresentIn(content) : b.children[p] = SortedChildren(content, b.parent, p)
           /\ \A n \in DOMAIN content : b.parent[n] \in MaxEdges(b.edges[n])
           /\ NoTies(content) => \A n \in DOMAIN content : MaxEdges(b.edges[n]) = {b.parent[n]}
           /\ pending = <<>> =>
                /\ \A i \in DOMAIN b.pending : b.pending[i][1] \in DOMAIN content
                /\ \A n \in DOMAIN content : b.edges[n] = Written(content[n].em, n, b.pending)
<1>1. PICK s \in Started(content, pending) : \E c \in Reattached(s) : b = Finished(content, c)
  BY DEF Rebuilds
<1>2. PICK c \in Reattached(s) : b = Finished(content, c)
  BY <1>1
<1>3. c \in Builds(content) /\ Recorded(content, pending, c)
  BY StartedFacts, ReattachedFacts
<1>4. c.ends = "reattach"
  BY <1>2, <1>3 DEF Finished, Builds
<1>5. /\ b.parent = c.parent /\ b.edges = c.edges /\ b.pending = c.pending
      /\ \A p \in PresentIn(content) : b.children[p] = SortedChildren(content, c.parent, p)
  BY <1>2 DEF Finished
<1> QED
  BY <1>3, <1>4, <1>5 DEF Recorded

\* A tree whose edges are the greatest ones of the document.
IsTheTree(content, f) ==
    /\ f \in [PresentIn(content) -> Nodes \cup {None}]
    /\ f[Root] = None
    /\ Rooted(f)
    /\ \A n \in DOMAIN content : MaxEdges(content[n].em) = {f[n]}

\* A document whose greatest edges are those of a tree is rebuilt to that tree:
\* nothing is detached, and nothing becomes pending.
LEMMA RebuildOfATree ==
    ASSUME NEW content, IsDoc(content), NEW pending \in Updates,
           NEW f, IsTheTree(content, f), NEW b \in Rebuilds(content, pending)
    PROVE  b.ends = "built" /\ b.parent = f /\ b.pending = pending
<1> USE DEF IsTheTree
<1>1. PICK s \in Started(content, pending) : \E c \in Reattached(s) : b = Finished(content, c)
  BY DEF Rebuilds
<1>2. PICK c \in Reattached(s) : b = Finished(content, c)
  BY <1>1
<1>3. \A n \in DOMAIN content : Parents(content[n].em) # {}
  BY DEF MaxEdges
<1>4. s = Build(content, f, pending, "reattach")
  <2>1. PICK g \in [PresentIn(content) -> Nodes \cup {None}] :
            /\ g[Root] = None /\ \A n \in DOMAIN content : g[n] \in MaxEdges(content[n].em)
            /\ s = Build(content, g, pending, "reattach")
    BY <1>3 DEF Started
  <2>2. \A n \in PresentIn(content) : g[n] = f[n]
    BY <2>1 DEF PresentIn
  <2>3. g = f
    BY <2>1, <2>2
  <2> QED
    BY <2>1, <2>3
<1>5. /\ s.parent = f /\ s.pending = pending /\ s.ends = "reattach"
      /\ s.detached = {}
  BY <1>4 DEF Build, Rooted
<1>6. c = s
  <2> DEFINE Is(a) == a = [i \in 0 .. 0 |-> IF i = 0 THEN {s} ELSE UNION {Settle(x) : x \in a[i - 1]}]
             after == CHOOSE a : Is(a)
  <2>1. Cardinality(s.detached) = 0
    BY <1>5, FS_EmptySet
  <2>2. Reattached(s) = after[0]
    BY <2>1 DEF Reattached
  <2>3. Is([i \in 0 .. 0 |-> {s}])
    <3>1. \A i \in 0 .. 0 : i = 0
      OBVIOUS
    <3> QED
      BY <3>1
  <2>4. Is(after)
    <3> HIDE DEF Is
    <3> QED
      BY <2>3
  <2> HIDE DEF after
  <2>5. after[0] = {s}
    BY <2>4
  <2> QED
    BY <2>2, <2>5
<1>7. \A n \in DOMAIN content : f[n] \in PresentIn(content)
  <2> SUFFICES ASSUME NEW n \in DOMAIN content PROVE f[n] \in PresentIn(content)
    OBVIOUS
  <2>1. n \in Attached(f) /\ n # Root /\ Root \in DOMAIN f
    BY ContentFacts DEF Rooted, PresentIn
  <2>2. f[n] \in Attached(f)
    BY <2>1, AttachedParent
  <2> QED
    BY <2>2 DEF Rooted
<1>8. b = Finished(content, s)
  BY <1>2, <1>6
<1> QED
  BY <1>5, <1>7, <1>8 DEF Finished

-----------------------------------------------------------------------------
(* Without ties a rebuild has one outcome                                  *)

\* Builds that differ in nothing but the pending updates, and have the edges
\* of the document wherever the loop has yet to look.
Alike(content, b, c) ==
    /\ b.parent = c.parent /\ b.edges = c.edges
    /\ b.detached = c.detached /\ b.ends = c.ends
    /\ \A n \in b.detached : b.edges[n] = content[n].em

\* Where no two edges of a node have the same value, one of those outside a
\* set is the greatest.
LEMMA OneMaxEdgeOutside ==
    ASSUME NEW em \in EdgeMap, NEW S, NEW p \in MaxEdgesOutside(em, S), NEW q \in MaxEdgesOutside(em, S),
           \A x, y \in Parents(em) : em[x] = em[y] => x = y
    PROVE  p = q
<1>1. p \in Parents(em) /\ q \in Parents(em) /\ em[p] <= em[q] /\ em[q] <= em[p]
  BY DEF MaxEdgesOutside
<1>2. em[p] \in Int /\ em[q] \in Int
  BY <1>1 DEF Parents, EdgeMap, NoEdge
<1> QED
  BY <1>1, <1>2

LEMMA SettleAlike ==
    ASSUME NEW content, IsDoc(content), NoTies(content),
           NEW b \in Builds(content), NEW c \in Builds(content), Alike(content, b, c),
           b.detached # {}, NEW x \in Settle(b), NEW y \in Settle(c)
    PROVE  Alike(content, x, y)
<1> DEFINE next == First(b.detached)
<1>1. /\ b.parent \in [PresentIn(content) -> Nodes \cup {None}]
      /\ b.edges \in [PresentIn(content) -> EdgeMap]
      /\ b.detached \in SUBSET DOMAIN content
      /\ b.pending \in Updates /\ c.pending \in Updates
      /\ c.parent = b.parent /\ c.edges = b.edges /\ c.detached = b.detached /\ c.ends = b.ends
  BY DEF Builds, Alike
<1>2. next \in b.detached /\ First(c.detached) = next
  <2>1. b.detached \in SUBSET Nat
    BY <1>1, ContentFacts
  <2>2. \E n \in b.detached : \A m \in b.detached : n <= m
    BY <2>1, LeastNatural
  <2> QED
    BY <1>1, <2>2 DEF First
<1> HIDE DEF next
<1>3. CASE b.ends # "reattach"
  BY <1>1, <1>3 DEF Settle, Alike
<1>4. CASE b.ends = "reattach" /\ next \in Attached(b.parent)
  <2>1. x = [b EXCEPT !.detached = @ \ {next}] /\ y = [c EXCEPT !.detached = @ \ {next}]
    BY <1>1, <1>2, <1>4 DEF Settle, next
  <2> QED
    BY <1>1, <2>1 DEF Alike, Builds
<1>5. CASE b.ends = "reattach" /\ next \notin Attached(b.parent)
           /\ MaxEdgesOutside(b.edges[next], b.detached) = {}
  <2>1. x = [b EXCEPT !.ends = "bad_doc"] /\ y = [c EXCEPT !.ends = "bad_doc"]
    BY <1>1, <1>2, <1>5 DEF Settle, next
  <2> QED
    BY <1>1, <2>1 DEF Alike, Builds
<1>6. CASE b.ends = "reattach" /\ next \notin Attached(b.parent)
           /\ MaxEdgesOutside(b.edges[next], b.detached) # {}
  <2> DEFINE heads == MaxEdgesOutside(b.edges[next], b.detached)
  <2>1. PICK p \in heads :
            x = [b EXCEPT !.parent[next] = p,
                          !.edges[next] = AddEdge(@, p),
                          !.pending = Append(@, <<next, p, NextEdge(b.edges[next])>>),
                          !.detached = @ \ {next}]
    BY <1>6 DEF Settle, next
  <2>2. PICK q \in heads :
            y = [c EXCEPT !.parent[next] = q,
                          !.edges[next] = AddEdge(@, q),
                          !.pending = Append(@, <<next, q, NextEdge(c.edges[next])>>),
                          !.detached = @ \ {next}]
    <3>1. /\ First(c.detached) = next /\ c.ends = "reattach" /\ next \notin Attached(c.parent)
          /\ MaxEdgesOutside(c.edges[next], c.detached) = heads /\ heads # {}
      BY <1>1, <1>2, <1>6
    <3> HIDE DEF next, heads
    <3> QED
      BY <3>1 DEF Settle
  <2>3. p = q
    <3>1. next \in DOMAIN content /\ b.edges[next] = content[next].em /\ content[next].em \in EdgeMap
      BY <1>1, <1>2, ContentFacts DEF Alike
    <3>2. \A u, v \in Parents(content[next].em) : content[next].em[u] = content[next].em[v] => u = v
      BY <3>1 DEF NoTies
    <3> QED
      BY <2>1, <2>2, <3>1, <3>2, OneMaxEdgeOutside
  <2>4. /\ x.parent = [b.parent EXCEPT ![next] = p]
        /\ x.edges = [b.edges EXCEPT ![next] = AddEdge(b.edges[next], p)]
        /\ x.detached = b.detached \ {next}
        /\ x.ends = "reattach"
    BY <1>6, <2>1 DEF Builds
  <2>5. /\ y.parent = [b.parent EXCEPT ![next] = p]
        /\ y.edges = [b.edges EXCEPT ![next] = AddEdge(b.edges[next], p)]
        /\ y.detached = b.detached \ {next}
        /\ y.ends = "reattach"
    BY <1>1, <1>6, <2>2, <2>3 DEF Builds
  <2>6. \A n \in b.detached \ {next} : x.edges[n] = content[n].em
    <3>1. \A n \in b.detached \ {next} : b.edges[n] = content[n].em
      BY DEF Alike
    <3>2. \A n \in b.detached \ {next} : n \in DOMAIN b.edges
      BY <1>1 DEF PresentIn
    <3> QED
      BY <2>4, <3>1, <3>2
  <2> QED
    BY <2>4, <2>5, <2>6 DEF Alike
<1> QED
  BY <1>3, <1>4, <1>5, <1>6

\* A build that may be met in the loop, with so many nodes left to look at.
Looping(content, carried, k) ==
    {b \in Builds(content) : Settled(content, b) /\ Recorded(content, carried, b) /\ Left(b, k)}

\* The iterations of two builds that are alike go on alike.
LEMMA ReattachedAlike ==
    ASSUME NEW content, IsDoc(content), NoTies(content), NEW pb, NEW pc,
           NEW b \in Builds(content), Settled(content, b), Recorded(content, pb, b),
           NEW c \in Builds(content), Settled(content, c), Recorded(content, pc, c),
           Alike(content, b, c), NEW x \in Reattached(b), NEW y \in Reattached(c)
    PROVE  Alike(content, x, y)
<1> DEFINE N == Cardinality(b.detached)
<1>1. N \in Nat /\ IsFiniteSet(b.detached) /\ c.detached = b.detached
  BY ContentFacts, FS_Subset, FS_CardinalityType DEF Builds, Alike
<1>2. PICK f : IsReattaching(f, b) /\ Reattached(b) = f[N]
  BY ReattachedIsLast
<1>3. PICK g : IsReattaching(g, c) /\ Reattached(c) = g[N]
  BY <1>1, ReattachedIsLast
<1> HIDE DEF N
<1>4. /\ f = [i \in 0 .. N |-> IF i = 0 THEN {b} ELSE UNION {Settle(z) : z \in f[i - 1]}]
      /\ g = [i \in 0 .. N |-> IF i = 0 THEN {c} ELSE UNION {Settle(z) : z \in g[i - 1]}]
  BY <1>1, <1>2, <1>3 DEF IsReattaching, N
<1> DEFINE P(i) == /\ f[i] \subseteq Looping(content, pb, N - i)
                   /\ g[i] \subseteq Looping(content, pc, N - i)
                   /\ \A u \in f[i], v \in g[i] : Alike(content, u, v)
           T    == {i \in 0 .. N : ~ P(i)}
<1>5. P(0)
  <2>1. f[0] = {b} /\ g[0] = {c} /\ N - 0 = N
    BY <1>1, <1>4
  <2>2. b \in Looping(content, pb, N) /\ c \in Looping(content, pc, N)
    BY <1>1 DEF Looping, Left, N
  <2> QED
    BY <2>1, <2>2
<1>6. ASSUME NEW i \in 1 .. N, P(i - 1)
      PROVE  P(i)
  <2>1. /\ i \in 0 .. N /\ i # 0 /\ N - (i - 1) \in Nat /\ N - (i - 1) # 0
        /\ N - (i - 1) - 1 = N - i
    BY <1>1
  <2>2. /\ f[i] = UNION {Settle(z) : z \in f[i - 1]}
        /\ g[i] = UNION {Settle(z) : z \in g[i - 1]}
    BY <1>4, <2>1
  <2>3. ASSUME NEW u \in f[i]
        PROVE  u \in Looping(content, pb, N - i)
    <3>1. PICK z \in f[i - 1] : u \in Settle(z)
      BY <2>2
    <3>2. z \in Looping(content, pb, N - (i - 1))
      BY <1>6, <3>1
    <3> QED
      BY <2>1, <3>1, <3>2, SettleFacts DEF Looping
  <2>4. ASSUME NEW v \in g[i]
        PROVE  v \in Looping(content, pc, N - i)
    <3>1. PICK z \in g[i - 1] : v \in Settle(z)
      BY <2>2
    <3>2. z \in Looping(content, pc, N - (i - 1))
      BY <1>6, <3>1
    <3> QED
      BY <2>1, <3>1, <3>2, SettleFacts DEF Looping
  <2>5. ASSUME NEW u \in f[i], NEW v \in g[i]
        PROVE  Alike(content, u, v)
    <3>1. PICK z \in f[i - 1] : u \in Settle(z)
      BY <2>2
    <3>2. PICK w \in g[i - 1] : v \in Settle(w)
      BY <2>2
    <3>3. /\ z \in Looping(content, pb, N - (i - 1)) /\ w \in Looping(content, pc, N - (i - 1))
          /\ Alike(content, z, w)
      BY <1>6, <3>1, <3>2
    <3>4. CASE z.ends = "reattach"
      <4>1. z.detached # {}
        BY <2>1, <3>3, <3>4, FS_EmptySet DEF Looping, Left
      <4> QED
        BY <3>1, <3>2, <3>3, <4>1, SettleAlike DEF Looping
    <3>5. CASE z.ends # "reattach"
      BY <3>1, <3>2, <3>3, <3>5 DEF Settle, Alike
    <3> QED
      BY <3>4, <3>5
  <2> QED
    BY <2>3, <2>4, <2>5
<1>7. P(N)
  <2> SUFFICES ASSUME T # {} PROVE FALSE
    BY <1>1
  <2>1. PICK i \in T : \A j \in T : i <= j
    <3>1. T \in SUBSET Nat
      BY <1>1
    <3> HIDE DEF T
    <3> QED
      BY <3>1, LeastNatural
  <2>2. i # 0
    BY <1>5, <2>1
  <2>3. i \in 1 .. N /\ i - 1 \in 0 .. N /\ i - 1 \notin T
    BY <1>1, <2>1, <2>2
  <2> QED
    BY <1>6, <2>1, <2>3
<1> QED
  BY <1>2, <1>3, <1>7

\* The loop leaves a build that has ended as it is.
LEMMA ReattachedEnded ==
    ASSUME NEW content, IsDoc(content), NEW carried,
           NEW b \in Builds(content), Settled(content, b), Recorded(content, carried, b),
           b.ends # "reattach", NEW x \in Reattached(b)
    PROVE  x = b
<1> DEFINE N == Cardinality(b.detached)
           D == [i \in 0 .. N |-> SUBSET {b}]
<1>1. N \in Nat
  BY ContentFacts, FS_Subset, FS_CardinalityType DEF Builds
<1>2. PICK f : IsReattaching(f, b) /\ Reattached(b) = f[N]
  BY ReattachedIsLast
<1> HIDE DEF N
<1>3. f = [i \in 0 .. N |-> IF i = 0 THEN {b} ELSE UNION {Settle(z) : z \in f[i - 1]}]
  BY <1>2 DEF IsReattaching, N
<1>4. f[0] \in D[0]
  BY <1>1, <1>3
<1>5. \A i \in 1 .. N : f[i - 1] \in D[i - 1] => f[i] \in D[i]
  <2> SUFFICES ASSUME NEW i \in 1 .. N, f[i - 1] \in D[i - 1]
               PROVE  f[i] \in D[i]
    OBVIOUS
  <2>1. i \in 0 .. N /\ i # 0 /\ i - 1 \in 0 .. N
    BY <1>1
  <2>2. f[i] = UNION {Settle(z) : z \in f[i - 1]} /\ f[i - 1] \subseteq {b}
    BY <1>3, <2>1
  <2>3. Settle(b) = {b}
    BY DEF Settle
  <2> QED
    BY <2>1, <2>2, <2>3
<1>6. \A i \in 0 .. N : f[i] \in D[i]
  <2> HIDE DEF D
  <2> QED
    BY <1>1, <1>4, <1>5, BoundedInduction
<1> QED
  BY <1>1, <1>2, <1>6

\* Builds of a document without ties start alike.
LEMMA StartedAlike ==
    ASSUME NEW content, IsDoc(content), NoTies(content), NEW pb, NEW pc,
           NEW b \in Started(content, pb), NEW c \in Started(content, pc),
           b.ends = "reattach"
    PROVE  Alike(content, b, c)
<1>1. {n \in DOMAIN content : Parents(content[n].em) = {}} = {}
  BY DEF Started, Build
<1>2. PICK f \in [PresentIn(content) -> Nodes \cup {None}] :
          /\ b = Build(content, f, pb, "reattach") /\ f[Root] = None
          /\ \A n \in DOMAIN content : f[n] \in MaxEdges(content[n].em)
  BY <1>1 DEF Started
<1>3. PICK g \in [PresentIn(content) -> Nodes \cup {None}] :
          /\ c = Build(content, g, pc, "reattach") /\ g[Root] = None
          /\ \A n \in DOMAIN content : g[n] \in MaxEdges(content[n].em)
  BY <1>1 DEF Started
<1>4. \A n \in DOMAIN content : f[n] = g[n]
  BY <1>2, <1>3, ContentFacts, OnlyMaxEdge DEF NoTies
<1>5. f = g
  BY <1>2, <1>3, <1>4 DEF PresentIn
<1>6. \A n \in PresentIn(content) \ Attached(f) : n \in PresentIn(content) /\ n # Root
  <2>1. Root \in Attached(f)
    BY AttachedIsClosed DEF Closed, Attached, PresentIn
  <2> QED
    BY <2>1
<1> QED
  BY <1>2, <1>3, <1>5, <1>6 DEF Alike, Build

\* A document in which no node has two edges of the same value determines the
\* tree that a rebuild leaves, whatever updates are pending.
THEOREM TieFreeRebuild ==
    ASSUME NEW content, IsDoc(content), NoTies(content),
           NEW pb \in Updates, NEW pc \in Updates,
           NEW b \in Rebuilds(content, pb), NEW c \in Rebuilds(content, pc), b.ends = "built"
    PROVE  c.ends = "built" /\ b.parent = c.parent /\ b.children = c.children
<1>1. PICK s \in Started(content, pb) : \E x \in Reattached(s) : b = Finished(content, x)
  BY DEF Rebuilds
<1>2. PICK t \in Started(content, pc) : \E y \in Reattached(t) : c = Finished(content, y)
  BY DEF Rebuilds
<1>3. /\ s \in Builds(content) /\ Settled(content, s) /\ Recorded(content, pb, s)
      /\ t \in Builds(content) /\ Settled(content, t) /\ Recorded(content, pc, t)
  BY StartedFacts
<1>4. PICK x \in Reattached(s) : b = Finished(content, x)
  BY <1>1
<1>5. PICK y \in Reattached(t) : c = Finished(content, y)
  BY <1>2
<1>6. s.ends = "reattach"
  <2>1. x.ends # "bad_doc"
    BY <1>4 DEF Finished
  <2>2. s.ends \in {"reattach", "bad_doc"}
    BY <1>3 DEF Builds
  <2> QED
    BY <1>3, <2>1, <2>2, ReattachedEnded
<1>7. Alike(content, x, y)
  BY <1>3, <1>6, StartedAlike, ReattachedAlike
<1> QED
  BY <1>4, <1>5, <1>7 DEF Alike, Finished
=============================================================================
