------------------------ MODULE TreeStructureProofs ------------------------
(* Theorems about the rebuild of the cached tree, for every finite set of  *)
(* ids, every set of edge maps and every number of updates.                *)
EXTENDS TreeStructure, RebuildProofs

-----------------------------------------------------------------------------
(* Type correctness                                                        *)

\* The root is present and is not one of the containers.
LEMMA PresentFacts ==
    ASSUME IsDoc(doc)
    PROVE  /\ Root \in Present /\ Root \notin DOMAIN doc
           /\ Present \subseteq Nodes /\ Present \ {Root} = DOMAIN doc
BY IdsAssumption DEF IsDoc, Present, PresentIn, Nodes, Root

\* The state after the document changed: the nodes of the new document, none
\* of them with a parent.
LEMMA ApplyYjsUpdateType ==
    ASSUME TypeOK, ApplyYjsUpdate
    PROVE  TypeOK'
<1>1. IsDoc(doc')
  <2>1. PICK S \in SUBSET Ids : doc' \in [S -> [em : EdgeMaps, fi : Indices]]
    BY DEF ApplyYjsUpdate
  <2>2. [em : EdgeMaps, fi : Indices] \subseteq Container
    BY EdgeMapsAssumption, IndicesAssumption DEF Container
  <2> QED
    BY <2>1, <2>2 DEF IsDoc
<1>2. parent' \in [Present' -> Nodes \cup {None}]
  BY DEF ApplyYjsUpdate
<1>3. edges' \in [Present' -> EdgeMap]
  <2>1. \A n \in DOMAIN doc' : doc'[n].em \in EdgeMap
    BY <1>1 DEF IsDoc, Container
  <2>2. NoEdges \in EdgeMap
    BY DEF NoEdges, EdgeMap
  <2>3. edges' = [n \in Present' |-> IF n = Root THEN NoEdges ELSE doc'[n].em]
    BY DEF ApplyYjsUpdate
  <2> QED
    BY <2>1, <2>2, <2>3 DEF Present, PresentIn
<1>4. DOMAIN children' = Present' /\ detached' \subseteq DOMAIN doc'
  BY DEF ApplyYjsUpdate
<1>5. pending' \in Seq(Pending) /\ carried' \in Nat
  BY DEF ApplyYjsUpdate, TypeOK
<1>6. phase' \in Building \cup Ended /\ updates' \in 0 .. MaxUpdates
  BY MaxUpdatesAssumption DEF ApplyYjsUpdate, TypeOK, Building
<1> QED
  BY <1>1, <1>2, <1>3, <1>4, <1>5, <1>6 DEF TypeOK

\* A node that is moved gets a parent and an edge; the edge is left pending.
LEMMA ReattachType ==
    ASSUME TypeOK, Reattach
    PROVE  TypeOK'
<1>1. PICK next \in detached :
          /\ \E p \in MaxEdgesOutside(edges[next], detached) :
                /\ parent' = [parent EXCEPT ![next] = p]
                /\ edges' = [edges EXCEPT ![next] = AddEdge(@, p)]
                /\ pending' = Append(pending, <<next, p, NextEdge(edges[next])>>)
          /\ detached' = detached \ {next}
  BY DEF Reattach
<1>2. PICK p \in MaxEdgesOutside(edges[next], detached) :
          /\ parent' = [parent EXCEPT ![next] = p]
          /\ edges' = [edges EXCEPT ![next] = AddEdge(@, p)]
          /\ pending' = Append(pending, <<next, p, NextEdge(edges[next])>>)
  BY <1>1
<1>3. p \in Nodes /\ next \in Present /\ next \in Ids /\ edges[next] \in EdgeMap
  BY <1>1, <1>2 DEF TypeOK, IsDoc, Present, PresentIn, MaxEdgesOutside, Parents
<1>4. AddEdge(edges[next], p) \in EdgeMap /\ NextEdge(edges[next]) \in Nat
  BY <1>3, AddEdgeIsUniqueMax
<1>5. /\ parent' \in [Present -> Nodes \cup {None}]
      /\ edges' \in [Present -> EdgeMap]
  BY <1>2, <1>3, <1>4 DEF TypeOK
<1>6. pending' \in Seq(Pending)
  BY <1>2, <1>3, <1>4 DEF TypeOK, Pending
<1> QED
  BY <1>1, <1>5, <1>6 DEF TypeOK, Reattach, Present, PresentIn

\* What is written back to the document are edge maps.
LEMMA ApplyPendingType ==
    ASSUME TypeOK, ApplyPendingEdgeMapUpdates
    PROVE  TypeOK'
<1>1. doc' = [n \in DOMAIN doc |-> [doc[n] EXCEPT !.em = Written(@, n, pending)]]
  BY DEF ApplyPendingEdgeMapUpdates
<1>2. ASSUME NEW n \in DOMAIN doc
      PROVE  [doc[n] EXCEPT !.em = Written(@, n, pending)] \in Container
  <2>1. doc[n] \in [em : EdgeMap, fi : Nat] /\ n \in Ids /\ pending \in Seq(Pending)
    BY DEF TypeOK, IsDoc, Container
  <2>2. Written(doc[n].em, n, pending) \in EdgeMap
    BY <2>1, WrittenType DEF Updates, Pending
  <2> QED
    BY <2>1, <2>2 DEF Container
<1>3. IsDoc(doc') /\ DOMAIN doc' = DOMAIN doc
  BY <1>1, <1>2 DEF IsDoc, TypeOK
<1>4. pending' \in Seq(Pending)
  BY DEF ApplyPendingEdgeMapUpdates
<1> QED
  BY <1>3, <1>4 DEF TypeOK, ApplyPendingEdgeMapUpdates, Present, PresentIn

\* Every state of every behaviour is well typed; in particular a parent is
\* always a node or none, and what the library writes are edge maps.
THEOREM TypeCorrect == Spec => []TypeOK
<1>1. Init => TypeOK
  <2> SUFFICES ASSUME Init PROVE TypeOK
    OBVIOUS
  <2>1. Present = {Root} /\ IsDoc(doc)
    BY DEF Init, Present, PresentIn, IsDoc
  <2>2. NoEdges \in EdgeMap
    BY DEF NoEdges, EdgeMap
  <2> QED
    BY <2>1, <2>2, MaxUpdatesAssumption DEF Init, TypeOK, Ended, Nodes
<1>2. TypeOK /\ [Next]_vars => TypeOK'
  <2> SUFFICES ASSUME TypeOK, [Next]_vars PROVE TypeOK'
    OBVIOUS
  <2>1. CASE ApplyYjsUpdate
    BY <2>1, ApplyYjsUpdateType
  <2>2. CASE ProcessParents
    <3>1. DOMAIN parent' = Present /\ Root \in Attached(parent') /\ Root \notin DOMAIN doc
      BY <2>2, PresentFacts, AttachedIsClosed DEF ProcessParents, TypeOK, Closed
    <3>2. detached' \subseteq DOMAIN doc
      BY <2>2, <3>1 DEF ProcessParents, Present, PresentIn
    <3> QED
      BY <2>2, <3>2 DEF ProcessParents, TypeOK, Present, PresentIn, Building
  <2>3. CASE ProcessParentsFails
    BY <2>3 DEF ProcessParentsFails, TypeOK, Present, PresentIn, Ended
  <2>4. CASE SkipAttached
    BY <2>4 DEF SkipAttached, TypeOK, Present, PresentIn
  <2>5. CASE Reattach
    BY <2>5, ReattachType
  <2>6. CASE ReattachFails
    BY <2>6 DEF ReattachFails, TypeOK, Present, PresentIn, Ended
  <2>7. CASE UpdateChildrenOrder
    BY <2>7 DEF UpdateChildrenOrder, TypeOK, Present, PresentIn, Ended
  <2>8. CASE UpdateChildrenPanics
    BY <2>8 DEF UpdateChildrenPanics, TypeOK, Present, PresentIn, Ended
  <2>9. CASE ApplyPendingEdgeMapUpdates
    BY <2>9, ApplyPendingType
  <2>10. CASE ApplyPendingPanics
    BY <2>10 DEF ApplyPendingPanics, TypeOK, Present, PresentIn, Ended
  <2>11. CASE UNCHANGED vars
    BY <2>11 DEF vars, TypeOK, Present, PresentIn
  <2> QED
    BY <2>1, <2>2, <2>3, <2>4, <2>5, <2>6, <2>7, <2>8, <2>9, <2>10, <2>11
    DEF Next, InitFromYjs
<1> QED
  BY <1>1, <1>2, PTL DEF Spec

-----------------------------------------------------------------------------
(* The tree is rooted after every build                                    *)

\* The cached tree of a finished build is rooted because, while the loop of
\* reattach_nodes runs, the nodes it no longer has to look at lead to the
\* root. Neither conjunct is inductive without the other and the types.
Inv == TypeOK /\ BuiltIsRooted /\ SettledNodesAttached

\* The root, which never gets a parent, is attached in every state.
LEMMA RootAttached ==
    ASSUME TypeOK
    PROVE  /\ Root \in DOMAIN parent /\ DOMAIN parent = Present
           /\ Root \in Attached(parent) /\ Attached(parent) \subseteq Present
BY PresentFacts, AttachedIsClosed DEF TypeOK, Closed, Attached

\* An iteration that moves a node keeps the loop invariant. If the new parent
\* has no container, the node is the excuse. If it is attached, the node is
\* attached now. Otherwise the new parent is a settled node that does not lead
\* to the root, so there was an excuse before, which the iteration keeps.
LEMMA ReattachSettles ==
    ASSUME TypeOK, SettledNodesAttached, Reattach
    PROVE  SettledNodesAttached'
<1>1. PICK next \in detached :
          /\ next \notin Attached(parent)
          /\ \E p \in MaxEdgesOutside(edges[next], detached) :
                parent' = [parent EXCEPT ![next] = p]
          /\ detached' = detached \ {next}
  BY DEF Reattach
<1>2. PICK p \in MaxEdgesOutside(edges[next], detached) :
          parent' = [parent EXCEPT ![next] = p]
  BY <1>1
<1>3. p \notin detached
  BY <1>2 DEF MaxEdgesOutside
<1>4. /\ phase = "reattach" /\ doc' = doc /\ Present' = Present
      /\ next \in DOMAIN doc /\ next \in DOMAIN parent \ Attached(parent)
  BY <1>1, RootAttached DEF Reattach, TypeOK, Present, PresentIn
<1>5. /\ Attached(parent) \subseteq Attached(parent')
      /\ p \in Attached(parent) => next \in Attached(parent')
  BY <1>2, <1>4, RootAttached, ReparentDetached
<1>6. /\ parent'[next] = p
      /\ \A n \in DOMAIN doc \ {next} : parent'[n] = parent[n]
  BY <1>2, <1>4, RootAttached DEF Present, PresentIn
<1>7. CASE p \notin Present
  <2>1. next \in DOMAIN doc' \ detached' /\ parent'[next] \notin Present'
    BY <1>1, <1>4, <1>6, <1>7
  <2> QED
    BY <2>1 DEF SettledNodesAttached
<1>8. CASE \E n \in DOMAIN doc \ detached : parent[n] \notin Present
  <2>1. PICK n \in DOMAIN doc \ detached : parent[n] \notin Present
    BY <1>8
  <2>2. n \in DOMAIN doc' \ detached' /\ parent'[n] \notin Present'
    BY <1>1, <1>4, <1>6, <2>1
  <2> QED
    BY <2>2 DEF SettledNodesAttached
<1>9. CASE p \in Present /\ Present \ detached \subseteq Attached(parent)
  <2>1. next \in Attached(parent')
    BY <1>3, <1>5, <1>9
  <2>2. Present' \ detached' \subseteq Attached(parent')
    BY <1>1, <1>4, <1>5, <1>9, <2>1
  <2> QED
    BY <2>2 DEF SettledNodesAttached
<1> QED
  BY <1>4, <1>7, <1>8, <1>9 DEF SettledNodesAttached

\* Inv is an inductive invariant.
LEMMA InvInductive ==
    ASSUME Inv, TypeOK', [Next]_vars
    PROVE  Inv'
<1> USE DEF Inv
<1>1. CASE ApplyYjsUpdate
  BY <1>1 DEF ApplyYjsUpdate, BuiltIsRooted, SettledNodesAttached
<1>2. CASE ProcessParents
  <2>1. Present' = Present /\ detached' = Present \ Attached(parent')
    BY <1>2 DEF ProcessParents, Present, PresentIn
  <2> QED
    BY <1>2, <2>1 DEF ProcessParents, BuiltIsRooted, SettledNodesAttached
<1>3. CASE ProcessParentsFails
  BY <1>3 DEF ProcessParentsFails, BuiltIsRooted, SettledNodesAttached
<1>4. CASE SkipAttached
  <2>1. Present' = Present /\ parent' = parent /\ doc' = doc /\ phase = "reattach" /\ phase' = phase
    BY <1>4 DEF SkipAttached, Present, PresentIn
  <2>2. PICK next \in Attached(parent) : detached' = detached \ {next}
    BY <1>4 DEF SkipAttached
  <2>3. SettledNodesAttached'
    BY <2>1, <2>2 DEF SettledNodesAttached
  <2> QED
    BY <2>1, <2>3 DEF BuiltIsRooted
<1>5. CASE Reattach
  <2>1. SettledNodesAttached'
    BY <1>5, ReattachSettles
  <2> QED
    BY <1>5, <2>1 DEF Reattach, BuiltIsRooted
<1>6. CASE ReattachFails
  BY <1>6 DEF ReattachFails, BuiltIsRooted, SettledNodesAttached
<1>7. CASE UpdateChildrenOrder
  <2>1. Present \subseteq Attached(parent)
    BY <1>7 DEF UpdateChildrenOrder, SettledNodesAttached
  <2>2. Rooted(parent)
    BY <2>1, RootAttached DEF Rooted
  <2> QED
    BY <1>7, <2>2 DEF UpdateChildrenOrder, BuiltIsRooted, SettledNodesAttached, Rooted
<1>8. CASE UpdateChildrenPanics
  BY <1>8 DEF UpdateChildrenPanics, BuiltIsRooted, SettledNodesAttached
<1>9. CASE ApplyPendingEdgeMapUpdates
  BY <1>9 DEF ApplyPendingEdgeMapUpdates, BuiltIsRooted, SettledNodesAttached
<1>10. CASE ApplyPendingPanics
  BY <1>10 DEF ApplyPendingPanics, BuiltIsRooted, SettledNodesAttached
<1>11. CASE UNCHANGED vars
  BY <1>11 DEF vars, BuiltIsRooted, SettledNodesAttached, Present, PresentIn
<1> QED
  BY <1>1, <1>2, <1>3, <1>4, <1>5, <1>6, <1>7, <1>8, <1>9, <1>10, <1>11
  DEF Next, InitFromYjs

\* The inductive invariant holds in every state of a behaviour.
LEMMA InvInvariant == Spec => []Inv
<1>1. Init /\ TypeOK => Inv
  <2> SUFFICES ASSUME Init, TypeOK PROVE Inv
    OBVIOUS
  <2>1. Rooted(parent)
    BY RootAttached DEF Init, Rooted
  <2> QED
    BY <2>1 DEF Init, Inv, BuiltIsRooted, SettledNodesAttached
<1>2. Inv /\ TypeOK' /\ [Next]_vars => Inv'
  BY InvInductive
<1> QED
  BY <1>1, <1>2, TypeCorrect, PTL DEF Spec

\* Whatever the document holds - cycles, nodes that are their own parent,
\* edges that tie - the tree that a build leaves in the cache is a tree: every
\* node present leads to the root.
THEOREM BuiltAlwaysRooted == Spec => []BuiltIsRooted
BY InvInvariant, PTL DEF Inv

\* The loop invariant of reattach_nodes.
THEOREM SettledAlwaysAttached == Spec => []SettledNodesAttached
BY InvInvariant, PTL DEF Inv

\* Breaking cycles leaves alone every node that is attached.
THEOREM RepairAlwaysOnlyAttaches == Spec => RepairOnlyAttaches
<1>1. ASSUME TypeOK, [Next]_vars, phase = "reattach", phase' = "reattach",
             NEW n \in Attached(parent)
      PROVE  n \in Attached(parent') /\ parent'[n] = parent[n]
  <2>1. CASE Reattach
    <3>1. PICK next \in detached, p \in Nodes :
              next \notin Attached(parent) /\ parent' = [parent EXCEPT ![next] = p]
      BY <2>1 DEF Reattach, MaxEdgesOutside, Parents
    <3>2. next \in DOMAIN parent \ Attached(parent)
      BY <1>1, <3>1, RootAttached DEF TypeOK, Present, PresentIn
    <3>3. Attached(parent) \subseteq Attached(parent')
      BY <1>1, <3>1, <3>2, RootAttached, ReparentDetached
    <3> QED
      BY <1>1, <3>1, <3>3, RootAttached
  <2>2. CASE ~ Reattach
    BY <1>1, <2>2 DEF Next, InitFromYjs, ApplyYjsUpdate, ProcessParents,
       ProcessParentsFails, SkipAttached, ReattachFails, UpdateChildrenOrder,
       UpdateChildrenPanics, ApplyPendingEdgeMapUpdates, ApplyPendingPanics, vars
  <2> QED
    BY <2>1, <2>2
<1>2. TypeOK /\ [Next]_vars =>
          [phase = "reattach" /\ phase' = "reattach" =>
             \A n \in Attached(parent) :
                 n \in Attached(parent') /\ parent'[n] = parent[n]]_vars
  BY <1>1
<1> QED
  BY <1>2, TypeCorrect, PTL DEF Spec, RepairOnlyAttaches

-----------------------------------------------------------------------------
(* The repairs left pending are the ones the tree shows                    *)

\* What a node's edge map will be in the document is what it is in the cache,
\* and the cached parent is the one that it gives.
Repaired(n) ==
    LET em == Written(doc[n].em, n, pending) IN
        /\ edges[n] = em
        /\ parent[n] \in MaxEdges(em)
        /\ em # doc[n].em => MaxEdges(em) = {parent[n]}

\* While the loop runs, the repairs so far are the difference between the
\* document and the cached edge maps; RepairWillPersist alone says nothing of
\* the loop.
RepairInv ==
    carried = 0 =>
        /\ phase = "parents" =>
            pending = <<>> /\ \A n \in DOMAIN doc : edges[n] = doc[n].em
        /\ phase = "reattach" => \A n \in DOMAIN doc : Repaired(n)
        /\ RepairWillPersist

\* The repair of a node is what its edge map in the document lacks.
LEMMA ReattachRepairs ==
    ASSUME TypeOK, Reattach, \A n \in DOMAIN doc : Repaired(n)
    PROVE  \A n \in DOMAIN doc' : Repaired(n)'
<1>1. PICK next \in detached :
          \E p \in MaxEdgesOutside(edges[next], detached) :
              /\ parent' = [parent EXCEPT ![next] = p]
              /\ edges' = [edges EXCEPT ![next] = AddEdge(@, p)]
              /\ pending' = Append(pending, <<next, p, NextEdge(edges[next])>>)
  BY DEF Reattach
<1>2. PICK p \in MaxEdgesOutside(edges[next], detached) :
          /\ parent' = [parent EXCEPT ![next] = p]
          /\ edges' = [edges EXCEPT ![next] = AddEdge(@, p)]
          /\ pending' = Append(pending, <<next, p, NextEdge(edges[next])>>)
  BY <1>1
<1>3. /\ doc' = doc /\ next \in DOMAIN doc /\ p \in Nodes
      /\ DOMAIN doc \subseteq Ids /\ DOMAIN doc \subseteq Present
      /\ edges \in [Present -> EdgeMap] /\ parent \in [Present -> Nodes \cup {None}]
      /\ pending \in Seq(Pending)
      /\ \A n \in DOMAIN doc : doc[n].em \in EdgeMap
  BY <1>1, <1>2 DEF Reattach, TypeOK, IsDoc, Present, PresentIn, MaxEdgesOutside, Parents, Container
<1>4. /\ NextEdge(edges[next]) \in Nat
      /\ MaxEdges(AddEdge(edges[next], p)) = {p}
  BY <1>3, AddEdgeIsUniqueMax
<1>9. pending \in Updates /\ next \in Ids /\ \A n \in DOMAIN doc : n \in Ids
  BY <1>3 DEF Updates, Pending
<1>5. ASSUME NEW n \in DOMAIN doc
      PROVE  Written(doc[n].em, n, pending') =
                IF n = next THEN [Written(doc[n].em, n, pending) EXCEPT ![p] = NextEdge(edges[next])]
                            ELSE Written(doc[n].em, n, pending)
  BY <1>2, <1>3, <1>4, <1>9, WrittenAppend
<1>6. ASSUME NEW n \in DOMAIN doc, n # next
      PROVE  Repaired(n)'
  <2>1. edges'[n] = edges[n] /\ parent'[n] = parent[n]
    BY <1>2, <1>3, <1>6
  <2> QED
    BY <1>3, <1>5, <1>6, <2>1 DEF Repaired
<1>7. Repaired(next)'
  <2>1. edges'[next] = AddEdge(edges[next], p) /\ parent'[next] = p
    BY <1>2, <1>3
  <2>2. Written(doc[next].em, next, pending') = AddEdge(edges[next], p)
    BY <1>3, <1>5 DEF Repaired, AddEdge
  <2> QED
    BY <1>3, <1>4, <2>1, <2>2 DEF Repaired
<1> QED
  BY <1>3, <1>6, <1>7

\* After the repairs are written the document says what the tree shows.
LEMMA ApplyPendingPersists ==
    ASSUME TypeOK, RepairInv, ApplyPendingEdgeMapUpdates, carried = 0
    PROVE  RepairWillPersist'
<1>1. /\ phase = "built" /\ pending' = <<>> /\ parent' = parent
      /\ doc' = [n \in DOMAIN doc |-> [doc[n] EXCEPT !.em = Written(@, n, pending)]]
  BY DEF ApplyPendingEdgeMapUpdates
<1>2. ASSUME NEW n \in DOMAIN doc
      PROVE  /\ parent'[n] \in MaxEdges(Written(doc'[n].em, n, pending'))
             /\ Written(doc'[n].em, n, pending') = doc'[n].em
  <2>1. doc[n] \in [em : EdgeMap, fi : Nat] /\ n \in Ids /\ pending \in Seq(Pending)
    BY DEF TypeOK, IsDoc, Container
  <2>2. doc'[n].em = Written(doc[n].em, n, pending)
    BY <1>1, <2>1
  <2>3. doc'[n].em \in EdgeMap
    BY <2>1, <2>2, WrittenType DEF Updates, Pending
  <2>4. Written(doc'[n].em, n, pending') = doc'[n].em
    BY <1>1, <2>1, <2>3, WrittenNothing
  <2>5. parent[n] \in MaxEdges(Written(doc[n].em, n, pending))
    BY <1>1 DEF RepairInv, RepairWillPersist
  <2> QED
    BY <1>1, <2>2, <2>4, <2>5
<1>3. DOMAIN doc' = DOMAIN doc
  BY <1>1
<1> QED
  BY <1>2, <1>3 DEF RepairWillPersist

\* RepairInv is inductive, given the types.
LEMMA RepairInvInductive ==
    ASSUME TypeOK, RepairInv, [Next]_vars
    PROVE  RepairInv'
<1> USE DEF RepairWillPersist
<1>1. CASE ApplyYjsUpdate
  <2>1. /\ carried' = Len(pending) /\ pending' = pending /\ phase' = "parents"
        /\ \E S \in SUBSET Ids : doc' \in [S -> [em : EdgeMaps, fi : Indices]]
        /\ edges' = [n \in Present' |-> IF n = Root THEN NoEdges ELSE doc'[n].em]
    BY <1>1 DEF ApplyYjsUpdate
  <2>2. carried' = 0 => pending' = <<>>
    <3>1. pending \in Seq(Pending)
      BY DEF TypeOK
    <3> HIDE DEF Pending
    <3> QED
      BY <2>1, <3>1, EmptySeq
  <2>3. \A n \in DOMAIN doc' : edges'[n] = doc'[n].em
    BY <2>1, IdsAssumption DEF Present, PresentIn, Root
  <2> QED
    BY <2>1, <2>2, <2>3 DEF RepairInv
<1>2. CASE ProcessParents
  <2>1. ASSUME carried = 0, NEW n \in DOMAIN doc
        PROVE  Repaired(n)'
    <3>1. /\ doc' = doc /\ edges' = edges /\ pending' = <<>> /\ edges[n] = doc[n].em
          /\ parent'[n] \in MaxEdges(edges[n])
      BY <1>2, <2>1 DEF ProcessParents, RepairInv
    <3>2. Written(doc[n].em, n, <<>>) = doc[n].em
      <4>1. doc[n].em \in EdgeMap /\ n \in Ids
        BY DEF TypeOK, IsDoc, Container
      <4> QED
        BY <4>1, WrittenNothing
    <3> QED
      BY <3>1, <3>2 DEF Repaired
  <2>2. /\ doc' = doc /\ carried' = carried /\ phase' = "reattach"
    BY <1>2 DEF ProcessParents
  <2> QED
    BY <2>1, <2>2 DEF RepairInv
<1>3. CASE SkipAttached \/ UNCHANGED vars
  <2>1. UNCHANGED <<doc, parent, edges, pending, carried, phase>>
    BY <1>3 DEF SkipAttached, vars
  <2> QED
    BY <2>1 DEF RepairInv, Repaired
<1>4. CASE Reattach
  <2>1. carried = 0 => \A n \in DOMAIN doc' : Repaired(n)'
    BY <1>4, ReattachRepairs DEF RepairInv, Reattach
  <2>2. carried' = carried /\ phase' = "reattach"
    BY <1>4 DEF Reattach
  <2> QED
    BY <2>1, <2>2 DEF RepairInv
<1>5. CASE UpdateChildrenOrder
  <2>1. /\ UNCHANGED <<doc, parent, pending, carried>>
        /\ phase = "reattach" /\ phase' = "built"
    BY <1>5 DEF UpdateChildrenOrder
  <2> QED
    BY <2>1 DEF RepairInv, Repaired
<1>6. CASE ApplyPendingEdgeMapUpdates
  <2>1. carried = 0 => RepairWillPersist'
    BY <1>6, ApplyPendingPersists
  <2>2. carried' = carried /\ phase' = "built"
    BY <1>6 DEF ApplyPendingEdgeMapUpdates
  <2> QED
    BY <2>1, <2>2 DEF RepairInv
<1>7. CASE ProcessParentsFails \/ ReattachFails \/ UpdateChildrenPanics \/ ApplyPendingPanics
  <2>1. phase' \in {"bad_doc", "panicked"}
    BY <1>7 DEF ProcessParentsFails, ReattachFails, UpdateChildrenPanics, ApplyPendingPanics
  <2> QED
    BY <2>1 DEF RepairInv
<1> QED
  BY <1>1, <1>2, <1>3, <1>4, <1>5, <1>6, <1>7 DEF Next, InitFromYjs

\* The repairs that a build leaves pending are those that make the document
\* give every node the parent that the tree shows, for any number of cycles.
THEOREM RepairsAlwaysPersist == Spec => []RepairWillPersist
<1>1. Init => RepairInv
  BY DEF Init, RepairInv, RepairWillPersist
<1>2. TypeOK /\ RepairInv /\ [Next]_vars => RepairInv'
  BY RepairInvInductive
<1>3. RepairInv => (carried = 0 => RepairWillPersist)
  BY DEF RepairInv
<1>4. RepairInv => RepairWillPersist
  BY <1>3 DEF RepairWillPersist
<1> QED
  BY <1>1, <1>2, <1>4, TypeCorrect, PTL DEF Spec

-----------------------------------------------------------------------------
(* The rebuild implements RootedTree                                       *)

\* The operators that RootedTree has from Hierarchy are those of Hierarchy.
LEMMA SameHierarchy ==
    /\ \A f : Abstract!Attached(f) = Attached(f)
    /\ \A f : Abstract!Rooted(f) <=> Rooted(f)
    /\ \A em : Abstract!Parents(em) = Parents(em)
    /\ \A em : Abstract!MaxEdges(em) = MaxEdges(em)
    /\ \A d : Abstract!IsDoc(d) <=> IsDoc(d)
    /\ Abstract!Root = Root /\ Abstract!None = None /\ Abstract!Nodes = Nodes
BY DEF Abstract!Attached, Abstract!Rooted, Abstract!Parents, Abstract!MaxEdges,
       Abstract!IsDoc, Abstract!Root, Abstract!None, Abstract!Nodes,
       Attached, Rooted, Parents, MaxEdges, IsDoc, Root, None, Nodes,
       Abstract!Closed, Closed, Abstract!Container, Container, Abstract!EdgeMap,
       EdgeMap, Abstract!NoEdge, NoEdge

\* An edge to a parent that a node already had adds no parent.
LEMMA AddEdgeParents ==
    ASSUME NEW em \in EdgeMap, NEW p \in Parents(em)
    PROVE  Parents(AddEdge(em, p)) = Parents(em)
<1>1. p \in Nodes /\ NextEdge(em) \in Nat
  BY AddEdgeIsUniqueMax DEF Parents
<1>2. /\ AddEdge(em, p)[p] = NextEdge(em)
      /\ \A q \in Nodes \ {p} : AddEdge(em, p)[q] = em[q]
  BY <1>1 DEF AddEdge, EdgeMap
<1> QED
  BY <1>1, <1>2 DEF Parents, NoEdge

\* Whatever the loop has repaired, the parents are recorded ones, and the
\* nodes that the greatest edges of the document lead to the root are attached
\* by these edges still. The choice of greatest edges is an existential: the
\* code draws it once, in process_parent_relationships, and does not keep it.
Follows(f, g) ==
    \A n \in Attached(g) : n \in Attached(f) /\ f[n] = g[n]

RecordedParents ==
    /\ parent[Root] = None
    /\ \A n \in DOMAIN doc : /\ Parents(edges[n]) = Parents(doc[n].em)
                             /\ parent[n] \in Parents(doc[n].em)

RefinementInv ==
    /\ phase = "parents" => \A n \in DOMAIN doc : edges[n] = doc[n].em
    /\ phase = "reattach" =>
        /\ RecordedParents
        /\ \E g \in Abstract!Greatest(doc) : Follows(parent, g)

\* The parents that process_parent_relationships draws are greatest edges.
LEMMA ProcessParentsDraws ==
    ASSUME TypeOK, RefinementInv, ProcessParents
    PROVE  RefinementInv'
<1>1. /\ phase = "parents" /\ phase' = "reattach" /\ UNCHANGED <<doc, edges>>
      /\ parent' \in [Present -> Nodes \cup {None}] /\ parent'[Root] = None
      /\ \A n \in DOMAIN doc : parent'[n] \in MaxEdges(edges[n]) /\ edges[n] = doc[n].em
  BY DEF ProcessParents, RefinementInv
<1>2. RecordedParents'
  BY <1>1 DEF RecordedParents, MaxEdges
<1> DEFINE h == [n \in DOMAIN doc |-> parent'[n]]
<1>3. h \in [DOMAIN doc -> Nodes]
  BY <1>1 DEF MaxEdges, Parents
<1>4. parent' = Abstract!WithRoot(h)
  <2>1. Present = {Root} \cup DOMAIN doc /\ Root \notin DOMAIN doc
    BY PresentFacts DEF TypeOK, Present, PresentIn
  <2>2. parent' = [n \in {Root} \cup DOMAIN h |-> IF n = Root THEN None ELSE h[n]]
    BY <1>1, <2>1
  <2> QED
    BY <2>2, SameHierarchy DEF Abstract!WithRoot
<1>5. Abstract!IsGreatest(doc, parent')
  BY <1>1, SameHierarchy DEF Abstract!IsGreatest, Abstract!Present, Present, PresentIn
<1>6. parent' \in Abstract!Greatest(doc)
  <2> HIDE DEF h
  <2> QED
    BY <1>3, <1>4, <1>5, SameHierarchy DEF Abstract!Greatest
<1>7. Follows(parent', parent')
  BY DEF Follows
<1>8. \E g \in Abstract!Greatest(doc') : Follows(parent', g)
  BY <1>1, <1>6, <1>7
<1> QED
  BY <1>1, <1>2, <1>8 DEF RefinementInv

\* Moving a detached node to a parent that it had leaves the rest as it was.
LEMMA ReattachFollows ==
    ASSUME TypeOK, RefinementInv, Reattach
    PROVE  RefinementInv'
<1>1. PICK next \in detached :
          /\ next \notin Attached(parent)
          /\ \E p \in MaxEdgesOutside(edges[next], detached) :
                /\ parent' = [parent EXCEPT ![next] = p]
                /\ edges' = [edges EXCEPT ![next] = AddEdge(@, p)]
  BY DEF Reattach
<1>2. PICK p \in Parents(edges[next]) :
          /\ parent' = [parent EXCEPT ![next] = p]
          /\ edges' = [edges EXCEPT ![next] = AddEdge(@, p)]
  BY <1>1 DEF MaxEdgesOutside
<1>3. /\ doc' = doc /\ phase = "reattach" /\ phase' = "reattach"
      /\ next \in DOMAIN doc /\ next # Root /\ Root \in Present /\ DOMAIN doc \subseteq Present
      /\ edges \in [Present -> EdgeMap] /\ parent \in [Present -> Nodes \cup {None}]
  BY <1>1, PresentFacts DEF Reattach, TypeOK, Present, PresentIn
<1>4. Parents(AddEdge(edges[next], p)) = Parents(edges[next])
  BY <1>2, <1>3, AddEdgeParents
<1>5. /\ parent'[next] = p /\ edges'[next] = AddEdge(edges[next], p)
      /\ \A n \in Present \ {next} : parent'[n] = parent[n] /\ edges'[n] = edges[n]
  BY <1>2, <1>3
<1>6. RecordedParents'
  <2>1. RecordedParents
    BY <1>3 DEF RefinementInv
  <2>2. parent'[Root] = None
    BY <1>3, <1>5, <2>1 DEF RecordedParents
  <2>3. ASSUME NEW n \in DOMAIN doc
        PROVE  Parents(edges'[n]) = Parents(doc[n].em) /\ parent'[n] \in Parents(doc[n].em)
    BY <1>2, <1>3, <1>4, <1>5, <2>1 DEF RecordedParents
  <2> QED
    BY <1>3, <2>2, <2>3 DEF RecordedParents
<1>7. Attached(parent) \subseteq Attached(parent')
  <2>1. next \in DOMAIN parent \ Attached(parent) /\ Root \in DOMAIN parent
    BY <1>1, <1>3
  <2> QED
    BY <1>2, <2>1, ReparentDetached
<1>8. ASSUME NEW g, Follows(parent, g)
      PROVE  Follows(parent', g)
  <2>1. ASSUME NEW n \in Attached(g)
        PROVE  n \in Attached(parent') /\ parent'[n] = g[n]
    <3>1. n \in Attached(parent) /\ parent[n] = g[n]
      BY <1>8 DEF Follows
    <3>2. n \in Present /\ n # next
      BY <1>1, <3>1, RootAttached
    <3> QED
      BY <1>5, <1>7, <3>1, <3>2
  <2> QED
    BY <2>1 DEF Follows
<1>9. \E g \in Abstract!Greatest(doc') : Follows(parent', g)
  <2>1. PICK g \in Abstract!Greatest(doc) : Follows(parent, g)
    BY <1>3 DEF RefinementInv
  <2> QED
    BY <1>3, <1>8, <2>1
<1> QED
  BY <1>3, <1>6, <1>9 DEF RefinementInv

\* RefinementInv is inductive, given the types.
LEMMA RefinementInvInductive ==
    ASSUME TypeOK, RefinementInv, [Next]_vars
    PROVE  RefinementInv'
<1>1. CASE ApplyYjsUpdate
  <2>1. /\ phase' = "parents"
        /\ \E S \in SUBSET Ids : doc' \in [S -> [em : EdgeMaps, fi : Indices]]
        /\ edges' = [n \in Present' |-> IF n = Root THEN NoEdges ELSE doc'[n].em]
    BY <1>1 DEF ApplyYjsUpdate
  <2>2. \A n \in DOMAIN doc' : edges'[n] = doc'[n].em
    BY <2>1, IdsAssumption DEF Present, PresentIn, Root
  <2> QED
    BY <2>1, <2>2 DEF RefinementInv
<1>2. CASE ProcessParents
  BY <1>2, ProcessParentsDraws
<1>3. CASE Reattach
  BY <1>3, ReattachFollows
<1>4. CASE SkipAttached \/ UNCHANGED vars
  <2>1. UNCHANGED <<doc, parent, edges, phase>>
    BY <1>4 DEF SkipAttached, vars
  <2> QED
    BY <2>1 DEF RefinementInv, RecordedParents, Follows
<1>5. CASE \/ ProcessParentsFails \/ ReattachFails \/ UpdateChildrenOrder
           \/ UpdateChildrenPanics \/ ApplyPendingEdgeMapUpdates \/ ApplyPendingPanics
  <2>1. phase' \in Ended
    BY <1>5 DEF ProcessParentsFails, ReattachFails, UpdateChildrenOrder,
       UpdateChildrenPanics, ApplyPendingEdgeMapUpdates, ApplyPendingPanics, Ended
  <2> QED
    BY <2>1 DEF RefinementInv, Ended
<1> QED
  BY <1>1, <1>2, <1>3, <1>4, <1>5 DEF Next, InitFromYjs

\* What is promised of a build that fails: its greatest edges do not make a
\* tree. If they did, their tree would be attached throughout the loop.
LEMMA FailsOnlyWithoutATree ==
    ASSUME TypeOK, RefinementInv,
           ProcessParentsFails \/ ReattachFails \/ UpdateChildrenPanics
    PROVE  Abstract!MayFail(doc)
<1>1. CASE ProcessParentsFails
  <2>1. PICK n \in DOMAIN doc : doc[n].em = NoEdges
    BY <1>1 DEF ProcessParentsFails, RefinementInv
  <2>2. Parents(doc[n].em) = {}
    BY <2>1 DEF Parents, NoEdges
  <2> QED
    BY <2>2, SameHierarchy DEF Abstract!MayFail
<1>2. ASSUME NEW x \in DOMAIN doc, phase = "reattach",
             x \notin Attached(parent) \/ parent[x] \notin Present
      PROVE  Abstract!MayFail(doc)
  <2>1. PICK g \in Abstract!Greatest(doc) : Follows(parent, g)
    BY <1>2 DEF RefinementInv
  <2>2. DOMAIN g = Present
    BY <2>1 DEF Abstract!Greatest, Abstract!IsGreatest, Abstract!Present, Present, PresentIn,
       Abstract!Root, Root
  <2>3. ~ Rooted(g)
    <3> SUFFICES ASSUME Rooted(g) PROVE FALSE
      OBVIOUS
    <3>1. x \in Attached(parent) /\ x # Root
      BY <2>1, <2>2, PresentFacts DEF Rooted, Follows, Present, PresentIn, TypeOK
    <3>2. parent[x] \in Attached(parent)
      BY <3>1, RootAttached, AttachedParent
    <3> QED
      BY <1>2, <3>1, <3>2, RootAttached
  <2> QED
    BY <2>1, <2>3, SameHierarchy DEF Abstract!MayFail
<1>3. CASE ReattachFails
  <2>1. PICK next \in detached : next \notin Attached(parent)
    BY <1>3 DEF ReattachFails
  <2> QED
    BY <1>2, <1>3, <2>1 DEF ReattachFails, TypeOK
<1>4. CASE UpdateChildrenPanics
  BY <1>2, <1>4 DEF UpdateChildrenPanics
<1> QED
  BY <1>1, <1>3, <1>4

\* What a build that ends with a tree shows is a tree that it may show.
LEMMA ShowsATree ==
    ASSUME TypeOK, RefinementInv, UpdateChildrenOrder, Rooted(parent)
    PROVE  Abstract!IsShownAs(doc, parent)
<1>1. phase = "reattach" /\ RecordedParents
  BY DEF UpdateChildrenOrder, RefinementInv
<1>2. PICK g \in Abstract!Greatest(doc) : Follows(parent, g)
  BY <1>1 DEF RefinementInv
<1>3. /\ DOMAIN parent = Abstract!Present(doc)
      /\ parent[Root] = None
      /\ \A n \in DOMAIN doc : parent[n] \in Parents(doc[n].em)
  BY <1>1, SameHierarchy DEF RecordedParents, TypeOK, Present, PresentIn, Abstract!Present
<1>4. \A n \in Attached(g) : parent[n] = g[n]
  BY <1>2 DEF Follows
<1> QED
  BY <1>2, <1>3, <1>4, SameHierarchy DEF Abstract!IsShownAs

\* Every step of the rebuild is a step of RootedTree or changes nothing in it.
LEMMA StepImplements ==
    ASSUME TypeOK, TypeOK', Inv', RefinementInv, [Next]_vars
    PROVE  [Abstract!Next]_(Abstract!vars)
<1> USE DEF Abstract!vars, Shown, Mode, Building, Ended
<1>1. Abstract!NoTree = [n \in {} |-> None]
  BY SameHierarchy DEF Abstract!NoTree
<1>2. CASE ApplyYjsUpdate
  <2>1. phase \in {"built", "bad_doc"} /\ phase' = "parents" /\ IsDoc(doc')
    BY <1>2 DEF ApplyYjsUpdate, TypeOK
  <2>2. Abstract!Change
    BY <1>1, <2>1, SameHierarchy DEF Abstract!Change
  <2> QED
    BY <2>2 DEF Abstract!Next
<1>3. CASE ProcessParents \/ SkipAttached \/ Reattach \/ UNCHANGED vars
  <2>1. /\ doc' = doc
        /\ \/ phase \in Building /\ phase' \in Building
           \/ UNCHANGED <<phase, parent>>
    BY <1>3 DEF ProcessParents, SkipAttached, Reattach, vars
  <2> QED
    BY <2>1
<1>4. CASE ProcessParentsFails \/ ReattachFails \/ UpdateChildrenPanics
  <2>1. Abstract!MayFail(doc)
    BY <1>4, FailsOnlyWithoutATree
  <2>2. phase \in Building /\ phase' \in {"bad_doc", "panicked"} /\ doc' = doc
    BY <1>4 DEF ProcessParentsFails, ReattachFails, UpdateChildrenPanics
  <2>3. Abstract!Fail
    BY <2>1, <2>2 DEF Abstract!Fail
  <2> QED
    BY <2>3 DEF Abstract!Next
<1>5. CASE UpdateChildrenOrder
  <2>1. phase = "reattach" /\ phase' = "built" /\ doc' = doc /\ parent' = parent
    BY <1>5 DEF UpdateChildrenOrder
  <2>2. Rooted(parent)
    BY <2>1 DEF Inv, BuiltIsRooted
  <2>3. Abstract!IsShownAs(doc, parent)
    BY <1>5, <2>2, ShowsATree
  <2>4. Abstract!Show
    BY <2>1, <2>3 DEF Abstract!Show
  <2> QED
    BY <2>4 DEF Abstract!Next
<1>6. CASE ApplyPendingEdgeMapUpdates
  <2>1. phase = "built" /\ phase' = "built" /\ parent' = parent /\ DOMAIN doc' = DOMAIN doc
    BY <1>6 DEF ApplyPendingEdgeMapUpdates
  <2>2. IsDoc(doc')
    BY DEF TypeOK
  <2>3. Abstract!Persist
    BY <2>1, <2>2, SameHierarchy DEF Abstract!Persist
  <2> QED
    BY <2>3 DEF Abstract!Next
<1>7. CASE ApplyPendingPanics
  <2>1. phase = "built" /\ phase' = "panicked" /\ doc' = doc
    BY <1>7 DEF ApplyPendingPanics
  <2>2. Abstract!Lose
    BY <1>1, <2>1 DEF Abstract!Lose
  <2> QED
    BY <2>2 DEF Abstract!Next
<1> QED
  BY <1>2, <1>3, <1>4, <1>5, <1>6, <1>7 DEF Next, InitFromYjs

\* The algorithm implements the promise, for any number of nodes, edges and
\* updates: what a build shows is a tree of recorded parents in which every
\* node that its greatest edges lead to the root is where they say, and a
\* build fails only where the greatest edges do not make a tree.
THEOREM RebuildImplementsRootedTree == Spec => ShowsARootedTree
<1>1. Init => RefinementInv
  BY DEF Init, RefinementInv
<1>2. Init => Abstract!Init
  <2> SUFFICES ASSUME Init PROVE Abstract!Init
    OBVIOUS
  <2>1. phase = "built" /\ DOMAIN doc = {} /\ parent = [n \in {Root} |-> None]
    BY DEF Init
  <2>2. Shown = [n \in {Root} |-> None] /\ Mode = "shown"
    BY <2>1 DEF Shown, Mode, Building
  <2>3. Abstract!WithRoot(Abstract!NoTree) = [n \in {Root} |-> None]
    BY SameHierarchy DEF Abstract!WithRoot, Abstract!NoTree
  <2> QED
    BY <2>1, <2>2, <2>3 DEF Abstract!Init
<1>3. TypeOK /\ RefinementInv /\ [Next]_vars => RefinementInv'
  BY RefinementInvInductive
<1>4. TypeOK /\ TypeOK' /\ Inv' /\ RefinementInv /\ [Next]_vars
          => [Abstract!Next]_(Abstract!vars)
  BY StepImplements
<1> QED
  BY <1>1, <1>2, <1>3, <1>4, TypeCorrect, InvInvariant, PTL
  DEF Spec, ShowsARootedTree, Abstract!Spec
-----------------------------------------------------------------------------
(* The iterations and the rebuild in one step                              *)

\* The build as Rebuild has it, and the updates that were pending before it.
Now   == [parent |-> parent, edges |-> edges, detached |-> detached,
          pending |-> pending, ends |-> phase]
Prior == SubSeq(pending, 1, carried)

\* The builds that the one-step rebuild starts with, so many nodes before.
IsBegun(s, k) ==
    /\ s \in Started(doc, Prior)
    /\ k \in Nat /\ k + Cardinality(detached) = Cardinality(s.detached)
    /\ ReachedIn(s, k, Now)

\* The loop is always where the iterations of the one-step rebuild may be.
BuildInv ==
    /\ phase = "parents" =>
        /\ carried = Len(pending)
        /\ edges = [n \in Present |-> IF n = Root THEN NoEdges ELSE doc[n].em]
    /\ phase \in Building =>
        /\ children = [n \in Present |-> <<>>]
        /\ carried <= Len(pending)
    /\ phase = "reattach" => \E s, k : IsBegun(s, k)

\* The first node is the least one.
LEMMA FirstIs ==
    ASSUME NEW S \in SUBSET Nat, NEW n, IsFirst(n, S)
    PROVE  First(S) = n
<1>1. \A m \in S : (\A l \in S : m <= l) => m = n
  BY DEF IsFirst
<1> QED
  BY <1>1 DEF IsFirst, First

\* An iteration of the loop is one of Settle.
LEMMA IterationSettles ==
    ASSUME TypeOK, SkipAttached \/ Reattach \/ ReattachFails
    PROVE  Now' \in Settle(Now) /\ detached # {}
<1>1. /\ Now.ends = "reattach" /\ Now.detached = detached /\ Now.parent = parent
      /\ Now.edges = edges /\ Now.pending = pending
  BY DEF Now, SkipAttached, Reattach, ReattachFails
<1>2. detached \in SUBSET Nat
  BY IdsAssumption DEF TypeOK, IsDoc
<1>3. CASE SkipAttached
  <2>1. PICK next \in detached : /\ IsFirst(next, detached) /\ next \in Attached(parent)
                                 /\ detached' = detached \ {next}
    BY <1>3 DEF SkipAttached
  <2>2. First(Now.detached) = next
    BY <1>1, <1>2, <2>1, FirstIs
  <2>3. Now' = [Now EXCEPT !.detached = @ \ {next}]
    BY <1>3, <2>1 DEF SkipAttached, Now
  <2> QED
    BY <1>1, <2>1, <2>2, <2>3 DEF Settle
<1>4. CASE Reattach
  <2>1. PICK next \in detached :
            /\ IsFirst(next, detached)
            /\ next \notin Attached(parent)
            /\ \E p \in MaxEdgesOutside(edges[next], detached) :
                /\ parent' = [parent EXCEPT ![next] = p]
                /\ edges' = [edges EXCEPT ![next] = AddEdge(@, p)]
                /\ pending' = Append(pending, <<next, p, NextEdge(edges[next])>>)
            /\ detached' = detached \ {next}
    BY <1>4 DEF Reattach
  <2>2. PICK p \in MaxEdgesOutside(edges[next], detached) :
            /\ parent' = [parent EXCEPT ![next] = p]
            /\ edges' = [edges EXCEPT ![next] = AddEdge(@, p)]
            /\ pending' = Append(pending, <<next, p, NextEdge(edges[next])>>)
    BY <2>1
  <2>3. First(Now.detached) = next
    BY <1>1, <1>2, <2>1, FirstIs
  <2>4. Now' = WithParent(Now, next, p)
    BY <1>4, <2>1, <2>2 DEF Reattach, Now, WithParent
  <2>5. Now \in Builds(doc)
    BY <1>4 DEF Reattach, Now, Builds, TypeOK, Present, Updates, Pending
  <2> QED
    BY <1>1, <2>1, <2>2, <2>3, <2>4, <2>5, SettleReattaches
<1>5. CASE ReattachFails
  <2>1. PICK next \in detached : /\ IsFirst(next, detached) /\ next \notin Attached(parent)
                                 /\ Parents(edges[next]) \subseteq detached
    BY <1>5 DEF ReattachFails
  <2>2. First(Now.detached) = next
    BY <1>1, <1>2, <2>1, FirstIs
  <2>3. MaxEdgesOutside(edges[next], detached) = {}
    BY <2>1 DEF MaxEdgesOutside
  <2>4. Now' = [Now EXCEPT !.ends = "bad_doc"]
    BY <1>5 DEF ReattachFails, Now
  <2> QED
    BY <1>1, <2>1, <2>2, <2>3, <2>4 DEF Settle
<1> QED
  BY <1>3, <1>4, <1>5

\* What was pending before the build is not changed by what it adds.
LEMMA PriorFacts ==
    ASSUME NEW ps \in Updates, NEW c \in 0 .. Len(ps)
    PROVE  /\ SubSeq(ps, 1, c) \in Updates
           /\ \A u \in Ids \X Nodes \X Nat : SubSeq(Append(ps, u), 1, c) = SubSeq(ps, 1, c)
<1> DEFINE S == Ids \X Nodes \X Nat
<1>1. ps \in Seq(S)
  BY DEF Updates
<1> HIDE DEF S
<1>2. \A i \in 1 .. c : i \in 1 .. Len(ps) /\ ps[i] \in S
  BY <1>1
<1>3. /\ SubSeq(ps, 1, c) \in Seq(S) /\ Len(SubSeq(ps, 1, c)) = c
      /\ \A i \in 1 .. c : SubSeq(ps, 1, c)[i] = ps[i]
  BY <1>2, SubSeqProperties
<1>4. ASSUME NEW u \in S
      PROVE  SubSeq(Append(ps, u), 1, c) = SubSeq(ps, 1, c)
  <2>1. \A i \in 1 .. c : Append(ps, u)[i] = ps[i]
    BY <1>1, <1>2, AppendProperties
  <2>2. /\ SubSeq(Append(ps, u), 1, c) \in Seq(S) /\ Len(SubSeq(Append(ps, u), 1, c)) = c
        /\ \A i \in 1 .. c : SubSeq(Append(ps, u), 1, c)[i] = ps[i]
    BY <1>2, <2>1, SubSeqProperties
  <2> QED
    BY <1>3, <2>2, SeqEqual
<1> QED
  BY <1>3, <1>4 DEF S, Updates

\* What the loop leaves in each state is what the one-step rebuild may.
LEMMA IterationBuilds ==
    ASSUME TypeOK, TypeOK', BuildInv, SkipAttached \/ Reattach \/ ReattachFails
    PROVE  \E s, k : /\ IsBegun(s, k) /\ s.detached \in SUBSET DOMAIN doc
                     /\ k < Cardinality(s.detached) /\ ReachedIn(s, k + 1, Now')
<1>1. phase = "reattach"
  BY DEF SkipAttached, Reattach, ReattachFails
<1>2. PICK s, k : IsBegun(s, k)
  BY <1>1 DEF BuildInv
<1>3. s \in Builds(doc)
  <2>1. Prior \in Updates
    <3>1. pending \in Updates /\ carried \in 0 .. Len(pending)
      BY <1>1 DEF BuildInv, TypeOK, Updates, Pending, Building
    <3> QED
      BY <3>1, PriorFacts DEF Prior
  <2> QED
    BY <1>2, <2>1, StartedFacts DEF TypeOK, IsBegun
<1>4. IsFiniteSet(detached) /\ IsFiniteSet(s.detached)
  BY <1>3, ContentFacts, FS_Subset DEF TypeOK, Builds
<1>5. Cardinality(detached) \in Nat /\ Cardinality(detached) # 0 /\ Cardinality(s.detached) \in Nat
  BY <1>4, IterationSettles, FS_EmptySet, FS_CardinalityType
<1>6. k \in Nat /\ k < Cardinality(s.detached)
  BY <1>2, <1>5 DEF IsBegun
<1>7. ReachedIn(s, k + 1, Now')
  BY <1>2, <1>4, <1>6, IterationSettles, ReachedNext DEF IsBegun
<1> QED
  BY <1>2, <1>3, <1>6, <1>7 DEF Builds

\* A repair adds one pending update.
LEMMA AppendedUpdate ==
    ASSUME TypeOK, Reattach
    PROVE  \E u \in Ids \X Nodes \X Nat : pending' = Append(pending, u)
<1>1. PICK next \in detached :
          \E p \in MaxEdgesOutside(edges[next], detached) :
              pending' = Append(pending, <<next, p, NextEdge(edges[next])>>)
  BY DEF Reattach
<1>2. PICK p \in MaxEdgesOutside(edges[next], detached) :
          pending' = Append(pending, <<next, p, NextEdge(edges[next])>>)
  BY <1>1
<1>3. next \in Ids /\ edges[next] \in EdgeMap /\ p \in Nodes
  BY <1>1, <1>2 DEF TypeOK, IsDoc, Present, PresentIn, MaxEdgesOutside, Parents
<1>4. NextEdge(edges[next]) \in Nat
  BY <1>3, AddEdgeIsUniqueMax
<1> QED
  BY <1>2, <1>3, <1>4

\* Builds start as the one-step rebuild does.
LEMMA ProcessParentsStarts ==
    ASSUME TypeOK, TypeOK', BuildInv, ProcessParents \/ ProcessParentsFails
    PROVE  /\ Prior \in Updates /\ Prior = pending
           /\ \E d \in SUBSET DOMAIN doc :
                [parent |-> parent', edges |-> edges, detached |-> d,
                 pending |-> pending, ends |-> phase'] \in Started(doc, Prior)
           /\ ProcessParents => Now' \in Started(doc, Prior)
<1>1. /\ phase = "parents" /\ carried = Len(pending) /\ pending' = pending
      /\ edges = [n \in Present |-> IF n = Root THEN NoEdges ELSE doc[n].em] /\ edges' = edges
      /\ doc' = doc /\ parent'[Root] = None
      /\ parent' \in [PresentIn(doc) -> Nodes \cup {None}]
  BY DEF BuildInv, ProcessParents, ProcessParentsFails, Present
<1>2. pending \in Updates /\ Prior = pending
  BY <1>1, SubSeqFull DEF Prior, TypeOK, Updates, Pending
<1>3. \A n \in DOMAIN doc : edges[n] = doc[n].em /\ doc[n].em \in EdgeMap
  BY <1>1, ContentFacts DEF TypeOK, Present, PresentIn
<1>4. \A n \in DOMAIN doc : edges[n] = NoEdges <=> Parents(doc[n].em) = {}
  BY <1>3 DEF NoEdges, Parents, EdgeMap
<1> DEFINE b == Build(doc, parent', pending, phase')
<1>5. b \in Started(doc, Prior)
  <2>1. CASE ProcessParents
    <3>1. {n \in DOMAIN doc : Parents(doc[n].em) = {}} = {} /\ phase' = "reattach"
      BY <1>4, <2>1 DEF ProcessParents
    <3>2. \A n \in DOMAIN doc : parent'[n] \in MaxEdges(doc[n].em)
      BY <1>3, <2>1 DEF ProcessParents
    <3> QED
      BY <1>1, <1>2, <3>1, <3>2 DEF Started
  <2>2. CASE ProcessParentsFails
    <3>1. {n \in DOMAIN doc : Parents(doc[n].em) = {}} # {} /\ phase' = "bad_doc"
      BY <1>4, <2>2 DEF ProcessParentsFails
    <3>2. \A n \in DOMAIN doc : parent'[n] \in MaxEdges(doc[n].em) \cup {None}
      BY <1>3, <2>2 DEF ProcessParentsFails
    <3> QED
      BY <1>1, <1>2, <3>1, <3>2 DEF Started
  <2> QED
    BY <2>1, <2>2
<1>6. b = [parent |-> parent', edges |-> edges, detached |-> PresentIn(doc) \ Attached(parent'),
           pending |-> pending, ends |-> phase']
  BY <1>1 DEF Build, Present
<1>7. b.detached \in SUBSET DOMAIN doc
  BY <1>2, <1>5, StartedFacts DEF Builds, TypeOK
<1>8. ProcessParents => Now' = b
  BY <1>1, <1>6 DEF ProcessParents, Now, Present
<1> HIDE DEF b
<1>9. \E d \in SUBSET DOMAIN doc :
          b = [parent |-> parent', edges |-> edges, detached |-> d,
               pending |-> pending, ends |-> phase']
  BY <1>6, <1>7
<1> QED
  BY <1>2, <1>5, <1>8, <1>9

\* The loop keeps to the iterations of the one-step rebuild.
LEMMA BuildInvInductive ==
    ASSUME TypeOK, TypeOK', BuildInv, [Next]_vars
    PROVE  BuildInv'
<1>1. CASE ApplyYjsUpdate
  BY <1>1 DEF ApplyYjsUpdate, BuildInv, TypeOK
<1>2. CASE ProcessParents
  <2>1. Now' \in Started(doc, Prior) /\ Prior \in Updates
    BY <1>2, ProcessParentsStarts
  <2>2. /\ Prior' = Prior /\ doc' = doc /\ phase = "parents" /\ phase' = "reattach"
        /\ children' = children /\ Present' = Present /\ pending' = pending /\ carried' = carried
    BY <1>2 DEF ProcessParents, Prior, Present
  <2>3. Now'.detached = detached' /\ IsFiniteSet(detached')
    BY <2>2, ContentFacts, FS_Subset DEF Now, TypeOK
  <2>4. IsBegun(Now, 0)'
    <3>1. Cardinality(detached') \in Nat
      BY <2>3, FS_CardinalityType
    <3> QED
      BY <2>1, <2>2, <2>3, <3>1, ReachedFirst DEF IsBegun
  <2> QED
    BY <2>2, <2>4 DEF BuildInv, Building
<1>3. CASE SkipAttached \/ Reattach
  <2>1. PICK s, k : /\ IsBegun(s, k) /\ s.detached \in SUBSET DOMAIN doc
                    /\ k < Cardinality(s.detached) /\ ReachedIn(s, k + 1, Now')
    BY <1>3, IterationBuilds
  <2>2. /\ doc' = doc /\ phase = "reattach" /\ phase' = "reattach"
        /\ children' = children /\ Present' = Present /\ carried' = carried
    BY <1>3 DEF SkipAttached, Reattach, Present
  <2>3. Prior' = Prior /\ carried' <= Len(pending')
    <3>1. pending \in Updates /\ carried \in 0 .. Len(pending)
      BY <2>2 DEF BuildInv, TypeOK, Updates, Pending, Building
    <3>2. pending' = pending \/ \E u \in Ids \X Nodes \X Nat : pending' = Append(pending, u)
      BY <1>3, AppendedUpdate DEF SkipAttached
    <3>3. CASE pending' = pending
      BY <2>2, <3>1, <3>3 DEF Prior
    <3>4. ASSUME NEW u \in Ids \X Nodes \X Nat, pending' = Append(pending, u)
          PROVE  Prior' = Prior /\ carried' <= Len(pending')
      <4>1. SubSeq(Append(pending, u), 1, carried) = SubSeq(pending, 1, carried)
        BY <3>1, PriorFacts
      <4>2. Len(pending') = Len(pending) + 1 /\ Len(pending) \in Nat
        BY <3>1, <3>4, AppendProperties DEF Updates
      <4> QED
        BY <2>2, <3>1, <3>4, <4>1, <4>2 DEF Prior
    <3> QED
      BY <3>2, <3>3, <3>4
  <2>4. (k + 1) + Cardinality(detached') = Cardinality(s.detached)
    <3>1. PICK next \in detached : detached' = detached \ {next}
      BY <1>3 DEF SkipAttached, Reattach
    <3>2. IsFiniteSet(detached)
      BY ContentFacts, FS_Subset DEF TypeOK
    <3>3. Cardinality(detached') = Cardinality(detached) - 1 /\ Cardinality(detached) \in Nat
      BY <3>1, <3>2, FS_RemoveElement, FS_CardinalityType
    <3> QED
      BY <2>1, <3>3 DEF IsBegun
  <2>5. IsBegun(s, k + 1)'
    BY <2>1, <2>2, <2>3, <2>4 DEF IsBegun
  <2> QED
    BY <2>2, <2>3, <2>5 DEF BuildInv, Building
<1>4. CASE UNCHANGED vars
  BY <1>4 DEF vars, BuildInv, IsBegun, Now, Prior, Present
<1>5. CASE ApplyPendingEdgeMapUpdates
  BY <1>5 DEF ApplyPendingEdgeMapUpdates, BuildInv, Building
<1>6. CASE ProcessParentsFails \/ ReattachFails \/ UpdateChildrenOrder \/ UpdateChildrenPanics \/ ApplyPendingPanics
  BY <1>6 DEF ProcessParentsFails, ReattachFails, UpdateChildrenOrder, UpdateChildrenPanics,
     ApplyPendingPanics, BuildInv, Building
<1> QED
  BY <1>1, <1>2, <1>3, <1>4, <1>5, <1>6 DEF Next, InitFromYjs

\* How a build ends, by what the loop leaves.
MayEnd(b, ends, kids) ==
    \/ /\ b.ends = "bad_doc" /\ ends = "bad_doc"
       /\ kids = [n \in PresentIn(doc) |-> <<>>]
    \/ /\ b.ends # "bad_doc" /\ ends = "panicked"
       /\ \E n \in DOMAIN doc : b.parent[n] \notin PresentIn(doc)
       /\ kids = [n \in PresentIn(doc) |-> <<>>]
    \/ /\ b.ends # "bad_doc" /\ ends = "built"
       /\ \A n \in DOMAIN doc : b.parent[n] \in PresentIn(doc)
       /\ kids = [n \in PresentIn(doc) |-> SortedChildren(doc, b.parent, n)]

Ending(b, ends, kids) ==
    [parent |-> b.parent, edges |-> b.edges, children |-> kids,
     pending |-> b.pending, ends |-> ends]

LEMMA FinishedIs ==
    ASSUME NEW b, NEW ends, NEW kids, MayEnd(b, ends, kids)
    PROVE  Finished(doc, b) = Ending(b, ends, kids)
BY DEF Finished, MayEnd, Ending

\* The loop of reattach_nodes and the rest of init_from_yjs, on any document
\* and with any updates pending, end as the one-step rebuild that the model of
\* the operations uses: the one theorem carries over to the other.
THEOREM BuildsEndAsRebuild == Spec => EndsAsRebuild
<1>1. ASSUME TypeOK, TypeOK', BuildInv, [Next]_vars, phase \in Building, phase' \in Ended
      PROVE  Outcome' \in Rebuilds(doc, Prior)
  <2>1. IsDoc(doc) /\ children = [n \in PresentIn(doc) |-> <<>>]
    BY <1>1 DEF TypeOK, BuildInv, Present
  <2>2. CASE ProcessParentsFails
    <3>1. PICK d \in SUBSET DOMAIN doc :
              [parent |-> parent', edges |-> edges, detached |-> d,
               pending |-> pending, ends |-> phase'] \in Started(doc, Prior)
      BY <1>1, <2>2, ProcessParentsStarts
    <3> DEFINE b == [parent |-> parent', edges |-> edges, detached |-> d,
                     pending |-> pending, ends |-> phase']
    <3>2. IsFiniteSet(b.detached) /\ 0 \in 0 .. Cardinality(b.detached)
      BY <2>1, ContentFacts, FS_Subset, FS_CardinalityType
    <3>3. b.ends = "bad_doc" /\ Prior \in Updates
      BY <1>1, <2>2, ProcessParentsStarts DEF ProcessParentsFails
    <3>4. Finished(doc, b) = Outcome'
      <4>1. Outcome' = Ending(b, "bad_doc", children)
        BY <2>2 DEF ProcessParentsFails, Outcome, Ending
      <4> HIDE DEF b
      <4>2. MayEnd(b, "bad_doc", children)
        BY <2>1, <3>3 DEF MayEnd
      <4> QED
        BY <4>1, <4>2, FinishedIs
    <3> HIDE DEF b
    <3>5. ReachedIn(b, 0, b)
      BY <3>2, ReachedFirst
    <3>6. ReachedIn(b, Cardinality(b.detached), b)
      BY <3>2, <3>3, <3>5, ReachedLast
    <3>7. b \in Started(doc, Prior)
      BY <3>1 DEF b
    <3> QED
      BY <2>1, <3>3, <3>4, <3>6, <3>7, ReachedIsRebuilt
  <2>3. ASSUME phase = "reattach"
        PROVE  /\ Prior \in Updates
               /\ \E s \in Started(doc, Prior), k \in Nat :
                    /\ IsFiniteSet(s.detached)
                    /\ k + Cardinality(detached) = Cardinality(s.detached)
                    /\ ReachedIn(s, k, Now)
    <3>1. Prior \in Updates
      BY <1>1, PriorFacts DEF BuildInv, TypeOK, Updates, Pending, Prior
    <3>2. PICK s, k : IsBegun(s, k)
      BY <1>1, <2>3 DEF BuildInv
    <3>3. IsFiniteSet(s.detached)
      BY <2>1, <3>1, <3>2, StartedFacts, ContentFacts, FS_Subset DEF IsBegun, Builds
    <3> QED
      BY <3>1, <3>2, <3>3 DEF IsBegun
  <2>4. CASE ReattachFails
    <3>1. PICK s, k : /\ IsBegun(s, k) /\ s.detached \in SUBSET DOMAIN doc
                      /\ k < Cardinality(s.detached) /\ ReachedIn(s, k + 1, Now')
      BY <1>1, <2>4, IterationBuilds
    <3>2. IsFiniteSet(s.detached) /\ k + 1 \in 0 .. Cardinality(s.detached)
      <4>1. IsFiniteSet(s.detached)
        BY <2>1, <3>1, ContentFacts, FS_Subset
      <4> QED
        BY <3>1, <4>1, FS_CardinalityType DEF IsBegun
    <3>3. Now'.ends = "bad_doc" /\ Prior \in Updates
      BY <2>3, <2>4 DEF ReattachFails, Now
    <3>4. ReachedIn(s, Cardinality(s.detached), Now')
      BY <3>1, <3>2, <3>3, ReachedLast
    <3>5. Finished(doc, Now') = Outcome'
      <4>1. Outcome' = Ending(Now', "bad_doc", children)
        BY <2>4 DEF ReattachFails, Outcome, Now, Ending
      <4>2. MayEnd(Now', "bad_doc", children)
        BY <2>1, <3>3 DEF MayEnd
      <4> QED
        BY <4>1, <4>2, FinishedIs
    <3> QED
      BY <2>1, <3>1, <3>3, <3>4, <3>5, ReachedIsRebuilt DEF IsBegun
  <2>5. CASE UpdateChildrenOrder \/ UpdateChildrenPanics
    <3>1. phase = "reattach" /\ detached = {} /\ UNCHANGED <<doc, parent, edges, pending>>
      BY <2>5 DEF UpdateChildrenOrder, UpdateChildrenPanics
    <3>2. PICK s \in Started(doc, Prior), k \in Nat :
              /\ IsFiniteSet(s.detached)
              /\ k + Cardinality(detached) = Cardinality(s.detached)
              /\ ReachedIn(s, k, Now)
      BY <2>3, <3>1
    <3>3. k = Cardinality(s.detached)
      BY <3>1, <3>2, FS_EmptySet
    <3>4. /\ Now.parent = parent /\ Now.edges = edges /\ Now.pending = pending
          /\ Now.ends = "reattach"
      BY <3>1 DEF Now
    <3>5. MayEnd(Now, phase', children')
      <4>1. CASE UpdateChildrenOrder
        BY <3>4, <4>1 DEF UpdateChildrenOrder, Present, MayEnd
      <4>2. CASE UpdateChildrenPanics
        BY <2>1, <3>4, <4>2 DEF UpdateChildrenPanics, Present, MayEnd
      <4> QED
        BY <2>5, <4>1, <4>2
    <3>6. Outcome' = Finished(doc, Now)
      <4>1. Outcome' = Ending(Now, phase', children')
        BY <3>1, <3>4 DEF Outcome, Ending
      <4> QED
        BY <3>5, <4>1, FinishedIs
    <3>7. ReachedIn(s, Cardinality(s.detached), Now)
      BY <3>2, <3>3
    <3>8. Prior \in Updates
      BY <2>3, <3>1
    <3> QED
      BY <2>1, <3>2, <3>6, <3>7, <3>8, ReachedIsRebuilt
  <2>6. CASE ProcessParents \/ SkipAttached \/ Reattach \/ ApplyYjsUpdate
    BY <1>1, <2>6 DEF ProcessParents, SkipAttached, Reattach, ApplyYjsUpdate, Ended
  <2>7. CASE ApplyPendingEdgeMapUpdates \/ ApplyPendingPanics
    BY <1>1, <2>7 DEF ApplyPendingEdgeMapUpdates, ApplyPendingPanics, Building
  <2>8. CASE UNCHANGED vars
    BY <1>1, <2>8 DEF vars, Building, Ended
  <2> QED
    BY <1>1, <2>2, <2>4, <2>5, <2>6, <2>7, <2>8 DEF Next, InitFromYjs
<1>2. Init => BuildInv
  BY DEF Init, BuildInv, Building
<1>3. TypeOK /\ TypeOK' /\ BuildInv /\ [Next]_vars => BuildInv'
  BY BuildInvInductive
<1>4. TypeOK /\ TypeOK' /\ BuildInv /\ [Next]_vars =>
        (phase \in Building /\ phase' \in Ended
            => Outcome' \in Rebuilds(doc, SubSeq(pending, 1, carried)))
  BY <1>1 DEF Prior
<1> QED
  BY <1>2, <1>3, <1>4, TypeCorrect, PTL DEF Spec, EndsAsRebuild

-----------------------------------------------------------------------------
(* Builds come nearer to their end and do not get stuck                    *)

\* What a build has before it: the iterations of reattach_nodes, at most one for
\* each node that is there.
Remaining == IF phase = "parents" THEN Cardinality(Present) + 1 ELSE Cardinality(detached)

\* A step from within a build to within it.
BuildComesNearer ==
    phase \in Building /\ phase' \in Building => Remaining' < Remaining

\* Every step of a build but its last leaves less to be done: no document makes
\* reattach_nodes look at a node twice.
THEOREM BuildsAlwaysProgress == Spec => [][BuildComesNearer]_vars
<1>1. ASSUME TypeOK, TypeOK', [Next]_vars, ~ UNCHANGED vars,
             phase \in Building, phase' \in Building
      PROVE  Remaining' < Remaining
  <2>1. /\ IsFiniteSet(Present) /\ Cardinality(Present) \in Nat
        /\ IsFiniteSet(detached) /\ Cardinality(detached) \in Nat
    <3>1. Present \subseteq Nodes /\ detached \subseteq Nodes
      BY <1>1, PresentFacts DEF TypeOK
    <3> QED
      BY <3>1, NodesFinite, FS_Subset, FS_CardinalityType
  <2>2. CASE ProcessParents
    <3>1. phase = "parents" /\ phase' = "reattach" /\ detached' \in SUBSET Present
      BY <2>2 DEF ProcessParents
    <3>2. Cardinality(detached') <= Cardinality(Present) /\ Cardinality(detached') \in Nat
      BY <2>1, <3>1, FS_Subset, FS_CardinalityType
    <3> QED
      BY <2>1, <3>1, <3>2 DEF Remaining
  <2>3. CASE SkipAttached \/ Reattach
    <3>1. PICK next \in detached : detached' = detached \ {next}
      BY <2>3 DEF SkipAttached, Reattach
    <3>2. Cardinality(detached') = Cardinality(detached) - 1
      BY <2>1, <3>1, FS_RemoveElement
    <3>3. phase = "reattach" /\ phase' = "reattach"
      BY <2>3 DEF SkipAttached, Reattach
    <3> QED
      BY <2>1, <3>2, <3>3 DEF Remaining
  <2>4. CASE ProcessParentsFails \/ ReattachFails \/ UpdateChildrenOrder \/ UpdateChildrenPanics
    BY <1>1, <2>4 DEF ProcessParentsFails, ReattachFails, UpdateChildrenOrder,
       UpdateChildrenPanics, Building
  <2>5. CASE ApplyYjsUpdate \/ ApplyPendingEdgeMapUpdates \/ ApplyPendingPanics
    BY <1>1, <2>5 DEF ApplyYjsUpdate, ApplyPendingEdgeMapUpdates, ApplyPendingPanics, Building
  <2> QED
    BY <1>1, <2>2, <2>3, <2>4, <2>5 DEF Next, InitFromYjs
<1>2. TypeOK /\ TypeOK' /\ [Next]_vars => [BuildComesNearer]_vars
  BY <1>1 DEF BuildComesNearer
<1> QED
  BY <1>2, TypeCorrect, PTL DEF Spec

\* For every state of a build there is a way on, with values for what the code
\* leaves to the order of its hash maps: parents for all nodes or one without
\* edges; for the first detached node that it is attached by now, that it has a
\* greatest edge out of the detached nodes, or that it has none.
CanGoOn ==
    /\ phase = "parents" =>
        \/ \E n \in DOMAIN doc : edges[n] = NoEdges
        \/ \E f \in [Present -> Nodes \cup {None}] :
            f[Root] = None /\ \A n \in DOMAIN doc : f[n] \in MaxEdges(edges[n])
    /\ phase = "reattach" /\ detached # {} =>
        \E next \in detached :
            /\ IsFirst(next, detached)
            /\ \/ next \in Attached(parent)
               \/ MaxEdgesOutside(edges[next], detached) # {}
               \/ Parents(edges[next]) \subseteq detached

\* Of the edges that lead out of a set one is the greatest.
LEMMA MaxEdgesOutsideNonEmpty ==
    ASSUME NEW em \in EdgeMap, NEW S, ~ (Parents(em) \subseteq S)
    PROVE  MaxEdgesOutside(em, S) # {}
<1> DEFINE out == [p \in Nodes |-> IF p \in S THEN NoEdge ELSE em[p]]
<1>1. out \in EdgeMap
  BY DEF EdgeMap
<1>2. Parents(out) = Parents(em) \ S
  BY DEF Parents
<1>3. \A p \in Parents(out) : out[p] = em[p]
  BY DEF Parents
<1> HIDE DEF out
<1>4. MaxEdges(out) # {}
  BY <1>1, <1>2, MaxEdgesNonEmpty
<1>5. MaxEdges(out) \subseteq MaxEdgesOutside(em, S)
  BY <1>2, <1>3 DEF MaxEdges, MaxEdgesOutside
<1> QED
  BY <1>4, <1>5

\* A build is never stuck, whatever the document.
THEOREM BuildsNeverStuck == Spec => []CanGoOn
<1>1. ASSUME TypeOK, phase = "parents", \A n \in DOMAIN doc : edges[n] # NoEdges
      PROVE  \E f \in [Present -> Nodes \cup {None}] :
                f[Root] = None /\ \A n \in DOMAIN doc : f[n] \in MaxEdges(edges[n])
  <2> DEFINE f == [n \in Present |->
                      IF n = Root THEN None ELSE CHOOSE p \in MaxEdges(edges[n]) : TRUE]
  <2>1. Root \in Present /\ Root \notin DOMAIN doc /\ Present \ {Root} = DOMAIN doc
    BY <1>1, PresentFacts DEF TypeOK
  <2>2. ASSUME NEW n \in DOMAIN doc
        PROVE  MaxEdges(edges[n]) # {} /\ MaxEdges(edges[n]) \subseteq Nodes
    <3>1. edges[n] \in EdgeMap /\ edges[n] # NoEdges
      BY <1>1, <2>1, <2>2 DEF TypeOK
    <3>2. Parents(edges[n]) # {}
      BY <3>1 DEF Parents, EdgeMap, NoEdges
    <3> QED
      BY <3>1, <3>2, MaxEdgesNonEmpty DEF MaxEdges, Parents
  <2>3. \A n \in DOMAIN doc : f[n] \in MaxEdges(edges[n]) /\ f[n] \in Nodes
    BY <2>1, <2>2
  <2>4. f \in [Present -> Nodes \cup {None}] /\ f[Root] = None
    BY <2>1, <2>3
  <2> HIDE DEF f
  <2> QED
    BY <2>3, <2>4
<1>2. ASSUME TypeOK, detached # {}
      PROVE  \E next \in detached :
                /\ IsFirst(next, detached)
                /\ \/ MaxEdgesOutside(edges[next], detached) # {}
                   \/ Parents(edges[next]) \subseteq detached
  <2>1. detached \in SUBSET Nat /\ detached \subseteq Present
    BY <1>2, PresentFacts, NodesFinite DEF TypeOK, Present, PresentIn
  <2>2. PICK next \in detached : \A m \in detached : next <= m
    BY <1>2, <2>1, LeastNatural
  <2>3. edges[next] \in EdgeMap
    BY <1>2, <2>1 DEF TypeOK
  <2> QED
    BY <2>2, <2>3, MaxEdgesOutsideNonEmpty DEF IsFirst
<1>3. TypeOK => CanGoOn
  BY <1>1, <1>2 DEF CanGoOn
<1> QED
  BY <1>3, TypeCorrect, PTL
=============================================================================
