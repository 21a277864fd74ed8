----------------------------- MODULE Hierarchy -----------------------------
(***************************************************************************)
(* The data of yrs_tree and the pure operators on it: node ids, edge maps  *)
(* (src/src/tree_structure.rs, EdgeMap) and what it means for a node to    *)
(* reach the root by following parents (TreeStructure::can_reach).         *)
(*                                                                         *)
(* Ids are naturals because the code orders them: NodeId derives Ord with  *)
(* the variant Root first, BTreeSet::first takes the least id and siblings *)
(* with equal fractional indices are sorted by id.                         *)
(***************************************************************************)
EXTENDS Integers, FiniteSets

CONSTANT Ids    \* the user-chosen ids, NodeId::Id(_)

ASSUME IdsAssumption == Ids \subseteq Nat \ {0} /\ IsFiniteSet(Ids)

Root  == 0                  \* NodeId::Root, the least NodeId
None  == -1                 \* parent_id = Option::None
Nodes == Ids \cup {Root}

-----------------------------------------------------------------------------
(* Edge maps: for each parent a node ever had, the value of that edge.     *)

NoEdge == -1    \* the HashMap has no entry for that parent

Parents(em) == {p \in Nodes : em[p] # NoEdge}

\* The parents max_edge may answer. The edges of a HashMap are compared by
\* value only and met in an unspecified order, so any of several greatest
\* edges may be the answer.
MaxEdges(em) == {p \in Parents(em) : \A q \in Parents(em) : em[q] <= em[p]}

EdgeMap == [Nodes -> Nat \cup {NoEdge}]

NoEdges == [p \in Nodes |-> NoEdge]

\* Mutant: the new edge does not exceed the greatest one.
NextEdgeOffByOne(em) == IF Parents(em) = {} THEN 0
                        ELSE em[CHOOSE p \in MaxEdges(em) : TRUE]

\* The value add_edge gives the edge it adds.
NextEdge(em) == IF Parents(em) = {} THEN 0
                ELSE em[CHOOSE p \in MaxEdges(em) : TRUE] + 1

AddEdge(em, p) == [em EXCEPT ![p] = NextEdge(em)]

\* Mutant: nodes that are still detached count as parents.
MaxEdgesAnywhere(em, excluded) == MaxEdges(em)

\* The heads edges_desc().find(..) may answer: a greatest edge among those
\* that do not lead to an excluded node. Ties are again in hash order.
MaxEdgesOutside(em, excluded) ==
    {p \in Parents(em) \ excluded :
        \A q \in Parents(em) \ excluded : em[q] <= em[p]}

\* The edge map em of node n after the pending updates ps have been written to
\* it, in order: of several updates of one edge the last one counts.
Written(em, n, ps) ==
    LET ofNode(p) == {i \in DOMAIN ps : ps[i][1] = n /\ ps[i][2] = p}
        last(S)   == CHOOSE i \in S : \A j \in S : j <= i
    IN  [p \in Nodes |->
            IF ofNode(p) = {} THEN em[p] ELSE ps[last(ofNode(p))][3]]

-----------------------------------------------------------------------------
(* The containers of the Yrs map: an edge map and a fractional index per   *)
(* id. The indices the library creates are the default one and those got   *)
(* from it by FractionalIndex::new_after, so the n-th stands for them.     *)

Container == [em : EdgeMap, fi : Nat]

IsDoc(d) == DOMAIN d \subseteq Ids /\ d \in [DOMAIN d -> Container]

-----------------------------------------------------------------------------
(* The elements of a finite set as a sequence, in the order of a relation: *)
(* the i-th is the one that has i - 1 before it.                           *)

Sorted(S, before) ==
    [i \in 1 .. Cardinality(S) |->
        CHOOSE a \in S : Cardinality({b \in S : <<b, a>> \in before}) = i - 1]

-----------------------------------------------------------------------------
(* Reachability along a parent function, whose domain is the set of nodes  *)
(* present. A node leads to the root when it is in every set that contains *)
(* the root and, with a node, all its children.                            *)

Closed(parent, S) ==
    /\ Root \in S
    /\ \A n \in DOMAIN parent : parent[n] \in S => n \in S

\* Mutant: the root, which has no parent, does not reach itself.
AttachedExceptRoot(parent) ==
    {n \in DOMAIN parent \ {Root} :
        \A S \in SUBSET DOMAIN parent : Closed(parent, S) => n \in S}

\* can_reach(n, Root): the nodes whose parents lead to the root.
Attached(parent) ==
    {n \in DOMAIN parent :
        \A S \in SUBSET DOMAIN parent : Closed(parent, S) => n \in S}

\* A node and its descendants: what every set holds that contains the node
\* and, with a node, all its children.
Subtree(parent, n) ==
    {m \in DOMAIN parent :
        \A S \in SUBSET DOMAIN parent :
            n \in S /\ (\A k \in DOMAIN parent : parent[k] \in S => k \in S) => m \in S}

\* A tree: every node present leads to the root.
Rooted(parent) == Attached(parent) = DOMAIN parent
=============================================================================
