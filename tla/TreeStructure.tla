--------------------------- MODULE TreeStructure ---------------------------
(***************************************************************************)
(* TreeStructure::init_from_yjs (src/src/tree_structure.rs): how the       *)
(* cached tree is rebuilt from the Yrs map each time the document changes, *)
(* one action per function it calls and one per iteration of the loop that *)
(* breaks cycles. apply_pending_edge_map_updates, which later writes the   *)
(* repairs back to the document, is an action as well.                     *)
(***************************************************************************)
EXTENDS Rebuild

CONSTANTS EdgeMaps,     \* the edge maps and fractional indices that the
          Indices,      \* containers of a document may hold
          MaxUpdates    \* bound on the number of updates of a behaviour

ASSUME EdgeMapsAssumption == EdgeMaps \subseteq EdgeMap
ASSUME IndicesAssumption == Indices \subseteq Nat
ASSUME MaxUpdatesAssumption == MaxUpdates \in Nat

VARIABLES
    doc,        \* the containers of the Yrs map
    parent,     \* nodes[n].parent_id; its domain is the key set of nodes
    edges,      \* nodes[n].edge_map
    children,   \* nodes[n].children
    detached,   \* non_attached_nodes, the BTreeSet of reattach_nodes
    pending,    \* pending_edge_map_updates
    carried,    \* history: how many pending updates predate this build
    phase,      \* where init_from_yjs is, or how it ended
    updates     \* bound: updates so far

vars == <<doc, parent, edges, children, detached, pending, carried, phase, updates>>

Building == {"parents", "reattach"}
Ended    == {"built", "bad_doc", "panicked"}
Pending  == Ids \X Nodes \X Nat

Present == PresentIn(doc)

TypeOK ==
    /\ IsDoc(doc)
    /\ parent \in [Present -> Nodes \cup {None}]
    /\ edges \in [Present -> EdgeMap]
    /\ DOMAIN children = Present
    /\ detached \subseteq DOMAIN doc
    /\ pending \in Seq(Pending)
    /\ carried \in Nat
    /\ phase \in Building \cup Ended
    /\ updates \in 0 .. MaxUpdates

-----------------------------------------------------------------------------
(* TreeStructure::new followed by init_from_yjs of an empty document, as   *)
(* Tree::new does with a fresh one: the root alone.                        *)
Init ==
    /\ doc = [n \in {} |-> [em |-> NoEdges, fi |-> 0]]
    /\ parent = [n \in {Root} |-> None]
    /\ edges = [n \in {Root} |-> NoEdges]
    /\ children = [n \in {Root} |-> <<>>]
    /\ detached = {}
    /\ pending = <<>>
    /\ carried = 0
    /\ phase = "built"
    /\ updates = 0

\* apply_yjs_update: the document changed, and init_from_yjs clears the
\* nodes and creates one for the root and one for every container. The
\* pending updates of earlier builds stay where they are. An earlier build
\* that failed does not keep the observer from building again.
ApplyYjsUpdate ==
    /\ phase \in {"built", "bad_doc"}
    /\ updates < MaxUpdates
    /\ \E S \in SUBSET Ids : doc' \in [S -> [em : EdgeMaps, fi : Indices]]
    /\ parent' = [n \in Present' |-> None]
    /\ edges' = [n \in Present' |-> IF n = Root THEN NoEdges ELSE doc'[n].em]
    /\ children' = [n \in Present' |-> <<>>]
    /\ detached' = {}
    /\ carried' = Len(pending)
    /\ phase' = "parents"
    /\ updates' = updates + 1
    /\ UNCHANGED pending

\* process_parent_relationships: the parent of a node is a greatest edge of
\* its edge map; then the nodes that cannot reach the root are collected.
ProcessParents ==
    /\ phase = "parents"
    /\ \A n \in DOMAIN doc : edges[n] # NoEdges
    /\ parent' \in {f \in [Present -> Nodes \cup {None}] :
                       /\ f[Root] = None
                       /\ \A n \in DOMAIN doc : f[n] \in MaxEdges(edges[n])}
    /\ detached' = Present \ Attached(parent')
    /\ phase' = "reattach"
    /\ UNCHANGED <<doc, edges, children, pending, carried, updates>>

\* process_parent_relationships meets a container without edges and returns
\* BadYrsDoc; the containers before it, in no particular order, have their
\* parent already.
ProcessParentsFails ==
    /\ phase = "parents"
    /\ \E n \in DOMAIN doc : edges[n] = NoEdges
    /\ parent' \in {f \in [Present -> Nodes \cup {None}] :
                       /\ f[Root] = None
                       /\ \A n \in DOMAIN doc : f[n] \in MaxEdges(edges[n]) \cup {None}}
    /\ phase' = "bad_doc"
    /\ UNCHANGED <<doc, edges, children, detached, pending, carried, updates>>

\* BTreeSet::first
IsFirst(n, S) == n \in S /\ \A m \in S : n <= m

\* Mutant: the iteration goes on without removing the node.
SkipAttachedForgetsRemove ==
    /\ phase = "reattach"
    /\ \E next \in detached : IsFirst(next, detached) /\ next \in Attached(parent)
    /\ UNCHANGED vars

\* reattach_nodes, an iteration that finds the first node attached by now.
SkipAttached ==
    /\ phase = "reattach"
    /\ \E next \in detached :
        /\ IsFirst(next, detached)
        /\ next \in Attached(parent)
        /\ detached' = detached \ {next}
    /\ UNCHANGED <<doc, parent, edges, children, pending, carried, phase, updates>>

\* Mutant: a node that was attached by an earlier iteration is moved too.
ReattachRegardless ==
    /\ phase = "reattach"
    /\ \E next \in detached :
        /\ IsFirst(next, detached)
        /\ \E p \in MaxEdgesOutside(edges[next], detached) :
            /\ parent' = [parent EXCEPT ![next] = p]
            /\ edges' = [edges EXCEPT ![next] = AddEdge(@, p)]
            /\ pending' = Append(pending, <<next, p, NextEdge(edges[next])>>)
        /\ detached' = detached \ {next}
    /\ UNCHANGED <<doc, children, carried, phase, updates>>

\* reattach_nodes, an iteration that moves the first node to the most recent
\* of its parents that is not detached, as an edge newer than all others,
\* and leaves that edge to be written to the document later.
Reattach ==
    /\ phase = "reattach"
    /\ \E next \in detached :
        /\ IsFirst(next, detached)
        /\ next \notin Attached(parent)
        /\ \E p \in MaxEdgesOutside(edges[next], detached) :
            /\ parent' = [parent EXCEPT ![next] = p]
            /\ edges' = [edges EXCEPT ![next] = AddEdge(@, p)]
            /\ pending' = Append(pending, <<next, p, NextEdge(edges[next])>>)
        /\ detached' = detached \ {next}
    /\ UNCHANGED <<doc, children, carried, phase, updates>>

\* reattach_nodes, an iteration whose node never had a parent outside the
\* detached nodes: BadYrsDoc.
ReattachFails ==
    /\ phase = "reattach"
    /\ \E next \in detached :
        /\ IsFirst(next, detached)
        /\ next \notin Attached(parent)
        /\ Parents(edges[next]) \subseteq detached
    /\ phase' = "bad_doc"
    /\ UNCHANGED <<doc, parent, edges, children, detached, pending, carried, updates>>

\* update_children_order
UpdateChildrenOrder ==
    /\ phase = "reattach"
    /\ detached = {}
    /\ \A n \in DOMAIN doc : parent[n] \in Present
    /\ children' = [n \in Present |-> SortedChildren(doc, parent, n)]
    /\ phase' = "built"
    /\ UNCHANGED <<doc, parent, edges, detached, pending, carried, updates>>

\* update_children_order looks up the parent of each node with unwrap: a
\* parent without a container is a panic in the observer callback.
UpdateChildrenPanics ==
    /\ phase = "reattach"
    /\ detached = {}
    /\ \E n \in DOMAIN doc : parent[n] \notin Present
    /\ phase' = "panicked"
    /\ UNCHANGED <<doc, parent, edges, children, detached, pending, carried, updates>>

-----------------------------------------------------------------------------
(* apply_pending_edge_map_updates                                          *)

\* The observer is disabled meanwhile, so nothing is rebuilt.
ApplyPendingEdgeMapUpdates ==
    /\ phase = "built"
    /\ pending # <<>>
    /\ \A i \in DOMAIN pending : pending[i][1] \in DOMAIN doc
    /\ doc' = [n \in DOMAIN doc |-> [doc[n] EXCEPT !.em = Written(@, n, pending)]]
    /\ pending' = <<>>
    /\ UNCHANGED <<parent, edges, children, detached, carried, phase, updates>>

\* A pending update of a node whose container is gone: unwrap of None.
ApplyPendingPanics ==
    /\ phase = "built"
    /\ \E i \in DOMAIN pending : pending[i][1] \notin DOMAIN doc
    /\ phase' = "panicked"
    /\ UNCHANGED <<doc, parent, edges, children, detached, pending, carried, updates>>

-----------------------------------------------------------------------------
InitFromYjs ==
    \/ ProcessParents \/ ProcessParentsFails
    \/ SkipAttached \/ Reattach \/ ReattachFails
    \/ UpdateChildrenOrder \/ UpdateChildrenPanics

Next ==
    \/ ApplyYjsUpdate
    \/ InitFromYjs
    \/ ApplyPendingEdgeMapUpdates
    \/ ApplyPendingPanics

\* init_from_yjs runs to its end in the thread that called it.
Fairness == WF_vars(InitFromYjs)

Spec == Init /\ [][Next]_vars /\ Fairness

-----------------------------------------------------------------------------
(* Properties                                                              *)

\* The tree that readers see after a build is a tree: every node present
\* leads to the root, whatever cycles the merged edge maps contained.
BuiltIsRooted == phase = "built" => Rooted(parent)

\* The loop invariant of reattach_nodes: a node that is not, or no longer, in
\* the set of detached nodes leads to the root; the only excuse is a node that
\* was left hanging from an id without a container, and that build panics.
SettledNodesAttached ==
    phase = "reattach" =>
        \/ Present \ detached \subseteq Attached(parent)
        \/ \E n \in DOMAIN doc \ detached : parent[n] \notin Present

\* Breaking cycles disturbs nothing else: a node that leads to the root keeps
\* its parent and stays attached while reattach_nodes repairs the others.
RepairOnlyAttaches ==
    [][phase = "reattach" /\ phase' = "reattach" =>
           \A n \in Attached(parent) :
               n \in Attached(parent') /\ parent'[n] = parent[n]]_vars

\* The repairs left pending by a build say what the build shows: once they
\* are written, the greatest edge of every node is its parent in the cached
\* tree, and it is the only greatest edge of every node that was moved.
RepairWillPersist ==
    phase = "built" /\ carried = 0 =>
        \A n \in DOMAIN doc :
            LET em == Written(doc[n].em, n, pending) IN
                /\ parent[n] \in MaxEdges(em)
                /\ em # doc[n].em => MaxEdges(em) = {parent[n]}

\* Every build ends: the loop of reattach_nodes terminates on every document.
BuildEnds == phase \in Building ~> phase \in Ended

\* How a build has ended.
Outcome == [parent |-> parent, edges |-> edges, children |-> children,
            pending |-> pending, ends |-> phase]

\* A build of init_from_yjs, iteration by iteration, ends in one of the ways
\* in which the one-step rebuild ends, with the same tree and repairs.
EndsAsRebuild ==
    [][(phase \in Building /\ phase' \in Ended)
        => Outcome' \in Rebuilds(doc, SubSeq(pending, 1, carried))]_vars

\* What readers see: the tree of a finished build.
Shown == IF phase = "built" THEN parent ELSE [n \in {} |-> None]

Mode == CASE phase = "built"     -> "shown"
          [] phase \in Building  -> "updating"
          [] OTHER               -> "failed"

Abstract == INSTANCE RootedTree WITH tree <- Shown, mode <- Mode

\* The loop that breaks cycles implements the promise: what is shown after a
\* build is a tree of recorded edges, with the greatest edges wherever these
\* lead to the root, and a build fails only where these do not make a tree.
ShowsARootedTree == Abstract!Spec

\* What the documentation of Tree says of poisoning: a build gives up only on
\* a document that cannot be reconciled, where no choice among the recorded
\* parents of the nodes makes a tree.
GivesUpOnlyWhenIrreconcilable ==
    phase = "bad_doc" =>
        ~ \E f \in [Present -> Nodes \cup {None}] :
            /\ f[Root] = None
            /\ \A n \in DOMAIN doc : f[n] \in Parents(doc[n].em)
            /\ Rooted(f)
=============================================================================
