-------------------------------- MODULE Tree --------------------------------
(***************************************************************************)
(* Trees over Yrs documents that exchange updates (src/src/tree.rs and     *)
(* node.rs): each client has a document, the tree it caches and the nodes  *)
(* it holds handles of; its operations write to its document, and every    *)
(* transaction on the document, local or remote, rebuilds its cached tree. *)
(*                                                                         *)
(* A Tree is not Sync, so an operation runs to its end, with all its       *)
(* transactions, before the document takes a remote update. What other     *)
(* clients get is the state of the document at some commit, at any time,   *)
(* in any order, more than once or never.                                  *)
(***************************************************************************)
EXTENDS Rebuild, YrsMap

CONSTANTS
    Initial,    \* ids that are children of the root when the behaviour starts
    Creator,    \* the client that created them
    Uses,       \* bound: the operations that clients use
    Indices,    \* bound: the indices they use; past the last child is the end
    MaxOps      \* bound on the operations of a behaviour

ASSUME InitialAssumption == Initial \subseteq Ids /\ Creator \in Clients
ASSUME UsesAssumption ==
    Uses \subseteq {"create", "move", "before", "after", "promote", "cascade", "reopen"}
ASSUME IndicesAssumption == Indices \subseteq Nat
ASSUME MaxOpsAssumption == MaxOps \in Nat

VARIABLES
    tree,       \* the state of each client's Tree and document
    event,      \* history: what happened last
    ops         \* bound: operations so far

vars == <<tree, event, ops>>

End == Cardinality(Ids)     \* index = Option::None

\* The state of a client. A Tree is open until it is poisoned; a client whose
\* thread panicked, or whose Tree::new failed, has stopped. Two fields are
\* history: how many of the pending updates are older than the last build, and
\* whether the last build was of the document as it is.
TypeOK ==
    /\ \A c \in Clients :
        LET s == tree[c] IN
            /\ s.doc \in Documents /\ s.commits \subseteq Documents
            /\ s.parent \in [{Root} \cup Live(s.doc) -> Nodes \cup {None}]
            /\ s.edges \in [{Root} \cup Live(s.doc) -> EdgeMap]
            /\ s.children \in [{Root} \cup Live(s.doc) -> Seq(Live(s.doc))]
            /\ s.pending \in Seq(Ids \X Nodes \X Nat)
            /\ s.stale \in Nat /\ s.fresh \in BOOLEAN
            /\ s.status \in {"open", "poisoned", "stopped"}
            /\ s.handles \subseteq Ids
    /\ ops \in 0 .. MaxOps

-----------------------------------------------------------------------------
(* Transactions                                                            *)

\* The observer of the map: apply_yjs_update, then the tree is updated or
\* poisoned. A poisoned tree is rebuilt as well and stays poisoned.
Observed(s) ==
    {[s EXCEPT !.parent   = b.parent,
               !.edges    = b.edges,
               !.children = b.children,
               !.pending  = b.pending,
               !.stale    = Len(s.pending),
               !.fresh    = TRUE,
               !.handles  = @ \cup Live(s.doc),
               !.status   = CASE b.ends = "built"    -> s.status
                              [] b.ends = "bad_doc"  -> "poisoned"
                              [] b.ends = "panicked" -> "stopped"]
        : b \in Rebuilds(Content(s.doc), s.pending)}

\* A transaction of client c that leaves the map so.
Commit(c, s, map) ==
    LET d == [map |-> map, seen |-> [s.doc.seen EXCEPT ![c] = @ + 1]]
    IN  [s EXCEPT !.doc = d, !.commits = @ \cup {d}]

\* The map with the edge of a pending update in its container.
EdgeWritten(map, c, update) ==
    [map EXCEPT ![update[1]].em[update[2]] = Insert(@, c, update[3])]

\* apply_pending_edge_map_updates in a transaction of its own, while the
\* observer is disabled. An update of a node whose container is gone is an
\* unwrap of None.
WritePending(c, s) ==
    CASE s.pending = <<>> -> s
      [] \E i \in DOMAIN s.pending : s.pending[i][1] \notin Live(s.doc) ->
            [s EXCEPT !.status = "stopped"]
      [] OTHER ->
            LET written[i \in 0 .. Len(s.pending)] ==
                    IF i = 0 THEN s.doc.map
                    ELSE EdgeWritten(written[i - 1], c, s.pending[i])
            IN  [Commit(c, s, written[Len(s.pending)])
                    EXCEPT !.pending = <<>>, !.fresh = FALSE]

\* Mutant: the end of the children is told from the first child.
IndexAfterFirst(s, p, index) ==
    LET kids  == IF p \in DOMAIN s.children THEN s.children[p] ELSE <<>>
    IN  IF kids = <<>> THEN 0 ELSE Content(s.doc)[kids[1]].fi + 1

\* The fractional index for a node at an index among the children of p: past
\* the last child a new one, elsewhere that of the child at the index.
IndexAt(s, p, index) ==
    LET kids  == IF p \in DOMAIN s.children THEN s.children[p] ELSE <<>>
        fi(n) == Content(s.doc)[n].fi
    IN  CASE kids = <<>>         -> 0
          [] kids # <<>> /\ index >= Len(kids) -> fi(Last(kids)) + 1
          [] OTHER               -> fi(kids[index + 1])

\* TreeStructure::update_node on the container of n: an edge above those of
\* the cached edge map, or a new container for a node that is not cached.
Placed(c, s, n, p, index) ==
    LET entry == s.doc.map[n]
    IN  [s.doc.map EXCEPT ![n] =
            IF n \in DOMAIN s.parent
            THEN [entry EXCEPT !.em[p] = Insert(@, c, NextEdge(s.edges[n])),
                               !.fi = Insert(@, c, IndexAt(s, p, index))]
            ELSE NewEntry(entry, c, p, 0, IndexAt(s, p, index))]

\* Mutant: the transaction is not observed, so the cache is as it was.
UpdateNodeUnobserved(c, s, n, p, index) ==
    LET w == WritePending(c, s) IN
    IF s.status # "open" \/ w.status = "stopped" \/ n = Root THEN {w}
    ELSE {Commit(c, w, Placed(c, w, n, p, index))}

\* Tree::update_node. The root has no container: BadYrsDoc, after the pending
\* updates are written and the cached edge map of the root has its new edge.
UpdateNode(c, s, n, p, index) ==
    LET w == WritePending(c, s) IN
    CASE s.status # "open" -> {s}
      [] s.status = "open" /\ w.status = "stopped" -> {w}
      [] s.status = "open" /\ w.status # "stopped" /\ n = Root ->
            {[w EXCEPT !.edges[Root] = AddEdge(@, p)]}
      [] OTHER -> Observed(Commit(c, w, Placed(c, w, n, p, index)))

\* Mutant: the transaction that deletes is not observed.
DeleteUnobserved(c, s, ids) ==
    IF s.status # "open" \/ ids \cap Live(s.doc) = {} THEN {s}
    ELSE {Commit(c, s, [n \in Ids |-> IF n \in ids THEN Removed(s.doc.map[n])
                                     ELSE s.doc.map[n]])}

\* Tree::delete_nodes. Removing what is not there changes nothing.
DeleteNodes(c, s, ids) ==
    IF s.status # "open" \/ ids \cap Live(s.doc) = {} THEN {s}
    ELSE Observed(Commit(c, s,
            [n \in Ids |-> IF n \in ids /\ s.doc.map[n].live
                           THEN Removed(s.doc.map[n]) ELSE s.doc.map[n]]))

\* Mutant: the node is deleted before its children are moved.
PromoteDeletesFirst(c, s, n) ==
    LET move(ss, child) == UNION {UpdateNode(c, t, child, s.parent[n], End) : t \in ss}
    IN  FoldLeft(move, DeleteNodes(c, s, {n}), s.children[n])

\* Mutant: the children take the front places of the parent.
PromoteToFront(c, s, n) ==
    LET move(ss, child) == UNION {UpdateNode(c, t, child, s.parent[n], 0) : t \in ss}
    IN  UNION {DeleteNodes(c, t, {n}) : t \in FoldLeft(move, {s}, s.children[n])}

\* delete_node, Promote: the children move to the end of the parent's, one
\* update_node each; then the node is deleted.
Promote(c, s, n) ==
    LET kids == s.children[n]
        moved[i \in 0 .. Len(kids)] ==
            IF i = 0 THEN {s}
            ELSE UNION {UpdateNode(c, t, kids[i], s.parent[n], End) : t \in moved[i - 1]}
    IN  UNION {DeleteNodes(c, t, {n}) : t \in moved[Len(kids)]}

\* Mutants: the descendants, or those below the children, are left behind.
OnlyItself(s, n)       == {n}
OnlyItsChildren(s, n)  == {n} \cup {m \in DOMAIN s.parent : s.parent[m] = n}

\* delete_node, Cascade: the nodes of a breadth-first traversal.
ToDelete(s, n) == Subtree(s.parent, n)

\* Mutant: the position is counted from one.
IndexCountedFromOne(i, offset) == i + offset

\* move_relative: the index at, or after, the i-th of the siblings.
IndexBeside(i, offset) == i - 1 + offset

-----------------------------------------------------------------------------
(* Operations                                                              *)

Client(d) ==
    [doc |-> d, commits |-> {d}, handles |-> Live(d), status |-> "open",
     pending |-> <<>>, stale |-> 0, fresh |-> FALSE,
     parent |-> <<>>, edges |-> <<>>, children |-> <<>>]

\* The document in which the creator created the initial nodes in a row.
InitialDoc ==
    [map  |-> [n \in Ids |->
                IF n \in Initial
                THEN NewEntry(NoEntry, Creator, Root, 0, Cardinality({m \in Initial : m < n}))
                ELSE NoEntry],
     seen |-> [NoDoc.seen EXCEPT ![Creator] = Cardinality(Initial)]]

\* Tree::new at every client, on documents that hold the initial nodes.
Init ==
    /\ tree \in [Clients -> Observed(Client(InitialDoc))]
    /\ event = [op |-> "new"]
    /\ ops = 0

\* Client c ends an operation in one of the given states.
Step(c, e, states) ==
    /\ ops < MaxOps
    /\ e.op \in Uses
    /\ tree[c].status # "stopped" \/ e.op = "reopen"
    /\ ops' = ops + 1
    /\ event' = e
    /\ \E s \in states : tree' = [tree EXCEPT ![c] = s]

Handles(c) == tree[c].handles \cup {Root}

\* create_child, create_child_at, create_child_with_id(_at): the id may be in
\* use already. There is no handle of the node from a poisoned tree.
CreateChild(c, n, p, index) ==
    /\ p \in Handles(c)
    /\ Step(c, [op |-> "create", client |-> c, node |-> n, under |-> p, index |-> index],
            IF tree[c].status = "open"
            THEN {[s EXCEPT !.handles = @ \cup {n}] : s \in UpdateNode(c, tree[c], n, p, index)}
            ELSE {tree[c]})

\* Node::move_to, to any node: also one under the node itself.
MoveTo(c, n, p, index) ==
    /\ n \in Handles(c) /\ p \in Handles(c)
    /\ Step(c, [op |-> "move", client |-> c, node |-> n, under |-> p, index |-> index],
            UpdateNode(c, tree[c], n, p, index))

\* move_before (offset 0) and move_after (offset 1): Cycle and InvalidTarget
\* are errors; a node without a parent, or not among the children of its
\* parent, is an unwrap of None.
MoveRelative(c, n, other, offset) ==
    LET s == tree[c]
        p == s.parent[other]
        at == {i \in DOMAIN s.children[p] : s.children[p][i] = other}
    IN
    /\ n \in Handles(c) /\ other \in Handles(c) \ {n, Root}
    /\ Step(c, [op |-> IF offset = 0 THEN "before" ELSE "after",
                client |-> c, node |-> n, other |-> other],
            IF \/ other \notin DOMAIN s.parent
               \/ p \notin DOMAIN s.children
               \/ at = {}
            THEN {[s EXCEPT !.status = "stopped"]}
            ELSE UNION {UpdateNode(c, s, n, p, IndexBeside(i, offset)) : i \in at})

\* Node::delete(Promote): InvalidTarget for a node without a parent.
DeletePromote(c, n) ==
    LET s == tree[c] IN
    /\ n \in Handles(c)
    /\ n \in DOMAIN s.parent /\ s.parent[n] # None
    /\ Step(c, [op |-> "promote", client |-> c, node |-> n], Promote(c, s, n))

\* Node::delete(Cascade): the node and its descendants; InvalidTarget for the
\* root. A node that is not there is an unwrap of None.
DeleteCascade(c, n) ==
    LET s == tree[c] IN
    /\ n \in Handles(c) \ {Root}
    /\ Step(c, [op |-> "cascade", client |-> c, node |-> n],
            IF n \notin DOMAIN s.parent THEN {[s EXCEPT !.status = "stopped"]}
            ELSE DeleteNodes(c, s, ToDelete(s, n)))

\* The application drops the tree, or has lost it, and calls Tree::new on the
\* document again: the pending updates are gone, and there is no tree if the
\* document cannot be built.
Reopen(c) ==
    Step(c, [op |-> "reopen", client |-> c],
         {[s EXCEPT !.status = IF s.status = "open" THEN "open" ELSE "stopped"]
            : s \in Observed([tree[c] EXCEPT !.status = "open", !.pending = <<>>,
                                             !.handles = {}])})

\* The document of c takes an update of another client. Where the containers
\* stay as they are (the update only wrote to removed ones, say) the observer
\* may not be told.
Receive(c, d) ==
    /\ tree[c].status # "stopped"
    /\ HasNews(tree[c].doc, d)
    /\ LET s == [tree[c] EXCEPT !.doc = Merge(@, d)] IN
        \/ \E t \in Observed(s) : tree' = [tree EXCEPT ![c] = t]
        \/ /\ s.doc.map = tree[c].doc.map
           /\ tree' = [tree EXCEPT ![c] = s]
    /\ event' = [op |-> "receive", client |-> c]
    /\ UNCHANGED ops

Next ==
    \E c \in Clients :
        \/ \E n \in Ids, p \in Nodes, i \in Indices : CreateChild(c, n, p, i)
        \/ \E n \in Nodes, p \in Nodes, i \in Indices : MoveTo(c, n, p, i)
        \/ \E n \in Nodes, m \in Ids, i \in {0, 1} : MoveRelative(c, n, m, i)
        \/ \E n \in Ids : DeletePromote(c, n)
        \/ \E n \in Ids : DeleteCascade(c, n)
        \/ Reopen(c)
        \/ \E b \in Clients \ {c} : \E d \in tree[b].commits : Receive(c, d)

Spec == Init /\ [][Next]_vars

-----------------------------------------------------------------------------
(* Properties                                                              *)

\* No node has two edges of the same value: which parents max_edge and
\* edges_desc answer is determined by the document.
TieFree(d) ==
    \A n \in Live(d) :
        LET em == Content(d)[n].em IN
            \A p, q \in Parents(em) : em[p] = em[q] => p = q

\* A cache that agrees with the document.
FollowsTheDocument(s) ==
    LET content == Content(s.doc) IN
    /\ s.parent[Root] = None
    /\ \A p \in DOMAIN s.parent : s.children[p] = SortedChildren(content, s.parent, p)
    /\ \A n \in Live(s.doc) : s.parent[n] \in MaxEdges(s.edges[n])
    /\ s.fresh /\ TieFree(s.doc) => \A n \in Live(s.doc) : MaxEdges(s.edges[n]) = {s.parent[n]}
    /\ s.stale = 0 =>
        /\ \A i \in DOMAIN s.pending : s.pending[i][1] \in Live(s.doc)
        /\ \A n \in Live(s.doc) : s.edges[n] = Written(content[n].em, n, s.pending)

\* What readers see of an open tree is a tree of the containers in the
\* document: every node leads to the root and is, once, among the children of
\* its parent and of no other node.
OpenTreeIsATree ==
    \A c \in Clients :
        LET s == tree[c] IN
        s.status = "open" =>
            /\ DOMAIN s.parent = {Root} \cup Live(s.doc)
            /\ Rooted(s.parent)
            /\ \A n \in Live(s.doc), p \in DOMAIN s.children :
                Times(n, s.children[p]) = IF s.parent[n] = p THEN 1 ELSE 0

\* What an open tree caches is what its document says: siblings are in the
\* order of the document, parents are the greatest cached edges, and the
\* cached edges, which the next edge of a node is to exceed, are those of the
\* document once the pending updates are written to it, also where update_node
\* has written them and then failed, so that nothing was rebuilt. This last holds
\* unless updates that an earlier build left are still pending.
CacheFollowsTheDocument ==
    \A c \in Clients : tree[c].status = "open" => FollowsTheDocument(tree[c])

\* Clients that have seen the same updates, in whatever order, have the same
\* tree, with the same order of siblings, where edges do not tie.
TieFreeTreesConverge ==
    \A c, d \in Clients :
        /\ tree[c].doc.seen = tree[d].doc.seen
        /\ tree[c].status = "open" /\ tree[d].status = "open"
        /\ tree[c].fresh /\ tree[d].fresh
        /\ TieFree(tree[c].doc)
        => /\ tree[c].doc = tree[d].doc
           /\ tree[c].parent = tree[d].parent
           /\ tree[c].children = tree[d].children
-----------------------------------------------------------------------------
(* What operations promise, on an open tree whose document has no ties     *)

Before == tree[event'.client]   \* the client's state before an operation
After  == tree'[event'.client]  \* and after it

Plain == Before.status = "open" /\ Before.fresh /\ Before.stale = 0 /\ TieFree(Before.doc)

\* The node is placed where no cycle comes of it.
Acyclic(n, p) == n # Root /\ p \in DOMAIN Before.parent
                 /\ (n \in DOMAIN Before.parent => p \notin Subtree(Before.parent, n))

Placing == ops' # ops /\ event'.op \in {"create", "move"}

\* A node that is created or moved gets the parent asked for and no other node
\* moves, also when the operation writes the repairs of an earlier cycle to
\* the document; past the last index it is the last child.
PlaceIsExact ==
    [][Placing /\ Plain /\ Acyclic(event'.node, event'.under) =>
        LET n == event'.node
            p == event'.under
        IN  /\ After.status = "open" /\ After.pending = <<>>
            /\ After.parent = [m \in DOMAIN Before.parent \cup {n} |->
                                IF m = n THEN p ELSE Before.parent[m]]
            /\ event'.index >= Len(Before.children[p]) => Last(After.children[p]) = n]_vars

\* Where a node lands that is moved relative to another, when no two siblings
\* have the same index: moved before it, next to it (on which side, the ids
\* decide); moved after it, somewhere after it. No other node moves.
MovesBeside ==
    [][(ops' # ops /\ event'.op \in {"before", "after"} /\ Plain
          /\ event'.other \in DOMAIN Before.parent
          /\ Acyclic(event'.node, Before.parent[event'.other])
          /\ \A m, k \in Live(Before.doc) :
                Before.parent[m] = Before.parent[k] /\ m # k
                    => Content(Before.doc)[m].fi # Content(Before.doc)[k].fi) =>
        LET p       == Before.parent[event'.other]
            at(n)   == CHOOSE i \in DOMAIN After.children[p] : After.children[p][i] = n
            i       == at(event'.node)
            j       == at(event'.other)
        IN  /\ After.parent = [m \in DOMAIN Before.parent \cup {event'.node} |->
                                IF m = event'.node THEN p ELSE Before.parent[m]]
            /\ IF event'.op = "before" THEN i - j \in {-1, 1} ELSE i > j]_vars

\* Deleting a node with the strategy Promote leaves its children, in order,
\* at the end of those of its parent, although each is moved and observed in
\* a transaction of its own; no other node moves, when no repairs are pending.
PromoteKeepsOrder ==
    [][ops' # ops /\ event'.op = "promote" /\ Plain /\ Before.pending = <<>> =>
        LET n == event'.node
            p == Before.parent[n]
            i == CHOOSE j \in DOMAIN Before.children[p] : Before.children[p][j] = n
        IN  /\ After.status = "open"
            /\ After.parent = [m \in DOMAIN Before.parent \ {n} |->
                                IF Before.parent[m] = n THEN p ELSE Before.parent[m]]
            /\ After.children[p] = RemoveAt(Before.children[p], i)
                                    \o Before.children[n]]_vars

\* Deleting a node with the strategy Cascade deletes it and its descendants,
\* and no other node moves, when no repairs are pending.
CascadeIsExact ==
    [][ops' # ops /\ event'.op = "cascade" /\ Plain /\ Before.pending = <<>>
          /\ event'.node \in DOMAIN Before.parent =>
        /\ After.status = "open"
        /\ After.parent = [m \in DOMAIN Before.parent \ Subtree(Before.parent, event'.node)
                                |-> Before.parent[m]]]_vars

-----------------------------------------------------------------------------
(* What the documentation says, and the code does not do                   *)

\* "Changes among clients are guaranteed to converge to a consistent state":
\* open trees that have seen the same updates are equal.
TreesConverge ==
    \A c, d \in Clients :
        /\ tree[c].doc.seen = tree[d].doc.seen
        /\ tree[c].status = "open" /\ tree[d].status = "open"
        /\ tree[c].fresh /\ tree[d].fresh
        => tree[c].parent = tree[d].parent /\ tree[c].children = tree[d].children

\* "Without specially handling the edge map when reparenting, this will
\* unintuitively move A": placing a node moves no other node.
PlaceMovesOneNode ==
    [][Placing /\ Before.status = "open" /\ TieFree(Before.doc)
          /\ Acyclic(event'.node, event'.under) =>
        \A m \in DOMAIN Before.parent \ {event'.node} :
            After.parent[m] = Before.parent[m]]_vars

\* "The tree ensures that conflicts and cycles are handled correctly":
\* deleting a node that is there never panics.
DeletingNeverPanics ==
    [][ops' # ops /\ event'.op \in {"promote", "cascade"}
          /\ event'.node \in DOMAIN Before.parent
        => After.status # "stopped"]_vars
=============================================================================
