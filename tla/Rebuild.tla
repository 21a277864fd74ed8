------------------------------ MODULE Rebuild ------------------------------
(***************************************************************************)
(* TreeStructure::init_from_yjs (src/src/tree_structure.rs) as one step:   *)
(* the set of the ways in which it may end. TreeStructure has the same     *)
(* function one iteration at a time and ends in one of these ways (its     *)
(* property EndsAsRebuild); modules in which a rebuild is a part of a      *)
(* larger action use this one.                                             *)
(***************************************************************************)
EXTENDS Hierarchy, Sequences

PresentIn(content) == {Root} \cup DOMAIN content

\* What the loop of reattach_nodes works on: the parents and edge maps of the
\* nodes, those that are still detached, the pending updates, and how the
\* build ends if it has ended.
Build(content, parent, pending, ends) ==
    [parent   |-> parent,
     edges    |-> [n \in PresentIn(content) |-> IF n = Root THEN NoEdges ELSE content[n].em],
     detached |-> PresentIn(content) \ Attached(parent),
     pending  |-> pending,
     ends     |-> ends]

\* process_parent_relationships: parents are greatest edges, and a container
\* without edges ends the build where some nodes may have theirs already.
Started(content, pending) ==
    LET Functions == {f \in [PresentIn(content) -> Nodes \cup {None}] : f[Root] = None}
        Empty     == {n \in DOMAIN content : Parents(content[n].em) = {}}
    IN  IF Empty = {}
        THEN {Build(content, f, pending, "reattach") :
                f \in {g \in Functions :
                        \A n \in DOMAIN content : g[n] \in MaxEdges(content[n].em)}}
        ELSE {Build(content, f, pending, "bad_doc") :
                f \in {g \in Functions :
                        \A n \in DOMAIN content : g[n] \in MaxEdges(content[n].em) \cup {None}}}

\* BTreeSet::first
First(S) == CHOOSE n \in S : \A m \in S : n <= m

\* An iteration of reattach_nodes.
Settle(b) ==
    LET next  == First(b.detached)
        heads == MaxEdgesOutside(b.edges[next], b.detached)
    IN
    CASE b.ends # "reattach" -> {b}
      [] b.ends = "reattach" /\ next \in Attached(b.parent) ->
            {[b EXCEPT !.detached = @ \ {next}]}
      [] b.ends = "reattach" /\ next \notin Attached(b.parent) /\ heads = {} ->
            {[b EXCEPT !.ends = "bad_doc"]}
      [] OTHER ->
            {[b EXCEPT !.parent[next] = p,
                       !.edges[next] = AddEdge(@, p),
                       !.pending = Append(@, <<next, p, NextEdge(b.edges[next])>>),
                       !.detached = @ \ {next}] : p \in heads}

\* reattach_nodes: an iteration removes a node from those that are detached,
\* or ends the build.
Reattached(b) ==
    LET Iterations == Cardinality(b.detached)
        after[i \in 0 .. Iterations] ==
            IF i = 0 THEN {b} ELSE UNION {Settle(c) : c \in after[i - 1]}
    IN  after[Iterations]

\* Siblings are ordered by fractional index, then by id.
SiblingBefore(content) ==
    {e \in (DOMAIN content) \X (DOMAIN content) :
        LET x == content[e[1]].fi
            y == content[e[2]].fi
        IN  x < y \/ (x = y /\ e[1] < e[2])}

SortedChildren(content, parent, n) ==
    Sorted({c \in DOMAIN content : parent[c] = n}, SiblingBefore(content))

\* How many times a node is in a sequence of children.
Times(n, kids) == Cardinality({i \in DOMAIN kids : kids[i] = n})

\* update_children_order, which panics at a parent without a container.
Finished(content, b) ==
    LET ends == CASE b.ends = "bad_doc" -> "bad_doc"
                  [] b.ends # "bad_doc" /\ \E n \in DOMAIN content : b.parent[n] \notin PresentIn(content) ->
                        "panicked"
                  [] OTHER -> "built"
    IN  [parent   |-> b.parent,
         edges    |-> b.edges,
         children |-> [n \in PresentIn(content) |->
                        IF ends = "built" THEN SortedChildren(content, b.parent, n) ELSE <<>>],
         pending  |-> b.pending,
         ends     |-> ends]

\* init_from_yjs of the containers in content, when the updates in pending
\* are left from earlier builds.
Rebuilds(content, pending) ==
    {Finished(content, b) : b \in UNION {Reattached(s) : s \in Started(content, pending)}}
=============================================================================
