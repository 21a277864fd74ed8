------------------------------ MODULE Display ------------------------------
(***************************************************************************)
(* Display for Tree (src/src/tree.rs): the tree is printed by iterating    *)
(* over it depth first, one line per node. The lines in front of a node    *)
(* come from a vector that is kept from one node to the next and says, for *)
(* each depth, whether the node last met there was a last child.           *)
(***************************************************************************)
EXTENDS Traversal

VARIABLES
    lastDepth,      \* last_depth
    isLast          \* is_last_at_depth; the entry of depth d is isLast[d + 1]

displayVars == <<vars, lastDepth, isLast>>

\* siblings.last() == Some(node.id())
IsLastChild(n) == Last(snap.children[snap.parent[n]]) = n

\* Mutant: on the way up the vector keeps its entries.
NotTruncated(depth) ==
    IF depth > lastDepth THEN isLast \o [i \in 1 .. depth - lastDepth |-> FALSE] ELSE isLast

\* The vector, extended or truncated to the depth of the next node.
Adjusted(depth) ==
    CASE depth > lastDepth -> isLast \o [i \in 1 .. depth - lastDepth |-> FALSE]
      [] depth < lastDepth -> SubSeq(isLast, 1, depth + 1)
      [] OTHER             -> isLast

Draw(n) ==
    /\ isLast' = IF n = Root THEN Adjusted(Depth(n))
                 ELSE [Adjusted(Depth(n)) EXCEPT ![Depth(n) + 1] = IsLastChild(n)]
    /\ lastDepth' = Depth(n)

\* A tree that is iterated over depth first from its root is printed.
Drawing == order = "depth" /\ start = Root /\ IsTree(snap)

DisplayInit == Init /\ lastDepth = 0 /\ isLast = <<FALSE>>

DisplayNext ==
    /\ Next
    /\ IF Drawing /\ yielded' # yielded
       THEN Draw(Last(yielded'))
       ELSE UNCHANGED <<lastDepth, isLast>>

DisplaySpec == DisplayInit /\ [][DisplayNext]_displayVars /\ WF_displayVars(DisplayNext)

-----------------------------------------------------------------------------
\* A line has an entry for its own depth and for each depth above it, so that
\* none is read that is not there, and each says of the ancestor at that depth
\* whether it is the last child of its parent: the vertical lines go down to
\* the last child and no further.
DrawsTheTree ==
    (Drawing /\ yielded # <<>>) =>
        LET n == Last(yielded) IN
            /\ Len(isLast) = Depth(n) + 1
            /\ \A m \in (Above(n) \cup {n}) \ {Root} :
                isLast[Depth(m) + 1] = IsLastChild(m)
=============================================================================
