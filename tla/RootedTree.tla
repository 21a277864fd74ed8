----------------------------- MODULE RootedTree -----------------------------
(***************************************************************************)
(* What the rebuild of the cached tree promises its readers, whatever      *)
(* algorithm breaks the cycles: the tree that is shown after the document  *)
(* has changed is a tree, made of edges that the document records, and it  *)
(* shows the greatest edges wherever these lead to the root. The promise   *)
(* may only be given up when the greatest edges do not make a tree.        *)
(*                                                                         *)
(* This is TreeStructure::init_from_yjs (src/src/tree_structure.rs) as its *)
(* caller sees it; TreeStructure implements it.                            *)
(***************************************************************************)
EXTENDS Hierarchy

VARIABLES
    doc,    \* the containers of the Yrs map
    tree,   \* the parents that readers see, NoTree when they should not look
    mode    \* "shown", "updating" or "failed"

vars == <<doc, tree, mode>>

Present(d) == {Root} \cup DOMAIN d

NoTree == [n \in {} |-> None]

\* The parents that the nodes get from max_edge alone: one choice of greatest
\* edges, which need not be a tree.
IsGreatest(d, g) ==
    /\ DOMAIN g = Present(d)
    /\ g[Root] = None
    /\ \A n \in DOMAIN d : g[n] \in MaxEdges(d[n].em)

WithRoot(g) == [n \in {Root} \cup DOMAIN g |-> IF n = Root THEN None ELSE g[n]]

Greatest(d) == {g \in {WithRoot(h) : h \in [DOMAIN d -> Nodes]} : IsGreatest(d, g)}

\* The trees that the document may be shown as.
IsShownAs(d, f) ==
    /\ DOMAIN f = Present(d)
    /\ f[Root] = None
    /\ \A n \in DOMAIN d : f[n] \in Parents(d[n].em)
    /\ Rooted(f)
    /\ \E g \in Greatest(d) : \A n \in Attached(g) : f[n] = g[n]

\* Documents that may be given up on.
MayFail(d) ==
    \/ \E n \in DOMAIN d : Parents(d[n].em) = {}
    \/ \E g \in Greatest(d) : ~ Rooted(g)

-----------------------------------------------------------------------------
Init ==
    /\ DOMAIN doc = {}
    /\ tree = WithRoot(NoTree)
    /\ mode = "shown"

\* The document changes in any way.
Change ==
    /\ mode # "updating"
    /\ IsDoc(doc')
    /\ tree' = NoTree
    /\ mode' = "updating"

\* The tree of the new document is shown.
Show ==
    /\ mode = "updating"
    /\ IsShownAs(doc, tree')
    /\ mode' = "shown"
    /\ UNCHANGED doc

\* The tree is poisoned, or the caller panics.
Fail ==
    /\ mode = "updating"
    /\ MayFail(doc)
    /\ mode' = "failed"
    /\ UNCHANGED <<doc, tree>>

\* Repairs are written to the document behind the tree that is shown.
Persist ==
    /\ mode = "shown"
    /\ IsDoc(doc') /\ DOMAIN doc' = DOMAIN doc
    /\ UNCHANGED <<tree, mode>>

\* Repairs cannot be written, which loses the tree.
Lose ==
    /\ mode = "shown"
    /\ tree' = NoTree
    /\ mode' = "failed"
    /\ UNCHANGED doc

Next == Change \/ Show \/ Fail \/ Persist \/ Lose

Spec == Init /\ [][Next]_vars
=============================================================================
