---------------------------- MODULE MCTraversal ----------------------------
(* Trees for model-checking Traversal and Display, and the two orders as   *)
(* recursive functions on trees.                                           *)
EXTENDS Display

CONSTANT RuinIds    \* ids of the trees that failed builds left

\* Every tree of a set of ids, with its siblings in every order: the position
\* of an id in a permutation stands for its fractional index.
TreesOf(S) ==
    LET Parent == {f \in [S \cup {Root} -> S \cup {Root, None}] :
                    /\ \A n \in S \cup {Root} : f[n] = None <=> n = Root
                    /\ Rooted(f)}
        Perms  == {q \in [1 .. Cardinality(S) -> S] : \A n \in S : \E i \in DOMAIN q : q[i] = n}
    IN  {[parent   |-> f,
          children |-> [p \in S \cup {Root} |-> SelectSeq(q, LAMBDA n : f[n] = p)]]
            : f \in Parent, q \in Perms}

Ruins ==
    {[parent   |-> f, children |-> [p \in RuinIds \cup {Root} |-> <<>>]]
        : f \in {g \in [RuinIds \cup {Root} -> Nodes \cup {None}] : g[Root] = None}}

MCSnapshots == UNION {TreesOf(S) : S \in SUBSET Ids} \cup Ruins

RECURSIVE Preorder(_, _)
Preorder(s, n) == <<n>> \o FlattenSeq([i \in DOMAIN s.children[n] |-> Preorder(s, s.children[n][i])])

RECURSIVE LevelsFrom(_, _)
LevelsFrom(s, level) ==
    IF level = <<>> THEN <<>>
    ELSE level \o LevelsFrom(s, FlattenSeq([i \in DOMAIN level |-> s.children[level[i]]]))

Expected ==
    CASE start \notin Present                     -> <<start>>
      [] start \in Present /\ order = "depth"     -> Preorder(snap, start)
      [] start \in Present /\ order = "breadth"   -> LevelsFrom(snap, <<start>>)

\* The iterator answers the nodes in the order that it is named for, each
\* once, siblings as the tree has them, and stops after the last: not at the
\* first subtree that is finished, nor outside of the start's subtree.
InOrder ==
    /\ IsPrefix(yielded, Expected)
    /\ done => yielded = Expected
=============================================================================
