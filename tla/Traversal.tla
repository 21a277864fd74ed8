----------------------------- MODULE Traversal -----------------------------
(***************************************************************************)
(* TreeIter (src/src/iter.rs): an iterator over a node and its descendants *)
(* in a copy of the cached tree, called until it answers None. Each step   *)
(* is a call of next, but for the loop in which the depth-first order      *)
(* climbs back: there a step is an iteration.                              *)
(***************************************************************************)
EXTENDS Hierarchy, Sequences, SequencesExt

CONSTANT Snapshots  \* the trees to iterate over: [parent |-> .., children |-> ..]

\* The cached tree that a finished build leaves: every node leads to the root,
\* and the children of a node are those whose parent it is, each once. Open
\* trees are such trees (OpenTreeIsATree of Tree).
IsTree(s) ==
    /\ Root \in DOMAIN s.parent /\ s.parent[Root] = None
    /\ Rooted(s.parent)
    /\ s.children \in [DOMAIN s.parent -> Seq(DOMAIN s.parent)]
    /\ \A p \in DOMAIN s.parent :
        /\ IsInjective(s.children[p])
        /\ {s.children[p][i] : i \in DOMAIN s.children[p]} = {n \in DOMAIN s.parent : s.parent[n] = p}

\* A build that failed leaves no children at all, and any parents.
IsRuin(s) ==
    /\ Root \in DOMAIN s.parent
    /\ s.children = [p \in DOMAIN s.parent |-> <<>>]

IsSnapshot(s) == DOMAIN s.parent \subseteq Nodes /\ (IsTree(s) \/ IsRuin(s))

ASSUME SnapshotsAssumption == \A s \in Snapshots : IsSnapshot(s)

VARIABLES
    snap,       \* TreeIter::structure
    start, order, queue,
    last,       \* last_node
    current,    \* the node the climb has come to; None outside of the climb
    yielded,    \* history: the nodes that next has answered
    done        \* next has answered None

vars == <<snap, start, order, queue, last, current, yielded, done>>

Present == DOMAIN snap.parent

TypeOK ==
    /\ IsSnapshot(snap)
    /\ start \in Nodes
    /\ order \in {"depth", "breadth"}
    /\ queue \in Seq(Nodes) /\ (order = "depth" => queue = <<>>)
    /\ last \in Nodes \cup {None} /\ current \in Nodes \cup {None}
    /\ yielded \in Seq(Nodes)
    /\ done \in BOOLEAN

\* Mutant: the queue is not for the breadth-first order alone.
QueueAlways(o) == <<start>>

Queue(o) == IF o = "breadth" THEN <<start>> ELSE <<>>

\* TreeIter::new. The handle of a node that has gone is a start as well.
Init ==
    /\ snap \in Snapshots
    /\ start \in Nodes
    /\ order \in {"depth", "breadth"}
    /\ queue = Queue(order)
    /\ last = None /\ current = None
    /\ yielded = <<>>
    /\ done = FALSE

-----------------------------------------------------------------------------
(* Breadth first                                                           *)

\* Mutant: the first child is taken for the node itself.
ChildrenButOne(n) ==
    IF n \in Present /\ snap.children[n] # <<>> THEN Tail(snap.children[n]) ELSE <<>>

Children(n) == IF n \in Present THEN snap.children[n] ELSE <<>>

\* Mutant: the children go to the front of the queue.
PopFrontPushFront ==
    /\ order = "breadth" /\ ~ done
    /\ queue # <<>>
    /\ queue' = Children(Head(queue)) \o Tail(queue)
    /\ yielded' = Append(yielded, Head(queue))
    /\ UNCHANGED <<snap, start, order, last, current, done>>

PopFront ==
    /\ order = "breadth" /\ ~ done
    /\ queue # <<>>
    /\ queue' = Tail(queue) \o Children(Head(queue))
    /\ yielded' = Append(yielded, Head(queue))
    /\ UNCHANGED <<snap, start, order, last, current, done>>

NothingQueued ==
    /\ order = "breadth" /\ ~ done
    /\ queue = <<>>
    /\ done' = TRUE
    /\ UNCHANGED <<snap, start, order, queue, last, current, yielded>>

-----------------------------------------------------------------------------
(* Depth first                                                             *)

Yield(n) ==
    /\ last' = n
    /\ current' = None
    /\ yielded' = Append(yielded, n)
    /\ UNCHANGED <<snap, start, order, queue, done>>

GoTo(n) ==
    /\ current' = n
    /\ UNCHANGED <<snap, start, order, queue, last, yielded, done>>

End ==
    /\ done' = TRUE
    /\ UNCHANGED <<snap, start, order, queue, last, current, yielded>>

Descending == order = "depth" /\ ~ done /\ current = None
Climbing   == order = "depth" /\ ~ done /\ current # None

Begin == Descending /\ last = None /\ Yield(start)

ToFirstChild ==
    /\ Descending /\ last \in Present
    /\ snap.children[last] # <<>>
    /\ Yield(snap.children[last][1])

ToClimb ==
    /\ Descending /\ last \in Present
    /\ snap.children[last] = <<>>
    /\ GoTo(last)

\* The start is not, or no longer, in the tree: it has no children.
StartMissing == Descending /\ last \notin Present \cup {None} /\ End

BackAtStart == Climbing /\ current = start /\ End

\* Where current is among its siblings. The code ends the iteration where it
\* is not; NeverLost says that a climb does not get there.
Places ==
    IF snap.parent[current] \in Present
    THEN {i \in DOMAIN snap.children[snap.parent[current]] :
            snap.children[snap.parent[current]][i] = current}
    ELSE {}

\* Mutant: the climb does not stop at the start.
ToNextSiblingPastStart ==
    /\ Climbing
    /\ \E i \in Places :
        LET siblings == snap.children[snap.parent[current]] IN
            /\ i + 1 <= Len(siblings)
            /\ Yield(siblings[i + 1])

ToNextSibling ==
    /\ Climbing /\ current # start
    /\ \E i \in Places :
        LET siblings == snap.children[snap.parent[current]] IN
            /\ i + 1 <= Len(siblings)
            /\ Yield(siblings[i + 1])

\* Mutant: the climb stays where it is.
StayThere ==
    /\ Climbing /\ current # start
    /\ \E i \in Places : i = Len(snap.children[snap.parent[current]])
    /\ UNCHANGED vars

\* Mutant: the iteration goes on from the parent as if it had just come there.
ToParentAnew ==
    /\ Climbing /\ current # start
    /\ \E i \in Places : i = Len(snap.children[snap.parent[current]])
    /\ last' = snap.parent[current]
    /\ current' = None
    /\ UNCHANGED <<snap, start, order, queue, yielded, done>>

ToParent ==
    /\ Climbing /\ current # start
    /\ \E i \in Places : i = Len(snap.children[snap.parent[current]])
    /\ GoTo(snap.parent[current])

-----------------------------------------------------------------------------
Exhausted == done /\ UNCHANGED vars

Next ==
    \/ PopFront \/ NothingQueued
    \/ Begin \/ ToFirstChild \/ ToClimb \/ StartMissing
    \/ BackAtStart \/ ToNextSibling \/ ToParent
    \/ Exhausted

\* The iterator is run to its end.
Spec == Init /\ [][Next]_vars /\ WF_vars(Next)

-----------------------------------------------------------------------------
(* Properties                                                              *)

Visited == {yielded[i] : i \in DOMAIN yielded}

\* Both orders answer the start and its descendants, each once and nothing
\* else: a cascading deletion, which collects what the breadth-first order
\* answers, forgets no node.
VisitsTheSubtree ==
    start \in Present /\ IsTree(snap) =>
        /\ Visited \subseteq Subtree(snap.parent, start)
        /\ IsInjective(yielded)
        /\ done => Visited = Subtree(snap.parent, start)

\* The ancestors that Node::depth counts as it follows the parents.
Above(n) == {m \in Present \ {n} : n \in Subtree(snap.parent, m)}
Depth(n) == Cardinality(Above(n))

\* n is below m, or they are in the subtrees of an earlier and a later sibling.
Precedes(m, n) ==
    \/ m \in Above(n)
    \/ \E p \in Present : \E i, j \in DOMAIN snap.children[p] :
        /\ i < j
        /\ m \in Subtree(snap.parent, snap.children[p][i])
        /\ n \in Subtree(snap.parent, snap.children[p][j])

ComesBefore(m, n) ==
    \/ order = "breadth" /\ Depth(m) < Depth(n)
    \/ (order = "breadth" => Depth(m) = Depth(n)) /\ Precedes(m, n)

\* The orders are what they are named for: depth first, a node comes before
\* what is below it and a sibling's subtree before the next sibling; breadth
\* first, a level before the next one, and in that order within it.
AnswersInOrder ==
    start \in Present /\ IsTree(snap) =>
        \A j \in DOMAIN yielded : \A i \in 1 .. j - 1 : ComesBefore(yielded[i], yielded[j])

\* A climb finds every node it comes to among the children of the node's parent,
\* until it is back at the start: none of the lookups on the way up, each of
\* which would end the iteration early and without an error, fails.
NeverLost == Climbing /\ current # start => Places # {}

\* Where the depth-first order is.
Position == CASE current # None                 -> current
              [] current = None /\ last # None -> last
              [] OTHER                          -> start

\* What the iteration has before it: a step down to each node that it has not
\* answered and a step up from it, and the way from where it is to the top.
Remaining ==
    2 * Cardinality((Present \cup {start}) \ Visited) + Depth(Position)
    + (IF current = None THEN 1 ELSE 0)

\* Every call of next, and every iteration of its climb, that does not end the
\* iteration brings it nearer to its end: however the answers and the climbs
\* alternate, no part of the tree is gone through again.
IterationProgresses == [][~ done' => Remaining' < Remaining]_vars

\* The iteration ends; the climb in particular, from wherever it starts and
\* whatever a failed build has left.
Ends == <>done
=============================================================================
