------------------------------ MODULE CanReach ------------------------------
(***************************************************************************)
(* TreeStructure::can_reach (src/src/tree_structure.rs) with the root as   *)
(* its target, the only one it is called with: a tortoise and a hare climb *)
(* from a node, one iteration of the loop per step. TreeStructure uses its *)
(* answer as the operator Attached; here it is shown to be that.           *)
(***************************************************************************)
EXTENDS Hierarchy

VARIABLES
    parent,     \* nodes[n].parent_id, for the nodes present; never changes
    start,      \* the argument id; never changes
    tortoise,
    hare,
    answer      \* "searching" until the function returns

vars == <<parent, start, tortoise, hare, answer>>

TypeOK ==
    /\ Root \in DOMAIN parent /\ DOMAIN parent \subseteq Nodes
    /\ parent[Root] = None
    /\ \A n \in DOMAIN parent \ {Root} : parent[n] \in Nodes
    /\ start \in DOMAIN parent
    /\ tortoise \in Nodes
    /\ hare \in Nodes \cup {None}
    /\ answer \in {"searching", "yes", "no"}

\* nodes.get(n).and_then(|n| n.parent_id): a node that is not present has no
\* parent, nor has a node that does not exist.
ParentOf(n) == IF n \in DOMAIN parent THEN parent[n] ELSE None

\* Mutant: a node without edges is passed over instead of being an error.
SomeParentsSet(S) == [S \cup {Root} -> Nodes \cup {None}]

\* What process_parent_relationships has done when can_reach is first called:
\* every node but the root has a parent, which need not be present.
ParentsSet(S) == {f \in [S \cup {Root} -> Nodes \cup {None}] :
                      \A n \in S \cup {Root} : f[n] = None <=> n = Root}

Init ==
    /\ \E S \in SUBSET Ids : parent \in ParentsSet(S)
    /\ start \in DOMAIN parent
    /\ tortoise = start
    /\ hare = ParentOf(start)
    /\ answer = "searching"

Answer(a) ==
    /\ answer' = a
    /\ UNCHANGED <<parent, start, tortoise, hare>>

\* There is nothing above the node the search starts from.
NoParent ==
    /\ answer = "searching"
    /\ hare = None
    /\ Answer(IF start = Root THEN "yes" ELSE "no")

\* The parent of the node is the root.
AtOnce ==
    /\ answer = "searching"
    /\ hare = Root
    /\ Answer("yes")

OneUp == ParentOf(hare)
TwoUp == ParentOf(ParentOf(hare))

Climbing == answer = "searching" /\ hare \notin {None, Root}

\* Mutant: the target is compared with the hare after two hops only.
TwoUpIsRoot == TwoUp = Root

\* The hare finds the root one or two hops up.
RootAhead == OneUp = Root \/ TwoUp = Root

HareArrives == Climbing /\ RootAhead /\ Answer("yes")

\* The hare runs into a node without a parent, which is not the root.
HareFalls ==
    /\ Climbing
    /\ ~ RootAhead
    /\ TwoUp = None
    /\ Answer("no")

\* Where the tortoise goes: a node without a parent stays where it is.
Follow == IF ParentOf(tortoise) = None THEN tortoise ELSE ParentOf(tortoise)

\* Mutant: the tortoise never leaves the start.
TortoiseSleeps == tortoise' = tortoise

TortoiseFollows == tortoise' = Follow

\* The hare hops twice, the tortoise once; where they meet there is a cycle.
Hop ==
    /\ Climbing
    /\ ~ RootAhead
    /\ TwoUp # None
    /\ hare' = TwoUp
    /\ TortoiseFollows
    /\ answer' = IF tortoise' = hare' THEN "no" ELSE "searching"
    /\ UNCHANGED <<parent, start>>

\* The function has returned.
Returned == answer # "searching" /\ UNCHANGED vars

Next == NoParent \/ AtOnce \/ HareArrives \/ HareFalls \/ Hop \/ Returned

\* A function that is called runs on.
Spec == Init /\ [][Next]_vars /\ WF_vars(Next)

-----------------------------------------------------------------------------
(* Properties                                                              *)

\* can_reach answers whether the node leads to the root: neither a cycle
\* above the node, nor one it is not on, nor an ancestor without a container
\* fools it.
AnswerIsRight ==
    /\ answer = "yes" => start \in Attached(parent)
    /\ answer = "no"  => start \notin Attached(parent)

\* The nodes on the way up from x, as far as stop.
Upward(x, stop) ==
    LET Ways == {S \in SUBSET Nodes :
                    x \in S /\ \A k \in S \ {stop} : ParentOf(k) \in S \cup {None}}
    IN  {m \in Nodes : \A S \in Ways : m \in S}

\* What the search has still before it: the way of the tortoise and, on a
\* cycle, the lead that the tortoise has over the hare.
Remaining == Cardinality(Upward(tortoise, None)) + Cardinality(Upward(hare, tortoise))

\* Every iteration that does not end the search brings it nearer to its end,
\* on the way to a cycle as well as on it: it takes no more of them than
\* twice the number of nodes, wherever it starts.
SearchProgresses ==
    [][answer = "searching" /\ answer' = "searching" => Remaining' < Remaining]_vars

\* The search ends, also when the cycle does not contain the start.
SearchEnds == <>(answer # "searching")
=============================================================================
