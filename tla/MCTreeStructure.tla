-------------------------- MODULE MCTreeStructure --------------------------
(* Documents for model-checking TreeStructure.                             *)
EXTENDS TreeStructure

CONSTANTS MaxEdgeValue, MaxHistory   \* bounds on edge values and on edges

\* Edge maps with at most MaxHistory edges of values up to MaxEdgeValue. They
\* include the empty one, edges to the node itself, edges that tie, cycles
\* between any nodes and edges to ids without a container.
MCEdgeMaps ==
    {em \in [Nodes -> {NoEdge} \cup 0 .. MaxEdgeValue] :
        Cardinality(Parents(em)) <= MaxHistory}
=============================================================================
