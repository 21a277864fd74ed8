------------------------------- MODULE YrsMap -------------------------------
(***************************************************************************)
(* External: the Yrs map that a tree is stored in, as far as src/ uses it. *)
(*                                                                         *)
(* The map holds a container per node id, a map with the keys "em" (a map  *)
(* from parent to edge value) and "fi". Yrs keeps, for each key of a map,  *)
(* the list of all the items ever inserted at the key, of which the last   *)
(* is its value. An item goes after the one that its client saw there, and *)
(* items that were inserted after the same one by different clients are    *)
(* ordered by client id. An item is therefore named by the path of clients *)
(* from the first item to it, and of the items two documents have at a key *)
(* the one with the lexicographically greatest path is the last. Removing  *)
(* a key deletes its last item.                                            *)
(***************************************************************************)
EXTENDS Hierarchy, Sequences, SequencesExt

CONSTANT Clients    \* the client ids of the documents

ASSUME ClientsAssumption == Clients \subseteq Nat /\ IsFiniteSet(Clients)

\* A key with the value v at its last item.
Register(path, v) == [path |-> path, val |-> v]
Registers == [path : Seq(Clients), val : Nat \cup {NoEdge}]
Unset == Register(<<>>, NoEdge)

\* Whether the item at path p comes after the one at path q.
IsAfter(p, q) ==
    \E i \in DOMAIN p :
        /\ i - 1 <= Len(q) /\ SubSeq(p, 1, i - 1) = SubSeq(q, 1, i - 1)
        /\ i > Len(q) \/ p[i] > q[i]

\* map.insert by client c at a key.
Insert(reg, c, v) == Register(Append(reg.path, c), v)

\* Mutant: what arrives replaces what is there.
ArrivedWins(a, b) == b

\* The last item of the two documents' lists.
Latest(a, b) == IF IsAfter(b.path, a.path) THEN b ELSE a

-----------------------------------------------------------------------------
(* Containers                                                              *)

\* A container has its index from the transaction that creates it.
Entries == {e \in [path : Seq(Clients), live : BOOLEAN,
                   em : [Nodes -> Registers], fi : Registers] : e.live => e.fi.val \in Nat}

NoEntry == [path |-> <<>>, live |-> FALSE,
            em |-> [p \in Nodes |-> Unset], fi |-> Unset]

\* map.insert of a new container, with its first edge and its index.
NewEntry(entry, c, p, v, fi) ==
    [path |-> Append(entry.path, c), live |-> TRUE,
     em   |-> [q \in Nodes |-> IF q = p THEN Insert(Unset, c, v) ELSE Unset],
     fi   |-> Insert(Unset, c, fi)]

\* map.remove; what the container held goes with it.
Removed(entry) == [NoEntry EXCEPT !.path = entry.path]

\* The same container merges key by key, unless it was removed on one side;
\* of two containers the last one in the list remains.
MergeEntries(a, b) ==
    IF a.path = b.path
    THEN IF a.live /\ b.live
         THEN [a EXCEPT !.em = [p \in Nodes |-> Latest(a.em[p], b.em[p])],
                        !.fi = Latest(a.fi, b.fi)]
         ELSE Removed(a)
    ELSE Latest(a, b)

-----------------------------------------------------------------------------
(* Documents: the map, and how many of each client's transactions are in   *)
(* it (its state vector).                                                  *)

Documents == [map : [Ids -> Entries], seen : [Clients -> Nat]]

NoDoc == [map |-> [n \in Ids |-> NoEntry], seen |-> [c \in Clients |-> 0]]

\* transact.apply_update of another document's state.
Merge(a, b) ==
    [map  |-> [n \in Ids |-> MergeEntries(a.map[n], b.map[n])],
     seen |-> [c \in Clients |-> IF a.seen[c] < b.seen[c] THEN b.seen[c] ELSE a.seen[c]]]

\* Whether b has anything that a does not have: only then are observers told.
HasNews(a, b) == \E c \in Clients : a.seen[c] < b.seen[c]

Live(d) == {n \in Ids : d.map[n].live}

\* collect_node_containers: the containers that are there.
Content(d) ==
    [n \in Live(d) |-> [em |-> [p \in Nodes |-> d.map[n].em[p].val],
                        fi |-> d.map[n].fi.val]]
=============================================================================
