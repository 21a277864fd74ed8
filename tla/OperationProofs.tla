-------------------------- MODULE OperationProofs --------------------------
(* What operations promise, for any number of clients and nodes: of a tree *)
(* that is current and whose document has no ties, exactly what was asked  *)
(* for changes, also when repairs of an earlier cycle are written with it. *)
EXTENDS TreeProofs

\* The states that the promises are about.
PlainStates ==
    {s \in GoodStates : s.status = "open" /\ s.fresh /\ s.stale = 0 /\ TieFree(s.doc)}

\* What a client in such a state knows.
LEMMA PlainFacts ==
    ASSUME NEW s \in PlainStates
    PROVE  /\ s \in GoodStates /\ s \in States /\ s.status = "open" /\ s.doc \in Documents
           /\ Live(s.doc) \subseteq Ids /\ Root \notin Live(s.doc) /\ None \notin Nodes
           /\ s.parent \in [{Root} \cup Live(s.doc) -> Nodes \cup {None}]
           /\ s.parent[Root] = None /\ Rooted(s.parent)
           /\ s.pending \in Updates
           /\ \A i \in DOMAIN s.pending : s.pending[i][1] \in Live(s.doc)
           /\ \A n \in Live(s.doc) :
                /\ s.edges[n] \in EdgeMap /\ MaxEdges(s.edges[n]) = {s.parent[n]}
                /\ s.edges[n] = Written(EdgesIn(s.doc.map, n), n, s.pending)
           /\ \A p \in DOMAIN s.parent :
                s.children[p] = SortedChildren(Content(s.doc), s.parent, p)
<1>1. /\ s \in States /\ CachesTheDocument(s) /\ ShowsATree(s) /\ FollowsTheDocument(s)
      /\ s.status = "open" /\ s.fresh /\ s.stale = 0 /\ TieFree(s.doc)
      /\ s.doc \in Documents /\ s.pending \in Updates
  BY DEF PlainStates, GoodStates, IsCurrent, States
<1>2. Live(s.doc) \subseteq Ids /\ Root \notin Live(s.doc) /\ None \notin Nodes
  BY IdsAssumption DEF Live, Nodes, Root, None
<1>3. \A n \in Live(s.doc) : Content(s.doc)[n].em = EdgesIn(s.doc.map, n)
  BY DEF Content, EdgesIn
<1>4. s.edges \in [{Root} \cup Live(s.doc) -> EdgeMap]
  BY <1>1 DEF CachesTheDocument
<1>5. /\ s.parent[Root] = None
      /\ \A p \in DOMAIN s.parent : s.children[p] = SortedChildren(Content(s.doc), s.parent, p)
      /\ \A n \in Live(s.doc) : MaxEdges(s.edges[n]) = {s.parent[n]}
      /\ \A i \in DOMAIN s.pending : s.pending[i][1] \in Live(s.doc)
      /\ \A n \in Live(s.doc) : s.edges[n] = Written(Content(s.doc)[n].em, n, s.pending)
  BY <1>1 DEF FollowsTheDocument
<1> QED
  BY <1>1, <1>2, <1>3, <1>4, <1>5 DEF CachesTheDocument, ShowsATree, PlainStates

\* Before it does anything else, an operation writes what is pending: then the
\* edges of the document are the cached ones.
LEMMA PendingIsWritten ==
    ASSUME NEW c \in Clients, NEW s \in PlainStates
    PROVE  LET w == WritePending(c, s) IN
           /\ w \in GoodStates /\ w.status = "open" /\ w.pending = <<>>
           /\ Live(w.doc) = Live(s.doc)
           /\ w.parent = s.parent /\ w.edges = s.edges /\ w.children = s.children
           /\ \A n \in Live(s.doc) : EdgesIn(w.doc.map, n) = s.edges[n]
           /\ \A n \in Ids : w.doc.map[n].fi = s.doc.map[n].fi
<1> DEFINE w == WritePending(c, s)
<1>1. s \in GoodStates
  BY PlainFacts
<1>2. /\ w \in GoodStates /\ Live(w.doc) = Live(s.doc)
      /\ w.parent = s.parent /\ w.edges = s.edges /\ w.children = s.children
      /\ WritesWhatIsPending(s, w)
  BY <1>1, WritePendingGood, PlainFacts
<1> HIDE DEF w
<1>3. \A n \in Live(s.doc) : EdgesIn(w.doc.map, n) = s.edges[n]
  BY <1>2, PlainFacts DEF WritesWhatIsPending
<1> QED
  BY <1>2, <1>3, PlainFacts DEF WritesWhatIsPending, w

\* The index that a node is given depends on the siblings and their indices.
LEMMA SameIndexAt ==
    ASSUME NEW s \in GoodStates, NEW w \in GoodStates, w.children = s.children,
           Live(w.doc) = Live(s.doc), \A n \in Ids : w.doc.map[n].fi = s.doc.map[n].fi,
           NEW p, NEW index \in Nat
    PROVE  IndexAt(w, p, index) = IndexAt(s, p, index)
<1> DEFINE kids == IF p \in DOMAIN s.children THEN s.children[p] ELSE <<>>
           n    == Len(kids)
<1>1. kids \in Seq(Live(s.doc)) /\ Live(s.doc) \subseteq Ids
  BY EmptySeq DEF GoodStates, CachesTheDocument, Live
<1>2. \A m \in Live(s.doc) : Content(w.doc)[m].fi = Content(s.doc)[m].fi
  BY <1>1 DEF Content
<1> HIDE DEF kids
<1>3. \A i \in 1 .. n : Content(w.doc)[kids[i]].fi = Content(s.doc)[kids[i]].fi
  BY <1>1, <1>2, ElementOfSeq
<1>4. n \in Nat
  BY <1>1, LenProperties
<1>5. CASE kids = <<>>
  BY <1>5 DEF IndexAt, kids
<1>6. CASE kids # <<>> /\ index >= n
  <2>1. n \in 1 .. n
    BY <1>1, <1>4, <1>6, EmptySeq
  <2>2. /\ IndexAt(s, p, index) = Content(s.doc)[kids[n]].fi + 1
        /\ IndexAt(w, p, index) = Content(w.doc)[kids[n]].fi + 1
    BY <1>6 DEF IndexAt, Last, kids
  <2> QED
    BY <1>3, <2>1, <2>2
<1>7. CASE kids # <<>> /\ ~ (index >= n)
  <2>1. index + 1 \in 1 .. n
    BY <1>4, <1>7
  <2>2. /\ IndexAt(s, p, index) = Content(s.doc)[kids[index + 1]].fi
        /\ IndexAt(w, p, index) = Content(w.doc)[kids[index + 1]].fi
    BY <1>7 DEF IndexAt, kids
  <2> QED
    BY <1>3, <2>1, <2>2
<1> QED
  BY <1>5, <1>6, <1>7

\* The map with a node placed in it: one container has a new edge, or is new.
LEMMA PlacedHas ==
    ASSUME NEW c \in Clients, NEW s \in GoodStates, NEW n \in Ids, NEW p \in Nodes,
           NEW index \in Nat
    PROVE  LET map == Placed(c, s, n, p, index) IN
           /\ LiveIn(map) = Live(s.doc) \cup {n}
           /\ \A m \in Ids \ {n} : map[m] = s.doc.map[m]
           /\ map[n].fi.val = IndexAt(s, p, index)
           /\ EdgesIn(map, n) = IF n \in Live(s.doc)
                                THEN [EdgesIn(s.doc.map, n) EXCEPT ![p] = NextEdge(s.edges[n])]
                                ELSE AddEdge(NoEdges, p)
<1> DEFINE map == Placed(c, s, n, p, index)
           e   == s.doc.map[n]
           fi  == IndexAt(s, p, index)
<1>1. s.doc.map \in MapsOfEntries /\ e \in Entries
  BY DEF GoodStates, States, Documents, MapsOfEntries
<1>2. fi \in Nat
  BY IndexAtType
<1>3. n \in DOMAIN s.parent <=> n \in Live(s.doc)
  BY IdsAssumption DEF GoodStates, CachesTheDocument, Live, Root
<1> HIDE DEF fi
<1>4. CASE n \in Live(s.doc)
  <2> DEFINE v  == NextEdge(s.edges[n])
             em == [e.em EXCEPT ![p] = Insert(e.em[p], c, v)]
             at == Insert(e.fi, c, fi)
  <2>1. v \in Nat
    BY <1>4, AddEdgeIsUniqueMax DEF GoodStates, CachesTheDocument
  <2>2. map = [s.doc.map EXCEPT ![n] = [e EXCEPT !.em = em, !.fi = at]]
    BY <1>3, <1>4 DEF Placed, fi
  <2>3. e.em \in [Nodes -> Registers] /\ e.em[p] \in Registers /\ e.fi \in Registers /\ e.live
    BY <1>1, <1>4 DEF Entries, Live
  <2> HIDE DEF v, map
  <2>4. Insert(e.em[p], c, v).val = v /\ at.val = fi
    BY <1>2, <2>1, <2>3, InsertType
  <2>5. \A q \in Nodes : em[q].val = IF q = p THEN v ELSE e.em[q].val
    BY <2>3, <2>4
  <2> HIDE DEF em, at
  <2>6. /\ map[n].em = em /\ map[n].fi = at /\ map[n].live
        /\ \A m \in Ids \ {n} : map[m] = s.doc.map[m]
    BY <1>1, <2>2, <2>3 DEF MapsOfEntries, Entries
  <2>7. EdgesIn(map, n) = [EdgesIn(s.doc.map, n) EXCEPT ![p] = v]
    BY <2>5, <2>6 DEF EdgesIn
  <2>8. LiveIn(map) = Live(s.doc) \cup {n}
    BY <2>6 DEF LiveIn, Live
  <2> QED
    BY <1>4, <2>4, <2>6, <2>7, <2>8 DEF map, v, fi
<1>5. CASE n \notin Live(s.doc)
  <2> DEFINE new == NewEntry(e, c, p, 0, fi)
  <2>1. map = [s.doc.map EXCEPT ![n] = new]
    BY <1>3, <1>5 DEF Placed, fi
  <2>2. Insert(Unset, c, 0).val = 0 /\ Insert(Unset, c, fi).val = fi /\ Unset.val = NoEdge
    BY <1>2, EntryTypes, InsertType DEF Unset, Register
  <2>3. /\ \A q \in Nodes : new.em[q].val = IF q = p THEN 0 ELSE NoEdge
        /\ new.fi.val = fi /\ new.live
    BY <2>2 DEF NewEntry
  <2> HIDE DEF new, map
  <2>4. map[n] = new /\ \A m \in Ids \ {n} : map[m] = s.doc.map[m]
    BY <1>1, <2>1 DEF MapsOfEntries
  <2>5. NextEdge(NoEdges) = 0
    BY DEF NextEdge, NoEdges, Parents
  <2>6. EdgesIn(map, n) = AddEdge(NoEdges, p)
    BY <2>3, <2>4, <2>5 DEF EdgesIn, AddEdge, NoEdges
  <2>7. LiveIn(map) = Live(s.doc) \cup {n}
    BY <2>3, <2>4 DEF LiveIn, Live
  <2> QED
    BY <1>5, <2>3, <2>4, <2>6, <2>7 DEF map, fi
<1> QED
  BY <1>4, <1>5

\* A document whose greatest edges are those of a tree is observed as it is.
LEMMA ObservedTree ==
    ASSUME NEW s \in States, s.status = "open", s.pending = <<>>,
           NEW f \in [{Root} \cup Live(s.doc) -> Nodes \cup {None}], f[Root] = None, Rooted(f),
           \A n \in Live(s.doc) : MaxEdges(EdgesIn(s.doc.map, n)) = {f[n]},
           NEW t \in Observed(s)
    PROVE  /\ t \in GoodStates /\ t.doc = s.doc /\ t.status = "open"
           /\ t.fresh /\ t.stale = 0 /\ t.pending = <<>> /\ t.parent = f
<1>1. t \in GoodStates /\ t.doc = s.doc
  BY ObservedGood
<1>2. PICK b \in Rebuilds(Content(s.doc), s.pending) :
          t = [s EXCEPT !.parent   = b.parent,
                        !.edges    = b.edges,
                        !.children = b.children,
                        !.pending  = b.pending,
                        !.stale    = Len(s.pending),
                        !.fresh    = TRUE,
                        !.handles  = s.handles \cup Live(s.doc),
                        !.status   = CASE b.ends = "built"    -> s.status
                                       [] b.ends = "bad_doc"  -> "poisoned"
                                       [] b.ends = "panicked" -> "stopped"]
  BY DEF Observed
<1> DEFINE C       == Content(s.doc)
           pending == s.pending
<1>3. /\ IsDoc(C) /\ DOMAIN C = Live(s.doc) /\ PresentIn(C) = {Root} \cup Live(s.doc)
      /\ \A n \in Live(s.doc) : C[n].em = EdgesIn(s.doc.map, n)
      /\ b \in Rebuilds(C, pending) /\ pending \in Updates
  BY DocumentFacts DEF States, Content, EdgesIn
<1>4. b.ends = "built" /\ b.parent = f /\ b.pending = pending
  <2>1. IsTheTree(C, f)
    BY <1>3 DEF IsTheTree
  <2> HIDE DEF C, pending
  <2> QED
    BY <1>3, <2>1, RebuildOfATree
<1>5. Len(s.pending) = 0
  OBVIOUS
<1> QED
  BY <1>1, <1>2, <1>4, <1>5 DEF States

\* State t is s with n placed under p: in the tree, and in the document.
IsPlaced(s, t, n, p, index) ==
    /\ t.parent = [m \in DOMAIN s.parent \cup {n} |-> IF m = n THEN p ELSE s.parent[m]]
    /\ Live(t.doc) = Live(s.doc) \cup {n}
    /\ \A m \in Live(s.doc) \ {n} :
         Content(t.doc)[m].em = s.edges[m] /\ Content(t.doc)[m].fi = Content(s.doc)[m].fi
    /\ Content(t.doc)[n].em = AddEdge(IF n \in Live(s.doc) THEN s.edges[n] ELSE NoEdges, p)
    /\ Content(t.doc)[n].fi = IndexAt(s, p, index)

\* Tree::update_node changes what is asked for and nothing else.
LEMMA UpdateNodeIsExact ==
    ASSUME NEW c \in Clients, NEW s \in PlainStates, NEW n \in Ids, NEW p \in DOMAIN s.parent,
           n \in DOMAIN s.parent => p \notin Subtree(s.parent, n),
           NEW index \in Nat, NEW t \in UpdateNode(c, s, n, p, index)
    PROVE  /\ t \in GoodStates /\ t.status = "open"
           /\ t.fresh /\ t.stale = 0 /\ t.pending = <<>>
           /\ IsPlaced(s, t, n, p, index)
<1> DEFINE w   == WritePending(c, s)
           map == Placed(c, w, n, p, index)
           u   == Commit(c, w, map)
           f   == [m \in DOMAIN s.parent \cup {n} |-> IF m = n THEN p ELSE s.parent[m]]
           old == IF n \in Live(s.doc) THEN s.edges[n] ELSE NoEdges
<1>1. /\ s \in GoodStates /\ s.status = "open" /\ Live(s.doc) \subseteq Ids
      /\ s.parent \in [{Root} \cup Live(s.doc) -> Nodes \cup {None}]
      /\ s.parent[Root] = None /\ Rooted(s.parent) /\ n # Root /\ p \in Nodes
      /\ \A m \in Live(s.doc) : s.edges[m] \in EdgeMap /\ MaxEdges(s.edges[m]) = {s.parent[m]}
  BY PlainFacts, IdsAssumption DEF Nodes, Root
<1>2. /\ w \in GoodStates /\ w \in States /\ w.status = "open" /\ w.pending = <<>>
      /\ Live(w.doc) = Live(s.doc)
      /\ w.parent = s.parent /\ w.edges = s.edges /\ w.children = s.children
      /\ \A m \in Live(s.doc) : EdgesIn(w.doc.map, m) = s.edges[m]
      /\ \A m \in Ids : w.doc.map[m].fi = s.doc.map[m].fi
  BY PendingIsWritten DEF GoodStates
<1>3. t \in Observed(u)
  BY <1>1, <1>2 DEF UpdateNode
<1> HIDE DEF w
<1>4. /\ LiveIn(map) = Live(s.doc) \cup {n}
      /\ \A m \in Ids \ {n} : map[m] = w.doc.map[m]
      /\ map[n].fi.val = IndexAt(s, p, index)
      /\ EdgesIn(map, n) = AddEdge(old, p)
  <2>1. IndexAt(w, p, index) = IndexAt(s, p, index)
    BY <1>1, <1>2, SameIndexAt
  <2>2. /\ LiveIn(map) = Live(w.doc) \cup {n}
        /\ \A m \in Ids \ {n} : map[m] = w.doc.map[m]
        /\ map[n].fi.val = IndexAt(w, p, index)
        /\ EdgesIn(map, n) = IF n \in Live(w.doc)
                             THEN [EdgesIn(w.doc.map, n) EXCEPT ![p] = NextEdge(w.edges[n])]
                             ELSE AddEdge(NoEdges, p)
    BY <1>1, <1>2, PlacedHas
  <2> QED
    BY <1>2, <2>1, <2>2 DEF AddEdge
<1>5. map \in MapsOfEntries
  BY <1>1, <1>2, PlacedType
<1> HIDE DEF map
<1>6. u \in States /\ u.doc.map = map /\ Live(u.doc) = LiveIn(map) /\ u.status = "open" /\ u.pending = <<>>
  BY <1>2, <1>5, CommitType
<1> HIDE DEF u
<1>7. f \in [{Root} \cup Live(u.doc) -> Nodes \cup {None}] /\ f[Root] = None
  BY <1>1, <1>4, <1>6
<1>8. Rooted(f)
  BY <1>1, PlacingKeepsRooted
<1>9. old \in EdgeMap
  BY <1>1 DEF NoEdges, EdgeMap
<1>10. \A m \in Live(u.doc) : MaxEdges(EdgesIn(u.doc.map, m)) = {f[m]}
  <2> SUFFICES ASSUME NEW m \in Live(u.doc)
               PROVE  MaxEdges(EdgesIn(map, m)) = {f[m]}
    BY <1>6
  <2>1. CASE m = n
    BY <1>1, <1>4, <1>9, <2>1, AddEdgeIsUniqueMax
  <2>2. CASE m # n
    <3>1. m \in Live(s.doc) /\ m \in Ids
      BY <1>1, <1>4, <1>6, <2>2
    <3>2. EdgesIn(map, m) = s.edges[m]
      BY <1>2, <1>4, <2>2, <3>1 DEF EdgesIn
    <3> QED
      BY <1>1, <2>2, <3>1, <3>2
  <2> QED
    BY <2>1, <2>2
<1> HIDE DEF f, old
<1>11. /\ t \in GoodStates /\ t.doc = u.doc /\ t.status = "open"
       /\ t.fresh /\ t.stale = 0 /\ t.pending = <<>> /\ t.parent = f
  BY <1>3, <1>6, <1>7, <1>8, <1>10, ObservedTree
<1>12. \A m \in Live(t.doc) : /\ Content(t.doc)[m].em = EdgesIn(map, m)
                               /\ Content(t.doc)[m].fi = map[m].fi.val
  BY <1>6, <1>11 DEF Content, EdgesIn
<1>13. \A m \in Live(s.doc) \ {n} :
            Content(t.doc)[m].em = s.edges[m] /\ Content(t.doc)[m].fi = Content(s.doc)[m].fi
  <2> SUFFICES ASSUME NEW m \in Live(s.doc) \ {n}
               PROVE  Content(t.doc)[m].em = s.edges[m] /\ Content(t.doc)[m].fi = Content(s.doc)[m].fi
    OBVIOUS
  <2>1. m \in Live(t.doc) /\ m \in Ids /\ map[m] = w.doc.map[m]
    BY <1>1, <1>4, <1>6, <1>11
  <2>2. EdgesIn(map, m) = s.edges[m]
    BY <1>2, <2>1 DEF EdgesIn
  <2>3. map[m].fi.val = s.doc.map[m].fi.val
    BY <1>2, <2>1
  <2> QED
    BY <1>12, <2>1, <2>2, <2>3 DEF Content
<1>14. Content(t.doc)[n].em = AddEdge(old, p) /\ Content(t.doc)[n].fi = IndexAt(s, p, index)
  BY <1>4, <1>6, <1>11, <1>12
<1> QED
  BY <1>4, <1>6, <1>11, <1>13, <1>14 DEF f, old, IsPlaced

\* Past the last index a node is placed behind all other children, and gets
\* an index above theirs.
LEMMA UpdateNodeAppends ==
    ASSUME NEW c \in Clients, NEW s \in PlainStates, NEW n \in Ids, NEW p \in DOMAIN s.parent,
           n \in DOMAIN s.parent => p \notin Subtree(s.parent, n),
           NEW index \in Nat, index >= Len(s.children[p]), NEW t \in UpdateNode(c, s, n, p, index)
    PROVE  /\ Last(t.children[p]) = n
           /\ \A m \in Live(t.doc) \ {n} :
                t.parent[m] = p => Content(t.doc)[m].fi < Content(t.doc)[n].fi
<1> DEFINE C    == Content(s.doc)
           K    == Content(t.doc)
           kids == s.children[p]
           f    == t.parent
<1>1. /\ t \in GoodStates /\ t.status = "open" /\ t.fresh /\ IsPlaced(s, t, n, p, index)
  BY UpdateNodeIsExact
<1>2. /\ IsDoc(C) /\ DOMAIN C = Live(s.doc) /\ IsDoc(K) /\ DOMAIN K = Live(t.doc)
      /\ \A m \in Live(s.doc) : C[m].fi \in Nat
  BY <1>1, PlainFacts, DocumentFacts DEF GoodStates, States
<1>3. /\ kids = SortedChildren(C, s.parent, p)
      /\ DOMAIN s.parent = {Root} \cup Live(s.doc) /\ Root \notin Live(s.doc)
  BY PlainFacts
<1>4. t.children[p] = SortedChildren(K, f, p)
  <2>1. FollowsTheDocument(t)
    BY <1>1 DEF GoodStates, IsCurrent
  <2>2. p \in DOMAIN t.parent
    BY <1>1 DEF IsPlaced
  <2> QED
    BY <2>1, <2>2 DEF FollowsTheDocument
<1>5. p \in DOMAIN s.children
  BY <1>3, PlainFacts DEF GoodStates, CachesTheDocument
<1>6. /\ DOMAIN K = Live(s.doc) \cup {n} /\ f[n] = p
      /\ \A m \in Live(s.doc) \ {n} : f[m] = s.parent[m] /\ K[m].fi = C[m].fi
      /\ K[n].fi = IndexAt(s, p, index)
  BY <1>1, <1>2, <1>3 DEF IsPlaced
<1>7. ASSUME NEW m \in Live(s.doc) \ {n}, f[m] = p
      PROVE  K[m].fi < K[n].fi
  <2> DEFINE par == s.parent
  <2>1. kids = SortedChildren(C, par, p) /\ m \in DOMAIN C /\ par[m] = p /\ IsDoc(C)
    BY <1>2, <1>3, <1>6, <1>7
  <2>2. kids # <<>> /\ C[m].fi <= C[Last(kids)].fi /\ Last(kids) \in DOMAIN C
    <3> HIDE DEF C, kids, par, K, f
    <3> QED
      BY <2>1, LastChild
  <2>3. IndexAt(s, p, index) = C[Last(kids)].fi + 1
    BY <1>5, <2>2 DEF IndexAt
  <2>4. K[m].fi = C[m].fi
    BY <1>6
  <2> HIDE DEF C, kids, par, K, f
  <2> QED
    BY <1>2, <1>6, <2>2, <2>3, <2>4
<1>8. n \in DOMAIN K
  BY <1>6
<1> DEFINE last == Last(SortedChildren(K, f, p))
<1>9. last \in DOMAIN K /\ f[last] = p /\ K[n].fi <= K[last].fi
  <2> HIDE DEF C, kids, K, f
  <2> QED
    BY <1>2, <1>6, <1>8, LastChild
<1>10. K[last].fi \in Nat /\ K[n].fi \in Nat
  <2> HIDE DEF K, last
  <2> QED
    BY <1>2, <1>8, <1>9, ContentFacts
<1> HIDE DEF last, K, f, C
<1>11. last = n
  BY <1>6, <1>7, <1>9, <1>10
<1>12. \A m \in Live(t.doc) \ {n} : f[m] = p => K[m].fi < K[n].fi
  BY <1>2, <1>6, <1>7
<1> QED
  BY <1>4, <1>11, <1>12 DEF last, f, K

\* An operation that places a node is one of two.
LEMMA PlacingOperations ==
    ASSUME GoodClients, [Next]_vars, Placing
    PROVE  \E c \in Clients, n \in Nodes, p \in Nodes, i \in Nat :
            /\ event'.client = c /\ event'.node = n /\ event'.under = p /\ event'.index = i
            /\ \/ n \in Ids /\ CreateChild(c, n, p, i)
               \/ MoveTo(c, n, p, i)
<1> USE DEF Placing
<1>1. ASSUME NEW c \in Clients, NEW n \in Ids, NEW p \in Nodes, NEW i \in Indices,
             CreateChild(c, n, p, i)
      PROVE  i \in Nat /\ n \in Nodes /\ event'.client = c /\ event'.node = n
             /\ event'.under = p /\ event'.index = i
  BY <1>1, IndicesAssumption DEF CreateChild, Step, Nodes
<1>2. ASSUME NEW c \in Clients, NEW n \in Nodes, NEW p \in Nodes, NEW i \in Indices,
             MoveTo(c, n, p, i)
      PROVE  i \in Nat /\ event'.client = c /\ event'.node = n
             /\ event'.under = p /\ event'.index = i
  BY <1>2, IndicesAssumption DEF MoveTo, Step
<1>3. ASSUME NEW c \in Clients, NEW n \in Nodes, NEW m \in Ids, NEW i \in {0, 1},
             MoveRelative(c, n, m, i)
      PROVE  FALSE
  BY <1>3 DEF MoveRelative, Step
<1>4. ASSUME NEW c \in Clients, NEW n \in Ids, DeletePromote(c, n) \/ DeleteCascade(c, n)
      PROVE  FALSE
  BY <1>4 DEF DeletePromote, DeleteCascade, Step
<1>5. ASSUME NEW c \in Clients, Reopen(c)
      PROVE  FALSE
  BY <1>5 DEF Reopen, Step
<1>6. ASSUME NEW c \in Clients, NEW d, Receive(c, d)
      PROVE  FALSE
  BY <1>6 DEF Receive
<1>7. Next
  BY DEF vars
<1> QED
  BY <1>1, <1>2, <1>3, <1>4, <1>5, <1>6, <1>7 DEF Next

\* A client before it places a node where no cycle comes of it.
LEMMA PlainClient ==
    ASSUME GoodClients, NEW c \in Clients, event'.client = c, Plain
    PROVE  tree[c] \in PlainStates /\ Before = tree[c] /\ After = tree'[c]
BY DEF GoodClients, Plain, PlainStates, Before, After

\* Placing a node does what is asked for and nothing else, for any number of
\* clients and nodes, whatever repairs an operation writes with it.
THEOREM PlacingIsExact == Spec => PlaceIsExact
<1> DEFINE Exact ==
        Placing /\ Plain /\ Acyclic(event'.node, event'.under) =>
            LET n == event'.node
                p == event'.under
            IN  /\ After.status = "open" /\ After.pending = <<>>
                /\ After.parent = [m \in DOMAIN Before.parent \cup {n} |->
                                    IF m = n THEN p ELSE Before.parent[m]]
                /\ event'.index >= Len(Before.children[p]) => Last(After.children[p]) = n
<1>1. ASSUME GoodClients, [Next]_vars, Placing, Plain, Acyclic(event'.node, event'.under)
      PROVE  Exact
  <2>1. PICK c \in Clients, n \in Nodes, p \in Nodes, i \in Nat :
            /\ event'.client = c /\ event'.node = n /\ event'.under = p /\ event'.index = i
            /\ \/ n \in Ids /\ CreateChild(c, n, p, i)
               \/ MoveTo(c, n, p, i)
    BY <1>1, PlacingOperations
  <2>2. tree[c] \in PlainStates /\ Before = tree[c] /\ After = tree'[c] /\ tree[c].status = "open"
    BY <1>1, <2>1, PlainClient DEF PlainStates
  <2>3. /\ n \in Ids /\ p \in DOMAIN tree[c].parent
        /\ n \in DOMAIN tree[c].parent => p \notin Subtree(tree[c].parent, n)
    BY <1>1, <2>1, <2>2 DEF Acyclic, Nodes
  <2>4. PICK t \in UpdateNode(c, tree[c], n, p, i) :
            /\ After.status = t.status /\ After.pending = t.pending
            /\ After.parent = t.parent /\ After.children = t.children
    <3> DEFINE made == UpdateNode(c, tree[c], n, p, i)
    <3>1. made \subseteq GoodStates /\ c \in DOMAIN tree
      BY <1>1, UpdateNodeGood DEF GoodClients
    <3>2. CASE CreateChild(c, n, p, i)
      <4>1. PICK t \in made : tree' = [tree EXCEPT ![c] = [t EXCEPT !.handles = @ \cup {n}]]
        BY <2>2, <3>2 DEF CreateChild, Step
      <4> HIDE DEF made
      <4>2. t \in States /\ tree'[c] = [t EXCEPT !.handles = t.handles \cup {n}]
        BY <3>1, <4>1 DEF GoodStates
      <4> QED
        BY <2>2, <4>2 DEF States, made
    <3>3. CASE MoveTo(c, n, p, i)
      BY <2>2, <3>1, <3>3 DEF MoveTo, Step
    <3> QED
      BY <2>1, <3>2, <3>3
  <2>5. t.status = "open" /\ t.pending = <<>> /\ IsPlaced(tree[c], t, n, p, i)
    BY <2>2, <2>3, UpdateNodeIsExact
  <2>6. i >= Len(tree[c].children[p]) => Last(t.children[p]) = n
    BY <2>2, <2>3, UpdateNodeAppends
  <2> QED
    BY <2>1, <2>2, <2>4, <2>5, <2>6 DEF IsPlaced
<1>2. GoodClients /\ [Next]_vars => [Exact]_vars
  BY <1>1
<1> QED
  BY <1>2, GoodInvariant, PTL DEF Spec, PlaceIsExact

-----------------------------------------------------------------------------
(* Deleting                                                                *)

\* State t is s without the given nodes, in the tree and in the document.
IsPruned(s, t, ids) ==
    /\ t.parent = [m \in DOMAIN s.parent \ ids |-> s.parent[m]]
    /\ Live(t.doc) = Live(s.doc) \ ids
    /\ \A m \in Live(t.doc) : Content(t.doc)[m] = Content(s.doc)[m]

\* With nothing pending, the cached edges are those of the document.
LEMMA NothingPending ==
    ASSUME NEW s \in PlainStates, s.pending = <<>>, NEW n \in Live(s.doc)
    PROVE  s.edges[n] = EdgesIn(s.doc.map, n)
<1> DEFINE em == EdgesIn(s.doc.map, n)
<1>1. n \in Ids /\ s.edges[n] = Written(em, n, <<>>) /\ s.doc \in Documents
  BY PlainFacts
<1>2. em = Content(s.doc)[n].em
  BY DEF Content, EdgesIn
<1>3. em \in EdgeMap
  BY <1>1, <1>2, DocumentFacts, ContentFacts
<1> HIDE DEF em
<1>4. s.edges[n] = em
  BY <1>1, <1>3, WrittenNothing
<1> QED
  BY <1>4 DEF em

\* Tree::delete_nodes of a node and its descendants changes nothing else.
LEMMA DeleteNodesIsExact ==
    ASSUME NEW c \in Clients, NEW s \in PlainStates, s.pending = <<>>, NEW n \in Live(s.doc),
           NEW t \in DeleteNodes(c, s, Subtree(s.parent, n))
    PROVE  /\ t \in GoodStates /\ t.status = "open"
           /\ t.fresh /\ t.stale = 0 /\ t.pending = <<>>
           /\ IsPruned(s, t, Subtree(s.parent, n))
<1> DEFINE ids == Subtree(s.parent, n)
           map == [m \in Ids |-> IF m \in ids /\ s.doc.map[m].live
                                 THEN Removed(s.doc.map[m]) ELSE s.doc.map[m]]
           u   == Commit(c, s, map)
           f   == [m \in DOMAIN s.parent \ ids |-> s.parent[m]]
<1>1. /\ s \in States /\ s.status = "open" /\ Live(s.doc) \subseteq Ids /\ Root \notin Live(s.doc)
      /\ s.parent \in [{Root} \cup Live(s.doc) -> Nodes \cup {None}]
      /\ s.parent[Root] = None /\ None \notin Nodes /\ Rooted(s.parent)
      /\ \A m \in Live(s.doc) : MaxEdges(s.edges[m]) = {s.parent[m]}
  BY PlainFacts
<1>2. n \in DOMAIN s.parent /\ n # Root /\ s.parent[Root] \notin DOMAIN s.parent
  <2>1. None \notin {Root} \cup Live(s.doc)
    BY <1>1 DEF Nodes
  <2> QED
    BY <1>1, <2>1
<1>3. Root \notin ids /\ n \in ids
  BY <1>1, <1>2, RootNotInSubtree, SubtreeIsClosed
<1>4. Rooted(f)
  BY <1>1, <1>2, PruningKeepsRooted
<1>5. t \in Observed(u)
  BY <1>1, <1>3 DEF DeleteNodes
<1> HIDE DEF ids
<1>6. \A m \in Ids : s.doc.map[m] \in Entries
  BY <1>1 DEF States, Documents
<1>7. /\ map \in MapsOfEntries
      /\ LiveIn(map) = Live(s.doc) \ ids
      /\ \A m \in LiveIn(map) : map[m] = s.doc.map[m]
  BY <1>6, EntryTypes DEF MapsOfEntries, LiveIn, Live
<1> HIDE DEF map
<1>8. u \in States /\ u.doc.map = map /\ Live(u.doc) = LiveIn(map) /\ u.status = "open" /\ u.pending = <<>>
  BY <1>1, <1>7, CommitType
<1> HIDE DEF u
<1>9. f \in [{Root} \cup Live(u.doc) -> Nodes \cup {None}] /\ f[Root] = None
  BY <1>1, <1>3, <1>7, <1>8
<1>10. \A m \in Live(u.doc) : MaxEdges(EdgesIn(u.doc.map, m)) = {f[m]}
  <2> SUFFICES ASSUME NEW m \in Live(u.doc)
               PROVE  MaxEdges(EdgesIn(map, m)) = {f[m]}
    BY <1>8
  <2>1. m \in Live(s.doc) /\ map[m] = s.doc.map[m] /\ f[m] = s.parent[m]
    BY <1>1, <1>7, <1>8
  <2>2. EdgesIn(map, m) = EdgesIn(s.doc.map, m)
    BY <2>1 DEF EdgesIn
  <2> QED
    BY <1>1, <2>1, <2>2, NothingPending
<1> HIDE DEF f
<1>11. /\ t \in GoodStates /\ t.doc = u.doc /\ t.status = "open"
       /\ t.fresh /\ t.stale = 0 /\ t.pending = <<>> /\ t.parent = f
  BY <1>4, <1>5, <1>8, <1>9, <1>10, ObservedTree
<1>12. \A m \in Live(t.doc) : Content(t.doc)[m] = Content(s.doc)[m]
  BY <1>7, <1>8, <1>11 DEF Content
<1> QED
  BY <1>7, <1>8, <1>11, <1>12 DEF f, IsPruned, ids

\* The operation that deletes a node and its descendants.
LEMMA CascadeOperation ==
    ASSUME GoodClients, [Next]_vars, ops' # ops, event'.op = "cascade"
    PROVE  \E c \in Clients, n \in Ids :
            event'.client = c /\ event'.node = n /\ DeleteCascade(c, n)
<1>1. ASSUME NEW c \in Clients, NEW n \in Ids, DeleteCascade(c, n)
      PROVE  event'.client = c /\ event'.node = n
  BY <1>1 DEF DeleteCascade, Step
<1>2. ASSUME NEW c \in Clients, NEW n, NEW p, NEW i, CreateChild(c, n, p, i) \/ MoveTo(c, n, p, i)
      PROVE  FALSE
  BY <1>2 DEF CreateChild, MoveTo, Step
<1>3. ASSUME NEW c \in Clients, NEW n \in Nodes, NEW m \in Ids, NEW i \in {0, 1},
             MoveRelative(c, n, m, i)
      PROVE  FALSE
  BY <1>3 DEF MoveRelative, Step
<1>4. ASSUME NEW c \in Clients, NEW n \in Ids, DeletePromote(c, n)
      PROVE  FALSE
  BY <1>4 DEF DeletePromote, Step
<1>5. ASSUME NEW c \in Clients, Reopen(c)
      PROVE  FALSE
  BY <1>5 DEF Reopen, Step
<1>6. ASSUME NEW c \in Clients, NEW d, Receive(c, d)
      PROVE  FALSE
  BY <1>6 DEF Receive
<1>7. Next
  BY DEF vars
<1> QED
  BY <1>1, <1>2, <1>3, <1>4, <1>5, <1>6, <1>7 DEF Next

\* Deleting with the strategy Cascade removes the node and its descendants and
\* leaves every other node where it is, for any number of clients and nodes.
THEOREM CascadingIsExact == Spec => CascadeIsExact
<1> DEFINE Exact ==
        ops' # ops /\ event'.op = "cascade" /\ Plain /\ Before.pending = <<>>
          /\ event'.node \in DOMAIN Before.parent =>
            /\ After.status = "open"
            /\ After.parent = [m \in DOMAIN Before.parent \ Subtree(Before.parent, event'.node)
                                    |-> Before.parent[m]]
<1>1. ASSUME GoodClients, [Next]_vars, ops' # ops, event'.op = "cascade", Plain,
             Before.pending = <<>>, event'.node \in DOMAIN Before.parent
      PROVE  Exact
  <2>1. PICK c \in Clients, n \in Ids :
            event'.client = c /\ event'.node = n /\ DeleteCascade(c, n)
    BY <1>1, CascadeOperation
  <2>2. tree[c] \in PlainStates /\ Before = tree[c] /\ After = tree'[c]
    BY <1>1, <2>1, PlainClient
  <2>3. n \in DOMAIN tree[c].parent /\ n \in Live(tree[c].doc) /\ tree[c].pending = <<>>
    <3>1. n \in DOMAIN tree[c].parent /\ tree[c].pending = <<>>
      BY <1>1, <2>1, <2>2
    <3>2. DOMAIN tree[c].parent = {Root} \cup Live(tree[c].doc)
      BY <2>2, PlainFacts
    <3>3. n # Root
      BY IdsAssumption DEF Root
    <3> QED
      BY <3>1, <3>2, <3>3
  <2>4. PICK t \in DeleteNodes(c, tree[c], Subtree(tree[c].parent, n)) : After = t
    <3>1. PICK t \in DeleteNodes(c, tree[c], Subtree(tree[c].parent, n)) :
              tree' = [tree EXCEPT ![c] = t]
      BY <2>1, <2>3 DEF DeleteCascade, ToDelete, Step
    <3>2. c \in DOMAIN tree
      BY <1>1 DEF GoodClients
    <3> QED
      BY <2>2, <3>1, <3>2
  <2>5. t.status = "open" /\ IsPruned(tree[c], t, Subtree(tree[c].parent, n))
    BY <2>2, <2>3, DeleteNodesIsExact
  <2> QED
    BY <2>1, <2>2, <2>4, <2>5 DEF IsPruned
<1>2. GoodClients /\ [Next]_vars => [Exact]_vars
  BY <1>1
<1> QED
  BY <1>2, GoodInvariant, PTL DEF Spec, CascadeIsExact

-----------------------------------------------------------------------------
(* Promoting                                                               *)

\* A new edge above all others ties with none.
LEMMA AddEdgeKeepsApart ==
    ASSUME NEW em \in EdgeMap, NEW p \in Nodes,
           \A q, r \in Parents(em) : em[q] = em[r] => q = r
    PROVE  \A q, r \in Parents(AddEdge(em, p)) : AddEdge(em, p)[q] = AddEdge(em, p)[r] => q = r
<1> DEFINE new == AddEdge(em, p)
<1>1. MaxEdges(new) = {p} /\ new \in EdgeMap
  BY AddEdgeIsUniqueMax
<1>2. \A q \in Nodes \ {p} : new[q] = em[q]
  BY DEF AddEdge, EdgeMap
<1> HIDE DEF new
<1>3. \A q \in Parents(new) \ {p} : q \in Parents(em) /\ new[q] = em[q]
  BY <1>2 DEF Parents
<1>4. \A q \in Parents(new) : new[q] = new[p] => q = p
  BY <1>1 DEF MaxEdges
<1> QED
  BY <1>3, <1>4 DEF new

\* With nothing pending, a document without ties still has none when a node is
\* placed.
LEMMA UpdateNodeKeepsPlain ==
    ASSUME NEW c \in Clients, NEW s \in PlainStates, s.pending = <<>>,
           NEW n \in Live(s.doc), NEW p \in DOMAIN s.parent, p \notin Subtree(s.parent, n),
           NEW index \in Nat, NEW t \in UpdateNode(c, s, n, p, index)
    PROVE  /\ t \in PlainStates /\ t.pending = <<>> /\ IsPlaced(s, t, n, p, index)
<1>1. n \in Ids /\ p \in Nodes /\ s.doc \in Documents /\ TieFree(s.doc)
      /\ \A m \in Live(s.doc) : s.edges[m] \in EdgeMap
  <2>1. /\ Live(s.doc) \subseteq Ids /\ s.doc \in Documents
        /\ DOMAIN s.parent = {Root} \cup Live(s.doc)
        /\ \A m \in Live(s.doc) : s.edges[m] \in EdgeMap
    BY PlainFacts
  <2>2. n \in Ids /\ p \in Nodes
    BY <2>1 DEF Nodes
  <2>3. TieFree(s.doc)
    BY DEF PlainStates
  <2> QED
    BY <2>1, <2>2, <2>3
<1>2. /\ t \in GoodStates /\ t.status = "open" /\ t.fresh /\ t.stale = 0 /\ t.pending = <<>>
      /\ IsPlaced(s, t, n, p, index)
  BY <1>1, UpdateNodeIsExact
<1>3. \A m \in Live(s.doc) : \A q, r \in Parents(s.edges[m]) : s.edges[m][q] = s.edges[m][r] => q = r
  <2> SUFFICES ASSUME NEW m \in Live(s.doc)
               PROVE  \A q, r \in Parents(s.edges[m]) : s.edges[m][q] = s.edges[m][r] => q = r
    OBVIOUS
  <2>1. s.edges[m] = Content(s.doc)[m].em
    BY NothingPending DEF Content, EdgesIn
  <2> QED
    BY <1>1, <2>1 DEF TieFree
<1>4. TieFree(t.doc)
  <2> SUFFICES ASSUME NEW m \in Live(t.doc)
               PROVE  LET em == Content(t.doc)[m].em IN
                      \A q, r \in Parents(em) : em[q] = em[r] => q = r
    BY DEF TieFree
  <2>1. CASE m = n
    <3>1. Content(t.doc)[m].em = AddEdge(s.edges[n], p)
      BY <1>2, <2>1 DEF IsPlaced
    <3> QED
      BY <1>1, <1>3, <3>1, AddEdgeKeepsApart
  <2>2. CASE m # n
    <3>1. m \in Live(s.doc) /\ Content(t.doc)[m].em = s.edges[m]
      BY <1>2, <2>2 DEF IsPlaced
    <3> QED
      BY <1>3, <3>1
  <2> QED
    BY <2>1, <2>2
<1> QED
  BY <1>2, <1>4 DEF PlainStates

\* The nodes that the strategy Promote has moved after i iterations, and the
\* states there are then: each moved node is behind those moved before it and
\* behind the children that its new parent had.
MovedBy(s, n, i) == {s.children[n][j] : j \in 1 .. i}

MovedStates(s, n, i) ==
    {t \in PlainStates :
        /\ t.pending = <<>> /\ Live(t.doc) = Live(s.doc)
        /\ \A m \in Live(s.doc) :
            t.parent[m] = IF m \in MovedBy(s, n, i) THEN s.parent[n] ELSE s.parent[m]
        /\ \A m \in Live(s.doc) \ MovedBy(s, n, i) : Content(t.doc)[m].fi = Content(s.doc)[m].fi
        /\ \A j \in 1 .. i : \A m \in Live(s.doc) :
            /\ t.parent[m] = s.parent[n]
            /\ m \in MovedBy(s, n, i) => m \in MovedBy(s, n, j - 1)
            => Content(t.doc)[m].fi < Content(t.doc)[s.children[n][j]].fi}

\* What is known of a node and its children before the loop.
LEMMA KidsFacts ==
    ASSUME NEW s \in PlainStates, NEW n \in Live(s.doc)
    PROVE  /\ s.parent[n] \in DOMAIN s.parent /\ s.parent[n] # n
           /\ s.children[n] \in Seq(Live(s.doc)) /\ Len(s.children[n]) \in Nat
           /\ \A i \in 1 .. Len(s.children[n]) :
                s.children[n][i] \in Live(s.doc) /\ s.parent[s.children[n][i]] = n
           /\ \A i, j \in 1 .. Len(s.children[n]) :
                s.children[n][i] = s.children[n][j] => i = j
           /\ MovedBy(s, n, Len(s.children[n])) = {m \in Live(s.doc) : s.parent[m] = n}
<1> DEFINE C    == Content(s.doc)
           par  == s.parent
           kids == s.children[n]
           N    == Len(kids)
<1>1. /\ s.doc \in Documents /\ par \in [{Root} \cup Live(s.doc) -> Nodes \cup {None}]
      /\ par[Root] = None /\ Rooted(par) /\ None \notin Nodes /\ Live(s.doc) \subseteq Ids
      /\ Root \notin Live(s.doc)
      /\ kids = SortedChildren(C, par, n)
  BY PlainFacts
<1>2. IsDoc(C) /\ DOMAIN C = Live(s.doc)
  BY <1>1, DocumentFacts
<1>3. n \in DOMAIN par \ {Root} /\ par[Root] \notin DOMAIN par /\ Root \in DOMAIN par
  <2>1. None \notin {Root} \cup Live(s.doc)
    BY <1>1 DEF Nodes
  <2> QED
    BY <1>1, <2>1
<1>4. par[n] \in DOMAIN par /\ par[n] # n
  <2> HIDE DEF par
  <2>1. par[n] \in DOMAIN par /\ par[n] \notin Subtree(par, n) /\ n \in Subtree(par, n)
    BY <1>1, <1>3, ParentNotInSubtree, SubtreeIsClosed
  <2> QED
    BY <2>1
<1>5. /\ kids \in Seq(DOMAIN C)
      /\ \A i \in DOMAIN kids : par[kids[i]] = n
      /\ \A m \in DOMAIN C : par[m] = n => \E i \in DOMAIN kids : kids[i] = m
      /\ \A i, j \in DOMAIN kids : i < j => <<kids[i], kids[j]>> \in SiblingBefore(C)
  <2> HIDE DEF C, kids, par
  <2> QED
    BY <1>1, <1>2, SortedChildrenFacts
<1> HIDE DEF C, kids, par
<1>6. N \in Nat /\ DOMAIN kids = 1 .. N /\ \A i \in 1 .. N : kids[i] \in DOMAIN C
  BY <1>5, LenProperties, ElementOfSeq
<1>7. \A m \in DOMAIN C : m \in Nat /\ C[m].fi \in Nat
  BY <1>2, ContentFacts
<1>8. ASSUME NEW i \in 1 .. N, NEW j \in 1 .. N, kids[i] = kids[j], i # j
      PROVE  FALSE
  <2>1. i < j \/ j < i
    BY <1>6, <1>8
  <2>2. <<kids[i], kids[i]>> \in SiblingBefore(C)
    BY <1>5, <1>6, <1>8, <2>1
  <2> QED
    BY <1>6, <1>7, <2>2 DEF SiblingBefore
<1> HIDE DEF N
<1>9. {kids[j] : j \in 1 .. N} = {m \in Live(s.doc) : par[m] = n}
  BY <1>2, <1>5, <1>6
<1> QED
  BY <1>2, <1>4, <1>5, <1>6, <1>8, <1>9 DEF par, kids, N, MovedBy

\* An iteration of the loop.
LEMMA PromoteStep ==
    ASSUME NEW c \in Clients, NEW s \in PlainStates, NEW n \in Live(s.doc),
           NEW i \in 1 .. Len(s.children[n]), NEW t \in MovedStates(s, n, i - 1),
           NEW u \in UpdateNode(c, t, s.children[n][i], s.parent[n], End)
    PROVE  u \in MovedStates(s, n, i)
<1> DEFINE kids == s.children[n]
           k    == kids[i]
           p    == s.parent[n]
           L    == Live(s.doc)
           Cs   == Content(s.doc)
           Ct   == Content(t.doc)
           Cu   == Content(u.doc)
           par  == s.parent
           f    == t.parent
           g    == u.parent
           Old  == MovedBy(s, n, i - 1)
           New  == MovedBy(s, n, i)
<1>1. /\ p \in DOMAIN par /\ p # n /\ Len(kids) \in Nat
      /\ \A j \in 1 .. Len(kids) : kids[j] \in L /\ par[kids[j]] = n
      /\ \A j, l \in 1 .. Len(kids) : kids[j] = kids[l] => j = l
  BY KidsFacts
<1>2. /\ DOMAIN par = {Root} \cup L /\ Root \notin L /\ L \subseteq Ids
  BY PlainFacts
<1>3. /\ t \in PlainStates /\ t.pending = <<>> /\ Live(t.doc) = L
      /\ \A m \in L : f[m] = IF m \in Old THEN p ELSE par[m]
      /\ \A m \in L \ Old : Ct[m].fi = Cs[m].fi
      /\ \A j \in 1 .. i - 1 : \A m \in L :
            f[m] = p /\ (m \in Old => m \in MovedBy(s, n, j - 1)) => Ct[m].fi < Ct[kids[j]].fi
  BY DEF MovedStates
<1>4. New = Old \cup {k} /\ k \notin Old /\ n \notin Old
  <2>1. New = Old \cup {k}
    BY DEF MovedBy
  <2>2. k \notin Old
    BY <1>1 DEF MovedBy
  <2>3. \A m \in Old : par[m] = n
    BY <1>1 DEF MovedBy
  <2> QED
    BY <1>1, <2>1, <2>2, <2>3
<1>5. /\ DOMAIN f = {Root} \cup L /\ f[Root] = None /\ Rooted(f) /\ None \notin Nodes
      /\ t.children[p] = SortedChildren(Ct, f, p) /\ t.doc \in Documents
  BY <1>1, <1>2, <1>3, PlainFacts
<1>6. k \in L /\ f[k] = n /\ f[n] = p
  BY <1>1, <1>3, <1>4
<1>7. p \notin Subtree(f, k)
  <2>1. f[Root] \notin DOMAIN f
    BY <1>2, <1>5 DEF Nodes
  <2>2. k \in DOMAIN f \ {Root} /\ Root \in DOMAIN f
    BY <1>2, <1>5, <1>6
  <2> HIDE DEF f, k, p
  <2>3. f[f[k]] \notin Subtree(f, k)
    BY <1>5, <2>1, <2>2, ParentNotInSubtree
  <2> QED
    BY <1>6, <2>3
<1>8. End \in Nat /\ End >= Len(t.children[p])
  <2>1. IsDoc(Ct) /\ End \in Nat
    BY <1>5, DocumentFacts, IdsAssumption, FS_CardinalityType DEF End
  <2> HIDE DEF Ct, f, p
  <2>2. Len(SortedChildren(Ct, f, p)) \in Nat /\ Len(SortedChildren(Ct, f, p)) <= Cardinality(Ids)
    BY <2>1, SortedChildrenBound
  <2> QED
    BY <1>5, <2>1, <2>2 DEF End
<1>9. p \in DOMAIN f /\ k \in Ids /\ k \in Live(t.doc) /\ u \in UpdateNode(c, t, k, p, End)
  BY <1>1, <1>2, <1>3, <1>5, <1>6
<1>10. u \in PlainStates /\ u.pending = <<>> /\ IsPlaced(t, u, k, p, End)
  <2> HIDE DEF k, p
  <2> QED
    BY <1>3, <1>7, <1>8, <1>9, UpdateNodeKeepsPlain
<1>11. \A m \in Live(u.doc) \ {k} : g[m] = p => Cu[m].fi < Cu[k].fi
  <2> HIDE DEF k, p
  <2> QED
    BY <1>3, <1>7, <1>8, <1>9, UpdateNodeAppends
<1>12. /\ Live(u.doc) = L
       /\ \A m \in L : g[m] = IF m = k THEN p ELSE f[m]
       /\ \A m \in L \ {k} : Cu[m].fi = Ct[m].fi
  BY <1>3, <1>5, <1>6, <1>10 DEF IsPlaced
<1> HIDE DEF k, p, f, g, par, Cs, Ct, Cu, Old, New, L
<1>13. \A m \in L : g[m] = IF m \in New THEN p ELSE par[m]
  BY <1>3, <1>4, <1>12
<1>14. \A m \in L \ New : Cu[m].fi = Cs[m].fi
  BY <1>3, <1>4, <1>12
<1>15. ASSUME NEW j \in 1 .. i, NEW m \in L, g[m] = p, m \in New => m \in MovedBy(s, n, j - 1)
       PROVE  Cu[m].fi < Cu[kids[j]].fi
  <2>1. MovedBy(s, n, j - 1) \subseteq Old
    BY DEF MovedBy, Old
  <2>2. m # k
    BY <1>4, <1>15, <2>1
  <2>3. CASE j = i
    BY <1>11, <1>12, <1>15, <2>2, <2>3 DEF k
  <2>4. CASE j # i
    <3>1. j \in 1 .. i - 1 /\ j \in 1 .. Len(kids) /\ i \in 1 .. Len(kids)
      BY <1>1, <2>4
    <3>2. kids[j] \in L /\ kids[j] # k
      BY <1>1, <2>4, <3>1 DEF k, L
    <3>3. f[m] = p /\ (m \in Old => m \in MovedBy(s, n, j - 1))
      BY <1>4, <1>12, <1>15, <2>2
    <3>4. Ct[m].fi < Ct[kids[j]].fi
      BY <1>3, <3>1, <3>3
    <3> QED
      BY <1>12, <2>2, <3>2, <3>4
  <2> QED
    BY <2>3, <2>4
<1> QED
  BY <1>10, <1>12, <1>13, <1>14, <1>15 DEF MovedStates, L, New, Cu, Cs, p, g, par

\* When the loop has ended the node has no children left, and is deleted alone.
LEMMA PromoteEnds ==
    ASSUME NEW c \in Clients, NEW s \in PlainStates, s.pending = <<>>, NEW n \in Live(s.doc),
           NEW u \in Promote(c, s, n)
    PROVE  \E t \in MovedStates(s, n, Len(s.children[n])) :
                /\ u \in GoodStates /\ u.status = "open" /\ u.fresh
                /\ IsPruned(t, u, {n})
<1> DEFINE N == Len(s.children[n])
           D == [i \in 0 .. N |-> MovedStates(s, n, i)]
<1>1. /\ s \in GoodStates /\ n \in DOMAIN s.parent /\ s.children[n] \in Seq(Live(s.doc))
      /\ N \in Nat /\ s.parent[n] \in DOMAIN s.parent /\ s.parent[n] # n
      /\ MovedBy(s, n, N) = {m \in Live(s.doc) : s.parent[m] = n}
      /\ DOMAIN s.parent = {Root} \cup Live(s.doc)
  <2>1. s \in GoodStates /\ DOMAIN s.parent = {Root} \cup Live(s.doc)
    BY PlainFacts
  <2>2. /\ s.children[n] \in Seq(Live(s.doc)) /\ N \in Nat
        /\ s.parent[n] \in DOMAIN s.parent /\ s.parent[n] # n
        /\ MovedBy(s, n, N) = {m \in Live(s.doc) : s.parent[m] = n}
    BY KidsFacts
  <2> QED
    BY <2>1, <2>2
<1> HIDE DEF N
<1>2. \A i \in 0 .. N : D[i] = MovedStates(s, n, i) /\ D[i] \in SUBSET GoodStates
  BY DEF MovedStates, PlainStates
<1>3. D \in [0 .. N -> SUBSET GoodStates]
  BY <1>2
<1>4. s \in D[0]
  <2>1. MovedBy(s, n, 0) = {} /\ 1 .. 0 = {} /\ 0 \in 0 .. N
    BY <1>1 DEF MovedBy
  <2> QED
    BY <1>2, <2>1 DEF MovedStates
<1>5. \A i \in 1 .. N : \A t \in D[i - 1] :
          UpdateNode(c, t, s.children[n][i], s.parent[n], End) \subseteq D[i]
  <2> SUFFICES ASSUME NEW i \in 1 .. N, NEW t \in D[i - 1],
                      NEW v \in UpdateNode(c, t, s.children[n][i], s.parent[n], End)
               PROVE  v \in D[i]
    OBVIOUS
  <2>1. i - 1 \in 0 .. N /\ i \in 0 .. N
    BY <1>1
  <2>2. t \in MovedStates(s, n, i - 1)
    BY <1>2, <2>1
  <2>3. v \in MovedStates(s, n, i)
    BY <2>2, PromoteStep DEF N
  <2> QED
    BY <1>2, <2>1, <2>3
<1>6. PICK t \in MovedStates(s, n, N) : u \in DeleteNodes(c, t, {n})
  <2> HIDE DEF D
  <2>1. \E t \in D[N] : u \in DeleteNodes(c, t, {n})
    BY <1>1, <1>3, <1>4, <1>5, PromoteLoop DEF N
  <2>2. D[N] = MovedStates(s, n, N)
    BY <1>1, <1>2
  <2> QED
    BY <2>1, <2>2
<1>7. /\ t \in PlainStates /\ t.pending = <<>> /\ Live(t.doc) = Live(s.doc)
      /\ \A m \in Live(s.doc) : t.parent[m] # n
  <2>1. /\ t \in PlainStates /\ t.pending = <<>> /\ Live(t.doc) = Live(s.doc)
        /\ \A m \in Live(s.doc) :
            t.parent[m] = IF m \in MovedBy(s, n, N) THEN s.parent[n] ELSE s.parent[m]
    BY DEF MovedStates
  <2> QED
    BY <1>1, <2>1
<1>8. Subtree(t.parent, n) = {n}
  <2>1. /\ DOMAIN t.parent = {Root} \cup Live(s.doc) /\ t.parent[Root] = None
        /\ None \notin Nodes /\ Live(s.doc) \subseteq Ids
    BY <1>7, PlainFacts
  <2>2. n \in DOMAIN t.parent /\ n # None
    BY <2>1 DEF Nodes
  <2>3. \A m \in DOMAIN t.parent : t.parent[m] # n
    BY <1>7, <2>1, <2>2
  <2>4. n \in Subtree(t.parent, n)
    BY <2>2, SubtreeIsClosed
  <2>5. Subtree(t.parent, n) \subseteq {n}
    BY <2>2, <2>3 DEF Subtree
  <2> QED
    BY <2>4, <2>5
<1>9. u \in GoodStates /\ u.status = "open" /\ u.fresh /\ IsPruned(t, u, {n})
  <2>1. u \in DeleteNodes(c, t, Subtree(t.parent, n)) /\ n \in Live(t.doc)
    BY <1>6, <1>7, <1>8
  <2> QED
    BY <1>7, <1>8, <2>1, DeleteNodesIsExact
<1> QED
  BY <1>6, <1>9 DEF N

\* State u is s with n at position i of its siblings deleted and its children
\* moved, in order, behind those siblings.
IsAt(s, n, i) ==
    i \in DOMAIN s.children[s.parent[n]] /\ s.children[s.parent[n]][i] = n

IsPromoted(s, u, n, i) ==
    /\ u.status = "open"
    /\ u.parent = [m \in DOMAIN s.parent \ {n} |->
                    IF s.parent[m] = n THEN s.parent[n] ELSE s.parent[m]]
    /\ u.children[s.parent[n]] = RemoveAt(s.children[s.parent[n]], i) \o s.children[n]

\* What delete_node leaves of a tree with the strategy Promote.
LEMMA PromoteIsExact ==
    ASSUME NEW c \in Clients, NEW s \in PlainStates, s.pending = <<>>, NEW n \in Live(s.doc),
           NEW u \in Promote(c, s, n), NEW i, IsAt(s, n, i)
    PROVE  IsPromoted(s, u, n, i)
<1> DEFINE p    == s.parent[n]
           a    == s.children[p]
           kids == s.children[n]
           N    == Len(kids)
           par  == s.parent
           g    == u.parent
           C    == Content(s.doc)
           K    == Content(u.doc)
<1>1. PICK t \in MovedStates(s, n, N) :
            u \in GoodStates /\ u.status = "open" /\ u.fresh /\ IsPruned(t, u, {n})
  BY PromoteEnds
<1>2. /\ p \in DOMAIN par /\ p # n /\ kids \in Seq(Live(s.doc)) /\ N \in Nat
      /\ \A j \in 1 .. N : kids[j] \in Live(s.doc) /\ par[kids[j]] = n
      /\ MovedBy(s, n, N) = {m \in Live(s.doc) : par[m] = n}
  BY KidsFacts
<1>3. /\ DOMAIN par = {Root} \cup Live(s.doc) /\ Root \notin Live(s.doc) /\ par[Root] = None
      /\ None \notin Nodes /\ Live(s.doc) \subseteq Ids /\ s.doc \in Documents
      /\ a = SortedChildren(C, par, p) /\ kids = SortedChildren(C, par, n)
  BY <1>2, PlainFacts
<1>4. /\ t \in PlainStates /\ Live(t.doc) = Live(s.doc)
      /\ \A m \in Live(s.doc) : t.parent[m] = IF par[m] = n THEN p ELSE par[m]
      /\ \A m \in Live(s.doc) : par[m] # n => Content(t.doc)[m].fi = C[m].fi
      /\ \A j \in 1 .. N : \A m \in Live(s.doc) :
            t.parent[m] = p /\ (par[m] = n => m \in MovedBy(s, n, j - 1))
                => Content(t.doc)[m].fi < Content(t.doc)[kids[j]].fi
  BY <1>2 DEF MovedStates
<1>5. DOMAIN t.parent = {Root} \cup Live(s.doc) /\ t.parent[Root] = None
  BY <1>4, PlainFacts
<1>6. /\ g = [m \in DOMAIN t.parent \ {n} |-> t.parent[m]]
      /\ Live(u.doc) = Live(s.doc) \ {n}
      /\ \A m \in Live(u.doc) : K[m] = Content(t.doc)[m]
  BY <1>1, <1>4 DEF IsPruned
<1>7. g = [m \in DOMAIN par \ {n} |-> IF par[m] = n THEN p ELSE par[m]]
  <2>1. None # n
    BY <1>3 DEF Nodes
  <2>2. \A m \in DOMAIN par \ {n} : t.parent[m] = IF par[m] = n THEN p ELSE par[m]
    BY <1>3, <1>4, <1>5, <2>1
  <2> HIDE DEF par, p, g
  <2> QED
    BY <1>3, <1>5, <1>6, <2>2
<1>8. u.children[p] = SortedChildren(K, g, p)
  <2>1. FollowsTheDocument(u)
    BY <1>1 DEF GoodStates, IsCurrent
  <2>2. p \in DOMAIN g
    BY <1>2, <1>7
  <2> QED
    BY <2>1, <2>2 DEF FollowsTheDocument
<1>9. /\ IsDoc(C) /\ DOMAIN C = Live(s.doc) /\ IsDoc(K) /\ DOMAIN K = DOMAIN C \ {n}
  BY <1>1, <1>3, <1>6, DocumentFacts DEF GoodStates, States
<1>10. /\ \A m \in DOMAIN K : g[m] = IF par[m] = n THEN p ELSE par[m]
       /\ \A m \in DOMAIN K : par[m] # n => K[m].fi = C[m].fi
  BY <1>3, <1>4, <1>6, <1>7, <1>9
<1>11. ASSUME NEW j \in DOMAIN kids, NEW m \in DOMAIN K, g[m] = p,
              par[m] = n => \E l \in DOMAIN kids : l < j /\ kids[l] = m
       PROVE  K[m].fi < K[kids[j]].fi
  <2>1. DOMAIN kids = 1 .. N
    BY <1>2, LenProperties
  <2>2. kids[j] \in DOMAIN K
    BY <1>2, <1>9, <2>1
  <2>3. par[m] = n => m \in MovedBy(s, n, j - 1)
    <3> SUFFICES ASSUME NEW l \in 1 .. N, l < j, kids[l] = m
                 PROVE  m \in MovedBy(s, n, j - 1)
      BY <1>11, <2>1
    <3>1. l \in 1 .. j - 1
      BY <1>2, <2>1
    <3> QED
      BY <3>1 DEF MovedBy
  <2>4. m \in Live(s.doc) /\ t.parent[m] = p
    BY <1>3, <1>4, <1>9, <1>10, <1>11
  <2>5. Content(t.doc)[m].fi < Content(t.doc)[kids[j]].fi
    BY <1>4, <2>1, <2>3, <2>4
  <2> QED
    BY <1>6, <1>9, <2>2, <2>5
<1>12. i \in DOMAIN a /\ a[i] = n /\ n \in DOMAIN C /\ par[n] = p
  BY <1>9 DEF IsAt
<1>13. IsPromotion(C, par, K, g, n, p, i)
  <2>1. i \in DOMAIN SortedChildren(C, par, p) /\ SortedChildren(C, par, p)[i] = n
    BY <1>3, <1>12
  <2>2. \A j \in DOMAIN SortedChildren(C, par, n) : \A m \in DOMAIN K :
            g[m] = p /\ (par[m] = n =>
                \E l \in DOMAIN SortedChildren(C, par, n) :
                    l < j /\ SortedChildren(C, par, n)[l] = m)
                => K[m].fi < K[SortedChildren(C, par, n)[j]].fi
    BY <1>3, <1>11
  <2> HIDE DEF p, a, kids, par, g, C, K
  <2> QED
    BY <1>2, <1>9, <1>10, <1>12, <2>1, <2>2 DEF IsPromotion
<1>14. SortedChildren(K, g, p) =
           RemoveAt(SortedChildren(C, par, p), i) \o SortedChildren(C, par, n)
  <2> HIDE DEF p, a, kids, par, g, C, K
  <2> QED
    BY <1>13, PromotedChildren
<1> QED
  BY <1>1, <1>3, <1>7, <1>8, <1>14 DEF IsPromoted

\* The operation that deletes a node and keeps its children.
LEMMA PromoteOperation ==
    ASSUME GoodClients, [Next]_vars, ops' # ops, event'.op = "promote"
    PROVE  \E c \in Clients, n \in Ids :
            event'.client = c /\ event'.node = n /\ DeletePromote(c, n)
<1>1. ASSUME NEW c \in Clients, NEW n \in Ids, DeletePromote(c, n)
      PROVE  event'.client = c /\ event'.node = n
  BY <1>1 DEF DeletePromote, Step
<1>2. ASSUME NEW c \in Clients, NEW n, NEW p, NEW i, CreateChild(c, n, p, i) \/ MoveTo(c, n, p, i)
      PROVE  FALSE
  BY <1>2 DEF CreateChild, MoveTo, Step
<1>3. ASSUME NEW c \in Clients, NEW n \in Nodes, NEW m \in Ids, NEW i \in {0, 1},
             MoveRelative(c, n, m, i)
      PROVE  FALSE
  BY <1>3 DEF MoveRelative, Step
<1>4. ASSUME NEW c \in Clients, NEW n \in Ids, DeleteCascade(c, n)
      PROVE  FALSE
  BY <1>4 DEF DeleteCascade, Step
<1>5. ASSUME NEW c \in Clients, Reopen(c)
      PROVE  FALSE
  BY <1>5 DEF Reopen, Step
<1>6. ASSUME NEW c \in Clients, NEW d, Receive(c, d)
      PROVE  FALSE
  BY <1>6 DEF Receive
<1>7. Next
  BY DEF vars
<1> QED
  BY <1>1, <1>2, <1>3, <1>4, <1>5, <1>6, <1>7 DEF Next

\* A node is among the children of its parent.
LEMMA AmongItsSiblings ==
    ASSUME NEW s \in PlainStates, NEW n \in Live(s.doc)
    PROVE  \E i \in DOMAIN s.children[s.parent[n]] : s.children[s.parent[n]][i] = n
<1> DEFINE C   == Content(s.doc)
           par == s.parent
<1>1. /\ par[n] \in DOMAIN par
      /\ s.children[par[n]] = SortedChildren(C, par, par[n])
      /\ IsDoc(C) /\ n \in DOMAIN C
  <2>1. par[n] \in DOMAIN par
    BY KidsFacts
  <2>2. s.doc \in Documents /\ \A p \in DOMAIN par : s.children[p] = SortedChildren(C, par, p)
    BY PlainFacts
  <2> QED
    BY <2>1, <2>2, DocumentFacts
<1> HIDE DEF C, par
<1>2. \E i \in DOMAIN SortedChildren(C, par, par[n]) : SortedChildren(C, par, par[n])[i] = n
  BY <1>1, SortedChildrenFacts
<1> QED
  BY <1>1, <1>2 DEF par

\* Deleting with the strategy Promote puts the children of the node, in order,
\* behind those of its parent, and moves no other node.
THEOREM PromotingKeepsOrder == Spec => PromoteKeepsOrder
<1> DEFINE Exact ==
        ops' # ops /\ event'.op = "promote" /\ Plain /\ Before.pending = <<>> =>
        LET n == event'.node
            p == Before.parent[n]
            i == CHOOSE j \in DOMAIN Before.children[p] : Before.children[p][j] = n
        IN  /\ After.status = "open"
            /\ After.parent = [m \in DOMAIN Before.parent \ {n} |->
                                IF Before.parent[m] = n THEN p ELSE Before.parent[m]]
            /\ After.children[p] = RemoveAt(Before.children[p], i)
                                    \o Before.children[n]
<1>1. ASSUME GoodClients, [Next]_vars, ops' # ops, event'.op = "promote", Plain,
             Before.pending = <<>>
      PROVE  Exact
  <2>1. PICK c \in Clients, n \in Ids :
            event'.client = c /\ event'.node = n /\ DeletePromote(c, n)
    BY <1>1, PromoteOperation
  <2>2. tree[c] \in PlainStates /\ Before = tree[c] /\ After = tree'[c]
    BY <1>1, <2>1, PlainClient
  <2>3. n \in Live(tree[c].doc) /\ tree[c].pending = <<>>
    <3>1. n \in DOMAIN tree[c].parent
      BY <2>1 DEF DeletePromote
    <3> QED
      BY <1>1, <2>2, <3>1, PlainFacts, IdsAssumption DEF Root
  <2>4. PICK u \in Promote(c, tree[c], n) : After = u
    <3>1. PICK u \in Promote(c, tree[c], n) : tree' = [tree EXCEPT ![c] = u]
      BY <2>1 DEF DeletePromote, Step
    <3>2. c \in DOMAIN tree
      BY <1>1 DEF GoodClients
    <3> QED
      BY <2>2, <3>1, <3>2
  <2> DEFINE s == tree[c]
             i == CHOOSE j \in DOMAIN s.children[s.parent[n]] : s.children[s.parent[n]][j] = n
  <2>5. IsAt(s, n, i)
    BY <2>2, <2>3, AmongItsSiblings DEF IsAt
  <2> HIDE DEF i
  <2>6. IsPromoted(s, u, n, i)
    BY <2>2, <2>3, <2>4, <2>5, PromoteIsExact
  <2> QED
    BY <2>1, <2>2, <2>4, <2>6 DEF i, IsPromoted
<1>2. GoodClients /\ [Next]_vars => [Exact]_vars
  BY <1>1
<1> QED
  BY <1>2, GoodInvariant, PTL DEF Spec, PromoteKeepsOrder

-----------------------------------------------------------------------------
(* Moving beside another node                                              *)

\* No two siblings have the same index.
IndicesApart(s) ==
    \A m, k \in Live(s.doc) :
        s.parent[m] = s.parent[k] /\ m # k
            => Content(s.doc)[m].fi # Content(s.doc)[k].fi

\* The index that a node gets before, or after, the k-th of its new siblings.
LEMMA IndexBesideFacts ==
    ASSUME NEW s \in PlainStates, IndicesApart(s), NEW o \in Live(s.doc), NEW k, IsAt(s, o, k)
    PROVE  LET p == s.parent[o] IN
           /\ IndexBeside(k, 0) \in Nat /\ IndexBeside(k, 1) \in Nat
           /\ IndexAt(s, p, IndexBeside(k, 0)) = Content(s.doc)[o].fi
           /\ IndexAt(s, p, IndexBeside(k, 1)) > Content(s.doc)[o].fi
<1> DEFINE C    == Content(s.doc)
           par  == s.parent
           p    == s.parent[o]
           kids == s.children[p]
           N    == Len(kids)
<1>1. /\ s.doc \in Documents /\ p \in DOMAIN par /\ p \in DOMAIN s.children
      /\ kids = SortedChildren(C, par, p) /\ kids[k] = o /\ k \in DOMAIN kids
      /\ \A m, l \in Live(s.doc) : par[m] = par[l] /\ m # l => C[m].fi # C[l].fi
  <2>1. p \in DOMAIN par
    BY KidsFacts
  <2>2. s \in GoodStates /\ s.doc \in Documents /\ kids = SortedChildren(C, par, p)
        /\ par \in [{Root} \cup Live(s.doc) -> Nodes \cup {None}]
    BY <2>1, PlainFacts
  <2>3. p \in DOMAIN s.children
    BY <2>1, <2>2 DEF GoodStates, CachesTheDocument
  <2> QED
    BY <2>1, <2>2, <2>3 DEF IsAt, IndicesApart
<1>2. IsDoc(C) /\ DOMAIN C = Live(s.doc)
  BY <1>1, DocumentFacts
<1>3. /\ kids \in Seq(DOMAIN C)
      /\ \A i \in DOMAIN kids : par[kids[i]] = p
      /\ \A i, j \in DOMAIN kids : i < j => <<kids[i], kids[j]>> \in SiblingBefore(C)
  <2> HIDE DEF C, par, p, kids
  <2> QED
    BY <1>1, <1>2, SortedChildrenFacts
<1>4. \A i \in Nat : IndexAt(s, p, i) = CASE kids = <<>> -> 0
                                          [] kids # <<>> /\ i >= N -> C[kids[N]].fi + 1
                                          [] OTHER -> C[kids[i + 1]].fi
  BY <1>1 DEF IndexAt, Last
<1> HIDE DEF C, par, p, kids
<1>5. N \in Nat /\ DOMAIN kids = 1 .. N /\ \A i \in 1 .. N : kids[i] \in DOMAIN C
  BY <1>3, LenProperties, ElementOfSeq
<1>6. k \in 1 .. N /\ kids # <<>>
  BY <1>1, <1>5
<1>7. \A m \in DOMAIN C : m \in Nat /\ C[m].fi \in Nat
  BY <1>2, ContentFacts
<1> HIDE DEF N
<1>8. /\ IndexBeside(k, 0) \in Nat /\ ~ (IndexBeside(k, 0) >= N) /\ IndexBeside(k, 0) + 1 = k
      /\ IndexBeside(k, 1) \in Nat /\ IndexBeside(k, 1) = k
  BY <1>5, <1>6 DEF IndexBeside
<1>9. IndexAt(s, p, IndexBeside(k, 0)) = C[o].fi
  BY <1>1, <1>4, <1>6, <1>8
<1>10. IndexAt(s, p, IndexBeside(k, 1)) > C[o].fi
  <2>1. CASE k = N
    <3>1. k >= N /\ C[o].fi \in Nat
      BY <1>1, <1>5, <1>6, <1>7, <2>1
    <3>2. IndexAt(s, p, k) = C[o].fi + 1
      BY <1>1, <1>4, <1>6, <1>8, <2>1, <3>1
    <3> QED
      BY <1>8, <3>1, <3>2
  <2>2. CASE k # N
    <3>1. k + 1 \in 1 .. N /\ k < k + 1 /\ ~ (k >= N)
      BY <1>5, <1>6, <2>2
    <3>2. IndexAt(s, p, k) = C[kids[k + 1]].fi
      BY <1>4, <1>6, <1>8, <3>1
    <3>3. <<o, kids[k + 1]>> \in SiblingBefore(C)
      BY <1>1, <1>3, <1>5, <1>6, <3>1
    <3>4. /\ kids[k + 1] \in DOMAIN C /\ o \in DOMAIN C
          /\ C[o].fi \in Nat /\ C[kids[k + 1]].fi \in Nat /\ o \in Nat
      BY <1>1, <1>5, <1>6, <1>7, <3>1
    <3>5. kids[k + 1] # o
      BY <1>7, <3>3, <3>4 DEF SiblingBefore
    <3>6. par[kids[k + 1]] = par[o]
      BY <1>1, <1>3, <1>5, <1>6, <3>1
    <3>7. C[kids[k + 1]].fi # C[o].fi
      BY <1>1, <1>2, <3>4, <3>5, <3>6
    <3>8. C[o].fi < C[kids[k + 1]].fi
      BY <3>3, <3>4, <3>7 DEF SiblingBefore
    <3> QED
      BY <1>8, <3>2, <3>4, <3>8
  <2> QED
    BY <2>1, <2>2
<1> QED
  BY <1>8, <1>9, <1>10 DEF C, p

\* Node n may be moved beside o, which is the k-th of its siblings.
MayMove(s, n, o, k) ==
    /\ n \in Ids /\ o \in Live(s.doc) /\ n # o
    /\ n \in DOMAIN s.parent => s.parent[o] \notin Subtree(s.parent, n)
    /\ IsAt(s, o, k)

\* Where the node is then, at i, and the other one, at j.
IsBeside(t, p, n, o, offset) ==
    \A i, j \in DOMAIN t.children[p] :
        t.children[p][i] = n /\ t.children[p][j] = o =>
            IF offset = 0 THEN i - j \in {-1, 1} ELSE i > j

\* Tree::update_node with the index before, or after, another node.
LEMMA UpdateNodeBeside ==
    ASSUME NEW c \in Clients, NEW s \in PlainStates, IndicesApart(s),
           NEW n, NEW o, NEW k, MayMove(s, n, o, k), NEW offset \in {0, 1},
           NEW t \in UpdateNode(c, s, n, s.parent[o], IndexBeside(k, offset))
    PROVE  /\ IsPlaced(s, t, n, s.parent[o], IndexBeside(k, offset))
           /\ \E i, j \in DOMAIN t.children[s.parent[o]] :
                t.children[s.parent[o]][i] = n /\ t.children[s.parent[o]][j] = o
           /\ IsBeside(t, s.parent[o], n, o, offset)
<1> DEFINE p    == s.parent[o]
           C    == Content(s.doc)
           K    == Content(t.doc)
           f    == t.parent
           kids == t.children[p]
           x    == IndexBeside(k, offset)
<1> USE DEF MayMove
<1>1. /\ p \in DOMAIN s.parent /\ x \in Nat
      /\ IF offset = 0 THEN IndexAt(s, p, x) = C[o].fi ELSE IndexAt(s, p, x) > C[o].fi
  BY KidsFacts, IndexBesideFacts
<1>2. /\ t \in GoodStates /\ t.status = "open" /\ t.fresh /\ IsPlaced(s, t, n, p, x)
  BY <1>1, UpdateNodeIsExact
<1>3. /\ IsDoc(K) /\ DOMAIN K = Live(t.doc) /\ Root \notin Live(s.doc)
      /\ DOMAIN s.parent = {Root} \cup Live(s.doc)
  BY <1>2, PlainFacts, DocumentFacts DEF GoodStates, States
<1>4. kids = SortedChildren(K, f, p)
  <2>1. FollowsTheDocument(t)
    BY <1>2 DEF GoodStates, IsCurrent
  <2>2. p \in DOMAIN t.parent
    BY <1>1, <1>2 DEF IsPlaced
  <2> QED
    BY <2>1, <2>2 DEF FollowsTheDocument
<1>5. /\ DOMAIN K = Live(s.doc) \cup {n} /\ f[n] = p /\ f[o] = p
      /\ \A m \in Live(s.doc) \ {n} : f[m] = s.parent[m] /\ K[m].fi = C[m].fi
      /\ K[n].fi = IndexAt(s, p, x)
  BY <1>2, <1>3 DEF IsPlaced
<1>6. \A m \in DOMAIN K \ {n, o} : f[m] = p => K[m].fi # K[o].fi
  BY <1>5 DEF IndicesApart
<1>7. IF offset = 0 THEN K[n].fi = K[o].fi ELSE K[n].fi > K[o].fi
  BY <1>1, <1>5
<1> HIDE DEF p, C, K, f, kids, x
<1>8. \E i, j \in DOMAIN kids : kids[i] = n /\ kids[j] = o
  <2>1. \A m \in DOMAIN K : f[m] = p => \E i \in DOMAIN kids : kids[i] = m
    BY <1>3, <1>4, SortedChildrenFacts
  <2> QED
    BY <1>5, <2>1
<1>9. ASSUME NEW i \in DOMAIN kids, NEW j \in DOMAIN kids, kids[i] = n, kids[j] = o
      PROVE  IF offset = 0 THEN i - j \in {-1, 1} ELSE i > j
  <2>1. /\ K[kids[j]].fi < K[kids[i]].fi => i > j
        /\ /\ i # j /\ K[kids[j]].fi = K[kids[i]].fi
           /\ \A m \in DOMAIN K \ {kids[i], kids[j]} : f[m] = p => K[m].fi # K[kids[j]].fi
           => i - j \in {-1, 1}
    BY <1>3, <1>4, SortedPositions
  <2>2. i # j
    BY <1>9
  <2>3. K[n].fi \in Nat /\ K[o].fi \in Nat
    BY <1>3, <1>5, ContentFacts
  <2> QED
    BY <1>6, <1>7, <1>9, <2>1, <2>2, <2>3
<1> QED
  BY <1>2, <1>8, <1>9 DEF p, x, kids, IsBeside

\* The operation that moves a node beside another.
LEMMA MoveOperations ==
    ASSUME GoodClients, [Next]_vars, ops' # ops, event'.op \in {"before", "after"}
    PROVE  \E c \in Clients, n \in Nodes, m \in Ids, i \in {0, 1} :
            /\ event'.client = c /\ event'.node = n /\ event'.other = m
            /\ event'.op = IF i = 0 THEN "before" ELSE "after"
            /\ MoveRelative(c, n, m, i)
<1>1. ASSUME NEW c \in Clients, NEW n \in Nodes, NEW m \in Ids, NEW i \in {0, 1},
             MoveRelative(c, n, m, i)
      PROVE  /\ event'.client = c /\ event'.node = n /\ event'.other = m
             /\ event'.op = IF i = 0 THEN "before" ELSE "after"
  BY <1>1 DEF MoveRelative, Step
<1>2. ASSUME NEW c \in Clients, NEW n, NEW p, NEW i, CreateChild(c, n, p, i) \/ MoveTo(c, n, p, i)
      PROVE  FALSE
  BY <1>2 DEF CreateChild, MoveTo, Step
<1>3. ASSUME NEW c \in Clients, NEW n \in Ids, DeletePromote(c, n) \/ DeleteCascade(c, n)
      PROVE  FALSE
  BY <1>3 DEF DeletePromote, DeleteCascade, Step
<1>4. ASSUME NEW c \in Clients, Reopen(c)
      PROVE  FALSE
  BY <1>4 DEF Reopen, Step
<1>5. ASSUME NEW c \in Clients, NEW d, Receive(c, d)
      PROVE  FALSE
  BY <1>5 DEF Receive
<1>6. Next
  BY DEF vars
<1> QED
  BY <1>1, <1>2, <1>3, <1>4, <1>5, <1>6 DEF Next

\* Where a node lands that is moved beside another, when no two siblings have
\* the same index.
THEOREM MovingIsExact == Spec => MovesBeside
<1> DEFINE Case ==
        ops' # ops /\ event'.op \in {"before", "after"} /\ Plain
          /\ event'.other \in DOMAIN Before.parent
          /\ Acyclic(event'.node, Before.parent[event'.other])
          /\ \A m, k \in Live(Before.doc) :
                Before.parent[m] = Before.parent[k] /\ m # k
                    => Content(Before.doc)[m].fi # Content(Before.doc)[k].fi
           Exact ==
        LET p       == Before.parent[event'.other]
            at(n)   == CHOOSE i \in DOMAIN After.children[p] : After.children[p][i] = n
            i       == at(event'.node)
            j       == at(event'.other)
        IN  /\ After.parent = [m \in DOMAIN Before.parent \cup {event'.node} |->
                                IF m = event'.node THEN p ELSE Before.parent[m]]
            /\ IF event'.op = "before" THEN i - j \in {-1, 1} ELSE i > j
<1>1. ASSUME GoodClients, [Next]_vars, Case
      PROVE  Exact
  <2>1. PICK c \in Clients, n \in Nodes, o \in Ids, offset \in {0, 1} :
            /\ event'.client = c /\ event'.node = n /\ event'.other = o
            /\ event'.op = IF offset = 0 THEN "before" ELSE "after"
            /\ MoveRelative(c, n, o, offset)
    BY <1>1, MoveOperations
  <2> DEFINE s == tree[c]
             p == s.parent[o]
             u == tree'[c]
  <2>2. s \in PlainStates /\ Before = s /\ After = u
    BY <1>1, <2>1, PlainClient
  <2>3. /\ n \in Ids /\ o \in Live(s.doc) /\ n # o /\ o \in DOMAIN s.parent
        /\ n \in DOMAIN s.parent => p \notin Subtree(s.parent, n)
        /\ IndicesApart(s)
    <3>1. n # Root /\ (n \in DOMAIN s.parent => p \notin Subtree(s.parent, n))
          /\ o \in DOMAIN s.parent
      BY <1>1, <2>1, <2>2 DEF Acyclic
    <3>2. n # o
      BY <2>1 DEF MoveRelative
    <3>3. IndicesApart(s)
      BY <1>1, <2>2 DEF IndicesApart
    <3>4. DOMAIN s.parent = {Root} \cup Live(s.doc) /\ n \in Ids /\ o # Root
      BY <2>2, <3>1, PlainFacts, IdsAssumption DEF Nodes, Root
    <3> QED
      BY <3>1, <3>2, <3>3, <3>4
  <2>4. p \in DOMAIN s.children /\ {i \in DOMAIN s.children[p] : s.children[p][i] = o} # {}
    <3>1. \E i \in DOMAIN s.children[p] : s.children[p][i] = o
      BY <2>2, <2>3, AmongItsSiblings
    <3>2. p \in DOMAIN s.parent /\ DOMAIN s.parent = {Root} \cup Live(s.doc)
      BY <2>2, <2>3, KidsFacts, PlainFacts
    <3>3. DOMAIN s.children = {Root} \cup Live(s.doc)
      BY <2>2 DEF PlainStates, GoodStates, CachesTheDocument
    <3> QED
      BY <3>1, <3>2, <3>3
  <2>5. PICK k : IsAt(s, o, k) /\ u \in UpdateNode(c, s, n, p, IndexBeside(k, offset))
    <3> DEFINE at == {i \in DOMAIN s.children[p] : s.children[p][i] = o}
    <3>1. PICK v \in UNION {UpdateNode(c, s, n, p, IndexBeside(i, offset)) : i \in at} :
              tree' = [tree EXCEPT ![c] = v]
      BY <2>1, <2>3, <2>4 DEF MoveRelative, Step
    <3>2. u = v
      BY <1>1, <3>1 DEF GoodClients
    <3>3. PICK i \in at : v \in UpdateNode(c, s, n, p, IndexBeside(i, offset))
      BY <3>1
    <3> QED
      BY <3>2, <3>3 DEF IsAt
  <2> HIDE DEF s, u
  <2>6. /\ IsPlaced(s, u, n, p, IndexBeside(k, offset))
        /\ \E i, j \in DOMAIN u.children[p] : u.children[p][i] = n /\ u.children[p][j] = o
        /\ IsBeside(u, p, n, o, offset)
    <3>1. MayMove(s, n, o, k) /\ IndicesApart(s)
      BY <2>3, <2>5 DEF MayMove
    <3> QED
      BY <2>2, <2>5, <3>1, UpdateNodeBeside
  <2> HIDE DEF p
  <2> DEFINE at(m) == CHOOSE i \in DOMAIN u.children[p] : u.children[p][i] = m
  <2>7. /\ at(n) \in DOMAIN u.children[p] /\ u.children[p][at(n)] = n
        /\ at(o) \in DOMAIN u.children[p] /\ u.children[p][at(o)] = o
    BY <2>6
  <2>8. IF offset = 0 THEN at(n) - at(o) \in {-1, 1} ELSE at(n) > at(o)
    <3> HIDE DEF at
    <3> QED
      BY <2>6, <2>7 DEF IsBeside
  <2>9. u.parent = [m \in DOMAIN s.parent \cup {n} |-> IF m = n THEN p ELSE s.parent[m]]
    BY <2>6 DEF IsPlaced
  <2> QED
    BY <2>1, <2>2, <2>8, <2>9 DEF p
<1> HIDE DEF Exact
<1>2. GoodClients /\ [Next]_vars => [Case => Exact]_vars
  BY <1>1
<1> QED
  BY <1>2, GoodInvariant, PTL DEF Spec, MovesBeside, Exact
=============================================================================
