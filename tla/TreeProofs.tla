----------------------------- MODULE TreeProofs -----------------------------
(* What readers of a client's tree can rely on, for any number of clients, *)
(* nodes and operations, and whatever of each other's documents they get.  *)
EXTENDS Tree, RebuildProofs

-----------------------------------------------------------------------------
(* Documents                                                               *)

MapsOfEntries == [Ids -> Entries]

\* The ids that have a container in the map.
LiveIn(map) == {n \in Ids : map[n].live}

\* The values of the edges of a node in the map.
EdgesIn(map, n) == [p \in Nodes |-> map[n].em[p].val]

\* The containers of a document are what a rebuild expects.
LEMMA DocumentFacts ==
    ASSUME NEW d \in Documents
    PROVE  /\ IsDoc(Content(d)) /\ DOMAIN Content(d) = Live(d)
           /\ Live(d) \subseteq Ids
           /\ PresentIn(Content(d)) = {Root} \cup Live(d)
           /\ {Root} \cup Live(d) \subseteq Nodes
           /\ \A n \in Live(d) : Content(d)[n].fi \in Nat
<1>1. /\ \A n \in Ids : d.map[n] \in Entries
      /\ Live(d) \subseteq Ids
  BY DEF Documents, Live
<1>2. \A n \in Live(d) : /\ d.map[n].fi.val \in Nat
                         /\ \A p \in Nodes : d.map[n].em[p].val \in Nat \cup {NoEdge}
  BY <1>1 DEF Live, Entries, Registers
<1> DEFINE C == Content(d)
<1>3. /\ DOMAIN C = Live(d)
      /\ \A n \in Live(d) : C[n] = [em |-> [p \in Nodes |-> d.map[n].em[p].val],
                                    fi |-> d.map[n].fi.val]
  BY DEF Content
<1>4. \A n \in Live(d) : [em |-> [p \in Nodes |-> d.map[n].em[p].val],
                          fi |-> d.map[n].fi.val] \in Container
  BY <1>2 DEF Container, EdgeMap
<1>5. \A n \in Live(d) : C[n] \in Container /\ C[n].fi \in Nat
  BY <1>2, <1>3, <1>4
<1>6. C = [n \in Live(d) |-> C[n]]
  BY DEF Content
<1> HIDE DEF C
<1>7. IsDoc(C)
  BY <1>1, <1>3, <1>5, <1>6 DEF IsDoc
<1> QED
  BY <1>1, <1>3, <1>5, <1>7 DEF C, PresentIn, Nodes

\* map.insert at a key keeps the key well formed and gives it the value.
LEMMA InsertType ==
    ASSUME NEW reg \in Registers, NEW c \in Clients, NEW v \in Nat \cup {NoEdge}
    PROVE  Insert(reg, c, v) \in Registers /\ Insert(reg, c, v).val = v
BY AppendProperties DEF Insert, Register, Registers

\* The entries that operations write are entries.
LEMMA EntryTypes ==
    /\ Unset \in Registers
    /\ NoEntry \in Entries /\ ~ NoEntry.live
    /\ \A e \in Entries : Removed(e) \in Entries /\ ~ Removed(e).live
    /\ \A e \in Entries, c \in Clients, p \in Nodes, v \in Nat, fi \in Nat :
            NewEntry(e, c, p, v, fi) \in Entries /\ NewEntry(e, c, p, v, fi).live
<1>1. <<>> \in Seq(Clients)
  BY EmptySeq
<1>2. Unset \in Registers
  BY <1>1 DEF Unset, Register, Registers
<1>3. [p \in Nodes |-> Unset] \in [Nodes -> Registers]
  BY <1>2
<1>4. NoEntry \in Entries /\ ~ NoEntry.live
  BY <1>1, <1>2, <1>3 DEF NoEntry, Entries
<1>5. ASSUME NEW e \in Entries
      PROVE  Removed(e) \in Entries /\ ~ Removed(e).live
  BY <1>2, <1>3, <1>5 DEF Removed, NoEntry, Entries
<1>6. ASSUME NEW e \in Entries, NEW c \in Clients, NEW p \in Nodes, NEW v \in Nat, NEW fi \in Nat
      PROVE  NewEntry(e, c, p, v, fi) \in Entries /\ NewEntry(e, c, p, v, fi).live
  <2>1. Append(e.path, c) \in Seq(Clients)
    BY AppendProperties DEF Entries
  <2>2. Insert(Unset, c, v) \in Registers
    BY <1>2, InsertType
  <2>3. Insert(Unset, c, fi) \in Registers /\ Insert(Unset, c, fi).val = fi
    BY <1>2, InsertType
  <2>4. [q \in Nodes |-> IF q = p THEN Insert(Unset, c, v) ELSE Unset] \in [Nodes -> Registers]
    BY <1>2, <2>2
  <2> QED
    BY <2>1, <2>3, <2>4 DEF NewEntry, Entries
<1> QED
  BY <1>2, <1>4, <1>5, <1>6

\* An edge written to a container leaves a map of containers, with the same
\* containers and but one other edge.
LEMMA EdgeWrittenType ==
    ASSUME NEW m \in MapsOfEntries, NEW c \in Clients, NEW u \in Ids \X Nodes \X Nat
    PROVE  LET after == EdgeWritten(m, c, u) IN
           /\ after \in MapsOfEntries /\ LiveIn(after) = LiveIn(m)
           /\ \A k \in Ids :
                /\ after[k].fi = m[k].fi
                /\ EdgesIn(after, k) = IF k = u[1] THEN [EdgesIn(m, k) EXCEPT ![u[2]] = u[3]]
                                                  ELSE EdgesIn(m, k)
<1> DEFINE n     == u[1]
           p     == u[2]
           v     == u[3]
           after == EdgeWritten(m, c, u)
           e     == [m[n] EXCEPT !.em[p] = Insert(@, c, v)]
<1>1. n \in Ids /\ p \in Nodes /\ v \in Nat
  OBVIOUS
<1>2. after = [m EXCEPT ![n] = e]
  BY DEF EdgeWritten
<1> HIDE DEF n, p, v, after
<1>3. m[n] \in Entries /\ m[n].em \in [Nodes -> Registers] /\ m[n].em[p] \in Registers
  BY <1>1 DEF MapsOfEntries, Entries
<1>4. Insert(m[n].em[p], c, v) \in Registers /\ Insert(m[n].em[p], c, v).val = v
  BY <1>1, <1>3, InsertType
<1>5. [m[n].em EXCEPT ![p] = Insert(m[n].em[p], c, v)] \in [Nodes -> Registers]
  BY <1>3, <1>4
<1>6. e = [m[n] EXCEPT !.em = [m[n].em EXCEPT ![p] = Insert(m[n].em[p], c, v)]]
  OBVIOUS
<1>7. /\ e \in Entries /\ e.live = m[n].live /\ e.fi = m[n].fi
      /\ e.em = [m[n].em EXCEPT ![p] = Insert(m[n].em[p], c, v)]
  BY <1>3, <1>5, <1>6 DEF Entries
<1> HIDE DEF e
<1>8. /\ after \in MapsOfEntries
      /\ \A k \in Ids : after[k].live = m[k].live /\ after[k].fi = m[k].fi
      /\ after[n] = e /\ \A k \in Ids \ {n} : after[k] = m[k]
  BY <1>1, <1>7, <1>2 DEF MapsOfEntries
<1>9. EdgesIn(after, n) = [EdgesIn(m, n) EXCEPT ![p] = v]
  <2>1. \A q \in Nodes : e.em[q].val = IF q = p THEN v ELSE m[n].em[q].val
    BY <1>1, <1>3, <1>4, <1>7
  <2> QED
    BY <1>1, <1>8, <2>1 DEF EdgesIn
<1>10. \A k \in Ids \ {n} : EdgesIn(after, k) = EdgesIn(m, k)
  BY <1>8 DEF EdgesIn
<1>11. LiveIn(after) = LiveIn(m)
  BY <1>8 DEF LiveIn
<1> QED
  BY <1>8, <1>9, <1>10, <1>11 DEF after, n, p, v

\* What the merge of two containers holds.
LEMMA MergeEntriesType ==
    ASSUME NEW x \in Entries, NEW y \in Entries
    PROVE  MergeEntries(x, y) \in Entries
<1>1. CASE x.path = y.path /\ x.live /\ y.live
  <2> DEFINE em == [p \in Nodes |-> Latest(x.em[p], y.em[p])]
             fi == Latest(x.fi, y.fi)
  <2>1. \A p \in Nodes : x.em[p] \in Registers /\ y.em[p] \in Registers
    BY DEF Entries
  <2>2. em \in [Nodes -> Registers]
    BY <2>1 DEF Latest
  <2>3. fi \in Registers /\ fi.val \in Nat
    BY <1>1 DEF Latest, Entries
  <2>4. MergeEntries(x, y) = [x EXCEPT !.em = em, !.fi = fi]
    BY <1>1 DEF MergeEntries
  <2> HIDE DEF em, fi
  <2> QED
    BY <2>2, <2>3, <2>4 DEF Entries
<1>2. CASE x.path = y.path /\ ~ (x.live /\ y.live)
  BY <1>2, EntryTypes DEF MergeEntries
<1>3. CASE x.path # y.path
  BY <1>3 DEF MergeEntries, Latest
<1> QED
  BY <1>1, <1>2, <1>3

\* What the merge of two documents holds.
LEMMA MergeType ==
    ASSUME NEW a \in Documents, NEW b \in Documents
    PROVE  Merge(a, b) \in Documents
<1>1. [n \in Ids |-> MergeEntries(a.map[n], b.map[n])] \in [Ids -> Entries]
  BY MergeEntriesType DEF Documents
<1>2. [c \in Clients |-> IF a.seen[c] < b.seen[c] THEN b.seen[c] ELSE a.seen[c]] \in [Clients -> Nat]
  BY DEF Documents
<1> QED
  BY <1>1, <1>2 DEF Merge, Documents

-----------------------------------------------------------------------------
(* The order of the items of a key                                         *)

Paths == Seq(Clients)

LEMMA PathFacts ==
    ASSUME NEW p \in Paths
    PROVE  Len(p) \in Nat /\ \A i \in 1 .. Len(p) : p[i] \in Nat
<1>1. Len(p) \in Nat /\ \A i \in 1 .. Len(p) : p[i] \in Clients
  BY DEF Paths
<1> QED
  BY <1>1, ClientsAssumption

\* Two paths part at i, where the one goes on after the other.
PartAt(p, q, i) ==
    /\ i \in 1 .. Len(p) /\ i - 1 <= Len(q)
    /\ \A j \in 1 .. i - 1 : p[j] = q[j]
    /\ i > Len(q) \/ p[i] > q[i]

LEMMA IsAfterParts ==
    ASSUME NEW p \in Paths, NEW q \in Paths
    PROVE  IsAfter(p, q) <=> \E i \in Nat : PartAt(p, q, i)
<1>1. ASSUME NEW i \in 1 .. Len(p), i - 1 <= Len(q)
      PROVE  SubSeq(p, 1, i - 1) = SubSeq(q, 1, i - 1) <=> \A j \in 1 .. i - 1 : p[j] = q[j]
  <2>1. \A j \in 1 .. i - 1 : j \in 1 .. Len(p) /\ j \in 1 .. Len(q)
    BY <1>1 DEF Paths
  <2>2. \A j \in 1 .. i - 1 : p[j] \in Clients /\ q[j] \in Clients
    BY <2>1 DEF Paths
  <2>3. i - 1 \in Int /\ (i - 1) - 1 + 1 = i - 1 /\ (1 <= i - 1 => Len(p) \in Nat)
    BY DEF Paths
  <2>4. /\ SubSeq(p, 1, i - 1) \in Seq(Clients) /\ Len(SubSeq(p, 1, i - 1)) = i - 1
        /\ \A j \in 1 .. i - 1 : SubSeq(p, 1, i - 1)[j] = p[j]
    BY <2>2, <2>3, SubSeqProperties
  <2>5. /\ SubSeq(q, 1, i - 1) \in Seq(Clients) /\ Len(SubSeq(q, 1, i - 1)) = i - 1
        /\ \A j \in 1 .. i - 1 : SubSeq(q, 1, i - 1)[j] = q[j]
    BY <2>2, <2>3, SubSeqProperties
  <2> QED
    BY <2>4, <2>5, SeqEqual
<1>2. DOMAIN p = 1 .. Len(p) /\ 1 .. Len(p) \subseteq Nat
  BY DEF Paths
<1> QED
  BY <1>1, <1>2 DEF IsAfter, PartAt

\* Items that are named by different paths are ordered.
LEMMA AfterIsTotal ==
    ASSUME NEW p \in Paths, NEW q \in Paths, p # q
    PROVE  IsAfter(p, q) \/ IsAfter(q, p)
<1>1. Len(p) \in Nat /\ Len(q) \in Nat
  BY DEF Paths
<1>2. \A i \in 1 .. Len(p) : p[i] \in Nat
  BY PathFacts
<1>3. \A i \in 1 .. Len(q) : q[i] \in Nat
  BY PathFacts
<1> DEFINE T == {i \in Nat \ {0} : \/ i \in 1 .. Len(p) /\ i \notin 1 .. Len(q)
                                   \/ i \in 1 .. Len(q) /\ i \notin 1 .. Len(p)
                                   \/ i \in 1 .. Len(p) /\ i \in 1 .. Len(q) /\ p[i] # q[i]}
<1>4. T # {}
  <2> SUFFICES ASSUME T = {} PROVE FALSE
    OBVIOUS
  <2>1. Len(p) = Len(q)
    <3>1. Len(p) \notin T /\ Len(q) \notin T
      OBVIOUS
    <3>2. Len(p) # 0 => Len(p) \in 1 .. Len(q)
      BY <1>1, <3>1
    <3>3. Len(q) # 0 => Len(q) \in 1 .. Len(p)
      BY <1>1, <3>1
    <3> QED
      BY <1>1, <3>2, <3>3
  <2>2. \A i \in 1 .. Len(p) : p[i] = q[i]
    <3> SUFFICES ASSUME NEW i \in 1 .. Len(p) PROVE p[i] = q[i]
      OBVIOUS
    <3>1. i \notin T /\ i \in Nat \ {0} /\ i \in 1 .. Len(q)
      BY <1>1, <2>1
    <3> QED
      BY <3>1
  <2> QED
    BY <2>1, <2>2, SeqEqual DEF Paths
<1>5. PICK i \in T : \A j \in T : i <= j
  <2>1. T \in SUBSET Nat
    OBVIOUS
  <2> HIDE DEF T
  <2> QED
    BY <1>4, <2>1, LeastNatural
<1>6. i \in Nat \ {0} /\ \A j \in 1 .. i - 1 : j \notin T /\ j \in Nat \ {0}
  <2> HIDE DEF T
  <2>1. T \subseteq Nat \ {0}
    BY DEF T
  <2> QED
    BY <1>5, <2>1
<1>7. \A j \in 1 .. i - 1 : /\ j \in 1 .. Len(p) <=> j \in 1 .. Len(q)
                           /\ j \in 1 .. Len(p) => p[j] = q[j]
  BY <1>6
<1>8. i - 1 <= Len(p) /\ i - 1 <= Len(q)
  <2>1. i - 1 = 0 \/ i - 1 \in 1 .. i - 1
    BY <1>6
  <2>2. i \in 1 .. Len(p) \/ i \in 1 .. Len(q)
    BY <1>5
  <2> QED
    BY <1>1, <1>6, <1>7, <2>1, <2>2
<1>9. \A j \in 1 .. i - 1 : p[j] = q[j] /\ q[j] = p[j]
  BY <1>1, <1>6, <1>7, <1>8
<1>10. \/ i \in 1 .. Len(p) /\ i > Len(q)
       \/ i \in 1 .. Len(q) /\ i > Len(p)
       \/ i \in 1 .. Len(p) /\ i \in 1 .. Len(q) /\ (p[i] > q[i] \/ q[i] > p[i])
  BY <1>1, <1>2, <1>3, <1>5
<1>11. PartAt(p, q, i) \/ PartAt(q, p, i)
  BY <1>8, <1>9, <1>10 DEF PartAt
<1> QED
  BY <1>6, <1>11, IsAfterParts

\* Nothing comes after itself, and the order is transitive.
LEMMA AfterIsStrict ==
    ASSUME NEW p \in Paths
    PROVE  ~ IsAfter(p, p)
<1> SUFFICES ASSUME NEW i \in Nat, PartAt(p, p, i) PROVE FALSE
  BY IsAfterParts
<1>1. i \in 1 .. Len(p) /\ Len(p) \in Nat /\ p[i] \in Nat
  BY PathFacts DEF PartAt
<1> QED
  BY <1>1 DEF PartAt

LEMMA AfterIsTransitive ==
    ASSUME NEW p \in Paths, NEW q \in Paths, NEW r \in Paths, IsAfter(p, q), IsAfter(q, r)
    PROVE  IsAfter(p, r)
<1>1. PICK i \in Nat : PartAt(p, q, i)
  BY IsAfterParts
<1>2. PICK j \in Nat : PartAt(q, r, j)
  BY IsAfterParts
<1>3. Len(p) \in Nat /\ Len(q) \in Nat /\ Len(r) \in Nat
  BY DEF Paths
<1>4. /\ \A k \in 1 .. Len(p) : p[k] \in Nat
      /\ \A k \in 1 .. Len(q) : q[k] \in Nat
      /\ \A k \in 1 .. Len(r) : r[k] \in Nat
  BY PathFacts
<1>5. CASE i < j
  <2>1. PartAt(p, r, i)
    <3>1. i \in 1 .. Len(p) /\ i <= Len(q) /\ i - 1 <= Len(r) /\ i \in 1 .. Len(q)
          /\ i <= Len(r) /\ i \in 1 .. j - 1
      BY <1>1, <1>2, <1>3, <1>5 DEF PartAt
    <3>2. p[i] > q[i] /\ q[i] = r[i]
      BY <1>1, <1>2, <1>3, <3>1 DEF PartAt
    <3>3. \A k \in 1 .. i - 1 : p[k] = r[k]
      <4>1. \A k \in 1 .. i - 1 : k \in 1 .. j - 1
        BY <1>5, <3>1
      <4> QED
        BY <1>1, <1>2, <4>1 DEF PartAt
    <3> QED
      BY <3>1, <3>2, <3>3 DEF PartAt
  <2> QED
    BY <2>1, IsAfterParts
<1>6. CASE j <= i
  <2>1. PartAt(p, r, j)
    <3>1. j \in 1 .. Len(p) /\ j \in 1 .. Len(q) /\ j - 1 <= Len(r)
      BY <1>1, <1>2, <1>3, <1>6 DEF PartAt
    <3>2. \A k \in 1 .. j - 1 : p[k] = r[k]
      <4>1. \A k \in 1 .. j - 1 : k \in 1 .. i - 1
        BY <1>6, <3>1
      <4> QED
        BY <1>1, <1>2, <4>1 DEF PartAt
    <3>3. j > Len(r) \/ (j \in 1 .. Len(r) /\ q[j] > r[j])
      BY <1>2, <1>3, <3>1 DEF PartAt
    <3>4. p[j] >= q[j]
      <4>1. CASE j < i
        <5>1. j \in 1 .. i - 1
          BY <3>1, <4>1
        <5> QED
          BY <1>1, <1>4, <3>1, <5>1 DEF PartAt
      <4>2. CASE j = i
        BY <1>1, <1>3, <1>4, <3>1, <4>2 DEF PartAt
      <4> QED
        BY <1>6, <4>1, <4>2
    <3>5. j > Len(r) \/ p[j] > r[j]
      BY <1>4, <3>1, <3>3, <3>4
    <3> QED
      BY <3>1, <3>2, <3>5 DEF PartAt
  <2> QED
    BY <2>1, IsAfterParts
<1> QED
  BY <1>5, <1>6

\* What is inserted comes after what was there.
LEMMA AppendIsAfter ==
    ASSUME NEW p \in Paths, NEW c \in Clients
    PROVE  Append(p, c) \in Paths /\ Append(p, c) # <<>> /\ Last(Append(p, c)) = c
           /\ IsAfter(Append(p, c), p)
<1>1. /\ Append(p, c) \in Paths /\ Append(p, c) # <<>> /\ Len(Append(p, c)) = Len(p) + 1
      /\ \A i \in 1 .. Len(p) : Append(p, c)[i] = p[i]
      /\ Append(p, c)[Len(p) + 1] = c /\ Len(p) \in Nat
  BY AppendProperties DEF Paths
<1>2. PartAt(Append(p, c), p, Len(p) + 1)
  BY <1>1 DEF PartAt
<1>3. Last(Append(p, c)) = c
  BY <1>1 DEF Last
<1> QED
  BY <1>1, <1>2, <1>3, IsAfterParts

-----------------------------------------------------------------------------
(* Merging documents                                                       *)

\* The registers of an entry: its edges, and its index at the key None.
Keys == Nodes \cup {None}
Reg(e, k) == IF k = None THEN e.fi ELSE e.em[k]

\* How far documents are: the item of a key that one of them has is that of
\* the other, or comes before it; removed entries are never live again.
IsAtOrAfter(p, q) == p = q \/ IsAfter(p, q)

RegWithin(a, b) == a = b \/ IsAfter(b.path, a.path)

EntryWithin(e, f) ==
    \/ IsAfter(f.path, e.path)
    \/ /\ f.path = e.path
       /\ f.live => e.live /\ \A k \in Keys : RegWithin(Reg(e, k), Reg(f, k))

DocWithin(a, b) == \A n \in Ids : EntryWithin(a.map[n], b.map[n])

\* Removed entries keep nothing but their path.
IsBare(e) == ~ e.live => e = Removed(e)
Docs == {d \in Documents : \A n \in Ids : IsBare(d.map[n])}

\* Two entries name the same value by the same path.
SameItems(e, f) ==
    e.path = f.path /\ e.live /\ f.live =>
        \A k \in Keys : Reg(e, k).path = Reg(f, k).path => Reg(e, k) = Reg(f, k)

\* Client c, which has entry f, has all that it inserted into entry e.
IsKnownTo(c, e, f) ==
    /\ e.path # <<>> /\ Last(e.path) = c => IsAtOrAfter(f.path, e.path)
    /\ \A k \in Keys :
        e.live /\ Reg(e, k).path # <<>> /\ Last(Reg(e, k).path) = c =>
            \/ IsAfter(f.path, e.path)
            \/ f.path = e.path /\ (f.live => IsAtOrAfter(Reg(f, k).path, Reg(e, k).path))

LEMMA EntryFacts ==
    ASSUME NEW e \in Entries
    PROVE  /\ e.path \in Paths /\ e.live \in BOOLEAN
           /\ e = [path |-> e.path, live |-> e.live, em |-> e.em, fi |-> e.fi]
           /\ e.em \in [Nodes -> Registers]
           /\ \A k \in Keys : Reg(e, k) \in Registers /\ Reg(e, k).path \in Paths
BY DEF Entries, Registers, Reg, Keys, Paths

\* Removed entries have a path and nothing else.
LEMMA RemovedFacts ==
    ASSUME NEW e
    PROVE  /\ Removed(e).path = e.path /\ ~ Removed(e).live
           /\ \A f : f.path = e.path => Removed(f) = Removed(e)
           /\ Removed(Removed(e)) = Removed(e)
BY DEF Removed, NoEntry

LEMMA RegWithinTransitive ==
    ASSUME NEW a \in Registers, NEW b \in Registers, NEW c \in Registers,
           RegWithin(a, b), RegWithin(b, c)
    PROVE  RegWithin(a, c)
BY AfterIsTransitive DEF RegWithin, Registers, Paths

\* How far entries are is a partial order.
LEMMA EntryWithinTransitive ==
    ASSUME NEW e \in Entries, NEW f \in Entries, NEW g \in Entries,
           EntryWithin(e, f), EntryWithin(f, g)
    PROVE  EntryWithin(e, g)
<1>1. e.path \in Paths /\ f.path \in Paths /\ g.path \in Paths
  BY EntryFacts
<1>2. CASE IsAfter(f.path, e.path) \/ IsAfter(g.path, f.path)
  <2>1. IsAfter(g.path, e.path)
    BY <1>1, <1>2, AfterIsTransitive DEF EntryWithin
  <2> QED
    BY <2>1 DEF EntryWithin
<1>3. CASE ~ (IsAfter(f.path, e.path) \/ IsAfter(g.path, f.path))
  <2>1. /\ f.path = e.path /\ g.path = f.path
        /\ f.live => e.live /\ \A k \in Keys : RegWithin(Reg(e, k), Reg(f, k))
        /\ g.live => f.live /\ \A k \in Keys : RegWithin(Reg(f, k), Reg(g, k))
    BY <1>3 DEF EntryWithin
  <2>2. ASSUME g.live, NEW k \in Keys
        PROVE  RegWithin(Reg(e, k), Reg(g, k))
    BY <2>1, <2>2, EntryFacts, RegWithinTransitive
  <2> QED
    BY <2>1, <2>2 DEF EntryWithin
<1> QED
  BY <1>2, <1>3

LEMMA EntryWithinAntisymmetric ==
    ASSUME NEW e \in Entries, NEW f \in Entries, EntryWithin(e, f), EntryWithin(f, e),
           IsBare(e), IsBare(f)
    PROVE  e = f
<1>1. e.path \in Paths /\ f.path \in Paths
  BY EntryFacts
<1>2. e.path = f.path
  BY <1>1, AfterIsStrict, AfterIsTransitive DEF EntryWithin
<1>3. ~ IsAfter(f.path, e.path) /\ ~ IsAfter(e.path, f.path)
  BY <1>1, <1>2, AfterIsStrict
<1>4. CASE e.live /\ f.live
  <2>1. ASSUME NEW k \in Keys PROVE Reg(e, k) = Reg(f, k)
    <3>1. RegWithin(Reg(e, k), Reg(f, k)) /\ RegWithin(Reg(f, k), Reg(e, k))
      BY <1>3, <1>4 DEF EntryWithin
    <3> QED
      BY <3>1, EntryFacts, AfterIsStrict, AfterIsTransitive DEF RegWithin
  <2>2. \A p \in Nodes : p \in Keys /\ p # None
    BY IdsAssumption DEF Nodes, Keys, None, Root
  <2>3. \A p \in Nodes : e.em[p] = f.em[p]
    BY <2>1, <2>2 DEF Reg
  <2>4. e.fi = f.fi
    BY <2>1 DEF Reg, Keys
  <2>5. e.em = f.em
    BY <2>3, EntryFacts
  <2>6. e.live = f.live
    BY <1>4, EntryFacts
  <2> QED
    BY <1>2, <2>4, <2>5, <2>6, EntryFacts
<1>5. CASE ~ e.live /\ ~ f.live
  BY <1>2, <1>5, RemovedFacts DEF IsBare
<1> QED
  BY <1>3, <1>4, <1>5, EntryFacts DEF EntryWithin

\* What MergeEntries makes of two entries.
LEMMA MergeEntriesIs ==
    ASSUME NEW e \in Entries, NEW f \in Entries, NEW m, m = MergeEntries(e, f)
    PROVE  \/ /\ e.path = f.path /\ e.live /\ f.live /\ m.path = e.path /\ m.live
              /\ \A k \in Keys : Reg(m, k) = Latest(Reg(e, k), Reg(f, k))
           \/ e.path = f.path /\ ~ (e.live /\ f.live) /\ m = Removed(e)
           \/ IsAfter(f.path, e.path) /\ m = f
           \/ IsAfter(e.path, f.path) /\ m = e
<1>1. e.path \in Paths /\ f.path \in Paths
  BY EntryFacts
<1>2. CASE e.path = f.path /\ e.live /\ f.live
  <2>1. m = [e EXCEPT !.em = [p \in Nodes |-> Latest(e.em[p], f.em[p])],
                      !.fi = Latest(e.fi, f.fi)]
    BY <1>2 DEF MergeEntries
  <2>2. /\ m.path = e.path /\ m.live = e.live /\ m.fi = Latest(e.fi, f.fi)
        /\ m.em = [p \in Nodes |-> Latest(e.em[p], f.em[p])]
    BY <2>1 DEF Entries
  <2>3. \A k \in Keys : Reg(m, k) = Latest(Reg(e, k), Reg(f, k))
    BY <2>2 DEF Reg, Keys
  <2> QED
    BY <1>2, <2>2, <2>3
<1>3. CASE e.path = f.path /\ ~ (e.live /\ f.live)
  BY <1>3 DEF MergeEntries
<1>4. CASE e.path # f.path
  <2>1. m = Latest(e, f)
    BY <1>4 DEF MergeEntries
  <2> QED
    BY <1>1, <1>4, <2>1, AfterIsTotal DEF Latest
<1> QED
  BY <1>2, <1>3, <1>4

\* A merged entry is the first that both are within.
LEMMA LatestIsWithin ==
    ASSUME NEW a \in Registers, NEW b \in Registers, a.path = b.path => a = b
    PROVE  RegWithin(a, Latest(a, b)) /\ RegWithin(b, Latest(a, b))
BY AfterIsTotal DEF Latest, RegWithin, Registers, Paths

LEMMA MergeIsWithin ==
    ASSUME NEW e \in Entries, NEW f \in Entries, SameItems(e, f)
    PROVE  EntryWithin(e, MergeEntries(e, f)) /\ EntryWithin(f, MergeEntries(e, f))
<1> DEFINE m == MergeEntries(e, f)
<1>1. CASE /\ e.path = f.path /\ e.live /\ f.live /\ m.path = e.path /\ m.live
           /\ \A k \in Keys : Reg(m, k) = Latest(Reg(e, k), Reg(f, k))
  <2>1. \A k \in Keys : RegWithin(Reg(e, k), Reg(m, k)) /\ RegWithin(Reg(f, k), Reg(m, k))
    BY <1>1, EntryFacts, LatestIsWithin DEF SameItems
  <2> QED
    BY <1>1, <2>1 DEF EntryWithin
<1>2. CASE e.path = f.path /\ m = Removed(e)
  BY <1>2, RemovedFacts DEF EntryWithin
<1>3. ASSUME NEW g \in Entries PROVE EntryWithin(g, g)
  BY DEF EntryWithin, RegWithin
<1>4. CASE IsAfter(f.path, e.path) /\ m = f
  BY <1>3, <1>4 DEF EntryWithin
<1>5. CASE IsAfter(e.path, f.path) /\ m = e
  BY <1>3, <1>5 DEF EntryWithin
<1> QED
  BY <1>1, <1>2, <1>4, <1>5, MergeEntriesIs

LEMMA MergeIsLeast ==
    ASSUME NEW e \in Entries, NEW f \in Entries, NEW g \in Entries,
           EntryWithin(e, g), EntryWithin(f, g)
    PROVE  EntryWithin(MergeEntries(e, f), g)
<1> DEFINE m == MergeEntries(e, f)
<1>0. e.path \in Paths /\ f.path \in Paths /\ g.path \in Paths
  BY EntryFacts
<1>1. CASE /\ e.path = f.path /\ e.live /\ f.live /\ m.path = e.path /\ m.live
           /\ \A k \in Keys : Reg(m, k) = Latest(Reg(e, k), Reg(f, k))
  BY <1>1 DEF EntryWithin, Latest
<1>2. CASE e.path = f.path /\ ~ (e.live /\ f.live) /\ m = Removed(e)
  <2>1. m.path = e.path /\ ~ m.live
    BY <1>2, RemovedFacts
  <2> QED
    BY <1>0, <1>2, <2>1, AfterIsStrict DEF EntryWithin
<1> QED
  BY <1>1, <1>2, MergeEntriesIs

LEMMA SameItemsSymmetric ==
    ASSUME NEW e, NEW f, SameItems(e, f)
    PROVE  SameItems(f, e)
BY DEF SameItems

\* A merge holds nothing but what one of the two held.
LEMMA MergeEntriesKeeps ==
    ASSUME NEW e \in Entries, NEW f \in Entries, NEW g \in Entries, NEW m, m = MergeEntries(e, f)
    PROVE  /\ IsBare(e) /\ IsBare(f) => IsBare(m)
           /\ SameItems(e, g) /\ SameItems(f, g) => SameItems(m, g)
           /\ \A c \in Clients : IsKnownTo(c, e, g) /\ IsKnownTo(c, f, g) => IsKnownTo(c, m, g)
<1>1. CASE /\ e.path = f.path /\ e.live /\ f.live /\ m.path = e.path /\ m.live
           /\ \A k \in Keys : Reg(m, k) = Latest(Reg(e, k), Reg(f, k))
  <2>1. \A k \in Keys : Reg(m, k) = Reg(e, k) \/ Reg(m, k) = Reg(f, k)
    BY <1>1 DEF Latest
  <2>2. IsBare(m)
    BY <1>1 DEF IsBare
  <2>3. SameItems(e, g) /\ SameItems(f, g) => SameItems(m, g)
    BY <1>1, <2>1 DEF SameItems
  <2>4. \A c \in Clients : IsKnownTo(c, e, g) /\ IsKnownTo(c, f, g) => IsKnownTo(c, m, g)
    BY <1>1, <2>1 DEF IsKnownTo
  <2> QED
    BY <2>2, <2>3, <2>4
<1>2. CASE e.path = f.path /\ ~ (e.live /\ f.live) /\ m = Removed(e)
  <2>1. m.path = e.path /\ ~ m.live /\ m = Removed(m)
    BY <1>2, RemovedFacts
  <2> QED
    BY <1>2, <2>1 DEF IsBare, SameItems, IsKnownTo
<1>3. CASE m = e \/ m = f
  BY <1>3
<1> QED
  BY <1>1, <1>2, <1>3, MergeEntriesIs

\* Where a path names one item, the merge is a join: neither order nor grouping
\* nor repetition makes a difference.
LEMMA MergeIsAJoin ==
    ASSUME NEW e \in Entries, NEW f \in Entries, NEW g \in Entries,
           IsBare(e), IsBare(f), IsBare(g), SameItems(e, f), SameItems(e, g), SameItems(f, g)
    PROVE  /\ MergeEntries(e, e) = e
           /\ MergeEntries(e, f) = MergeEntries(f, e)
           /\ MergeEntries(MergeEntries(e, f), g) = MergeEntries(e, MergeEntries(f, g))
<1>1. ASSUME NEW x \in Entries PROVE EntryWithin(x, x) /\ SameItems(x, x)
  BY DEF EntryWithin, RegWithin, SameItems
<1>2. ASSUME NEW x \in Entries, NEW y \in Entries, IsBare(x), IsBare(y), SameItems(x, y)
      PROVE  /\ MergeEntries(x, y) \in Entries /\ IsBare(MergeEntries(x, y))
             /\ EntryWithin(x, MergeEntries(x, y)) /\ EntryWithin(y, MergeEntries(x, y))
  BY <1>2, MergeEntriesType, MergeEntriesKeeps, MergeIsWithin
<1>3. MergeEntries(e, e) = e
  <2>1. EntryWithin(MergeEntries(e, e), e)
    BY <1>1, MergeIsLeast
  <2> QED
    BY <1>1, <1>2, <2>1, EntryWithinAntisymmetric
<1>4. MergeEntries(e, f) = MergeEntries(f, e)
  <2>1. SameItems(f, e)
    BY SameItemsSymmetric
  <2>2. /\ EntryWithin(MergeEntries(e, f), MergeEntries(f, e))
        /\ EntryWithin(MergeEntries(f, e), MergeEntries(e, f))
    BY <1>2, <2>1, MergeIsLeast
  <2> QED
    BY <1>2, <2>1, <2>2, EntryWithinAntisymmetric
<1>5. MergeEntries(MergeEntries(e, f), g) = MergeEntries(e, MergeEntries(f, g))
  <2> DEFINE x == MergeEntries(e, f)
             y == MergeEntries(f, g)
             l == MergeEntries(x, g)
             r == MergeEntries(e, y)
  <2>1. /\ x \in Entries /\ IsBare(x) /\ EntryWithin(e, x) /\ EntryWithin(f, x)
        /\ y \in Entries /\ IsBare(y) /\ EntryWithin(f, y) /\ EntryWithin(g, y)
    BY <1>2
  <2>2. SameItems(x, g) /\ SameItems(e, y)
    <3>1. SameItems(f, e) /\ SameItems(g, e)
      BY SameItemsSymmetric
    <3>2. SameItems(x, g) /\ SameItems(y, e)
      BY <3>1, MergeEntriesKeeps
    <3> QED
      BY <3>2, SameItemsSymmetric
  <2>3. \A a, b, c \in Entries : EntryWithin(a, b) /\ EntryWithin(b, c) => EntryWithin(a, c)
    BY EntryWithinTransitive
  <2>4. \A a, b, c \in Entries : EntryWithin(a, c) /\ EntryWithin(b, c) => EntryWithin(MergeEntries(a, b), c)
    BY MergeIsLeast
  <2> HIDE DEF x, y
  <2>5. /\ l \in Entries /\ IsBare(l) /\ EntryWithin(x, l) /\ EntryWithin(g, l)
        /\ r \in Entries /\ IsBare(r) /\ EntryWithin(e, r) /\ EntryWithin(y, r)
    BY <1>2, <2>1, <2>2
  <2> HIDE DEF l, r
  <2>6. EntryWithin(e, l) /\ EntryWithin(f, l) /\ EntryWithin(f, r) /\ EntryWithin(g, r)
    BY <2>1, <2>3, <2>5
  <2>7. EntryWithin(y, l) /\ EntryWithin(x, r)
    BY <2>4, <2>5, <2>6 DEF x, y
  <2>8. EntryWithin(r, l) /\ EntryWithin(l, r)
    BY <2>1, <2>4, <2>5, <2>6, <2>7 DEF l, r
  <2>9. l = r
    BY <2>5, <2>8, EntryWithinAntisymmetric
  <2> QED
    BY <2>9 DEF l, r, x, y
<1> QED
  BY <1>3, <1>4, <1>5

\* What a client knows it does not forget.
LEMMA KnownStaysKnown ==
    ASSUME NEW c \in Clients, NEW e \in Entries, NEW g \in Entries, NEW h \in Entries,
           IsKnownTo(c, e, g), EntryWithin(g, h)
    PROVE  IsKnownTo(c, e, h)
<1>1. e.path \in Paths /\ g.path \in Paths /\ h.path \in Paths
  BY EntryFacts
<1>2. e.path # <<>> /\ Last(e.path) = c => IsAtOrAfter(h.path, e.path)
  BY <1>1, AfterIsTransitive DEF IsKnownTo, EntryWithin, IsAtOrAfter
<1>3. ASSUME NEW k \in Keys, e.live, Reg(e, k).path # <<>>, Last(Reg(e, k).path) = c
      PROVE  \/ IsAfter(h.path, e.path)
             \/ h.path = e.path /\ (h.live => IsAtOrAfter(Reg(h, k).path, Reg(e, k).path))
  <2>1. \/ IsAfter(g.path, e.path)
        \/ g.path = e.path /\ (g.live => IsAtOrAfter(Reg(g, k).path, Reg(e, k).path))
    BY <1>3 DEF IsKnownTo
  <2>2. CASE IsAfter(g.path, e.path) \/ IsAfter(h.path, g.path)
    BY <1>1, <2>1, <2>2, AfterIsTransitive DEF EntryWithin
  <2>3. CASE /\ g.path = e.path /\ (g.live => IsAtOrAfter(Reg(g, k).path, Reg(e, k).path))
             /\ h.path = g.path /\ (h.live => g.live /\ RegWithin(Reg(g, k), Reg(h, k)))
    <3>1. Reg(e, k).path \in Paths /\ Reg(g, k).path \in Paths /\ Reg(h, k).path \in Paths
      BY EntryFacts
    <3>2. h.live => IsAtOrAfter(Reg(h, k).path, Reg(e, k).path)
      BY <2>3, <3>1, AfterIsTransitive DEF RegWithin, IsAtOrAfter
    <3> QED
      BY <2>3, <3>2
  <2> QED
    BY <2>1, <2>2, <2>3 DEF EntryWithin
<1> QED
  BY <1>2, <1>3 DEF IsKnownTo

-----------------------------------------------------------------------------
(* Transactions                                                            *)

\* What a transaction of client c may do to a register and to an entry.
RegGrown(c, r, t) ==
    t = r \/ (t.path # <<>> /\ Last(t.path) = c /\ IsAfter(t.path, r.path))

EntryGrown(c, e, f) ==
    \/ f = e
    \/ e.live /\ f = Removed(e)
    \/ /\ f.path # <<>> /\ Last(f.path) = c /\ IsAfter(f.path, e.path) /\ f.live
       /\ \A k \in Keys : RegGrown(c, Unset, Reg(f, k))
    \/ /\ e.live /\ f.live /\ f.path = e.path
       /\ \A k \in Keys : RegGrown(c, Reg(e, k), Reg(f, k))

LEMMA GrownIsWithin ==
    ASSUME NEW c \in Clients, NEW e \in Entries, NEW f \in Entries, EntryGrown(c, e, f)
    PROVE  EntryWithin(e, f) /\ (IsBare(e) => IsBare(f))
<1>1. CASE f = e
  BY <1>1 DEF EntryWithin, RegWithin
<1>2. CASE e.live /\ f = Removed(e)
  BY <1>2, RemovedFacts DEF EntryWithin, IsBare
<1>3. CASE IsAfter(f.path, e.path) /\ f.live
  BY <1>3 DEF EntryWithin, IsBare
<1>4. CASE /\ e.live /\ f.live /\ f.path = e.path
           /\ \A k \in Keys : RegGrown(c, Reg(e, k), Reg(f, k))
  BY <1>4 DEF EntryWithin, IsBare, RegGrown, RegWithin
<1> QED
  BY <1>1, <1>2, <1>3, <1>4 DEF EntryGrown

\* What client c writes comes after all that there is of it anywhere.
LEMMA GrownIsNew ==
    ASSUME NEW c \in Clients, NEW e \in Entries, NEW f \in Entries, NEW g \in Entries,
           EntryGrown(c, e, f), SameItems(e, g), IsKnownTo(c, g, e)
    PROVE  SameItems(f, g)
<1>0. e.path \in Paths /\ f.path \in Paths /\ g.path \in Paths
  BY EntryFacts
<1>1. CASE f = e
  BY <1>1
<1>2. CASE f = Removed(e)
  BY <1>2, RemovedFacts DEF SameItems
<1>3. CASE f.path # <<>> /\ Last(f.path) = c /\ IsAfter(f.path, e.path)
  <2>1. f.path # g.path
    <3> SUFFICES ASSUME f.path = g.path PROVE FALSE
      OBVIOUS
    <3>1. IsAtOrAfter(e.path, f.path)
      BY <1>3 DEF IsKnownTo
    <3> QED
      BY <1>0, <1>3, <3>1, AfterIsStrict, AfterIsTransitive DEF IsAtOrAfter
  <2> QED
    BY <2>1 DEF SameItems
<1>4. CASE /\ e.live /\ f.live /\ f.path = e.path
           /\ \A k \in Keys : RegGrown(c, Reg(e, k), Reg(f, k))
  <2> SUFFICES ASSUME g.path = e.path, g.live, NEW k \in Keys, Reg(f, k).path = Reg(g, k).path
               PROVE  Reg(f, k) = Reg(g, k)
    BY <1>4 DEF SameItems
  <2>1. Reg(e, k).path \in Paths /\ Reg(g, k).path \in Paths
    BY EntryFacts
  <2>2. CASE Reg(f, k) = Reg(e, k)
    BY <1>4, <2>2 DEF SameItems
  <2>3. CASE Reg(f, k).path # <<>> /\ Last(Reg(f, k).path) = c /\ IsAfter(Reg(f, k).path, Reg(e, k).path)
    <3>1. IsAtOrAfter(Reg(e, k).path, Reg(g, k).path)
      BY <1>0, <1>4, <2>3, AfterIsStrict DEF IsKnownTo
    <3> QED
      BY <2>1, <2>3, <3>1, AfterIsStrict, AfterIsTransitive DEF IsAtOrAfter
  <2> QED
    BY <1>4, <2>2, <2>3 DEF RegGrown
<1> QED
  BY <1>1, <1>2, <1>3, <1>4 DEF EntryGrown

\* It is not of another client.
LEMMA GrownIsItsOwn ==
    ASSUME NEW c \in Clients, NEW b \in Clients, b # c,
           NEW e \in Entries, NEW f \in Entries, NEW g,
           EntryGrown(c, e, f), IsKnownTo(b, e, g)
    PROVE  IsKnownTo(b, f, g)
<1>1. CASE f = e
  BY <1>1
<1>2. CASE f = Removed(e)
  BY <1>2, RemovedFacts DEF IsKnownTo
<1>3. CASE /\ f.path # <<>> /\ Last(f.path) = c
           /\ \A k \in Keys : RegGrown(c, Unset, Reg(f, k))
  <2>1. Unset.path = <<>>
    BY DEF Unset, Register
  <2>2. \A k \in Keys : Reg(f, k).path = <<>> \/ Last(Reg(f, k).path) = c
    BY <1>3, <2>1 DEF RegGrown
  <2> QED
    BY <1>3, <2>2 DEF IsKnownTo
<1>4. CASE /\ e.live /\ f.live /\ f.path = e.path
           /\ \A k \in Keys : RegGrown(c, Reg(e, k), Reg(f, k))
  <2>1. \A k \in Keys : Reg(f, k) = Reg(e, k) \/ Last(Reg(f, k).path) = c
    BY <1>4 DEF RegGrown
  <2> QED
    BY <1>4, <2>1 DEF IsKnownTo
<1> QED
  BY <1>1, <1>2, <1>3, <1>4 DEF EntryGrown

LEMMA KnownItself ==
    ASSUME NEW c \in Clients, NEW e
    PROVE  IsKnownTo(c, e, e)
BY DEF IsKnownTo, IsAtOrAfter

-----------------------------------------------------------------------------
(* Documents that clients exchange                                         *)

\* D is the document of each client, C what each had committed.
Known(D, C) == UNION {C[c] \cup {D[c]} : c \in Clients}

\* What each client had committed when it had made as many transactions as d
\* has of it.
CommitsWithin(C, d, x) ==
    \A c \in Clients : \E u \in C[c] : u.seen[c] = d.seen[c] /\ DocWithin(u, x)

\* The commits of a client follow one another, up to its document.
CommitsFollow(D, C) ==
    \A c \in Clients : \A u \in C[c] :
        /\ u.seen[c] <= D[c].seen[c] /\ DocWithin(u, D[c])
        /\ \A v \in C[c] : u.seen[c] <= v.seen[c] => DocWithin(u, v)

\* A document is the least that has the commits which it has seen.
MadeOfCommits(D, C) ==
    \A d \in Known(D, C) :
        /\ CommitsWithin(C, d, d)
        /\ \A x \in Docs : CommitsWithin(C, d, x) => DocWithin(d, x)

\* An item is the same in all documents, and its client has it.
ItemsAgree(D, C) ==
    \A d \in Known(D, C) : \A n \in Ids :
        /\ \A e \in Known(D, C) : SameItems(d.map[n], e.map[n])
        /\ \A c \in Clients : IsKnownTo(c, d.map[n], D[c].map[n])

Agrees(D, C) ==
    /\ D \in [Clients -> Docs] /\ C \in [Clients -> SUBSET Docs]
    /\ CommitsFollow(D, C)
    /\ MadeOfCommits(D, C)
    /\ ItemsAgree(D, C)

LEMMA DocsFacts ==
    ASSUME NEW d \in Docs
    PROVE  /\ d \in Documents /\ d.map \in [Ids -> Entries] /\ d.seen \in [Clients -> Nat]
           /\ \A n \in Ids : d.map[n] \in Entries /\ IsBare(d.map[n])
           /\ DocWithin(d, d)
<1>1. d \in Documents /\ d.map \in [Ids -> Entries] /\ d.seen \in [Clients -> Nat]
  BY DEF Docs, Documents
<1>2. \A n \in Ids : d.map[n] \in Entries /\ IsBare(d.map[n])
  BY <1>1 DEF Docs
<1>3. DocWithin(d, d)
  BY DEF DocWithin, EntryWithin, RegWithin
<1> QED
  BY <1>1, <1>2, <1>3

LEMMA DocWithinTransitive ==
    ASSUME NEW a \in Docs, NEW b \in Docs, NEW d \in Docs, DocWithin(a, b), DocWithin(b, d)
    PROVE  DocWithin(a, d)
BY DocsFacts, EntryWithinTransitive DEF DocWithin

\* Of documents that are within each other the maps are the same.
LEMMA DocWithinAntisymmetric ==
    ASSUME NEW a \in Docs, NEW b \in Docs, DocWithin(a, b), DocWithin(b, a)
    PROVE  a.map = b.map
<1>1. \A n \in Ids : a.map[n] = b.map[n]
  <2> SUFFICES ASSUME NEW n \in Ids PROVE a.map[n] = b.map[n]
    OBVIOUS
  <2>1. /\ a.map[n] \in Entries /\ b.map[n] \in Entries
        /\ EntryWithin(a.map[n], b.map[n]) /\ EntryWithin(b.map[n], a.map[n])
    BY DocsFacts DEF DocWithin
  <2>2. IsBare(a.map[n]) /\ IsBare(b.map[n])
    BY DocsFacts
  <2> HIDE DEF Docs
  <2> QED
    BY <2>1, <2>2, EntryWithinAntisymmetric
<1>2. a.map \in [Ids -> Entries] /\ b.map \in [Ids -> Entries]
  BY DocsFacts
<1> QED
  BY <1>1, <1>2

\* Documents that have seen the same are the same.
LEMMA SameSeenSameDoc ==
    ASSUME NEW D, NEW C, Agrees(D, C),
           NEW d \in Known(D, C), NEW e \in Known(D, C), d.seen = e.seen
    PROVE  d = e
<1>1. d \in Docs /\ e \in Docs
  BY DEF Agrees, Known
<1>2. CommitsWithin(C, d, e) /\ CommitsWithin(C, e, d)
  BY DEF Agrees, MadeOfCommits, CommitsWithin
<1>3. DocWithin(d, e) /\ DocWithin(e, d)
  BY <1>1, <1>2 DEF Agrees, MadeOfCommits
<1>4. d.map = e.map
  BY <1>1, <1>3, DocWithinAntisymmetric
<1>5. d = [map |-> d.map, seen |-> d.seen] /\ e = [map |-> e.map, seen |-> e.seen]
  BY <1>1 DEF Docs, Documents
<1> QED
  BY <1>4, <1>5

\* The document that a transaction of client c leaves.
Committed(c, d, map) == [map |-> map, seen |-> [d.seen EXCEPT ![c] = @ + 1]]

\* A client's own transactions keep the documents in agreement.
LEMMA CommitAgrees ==
    ASSUME NEW D, NEW C, Agrees(D, C), NEW c \in Clients, NEW map \in MapsOfEntries,
           \A n \in Ids : EntryGrown(c, D[c].map[n], map[n])
    PROVE  LET d == Committed(c, D[c], map) IN
           Agrees([D EXCEPT ![c] = d], [C EXCEPT ![c] = @ \cup {d}])
<1> DEFINE d  == Committed(c, D[c], map)
           D2 == [D EXCEPT ![c] = d]
           C2 == [C EXCEPT ![c] = C[c] \cup {d}]
<1>1. /\ D \in [Clients -> Docs] /\ C \in [Clients -> SUBSET Docs]
      /\ CommitsFollow(D, C) /\ MadeOfCommits(D, C) /\ ItemsAgree(D, C)
      /\ D[c] \in Docs /\ D[c].seen \in [Clients -> Nat]
  BY DocsFacts DEF Agrees
<1>2. d.map = map /\ d.seen = [D[c].seen EXCEPT ![c] = D[c].seen[c] + 1]
  BY DEF Committed
<1>3. /\ d.seen \in [Clients -> Nat] /\ d.seen[c] = D[c].seen[c] + 1 /\ D[c].seen[c] \in Nat
      /\ \A i \in Clients \ {c} : d.seen[i] = D[c].seen[i]
  BY <1>1, <1>2
<1>4. \A n \in Ids : /\ D[c].map[n] \in Entries /\ map[n] \in Entries
                     /\ EntryWithin(D[c].map[n], map[n]) /\ IsBare(map[n])
  <2>1. \A n \in Ids : D[c].map[n] \in Entries /\ IsBare(D[c].map[n]) /\ map[n] \in Entries
    BY <1>1, DocsFacts DEF MapsOfEntries
  <2> QED
    BY <2>1, GrownIsWithin
<1>5. d \in Docs
  <2>1. d = [map |-> map, seen |-> d.seen]
    BY <1>2 DEF Committed
  <2> HIDE DEF d
  <2>2. d \in Documents
    BY <1>3, <2>1 DEF MapsOfEntries, Documents
  <2> QED
    BY <1>2, <1>4, <2>2 DEF Docs
<1>6. DocWithin(D[c], d) /\ DocWithin(d, d)
  BY <1>2, <1>4, <1>5, DocsFacts DEF DocWithin
<1> HIDE DEF d
<1>7. /\ D2 \in [Clients -> Docs] /\ C2 \in [Clients -> SUBSET Docs]
      /\ D2[c] = d /\ C2[c] = C[c] \cup {d}
      /\ \A i \in Clients \ {c} : D2[i] = D[i] /\ C2[i] = C[i]
  BY <1>1, <1>5
<1> HIDE DEF D2, C2
<1>8. \A e \in Known(D2, C2) : e = d \/ e \in Known(D, C)
  BY <1>7 DEF Known
<1>9. \A i \in Clients : D[i] \in Known(D, C) /\ C[i] \subseteq Known(D, C)
  BY DEF Known
<1>10. \A u \in Known(D, C) : u \in Docs
  BY <1>1 DEF Known
<1>11. \A e \in Known(D, C) : e.seen[c] <= D[c].seen[c] /\ e.seen[c] \in Nat
  <2> SUFFICES ASSUME NEW e \in Known(D, C)
               PROVE  e.seen[c] <= D[c].seen[c] /\ e.seen[c] \in Nat
    OBVIOUS
  <2>1. PICK u \in C[c] : u.seen[c] = e.seen[c]
    BY <1>1 DEF MadeOfCommits, CommitsWithin
  <2>2. u.seen[c] <= D[c].seen[c]
    BY <1>1 DEF CommitsFollow
  <2> QED
    BY <1>10, <2>1, <2>2, DocsFacts
<1>12. CommitsFollow(D2, C2)
  <2>1. ASSUME NEW u \in C[c]
        PROVE  /\ u.seen[c] <= d.seen[c] /\ ~ d.seen[c] <= u.seen[c]
               /\ DocWithin(u, d)
               /\ \A v \in C[c] : u.seen[c] <= v.seen[c] => DocWithin(u, v)
    <3>1. u \in Docs /\ DocWithin(u, D[c]) /\ u \in Known(D, C)
      BY <1>1, <1>9 DEF CommitsFollow
    <3>2. DocWithin(u, d)
      BY <1>1, <1>5, <1>6, <3>1, DocWithinTransitive
    <3>3. u.seen[c] <= d.seen[c] /\ ~ d.seen[c] <= u.seen[c]
      BY <1>3, <1>11, <3>1
    <3> QED
      BY <1>1, <3>2, <3>3 DEF CommitsFollow
  <2>2. \A u \in C2[c] :
          /\ u.seen[c] <= D2[c].seen[c] /\ DocWithin(u, D2[c])
          /\ \A v \in C2[c] : u.seen[c] <= v.seen[c] => DocWithin(u, v)
    BY <1>3, <1>6, <1>7, <2>1
  <2>3. \A i \in Clients \ {c} : \A u \in C2[i] :
          /\ u.seen[i] <= D2[i].seen[i] /\ DocWithin(u, D2[i])
          /\ \A v \in C2[i] : u.seen[i] <= v.seen[i] => DocWithin(u, v)
    BY <1>1, <1>7 DEF CommitsFollow
  <2> QED
    BY <2>2, <2>3 DEF CommitsFollow
<1>13. MadeOfCommits(D2, C2)
  <2>1. ASSUME NEW e \in Known(D, C)
        PROVE  /\ CommitsWithin(C2, e, e)
               /\ \A x \in Docs : CommitsWithin(C2, e, x) => DocWithin(e, x)
    <3>1. CommitsWithin(C2, e, e)
      <4>1. CommitsWithin(C, e, e)
        BY <1>1 DEF MadeOfCommits
      <4> QED
        BY <1>7, <4>1 DEF CommitsWithin
    <3>2. d.seen[c] # e.seen[c]
      BY <1>3, <1>11
    <3>3. ASSUME NEW x \in Docs, CommitsWithin(C2, e, x)
          PROVE  DocWithin(e, x)
      <4>1. CommitsWithin(C, e, x)
        BY <1>7, <3>2, <3>3 DEF CommitsWithin
      <4> QED
        BY <1>1, <4>1 DEF MadeOfCommits
    <3> QED
      BY <3>1, <3>3
  <2>2. CommitsWithin(C2, d, d)
    <3>1. ASSUME NEW i \in Clients \ {c}
          PROVE  \E u \in C2[i] : u.seen[i] = d.seen[i] /\ DocWithin(u, d)
      <4>1. PICK u \in C[i] : u.seen[i] = D[c].seen[i] /\ DocWithin(u, D[c])
        BY <1>1, <1>9 DEF MadeOfCommits, CommitsWithin
      <4>2. u \in Docs
        BY <1>1
      <4>3. DocWithin(u, d)
        BY <1>1, <1>5, <1>6, <4>1, <4>2, DocWithinTransitive
      <4> QED
        BY <1>3, <1>7, <4>1, <4>3
    <3>2. \E u \in C2[c] : u.seen[c] = d.seen[c] /\ DocWithin(u, d)
      BY <1>6, <1>7
    <3> QED
      BY <3>1, <3>2 DEF CommitsWithin
  <2>3. ASSUME NEW x \in Docs, CommitsWithin(C2, d, x)
        PROVE  DocWithin(d, x)
    <3>1. PICK u \in C2[c] : u.seen[c] = d.seen[c] /\ DocWithin(u, x)
      BY <2>3 DEF CommitsWithin
    <3>2. u \notin C[c]
      BY <1>3, <1>9, <1>11, <3>1
    <3> QED
      BY <1>7, <3>1, <3>2
  <2> QED
    BY <1>8, <2>1, <2>2, <2>3 DEF MadeOfCommits
<1>14. ItemsAgree(D2, C2)
  <2>1. ASSUME NEW e \in Known(D, C), NEW n \in Ids
        PROVE  /\ SameItems(d.map[n], e.map[n]) /\ SameItems(e.map[n], d.map[n])
               /\ \A i \in Clients : IsKnownTo(i, e.map[n], D2[i].map[n])
    <3> DEFINE x == D[c].map[n]
    <3>1. /\ x \in Entries /\ map[n] \in Entries /\ e.map[n] \in Entries
          /\ EntryGrown(c, x, map[n]) /\ EntryWithin(x, map[n])
      BY <1>4, <1>10, DocsFacts
    <3>2. SameItems(x, e.map[n]) /\ \A i \in Clients : IsKnownTo(i, e.map[n], D[i].map[n])
      BY <1>1, <1>9 DEF ItemsAgree
    <3> HIDE DEF x
    <3>3. IsKnownTo(c, e.map[n], x)
      BY <3>2 DEF x
    <3>4. SameItems(map[n], e.map[n])
      BY <3>1, <3>2, <3>3, GrownIsNew
    <3>5. IsKnownTo(c, e.map[n], map[n])
      BY <3>1, <3>3, KnownStaysKnown
    <3> QED
      BY <1>2, <1>7, <3>2, <3>4, <3>5, SameItemsSymmetric
  <2>2. ASSUME NEW n \in Ids
        PROVE  /\ SameItems(d.map[n], d.map[n])
               /\ \A i \in Clients : IsKnownTo(i, d.map[n], D2[i].map[n])
    <3>1. SameItems(d.map[n], d.map[n])
      BY DEF SameItems
    <3>2. IsKnownTo(c, d.map[n], D2[c].map[n])
      BY <1>7, KnownItself
    <3>3. ASSUME NEW i \in Clients \ {c}
          PROVE  IsKnownTo(i, d.map[n], D2[i].map[n])
      <4>1. IsKnownTo(i, D[c].map[n], D[i].map[n])
        BY <1>1, <1>9 DEF ItemsAgree
      <4>2. IsKnownTo(i, map[n], D[i].map[n])
        BY <1>4, <4>1, GrownIsItsOwn
      <4> QED
        BY <1>2, <1>7, <4>2
    <3> QED
      BY <3>1, <3>2, <3>3
  <2>3. ASSUME NEW x \in Known(D2, C2), NEW n \in Ids
        PROVE  /\ \A y \in Known(D2, C2) : SameItems(x.map[n], y.map[n])
               /\ \A i \in Clients : IsKnownTo(i, x.map[n], D2[i].map[n])
    <3>1. CASE x = d
      BY <1>8, <2>1, <2>2, <3>1
    <3>2. CASE x \in Known(D, C)
      <4>1. \A y \in Known(D, C) : SameItems(x.map[n], y.map[n])
        BY <1>1, <3>2 DEF ItemsAgree
      <4> QED
        BY <1>8, <2>1, <3>2, <4>1
    <3> QED
      BY <1>8, <3>1, <3>2
  <2> QED
    BY <2>3 DEF ItemsAgree
<1>15. Agrees(D2, C2)
  BY <1>7, <1>12, <1>13, <1>14 DEF Agrees
<1> QED
  BY <1>15 DEF D2, C2, d

\* So does what a client gets of another's.
LEMMA ReceiveAgrees ==
    ASSUME NEW D, NEW C, Agrees(D, C), NEW c \in Clients, NEW a \in Known(D, C)
    PROVE  Agrees([D EXCEPT ![c] = Merge(@, a)], C)
<1> DEFINE o  == D[c]
           d  == Merge(o, a)
           D2 == [D EXCEPT ![c] = d]
<1>1. /\ D \in [Clients -> Docs] /\ C \in [Clients -> SUBSET Docs]
      /\ CommitsFollow(D, C) /\ MadeOfCommits(D, C) /\ ItemsAgree(D, C)
      /\ \A u \in Known(D, C) : u \in Docs
  BY DEF Agrees, Known
<1>2. o \in Known(D, C) /\ o \in Docs /\ a \in Docs
  BY <1>1 DEF Known
<1> HIDE DEF o
<1>3. /\ \A n \in Ids : d.map[n] = MergeEntries(o.map[n], a.map[n])
      /\ \A i \in Clients : d.seen[i] = IF o.seen[i] < a.seen[i] THEN a.seen[i] ELSE o.seen[i]
  BY DEF Merge
<1>4. d \in Documents
  BY <1>2, DocsFacts, MergeType
<1> HIDE DEF d
<1>5. ASSUME NEW n \in Ids
      PROVE  /\ o.map[n] \in Entries /\ a.map[n] \in Entries /\ d.map[n] \in Entries
             /\ IsBare(d.map[n])
             /\ SameItems(o.map[n], a.map[n])
             /\ EntryWithin(o.map[n], d.map[n]) /\ EntryWithin(a.map[n], d.map[n])
  <2>1. /\ o.map[n] \in Entries /\ a.map[n] \in Entries
        /\ IsBare(o.map[n]) /\ IsBare(a.map[n])
    BY <1>2, DocsFacts
  <2>2. d.map[n] \in Entries
    BY <1>4 DEF Documents
  <2>3. IsBare(d.map[n])
    BY <1>3, <2>1, <2>2, MergeEntriesKeeps
  <2>4. SameItems(o.map[n], a.map[n])
    BY <1>1, <1>2 DEF ItemsAgree
  <2> QED
    BY <1>3, <2>1, <2>2, <2>3, <2>4, MergeIsWithin
<1>6. d \in Docs
  BY <1>4, <1>5 DEF Docs
<1>7. DocWithin(o, d) /\ DocWithin(a, d)
  BY <1>5 DEF DocWithin
<1>8. /\ D2 \in [Clients -> Docs] /\ D2[c] = d
      /\ \A i \in Clients \ {c} : D2[i] = D[i]
  BY <1>1, <1>6
<1> HIDE DEF D2
<1>9. \A e \in Known(D2, C) : e = d \/ e \in Known(D, C)
  BY <1>8 DEF Known
<1>10. \A e \in Known(D, C) : \A i \in Clients : e.seen[i] \in Nat
  BY <1>1, DocsFacts
<1>11. CommitsFollow(D2, C)
  <2>1. ASSUME NEW u \in C[c]
        PROVE  u.seen[c] <= D2[c].seen[c] /\ DocWithin(u, D2[c])
    <3>1. u \in Docs /\ u.seen[c] <= o.seen[c] /\ DocWithin(u, o) /\ u.seen[c] \in Nat
      <4>1. u \in Known(D, C)
        BY DEF Known
      <4> QED
        BY <1>1, <1>10, <4>1 DEF CommitsFollow, o
    <3>2. o.seen[c] \in Nat /\ a.seen[c] \in Nat
      BY <1>2, <1>10
    <3> QED
      BY <1>2, <1>3, <1>6, <1>7, <1>8, <3>1, <3>2, DocWithinTransitive
  <2> QED
    BY <1>1, <1>8, <2>1 DEF CommitsFollow
<1>12. MadeOfCommits(D2, C)
  <2>1. CommitsWithin(C, d, d)
    <3> SUFFICES ASSUME NEW i \in Clients
                 PROVE  \E u \in C[i] : u.seen[i] = d.seen[i] /\ DocWithin(u, d)
      BY DEF CommitsWithin
    <3>1. PICK u \in C[i] : u.seen[i] = o.seen[i] /\ DocWithin(u, o)
      BY <1>1, <1>2 DEF MadeOfCommits, CommitsWithin
    <3>2. PICK v \in C[i] : v.seen[i] = a.seen[i] /\ DocWithin(v, a)
      BY <1>1 DEF MadeOfCommits, CommitsWithin
    <3>3. u \in Docs /\ v \in Docs
      BY <1>1
    <3>4. DocWithin(u, d) /\ DocWithin(v, d)
      BY <1>2, <1>6, <1>7, <3>1, <3>2, <3>3, DocWithinTransitive
    <3> QED
      BY <1>3, <3>1, <3>2, <3>4
  <2>2. ASSUME NEW x \in Docs, CommitsWithin(C, d, x)
        PROVE  DocWithin(d, x)
    <3>1. ASSUME NEW e \in Known(D, C), e = o \/ e = a
          PROVE  DocWithin(e, x)
      <4>1. ASSUME NEW i \in Clients
            PROVE  \E u \in C[i] : u.seen[i] = e.seen[i] /\ DocWithin(u, x)
        <5>1. PICK u \in C[i] : u.seen[i] = e.seen[i] /\ DocWithin(u, e)
          BY <1>1 DEF MadeOfCommits, CommitsWithin
        <5>2. PICK v \in C[i] : v.seen[i] = d.seen[i] /\ DocWithin(v, x)
          BY <2>2 DEF CommitsWithin
        <5>3. u.seen[i] <= v.seen[i]
          BY <1>2, <1>3, <1>10, <3>1, <5>1, <5>2
        <5>4. DocWithin(u, v)
          BY <1>1, <5>3 DEF CommitsFollow
        <5>5. u \in Docs /\ v \in Docs
          BY <1>1
        <5> QED
          BY <5>1, <5>2, <5>4, <5>5, DocWithinTransitive
      <4>2. CommitsWithin(C, e, x)
        BY <4>1 DEF CommitsWithin
      <4> QED
        BY <1>1, <4>2 DEF MadeOfCommits
    <3>2. DocWithin(o, x) /\ DocWithin(a, x)
      BY <1>2, <3>1
    <3>3. \A n \in Ids : EntryWithin(d.map[n], x.map[n])
      <4> SUFFICES ASSUME NEW n \in Ids PROVE EntryWithin(d.map[n], x.map[n])
        OBVIOUS
      <4>1. x.map[n] \in Entries /\ EntryWithin(o.map[n], x.map[n]) /\ EntryWithin(a.map[n], x.map[n])
        BY <3>2, DocsFacts DEF DocWithin
      <4> QED
        BY <1>3, <1>5, <4>1, MergeIsLeast
    <3> QED
      BY <3>3 DEF DocWithin
  <2>3. \A e \in Known(D, C) : /\ CommitsWithin(C, e, e)
                              /\ \A x \in Docs : CommitsWithin(C, e, x) => DocWithin(e, x)
    BY <1>1 DEF MadeOfCommits
  <2> QED
    BY <1>9, <2>1, <2>2, <2>3 DEF MadeOfCommits
<1>13. ItemsAgree(D2, C)
  <2>1. ASSUME NEW e \in Known(D, C), NEW n \in Ids
        PROVE  /\ SameItems(d.map[n], e.map[n]) /\ SameItems(e.map[n], d.map[n])
               /\ \A i \in Clients : IsKnownTo(i, e.map[n], D2[i].map[n])
    <3>1. /\ SameItems(o.map[n], e.map[n]) /\ SameItems(a.map[n], e.map[n])
          /\ \A i \in Clients : IsKnownTo(i, e.map[n], D[i].map[n])
      BY <1>1, <1>2 DEF ItemsAgree
    <3>2. e.map[n] \in Entries
      BY <1>1, DocsFacts
    <3>3. SameItems(d.map[n], e.map[n])
      BY <1>3, <1>5, <3>1, <3>2, MergeEntriesKeeps
    <3>4. IsKnownTo(c, e.map[n], o.map[n])
      BY <3>1 DEF o
    <3>5. IsKnownTo(c, e.map[n], d.map[n])
      BY <1>5, <3>2, <3>4, KnownStaysKnown
    <3> QED
      BY <1>8, <3>1, <3>3, <3>5, SameItemsSymmetric
  <2>2. ASSUME NEW n \in Ids
        PROVE  /\ SameItems(d.map[n], d.map[n])
               /\ \A i \in Clients : IsKnownTo(i, d.map[n], D2[i].map[n])
    <3>1. SameItems(d.map[n], d.map[n])
      BY DEF SameItems
    <3>2. ASSUME NEW i \in Clients
          PROVE  IsKnownTo(i, d.map[n], D2[i].map[n])
      <4>1. IsKnownTo(i, o.map[n], D2[i].map[n]) /\ IsKnownTo(i, a.map[n], D2[i].map[n])
        BY <1>2, <2>1
      <4>2. D2[i].map[n] \in Entries
        BY <1>8, DocsFacts
      <4> QED
        BY <1>3, <1>5, <4>1, <4>2, MergeEntriesKeeps
    <3> QED
      BY <3>1, <3>2
  <2>3. ASSUME NEW x \in Known(D2, C), NEW n \in Ids
        PROVE  /\ \A y \in Known(D2, C) : SameItems(x.map[n], y.map[n])
               /\ \A i \in Clients : IsKnownTo(i, x.map[n], D2[i].map[n])
    <3>1. CASE x = d
      BY <1>9, <2>1, <2>2, <3>1
    <3>2. CASE x \in Known(D, C)
      <4>1. \A y \in Known(D, C) : SameItems(x.map[n], y.map[n])
        BY <1>1, <3>2 DEF ItemsAgree
      <4> QED
        BY <1>9, <2>1, <3>2, <4>1
    <3> QED
      BY <1>9, <3>1, <3>2
  <2> QED
    BY <2>3 DEF ItemsAgree
<1>14. Agrees(D2, C)
  BY <1>1, <1>8, <1>11, <1>12, <1>13 DEF Agrees
<1> QED
  BY <1>14 DEF D2, d, o

\* Documents that nothing was done to agree.
LEMMA SameDocsAgree ==
    ASSUME NEW d \in Docs, NEW D, D = [c \in Clients |-> d], NEW C, C = [c \in Clients |-> {d}]
    PROVE  Agrees(D, C)
<1>1. DocWithin(d, d) /\ d.seen \in [Clients -> Nat]
  BY DocsFacts
<1>2. D \in [Clients -> Docs] /\ C \in [Clients -> SUBSET Docs]
      /\ \A c \in Clients : D[c] = d /\ C[c] = {d}
  OBVIOUS
<1>3. \A e \in Known(D, C) : e = d
  BY DEF Known
<1>4. CommitsFollow(D, C)
  BY <1>1, <1>2 DEF CommitsFollow
<1>5. MadeOfCommits(D, C)
  <2>1. CommitsWithin(C, d, d)
    BY <1>1, <1>2 DEF CommitsWithin
  <2>2. \A x \in Docs : CommitsWithin(C, d, x) => DocWithin(d, x)
    BY <1>2, InitialAssumption DEF CommitsWithin
  <2> QED
    BY <1>3, <2>1, <2>2 DEF MadeOfCommits
<1>6. ItemsAgree(D, C)
  <2>1. \A n \in Ids : SameItems(d.map[n], d.map[n])
    BY DEF SameItems
  <2>2. \A n \in Ids : \A c \in Clients : IsKnownTo(c, d.map[n], d.map[n])
    BY KnownItself
  <2> QED
    BY <1>2, <1>3, <2>1, <2>2 DEF ItemsAgree
<1> QED
  BY <1>2, <1>4, <1>5, <1>6 DEF Agrees

-----------------------------------------------------------------------------
(* What the operations write to the map                                    *)

MapGrown(c, a, b) == \A n \in Ids : EntryGrown(c, a[n], b[n])

\* Client c wrote to containers that are there, and to nothing else.
MapWritten(c, a, b) ==
    \A n \in Ids :
        IF a[n].live
        THEN /\ b[n].live /\ b[n].path = a[n].path
             /\ \A k \in Keys : RegGrown(c, Reg(a[n], k), Reg(b[n], k))
        ELSE b[n] = a[n]

\* Client c does nothing, or a transaction, to get from a document to the next.
Transacts(c, s, w) ==
    \/ w.doc = s.doc /\ w.commits = s.commits
    \/ \E map \in MapsOfEntries :
        /\ MapGrown(c, s.doc.map, map)
        /\ w.doc = Committed(c, s.doc, map) /\ w.commits = s.commits \cup {w.doc}

LEMMA MapWrittenIsGrown ==
    ASSUME NEW c \in Clients, NEW a, NEW b, MapWritten(c, a, b)
    PROVE  MapGrown(c, a, b)
BY DEF MapWritten, MapGrown, EntryGrown

LEMMA InsertGrows ==
    ASSUME NEW r \in Registers, NEW c \in Clients, NEW v
    PROVE  RegGrown(c, r, Insert(r, c, v))
BY AppendIsAfter DEF Insert, Register, Registers, RegGrown, Paths

LEMMA RegGrownTransitive ==
    ASSUME NEW c, NEW r \in Registers, NEW t \in Registers, NEW u \in Registers,
           RegGrown(c, r, t), RegGrown(c, t, u)
    PROVE  RegGrown(c, r, u)
BY AfterIsTransitive DEF RegGrown, Registers, Paths

\* The edge to a parent, or the edge and the index, of an entry are written.
LEMMA EntryWritten ==
    ASSUME NEW c \in Clients, NEW e \in Entries, NEW p \in Nodes, NEW v, NEW fi, NEW f,
           f.em = [e.em EXCEPT ![p] = Insert(e.em[p], c, v)],
           f.fi = e.fi \/ f.fi = Insert(e.fi, c, fi)
    PROVE  \A k \in Keys : RegGrown(c, Reg(e, k), Reg(f, k))
<1>1. e.em \in [Nodes -> Registers] /\ e.fi \in Registers
  BY DEF Entries
<1>2. RegGrown(c, e.fi, f.fi)
  <2>1. RegGrown(c, e.fi, Insert(e.fi, c, fi))
    BY <1>1, InsertGrows
  <2> QED
    BY <2>1 DEF RegGrown
<1>3. \A q \in Nodes : RegGrown(c, e.em[q], f.em[q])
  <2> SUFFICES ASSUME NEW q \in Nodes PROVE RegGrown(c, e.em[q], f.em[q])
    OBVIOUS
  <2>1. CASE q = p
    <3>1. e.em[p] \in Registers /\ f.em[p] = Insert(e.em[p], c, v)
      BY <1>1
    <3>2. RegGrown(c, e.em[p], Insert(e.em[p], c, v))
      BY <3>1, InsertGrows
    <3> QED
      BY <2>1, <3>1, <3>2
  <2>2. CASE q # p
    BY <1>1, <2>2 DEF RegGrown
  <2> QED
    BY <2>1, <2>2
<1> QED
  BY <1>2, <1>3 DEF Keys, Reg

\* An edge of a pending update is written to a container that is there.
LEMMA EdgeWrittenGrows ==
    ASSUME NEW c \in Clients, NEW a \in MapsOfEntries, NEW m \in MapsOfEntries,
           MapWritten(c, a, m), NEW u \in Ids \X Nodes \X Nat, m[u[1]].live
    PROVE  MapWritten(c, a, EdgeWritten(m, c, u))
<1> DEFINE n == u[1]
           e == [m[n] EXCEPT !.em = [m[n].em EXCEPT ![u[2]] = Insert(m[n].em[u[2]], c, u[3])]]
           after == EdgeWritten(m, c, u)
<1>1. n \in Ids /\ u[2] \in Nodes /\ m[n] \in Entries /\ a[n] \in Entries
  BY DEF MapsOfEntries
<1>2. after = [m EXCEPT ![n] = e]
  BY DEF EdgeWritten
<1>3. e.live = m[n].live /\ e.path = m[n].path /\ \A k \in Keys : RegGrown(c, Reg(m[n], k), Reg(e, k))
  <2>1. /\ e.live = m[n].live /\ e.path = m[n].path /\ e.fi = m[n].fi
        /\ e.em = [m[n].em EXCEPT ![u[2]] = Insert(m[n].em[u[2]], c, u[3])]
    BY <1>1 DEF Entries
  <2> HIDE DEF e, n
  <2> QED
    BY <1>1, <2>1, EntryWritten
<1>4. after \in MapsOfEntries
  BY EdgeWrittenType
<1> HIDE DEF e, n, after
<1>5. after[n] = e /\ \A k \in Ids \ {n} : after[k] = m[k]
  BY <1>1, <1>2 DEF MapsOfEntries
<1>6. e \in Entries
  BY <1>1, <1>4, <1>5 DEF MapsOfEntries
<1>7. a[n].live
  BY <1>1 DEF MapWritten, n
<1>8. /\ m[n].live /\ m[n].path = a[n].path
      /\ \A k \in Keys : RegGrown(c, Reg(a[n], k), Reg(m[n], k))
  BY <1>1, <1>7 DEF MapWritten
<1>9. \A k \in Keys : RegGrown(c, Reg(a[n], k), Reg(e, k))
  BY <1>1, <1>3, <1>6, <1>8, EntryFacts, RegGrownTransitive
<1>10. MapWritten(c, a, after)
  <2> SUFFICES ASSUME NEW k \in Ids
               PROVE  IF a[k].live
                      THEN /\ after[k].live /\ after[k].path = a[k].path
                           /\ \A j \in Keys : RegGrown(c, Reg(a[k], j), Reg(after[k], j))
                      ELSE after[k] = a[k]
    BY DEF MapWritten
  <2>1. CASE k = n
    BY <1>3, <1>5, <1>7, <1>8, <1>9, <2>1
  <2>2. CASE k # n
    BY <1>5, <2>2 DEF MapWritten
  <2> QED
    BY <2>1, <2>2
<1> QED
  BY <1>10 DEF after

\* A new container comes after what was there.
LEMMA NewEntryGrows ==
    ASSUME NEW c \in Clients, NEW e \in Entries, NEW p \in Nodes, NEW v, NEW fi
    PROVE  EntryGrown(c, e, NewEntry(e, c, p, v, fi))
<1> DEFINE f == NewEntry(e, c, p, v, fi)
<1>1. /\ f.path = Append(e.path, c) /\ f.live
      /\ f.fi = Insert(Unset, c, fi)
      /\ f.em = [q \in Nodes |-> IF q = p THEN Insert(Unset, c, v) ELSE Unset]
  BY DEF NewEntry
<1> HIDE DEF f
<1>2. f.path # <<>> /\ Last(f.path) = c /\ IsAfter(f.path, e.path)
  BY <1>1, EntryFacts, AppendIsAfter
<1>3. Unset \in Registers
  BY EntryTypes
<1>4. RegGrown(c, Unset, f.fi)
  BY <1>1, <1>3, InsertGrows
<1>5. \A q \in Nodes : RegGrown(c, Unset, f.em[q])
  <2> SUFFICES ASSUME NEW q \in Nodes PROVE RegGrown(c, Unset, f.em[q])
    OBVIOUS
  <2>1. f.em[q] = Insert(Unset, c, v) \/ f.em[q] = Unset
    BY <1>1
  <2> QED
    BY <1>3, <2>1, InsertGrows DEF RegGrown
<1>6. \A k \in Keys : RegGrown(c, Unset, Reg(f, k))
  BY <1>4, <1>5 DEF Keys, Reg
<1> QED
  BY <1>1, <1>2, <1>6 DEF EntryGrown, f

-----------------------------------------------------------------------------
(* Clients                                                                 *)

Partial(T) == UNION {[S -> T] : S \in SUBSET Nodes}

States ==
    [doc : Documents, commits : SUBSET Documents, handles : SUBSET Ids,
     status : {"open", "poisoned", "stopped"}, pending : Updates,
     stale : Nat, fresh : BOOLEAN,
     parent : Partial(Nodes \cup {None}), edges : Partial(EdgeMap), children : Partial(Seq(Ids))]

\* The cached nodes are those of the document, whatever the status.
CachesTheDocument(s) ==
    /\ s.parent \in [{Root} \cup Live(s.doc) -> Nodes \cup {None}]
    /\ s.edges \in [{Root} \cup Live(s.doc) -> EdgeMap]
    /\ s.children \in [{Root} \cup Live(s.doc) -> Seq(Live(s.doc))]

\* What is cached while the tree is open is a tree.
ShowsATree(s) ==
    s.status = "open" =>
        /\ Rooted(s.parent)
        /\ \A n \in Live(s.doc), p \in DOMAIN s.children :
            Times(n, s.children[p]) = IF s.parent[n] = p THEN 1 ELSE 0

\* What is cached while the tree is open agrees with the document.
IsCurrent(s) == s.status = "open" => FollowsTheDocument(s)

\* The states of clients between transactions; the operations keep to them.
GoodStates == {s \in States : CachesTheDocument(s) /\ ShowsATree(s) /\ IsCurrent(s)}

\* Maps over the nodes of a document are partial maps.
LEMMA PartialFacts ==
    ASSUME NEW T, NEW S \in SUBSET Nodes
    PROVE  [S -> T] \subseteq Partial(T)
BY DEF Partial

\* Whatever the cache held, the observer leaves it with the document's nodes
\* and, if the tree stays open, a tree.
LEMMA ObservedGood ==
    ASSUME NEW s \in States, NEW t \in Observed(s)
    PROVE  /\ t \in GoodStates
           /\ t.doc = s.doc /\ t.commits = s.commits
           /\ t.status = "open" => s.status = "open"
<1>1. PICK b \in Rebuilds(Content(s.doc), s.pending) :
          t = [s EXCEPT !.parent   = b.parent,
                        !.edges    = b.edges,
                        !.children = b.children,
                        !.pending  = b.pending,
                        !.stale    = Len(s.pending),
                        !.fresh    = TRUE,
                        !.handles  = s.handles \cup Live(s.doc),
                        !.status   = CASE b.ends = "built"    -> s.status
                                       [] b.ends = "bad_doc"  -> "poisoned"
                                       [] b.ends = "panicked" -> "stopped"]
  BY DEF Observed
<1> DEFINE P == {Root} \cup Live(s.doc)
<1>2. /\ s.doc \in Documents /\ s.pending \in Updates /\ s.handles \in SUBSET Ids
      /\ s.commits \in SUBSET Documents /\ s.status \in {"open", "poisoned", "stopped"}
  BY DEF States
<1>3. /\ IsDoc(Content(s.doc)) /\ DOMAIN Content(s.doc) = Live(s.doc)
      /\ PresentIn(Content(s.doc)) = P /\ Live(s.doc) \subseteq Ids /\ P \subseteq Nodes
  BY <1>2, DocumentFacts
<1> HIDE DEF P
<1>4. /\ b.parent \in [P -> Nodes \cup {None}]
      /\ b.edges \in [P -> EdgeMap]
      /\ b.children \in [P -> Seq(Live(s.doc))]
      /\ b.pending \in Updates
      /\ b.ends \in {"built", "bad_doc", "panicked"}
      /\ b.ends = "built" =>
            /\ Rooted(b.parent)
            /\ \A n \in Live(s.doc), p \in P : Times(n, b.children[p]) = IF b.parent[n] = p THEN 1 ELSE 0
  <2> DEFINE C == Content(s.doc)
  <2>1. IsDoc(C) /\ DOMAIN C = Live(s.doc) /\ PresentIn(C) = P /\ b \in Rebuilds(C, s.pending)
    BY <1>3
  <2> HIDE DEF C
  <2> QED
    BY <1>2, <2>1, RebuildIsATree
<1>5. Len(s.pending) \in Nat
  BY <1>2, LenProperties DEF Updates
<1>6. /\ t.doc = s.doc /\ t.commits = s.commits /\ t.parent = b.parent /\ t.edges = b.edges
      /\ t.children = b.children /\ t.pending = b.pending /\ t.stale = Len(s.pending)
      /\ t.fresh = TRUE /\ t.handles = s.handles \cup Live(s.doc)
      /\ t.status \in {"open", "poisoned", "stopped"}
      /\ t.status = "open" => b.ends = "built" /\ s.status = "open"
      /\ t = [doc |-> t.doc, commits |-> t.commits, handles |-> t.handles,
              status |-> t.status, pending |-> t.pending, stale |-> t.stale, fresh |-> t.fresh,
              parent |-> t.parent, edges |-> t.edges, children |-> t.children]
  BY <1>1, <1>2, <1>4 DEF States
<1>7. /\ t.parent \in Partial(Nodes \cup {None}) /\ t.edges \in Partial(EdgeMap)
      /\ t.children \in Partial(Seq(Ids))
  <2>1. b.children \in [P -> Seq(Ids)]
    <3>1. \A p \in P : b.children[p] \in Seq(Ids)
      BY <1>3, <1>4, SeqMonotonic
    <3> QED
      BY <1>4, <3>1
  <2> QED
    BY <1>3, <1>4, <1>6, <2>1, PartialFacts
<1>8. t \in States
  BY <1>2, <1>3, <1>4, <1>5, <1>6, <1>7 DEF States
<1>9. CachesTheDocument(t)
  BY <1>4, <1>6 DEF CachesTheDocument, P
<1>10. ShowsATree(t)
  BY <1>4, <1>6 DEF ShowsATree
<1>11. IsCurrent(t)
  <2> SUFFICES ASSUME b.ends = "built" PROVE FollowsTheDocument(t)
    BY <1>6 DEF IsCurrent
  <2> DEFINE C == Content(s.doc)
  <2>1. IsDoc(C) /\ DOMAIN C = Live(s.doc) /\ PresentIn(C) = P /\ b \in Rebuilds(C, s.pending)
    BY <1>3
  <2>2. TieFree(t.doc) => NoTies(C)
    BY <1>6, <2>1 DEF TieFree, NoTies
  <2>3. t.stale = 0 => s.pending = <<>>
    BY <1>2, <1>6, EmptySeq DEF Updates
  <2>4. Content(t.doc) = C /\ DOMAIN t.parent = P
    BY <1>4, <1>6
  <2> HIDE DEF C
  <2>5. /\ b.parent[Root] = None
        /\ \A p \in PresentIn(C) : b.children[p] = SortedChildren(C, b.parent, p)
        /\ \A n \in DOMAIN C : b.parent[n] \in MaxEdges(b.edges[n])
        /\ NoTies(C) => \A n \in DOMAIN C : MaxEdges(b.edges[n]) = {b.parent[n]}
        /\ s.pending = <<>> =>
            /\ \A i \in DOMAIN b.pending : b.pending[i][1] \in DOMAIN C
            /\ \A n \in DOMAIN C : b.edges[n] = Written(C[n].em, n, b.pending)
    BY <1>2, <2>1, RebuildRecords
  <2> QED
    BY <1>6, <2>1, <2>2, <2>3, <2>4, <2>5 DEF FollowsTheDocument
<1> QED
  BY <1>6, <1>8, <1>9, <1>10, <1>11 DEF GoodStates

\* A transaction leaves a document, and no change to the cache.
LEMMA CommitType ==
    ASSUME NEW c \in Clients, NEW s \in States, NEW map \in MapsOfEntries
    PROVE  LET t == Commit(c, s, map) IN
           /\ t \in States /\ t.doc.map = map /\ Live(t.doc) = LiveIn(map)
           /\ t.parent = s.parent /\ t.edges = s.edges /\ t.children = s.children
           /\ t.status = s.status /\ t.handles = s.handles /\ t.pending = s.pending
           /\ t.doc = Committed(c, s.doc, map) /\ t.commits = s.commits \cup {t.doc}
<1> DEFINE seen == [s.doc.seen EXCEPT ![c] = @ + 1]
           d    == [map |-> map, seen |-> seen]
<1>1. s.doc \in Documents /\ s.doc.seen \in [Clients -> Nat]
  BY DEF States, Documents
<1>2. seen \in [Clients -> Nat]
  BY <1>1
<1> HIDE DEF seen
<1>3. d \in Documents /\ d.map = map /\ Live(d) = LiveIn(map)
  BY <1>2 DEF Documents, MapsOfEntries, Live, LiveIn
<1>4. Commit(c, s, map) = [s EXCEPT !.doc = d, !.commits = s.commits \cup {d}]
      /\ d = Committed(c, s.doc, map)
  BY DEF Commit, Committed, seen
<1> HIDE DEF d
<1>5. s.commits \cup {d} \in SUBSET Documents
  BY <1>3 DEF States
<1> QED
  BY <1>3, <1>4, <1>5 DEF States

\* Nothing is pending any more, and the document has it.
WritesWhatIsPending(s, w) ==
    /\ w.status = s.status /\ w.pending = <<>>
    /\ \A n \in Ids :
        /\ EdgesIn(w.doc.map, n) = Written(EdgesIn(s.doc.map, n), n, s.pending)
        /\ w.doc.map[n].fi = s.doc.map[n].fi

\* Writing the pending updates, or panicking on one, changes no container and
\* nothing that is cached. What is written is what was pending.
LEMMA WritePendingGood ==
    ASSUME NEW c \in Clients, NEW s \in GoodStates
    PROVE  LET w == WritePending(c, s) IN
           /\ w \in GoodStates /\ Live(w.doc) = Live(s.doc)
           /\ w.parent = s.parent /\ w.edges = s.edges /\ w.children = s.children
           /\ w.handles = s.handles /\ w.status \in {s.status, "stopped"}
           /\ Transacts(c, s, w) /\ (w = s \/ w.status = "stopped" \/ ~ w.fresh)
           /\ (\A i \in DOMAIN s.pending : s.pending[i][1] \in Live(s.doc)) => WritesWhatIsPending(s, w)
<1> DEFINE Keeps(w) == /\ w \in GoodStates /\ Live(w.doc) = Live(s.doc)
                       /\ w.parent = s.parent /\ w.edges = s.edges /\ w.children = s.children
                       /\ w.handles = s.handles /\ w.status \in {s.status, "stopped"}
                       /\ Transacts(c, s, w) /\ (w = s \/ w.status = "stopped" \/ ~ w.fresh)
           AllLive == \A i \in DOMAIN s.pending : s.pending[i][1] \in Live(s.doc)
<1> SUFFICES /\ Keeps(WritePending(c, s))
             /\ AllLive => WritesWhatIsPending(s, WritePending(c, s))
  OBVIOUS
<1>1. /\ s \in States /\ s.doc \in Documents /\ s.doc.map \in MapsOfEntries /\ s.pending \in Updates
      /\ \A n \in Ids : EdgesIn(s.doc.map, n) \in EdgeMap
  BY DEF GoodStates, States, Documents, MapsOfEntries, EdgesIn, EdgeMap, Entries, Registers
<1>2. CASE s.pending = <<>>
  <2>1. WritePending(c, s) = s
    BY <1>2 DEF WritePending
  <2>2. \A n \in Ids : Written(EdgesIn(s.doc.map, n), n, s.pending) = EdgesIn(s.doc.map, n)
    BY <1>1, <1>2, WrittenNothing
  <2> QED
    BY <1>2, <2>1, <2>2 DEF WritesWhatIsPending, Transacts
<1>3. CASE s.pending # <<>> /\ \E i \in DOMAIN s.pending : s.pending[i][1] \notin Live(s.doc)
  <2>1. WritePending(c, s) = [s EXCEPT !.status = "stopped"]
    BY <1>3 DEF WritePending
  <2>2. Keeps(WritePending(c, s))
    BY <2>1 DEF GoodStates, States, CachesTheDocument, ShowsATree, IsCurrent, Transacts
  <2> HIDE DEF Keeps
  <2> QED
    BY <1>3, <2>2
<1>4. CASE s.pending # <<>> /\ ~ \E i \in DOMAIN s.pending : s.pending[i][1] \notin Live(s.doc)
  <2> DEFINE N    == Len(s.pending)
             Same == {m \in MapsOfEntries : LiveIn(m) = Live(s.doc) /\ MapWritten(c, s.doc.map, m)}
             Has(m, i) == \A n \in Ids :
                /\ m[n].fi = s.doc.map[n].fi
                /\ EdgesIn(m, n) = Written(EdgesIn(s.doc.map, n), n, SubSeq(s.pending, 1, i))
             D    == [i \in 0 .. N |-> {m \in Same : Has(m, i)}]
             F    == [x \in (1 .. N) \X MapsOfEntries |-> EdgeWritten(x[2], c, s.pending[x[1]])]
             Is(f) == f = [i \in 0 .. N |->
                            IF i = 0 THEN s.doc.map
                            ELSE EdgeWritten(f[i - 1], c, s.pending[i])]
             written == CHOOSE f : Is(f)
  <2>1. N \in Nat
    BY <1>1, LenProperties DEF Updates
  <2>2. \A i \in 1 .. N : \A m \in D[i - 1] : EdgeWritten(m, c, s.pending[i]) \in D[i]
    <3> SUFFICES ASSUME NEW i \in 1 .. N, NEW m \in D[i - 1]
                 PROVE  EdgeWritten(m, c, s.pending[i]) \in D[i]
      OBVIOUS
    <3>1. i - 1 \in 0 .. N /\ i \in 0 .. N
      BY <2>1
    <3>2. m \in Same /\ m \in MapsOfEntries /\ Has(m, i - 1)
      BY <3>1
    <3> DEFINE u     == s.pending[i]
               after == EdgeWritten(m, c, u)
               front == SubSeq(s.pending, 1, i - 1)
    <3>3. u \in Ids \X Nodes \X Nat
      BY <1>1, ElementOfSeq DEF Updates
    <3>4. /\ after \in MapsOfEntries /\ LiveIn(after) = LiveIn(m)
          /\ \A k \in Ids :
                /\ after[k].fi = m[k].fi
                /\ EdgesIn(after, k) = IF k = u[1] THEN [EdgesIn(m, k) EXCEPT ![u[2]] = u[3]]
                                                  ELSE EdgesIn(m, k)
      BY <3>2, <3>3, EdgeWrittenType
    <3>5. SubSeq(s.pending, 1, i) = Append(front, u) /\ front \in Updates
      <4>1. 1 \in 1 .. Len(s.pending) /\ i \in 1 .. Len(s.pending)
        BY <2>1
      <4>2. SubSeq(s.pending, 1, i) = front \o <<u>>
        BY <1>1, <4>1, SubSeqRecursiveSecond DEF Updates
      <4>3. \A j \in 1 .. i - 1 : s.pending[j] \in Ids \X Nodes \X Nat
        <5> SUFFICES ASSUME NEW j \in 1 .. i - 1
                     PROVE  s.pending[j] \in Ids \X Nodes \X Nat
          OBVIOUS
        <5>1. j \in 1 .. Len(s.pending)
          BY <2>1
        <5> QED
          BY <1>1, <5>1, ElementOfSeq DEF Updates
      <4>4. front \in Updates
        BY <4>1, <4>3, SubSeqProperties DEF Updates
      <4> QED
        BY <3>3, <4>2, <4>4, AppendIsConcat DEF Updates
    <3>6. u = <<u[1], u[2], u[3]>> /\ u[1] \in Ids /\ u[2] \in Nodes /\ u[3] \in Nat
      BY <3>3
    <3> HIDE DEF u, after, front, N
    <3>7. ASSUME NEW k \in Ids
          PROVE  EdgesIn(after, k) = Written(EdgesIn(s.doc.map, k), k, Append(front, u))
      <4>1. EdgesIn(m, k) = Written(EdgesIn(s.doc.map, k), k, front)
        BY <3>2 DEF front
      <4>2. Written(EdgesIn(s.doc.map, k), k, Append(front, u)) =
                IF k = u[1] THEN [Written(EdgesIn(s.doc.map, k), k, front) EXCEPT ![u[2]] = u[3]]
                            ELSE Written(EdgesIn(s.doc.map, k), k, front)
        BY <1>1, <3>5, <3>6, WrittenAppend
      <4> QED
        BY <3>4, <4>1, <4>2
    <3>8. MapWritten(c, s.doc.map, after)
      <4>1. i \in DOMAIN s.pending
        BY <1>1, LenProperties DEF Updates, N
      <4>2. u[1] \in LiveIn(m)
        BY <1>4, <3>2, <4>1 DEF u
      <4>3. m[u[1]].live
        BY <4>2 DEF LiveIn
      <4> QED
        BY <1>1, <3>2, <3>3, <4>3, EdgeWrittenGrows DEF after
    <3>9. after \in Same /\ Has(after, i)
      BY <3>2, <3>4, <3>5, <3>7, <3>8
    <3> HIDE DEF Same, Has
    <3> QED
      BY <3>1, <3>9 DEF after, u
  <2>3. s.doc.map \in D[0] /\ \A i \in 0 .. N : D[i] \subseteq MapsOfEntries
    <3>1. s.doc.map \in Same
      BY <1>1 DEF Live, LiveIn, MapWritten, RegGrown
    <3>2. SubSeq(s.pending, 1, 0) = <<>>
      BY SubSeqEmpty
    <3>3. Has(s.doc.map, 0)
      BY <1>1, <3>2, WrittenNothing
    <3> HIDE DEF Has, N
    <3> QED
      BY <2>1, <3>1, <3>3
  <2> HIDE DEF D, N
  <2>4. \A i \in 1 .. N : \A m \in D[i - 1] : F[<<i, m>>] = EdgeWritten(m, c, s.pending[i]) /\ F[<<i, m>>] \in D[i]
    <3> SUFFICES ASSUME NEW i \in 1 .. N, NEW m \in D[i - 1]
                 PROVE  F[<<i, m>>] = EdgeWritten(m, c, s.pending[i]) /\ F[<<i, m>>] \in D[i]
      OBVIOUS
    <3>1. i - 1 \in 0 .. N /\ i \in 0 .. N
      BY <2>1
    <3>2. m \in MapsOfEntries
      BY <2>3, <3>1
    <3>3. EdgeWritten(m, c, s.pending[i]) \in D[i]
      BY <2>2
    <3> QED
      BY <3>1, <3>2, <3>3
  <2>5. \E f : Is(f)
    <3> HIDE DEF F
    <3>1. s.doc.map \in D[0]
      BY <2>3
    <3>2. PICK f : IsRecursion(f, N, s.doc.map, F) /\ \A i \in 0 .. N : f[i] \in D[i]
      BY <2>1, <2>4, <3>1, BoundedRecursion
    <3>3. \A i \in 0 .. N : i # 0 => F[<<i, f[i - 1]>>] = EdgeWritten(f[i - 1], c, s.pending[i])
      <4> SUFFICES ASSUME NEW i \in 0 .. N, i # 0
                   PROVE  F[<<i, f[i - 1]>>] = EdgeWritten(f[i - 1], c, s.pending[i])
        OBVIOUS
      <4>1. i \in 1 .. N /\ i - 1 \in 0 .. N
        BY <2>1
      <4>2. f[i - 1] \in D[i - 1]
        BY <3>2, <4>1
      <4> QED
        BY <2>4, <4>1, <4>2
    <3>4. Is(f)
      BY <3>2, <3>3 DEF IsRecursion
    <3> QED
      BY <3>4
  <2>6. Is(written)
    <3> HIDE DEF Is
    <3> QED
      BY <2>5
  <2>7. WritePending(c, s) = [Commit(c, s, written[N]) EXCEPT !.pending = <<>>, !.fresh = FALSE]
    BY <1>4 DEF WritePending, N
  <2> HIDE DEF written
  <2>8. written[0] \in D[0]
    <3>1. 0 \in 0 .. N
      BY <2>1
    <3> QED
      BY <2>3, <2>6, <3>1
  <2>9. \A i \in 1 .. N : written[i - 1] \in D[i - 1] => written[i] \in D[i]
    <3> SUFFICES ASSUME NEW i \in 1 .. N, written[i - 1] \in D[i - 1]
                 PROVE  written[i] \in D[i]
      OBVIOUS
    <3>1. i \in 0 .. N /\ i # 0 /\ i - 1 \in 0 .. N
      BY <2>1
    <3>2. written[i] = EdgeWritten(written[i - 1], c, s.pending[i])
      BY <2>6, <3>1
    <3> QED
      BY <2>2, <3>1, <3>2
  <2>10. written[N] \in Same /\ Has(written[N], N)
    <3>1. \A i \in 0 .. N : written[i] \in D[i]
      BY <2>1, <2>8, <2>9, BoundedInduction
    <3>2. N \in 0 .. N
      BY <2>1
    <3> HIDE DEF Same, Has
    <3> QED
      BY <3>1, <3>2 DEF D
  <2> DEFINE t == Commit(c, s, written[N])
  <2>11. /\ t \in States /\ Live(t.doc) = Live(s.doc)
         /\ t.parent = s.parent /\ t.edges = s.edges /\ t.children = s.children
         /\ t.status = s.status /\ t.handles = s.handles /\ t.doc.map = written[N]
         /\ t.doc = Committed(c, s.doc, written[N]) /\ t.commits = s.commits \cup {t.doc}
         /\ t.stale = s.stale
    <3>1. t.stale = s.stale
      BY <1>1 DEF Commit, States
    <3> HIDE DEF t
    <3> QED
      BY <1>1, <2>10, <3>1, CommitType DEF Same, t
  <2> HIDE DEF t
  <2>12. <<>> \in Updates
    BY EmptySeq DEF Updates
  <2>13. WritePending(c, s) = [t EXCEPT !.pending = <<>>, !.fresh = FALSE]
    BY <2>7 DEF t
  <2> DEFINE w == WritePending(c, s)
  <2>14. /\ w \in States /\ w.doc = t.doc /\ w.handles = t.handles /\ w.status = t.status
         /\ w.parent = t.parent /\ w.edges = t.edges /\ w.children = t.children
         /\ w.pending = <<>> /\ w.fresh = FALSE /\ w.commits = t.commits /\ w.stale = t.stale
    BY <2>11, <2>12, <2>13 DEF States
  <2> HIDE DEF w
  <2>15. CachesTheDocument(s) /\ ShowsATree(s)
    BY DEF GoodStates
  <2>16. CachesTheDocument(w)
    BY <2>11, <2>14, <2>15 DEF CachesTheDocument
  <2>17. ShowsATree(w)
    BY <2>11, <2>14, <2>15 DEF ShowsATree
  <2>18. WritesWhatIsPending(s, w)
    <3>1. SubSeq(s.pending, 1, N) = s.pending
      BY <1>1, SubSeqFull DEF N, Updates
    <3> QED
      BY <2>10, <2>11, <2>14, <3>1 DEF WritesWhatIsPending
  <2>19. IsCurrent(w)
    <3> SUFFICES ASSUME w.status = "open" PROVE FollowsTheDocument(w)
      BY DEF IsCurrent
    <3>1. FollowsTheDocument(s)
      BY <2>11, <2>14 DEF GoodStates, IsCurrent
    <3>2. Live(w.doc) = Live(s.doc) /\ Live(s.doc) \subseteq Ids
      BY <2>11, <2>14 DEF Live
    <3> DEFINE C == Content(s.doc)
               K == Content(w.doc)
    <3>3. /\ DOMAIN C = Live(s.doc) /\ DOMAIN K = Live(s.doc)
          /\ \A n \in Live(s.doc) :
                /\ C[n].fi = s.doc.map[n].fi.val /\ K[n].fi = w.doc.map[n].fi.val
                /\ C[n].em = EdgesIn(s.doc.map, n) /\ K[n].em = EdgesIn(w.doc.map, n)
      BY <3>2 DEF Content, EdgesIn
    <3>4. \A n \in Live(s.doc) : /\ K[n].fi = C[n].fi
                                 /\ K[n].em = Written(C[n].em, n, s.pending)
      BY <2>18, <3>2, <3>3 DEF WritesWhatIsPending
    <3>5. /\ \A p \in DOMAIN s.parent : s.children[p] = SortedChildren(C, s.parent, p)
          /\ s.stale = 0 => \A n \in Live(s.doc) : s.edges[n] = Written(C[n].em, n, s.pending)
      BY <3>1 DEF FollowsTheDocument
    <3>6. \A n \in Live(s.doc) : K[n].em \in EdgeMap
      <4>1. \A n \in Ids : EdgesIn(w.doc.map, n) \in EdgeMap
        BY <2>14 DEF States, Documents, EdgesIn, EdgeMap, Entries, Registers
      <4> QED
        BY <3>2, <3>3, <4>1
    <3> HIDE DEF C, K
    <3>7. \A f, p : SortedChildren(K, f, p) = SortedChildren(C, f, p)
      <4>1. SiblingBefore(K) = SiblingBefore(C)
        BY <3>3, <3>4 DEF SiblingBefore
      <4> QED
        BY <3>3, <4>1 DEF SortedChildren
    <3>8. \A p \in DOMAIN w.parent : w.children[p] = SortedChildren(K, w.parent, p)
      BY <2>11, <2>14, <3>5, <3>7
    <3>9. ASSUME w.stale = 0, NEW n \in Live(w.doc)
          PROVE  w.edges[n] = Written(K[n].em, n, w.pending)
      <4>1. w.edges[n] = K[n].em
        BY <2>11, <2>14, <3>2, <3>4, <3>5, <3>9
      <4>2. n \in Ids /\ K[n].em \in EdgeMap
        BY <3>2, <3>6
      <4> QED
        BY <2>14, <4>1, <4>2, WrittenNothing
    <3>10. w.parent[Root] = None /\ \A n \in Live(w.doc) : w.parent[n] \in MaxEdges(w.edges[n])
      BY <2>11, <2>14, <3>1, <3>2 DEF FollowsTheDocument
    <3>11. DOMAIN w.pending = {}
      BY <2>14
    <3> QED
      BY <2>14, <3>8, <3>9, <3>10, <3>11 DEF FollowsTheDocument, K
  <2>20. Keeps(w)
    <3>1. written[N] \in MapsOfEntries /\ MapGrown(c, s.doc.map, written[N])
      BY <2>10, MapWrittenIsGrown DEF Same
    <3>2. Transacts(c, s, w)
      BY <2>11, <2>14, <3>1 DEF Transacts
    <3> QED
      BY <2>11, <2>14, <2>16, <2>17, <2>19, <3>2 DEF GoodStates
  <2> QED
    BY <2>18, <2>20 DEF w
<1> QED
  BY <1>2, <1>3, <1>4

\* The index for a node is one that a container can have.
LEMMA IndexAtType ==
    ASSUME NEW s \in GoodStates, NEW p \in Nodes, NEW index \in Nat
    PROVE  IndexAt(s, p, index) \in Nat
<1> DEFINE kids == IF p \in DOMAIN s.children THEN s.children[p] ELSE <<>>
<1>1. kids \in Seq(Live(s.doc))
  BY EmptySeq DEF GoodStates, CachesTheDocument
<1>2. \A n \in Live(s.doc) : Content(s.doc)[n].fi \in Nat
  BY DocumentFacts DEF GoodStates, States
<1> HIDE DEF kids
<1>3. \A i \in 1 .. Len(kids) : Content(s.doc)[kids[i]].fi \in Nat
  BY <1>1, <1>2, ElementOfSeq
<1>4. Len(kids) \in Nat
  BY <1>1, LenProperties
<1>5. CASE kids = <<>>
  BY <1>5 DEF IndexAt, kids
<1>6. CASE kids # <<>> /\ index >= Len(kids)
  <2>1. Len(kids) \in 1 .. Len(kids)
    BY <1>1, <1>4, <1>6, EmptySeq
  <2>2. IndexAt(s, p, index) = Content(s.doc)[kids[Len(kids)]].fi + 1
    BY <1>6 DEF IndexAt, Last, kids
  <2> QED
    BY <1>3, <2>1, <2>2
<1>7. CASE kids # <<>> /\ ~ (index >= Len(kids))
  <2>1. index + 1 \in 1 .. Len(kids)
    BY <1>4, <1>7
  <2>2. IndexAt(s, p, index) = Content(s.doc)[kids[index + 1]].fi
    BY <1>7 DEF IndexAt, kids
  <2> QED
    BY <1>3, <2>1, <2>2
<1> QED
  BY <1>5, <1>6, <1>7

\* The map with a node placed in it.
LEMMA PlacedType ==
    ASSUME NEW c \in Clients, NEW s \in GoodStates, NEW n \in Ids, NEW p \in Nodes,
           NEW index \in Nat
    PROVE  Placed(c, s, n, p, index) \in MapsOfEntries
<1>1. s.doc.map \in MapsOfEntries /\ s.doc.map[n] \in Entries
  BY DEF GoodStates, States, Documents, MapsOfEntries
<1>2. IndexAt(s, p, index) \in Nat
  BY IndexAtType
<1> DEFINE e == s.doc.map[n]
<1>3. CASE n \in DOMAIN s.parent
  <2>1. s.edges[n] \in EdgeMap
    BY <1>3 DEF GoodStates, CachesTheDocument
  <2>2. NextEdge(s.edges[n]) \in Nat
    BY <2>1, AddEdgeIsUniqueMax
  <2> DEFINE em == [e.em EXCEPT ![p] = Insert(e.em[p], c, NextEdge(s.edges[n]))]
             fi == Insert(e.fi, c, IndexAt(s, p, index))
  <2>3. em \in [Nodes -> Registers]
    <3>1. e.em \in [Nodes -> Registers] /\ e.em[p] \in Registers
      BY <1>1 DEF Entries
    <3>2. Insert(e.em[p], c, NextEdge(s.edges[n])) \in Registers
      BY <2>2, <3>1, InsertType
    <3> QED
      BY <3>1, <3>2
  <2>4. fi \in Registers /\ fi.val \in Nat
    <3>1. e.fi \in Registers
      BY <1>1 DEF Entries
    <3> QED
      BY <1>2, <3>1, InsertType
  <2>5. Placed(c, s, n, p, index) = [s.doc.map EXCEPT ![n] = [e EXCEPT !.em = em, !.fi = fi]]
    BY <1>3 DEF Placed
  <2> HIDE DEF em, fi
  <2>6. [e EXCEPT !.em = em, !.fi = fi] \in Entries
    BY <1>1, <2>3, <2>4 DEF Entries
  <2> HIDE DEF e
  <2> QED
    BY <1>1, <2>5, <2>6 DEF MapsOfEntries
<1>4. CASE n \notin DOMAIN s.parent
  <2>1. NewEntry(e, c, p, 0, IndexAt(s, p, index)) \in Entries
    BY <1>1, <1>2, EntryTypes
  <2>2. Placed(c, s, n, p, index) = [s.doc.map EXCEPT ![n] = NewEntry(e, c, p, 0, IndexAt(s, p, index))]
    BY <1>4 DEF Placed
  <2> QED
    BY <1>1, <2>1, <2>2 DEF MapsOfEntries
<1> QED
  BY <1>3, <1>4

\* Tree::update_node takes a client from good states to good states.
LEMMA UpdateNodeGood ==
    ASSUME NEW c \in Clients, NEW s \in GoodStates, NEW n \in Nodes, NEW p \in Nodes,
           NEW index \in Nat
    PROVE  UpdateNode(c, s, n, p, index) \subseteq GoodStates
<1> DEFINE w == WritePending(c, s)
<1>1. /\ w \in GoodStates /\ w.status \in {s.status, "stopped"}
      /\ w.edges = s.edges /\ Live(w.doc) = Live(s.doc)
  BY WritePendingGood
<1> HIDE DEF w
<1>2. CASE s.status # "open"
  BY <1>2 DEF UpdateNode
<1>3. CASE s.status = "open" /\ w.status = "stopped"
  BY <1>1, <1>3 DEF UpdateNode, w
<1>4. CASE s.status = "open" /\ w.status # "stopped" /\ n = Root
  <2> DEFINE t == [w EXCEPT !.edges[Root] = AddEdge(@, p)]
             P == {Root} \cup Live(w.doc)
  <2>1. w.edges \in [P -> EdgeMap] /\ w.edges[Root] \in EdgeMap
    BY <1>1 DEF GoodStates, CachesTheDocument
  <2>2. AddEdge(w.edges[Root], p) \in EdgeMap
    BY <2>1, AddEdgeIsUniqueMax
  <2>3. [w.edges EXCEPT ![Root] = AddEdge(w.edges[Root], p)] \in [P -> EdgeMap]
    BY <2>1, <2>2
  <2>4. P \in SUBSET Nodes
    BY <1>1, DocumentFacts DEF GoodStates, States
  <2>5. [w.edges EXCEPT ![Root] = AddEdge(w.edges[Root], p)] \in Partial(EdgeMap)
    BY <2>3, <2>4, PartialFacts
  <2>6. /\ t \in States /\ t.doc = w.doc /\ t.status = w.status /\ t.parent = w.parent
        /\ t.children = w.children /\ t.edges \in [P -> EdgeMap]
        /\ t.fresh = w.fresh /\ t.stale = w.stale /\ t.pending = w.pending
        /\ t.edges = [w.edges EXCEPT ![Root] = AddEdge(w.edges[Root], p)]
    BY <1>1, <2>3, <2>5 DEF GoodStates, States
  <2>7. UpdateNode(c, s, n, p, index) = {t}
    BY <1>4 DEF UpdateNode, w
  <2> HIDE DEF t
  <2>8. CachesTheDocument(t) /\ ShowsATree(t)
    BY <1>1, <2>6 DEF GoodStates, CachesTheDocument, ShowsATree
  <2>9. \A m \in Live(w.doc) : t.edges[m] = w.edges[m]
    BY <2>1, <2>6, IdsAssumption DEF Live, Root
  <2>10. IsCurrent(t)
    <3>1. IsCurrent(w)
      BY <1>1 DEF GoodStates
    <3> QED
      BY <2>6, <2>9, <3>1 DEF IsCurrent, FollowsTheDocument
  <2> QED
    BY <2>6, <2>7, <2>8, <2>10 DEF GoodStates
<1>5. CASE s.status = "open" /\ w.status # "stopped" /\ n # Root
  <2>1. n \in Ids
    BY <1>5 DEF Nodes
  <2>2. Placed(c, w, n, p, index) \in MapsOfEntries
    BY <1>1, <2>1, PlacedType
  <2>3. Commit(c, w, Placed(c, w, n, p, index)) \in States
    BY <1>1, <2>2, CommitType DEF GoodStates
  <2>4. UpdateNode(c, s, n, p, index) = Observed(Commit(c, w, Placed(c, w, n, p, index)))
    BY <1>5 DEF UpdateNode, w
  <2> QED
    BY <2>3, <2>4, ObservedGood
<1> QED
  BY <1>2, <1>3, <1>4, <1>5

\* So does Tree::delete_nodes, whatever nodes it is given.
LEMMA DeleteNodesGood ==
    ASSUME NEW c \in Clients, NEW s \in GoodStates, NEW ids
    PROVE  DeleteNodes(c, s, ids) \subseteq GoodStates
<1>1. CASE s.status # "open" \/ ids \cap Live(s.doc) = {}
  BY <1>1 DEF DeleteNodes
<1>2. CASE ~ (s.status # "open" \/ ids \cap Live(s.doc) = {})
  <2> DEFINE map == [n \in Ids |-> IF n \in ids /\ s.doc.map[n].live
                                   THEN Removed(s.doc.map[n]) ELSE s.doc.map[n]]
  <2>1. \A n \in Ids : s.doc.map[n] \in Entries
    BY DEF GoodStates, States, Documents
  <2>2. map \in MapsOfEntries
    BY <2>1, EntryTypes DEF MapsOfEntries
  <2>3. DeleteNodes(c, s, ids) = Observed(Commit(c, s, map))
    BY <1>2 DEF DeleteNodes
  <2> HIDE DEF map
  <2>4. Commit(c, s, map) \in States
    BY <2>2, CommitType DEF GoodStates
  <2> QED
    BY <2>3, <2>4, ObservedGood
<1> QED
  BY <1>1, <1>2

\* The loop of the strategy Promote: what holds before it, and after an
\* iteration when it holds before that iteration, holds when it ends. The
\* states there may be after i iterations are those of D[i].
LEMMA PromoteLoop ==
    ASSUME NEW c \in Clients, NEW s \in GoodStates, NEW n \in DOMAIN s.parent,
           s.children[n] \in Seq(Live(s.doc)),
           NEW D \in [0 .. Len(s.children[n]) -> SUBSET GoodStates], s \in D[0],
           \A i \in 1 .. Len(s.children[n]) : \A t \in D[i - 1] :
                UpdateNode(c, t, s.children[n][i], s.parent[n], End) \subseteq D[i],
           NEW u \in Promote(c, s, n)
    PROVE  \E t \in D[Len(s.children[n])] : u \in DeleteNodes(c, t, {n})
<1> DEFINE kids  == s.children[n]
           N     == Len(kids)
           Move(t, i) == UpdateNode(c, t, kids[i], s.parent[n], End)
           E     == [i \in 0 .. N |-> SUBSET D[i]]
           F     == [x \in (1 .. N) \X SUBSET GoodStates |-> UNION {Move(t, x[1]) : t \in x[2]}]
           Is(f) == f = [i \in 0 .. N |->
                            IF i = 0 THEN {s}
                            ELSE UNION {UpdateNode(c, t, kids[i], s.parent[n], End) : t \in f[i - 1]}]
           moved == CHOOSE f : Is(f)
<1>1. u \in UNION {DeleteNodes(c, t, {n}) : t \in moved[N]}
  BY DEF Promote
<1>2. N \in Nat
  BY LenProperties
<1>3. /\ \A i \in 0 .. N : D[i] \in SUBSET GoodStates
      /\ \A i \in 1 .. N : \A t \in D[i - 1] : Move(t, i) \subseteq D[i]
  OBVIOUS
<1> HIDE DEF kids, N
<1>4. \A i \in 0 .. N : E[i] = SUBSET D[i]
  OBVIOUS
<1>5. \A i \in 1 .. N : \A x \in E[i - 1] :
        F[<<i, x>>] = UNION {Move(t, i) : t \in x} /\ F[<<i, x>>] \in E[i]
  <2> SUFFICES ASSUME NEW i \in 1 .. N, NEW x \in E[i - 1]
               PROVE  F[<<i, x>>] = UNION {Move(t, i) : t \in x} /\ F[<<i, x>>] \in E[i]
    OBVIOUS
  <2>1. i - 1 \in 0 .. N /\ i \in 0 .. N
    BY <1>2
  <2> HIDE DEF E, Move
  <2>2. x \in SUBSET D[i - 1] /\ x \in SUBSET GoodStates
    <3>1. E[i - 1] = SUBSET D[i - 1] /\ D[i - 1] \in SUBSET GoodStates
      BY <1>3, <1>4, <2>1
    <3> QED
      BY <3>1
  <2>3. F[<<i, x>>] = UNION {Move(t, i) : t \in x}
    BY <2>2
  <2> HIDE DEF F
  <2>4. UNION {Move(t, i) : t \in x} \in SUBSET D[i]
    BY <1>3, <2>2
  <2>5. E[i] = SUBSET D[i]
    BY <1>4, <2>1
  <2> QED
    BY <2>3, <2>4, <2>5
<1>6. {s} \in E[0]
  BY <1>2
<1> HIDE DEF E
<1>7. \E f : Is(f)
  <2> HIDE DEF F
  <2>1. PICK f : IsRecursion(f, N, {s}, F) /\ \A i \in 0 .. N : f[i] \in E[i]
    BY <1>2, <1>5, <1>6, BoundedRecursion
  <2>2. \A i \in 0 .. N : i # 0 => F[<<i, f[i - 1]>>] = UNION {Move(t, i) : t \in f[i - 1]}
    <3> SUFFICES ASSUME NEW i \in 0 .. N, i # 0
                 PROVE  F[<<i, f[i - 1]>>] = UNION {Move(t, i) : t \in f[i - 1]}
      OBVIOUS
    <3>1. i \in 1 .. N /\ i - 1 \in 0 .. N
      BY <1>2
    <3>2. f[i - 1] \in E[i - 1]
      BY <2>1, <3>1
    <3> HIDE DEF Move
    <3> QED
      BY <1>5, <3>1, <3>2
  <2>3. Is(f)
    BY <2>1, <2>2 DEF IsRecursion
  <2> QED
    BY <2>3
<1>8. Is(moved)
  <2> HIDE DEF Is
  <2> QED
    BY <1>7
<1> HIDE DEF moved
<1>9. moved[0] \in E[0]
  <2>1. 0 \in 0 .. N
    BY <1>2
  <2> QED
    BY <1>6, <1>8, <2>1
<1>10. \A i \in 1 .. N : moved[i - 1] \in E[i - 1] => moved[i] \in E[i]
  <2> SUFFICES ASSUME NEW i \in 1 .. N, moved[i - 1] \in E[i - 1]
               PROVE  moved[i] \in E[i]
    OBVIOUS
  <2>1. i \in 0 .. N /\ i # 0
    BY <1>2
  <2>2. moved[i] = UNION {Move(t, i) : t \in moved[i - 1]}
    BY <1>8, <2>1
  <2> HIDE DEF Move, F
  <2> QED
    BY <1>5, <2>2
<1>11. moved[N] \subseteq D[N]
  <2>1. \A i \in 0 .. N : moved[i] \in E[i]
    BY <1>2, <1>9, <1>10, BoundedInduction
  <2>2. N \in 0 .. N
    BY <1>2
  <2> QED
    BY <1>4, <2>1, <2>2
<1> HIDE DEF F
<1>12. \E t \in D[N] : u \in DeleteNodes(c, t, {n})
  BY <1>1, <1>11
<1> QED
  BY <1>12 DEF N, kids

\* Deleting a node with the strategy Promote is a series of both.
LEMMA PromoteGood ==
    ASSUME NEW c \in Clients, NEW s \in GoodStates,
           NEW n \in DOMAIN s.parent, s.parent[n] # None
    PROVE  Promote(c, s, n) \subseteq GoodStates
<1> DEFINE kids == s.children[n]
           N    == Len(kids)
           D    == [i \in 0 .. N |-> GoodStates]
<1>1. /\ kids \in Seq(Live(s.doc)) /\ s.parent[n] \in Nodes
      /\ Live(s.doc) \subseteq Nodes /\ End \in Nat
  <2>1. End \in Nat
    BY IdsAssumption, FS_CardinalityType DEF End
  <2>2. Live(s.doc) \subseteq Nodes
    BY DocumentFacts DEF GoodStates, States
  <2> QED
    BY <2>1, <2>2 DEF GoodStates, CachesTheDocument
<1>2. N \in Nat
  BY <1>1, LenProperties
<1>3. \A i \in 1 .. N : \A t \in GoodStates : UpdateNode(c, t, kids[i], s.parent[n], End) \subseteq GoodStates
  <2> SUFFICES ASSUME NEW i \in 1 .. N, NEW t \in GoodStates
               PROVE  UpdateNode(c, t, kids[i], s.parent[n], End) \subseteq GoodStates
    OBVIOUS
  <2>1. kids[i] \in Nodes
    BY <1>1, ElementOfSeq
  <2> QED
    BY <1>1, <2>1, UpdateNodeGood
<1>4. D \in [0 .. N -> SUBSET GoodStates] /\ \A i \in 0 .. N : D[i] = GoodStates
  OBVIOUS
<1>5. \A i \in 1 .. N : \A t \in D[i - 1] :
          UpdateNode(c, t, kids[i], s.parent[n], End) \subseteq D[i]
  <2>1. \A i \in 1 .. N : D[i] = GoodStates /\ D[i - 1] = GoodStates
    BY <1>2
  <2> QED
    BY <1>3, <2>1
<1>6. s \in D[0]
  BY <1>2
<1> HIDE DEF D
<1>7. ASSUME NEW u \in Promote(c, s, n)
      PROVE  u \in GoodStates
  <2>1. PICK t \in D[N] : u \in DeleteNodes(c, t, {n})
    BY <1>1, <1>4, <1>5, <1>6, PromoteLoop
  <2>2. t \in GoodStates
    BY <1>2, <1>4
  <2> QED
    BY <2>1, <2>2, DeleteNodesGood
<1> QED
  BY <1>7

-----------------------------------------------------------------------------
(* Every client is in a good state, always                                 *)

GoodClients == tree \in [Clients -> GoodStates] /\ ops \in 0 .. MaxOps

\* The document that the creator made.
LEMMA InitialFacts == InitialDoc \in Docs /\ Client(InitialDoc) \in States
<1> DEFINE at(n) == Cardinality({m \in Initial : m < n})
           map   == [n \in Ids |-> IF n \in Initial THEN NewEntry(NoEntry, Creator, Root, 0, at(n))
                                                    ELSE NoEntry]
           seen  == [NoDoc.seen EXCEPT ![Creator] = Cardinality(Initial)]
<1>1. IsFiniteSet(Initial) /\ Cardinality(Initial) \in Nat /\ Creator \in Clients
  BY IdsAssumption, InitialAssumption, FS_Subset, FS_CardinalityType
<1>2. ASSUME NEW n \in Ids
      PROVE  at(n) \in Nat
  <2>1. {m \in Initial : m < n} \in SUBSET Initial
    OBVIOUS
  <2> QED
    BY <1>1, <2>1, FS_Subset, FS_CardinalityType
<1> HIDE DEF at
<1>3. map \in [Ids -> Entries]
  BY <1>1, <1>2, EntryTypes DEF Nodes
<1>4. seen \in [Clients -> Nat]
  BY <1>1 DEF NoDoc
<1>5. InitialDoc = [map |-> map, seen |-> seen]
  BY DEF InitialDoc, at
<1> HIDE DEF map, seen
<1>6. InitialDoc \in Documents
  BY <1>3, <1>4, <1>5 DEF Documents
<1>7. Client(InitialDoc) \in States
  <2>1. \A T : <<>> \in Partial(T)
    <3> SUFFICES ASSUME NEW T PROVE <<>> \in Partial(T)
      OBVIOUS
    <3>1. <<>> \in [{} -> T]
      OBVIOUS
    <3> QED
      BY <3>1, PartialFacts
  <2>2. <<>> \in Updates
    BY EmptySeq DEF Updates
  <2>3. Live(InitialDoc) \subseteq Ids
    BY DEF Live
  <2> HIDE DEF InitialDoc
  <2> QED
    BY <1>6, <2>1, <2>2, <2>3 DEF Client, States
<1>8. \A n \in Ids : IsBare(InitialDoc.map[n])
  <2>1. \A n \in Ids : InitialDoc.map[n] = NoEntry \/ InitialDoc.map[n].live
    BY <1>1, <1>2, <1>5, EntryTypes DEF Nodes, map
  <2>2. Removed(NoEntry) = NoEntry
    BY DEF Removed, NoEntry
  <2> HIDE DEF InitialDoc
  <2> QED
    BY <2>1, <2>2 DEF IsBare
<1> QED
  BY <1>6, <1>7, <1>8 DEF Docs

\* Tree::new on it.
LEMMA InitGood == Init => GoodClients
<1> SUFFICES ASSUME Init PROVE GoodClients
  OBVIOUS
<1>1. Observed(Client(InitialDoc)) \subseteq GoodStates
  BY InitialFacts, ObservedGood
<1> QED
  BY <1>1, MaxOpsAssumption DEF Init, GoodClients

\* An operation that leaves good states keeps the clients good.
LEMMA StepGood ==
    ASSUME GoodClients, NEW c \in Clients, NEW e, NEW states \in SUBSET GoodStates,
           Step(c, e, states)
    PROVE  GoodClients'
BY MaxOpsAssumption DEF Step, GoodClients

\* Fields that the properties of a cache do not depend on.
LEMMA OtherFieldsGood ==
    ASSUME NEW s \in GoodStates
    PROVE  /\ \A H \in SUBSET Ids : [s EXCEPT !.handles = H] \in GoodStates
           /\ [s EXCEPT !.status = "stopped"] \in GoodStates
           /\ [s EXCEPT !.status = IF s.status = "open" THEN "open" ELSE "stopped"] \in GoodStates
           /\ \A d \in Documents : d.map = s.doc.map => [s EXCEPT !.doc = d] \in GoodStates
<1>1. s \in States /\ CachesTheDocument(s) /\ ShowsATree(s) /\ IsCurrent(s)
  BY DEF GoodStates
<1>2. ASSUME NEW t \in States, t.parent = s.parent, t.edges = s.edges, t.children = s.children,
             t.pending = s.pending, t.stale = s.stale, t.fresh = s.fresh,
             t.doc.map = s.doc.map, t.status = "open" => s.status = "open"
      PROVE  t \in GoodStates
  <2>1. Live(t.doc) = Live(s.doc)
    BY <1>2 DEF Live
  <2>2. CachesTheDocument(t)
    BY <1>1, <1>2, <2>1 DEF CachesTheDocument
  <2>3. ShowsATree(t)
    BY <1>1, <1>2, <2>1 DEF ShowsATree
  <2>4. IsCurrent(t)
    <3>1. Content(t.doc) = Content(s.doc)
      BY <1>2, <2>1 DEF Content
    <3>2. TieFree(t.doc) = TieFree(s.doc)
      BY <2>1, <3>1 DEF TieFree
    <3> QED
      BY <1>1, <1>2, <2>1, <3>1, <3>2 DEF IsCurrent, FollowsTheDocument
  <2> QED
    BY <2>2, <2>3, <2>4 DEF GoodStates
<1>3. ASSUME NEW H \in SUBSET Ids
      PROVE  [s EXCEPT !.handles = H] \in GoodStates
  <2> DEFINE t == [s EXCEPT !.handles = H]
  <2>1. /\ t \in States /\ t.parent = s.parent /\ t.edges = s.edges /\ t.children = s.children
        /\ t.pending = s.pending /\ t.stale = s.stale /\ t.fresh = s.fresh
        /\ t.doc = s.doc /\ t.status = s.status
    BY <1>1 DEF States
  <2> HIDE DEF t
  <2>2. t \in GoodStates
    BY <1>2, <2>1
  <2> QED
    BY <2>2 DEF t
<1>4. ASSUME NEW status \in {"open", "stopped"}, status = "open" => s.status = "open"
      PROVE  [s EXCEPT !.status = status] \in GoodStates
  <2> DEFINE t == [s EXCEPT !.status = status]
  <2>1. /\ t \in States /\ t.parent = s.parent /\ t.edges = s.edges /\ t.children = s.children
        /\ t.pending = s.pending /\ t.stale = s.stale /\ t.fresh = s.fresh
        /\ t.doc = s.doc /\ t.status = status
    BY <1>1, <1>4 DEF States
  <2> HIDE DEF t
  <2>2. t \in GoodStates
    BY <1>2, <1>4, <2>1
  <2> QED
    BY <2>2 DEF t
<1>5. ASSUME NEW d \in Documents, d.map = s.doc.map
      PROVE  [s EXCEPT !.doc = d] \in GoodStates
  <2> DEFINE t == [s EXCEPT !.doc = d]
  <2>1. /\ t \in States /\ t.parent = s.parent /\ t.edges = s.edges /\ t.children = s.children
        /\ t.pending = s.pending /\ t.stale = s.stale /\ t.fresh = s.fresh
        /\ t.doc = d /\ t.status = s.status
    BY <1>1 DEF States
  <2> HIDE DEF t
  <2>2. t \in GoodStates
    BY <1>2, <1>5, <2>1
  <2> QED
    BY <2>2 DEF t
<1> QED
  BY <1>3, <1>4, <1>5

\* Node::create_child and its variants.
LEMMA CreateChildGood ==
    ASSUME GoodClients, NEW c \in Clients, NEW n \in Ids, NEW p \in Nodes, NEW i \in Indices,
           CreateChild(c, n, p, i)
    PROVE  GoodClients'
<1> DEFINE s      == tree[c]
           made   == UpdateNode(c, s, n, p, i)
           states == IF s.status = "open"
                     THEN {[t EXCEPT !.handles = @ \cup {n}] : t \in made}
                     ELSE {s}
<1>1. s \in GoodStates /\ made \in SUBSET GoodStates
  BY IndicesAssumption, UpdateNodeGood DEF GoodClients, Nodes
<1>2. \A t \in GoodStates : [t EXCEPT !.handles = @ \cup {n}] \in GoodStates
  <2> SUFFICES ASSUME NEW t \in GoodStates
               PROVE  [t EXCEPT !.handles = t.handles \cup {n}] \in GoodStates
    OBVIOUS
  <2>1. t.handles \cup {n} \in SUBSET Ids
    BY DEF GoodStates, States
  <2> QED
    BY <2>1, OtherFieldsGood
<1>3. Step(c, [op |-> "create", client |-> c, node |-> n, under |-> p, index |-> i], states)
  BY DEF CreateChild
<1> HIDE DEF made
<1>4. states \in SUBSET GoodStates
  BY <1>1, <1>2
<1> HIDE DEF states
<1> QED
  BY <1>3, <1>4, StepGood

\* Node::move_before and move_after.
LEMMA MoveRelativeGood ==
    ASSUME GoodClients, NEW c \in Clients, NEW n \in Nodes, NEW m \in Ids, NEW i \in {0, 1},
           MoveRelative(c, n, m, i)
    PROVE  GoodClients'
<1> DEFINE s      == tree[c]
           p      == s.parent[m]
           at     == {j \in DOMAIN s.children[p] : s.children[p][j] = m}
           stuck  == m \notin DOMAIN s.parent \/ p \notin DOMAIN s.children \/ at = {}
           states == IF stuck THEN {[s EXCEPT !.status = "stopped"]}
                     ELSE UNION {UpdateNode(c, s, n, p, IndexBeside(j, i)) : j \in at}
<1>1. s \in GoodStates
  BY DEF GoodClients
<1>2. Step(c, [op |-> IF i = 0 THEN "before" ELSE "after", client |-> c, node |-> n, other |-> m],
           states)
  BY DEF MoveRelative
<1>3. CASE stuck
  <2>1. states = {[s EXCEPT !.status = "stopped"]}
    BY <1>3
  <2> HIDE DEF states, s
  <2>2. states \in SUBSET GoodStates
    BY <1>1, <2>1, OtherFieldsGood
  <2> QED
    BY <1>2, <2>2, StepGood
<1>4. CASE ~ stuck
  <2>1. p \in Nodes /\ s.children[p] \in Seq(Live(s.doc))
    BY <1>1, <1>4, DocumentFacts DEF GoodStates, States, CachesTheDocument
  <2>2. \A j \in at : IndexBeside(j, i) \in Nat
    <3>1. \A j \in at : j \in Nat \ {0}
      BY <2>1, LenProperties
    <3> QED
      BY <3>1 DEF IndexBeside
  <2>3. states = UNION {UpdateNode(c, s, n, p, IndexBeside(j, i)) : j \in at}
    BY <1>4
  <2> HIDE DEF states, p, at
  <2>4. states \in SUBSET GoodStates
    BY <1>1, <2>1, <2>2, <2>3, UpdateNodeGood
  <2> QED
    BY <1>2, <2>4, StepGood
<1> QED
  BY <1>3, <1>4

\* Node::move_to, delete and Tree::new, and what the network brings.
LEMMA NextGood ==
    ASSUME GoodClients, [Next]_vars
    PROVE  GoodClients'
<1>1. ASSUME NEW c \in Clients, NEW n \in Ids, NEW p \in Nodes, NEW i \in Indices,
             CreateChild(c, n, p, i)
      PROVE  GoodClients'
  BY <1>1, CreateChildGood
<1>2. ASSUME NEW c \in Clients, NEW n \in Nodes, NEW p \in Nodes, NEW i \in Indices,
             MoveTo(c, n, p, i)
      PROVE  GoodClients'
  <2>1. UpdateNode(c, tree[c], n, p, i) \in SUBSET GoodStates
    BY IndicesAssumption, UpdateNodeGood DEF GoodClients
  <2> QED
    BY <1>2, <2>1, StepGood DEF MoveTo
<1>3. ASSUME NEW c \in Clients, NEW n \in Nodes, NEW m \in Ids, NEW i \in {0, 1},
             MoveRelative(c, n, m, i)
      PROVE  GoodClients'
  BY <1>3, MoveRelativeGood
<1>4. ASSUME NEW c \in Clients, NEW n \in Ids, DeletePromote(c, n)
      PROVE  GoodClients'
  <2>1. Promote(c, tree[c], n) \in SUBSET GoodStates
    BY <1>4, PromoteGood DEF DeletePromote, GoodClients
  <2> QED
    BY <1>4, <2>1, StepGood DEF DeletePromote
<1>5. ASSUME NEW c \in Clients, NEW n \in Ids, DeleteCascade(c, n)
      PROVE  GoodClients'
  <2> DEFINE s      == tree[c]
             states == IF n \notin DOMAIN s.parent THEN {[s EXCEPT !.status = "stopped"]}
                       ELSE DeleteNodes(c, s, ToDelete(s, n))
  <2>1. s \in GoodStates
    BY DEF GoodClients
  <2>2. states \in SUBSET GoodStates
    BY <2>1, OtherFieldsGood, DeleteNodesGood
  <2>3. Step(c, [op |-> "cascade", client |-> c, node |-> n], states)
    BY <1>5 DEF DeleteCascade
  <2> HIDE DEF states
  <2> QED
    BY <2>2, <2>3, StepGood
<1>6. ASSUME NEW c \in Clients, Reopen(c)
      PROVE  GoodClients'
  <2> DEFINE fresh  == [tree[c] EXCEPT !.status = "open", !.pending = <<>>, !.handles = {}]
             opened == Observed(fresh)
             states == {[s EXCEPT !.status = IF s.status = "open" THEN "open" ELSE "stopped"]
                            : s \in opened}
  <2>1. fresh \in States
    <3>1. tree[c] \in States
      BY DEF GoodClients, GoodStates
    <3>2. <<>> \in Updates /\ {} \in SUBSET Ids
      BY EmptySeq DEF Updates
    <3> QED
      BY <3>1, <3>2 DEF States
  <2>2. opened \in SUBSET GoodStates
    BY <2>1, ObservedGood
  <2>3. Step(c, [op |-> "reopen", client |-> c], states)
    BY <1>6 DEF Reopen
  <2> HIDE DEF opened
  <2>4. states \in SUBSET GoodStates
    BY <2>2, OtherFieldsGood
  <2> HIDE DEF states
  <2> QED
    BY <2>3, <2>4, StepGood
<1>7. ASSUME NEW c \in Clients, NEW b \in Clients, NEW d \in tree[b].commits, Receive(c, d)
      PROVE  GoodClients'
  <2> DEFINE merged == Merge(tree[c].doc, d)
             s      == [tree[c] EXCEPT !.doc = merged]
  <2>1. tree[c] \in GoodStates /\ tree[c] \in States /\ d \in Documents /\ tree[c].doc \in Documents
    BY DEF GoodClients, GoodStates, States
  <2>2. merged \in Documents
    BY <2>1, MergeType
  <2>3. \/ \E t \in Observed(s) : tree' = [tree EXCEPT ![c] = t]
        \/ s.doc.map = tree[c].doc.map /\ tree' = [tree EXCEPT ![c] = s]
    BY <1>7 DEF Receive
  <2> HIDE DEF merged
  <2>4. s \in States /\ s.doc = merged
    BY <2>1, <2>2 DEF States
  <2>5. s.doc.map = tree[c].doc.map => s \in GoodStates
    BY <2>1, <2>2, <2>4, OtherFieldsGood
  <2>6. Observed(s) \subseteq GoodStates
    BY <2>4, ObservedGood
  <2> HIDE DEF s
  <2>7. \E t \in GoodStates : tree' = [tree EXCEPT ![c] = t]
    BY <2>3, <2>5, <2>6
  <2> QED
    BY <1>7, <2>7 DEF Receive, GoodClients
<1>8. CASE UNCHANGED vars
  BY <1>8 DEF vars, GoodClients
<1> QED
  BY <1>1, <1>2, <1>3, <1>4, <1>5, <1>6, <1>7, <1>8 DEF Next

\* The inductive invariant: the cache of every client, open or poisoned, has the
\* nodes of its document, and the cache of an open tree is a tree.
LEMMA GoodInvariant == Spec => []GoodClients
<1>1. GoodClients /\ [Next]_vars => GoodClients'
  BY NextGood
<1> QED
  BY <1>1, InitGood, PTL DEF Spec

\* Type correctness, for any number of clients, nodes and operations: in any
\* state of a client that operations and updates lead to, also one that is
\* poisoned or has panicked, the cached nodes are those of the document.
THEOREM TreeTypeCorrect == Spec => []TypeOK
<1>1. GoodClients => TypeOK
  BY DEF GoodClients, GoodStates, States, CachesTheDocument, TypeOK, Updates
<1> QED
  BY <1>1, GoodInvariant, PTL

\* What readers see of an open tree is a tree, whatever the other clients did
\* and in whatever order their updates came: every node leads to the root, is
\* once among the children of its parent and of no other node.
THEOREM OpenTreeAlwaysATree == Spec => []OpenTreeIsATree
<1>1. GoodClients => OpenTreeIsATree
  BY DEF GoodClients, GoodStates, CachesTheDocument, ShowsATree, OpenTreeIsATree
<1> QED
  BY <1>1, GoodInvariant, PTL

\* What an open tree caches is what its document says, the pending repairs
\* included: the edges that the next move of a node exceeds are those that the
\* other clients will merge.
THEOREM CacheAlwaysFollows == Spec => []CacheFollowsTheDocument
<1>1. GoodClients => CacheFollowsTheDocument
  BY DEF GoodClients, GoodStates, IsCurrent, CacheFollowsTheDocument
<1> QED
  BY <1>1, GoodInvariant, PTL

-----------------------------------------------------------------------------
(* Clients that have seen the same have the same tree                      *)

\* The parents and children that an open tree shows are those of some rebuild.
IsRebuilt(s) ==
    s.status = "open" /\ s.fresh =>
        \E carried \in Updates : \E b \in Rebuilds(Content(s.doc), carried) :
            b.ends = "built" /\ b.parent = s.parent /\ b.children = s.children

InAgreement(T) == Agrees([c \in Clients |-> T[c].doc], [c \in Clients |-> T[c].commits])

\* The states of a client that leave the documents in agreement.
Members(T, c) == {s \in GoodStates : IsRebuilt(s) /\ InAgreement([T EXCEPT ![c] = s])}

LEMMA TransactsAgrees ==
    ASSUME NEW T \in [Clients -> GoodStates], NEW c \in Clients, NEW s, NEW w,
           InAgreement([T EXCEPT ![c] = s]), Transacts(c, s, w)
    PROVE  InAgreement([T EXCEPT ![c] = w])
<1> DEFINE D  == [i \in Clients |-> [T EXCEPT ![c] = s][i].doc]
           C  == [i \in Clients |-> [T EXCEPT ![c] = s][i].commits]
           D2 == [i \in Clients |-> [T EXCEPT ![c] = w][i].doc]
           C2 == [i \in Clients |-> [T EXCEPT ![c] = w][i].commits]
<1>1. Agrees(D, C) /\ D[c] = s.doc /\ C[c] = s.commits
  BY DEF InAgreement
<1>2. D2 = [D EXCEPT ![c] = w.doc] /\ C2 = [C EXCEPT ![c] = w.commits]
  OBVIOUS
<1> HIDE DEF D, C
<1>3. CASE w.doc = s.doc /\ w.commits = s.commits
  <2>1. D \in [Clients -> Docs] /\ C \in [Clients -> SUBSET Docs]
    BY <1>1 DEF Agrees
  <2>2. D2 = D /\ C2 = C
    BY <1>1, <1>2, <1>3, <2>1
  <2> HIDE DEF D2, C2
  <2> QED
    BY <1>1, <2>2 DEF InAgreement, D2, C2
<1>4. ASSUME NEW map \in MapsOfEntries, MapGrown(c, s.doc.map, map),
             w.doc = Committed(c, s.doc, map), w.commits = s.commits \cup {w.doc}
      PROVE  Agrees(D2, C2)
  <2>1. \A n \in Ids : EntryGrown(c, D[c].map[n], map[n])
    BY <1>1, <1>4 DEF MapGrown
  <2>2. Agrees([D EXCEPT ![c] = Committed(c, D[c], map)],
               [C EXCEPT ![c] = @ \cup {Committed(c, D[c], map)}])
    BY <1>1, <2>1, CommitAgrees
  <2>3. D2 = [D EXCEPT ![c] = Committed(c, D[c], map)]
        /\ C2 = [C EXCEPT ![c] = @ \cup {Committed(c, D[c], map)}]
    BY <1>1, <1>2, <1>4
  <2> QED
    BY <2>2, <2>3
<1> QED
  BY <1>3, <1>4 DEF Transacts, InAgreement

LEMMA ObservedRebuilt ==
    ASSUME NEW s \in States, NEW t \in Observed(s)
    PROVE  IsRebuilt(t)
<1>1. PICK b \in Rebuilds(Content(s.doc), s.pending) :
          t = [s EXCEPT !.parent   = b.parent,
                        !.edges    = b.edges,
                        !.children = b.children,
                        !.pending  = b.pending,
                        !.stale    = Len(s.pending),
                        !.fresh    = TRUE,
                        !.handles  = s.handles \cup Live(s.doc),
                        !.status   = CASE b.ends = "built"    -> s.status
                                       [] b.ends = "bad_doc"  -> "poisoned"
                                       [] b.ends = "panicked" -> "stopped"]
  BY DEF Observed
<1>2. b.ends \in {"built", "bad_doc", "panicked"}
  <2>1. IsDoc(Content(s.doc)) /\ s.pending \in Updates
    BY DocumentFacts DEF States
  <2> QED
    BY <2>1, RebuildIsATree
<1>3. /\ t.doc = s.doc /\ t.parent = b.parent /\ t.children = b.children
      /\ t.status = "open" => b.ends = "built"
  BY <1>1, <1>2 DEF States
<1>4. s.pending \in Updates
  BY DEF States
<1> QED
  BY <1>1, <1>3, <1>4 DEF IsRebuilt

\* A transaction and its observer.
LEMMA ObservedMembers ==
    ASSUME NEW T \in [Clients -> GoodStates], NEW c \in Clients, NEW s \in States,
           InAgreement([T EXCEPT ![c] = s]), NEW t \in Observed(s)
    PROVE  t \in Members(T, c)
<1>1. t \in GoodStates /\ t.doc = s.doc /\ t.commits = s.commits
  BY ObservedGood
<1>2. Transacts(c, s, t)
  BY <1>1 DEF Transacts
<1>3. InAgreement([T EXCEPT ![c] = t])
  BY <1>2, TransactsAgrees
<1> QED
  BY <1>1, <1>3, ObservedRebuilt DEF Members

LEMMA CommittedMembers ==
    ASSUME NEW T \in [Clients -> GoodStates], NEW c \in Clients, NEW s \in Members(T, c),
           NEW map \in MapsOfEntries, MapGrown(c, s.doc.map, map),
           NEW t \in Observed(Commit(c, s, map))
    PROVE  t \in Members(T, c)
<1> DEFINE w == Commit(c, s, map)
<1>1. s \in GoodStates /\ s \in States /\ InAgreement([T EXCEPT ![c] = s])
  BY DEF Members, GoodStates
<1>2. w \in States /\ w.doc = Committed(c, s.doc, map) /\ w.commits = s.commits \cup {w.doc}
  BY <1>1, CommitType
<1> HIDE DEF w
<1>3. Transacts(c, s, w)
  BY <1>2 DEF Transacts
<1>4. InAgreement([T EXCEPT ![c] = w])
  BY <1>1, <1>3, TransactsAgrees
<1> QED
  BY <1>2, <1>4, ObservedMembers DEF w

\* States that differ in nothing that is shown of the tree.
LEMMA SameTreeMembers ==
    ASSUME NEW T \in [Clients -> GoodStates], NEW c \in Clients, NEW s \in Members(T, c),
           NEW t \in GoodStates, t.doc = s.doc, t.commits = s.commits,
           t.status = "open" => s.status = "open",
           t.fresh => s.fresh, t.parent = s.parent, t.children = s.children
    PROVE  t \in Members(T, c)
<1>1. IsRebuilt(s) /\ InAgreement([T EXCEPT ![c] = s])
  BY DEF Members
<1>2. IsRebuilt(t)
  BY <1>1 DEF IsRebuilt
<1>3. Transacts(c, s, t)
  BY DEF Transacts
<1>4. InAgreement([T EXCEPT ![c] = t])
  BY <1>1, <1>3, TransactsAgrees
<1> QED
  BY <1>2, <1>4 DEF Members

\* Placing a node writes to its container, or makes one.
LEMMA PlacedGrows ==
    ASSUME NEW c \in Clients, NEW s \in GoodStates, NEW n \in Ids, NEW p \in Nodes, NEW index \in Nat
    PROVE  MapGrown(c, s.doc.map, Placed(c, s, n, p, index))
<1> DEFINE e == s.doc.map[n]
           f == IF n \in DOMAIN s.parent
                THEN [e EXCEPT !.em[p] = Insert(@, c, NextEdge(s.edges[n])),
                               !.fi = Insert(@, c, IndexAt(s, p, index))]
                ELSE NewEntry(e, c, p, 0, IndexAt(s, p, index))
<1>1. s.doc.map \in [Ids -> Entries] /\ e \in Entries
  BY DEF GoodStates, States, Documents
<1>2. Placed(c, s, n, p, index) = [s.doc.map EXCEPT ![n] = f]
  BY DEF Placed
<1>3. EntryGrown(c, e, f)
  <2>1. CASE n \in DOMAIN s.parent
    <3>1. f = [e EXCEPT !.em = [e.em EXCEPT ![p] = Insert(e.em[p], c, NextEdge(s.edges[n]))],
                        !.fi = Insert(e.fi, c, IndexAt(s, p, index))]
      BY <2>1
    <3>2. /\ f.live = e.live /\ f.path = e.path
          /\ f.em = [e.em EXCEPT ![p] = Insert(e.em[p], c, NextEdge(s.edges[n]))]
          /\ f.fi = Insert(e.fi, c, IndexAt(s, p, index))
      <4> HIDE DEF e, f
      <4> QED
        BY <1>1, <3>1 DEF Entries
    <3>3. e.live
      <4>1. n \in {Root} \cup Live(s.doc) /\ n # Root
        BY <2>1, IdsAssumption DEF GoodStates, CachesTheDocument, Root
      <4> QED
        BY <4>1 DEF Live
    <3> HIDE DEF e, f
    <3>4. \A k \in Keys : RegGrown(c, Reg(e, k), Reg(f, k))
      BY <1>1, <3>2, EntryWritten
    <3> QED
      BY <3>2, <3>3, <3>4 DEF EntryGrown
  <2>2. CASE n \notin DOMAIN s.parent
    <3>1. f = NewEntry(e, c, p, 0, IndexAt(s, p, index))
      BY <2>2
    <3> HIDE DEF e, f
    <3> QED
      BY <1>1, <3>1, NewEntryGrows
  <2> QED
    BY <2>1, <2>2
<1> HIDE DEF f
<1>4. \A m \in Ids : Placed(c, s, n, p, index)[m] = IF m = n THEN f ELSE s.doc.map[m]
  BY <1>1, <1>2
<1> QED
  BY <1>3, <1>4 DEF MapGrown, EntryGrown

LEMMA UpdateNodeMembers ==
    ASSUME NEW T \in [Clients -> GoodStates], NEW c \in Clients, NEW s \in Members(T, c),
           NEW n \in Nodes, NEW p \in Nodes, NEW index \in Nat
    PROVE  UpdateNode(c, s, n, p, index) \subseteq Members(T, c)
<1> DEFINE w == WritePending(c, s)
<1>1. s \in GoodStates /\ IsRebuilt(s) /\ InAgreement([T EXCEPT ![c] = s])
  BY DEF Members
<1>2. w \in GoodStates /\ Transacts(c, s, w) /\ (w = s \/ w.status = "stopped" \/ ~ w.fresh)
  BY <1>1, WritePendingGood
<1> HIDE DEF w
<1>3. w \in Members(T, c)
  <2>1. IsRebuilt(w)
    BY <1>1, <1>2 DEF IsRebuilt
  <2> QED
    BY <1>1, <1>2, <2>1, TransactsAgrees DEF Members
<1>4. CASE s.status # "open"
  BY <1>4 DEF UpdateNode
<1>5. CASE s.status = "open" /\ w.status = "stopped"
  BY <1>3, <1>5 DEF UpdateNode, w
<1>6. CASE s.status = "open" /\ w.status # "stopped" /\ n = Root
  <2> DEFINE t == [w EXCEPT !.edges[Root] = AddEdge(@, p)]
  <2>1. UpdateNode(c, s, n, p, index) = {t}
    BY <1>6 DEF UpdateNode, w
  <2>2. t \in GoodStates
    BY <1>1, <2>1, UpdateNodeGood
  <2>3. /\ t.doc = w.doc /\ t.commits = w.commits /\ t.status = w.status /\ t.fresh = w.fresh
        /\ t.parent = w.parent /\ t.children = w.children
    BY <1>2 DEF GoodStates, States
  <2> HIDE DEF t
  <2>4. t \in Members(T, c)
    BY <1>3, <2>2, <2>3, SameTreeMembers
  <2> QED
    BY <2>1, <2>4
<1>7. CASE s.status = "open" /\ w.status # "stopped" /\ n # Root
  <2>1. n \in Ids
    BY <1>7 DEF Nodes
  <2>2. Placed(c, w, n, p, index) \in MapsOfEntries
        /\ MapGrown(c, w.doc.map, Placed(c, w, n, p, index))
    BY <1>2, <2>1, PlacedType, PlacedGrows
  <2>3. UpdateNode(c, s, n, p, index) = Observed(Commit(c, w, Placed(c, w, n, p, index)))
    BY <1>7 DEF UpdateNode, w
  <2> QED
    BY <1>3, <2>2, <2>3, CommittedMembers
<1> QED
  BY <1>4, <1>5, <1>6, <1>7

LEMMA DeleteNodesMembers ==
    ASSUME NEW T \in [Clients -> GoodStates], NEW c \in Clients, NEW s \in Members(T, c), NEW ids
    PROVE  DeleteNodes(c, s, ids) \subseteq Members(T, c)
<1>1. CASE s.status # "open" \/ ids \cap Live(s.doc) = {}
  BY <1>1 DEF DeleteNodes
<1>2. CASE ~ (s.status # "open" \/ ids \cap Live(s.doc) = {})
  <2> DEFINE map == [n \in Ids |-> IF n \in ids /\ s.doc.map[n].live
                                   THEN Removed(s.doc.map[n]) ELSE s.doc.map[n]]
  <2>1. \A n \in Ids : s.doc.map[n] \in Entries
    BY DEF Members, GoodStates, States, Documents
  <2>2. map \in MapsOfEntries
    BY <2>1, EntryTypes DEF MapsOfEntries
  <2>3. MapGrown(c, s.doc.map, map)
    BY DEF MapGrown, EntryGrown
  <2>4. DeleteNodes(c, s, ids) = Observed(Commit(c, s, map))
    BY <1>2 DEF DeleteNodes
  <2> HIDE DEF map
  <2> QED
    BY <2>2, <2>3, <2>4, CommittedMembers
<1> QED
  BY <1>1, <1>2

LEMMA PromoteMembers ==
    ASSUME NEW T \in [Clients -> GoodStates], NEW c \in Clients, NEW s \in Members(T, c),
           NEW n \in DOMAIN s.parent, s.parent[n] # None
    PROVE  Promote(c, s, n) \subseteq Members(T, c)
<1> DEFINE kids == s.children[n]
           N    == Len(kids)
           M    == Members(T, c)
           D    == [i \in 0 .. N |-> M]
<1>0. s \in GoodStates /\ M \in SUBSET GoodStates
  BY DEF Members
<1>1. /\ kids \in Seq(Live(s.doc)) /\ s.parent[n] \in Nodes
      /\ Live(s.doc) \subseteq Nodes /\ End \in Nat
  <2>1. End \in Nat
    BY IdsAssumption, FS_CardinalityType DEF End
  <2>2. Live(s.doc) \subseteq Nodes
    BY <1>0, DocumentFacts DEF GoodStates, States
  <2> QED
    BY <1>0, <2>1, <2>2 DEF GoodStates, CachesTheDocument
<1>2. N \in Nat
  BY <1>1, LenProperties
<1>3. \A i \in 1 .. N : \A t \in M : UpdateNode(c, t, kids[i], s.parent[n], End) \subseteq M
  <2> SUFFICES ASSUME NEW i \in 1 .. N, NEW t \in M
               PROVE  UpdateNode(c, t, kids[i], s.parent[n], End) \subseteq M
    OBVIOUS
  <2>1. kids[i] \in Nodes
    BY <1>1, ElementOfSeq
  <2> QED
    BY <1>1, <2>1, UpdateNodeMembers
<1>4. s \in M
  OBVIOUS
<1> HIDE DEF M
<1>5. D \in [0 .. N -> SUBSET GoodStates] /\ \A i \in 0 .. N : D[i] = M
  BY <1>0
<1>6. \A i \in 1 .. N : \A t \in D[i - 1] :
          UpdateNode(c, t, kids[i], s.parent[n], End) \subseteq D[i]
  <2>1. \A i \in 1 .. N : D[i] = M /\ D[i - 1] = M
    BY <1>2
  <2> QED
    BY <1>3, <2>1
<1>7. s \in D[0]
  BY <1>2, <1>4
<1> HIDE DEF D
<1>8. ASSUME NEW u \in Promote(c, s, n)
      PROVE  u \in M
  <2>1. PICK t \in D[N] : u \in DeleteNodes(c, t, {n})
    BY <1>0, <1>1, <1>5, <1>6, <1>7, PromoteLoop
  <2>2. t \in M
    BY <1>2, <1>5
  <2> QED
    BY <2>1, <2>2, DeleteNodesMembers DEF M
<1> QED
  BY <1>8 DEF M

\* The inductive invariant: the documents agree, and what is shown of them is
\* rebuilt from them.
Converging ==
    /\ GoodClients
    /\ \A c \in Clients : IsRebuilt(tree[c])
    /\ InAgreement(tree)

LEMMA ConvergingMembers ==
    ASSUME Converging, NEW c \in Clients
    PROVE  tree \in [Clients -> GoodStates] /\ tree[c] \in Members(tree, c)
<1>1. tree \in [Clients -> GoodStates]
  BY DEF Converging, GoodClients
<1>2. [tree EXCEPT ![c] = tree[c]] = tree
  BY <1>1
<1> QED
  BY <1>1, <1>2 DEF Converging, Members

LEMMA MemberConverging ==
    ASSUME Converging, NEW c \in Clients, NEW s \in Members(tree, c),
           tree' = [tree EXCEPT ![c] = s], ops' \in 0 .. MaxOps
    PROVE  Converging'
<1>1. tree \in [Clients -> GoodStates] /\ \A d \in Clients : IsRebuilt(tree[d])
  BY DEF Converging, GoodClients
<1>2. s \in GoodStates /\ IsRebuilt(s) /\ InAgreement([tree EXCEPT ![c] = s])
  BY DEF Members
<1>3. tree' \in [Clients -> GoodStates]
  BY <1>1, <1>2
<1>4. \A d \in Clients : IsRebuilt(tree'[d])
  BY <1>1, <1>2
<1>5. InAgreement(tree')
  BY <1>2
<1> QED
  BY <1>3, <1>4, <1>5 DEF Converging, GoodClients

LEMMA StepConverging ==
    ASSUME Converging, NEW c \in Clients, NEW e, NEW states \in SUBSET Members(tree, c),
           Step(c, e, states)
    PROVE  Converging'
<1>1. PICK s \in states : tree' = [tree EXCEPT ![c] = s]
  BY DEF Step
<1>2. ops' \in 0 .. MaxOps
  BY MaxOpsAssumption DEF Step, Converging, GoodClients
<1> QED
  BY <1>1, <1>2, MemberConverging

\* Fields that are not of the tree.
LEMMA OtherFieldsMembers ==
    ASSUME NEW T \in [Clients -> GoodStates], NEW c \in Clients, NEW s \in Members(T, c)
    PROVE  /\ \A H \in SUBSET Ids : [s EXCEPT !.handles = H] \in Members(T, c)
           /\ [s EXCEPT !.status = "stopped"] \in Members(T, c)
           /\ [s EXCEPT !.status = IF s.status = "open" THEN "open" ELSE "stopped"] \in Members(T, c)
<1>1. s \in GoodStates /\ s \in States
  BY DEF Members, GoodStates
<1>2. ASSUME NEW H \in SUBSET Ids
      PROVE  [s EXCEPT !.handles = H] \in Members(T, c)
  <2> DEFINE t == [s EXCEPT !.handles = H]
  <2>1. /\ t.doc = s.doc /\ t.commits = s.commits /\ t.status = s.status /\ t.fresh = s.fresh
        /\ t.parent = s.parent /\ t.children = s.children /\ t \in GoodStates
    BY <1>1, OtherFieldsGood DEF States
  <2> HIDE DEF t
  <2>2. t \in Members(T, c)
    BY <2>1, SameTreeMembers
  <2> QED
    BY <2>2 DEF t
<1>3. ASSUME NEW status \in {"open", "stopped"}, status = "open" => s.status = "open",
             [s EXCEPT !.status = status] \in GoodStates
      PROVE  [s EXCEPT !.status = status] \in Members(T, c)
  <2> DEFINE t == [s EXCEPT !.status = status]
  <2>1. /\ t.doc = s.doc /\ t.commits = s.commits /\ t.status = status /\ t.fresh = s.fresh
        /\ t.parent = s.parent /\ t.children = s.children /\ t \in GoodStates
    BY <1>1, <1>3 DEF States
  <2> HIDE DEF t
  <2>2. t \in Members(T, c)
    BY <1>3, <2>1, SameTreeMembers
  <2> QED
    BY <2>2 DEF t
<1>4. /\ [s EXCEPT !.status = "stopped"] \in GoodStates
      /\ [s EXCEPT !.status = IF s.status = "open" THEN "open" ELSE "stopped"] \in GoodStates
  BY <1>1, OtherFieldsGood
<1> QED
  BY <1>2, <1>3, <1>4

LEMMA InitConverging == Init => Converging
<1> SUFFICES ASSUME Init PROVE Converging
  OBVIOUS
<1> DEFINE d == InitialDoc
<1>1. GoodClients
  BY InitGood
<1>2. d \in Docs /\ Client(d) \in States /\ Client(d).doc = d /\ Client(d).commits = {d}
  BY InitialFacts DEF Client
<1> HIDE DEF d
<1>3. \A c \in Clients : tree[c] \in Observed(Client(d))
  BY DEF Init, d
<1>4. \A c \in Clients : IsRebuilt(tree[c]) /\ tree[c].doc = d /\ tree[c].commits = {d}
  BY <1>2, <1>3, ObservedGood, ObservedRebuilt
<1>5. InAgreement(tree)
  <2> DEFINE D == [c \in Clients |-> tree[c].doc]
             C == [c \in Clients |-> tree[c].commits]
  <2>1. D = [c \in Clients |-> d] /\ C = [c \in Clients |-> {d}]
    BY <1>4
  <2> HIDE DEF D, C
  <2>2. Agrees(D, C)
    BY <1>2, <2>1, SameDocsAgree
  <2> QED
    BY <2>2 DEF InAgreement, D, C
<1> QED
  BY <1>1, <1>4, <1>5 DEF Converging

LEMMA NextConverging ==
    ASSUME Converging, [Next]_vars
    PROVE  Converging'
<1>0. /\ tree \in [Clients -> GoodStates]
      /\ \A c \in Clients : tree[c] \in Members(tree, c) /\ tree[c] \in GoodStates
  BY ConvergingMembers DEF Converging, GoodClients
<1>1. ASSUME NEW c \in Clients, NEW n \in Ids, NEW p \in Nodes, NEW i \in Indices,
             CreateChild(c, n, p, i)
      PROVE  Converging'
  <2> DEFINE s      == tree[c]
             made   == UpdateNode(c, s, n, p, i)
             states == IF s.status = "open"
                       THEN {[t EXCEPT !.handles = @ \cup {n}] : t \in made}
                       ELSE {s}
  <2>1. made \in SUBSET Members(tree, c)
    BY <1>0, IndicesAssumption, UpdateNodeMembers DEF Nodes
  <2>2. \A t \in Members(tree, c) : [t EXCEPT !.handles = @ \cup {n}] \in Members(tree, c)
    <3> SUFFICES ASSUME NEW t \in Members(tree, c)
                 PROVE  [t EXCEPT !.handles = t.handles \cup {n}] \in Members(tree, c)
      OBVIOUS
    <3>1. t.handles \cup {n} \in SUBSET Ids
      BY DEF Members, GoodStates, States
    <3> QED
      BY <1>0, <3>1, OtherFieldsMembers
  <2>3. Step(c, [op |-> "create", client |-> c, node |-> n, under |-> p, index |-> i], states)
    BY <1>1 DEF CreateChild
  <2> HIDE DEF made
  <2>4. states \in SUBSET Members(tree, c)
    BY <1>0, <2>1, <2>2
  <2> HIDE DEF states
  <2> QED
    BY <2>3, <2>4, StepConverging
<1>2. ASSUME NEW c \in Clients, NEW n \in Nodes, NEW p \in Nodes, NEW i \in Indices,
             MoveTo(c, n, p, i)
      PROVE  Converging'
  <2>1. UpdateNode(c, tree[c], n, p, i) \in SUBSET Members(tree, c)
    BY <1>0, IndicesAssumption, UpdateNodeMembers
  <2> QED
    BY <1>2, <2>1, StepConverging DEF MoveTo
<1>3. ASSUME NEW c \in Clients, NEW n \in Nodes, NEW m \in Ids, NEW i \in {0, 1},
             MoveRelative(c, n, m, i)
      PROVE  Converging'
  <2> DEFINE s      == tree[c]
             p      == s.parent[m]
             at     == {j \in DOMAIN s.children[p] : s.children[p][j] = m}
             stuck  == m \notin DOMAIN s.parent \/ p \notin DOMAIN s.children \/ at = {}
             states == IF stuck THEN {[s EXCEPT !.status = "stopped"]}
                       ELSE UNION {UpdateNode(c, s, n, p, IndexBeside(j, i)) : j \in at}
  <2>1. s \in GoodStates /\ s \in Members(tree, c)
    BY <1>0
  <2>2. Step(c, [op |-> IF i = 0 THEN "before" ELSE "after", client |-> c, node |-> n, other |-> m],
             states)
    BY <1>3 DEF MoveRelative
  <2>3. states \in SUBSET Members(tree, c)
    <3>1. CASE stuck
      <4>1. states = {[s EXCEPT !.status = "stopped"]}
        BY <3>1
      <4> HIDE DEF states, s
      <4>2. [s EXCEPT !.status = "stopped"] \in Members(tree, c)
        BY <1>0, <2>1, OtherFieldsMembers
      <4> QED
        BY <4>1, <4>2
    <3>2. CASE ~ stuck
      <4>1. p \in Nodes /\ s.children[p] \in Seq(Live(s.doc))
        BY <2>1, <3>2, DocumentFacts DEF GoodStates, States, CachesTheDocument
      <4>2. \A j \in at : IndexBeside(j, i) \in Nat
        <5>1. \A j \in at : j \in Nat \ {0}
          BY <4>1, LenProperties
        <5> QED
          BY <5>1 DEF IndexBeside
      <4>3. states = UNION {UpdateNode(c, s, n, p, IndexBeside(j, i)) : j \in at}
        BY <3>2
      <4> HIDE DEF states, p, at, s
      <4> QED
        BY <1>0, <2>1, <4>1, <4>2, <4>3, UpdateNodeMembers
    <3> QED
      BY <3>1, <3>2
  <2> HIDE DEF states
  <2> QED
    BY <2>2, <2>3, StepConverging
<1>4. ASSUME NEW c \in Clients, NEW n \in Ids, DeletePromote(c, n)
      PROVE  Converging'
  <2>1. Promote(c, tree[c], n) \in SUBSET Members(tree, c)
    BY <1>0, <1>4, PromoteMembers DEF DeletePromote
  <2> QED
    BY <1>4, <2>1, StepConverging DEF DeletePromote
<1>5. ASSUME NEW c \in Clients, NEW n \in Ids, DeleteCascade(c, n)
      PROVE  Converging'
  <2> DEFINE s      == tree[c]
             states == IF n \notin DOMAIN s.parent THEN {[s EXCEPT !.status = "stopped"]}
                       ELSE DeleteNodes(c, s, ToDelete(s, n))
  <2>1. states \in SUBSET Members(tree, c)
    BY <1>0, OtherFieldsMembers, DeleteNodesMembers
  <2>2. Step(c, [op |-> "cascade", client |-> c, node |-> n], states)
    BY <1>5 DEF DeleteCascade
  <2> HIDE DEF states
  <2> QED
    BY <2>1, <2>2, StepConverging
<1>6. ASSUME NEW c \in Clients, Reopen(c)
      PROVE  Converging'
  <2> DEFINE fresh  == [tree[c] EXCEPT !.status = "open", !.pending = <<>>, !.handles = {}]
             opened == Observed(fresh)
             states == {[s EXCEPT !.status = IF s.status = "open" THEN "open" ELSE "stopped"]
                            : s \in opened}
  <2>1. fresh \in States /\ fresh.doc = tree[c].doc /\ fresh.commits = tree[c].commits
    BY <1>0, EmptySeq DEF GoodStates, States, Updates
  <2>2. InAgreement([tree EXCEPT ![c] = fresh])
    <3>1. InAgreement([tree EXCEPT ![c] = tree[c]])
      BY <1>0 DEF Members
    <3>2. Transacts(c, tree[c], fresh)
      BY <2>1 DEF Transacts
    <3> HIDE DEF fresh
    <3> QED
      BY <1>0, <3>1, <3>2, TransactsAgrees
  <2>3. opened \in SUBSET Members(tree, c)
    BY <1>0, <2>1, <2>2, ObservedMembers
  <2>4. Step(c, [op |-> "reopen", client |-> c], states)
    BY <1>6 DEF Reopen
  <2> HIDE DEF opened
  <2>5. states \in SUBSET Members(tree, c)
    BY <1>0, <2>3, OtherFieldsMembers
  <2> HIDE DEF states
  <2> QED
    BY <2>4, <2>5, StepConverging
<1>7. ASSUME NEW c \in Clients, NEW b \in Clients, NEW d \in tree[b].commits, Receive(c, d)
      PROVE  Converging'
  <2> DEFINE merged == Merge(tree[c].doc, d)
             s      == [tree[c] EXCEPT !.doc = merged]
             D      == [i \in Clients |-> tree[i].doc]
             C      == [i \in Clients |-> tree[i].commits]
  <2>1. tree[c] \in GoodStates /\ tree[c] \in States /\ d \in Documents /\ tree[c].doc \in Documents
    BY <1>0 DEF GoodStates, States
  <2>2. merged \in Documents
    BY <2>1, MergeType
  <2>3. \/ \E t \in Observed(s) : tree' = [tree EXCEPT ![c] = t]
        \/ s.doc.map = tree[c].doc.map /\ tree' = [tree EXCEPT ![c] = s]
    BY <1>7 DEF Receive
  <2>4. Agrees(D, C) /\ d \in Known(D, C) /\ D[c] = tree[c].doc
    BY DEF Converging, InAgreement, Known
  <2> HIDE DEF merged
  <2>5. /\ s \in States /\ s.doc = merged /\ s.commits = tree[c].commits /\ s.status = tree[c].status
        /\ s.fresh = tree[c].fresh /\ s.parent = tree[c].parent /\ s.children = tree[c].children
    BY <2>1, <2>2 DEF States
  <2>6. /\ [D EXCEPT ![c] = merged] = [i \in Clients |-> [tree EXCEPT ![c] = s][i].doc]
        /\ C = [i \in Clients |-> [tree EXCEPT ![c] = s][i].commits]
    <3> HIDE DEF s
    <3> QED
      BY <1>0, <2>5
  <2>7. InAgreement([tree EXCEPT ![c] = s])
    <3>1. Agrees([D EXCEPT ![c] = Merge(@, d)], C)
      <4> HIDE DEF D, C
      <4> QED
        BY <2>4, ReceiveAgrees
    <3>2. [D EXCEPT ![c] = Merge(@, d)] = [D EXCEPT ![c] = merged]
      BY DEF merged
    <3> HIDE DEF D, C, s
    <3> QED
      BY <2>6, <3>1, <3>2 DEF InAgreement
  <2>8. s.doc.map = tree[c].doc.map => s \in Members(tree, c)
    <3> SUFFICES ASSUME s.doc.map = tree[c].doc.map PROVE s \in Members(tree, c)
      OBVIOUS
    <3>1. s \in GoodStates
      BY <2>1, <2>2, <2>5, OtherFieldsGood
    <3>2. Content(s.doc) = Content(tree[c].doc)
      BY <2>5 DEF Content, Live
    <3> HIDE DEF s
    <3>3. IsRebuilt(s)
      BY <1>0, <2>5, <3>2 DEF Members, IsRebuilt
    <3> QED
      BY <2>7, <3>1, <3>3 DEF Members
  <2> HIDE DEF s
  <2>9. Observed(s) \subseteq Members(tree, c)
    BY <1>0, <2>5, <2>7, ObservedMembers
  <2>10. \E t \in Members(tree, c) : tree' = [tree EXCEPT ![c] = t]
    BY <2>3, <2>8, <2>9
  <2>11. ops' \in 0 .. MaxOps
    BY <1>7 DEF Receive, Converging, GoodClients
  <2> QED
    BY <2>10, <2>11, MemberConverging
<1>8. CASE UNCHANGED vars
  BY <1>8 DEF vars, Converging, GoodClients
<1> QED
  BY <1>1, <1>2, <1>3, <1>4, <1>5, <1>6, <1>7, <1>8 DEF Next

\* Trees converge where edges do not tie, for any number of clients, whatever
\* they do and in whatever order, and however often, they get each other's
\* updates: open trees that have seen the same updates are of the same document
\* and show the same parents and the same order of siblings.
THEOREM TieFreeTreesAlwaysConverge == Spec => []TieFreeTreesConverge
<1>1. ASSUME Converging PROVE TieFreeTreesConverge
  <2> SUFFICES ASSUME NEW c \in Clients, NEW d \in Clients,
                      tree[c].doc.seen = tree[d].doc.seen,
                      tree[c].status = "open", tree[d].status = "open",
                      tree[c].fresh, tree[d].fresh, TieFree(tree[c].doc)
               PROVE  /\ tree[c].doc = tree[d].doc
                      /\ tree[c].parent = tree[d].parent
                      /\ tree[c].children = tree[d].children
    BY DEF TieFreeTreesConverge
  <2> DEFINE D == [i \in Clients |-> tree[i].doc]
             C == [i \in Clients |-> tree[i].commits]
             content == Content(tree[c].doc)
  <2>1. Agrees(D, C) /\ tree[c].doc \in Known(D, C) /\ tree[d].doc \in Known(D, C)
    BY <1>1 DEF Converging, InAgreement, Known
  <2> HIDE DEF D, C
  <2>2. tree[c].doc = tree[d].doc
    BY <2>1, SameSeenSameDoc
  <2>3. tree[c].doc \in Documents
    BY <1>1 DEF Converging, GoodClients, GoodStates, States
  <2>4. IsDoc(content) /\ DOMAIN content = Live(tree[c].doc)
    BY <2>3, DocumentFacts
  <2>5. NoTies(content)
    BY <2>4 DEF TieFree, NoTies
  <2>6. Content(tree[d].doc) = content
    BY <2>2
  <2> HIDE DEF content
  <2>7. PICK pb \in Updates :
            \E b \in Rebuilds(content, pb) :
                b.ends = "built" /\ b.parent = tree[c].parent /\ b.children = tree[c].children
    BY <1>1 DEF Converging, IsRebuilt, content
  <2>8. PICK pc \in Updates :
            \E b \in Rebuilds(content, pc) :
                b.ends = "built" /\ b.parent = tree[d].parent /\ b.children = tree[d].children
    BY <1>1, <2>6 DEF Converging, IsRebuilt
  <2>9. tree[c].parent = tree[d].parent /\ tree[c].children = tree[d].children
    BY <2>4, <2>5, <2>7, <2>8, TieFreeRebuild
  <2> QED
    BY <2>2, <2>9
<1>2. Converging /\ [Next]_vars => Converging'
  BY NextConverging
<1> QED
  BY <1>1, <1>2, InitConverging, PTL DEF Spec

\* The documents that may be on their way between clients.
Exchanged == UNION {tree[c].commits \cup {tree[c].doc} : c \in Clients}

\* The documents of clients, as they are and as they were after each transaction,
\* merge to the same one in whatever order, in whatever groups and however often
\* they are applied.
UpdatesCommute ==
    \A d, e, f \in Exchanged :
        /\ Merge(d, d) = d
        /\ Merge(d, e) = Merge(e, d)
        /\ Merge(Merge(d, e), f) = Merge(d, Merge(e, f))

\* No client needs a document in one order rather than another, whatever the
\* clients do.
THEOREM UpdatesAlwaysCommute == Spec => []UpdatesCommute
<1>1. ASSUME Converging PROVE UpdatesCommute
  <2> DEFINE D == [i \in Clients |-> tree[i].doc]
             C == [i \in Clients |-> tree[i].commits]
  <2>1. Agrees(D, C) /\ Exchanged = Known(D, C)
    BY <1>1 DEF Converging, InAgreement, Known, Exchanged
  <2> HIDE DEF D, C
  <2>2. Exchanged \subseteq Docs
    BY <2>1 DEF Agrees, Known
  <2> SUFFICES ASSUME NEW d \in Exchanged, NEW e \in Exchanged, NEW f \in Exchanged
               PROVE  /\ Merge(d, d) = d
                      /\ Merge(d, e) = Merge(e, d)
                      /\ Merge(Merge(d, e), f) = Merge(d, Merge(e, f))
    BY DEF UpdatesCommute
  <2>3. ASSUME NEW n \in Ids
        PROVE  /\ MergeEntries(d.map[n], d.map[n]) = d.map[n]
               /\ MergeEntries(d.map[n], e.map[n]) = MergeEntries(e.map[n], d.map[n])
               /\ MergeEntries(MergeEntries(d.map[n], e.map[n]), f.map[n])
                    = MergeEntries(d.map[n], MergeEntries(e.map[n], f.map[n]))
    <3>1. /\ d.map[n] \in Entries /\ e.map[n] \in Entries /\ f.map[n] \in Entries
          /\ IsBare(d.map[n]) /\ IsBare(e.map[n]) /\ IsBare(f.map[n])
      BY <2>2, DocsFacts
    <3>2. /\ SameItems(d.map[n], e.map[n]) /\ SameItems(d.map[n], f.map[n])
          /\ SameItems(e.map[n], f.map[n])
      BY <2>1 DEF Agrees, ItemsAgree
    <3> QED
      BY <3>1, <3>2, MergeIsAJoin
  <2>4. /\ d.map \in [Ids -> Entries] /\ d.seen \in [Clients -> Nat]
        /\ e.seen \in [Clients -> Nat] /\ f.seen \in [Clients -> Nat]
        /\ d = [map |-> d.map, seen |-> d.seen]
    BY <2>2, DocsFacts DEF Documents
  <2> DEFINE Later(a, b) == [c \in Clients |-> IF a[c] < b[c] THEN b[c] ELSE a[c]]
             Both(a, b)  == [n \in Ids |-> MergeEntries(a[n], b[n])]
  <2>5. \A a, b : Merge(a, b) = [map |-> Both(a.map, b.map), seen |-> Later(a.seen, b.seen)]
    BY DEF Merge
  <2>6. /\ Both(d.map, d.map) = d.map
        /\ Both(d.map, e.map) = Both(e.map, d.map)
        /\ Both(Both(d.map, e.map), f.map) = Both(d.map, Both(e.map, f.map))
    BY <2>3, <2>4
  <2>7. /\ Later(d.seen, d.seen) = d.seen
        /\ Later(d.seen, e.seen) = Later(e.seen, d.seen)
        /\ Later(Later(d.seen, e.seen), f.seen) = Later(d.seen, Later(e.seen, f.seen))
    BY <2>4
  <2> HIDE DEF Later, Both
  <2> QED
    BY <2>4, <2>5, <2>6, <2>7
<1>2. Converging /\ [Next]_vars => Converging'
  BY NextConverging
<1> QED
  BY <1>1, <1>2, InitConverging, PTL DEF Spec
=============================================================================
