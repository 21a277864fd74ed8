---------------------------- MODULE CallsProofs ----------------------------
(***************************************************************************)
(* Proofs about Calls, of a tree that is not cloned: Objects = {"tree"}.   *)
(*                                                                         *)
(* The invariant annotates what is left to do with a proof outline: a note *)
(* before every instruction and one at the end, which say what the thread  *)
(* holds there, where in update_node it is, whether the document has       *)
(* changed since the tree was built, and which listeners are being told of *)
(* something. Each instruction leads from the note before it to the one    *)
(* after it; a call that a listener makes puts its own outline in front of *)
(* the one of its caller. One thing has no outline, and ends the calls: a  *)
(* subscription that is dropped with the callback that owns it, in the     *)
(* drop of another one, waits for that drop.                               *)
(***************************************************************************)
EXTENDS Calls, FiniteSetTheorems, SequenceTheorems, WellFoundedInduction, TLAPS

-----------------------------------------------------------------------------
(* Notes                                                                   *)

Counts   == Nat \cup {-1}
Held     == [Locks -> Counts]
Phases   == {"no", "begun", "off", "failing", "subscribing", "dead"}
News     == {"no", "changed", "building"}
Messages == SUBSET {"updated", "poisoned"}

\* The locks held; where in update_node, or in subscribe, the thread is, or
\* that it does not get there, as it has to wait for itself; whether a change
\* of the document is still to be seen, or being seen, by the observer; what
\* the listeners on the stack have been told.
Notes == [locks : Held, phase : Phases, news : News, told : Messages]

Nothing == [l \in Locks |-> 0]
Final == [locks |-> Nothing, phase |-> "no", news |-> "no", told |-> {}]

InPhase(h, p)  == [h EXCEPT !.phase = p]
WithNews(h, w) == [h EXCEPT !.news = w]
Telling(h, e)  == [h EXCEPT !.told = e]
Dead(h) == InPhase(h, "dead")

\* The note after a lock is taken or freed.
With(f, l, x) == [f EXCEPT ![l] = x]
Unheld(x) == IF x = -1 THEN 0 ELSE x - 1

Wrote(h, l)   == [h EXCEPT !.locks = With(h.locks, l, -1)]
HasRead(h, l) == [h EXCEPT !.locks = With(h.locks, l, h.locks[l] + 1)]
Freed(h, l)   == [h EXCEPT !.locks = With(h.locks, l, Unheld(h.locks[l]))]

\* What the notes depend on: whether update_node gave up midway, whether the
\* tree is poisoned, and who listens.
Contexts == [failed : BOOLEAN, poisoned : BOOLEAN, listeners : SUBSET Nat]

\* Where a thread may have to wait: in a listener; and for the structure only
\* in one that is told that update_node gave up.
Waits(c, h, l) ==
    /\ h.told # {}
    /\ l = "structure" => c.failed /\ "poisoned" \in h.told

\* Where calls may be made: in a listener, or where nothing is held. The
\* structure is free, but in a listener that is told that update_node gave up;
\* and where the new tree is told, the transaction is still open.
Calm(c, h) ==
    /\ h.phase = "no" /\ h.news = "no"
    /\ "updated" \in h.told => h.locks["txn"] # 0
    /\ h.locks["map"] = -1 => h.locks["txn"] # 0
    /\ h.locks["structure"] # 0 => c.failed /\ "poisoned" \in h.told
    /\ h.told = {} => h.locks = Nothing
    /\ h.told # {} => h.locks["listeners"] >= 1

-----------------------------------------------------------------------------
(* Instructions                                                            *)

\* What listeners an instruction is among are told.
Tells(i) == IF i.do = "callbacks" THEN {i.event} ELSE {}

\* The write lock of the listeners is held for one change of them only.
ListenersFree(h, i) ==
    h.locks["listeners"] = -1 =>
        i.do \in {"insert", "remove"} \/ (i.do = "free" /\ i.lock = "listeners")

TakesAndFrees(c, h, i, k) ==
    /\ i.do = "write" =>
        IF h.locks[i.lock] = 0 THEN k = Wrote(h, i.lock)
        ELSE Waits(c, h, i.lock) /\ k.phase = "dead"
    /\ i.do = "read" =>
        IF h.locks[i.lock] >= 0 THEN k = HasRead(h, i.lock)
        ELSE Waits(c, h, i.lock) /\ k.phase = "dead"
    /\ i.do = "free" => h.locks[i.lock] # 0 /\ k = Freed(h, i.lock)

\* A call that has done nothing yet.
Enters(c, h, i, k) ==
    i.do \in {"update", "delete", "set", "get"} => Calm(c, h) /\ k = h

\* The body of update_node.
UpdatesNode(c, h, i, k) ==
    /\ i.do \in {"repairs", "write_repairs"} =>
        /\ h.phase = "begun" /\ h.news = "no" /\ h.locks["structure"] = -1
    /\ i.do = "repairs" =>
        LET calm == InPhase(Freed(h, "structure"), "no") IN
            Calm(c, calm) /\ k = calm
    /\ i.do = "write_repairs" =>
        /\ h.locks["txn"] = -1 /\ h.locks["map"] = -1 /\ "updated" \notin h.told
        /\ k = InPhase(Freed(Freed(Freed(h, "structure"), "map"), "txn"), "no")
    /\ i.do = "place" =>
        /\ h.phase \in {"begun", "off"} /\ h.news = "no"
        /\ h.locks["txn"] = -1 /\ "updated" \notin h.told
        /\ k = WithNews(h, "changed")
    /\ i.do = "enable" =>
        /\ h.phase \in {"begun", "off"}
        /\ k = InPhase(h, "no")

\* The bodies of the other calls.
Accesses(c, h, i, k) ==
    /\ i.do \in {"delete_ids", "external", "put", "look", "look_as"} =>
        h.phase = "no" /\ h.news = "no"
    /\ i.do \in {"delete_ids", "external"} =>
        "updated" \notin h.told /\ k = WithNews(h, "changed")
    /\ i.do = "put" =>
        /\ \A l \in {"txn", "map", "structure"} : h.locks[l] = -1
        /\ "updated" \notin h.told
        /\ k = Freed(Freed(Freed(h, "structure"), "map"), "txn")
    /\ i.do \in {"look", "look_as"} =>
        /\ \A l \in {"txn", "map", "structure"} : h.locks[l] >= 1
        /\ k = Freed(Freed(Freed(h, "structure"), "map"), "txn")
        /\ Calm(c, k)

\* A transaction ends; the observer is off, has nothing to do, or will find
\* the structure free.
Commits(c, h, i, k) ==
    i.do = "commit" =>
        /\ "updated" \notin h.told
        /\ h.locks["txn"] # 0 /\ h.locks["map"] >= 0
        /\ \/ h.phase \in {"off", "failing"} /\ h.news = "no"
           \/ /\ h.phase = "no"
              /\ h.locks["structure"] = 0 \/ c.failed
              /\ h.news = "no" \/ (h.news = "changed" /\ i.origin # "yrs_tree_data")
        /\ k = WithNews(h, "no")

\* The observer.
Observes(c, h, i, k) ==
    /\ i.do = "build" =>
        /\ h.phase = "no" /\ h.news = "building"
        /\ h.locks["structure"] = -1 /\ h.locks["map"] >= 1 /\ h.locks["txn"] # 0
        /\ k = WithNews(Freed(Freed(h, "structure"), "map"), "no")
    /\ i.do = "poison" =>
        /\ h.phase \in {"no", "failing"}
        /\ "updated" \in h.told => h.locks["txn"] # 0
        /\ h.locks["map"] = -1 => h.locks["txn"] # 0
        /\ h.locks["structure"] # 0 => h.phase = "failing" \/ c.failed
        /\ k = WithNews(InPhase(h, "no"), "no")

\* Listeners are told, and come and go.
Listens(c, h, i, k) ==
    /\ i.do = "callbacks" =>
        /\ Calm(c, h) /\ i.left \subseteq c.listeners
        /\ i.event = "poisoned" => c.poisoned
        /\ k = Telling(h, k.told)
    /\ i.do = "callback" =>
        Calm(c, h) /\ i.event \in h.told /\ i.to \in c.listeners /\ k = h
    /\ i.do = "insert" =>
        /\ h.phase = "subscribing" /\ h.told = {} /\ h.locks["listeners"] = -1
        /\ k = InPhase(h, "no")
    /\ i.do = "remove" =>
        h.phase = "no" /\ h.told = {} /\ h.locks["listeners"] = -1 /\ k = h

\* What holds before the instruction i is h, and what holds after it is k.
Valid(c, h, i, k) ==
    /\ h.told = k.told \cup Tells(i)
    /\ h.phase # "dead" =>
        /\ ListenersFree(h, i) /\ TakesAndFrees(c, h, i, k) /\ Enters(c, h, i, k)
        /\ UpdatesNode(c, h, i, k) /\ Accesses(c, h, i, k) /\ Commits(c, h, i, k)
        /\ Observes(c, h, i, k) /\ Listens(c, h, i, k)

\* An outline of a list of instructions that begins with the note h.
IsOutline(c, list, at, h) ==
    /\ at \in [1 .. Len(list) + 1 -> Notes]
    /\ at[1] = h /\ at[Len(list) + 1] = Final
    /\ \A i \in DOMAIN list : Valid(c, at[i], list[i], at[i + 1])

Outlined(c, list, h) == list \in Seq(Instructions) /\ \E at : IsOutline(c, list, at, h)

-----------------------------------------------------------------------------
(* The invariant                                                           *)

Context == [failed |-> FailedMidway, poisoned |-> poisoned["tree"], listeners |-> subs.listeners]

\* What the note of the next instruction says of the state.
Holds(h) ==
    /\ h.locks = held /\ h.phase # "dead"
    /\ h.phase \in {"begun", "off", "failing"} => ~ poisoned["tree"]
    /\ ~ poisoned["tree"] => (disabled["tree"] <=> h.phase \in {"off", "failing"})
    /\ ~ poisoned["tree"] /\ "tree" \in tree.missed =>
        h.news = "building" \/ (h.news = "changed" /\ doc.changes = {"tree"})
    /\ "updated" \in h.told => tree.missed = {}
    /\ h.phase = "subscribing" => subs.next_id < MaxSubscribed

CallsInv == TypeOK /\ \E h \in Notes : Holds(h) /\ Outlined(Context, todo, h)

\* A subscription is being dropped in the drop of another one.
Stuck == TypeOK /\ DropWithinDrop

-----------------------------------------------------------------------------
(* Outlines of longer and of shorter lists                                 *)

\* Taking and freeing locks makes notes of notes.
LEMMA NoteTypes ==
    ASSUME NEW h \in Notes, NEW l \in Locks
    PROVE  /\ Wrote(h, l) \in Notes
           /\ h.locks[l] >= 0 => HasRead(h, l) \in Notes
           /\ h.locks[l] # 0 => Freed(h, l) \in Notes
<1>1. h.locks \in Held /\ h.locks[l] \in Nat \cup {-1}
  BY DEF Notes, Held, Counts, Phases, News, Messages
<1>2. With(h.locks, l, -1) \in Held
  BY <1>1 DEF With, Unheld, Held, Counts
<1>3. h.locks[l] >= 0 => With(h.locks, l, h.locks[l] + 1) \in Held
  BY <1>1 DEF With, Unheld, Held, Counts
<1>4. h.locks[l] # 0 => With(h.locks, l, Unheld(h.locks[l])) \in Held
  BY <1>1 DEF With, Unheld, Held, Counts
<1>5. \A f \in Held : [h EXCEPT !.locks = f] \in Notes
  BY DEF Notes, Held, Counts, Phases, News, Messages
<1> QED
  BY <1>2, <1>3, <1>4, <1>5 DEF Wrote, HasRead, Freed

\* The outline of a list without its first instruction.
LEMMA Pop ==
    ASSUME NEW c, NEW list, NEW h, list # <<>>, Outlined(c, list, h)
    PROVE  /\ Head(list) \in Instructions /\ h \in Notes
           /\ \E k \in Notes : Valid(c, h, Head(list), k) /\ Outlined(c, Tail(list), k)
<1>1. PICK at : IsOutline(c, list, at, h)
  BY DEF Outlined
<1>2. list \in Seq(Instructions)
  BY DEF Outlined
<1>3. /\ Len(list) \in Nat /\ Len(list) >= 1 /\ 1 \in DOMAIN list
      /\ Tail(list) \in Seq(Instructions) /\ Len(Tail(list)) = Len(list) - 1
      /\ Head(list) = list[1] /\ list[1] \in Instructions
      /\ \A i \in 1 .. Len(list) - 1 : Tail(list)[i] = list[i + 1]
  BY <1>2
<1> DEFINE rest == [i \in 1 .. Len(list) |-> at[i + 1]]
<1>4. /\ at \in [1 .. Len(list) + 1 -> Notes] /\ at[1] = h /\ at[Len(list) + 1] = Final
      /\ \A i \in 1 .. Len(list) : Valid(c, at[i], list[i], at[i + 1])
  BY <1>1, <1>2 DEF IsOutline
<1>5. IsOutline(c, Tail(list), rest, at[2])
  <2>1. rest \in [1 .. Len(Tail(list)) + 1 -> Notes]
    BY <1>3, <1>4
  <2>2. rest[1] = at[2] /\ rest[Len(Tail(list)) + 1] = Final
    BY <1>3, <1>4
  <2>3. ASSUME NEW i \in 1 .. Len(list) - 1
        PROVE  Valid(c, rest[i], Tail(list)[i], rest[i + 1])
    <3>1. i + 1 \in 1 .. Len(list) /\ i \in 1 .. Len(list)
      BY <1>3
    <3>2. rest[i] = at[i + 1] /\ rest[i + 1] = at[i + 2] /\ Tail(list)[i] = list[i + 1]
      BY <1>3, <3>1
    <3> HIDE DEF rest
    <3>3. Valid(c, at[i + 1], list[i + 1], at[(i + 1) + 1])
      BY <1>4, <3>1
    <3>4. (i + 1) + 1 = i + 2
      BY <1>3
    <3> QED
      BY <3>2, <3>3, <3>4
  <2>4. DOMAIN Tail(list) = 1 .. Len(list) - 1
    BY <1>3
  <2> QED
    BY <2>1, <2>2, <2>3, <2>4 DEF IsOutline
<1>6. Valid(c, h, Head(list), at[2]) /\ at[2] \in Notes /\ h \in Notes
  <2>1. Valid(c, at[1], list[1], at[1 + 1])
    BY <1>3, <1>4
  <2> QED
    BY <1>3, <1>4, <2>1
<1> QED
  BY <1>3, <1>5, <1>6 DEF Outlined

\* An instruction in front of a list.
Onto(i, list) == <<i>> \o list

\* The outline of a list with one more instruction in front.
LEMMA Push ==
    ASSUME NEW c, NEW list, NEW h \in Notes, NEW k \in Notes, NEW i \in Instructions,
           Valid(c, h, i, k), Outlined(c, list, k)
    PROVE  Outlined(c, Onto(i, list), h)
<1>1. PICK at : IsOutline(c, list, at, k)
  BY DEF Outlined
<1>2. list \in Seq(Instructions) /\ Len(list) \in Nat
  BY DEF Outlined
<1> DEFINE more == <<i>> \o list
           longer == [j \in 1 .. Len(list) + 2 |-> IF j = 1 THEN h ELSE at[j - 1]]
<1>3. /\ more \in Seq(Instructions) /\ Len(more) = Len(list) + 1 /\ more[1] = i
      /\ \A j \in 1 .. Len(list) : more[j + 1] = list[j]
      /\ DOMAIN more = 1 .. Len(list) + 1
  BY <1>2
<1>4. /\ at \in [1 .. Len(list) + 1 -> Notes] /\ at[1] = k /\ at[Len(list) + 1] = Final
      /\ \A j \in 1 .. Len(list) : Valid(c, at[j], list[j], at[j + 1])
  BY <1>1, <1>2 DEF IsOutline
<1>5. longer \in [1 .. Len(list) + 2 -> Notes]
  BY <1>2, <1>4
<1>6. longer[1] = h /\ longer[Len(list) + 2] = Final /\ longer[2] = k
  BY <1>2, <1>4
<1>7. \A j \in 1 .. Len(list) + 1 : longer[j + 1] = at[j]
  BY <1>2
<1> HIDE DEF longer, more
<1>8. ASSUME NEW j \in 1 .. Len(list) + 1
      PROVE  Valid(c, longer[j], more[j], longer[j + 1])
  <2>1. CASE j = 1
    BY <1>3, <1>6, <2>1
  <2>2. CASE j # 1
    <3>1. j - 1 \in 1 .. Len(list) /\ (j - 1) + 1 = j
      BY <1>2, <2>2
    <3>2. more[j] = list[j - 1]
      BY <1>3, <3>1
    <3>3. longer[j] = at[j - 1] /\ longer[j + 1] = at[j]
      BY <1>2, <1>7, <3>1
    <3>4. Valid(c, at[j - 1], list[j - 1], at[(j - 1) + 1])
      BY <1>4, <3>1
    <3> QED
      BY <3>1, <3>2, <3>3, <3>4
  <2> QED
    BY <2>1, <2>2
<1>9. IsOutline(c, more, longer, h)
  <2>1. (Len(list) + 1) + 1 = Len(list) + 2
    BY <1>2
  <2> QED
    BY <1>3, <1>5, <1>6, <1>8, <2>1 DEF IsOutline
<1> QED
  BY <1>3, <1>9 DEF Outlined, more, Onto

\* There is nothing left to do exactly at the final note.
LEMMA Ends ==
    ASSUME NEW c, NEW h
    PROVE  Outlined(c, <<>>, h) <=> h = Final
<1>1. ASSUME Outlined(c, <<>>, h) PROVE h = Final
  BY <1>1 DEF Outlined, IsOutline
<1>2. Outlined(c, <<>>, Final)
  <2> DEFINE at == [i \in 1 .. 1 |-> Final]
  <2>1. Final \in Notes
    BY DEF Final, Nothing, Notes, Held, Counts, Phases, News, Messages
  <2>2. at \in [1 .. 1 -> Notes] /\ at[1] = Final
    BY <2>1
  <2> HIDE DEF at
  <2>3. IsOutline(c, <<>>, at, Final)
    BY <2>2 DEF IsOutline
  <2> QED
    BY <2>3 DEF Outlined
<1> QED
  BY <1>1, <1>2

\* Every non-empty set of naturals has a least element.
LEMMA LeastNatural ==
    ASSUME NEW T \in SUBSET Nat, T # {}
    PROVE  \E n \in T : \A m \in T : n <= m
<1>1. PICK n \in T : \A m \in T : ~ (<<m, n>> \in OpToRel(<, Nat))
  BY NatLessThanWellFounded, WFMin
<1>2. \A m \in T : ~ (m < n)
  BY <1>1 DEF OpToRel
<1> QED
  BY <1>2

\* Where listeners have been told of something, they are being called.
LEMMA ToldByCallbacks ==
    ASSUME NEW c, NEW list, NEW h, NEW e \in h.told, Outlined(c, list, h)
    PROVE  \E i \in DOMAIN list : list[i].do = "callbacks" /\ list[i].event = e
<1>1. PICK at : IsOutline(c, list, at, h)
  BY DEF Outlined
<1>2. Len(list) \in Nat /\ DOMAIN list = 1 .. Len(list)
  BY DEF Outlined
<1>3. /\ at[1] = h /\ at[Len(list) + 1] = Final
      /\ \A i \in 1 .. Len(list) : at[i].told = at[i + 1].told \cup Tells(list[i])
  BY <1>1, <1>2 DEF IsOutline, Valid
<1> DEFINE T == {j \in 1 .. Len(list) + 1 : e \notin at[j].told}
<1>4. T \in SUBSET Nat /\ Len(list) + 1 \in T
  BY <1>2, <1>3 DEF Final
<1> HIDE DEF T
<1>5. PICK j \in T : \A m \in T : j <= m
  BY <1>4, LeastNatural
<1>6. j \in 1 .. Len(list) + 1 /\ j # 1 /\ e \notin at[j].told
  BY <1>3, <1>5 DEF T
<1>7. j - 1 \in 1 .. Len(list) /\ (j - 1) + 1 = j
  BY <1>2, <1>6
<1>8. e \in at[j - 1].told
  <2>1. j - 1 \notin T
    BY <1>4, <1>5, <1>7
  <2> QED
    BY <1>7, <2>1 DEF T
<1>9. e \in Tells(list[j - 1])
  BY <1>3, <1>6, <1>7, <1>8
<1> QED
  BY <1>2, <1>7, <1>9 DEF Tells

\* Where listeners have not been told of anything, none are being called.
LEMMA NobodyTold ==
    ASSUME NEW c, NEW list, NEW at, NEW h, h.told = {}, IsOutline(c, list, at, h),
           list \in Seq(Instructions)
    PROVE  \A i \in 1 .. Len(list) + 1 : at[i].told = {}
<1>1. Len(list) \in Nat /\ DOMAIN list = 1 .. Len(list)
  OBVIOUS
<1>2. /\ at[1] = h
      /\ \A i \in 1 .. Len(list) : at[i].told = at[i + 1].told \cup Tells(list[i])
  BY <1>1 DEF IsOutline, Valid
<1> DEFINE T == {j \in 1 .. Len(list) + 1 : at[j].told # {}}
<1> SUFFICES ASSUME T # {} PROVE FALSE
  OBVIOUS
<1>3. T \in SUBSET Nat
  BY <1>1
<1> HIDE DEF T
<1>4. PICK j \in T : \A m \in T : j <= m
  BY <1>3, LeastNatural
<1>5. j \in 1 .. Len(list) + 1 /\ j # 1 /\ at[j].told # {}
  BY <1>2, <1>4 DEF T
<1>6. j - 1 \in 1 .. Len(list) /\ (j - 1) + 1 = j
  BY <1>1, <1>5
<1>7. at[j - 1].told = {}
  <2>1. j - 1 \notin T
    BY <1>3, <1>4, <1>6
  <2> QED
    BY <1>6, <2>1 DEF T
<1> QED
  BY <1>2, <1>5, <1>6, <1>7

\* An outline holds in other contexts too: when the tree has been poisoned, and
\* when listeners come and go while none is told anything.
LEMMA OtherContext ==
    ASSUME NEW c \in Contexts, NEW d \in Contexts, NEW list, NEW h,
           c.failed => d.failed, c.poisoned => d.poisoned,
           c.listeners = d.listeners \/ h.told = {},
           Outlined(c, list, h)
    PROVE  Outlined(d, list, h)
<1>1. PICK at : IsOutline(c, list, at, h)
  BY DEF Outlined
<1>2. list \in Seq(Instructions) /\ Len(list) \in Nat /\ DOMAIN list = 1 .. Len(list)
  BY DEF Outlined
<1>3. ASSUME NEW i \in 1 .. Len(list)
      PROVE  Valid(d, at[i], list[i], at[i + 1])
  <2>1. Valid(c, at[i], list[i], at[i + 1])
    BY <1>1, <1>2 DEF IsOutline
  <2>2. c.listeners = d.listeners
        \/ (list[i].do # "callbacks" /\ at[i].told = {})
    <3>1. CASE h.told = {}
      <4>1. at[i].told = {}
        BY <1>1, <1>2, <3>1, NobodyTold
      <4>2. Tells(list[i]) = {}
        BY <2>1, <4>1 DEF Valid
      <4> QED
        BY <4>1, <4>2 DEF Tells
    <3> QED
      BY <3>1
  <2> DEFINE a == at[i]
             b == at[i + 1]
             x == list[i]
  <2> HIDE DEF a, b, x
  <2>3. \A g : Calm(c, g) => Calm(d, g)
    BY DEF Calm
  <2>4. \A g, l : Waits(c, g, l) => Waits(d, g, l)
    BY DEF Waits
  <2>5. TakesAndFrees(c, a, x, b) => TakesAndFrees(d, a, x, b)
    BY <2>4 DEF TakesAndFrees
  <2>6. Enters(c, a, x, b) => Enters(d, a, x, b)
    BY <2>3 DEF Enters
  <2>7. UpdatesNode(c, a, x, b) => UpdatesNode(d, a, x, b)
    BY <2>3 DEF UpdatesNode
  <2>8. Accesses(c, a, x, b) => Accesses(d, a, x, b)
    BY <2>3 DEF Accesses
  <2>9. Commits(c, a, x, b) => Commits(d, a, x, b)
    BY DEF Commits
  <2>10. Observes(c, a, x, b) => Observes(d, a, x, b)
    BY DEF Observes
  <2>11. Listens(c, a, x, b) => Listens(d, a, x, b)
    BY <2>2, <2>3 DEF Listens, a, x
  <2> QED
    BY <2>1, <2>5, <2>6, <2>7, <2>8, <2>9, <2>10, <2>11 DEF Valid, a, b, x
<1> QED
  BY <1>1, <1>2, <1>3 DEF IsOutline, Outlined

-----------------------------------------------------------------------------
(* Outlines of lists with a lock taken or freed in front                   *)

\* What the thread does not get to, since it waits for itself.
Skipped(c, list, told) ==
    \A h \in Notes : h.phase = "dead" /\ h.told = told => Outlined(c, list, h)

\* The list has an outline in which these have been told.
Follows(c, list, told) ==
    Skipped(c, list, told) \/ \E k \in Notes : k.told = told /\ Outlined(c, list, k)

LEMMA PushSkipped ==
    ASSUME NEW c, NEW list, NEW told \in Messages,
           NEW i \in Instructions, i.do # "callbacks", Follows(c, list, told)
    PROVE  Skipped(c, Onto(i, list), told)
<1> USE DEF Follows
<1>1. PICK k \in Notes : k.told = told /\ Outlined(c, list, k)
  <2> DEFINE d == [Final EXCEPT !.phase = "dead", !.told = told]
  <2>1. d \in Notes /\ d.phase = "dead" /\ d.told = told
    BY DEF Notes, Final, Held, Nothing, Counts, Phases, News, Messages
  <2> QED
    BY <2>1 DEF Skipped
<1>2. ASSUME NEW h \in Notes, h.phase = "dead", h.told = told
      PROVE  Valid(c, h, i, k)
  BY <1>1, <1>2 DEF Valid, Tells
<1> QED
  BY <1>1, <1>2, Push DEF Skipped

LEMMA LockInstructions ==
    ASSUME NEW l \in Locks
    PROVE  /\ Write(l) \in Instructions /\ Write(l).do = "write" /\ Write(l).lock = l
           /\ Read(l) \in Instructions /\ Read(l).do = "read" /\ Read(l).lock = l
           /\ Free(l) \in Instructions /\ Free(l).do = "free" /\ Free(l).lock = l
  BY DEF Write, Read, Free, Instructions

\* A lock is written where it is free, or where the thread may wait.
LEMMA PushWrite ==
    ASSUME NEW c, NEW list, NEW h \in Notes, NEW l \in Locks,
           h.locks["listeners"] # -1,
           h.locks[l] = 0 => Outlined(c, list, Wrote(h, l)),
           h.locks[l] # 0 => Waits(c, h, l) /\ Skipped(c, list, h.told)
    PROVE  Outlined(c, Onto(Write(l), list), h)
<1> DEFINE k == IF h.locks[l] = 0 THEN Wrote(h, l) ELSE Dead(h)
<1>1. k \in Notes /\ k.told = h.told /\ (h.locks[l] # 0 => k.phase = "dead")
  BY NoteTypes DEF Wrote, Dead, InPhase, Notes, Held, Counts, Phases, News, Messages
<1>2. Valid(c, h, Write(l), k)
  BY <1>1, LockInstructions
     DEF Valid, Tells, ListenersFree, TakesAndFrees, Enters, UpdatesNode, Accesses, Commits,
         Observes, Listens, Dead, Notes, Held, Counts, Phases, News, Messages
<1>3. Outlined(c, list, k)
  BY <1>1 DEF Skipped
<1> QED
  BY <1>1, <1>2, <1>3, Push, LockInstructions

LEMMA PushRead ==
    ASSUME NEW c, NEW list, NEW h \in Notes, NEW l \in Locks,
           h.locks["listeners"] # -1,
           h.locks[l] >= 0 => Outlined(c, list, HasRead(h, l)),
           h.locks[l] = -1 => Waits(c, h, l) /\ Skipped(c, list, h.told)
    PROVE  Outlined(c, Onto(Read(l), list), h)
<1> DEFINE k == IF h.locks[l] >= 0 THEN HasRead(h, l) ELSE Dead(h)
<1>1. h.locks[l] \in Nat \cup {-1}
  BY DEF Notes, Held, Counts
<1>2. k \in Notes /\ k.told = h.told /\ (h.locks[l] = -1 => k.phase = "dead")
  <2>1. Dead(h) \in Notes /\ Dead(h).told = h.told /\ Dead(h).phase = "dead"
    BY DEF Dead, InPhase, Notes, Phases
  <2>2. HasRead(h, l).told = h.told
    BY DEF HasRead, Notes
  <2> QED
    BY <1>1, <2>1, <2>2, NoteTypes
<1>3. Valid(c, h, Read(l), k)
  BY <1>1, <1>2, LockInstructions
     DEF Valid, Tells, ListenersFree, TakesAndFrees, Enters, UpdatesNode, Accesses, Commits,
         Observes, Listens, Dead, Notes, Held, Counts, Phases, News, Messages
<1>4. Outlined(c, list, k)
  BY <1>1, <1>2 DEF Skipped
<1> QED
  BY <1>2, <1>3, <1>4, Push, LockInstructions

LEMMA PushFree ==
    ASSUME NEW c, NEW list, NEW h \in Notes, NEW l \in Locks,
           h.locks["listeners"] # -1 \/ l = "listeners", h.locks[l] # 0,
           Outlined(c, list, Freed(h, l))
    PROVE  Outlined(c, Onto(Free(l), list), h)
<1>1. Freed(h, l) \in Notes /\ Freed(h, l).told = h.told
  BY NoteTypes DEF Freed, Notes, Held, Counts, Phases, News, Messages
<1>2. Valid(c, h, Free(l), Freed(h, l))
  BY <1>1, LockInstructions
     DEF Valid, Tells, ListenersFree, TakesAndFrees, Enters, UpdatesNode, Accesses, Commits,
         Observes, Listens
<1> QED
  BY <1>1, <1>2, Push, LockInstructions

-----------------------------------------------------------------------------
(* Lists in front of others                                                *)

LEMMA Unfold2 ==
    ASSUME NEW r \in Seq(Instructions), NEW x \in Instructions, NEW y \in Instructions
    PROVE  <<x, y>> \o r = Onto(x, Onto(y, r))
<1>1. <<x>> \in Seq(Instructions) /\ <<y>> \in Seq(Instructions) /\ <<x, y>> \in Seq(Instructions)
  OBVIOUS
<1>2. <<x, y>> = <<x>> \o <<y>>
  <2>1. <<x>> \o <<y>> \in Seq(Instructions) /\ Len(<<x>> \o <<y>>) = 2
    BY <1>1
  <2>2. (<<x>> \o <<y>>)[1] = x /\ (<<x>> \o <<y>>)[2] = y
    BY <1>1
  <2>3. \A i \in 1 .. 2 : (<<x>> \o <<y>>)[i] = <<x, y>>[i]
    BY <2>2
  <2> QED
    BY <1>1, <2>1, <2>3, SeqEqual
<1>3. (<<x>> \o <<y>>) \o r = <<x>> \o (<<y>> \o r)
  BY <1>1, ConcatAssociative
<1> QED
  BY <1>2, <1>3 DEF Onto

LEMMA Unfold3 ==
    ASSUME NEW r \in Seq(Instructions), NEW x \in Instructions, NEW y \in Instructions,
           NEW z \in Instructions
    PROVE  <<x, y, z>> \o r = Onto(x, Onto(y, Onto(z, r)))
<1>1. <<x>> \in Seq(Instructions) /\ <<y, z>> \in Seq(Instructions)
  OBVIOUS
<1>2. <<x, y, z>> = <<x>> \o <<y, z>>
  OBVIOUS
<1>3. (<<x>> \o <<y, z>>) \o r = <<x>> \o (<<y, z>> \o r)
  BY <1>1, ConcatAssociative
<1>4. <<y, z>> \o r = Onto(y, Onto(z, r))
  BY Unfold2
<1> QED
  BY <1>2, <1>3, <1>4 DEF Onto

LEMMA Unfold4 ==
    ASSUME NEW r \in Seq(Instructions), NEW x \in Instructions, NEW y \in Instructions,
           NEW z \in Instructions, NEW u \in Instructions
    PROVE  <<x, y, z, u>> \o r = Onto(x, Onto(y, Onto(z, Onto(u, r))))
<1>1. <<x>> \in Seq(Instructions) /\ <<y, z, u>> \in Seq(Instructions)
  OBVIOUS
<1>2. <<x, y, z, u>> = <<x>> \o <<y, z, u>>
  OBVIOUS
<1>3. (<<x>> \o <<y, z, u>>) \o r = <<x>> \o (<<y, z, u>> \o r)
  BY <1>1, ConcatAssociative
<1>4. <<y, z, u>> \o r = Onto(y, Onto(z, Onto(u, r)))
  BY Unfold3
<1> QED
  BY <1>2, <1>3, <1>4 DEF Onto

LEMMA Unfold5 ==
    ASSUME NEW r \in Seq(Instructions), NEW x \in Instructions, NEW y \in Instructions,
           NEW z \in Instructions, NEW u \in Instructions, NEW v \in Instructions
    PROVE  <<x, y, z, u, v>> \o r = Onto(x, Onto(y, Onto(z, Onto(u, Onto(v, r)))))
<1>1. <<x>> \in Seq(Instructions) /\ <<y, z, u, v>> \in Seq(Instructions)
  OBVIOUS
<1>2. <<x, y, z, u, v>> = <<x>> \o <<y, z, u, v>>
  OBVIOUS
<1>3. (<<x>> \o <<y, z, u, v>>) \o r = <<x>> \o (<<y, z, u, v>> \o r)
  BY <1>1, ConcatAssociative
<1>4. <<y, z, u, v>> \o r = Onto(y, Onto(z, Onto(u, Onto(v, r))))
  BY Unfold4
<1> QED
  BY <1>2, <1>3, <1>4 DEF Onto

-----------------------------------------------------------------------------
(* Notes written out                                                       *)

LocksAt(t, m, n, s) ==
    [l \in Locks |-> CASE l = "txn" -> t [] l = "map" -> m
                       [] l = "listeners" -> n [] l = "structure" -> s]

At(t, m, n, s, phase, news, told) ==
    [locks |-> LocksAt(t, m, n, s), phase |-> phase, news |-> news, told |-> told]

LEMMA LocksAtSteps ==
    ASSUME NEW t, NEW m, NEW n, NEW s, NEW x
    PROVE  /\ With(LocksAt(t, m, n, s), "txn", x) = LocksAt(x, m, n, s)
           /\ With(LocksAt(t, m, n, s), "map", x) = LocksAt(t, x, n, s)
           /\ With(LocksAt(t, m, n, s), "listeners", x) = LocksAt(t, m, x, s)
           /\ With(LocksAt(t, m, n, s), "structure", x) = LocksAt(t, m, n, x)
           /\ LocksAt(t, m, n, s)["txn"] = t /\ LocksAt(t, m, n, s)["map"] = m
           /\ LocksAt(t, m, n, s)["listeners"] = n /\ LocksAt(t, m, n, s)["structure"] = s
<1>1. With(LocksAt(t, m, n, s), "txn", x) = LocksAt(x, m, n, s)
  BY DEF LocksAt, Locks, With
<1>2. With(LocksAt(t, m, n, s), "map", x) = LocksAt(t, x, n, s)
  BY DEF LocksAt, Locks, With
<1>3. With(LocksAt(t, m, n, s), "listeners", x) = LocksAt(t, m, x, s)
  BY DEF LocksAt, Locks, With
<1>4. With(LocksAt(t, m, n, s), "structure", x) = LocksAt(t, m, n, x)
  BY DEF LocksAt, Locks, With
<1>5. /\ LocksAt(t, m, n, s)["txn"] = t /\ LocksAt(t, m, n, s)["map"] = m
      /\ LocksAt(t, m, n, s)["listeners"] = n /\ LocksAt(t, m, n, s)["structure"] = s
  BY DEF LocksAt, Locks, With
<1> QED
  BY <1>1, <1>2, <1>3, <1>4, <1>5

LEMMA AtFields ==
    ASSUME NEW t \in Counts, NEW m \in Counts, NEW n \in Counts, NEW s \in Counts,
           NEW phase \in Phases, NEW news \in News, NEW told \in Messages
    PROVE  LET h == At(t, m, n, s, phase, news, told) IN
           /\ h \in Notes
           /\ h.locks["txn"] = t /\ h.locks["map"] = m
           /\ h.locks["listeners"] = n /\ h.locks["structure"] = s
           /\ h.phase = phase /\ h.news = news /\ h.told = told
<1> DEFINE f == LocksAt(t, m, n, s)
<1>1. /\ f["txn"] = t /\ f["map"] = m /\ f["listeners"] = n /\ f["structure"] = s
  BY DEF LocksAt, Locks
<1>2. f \in Held
  BY DEF LocksAt, Held, Locks
<1> HIDE DEF f
<1>3. At(t, m, n, s, phase, news, told)
        = [locks |-> f, phase |-> phase, news |-> news, told |-> told]
  BY DEF At, f
<1> QED
  BY <1>1, <1>2, <1>3 DEF Notes

\* What becomes of a note that is written out.
LEMMA AtSteps ==
    ASSUME NEW t \in Counts, NEW m \in Counts, NEW n \in Counts, NEW s \in Counts,
           NEW phase \in Phases, NEW news \in News, NEW told \in Messages
    PROVE  LET h == At(t, m, n, s, phase, news, told)
               IN
           /\ Wrote(h, "txn") = At(-1, m, n, s, phase, news, told)
           /\ Wrote(h, "map") = At(t, -1, n, s, phase, news, told)
           /\ Wrote(h, "listeners") = At(t, m, -1, s, phase, news, told)
           /\ Wrote(h, "structure") = At(t, m, n, -1, phase, news, told)
           /\ HasRead(h, "txn") = At(t + 1, m, n, s, phase, news, told)
           /\ HasRead(h, "map") = At(t, m + 1, n, s, phase, news, told)
           /\ HasRead(h, "listeners") = At(t, m, n + 1, s, phase, news, told)
           /\ HasRead(h, "structure") = At(t, m, n, s + 1, phase, news, told)
           /\ Freed(h, "txn") = At(Unheld(t), m, n, s, phase, news, told)
           /\ Freed(h, "map") = At(t, Unheld(m), n, s, phase, news, told)
           /\ Freed(h, "listeners") = At(t, m, Unheld(n), s, phase, news, told)
           /\ Freed(h, "structure") = At(t, m, n, Unheld(s), phase, news, told)
           /\ \A p \in Phases : InPhase(h, p) = At(t, m, n, s, p, news, told)
           /\ \A w \in News : WithNews(h, w) = At(t, m, n, s, phase, w, told)
           /\ \A e \in Messages : Telling(h, e) = At(t, m, n, s, phase, news, e)
<1> DEFINE h == At(t, m, n, s, phase, news, told)
<1>1. ASSUME NEW g
      PROVE  [h EXCEPT !.locks = g] = [locks |-> g, phase |-> phase, news |-> news, told |-> told]
  BY DEF At
<1>2. h.locks = LocksAt(t, m, n, s)
  BY DEF At
<1> HIDE DEF h
<1>3. /\ Wrote(h, "txn") = At(-1, m, n, s, phase, news, told)
      /\ Wrote(h, "map") = At(t, -1, n, s, phase, news, told)
      /\ Wrote(h, "listeners") = At(t, m, -1, s, phase, news, told)
      /\ Wrote(h, "structure") = At(t, m, n, -1, phase, news, told)
  <2>1. ASSUME NEW l
        PROVE  Wrote(h, l) = [locks |-> With(LocksAt(t, m, n, s), l, -1),
                              phase |-> phase, news |-> news, told |-> told]
    BY <1>1, <1>2 DEF Wrote
  <2> QED
    BY <2>1, LocksAtSteps DEF At
<1>4. /\ HasRead(h, "txn") = At(t + 1, m, n, s, phase, news, told)
      /\ HasRead(h, "map") = At(t, m + 1, n, s, phase, news, told)
      /\ HasRead(h, "listeners") = At(t, m, n + 1, s, phase, news, told)
      /\ HasRead(h, "structure") = At(t, m, n, s + 1, phase, news, told)
  <2>1. ASSUME NEW l
        PROVE  HasRead(h, l) =
                [locks |-> With(LocksAt(t, m, n, s), l, LocksAt(t, m, n, s)[l] + 1),
                 phase |-> phase, news |-> news, told |-> told]
    BY <1>1, <1>2 DEF HasRead
  <2> QED
    BY <2>1, LocksAtSteps DEF At
<1>5. /\ Freed(h, "txn") = At(Unheld(t), m, n, s, phase, news, told)
      /\ Freed(h, "map") = At(t, Unheld(m), n, s, phase, news, told)
      /\ Freed(h, "listeners") = At(t, m, Unheld(n), s, phase, news, told)
      /\ Freed(h, "structure") = At(t, m, n, Unheld(s), phase, news, told)
  <2>1. ASSUME NEW l
        PROVE  Freed(h, l) =
                [locks |-> With(LocksAt(t, m, n, s), l, Unheld(LocksAt(t, m, n, s)[l])),
                 phase |-> phase, news |-> news, told |-> told]
    BY <1>1, <1>2 DEF Freed
  <2> QED
    BY <2>1, LocksAtSteps DEF At
<1>6. /\ \A p \in Phases : InPhase(h, p) = At(t, m, n, s, p, news, told)
      /\ \A w \in News : WithNews(h, w) = At(t, m, n, s, phase, w, told)
      /\ \A e \in Messages : Telling(h, e) = At(t, m, n, s, phase, news, e)
  BY DEF At, h, InPhase, WithNews, Telling
<1> QED
  BY <1>3, <1>4, <1>5, <1>6 DEF h

\* Every note can be written out.
LEMMA AtNotes ==
    ASSUME NEW h \in Notes
    PROVE  /\ h = At(h.locks["txn"], h.locks["map"], h.locks["listeners"], h.locks["structure"],
                     h.phase, h.news, h.told)
           /\ \A l \in Locks : h.locks[l] \in Counts
           /\ h.phase \in Phases /\ h.news \in News /\ h.told \in Messages
<1>1. h.locks \in Held /\ h.phase \in Phases /\ h.news \in News /\ h.told \in Messages
  BY DEF Notes
<1>2. h.locks = LocksAt(h.locks["txn"], h.locks["map"], h.locks["listeners"],
                        h.locks["structure"])
  BY <1>1 DEF LocksAt, Held, Locks
<1> QED
  BY <1>1, <1>2 DEF At, Notes, Held

-----------------------------------------------------------------------------
(* Locks taken and freed in front of a list, of notes that are written out *)

LEMMA WritesAt ==
    ASSUME NEW c, NEW list, NEW t \in Counts, NEW m \in Counts, NEW n \in Counts,
           NEW s \in Counts, NEW p \in Phases, NEW w \in News, NEW e \in Messages, n # -1
    PROVE  /\ (t = 0 => Outlined(c, list, At(-1, m, n, s, p, w, e)))
              /\ (t # 0 => e # {} /\ Skipped(c, list, e))
                => Outlined(c, Onto(Write("txn"), list), At(t, m, n, s, p, w, e))
           /\ (m = 0 => Outlined(c, list, At(t, -1, n, s, p, w, e)))
              /\ (m # 0 => e # {} /\ Skipped(c, list, e))
                => Outlined(c, Onto(Write("map"), list), At(t, m, n, s, p, w, e))
           /\ (n = 0 => Outlined(c, list, At(t, m, -1, s, p, w, e)))
              /\ (n # 0 => e # {} /\ Skipped(c, list, e))
                => Outlined(c, Onto(Write("listeners"), list), At(t, m, n, s, p, w, e))
           /\ (s = 0 => Outlined(c, list, At(t, m, n, -1, p, w, e)))
              /\ (s # 0 => c.failed /\ "poisoned" \in e /\ Skipped(c, list, e))
                => Outlined(c, Onto(Write("structure"), list), At(t, m, n, s, p, w, e))
<1> DEFINE h == At(t, m, n, s, p, w, e)
<1>1. /\ h \in Notes /\ h.told = e
      /\ h.locks["txn"] = t /\ h.locks["map"] = m
      /\ h.locks["listeners"] = n /\ h.locks["structure"] = s
  BY AtFields
<1>2. /\ Wrote(h, "txn") = At(-1, m, n, s, p, w, e)
      /\ Wrote(h, "map") = At(t, -1, n, s, p, w, e)
      /\ Wrote(h, "listeners") = At(t, m, -1, s, p, w, e)
      /\ Wrote(h, "structure") = At(t, m, n, -1, p, w, e)
  BY AtSteps
<1>3. \A l \in Locks : l # "structure" /\ e # {} => Waits(c, h, l)
  BY <1>1 DEF Waits
<1>4. c.failed /\ "poisoned" \in e => Waits(c, h, "structure")
  BY <1>1 DEF Waits
<1>5. {"txn", "map", "listeners", "structure"} = Locks
  BY DEF Locks
<1> HIDE DEF h
<1>6. /\ (t = 0 => Outlined(c, list, Wrote(h, "txn")))
         /\ (t # 0 => e # {} /\ Skipped(c, list, e))
           => Outlined(c, Onto(Write("txn"), list), h)
  BY <1>1, <1>3, <1>5, PushWrite
<1>7. /\ (m = 0 => Outlined(c, list, Wrote(h, "map")))
         /\ (m # 0 => e # {} /\ Skipped(c, list, e))
           => Outlined(c, Onto(Write("map"), list), h)
  BY <1>1, <1>3, <1>5, PushWrite
<1>8. /\ (n = 0 => Outlined(c, list, Wrote(h, "listeners")))
         /\ (n # 0 => e # {} /\ Skipped(c, list, e))
           => Outlined(c, Onto(Write("listeners"), list), h)
  BY <1>1, <1>3, <1>5, PushWrite
<1>9. /\ (s = 0 => Outlined(c, list, Wrote(h, "structure")))
         /\ (s # 0 => c.failed /\ "poisoned" \in e /\ Skipped(c, list, e))
           => Outlined(c, Onto(Write("structure"), list), h)
  BY <1>1, <1>4, <1>5, PushWrite
<1> QED
  BY <1>2, <1>6, <1>7, <1>8, <1>9 DEF h

LEMMA ReadsAt ==
    ASSUME NEW c, NEW list, NEW t \in Counts, NEW m \in Counts, NEW n \in Counts,
           NEW s \in Counts, NEW p \in Phases, NEW w \in News, NEW e \in Messages, n # -1
    PROVE  /\ (t # -1 => Outlined(c, list, At(t + 1, m, n, s, p, w, e)))
              /\ (t = -1 => e # {} /\ Skipped(c, list, e))
                => Outlined(c, Onto(Read("txn"), list), At(t, m, n, s, p, w, e))
           /\ (m # -1 => Outlined(c, list, At(t, m + 1, n, s, p, w, e)))
              /\ (m = -1 => e # {} /\ Skipped(c, list, e))
                => Outlined(c, Onto(Read("map"), list), At(t, m, n, s, p, w, e))
           /\ Outlined(c, list, At(t, m, n + 1, s, p, w, e))
                => Outlined(c, Onto(Read("listeners"), list), At(t, m, n, s, p, w, e))
           /\ (s # -1 => Outlined(c, list, At(t, m, n, s + 1, p, w, e)))
              /\ (s = -1 => c.failed /\ "poisoned" \in e /\ Skipped(c, list, e))
                => Outlined(c, Onto(Read("structure"), list), At(t, m, n, s, p, w, e))
<1> DEFINE h == At(t, m, n, s, p, w, e)
<1>1. /\ h \in Notes /\ h.told = e
      /\ h.locks["txn"] = t /\ h.locks["map"] = m
      /\ h.locks["listeners"] = n /\ h.locks["structure"] = s
  BY AtFields
<1>2. /\ HasRead(h, "txn") = At(t + 1, m, n, s, p, w, e)
      /\ HasRead(h, "map") = At(t, m + 1, n, s, p, w, e)
      /\ HasRead(h, "listeners") = At(t, m, n + 1, s, p, w, e)
      /\ HasRead(h, "structure") = At(t, m, n, s + 1, p, w, e)
  BY AtSteps
<1>3. \A l \in Locks : l # "structure" /\ e # {} => Waits(c, h, l)
  BY <1>1 DEF Waits
<1>4. c.failed /\ "poisoned" \in e => Waits(c, h, "structure")
  BY <1>1 DEF Waits
<1>5. /\ {"txn", "map", "listeners", "structure"} = Locks
      /\ \A x \in Counts : x >= 0 <=> x # -1
  BY DEF Locks, Counts
<1> HIDE DEF h
<1>6. /\ (t # -1 => Outlined(c, list, HasRead(h, "txn")))
         /\ (t = -1 => e # {} /\ Skipped(c, list, e))
           => Outlined(c, Onto(Read("txn"), list), h)
  BY <1>1, <1>3, <1>5, PushRead
<1>7. /\ (m # -1 => Outlined(c, list, HasRead(h, "map")))
         /\ (m = -1 => e # {} /\ Skipped(c, list, e))
           => Outlined(c, Onto(Read("map"), list), h)
  BY <1>1, <1>3, <1>5, PushRead
<1>8. Outlined(c, list, HasRead(h, "listeners")) => Outlined(c, Onto(Read("listeners"), list), h)
  BY <1>1, <1>5, PushRead
<1>9. /\ (s # -1 => Outlined(c, list, HasRead(h, "structure")))
         /\ (s = -1 => c.failed /\ "poisoned" \in e /\ Skipped(c, list, e))
           => Outlined(c, Onto(Read("structure"), list), h)
  BY <1>1, <1>4, <1>5, PushRead
<1> QED
  BY <1>2, <1>6, <1>7, <1>8, <1>9 DEF h

LEMMA FreesAt ==
    ASSUME NEW c, NEW list, NEW t \in Counts, NEW m \in Counts, NEW n \in Counts,
           NEW s \in Counts, NEW p \in Phases, NEW w \in News, NEW e \in Messages
    PROVE  /\ t # 0 /\ n # -1 /\ Outlined(c, list, At(Unheld(t), m, n, s, p, w, e))
                => Outlined(c, Onto(Free("txn"), list), At(t, m, n, s, p, w, e))
           /\ m # 0 /\ n # -1 /\ Outlined(c, list, At(t, Unheld(m), n, s, p, w, e))
                => Outlined(c, Onto(Free("map"), list), At(t, m, n, s, p, w, e))
           /\ n # 0 /\ Outlined(c, list, At(t, m, Unheld(n), s, p, w, e))
                => Outlined(c, Onto(Free("listeners"), list), At(t, m, n, s, p, w, e))
           /\ s # 0 /\ n # -1 /\ Outlined(c, list, At(t, m, n, Unheld(s), p, w, e))
                => Outlined(c, Onto(Free("structure"), list), At(t, m, n, s, p, w, e))
<1> DEFINE h == At(t, m, n, s, p, w, e)
<1>1. /\ h \in Notes
      /\ h.locks["txn"] = t /\ h.locks["map"] = m
      /\ h.locks["listeners"] = n /\ h.locks["structure"] = s
  BY AtFields
<1>2. /\ Freed(h, "txn") = At(Unheld(t), m, n, s, p, w, e)
      /\ Freed(h, "map") = At(t, Unheld(m), n, s, p, w, e)
      /\ Freed(h, "listeners") = At(t, m, Unheld(n), s, p, w, e)
      /\ Freed(h, "structure") = At(t, m, n, Unheld(s), p, w, e)
  BY AtSteps
<1>3. {"txn", "map", "listeners", "structure"} = Locks
  BY DEF Locks
<1> HIDE DEF h
<1>4. t # 0 /\ n # -1 /\ Outlined(c, list, Freed(h, "txn")) => Outlined(c, Onto(Free("txn"), list), h)
  BY <1>1, <1>3, PushFree
<1>5. m # 0 /\ n # -1 /\ Outlined(c, list, Freed(h, "map")) => Outlined(c, Onto(Free("map"), list), h)
  BY <1>1, <1>3, PushFree
<1>6. n # 0 /\ Outlined(c, list, Freed(h, "listeners"))
        => Outlined(c, Onto(Free("listeners"), list), h)
  BY <1>1, <1>3, PushFree
<1>7. s # 0 /\ n # -1 /\ Outlined(c, list, Freed(h, "structure"))
        => Outlined(c, Onto(Free("structure"), list), h)
  BY <1>1, <1>3, PushFree
<1> QED
  BY <1>2, <1>4, <1>5, <1>6, <1>7 DEF h

\* What is counted when a lock is freed.
LEMMA Unholding ==
    ASSUME NEW x \in Counts
    PROVE  /\ Unheld(-1) = 0
           /\ x # 0 => Unheld(x) \in Counts
           /\ x # -1 => x + 1 \in Counts /\ Unheld(x + 1) = x /\ x + 1 # 0 /\ x + 1 # -1
           /\ {0, -1} \subseteq Counts
  BY DEF Unheld, Counts

-----------------------------------------------------------------------------
(* The parts that calls are made of                                        *)

\* The end of a transaction that has the map.
LEMMA FollowsIsList ==
    ASSUME NEW c, NEW list, NEW e \in Messages, Follows(c, list, e)
    PROVE  list \in Seq(Instructions)
<1>1. Final \in Notes
  BY DEF Final, Nothing, Notes, Held, Counts, Phases, News, Messages
<1> DEFINE d == Telling(Dead(Final), e)
<1>2. d \in Notes /\ d.phase = "dead" /\ d.told = e
  BY <1>1 DEF Telling, Dead, InPhase, Notes, Phases
<1> HIDE DEF d
<1> QED
  BY <1>2 DEF Follows, Skipped, Outlined

LEMMA EndUnfolds ==
    ASSUME NEW list \in Seq(Instructions), NEW org \in {"none", "yrs_tree", "yrs_tree_data"}
    PROVE  /\ End(org) \o list = Onto(Free("map"), Onto(Commit(org), Onto(Free("txn"), list)))
           /\ End(org) \in Seq(Instructions)
           /\ Commit(org) \in Instructions /\ Commit(org).do = "commit"
           /\ Commit(org).origin = org
<1>1. Commit(org) \in Instructions /\ Commit(org).do = "commit" /\ Commit(org).origin = org
  BY DEF Commit, Instructions
<1>2. Free("txn") \in Instructions /\ Free("map") \in Instructions
  BY LockInstructions DEF Locks
<1> DEFINE x == Free("map")
           y == Commit(org)
           z == Free("txn")
<1>3. End(org) = <<x, y, z>>
  BY DEF End
<1>4. x \in Instructions /\ y \in Instructions /\ z \in Instructions
  BY <1>1, <1>2
<1> HIDE DEF x, y, z
<1>5. <<x, y, z>> \o list = Onto(x, Onto(y, Onto(z, list)))
  BY <1>4, Unfold3
<1>6. <<x, y, z>> \in Seq(Instructions)
  BY <1>4
<1> QED
  BY <1>1, <1>3, <1>5, <1>6 DEF x, y, z

LEMMA EndSkipped ==
    ASSUME NEW c, NEW list, NEW e \in Messages,
           NEW org \in {"none", "yrs_tree", "yrs_tree_data"}, Follows(c, list, e)
    PROVE  Skipped(c, End(org) \o list, e)
<1> DEFINE L1 == Onto(Free("txn"), list)
           L2 == Onto(Commit(org), L1)
           L3 == Onto(Free("map"), L2)
<1>1. /\ Commit(org) \in Instructions /\ Commit(org).do = "commit"
      /\ Free("txn") \in Instructions /\ Free("txn").do = "free"
      /\ Free("map") \in Instructions /\ Free("map").do = "free"
  BY LockInstructions DEF Commit, Instructions, Locks
<1>2. list \in Seq(Instructions)
  BY FollowsIsList
<1>3. End(org) \o list = L3
  BY <1>2, EndUnfolds
<1>4. Skipped(c, L1, e)
  BY <1>1, PushSkipped
<1> HIDE DEF L1
<1>5. Skipped(c, L2, e)
  BY <1>1, <1>4, PushSkipped DEF Follows
<1> HIDE DEF L2
<1>6. Skipped(c, L3, e)
  BY <1>1, <1>5, PushSkipped DEF Follows
<1> QED
  BY <1>3, <1>6

LEMMA EndOutlined ==
    ASSUME NEW c, NEW list, NEW n \in Counts, NEW s \in Counts,
           NEW p \in Phases, NEW w \in News, NEW e \in Messages,
           NEW org \in {"none", "yrs_tree", "yrs_tree_data"},
           n # -1, "updated" \notin e,
           \/ p \in {"off", "failing"} /\ w = "no"
           \/ /\ p = "no"
              /\ s = 0 \/ c.failed
              /\ w = "no" \/ (w = "changed" /\ org # "yrs_tree_data"),
           Outlined(c, list, At(0, 0, n, s, p, "no", e))
    PROVE  Outlined(c, End(org) \o list, At(-1, -1, n, s, p, w, e))
<1> DEFINE k == At(0, 0, n, s, p, "no", e)
           a == At(-1, 0, n, s, p, "no", e)
           b == At(-1, 0, n, s, p, w, e)
           h == At(-1, -1, n, s, p, w, e)
           L1 == Onto(Free("txn"), list)
           L2 == Onto(Commit(org), L1)
           L3 == Onto(Free("map"), L2)
<1>1. {"txn", "map", "listeners", "structure"} = Locks /\ {0, -1} \subseteq Counts /\ "no" \in News
  BY DEF Locks, Counts, News
<1>2. /\ {k, a, b, h} \subseteq Notes
      /\ a.locks["txn"] = -1 /\ a.locks["listeners"] = n /\ b.locks["txn"] = -1
      /\ b.locks["map"] = 0 /\ b.locks["listeners"] = n /\ b.locks["structure"] = s
      /\ b.phase = p /\ b.news = w /\ b.told = e /\ a.told = e /\ k.told = e
      /\ h.locks["map"] = -1 /\ h.locks["listeners"] = n
  BY <1>1, AtFields
<1>3. Freed(a, "txn") = k /\ WithNews(b, "no") = a /\ Freed(h, "map") = b
  <2>1. Unheld(-1) = 0
    BY DEF Unheld
  <2>2. Freed(a, "txn") = k
    BY <1>1, <2>1, AtSteps
  <2>3. WithNews(b, "no") = a
    BY <1>1, AtSteps
  <2>4. Freed(h, "map") = b
    BY <1>1, <2>1, AtSteps
  <2> QED
    BY <2>2, <2>3, <2>4
<1>4. Commit(org) \in Instructions /\ Commit(org).do = "commit" /\ Commit(org).origin = org
  BY DEF Commit, Instructions
<1>5. /\ Free("txn") \in Instructions /\ Free("txn").do = "free"
      /\ Free("map") \in Instructions /\ Free("map").do = "free"
  BY <1>1, LockInstructions
<1>6. End(org) \o list = L3
  <2>1. list \in Seq(Instructions)
    BY DEF Outlined
  <2> QED
    BY <2>1, EndUnfolds
<1> HIDE DEF k, a, b, h
<1>7. Outlined(c, L1, a)
  <2>1. Outlined(c, list, k)
    BY DEF k
  <2> QED
    BY <1>1, <1>2, <1>3, <2>1, PushFree
<1>8. Outlined(c, L2, b)
  <2> HIDE DEF L1
  <2>1. Valid(c, b, Commit(org), a)
    BY <1>2, <1>3, <1>4
       DEF Valid, Tells, ListenersFree, TakesAndFrees, Enters, UpdatesNode, Accesses, Commits,
           Observes, Listens
  <2> QED
    BY <1>2, <1>4, <1>7, <2>1, Push
<1>9. Outlined(c, L3, h)
  <2> HIDE DEF L2
  <2> QED
    BY <1>1, <1>2, <1>3, <1>5, <1>8, PushFree
<1> QED
  BY <1>6, <1>9 DEF h

\* The instructions that an object does.
Bodies == {"update", "delete", "set", "get", "repairs", "write_repairs", "place", "enable",
           "delete_ids", "put", "look", "look_as", "external", "build", "poison",
           "insert", "remove"}

LEMMA BodyInstructions ==
    ASSUME NEW i \in Bodies, NEW o \in Objects
    PROVE  Do(i, o) \in Instructions /\ Do(i, o).do = i
  BY DEF Bodies, Do, Instructions

\* update_node from the second transaction on, where only a listener finds the
\* document or the map in use.
LEMMA PlaceOutlined ==
    ASSUME NEW c, NEW list, NEW t \in Counts, NEW m \in Counts, NEW n \in Counts,
           NEW p \in {"begun", "off"}, NEW e \in Messages, NEW o \in Objects,
           n # -1, "updated" \in e => t # 0, t # 0 \/ m # 0 => e # {},
           Outlined(c, list, At(t, m, n, 0, "no", "no", e))
    PROVE  Outlined(c, Place(o) \o list, At(t, m, n, -1, p, "no", e))
<1> DEFINE L4 == End("yrs_tree") \o list
           L5 == Onto(Do("enable", o), L4)
           L6 == Onto(Free("structure"), L5)
           L7 == Onto(Do("place", o), L6)
           L8 == Onto(Write("map"), L7)
           L9 == Onto(Write("txn"), L8)
           h9 == At(t, m, n, -1, p, "no", e)
           h8 == At(-1, m, n, -1, p, "no", e)
           h7 == At(-1, -1, n, -1, p, "no", e)
           h6 == At(-1, -1, n, -1, p, "changed", e)
           h5 == At(-1, -1, n, 0, p, "changed", e)
           h4 == At(-1, -1, n, 0, "no", "changed", e)
<1>1. /\ {"txn", "map", "structure", "listeners"} = Locks /\ {"enable", "place"} \subseteq Bodies
      /\ {0, -1} \subseteq Counts /\ {"no", "changed"} \subseteq News
      /\ {"no", p} \subseteq Phases
  BY DEF Locks, Bodies, Counts, News, Phases
<1>2. /\ Write("txn") \in Instructions /\ Write("txn").do = "write"
      /\ Write("map") \in Instructions /\ Write("map").do = "write"
      /\ Free("structure") \in Instructions /\ Free("structure").do = "free"
      /\ Do("place", o) \in Instructions /\ Do("place", o).do = "place"
      /\ Do("enable", o) \in Instructions /\ Do("enable", o).do = "enable"
  BY <1>1, LockInstructions, BodyInstructions
<1>3. Place(o) \o list = L9
  <2>1. Follows(c, list, e)
    BY <1>1, AtFields DEF Follows
  <2>2. list \in Seq(Instructions) /\ End("yrs_tree") \in Seq(Instructions)
    BY <2>1, FollowsIsList, EndUnfolds
  <2> DEFINE five == <<Write("txn"), Write("map"), Do("place", o), Free("structure"), Do("enable", o)>>
  <2>3. five \in Seq(Instructions)
    BY <1>2
  <2>4. five \o L4 = L9
    <3>1. L4 \in Seq(Instructions)
      BY <2>2, ConcatProperties
    <3> DEFINE x == Write("txn")
               y == Write("map")
               z == Do("place", o)
               u == Free("structure")
               v == Do("enable", o)
    <3>2. x \in Instructions /\ y \in Instructions /\ z \in Instructions
          /\ u \in Instructions /\ v \in Instructions
      BY <1>2
    <3> HIDE DEF L4, x, y, z, u, v
    <3>3. <<x, y, z, u, v>> \o L4 = Onto(x, Onto(y, Onto(z, Onto(u, Onto(v, L4)))))
      BY SMTT(30), <3>1, <3>2, Unfold5
    <3> QED
      BY <3>3 DEF x, y, z, u, v
  <2>5. (five \o End("yrs_tree")) \o list = five \o L4
    <3> HIDE DEF five
    <3> QED
      BY SMTT(30), <2>2, <2>3, ConcatAssociative
  <2> HIDE DEF L9
  <2> QED
    BY <2>4, <2>5 DEF Place
<1>4. /\ {h4, h5, h6, h7, h8, h9} \subseteq Notes
      /\ h4.told = e /\ h5.told = e /\ h6.told = e /\ h7.told = e /\ h8.told = e /\ h9.told = e
      /\ h5.phase = p /\ h5.locks["listeners"] = n
      /\ h6.locks["structure"] = -1 /\ h6.locks["listeners"] = n
      /\ h7.phase = p /\ h7.news = "no" /\ h7.locks["txn"] = -1 /\ h7.locks["listeners"] = n
  BY <1>1, AtFields
<1>5. /\ h8.locks["map"] = m /\ h8.locks["listeners"] = n
      /\ h9.locks["txn"] = t /\ h9.locks["listeners"] = n
  BY <1>1, AtFields
<1>6. InPhase(h5, "no") = h4 /\ WithNews(h7, "changed") = h6
  BY SMTT(30), <1>1, AtSteps
<1>7. Freed(h6, "structure") = h5
  BY <1>1, AtSteps DEF Unheld
<1>8. (m = 0 => Wrote(h8, "map") = h7) /\ (t = 0 => Wrote(h9, "txn") = h8)
  BY <1>1, AtSteps
<1>9. Skipped(c, L7, e) /\ Skipped(c, L8, e)
  <2>1. Skipped(c, L4, e)
    <3>1. Follows(c, list, e)
      BY <1>1, AtFields DEF Follows
    <3> QED
      BY <3>1, EndSkipped
  <2> HIDE DEF L4
  <2>2. Skipped(c, L5, e)
    BY <1>2, <2>1, PushSkipped DEF Follows
  <2> HIDE DEF L5
  <2>3. Skipped(c, L6, e)
    BY <1>2, <2>2, PushSkipped DEF Follows
  <2> HIDE DEF L6
  <2>4. Skipped(c, L7, e)
    BY <1>2, <2>3, PushSkipped DEF Follows
  <2> HIDE DEF L7
  <2>5. Skipped(c, L8, e)
    BY <1>2, <2>4, PushSkipped DEF Follows
  <2> QED
    BY <2>4, <2>5
<1>10. CASE t = 0 /\ m = 0
  <2>1. Outlined(c, L4, h4)
    BY <1>1, <1>10, EndOutlined
  <2> HIDE DEF L4, h4, h5, h6, h7, h8, h9
  <2>2. Outlined(c, L5, h5)
    <3>1. Valid(c, h5, Do("enable", o), h4)
      BY <1>2, <1>4, <1>6
         DEF Valid, Tells, ListenersFree, TakesAndFrees, Enters, UpdatesNode, Accesses, Commits,
             Observes, Listens
    <3> QED
      BY <1>2, <1>4, <2>1, <3>1, Push
  <2> HIDE DEF L5
  <2>3. Outlined(c, L6, h6)
    BY <1>1, <1>4, <1>7, <2>2, PushFree
  <2> HIDE DEF L6
  <2>4. Outlined(c, L7, h7)
    <3>1. Valid(c, h7, Do("place", o), h6)
      BY <1>2, <1>4, <1>6, <1>10
         DEF Valid, Tells, ListenersFree, TakesAndFrees, Enters, UpdatesNode, Accesses, Commits,
             Observes, Listens
    <3> QED
      BY <1>2, <1>4, <2>3, <3>1, Push
  <2> HIDE DEF L7
  <2>5. Outlined(c, L8, h8)
    BY <1>1, <1>4, <1>5, <1>8, <1>10, <2>4, PushWrite
  <2> HIDE DEF L8
  <2>6. Outlined(c, L9, h9)
    BY <1>1, <1>4, <1>5, <1>8, <1>10, <2>5, PushWrite
  <2> QED
    BY <1>3, <2>6 DEF h9
<1>11. CASE t = 0 /\ m # 0
  <2>1. Waits(c, h8, "map")
    BY <1>4, <1>11 DEF Waits
  <2> HIDE DEF L7, h8, h9
  <2>2. Outlined(c, L8, h8)
    BY <1>1, <1>4, <1>5, <1>9, <1>11, <2>1, PushWrite
  <2> HIDE DEF L8
  <2>3. Outlined(c, L9, h9)
    BY <1>1, <1>4, <1>5, <1>8, <1>11, <2>2, PushWrite
  <2> QED
    BY <1>3, <2>3 DEF h9
<1>12. CASE t # 0
  <2>1. Waits(c, h9, "txn")
    BY <1>4, <1>12 DEF Waits
  <2> HIDE DEF L8, h9
  <2>2. Outlined(c, L9, h9)
    BY <1>1, <1>4, <1>5, <1>9, <1>12, <2>1, PushWrite
  <2> QED
    BY <1>3, <2>2 DEF h9
<1> QED
  BY <1>10, <1>11, <1>12

-----------------------------------------------------------------------------
(* Calls that begin                                                        *)

LEMMA CalmAt ==
    ASSUME NEW c, NEW t \in Counts, NEW m \in Counts, NEW n \in Counts, NEW s \in Counts,
           NEW p \in Phases, NEW w \in News, NEW e \in Messages
    PROVE  Calm(c, At(t, m, n, s, p, w, e)) <=>
            /\ p = "no" /\ w = "no"
            /\ "updated" \in e => t # 0
            /\ m = -1 => t # 0
            /\ s # 0 => c.failed /\ "poisoned" \in e
            /\ e = {} => t = 0 /\ m = 0 /\ n = 0 /\ s = 0
            /\ e # {} => n >= 1
<1> DEFINE h == At(t, m, n, s, p, w, e)
<1>1. /\ h.locks["txn"] = t /\ h.locks["map"] = m
      /\ h.locks["listeners"] = n /\ h.locks["structure"] = s
      /\ h.phase = p /\ h.news = w /\ h.told = e
  BY AtFields
<1>2. h.locks = Nothing <=> t = 0 /\ m = 0 /\ n = 0 /\ s = 0
  <2>1. h.locks = LocksAt(t, m, n, s)
    BY DEF At
  <2>2. Nothing = LocksAt(0, 0, 0, 0)
    BY DEF Nothing, LocksAt, Locks
  <2>3. Nothing["txn"] = 0 /\ Nothing["map"] = 0
        /\ Nothing["listeners"] = 0 /\ Nothing["structure"] = 0
    BY DEF Nothing, Locks
  <2> QED
    BY <1>1, <2>1, <2>2, <2>3
<1> HIDE DEF h
<1> QED
  BY <1>1, <1>2 DEF Calm, h

\* Where a thread is that may make calls.
CalmLocks(c, t, m, n, s, e) ==
    /\ "updated" \in e => t # 0
    /\ m = -1 => t # 0
    /\ s # 0 => c.failed /\ "poisoned" \in e
    /\ e = {} => t = 0 /\ m = 0 /\ n = 0 /\ s = 0
    /\ e # {} => n >= 1

\* A lock, and what is known of its instructions.
LEMMA LockTypes ==
    /\ {"txn", "map", "listeners", "structure"} = Locks
    /\ "no" \in Phases /\ "no" \in News
    /\ \A l \in Locks :
        /\ Write(l) \in Instructions /\ Write(l).do # "callbacks"
        /\ Read(l) \in Instructions /\ Read(l).do # "callbacks"
        /\ Free(l) \in Instructions /\ Free(l).do # "callbacks"
<1>1. {"txn", "map", "listeners", "structure"} = Locks /\ "no" \in Phases /\ "no" \in News
  BY DEF Locks, Phases, News
<1> QED
  BY <1>1, LockInstructions

LEMMA CalmLocksAt ==
    ASSUME NEW c, NEW t \in Counts, NEW m \in Counts, NEW n \in Counts, NEW s \in Counts,
           NEW e \in Messages
    PROVE  Calm(c, At(t, m, n, s, "no", "no", e)) <=> CalmLocks(c, t, m, n, s, e)
<1>1. PICK p \in Phases, w \in News : p = "no" /\ w = "no"
  BY LockTypes
<1>2. Calm(c, At(t, m, n, s, p, w, e)) <=>
          /\ p = "no" /\ w = "no"
          /\ "updated" \in e => t # 0
          /\ m = -1 => t # 0
          /\ s # 0 => c.failed /\ "poisoned" \in e
          /\ e = {} => t = 0 /\ m = 0 /\ n = 0 /\ s = 0
          /\ e # {} => n >= 1
  BY CalmAt
<1> QED
  BY <1>1, <1>2 DEF CalmLocks

\* A list in front of which there is one more to be skipped.
LEMMA Skips ==
    ASSUME NEW c, NEW list, NEW e \in Messages, NEW i \in Instructions, i.do # "callbacks",
           Follows(c, list, e)
    PROVE  /\ Skipped(c, Onto(i, list), e) /\ Follows(c, Onto(i, list), e)
           /\ list \in Seq(Instructions) /\ Onto(i, list) \in Seq(Instructions)
<1>1. Skipped(c, Onto(i, list), e)
  BY PushSkipped
<1>2. Follows(c, Onto(i, list), e)
  BY <1>1 DEF Follows
<1> QED
  BY <1>1, <1>2, FollowsIsList

\* What has an outline that begins with a note follows it.
LEMMA FollowsAt ==
    ASSUME NEW c, NEW list, NEW t \in Counts, NEW m \in Counts, NEW n \in Counts,
           NEW s \in Counts, NEW p \in Phases, NEW w \in News, NEW e \in Messages,
           Outlined(c, list, At(t, m, n, s, p, w, e))
    PROVE  Follows(c, list, e) /\ list \in Seq(Instructions)
<1>1. At(t, m, n, s, p, w, e) \in Notes /\ At(t, m, n, s, p, w, e).told = e
  BY AtFields
<1> QED
  BY <1>1 DEF Follows, Outlined

\* A call that reads the cached tree.
LEMMA ReadOutlined ==
    ASSUME NEW c, NEW list, NEW t \in Counts, NEW m \in Counts, NEW n \in Counts,
           NEW s \in Counts, NEW e \in Messages, NEW o \in Objects,
           CalmLocks(c, t, m, n, s, e),
           Outlined(c, list, At(t, m, n, s, "no", "no", e))
    PROVE  Outlined(c, Entry("read", o) \o list, At(t, m, n, s, "no", "no", e))
<1> DEFINE L1 == Onto(Free("structure"), list)
           L2 == Onto(Read("structure"), L1)
<1>1. Follows(c, list, e) /\ list \in Seq(Instructions)
  BY FollowsAt, LockTypes
<1>2. Entry("read", o) \o list = L2
  BY <1>1, LockTypes, Unfold2 DEF Entry
<1>3. n # -1
  BY DEF CalmLocks
<1>4. Skipped(c, L1, e)
  BY <1>1, LockTypes, Skips
<1>5. s # -1 => Outlined(c, L1, At(t, m, n, s + 1, "no", "no", e))
  BY <1>3, LockTypes, Unholding, FreesAt
<1> HIDE DEF L1
<1>6. Outlined(c, L2, At(t, m, n, s, "no", "no", e))
  <2>1. s = -1 => c.failed /\ "poisoned" \in e
    BY DEF CalmLocks
  <2> QED
    BY <1>3, <1>4, <1>5, <2>1, LockTypes, ReadsAt
<1> QED
  BY <1>2, <1>6

\* Another writer of the document.
LEMMA ExternalOutlined ==
    ASSUME NEW c, NEW list, NEW t \in Counts, NEW m \in Counts, NEW n \in Counts,
           NEW s \in Counts, NEW e \in Messages, NEW o \in Objects,
           CalmLocks(c, t, m, n, s, e),
           Outlined(c, list, At(t, m, n, s, "no", "no", e))
    PROVE  Outlined(c, Entry("external", o) \o list, At(t, m, n, s, "no", "no", e))
<1> DEFINE L1 == Onto(Free("txn"), list)
           L2 == Onto(Commit("none"), L1)
           L3 == Onto(Do("external", o), L2)
           L4 == Onto(Write("txn"), L3)
           k  == At(-1, m, n, s, "no", "no", e)
           k2 == At(-1, m, n, s, "no", "changed", e)
<1>1. Follows(c, list, e) /\ list \in Seq(Instructions)
  BY FollowsAt, LockTypes
<1>2. /\ Commit("none") \in Instructions /\ Commit("none").do = "commit"
      /\ Commit("none").origin = "none"
      /\ Do("external", o) \in Instructions /\ Do("external", o).do = "external"
  BY BodyInstructions DEF Commit, Instructions, Bodies
<1>3. Entry("external", o) \o list = L4
  BY <1>1, <1>2, LockTypes, Unfold4 DEF Entry
<1>4. n # -1 /\ (t # 0 => e # {})
  BY DEF CalmLocks
<1>5. Skipped(c, L3, e)
  <2>1. Follows(c, L1, e)
    BY <1>1, LockTypes, Skips
  <2> HIDE DEF L1
  <2>2. Follows(c, L2, e)
    BY <1>2, <2>1, Skips
  <2> HIDE DEF L2
  <2> QED
    BY <1>2, <2>2, Skips
<1>6. CASE t = 0
  <2>0. -1 \in Counts /\ "no" \in Phases /\ {"no", "changed"} \subseteq News
    BY DEF Counts, Phases, News
  <2>1. /\ k \in Notes /\ k.told = e /\ k.locks["txn"] = -1 /\ k.locks["listeners"] = n
        /\ k.phase = "no" /\ k.news = "no"
    BY <2>0, AtFields
  <2>2. /\ k2 \in Notes /\ k2.told = e /\ k2.locks["txn"] = -1 /\ k2.locks["listeners"] = n
        /\ k2.locks["map"] = m /\ k2.locks["structure"] = s
        /\ k2.phase = "no" /\ k2.news = "changed"
    BY <2>0, AtFields
  <2>7. WithNews(k, "changed") = k2 /\ WithNews(k2, "no") = k
    BY <2>0, AtSteps
  <2>3. /\ "updated" \notin e /\ m # -1 /\ (s # 0 => c.failed)
    BY <1>6 DEF CalmLocks
  <2>4. Outlined(c, L1, k)
    BY <1>4, <1>6, LockTypes, Unholding, FreesAt
  <2> HIDE DEF L1
  <2>5. Outlined(c, L2, k2)
    <3> HIDE DEF k, k2
    <3>1. Valid(c, k2, Commit("none"), k)
      BY <1>2, <1>4, <2>1, <2>2, <2>3, <2>7
         DEF Valid, Tells, ListenersFree, TakesAndFrees, Enters, UpdatesNode, Accesses, Commits,
             Observes, Listens, Counts
    <3> QED
      BY <1>2, <2>1, <2>2, <2>4, <3>1, Push
  <2> HIDE DEF L2
  <2>6. Outlined(c, L3, k)
    <3> HIDE DEF k, k2
    <3>1. Valid(c, k, Do("external", o), k2)
      BY <1>2, <1>4, <2>1, <2>2, <2>3, <2>7
         DEF Valid, Tells, ListenersFree, TakesAndFrees, Enters, UpdatesNode, Accesses, Commits,
             Observes, Listens, Counts
    <3> QED
      BY <1>2, <2>1, <2>2, <2>5, <3>1, Push
  <2> HIDE DEF L3
  <2> QED
    <3>1. Outlined(c, L4, At(t, m, n, s, "no", "no", e))
      BY <1>4, <1>6, <2>6, LockTypes, WritesAt
    <3> QED
      BY <1>3, <3>1
<1>7. CASE t # 0
  <2> HIDE DEF L3
  <2>1. Outlined(c, L4, At(t, m, n, s, "no", "no", e))
    BY <1>4, <1>5, <1>7, LockTypes, WritesAt
  <2> QED
    BY <1>3, <2>1
<1> QED
  BY <1>6, <1>7

-----------------------------------------------------------------------------
(* What objects do, in front of a list, of notes that are written out      *)

\* A call that has not begun.
LEMMA CallAt ==
    ASSUME NEW c, NEW list, NEW t \in Counts, NEW m \in Counts, NEW n \in Counts,
           NEW s \in Counts, NEW e \in Messages, NEW o \in Objects,
           NEW call \in {"update", "delete", "set", "get"},
           CalmLocks(c, t, m, n, s, e),
           Outlined(c, list, At(t, m, n, s, "no", "no", e))
    PROVE  Outlined(c, Onto(Do(call, o), list), At(t, m, n, s, "no", "no", e))
<1> DEFINE h == At(t, m, n, s, "no", "no", e)
<1>1. /\ h \in Notes /\ h.phase = "no" /\ h.news = "no" /\ h.locks["listeners"] = n
  BY LockTypes, AtFields
<1>2. n # -1
  BY DEF CalmLocks
<1>3. Calm(c, h)
  BY CalmLocksAt
<1>4. Do(call, o) \in Instructions /\ Do(call, o).do = call
  BY BodyInstructions DEF Bodies
<1> HIDE DEF h
<1>5. Valid(c, h, Do(call, o), h)
  BY <1>1, <1>2, <1>3, <1>4
     DEF Valid, Tells, ListenersFree, TakesAndFrees, Enters, UpdatesNode, Accesses, Commits,
         Observes, Listens
<1> QED
  BY <1>1, <1>4, <1>5, Push DEF h

\* Whether there are repairs to be written.
LEMMA RepairsAt ==
    ASSUME NEW c, NEW list, NEW t \in Counts, NEW m \in Counts, NEW n \in Counts,
           NEW e \in Messages, NEW o \in Objects,
           CalmLocks(c, t, m, n, 0, e),
           Outlined(c, list, At(t, m, n, 0, "no", "no", e))
    PROVE  Outlined(c, Onto(Do("repairs", o), list), At(t, m, n, -1, "begun", "no", e))
<1> DEFINE h == At(t, m, n, -1, "begun", "no", e)
           f == At(t, m, n, 0, "begun", "no", e)
           k == At(t, m, n, 0, "no", "no", e)
<1>1. {0, -1} \subseteq Counts /\ {"no", "begun"} \subseteq Phases /\ "no" \in News
  BY DEF Counts, Phases, News
<1>2. /\ h \in Notes /\ h.phase = "begun" /\ h.news = "no" /\ h.locks["listeners"] = n
      /\ h.locks["structure"] = -1 /\ h.told = e
  BY <1>1, AtFields
<1>3. k \in Notes /\ k.told = e
  BY <1>1, AtFields
<1>4. Freed(h, "structure") = f /\ InPhase(f, "no") = k
  BY <1>1, AtSteps, Unholding
<1>5. n # -1
  BY DEF CalmLocks
<1>6. Calm(c, k)
  BY <1>1, CalmLocksAt
<1>7. Do("repairs", o) \in Instructions /\ Do("repairs", o).do = "repairs"
  BY BodyInstructions DEF Bodies
<1> HIDE DEF h, f, k
<1>8. Valid(c, h, Do("repairs", o), k)
  BY <1>2, <1>3, <1>4, <1>5, <1>6, <1>7
     DEF Valid, Tells, ListenersFree, TakesAndFrees, Enters, UpdatesNode, Accesses, Commits,
         Observes, Listens
<1> QED
  BY <1>2, <1>3, <1>7, <1>8, Push DEF h, k

\* The repairs are written.
LEMMA WriteRepairsAt ==
    ASSUME NEW c, NEW list, NEW n \in Counts, NEW e \in Messages, NEW o \in Objects,
           n # -1, "updated" \notin e,
           Outlined(c, list, At(0, 0, n, 0, "no", "no", e))
    PROVE  Outlined(c, Onto(Do("write_repairs", o), list), At(-1, -1, n, -1, "begun", "no", e))
<1> DEFINE h == At(-1, -1, n, -1, "begun", "no", e)
           f == At(-1, -1, n, 0, "begun", "no", e)
           g == At(-1, 0, n, 0, "begun", "no", e)
           d == At(0, 0, n, 0, "begun", "no", e)
           k == At(0, 0, n, 0, "no", "no", e)
<1>1. {0, -1} \subseteq Counts /\ {"no", "begun"} \subseteq Phases /\ "no" \in News
  BY DEF Counts, Phases, News
<1>2. /\ h \in Notes /\ h.phase = "begun" /\ h.news = "no" /\ h.locks["listeners"] = n
      /\ h.locks["structure"] = -1 /\ h.locks["txn"] = -1 /\ h.locks["map"] = -1 /\ h.told = e
  BY <1>1, AtFields
<1>3. k \in Notes /\ k.told = e
  BY <1>1, AtFields
<1>4. Freed(h, "structure") = f
  BY <1>1, AtSteps, Unholding
<1>5. Freed(f, "map") = g
  BY <1>1, AtSteps, Unholding
<1>6. Freed(g, "txn") = d
  BY <1>1, AtSteps, Unholding
<1>7. InPhase(d, "no") = k
  BY <1>1, AtSteps
<1>8. Do("write_repairs", o) \in Instructions /\ Do("write_repairs", o).do = "write_repairs"
  BY BodyInstructions DEF Bodies
<1> HIDE DEF h, f, g, d, k
<1>9. Valid(c, h, Do("write_repairs", o), k)
  BY <1>2, <1>3, <1>4, <1>5, <1>6, <1>7, <1>8
     DEF Valid, Tells, ListenersFree, TakesAndFrees, Enters, UpdatesNode, Accesses, Commits,
         Observes, Listens
<1> QED
  BY <1>2, <1>3, <1>8, <1>9, Push DEF h, k

\* Nodes are removed from the map.
LEMMA DeleteAt ==
    ASSUME NEW c, NEW list, NEW t \in Counts, NEW m \in Counts, NEW n \in Counts,
           NEW s \in Counts, NEW e \in Messages, NEW o \in Objects,
           n # -1, "updated" \notin e,
           Outlined(c, list, At(t, m, n, s, "no", "changed", e))
    PROVE  Outlined(c, Onto(Do("delete_ids", o), list), At(t, m, n, s, "no", "no", e))
<1> DEFINE h == At(t, m, n, s, "no", "no", e)
           k == At(t, m, n, s, "no", "changed", e)
<1>1. "no" \in Phases /\ {"no", "changed"} \subseteq News
  BY DEF Phases, News
<1>2. h \in Notes /\ h.phase = "no" /\ h.news = "no" /\ h.locks["listeners"] = n /\ h.told = e
  BY <1>1, AtFields
<1>3. k \in Notes /\ k.told = e
  BY <1>1, AtFields
<1>4. WithNews(h, "changed") = k
  BY <1>1, AtSteps
<1>5. Do("delete_ids", o) \in Instructions /\ Do("delete_ids", o).do = "delete_ids"
  BY BodyInstructions DEF Bodies
<1> HIDE DEF h, k
<1>6. Valid(c, h, Do("delete_ids", o), k)
  BY <1>2, <1>3, <1>4, <1>5
     DEF Valid, Tells, ListenersFree, TakesAndFrees, Enters, UpdatesNode, Accesses, Commits,
         Observes, Listens
<1> QED
  BY <1>2, <1>3, <1>5, <1>6, Push DEF h, k

\* The data of a node is set.
LEMMA PutAt ==
    ASSUME NEW c, NEW list, NEW n \in Counts, NEW e \in Messages, NEW o \in Objects,
           n # -1, "updated" \notin e,
           Outlined(c, list, At(0, 0, n, 0, "no", "no", e))
    PROVE  Outlined(c, Onto(Do("put", o), list), At(-1, -1, n, -1, "no", "no", e))
<1> DEFINE h == At(-1, -1, n, -1, "no", "no", e)
           f == At(-1, -1, n, 0, "no", "no", e)
           g == At(-1, 0, n, 0, "no", "no", e)
           k == At(0, 0, n, 0, "no", "no", e)
<1>1. {0, -1} \subseteq Counts /\ "no" \in Phases /\ "no" \in News
  BY DEF Counts, Phases, News
<1>2. /\ h \in Notes /\ h.phase = "no" /\ h.news = "no" /\ h.locks["listeners"] = n
      /\ h.locks["structure"] = -1 /\ h.locks["txn"] = -1 /\ h.locks["map"] = -1 /\ h.told = e
  BY <1>1, AtFields
<1>3. k \in Notes /\ k.told = e
  BY <1>1, AtFields
<1>4. Freed(h, "structure") = f
  BY <1>1, AtSteps, Unholding
<1>5. Freed(f, "map") = g
  BY <1>1, AtSteps, Unholding
<1>6. Freed(g, "txn") = k
  BY <1>1, AtSteps, Unholding
<1>7. Do("put", o) \in Instructions /\ Do("put", o).do = "put"
  BY BodyInstructions DEF Bodies
<1> HIDE DEF h, f, g, k
<1>8. Valid(c, h, Do("put", o), k)
  BY <1>2, <1>3, <1>4, <1>5, <1>6, <1>7
     DEF Valid, Tells, ListenersFree, TakesAndFrees, Enters, UpdatesNode, Accesses, Commits,
         Observes, Listens
<1> QED
  BY <1>2, <1>3, <1>7, <1>8, Push DEF h, k

\* The data of a node is read.
LEMMA LookAt ==
    ASSUME NEW c, NEW list, NEW t \in Counts, NEW m \in Counts, NEW n \in Counts,
           NEW s \in Counts, NEW e \in Messages, NEW o \in Objects,
           NEW look \in {"look", "look_as"},
           t # -1, m # -1, s # -1, CalmLocks(c, t, m, n, s, e),
           Outlined(c, list, At(t, m, n, s, "no", "no", e))
    PROVE  Outlined(c, Onto(Do(look, o), list), At(t + 1, m + 1, n, s + 1, "no", "no", e))
<1> DEFINE t1 == t + 1
           m1 == m + 1
           s1 == s + 1
           h == At(t1, m1, n, s1, "no", "no", e)
           f == At(t1, m1, n, s, "no", "no", e)
           g == At(t1, m, n, s, "no", "no", e)
           k == At(t, m, n, s, "no", "no", e)
<1>1. /\ "no" \in Phases /\ "no" \in News
      /\ t1 \in Counts /\ m1 \in Counts /\ s1 \in Counts
      /\ t1 >= 1 /\ m1 >= 1 /\ s1 >= 1
      /\ Unheld(t1) = t /\ Unheld(m1) = m /\ Unheld(s1) = s
  BY DEF Counts, Phases, News, Unheld
<1> HIDE DEF t1, m1, s1
<1>2. /\ h \in Notes /\ h.phase = "no" /\ h.news = "no" /\ h.locks["listeners"] = n
      /\ h.locks["structure"] = s1 /\ h.locks["txn"] = t1 /\ h.locks["map"] = m1
      /\ h.told = e
  BY <1>1, AtFields
<1>3. k \in Notes /\ k.told = e
  BY <1>1, AtFields
<1>4. Freed(h, "structure") = f
  BY SMTT(30), <1>1, AtSteps
<1>5. Freed(f, "map") = g
  BY SMTT(30), <1>1, AtSteps
<1>6. Freed(g, "txn") = k
  BY SMTT(30), <1>1, AtSteps
<1>7. Do(look, o) \in Instructions /\ Do(look, o).do = look
  BY BodyInstructions DEF Bodies
<1>8. n # -1
  BY DEF CalmLocks
<1>9. Calm(c, k)
  BY CalmLocksAt
<1> HIDE DEF h, f, g, k
<1>10. Valid(c, h, Do(look, o), k)
  <2>1. \A l \in {"txn", "map", "structure"} : h.locks[l] >= 1
    BY <1>1, <1>2
  <2> QED
    BY <1>2, <1>3, <1>4, <1>5, <1>6, <1>7, <1>8, <1>9, <2>1
       DEF Valid, Tells, ListenersFree, TakesAndFrees, Enters, UpdatesNode, Accesses, Commits,
           Observes, Listens
<1> QED
  BY <1>2, <1>3, <1>7, <1>10, Push DEF h, k, t1, m1, s1

\* The observer rebuilds the tree.
LEMMA BuildAt ==
    ASSUME NEW c, NEW list, NEW t \in Counts, NEW m \in Counts, NEW n \in Counts,
           NEW e \in Messages, NEW o \in Objects,
           n # -1, t # 0, m # -1,
           Outlined(c, list, At(t, m, n, 0, "no", "no", e))
    PROVE  Outlined(c, Onto(Do("build", o), list), At(t, m + 1, n, -1, "no", "building", e))
<1> DEFINE m1 == m + 1
           h == At(t, m1, n, -1, "no", "building", e)
           f == At(t, m1, n, 0, "no", "building", e)
           g == At(t, m, n, 0, "no", "building", e)
           k == At(t, m, n, 0, "no", "no", e)
<1>1. /\ "no" \in Phases /\ {"no", "building"} \subseteq News /\ {0, -1} \subseteq Counts
      /\ m1 \in Counts /\ m1 >= 1 /\ Unheld(m1) = m
  BY DEF Counts, Phases, News, Unheld
<1> HIDE DEF m1
<1>2. /\ h \in Notes /\ h.phase = "no" /\ h.news = "building" /\ h.locks["listeners"] = n
      /\ h.locks["structure"] = -1 /\ h.locks["txn"] = t /\ h.locks["map"] = m1 /\ h.told = e
  BY <1>1, AtFields
<1>3. k \in Notes /\ k.told = e
  BY <1>1, AtFields
<1>4. Freed(h, "structure") = f
  BY SMTT(30), <1>1, AtSteps, Unholding
<1>5. Freed(f, "map") = g
  BY SMTT(30), <1>1, AtSteps
<1>6. WithNews(g, "no") = k
  BY SMTT(30), <1>1, AtSteps
<1>7. Do("build", o) \in Instructions /\ Do("build", o).do = "build"
  BY BodyInstructions DEF Bodies
<1> HIDE DEF h, f, g, k
<1>8. Valid(c, h, Do("build", o), k)
  BY <1>1, <1>2, <1>3, <1>4, <1>5, <1>6, <1>7
     DEF Valid, Tells, ListenersFree, TakesAndFrees, Enters, UpdatesNode, Accesses, Commits,
         Observes, Listens
<1> QED
  BY <1>2, <1>3, <1>7, <1>8, Push DEF h, k, m1

\* The tree is poisoned.
LEMMA PoisonAt ==
    ASSUME NEW c, NEW list, NEW t \in Counts, NEW m \in Counts, NEW n \in Counts,
           NEW s \in Counts, NEW p \in {"no", "failing"}, NEW w \in News, NEW e \in Messages,
           NEW o \in Objects, n # -1, "updated" \in e => t # 0, m = -1 => t # 0,
           s # 0 => p = "failing" \/ c.failed,
           Outlined(c, list, At(t, m, n, s, "no", "no", e))
    PROVE  Outlined(c, Onto(Do("poison", o), list), At(t, m, n, s, p, w, e))
<1> DEFINE h == At(t, m, n, s, p, w, e)
           f == At(t, m, n, s, "no", w, e)
           k == At(t, m, n, s, "no", "no", e)
<1>1. {"no", p} \subseteq Phases /\ p \in Phases /\ "no" \in News
  BY DEF Phases, News
<1>2. /\ h \in Notes /\ h.phase = p /\ h.locks["listeners"] = n
      /\ h.locks["structure"] = s /\ h.locks["txn"] = t /\ h.locks["map"] = m /\ h.told = e
  BY <1>1, AtFields
<1>3. k \in Notes /\ k.told = e
  BY <1>1, AtFields
<1>4. InPhase(h, "no") = f /\ WithNews(f, "no") = k
  BY <1>1, AtSteps
<1>5. Do("poison", o) \in Instructions /\ Do("poison", o).do = "poison"
  BY BodyInstructions DEF Bodies
<1> HIDE DEF h, f, k
<1>6. Valid(c, h, Do("poison", o), k)
  BY <1>2, <1>3, <1>4, <1>5
     DEF Valid, Tells, ListenersFree, TakesAndFrees, Enters, UpdatesNode, Accesses, Commits,
         Observes, Listens
<1> QED
  BY <1>2, <1>3, <1>5, <1>6, Push DEF h, k

\* Subscriptions come and go.
LEMMA InsertAt ==
    ASSUME NEW c, NEW list, NEW o \in Objects,
           Outlined(c, list, At(0, 0, -1, 0, "no", "no", {}))
    PROVE  Outlined(c, Onto(Do("insert", o), list), At(0, 0, -1, 0, "subscribing", "no", {}))
<1> DEFINE h == At(0, 0, -1, 0, "subscribing", "no", {})
           k == At(0, 0, -1, 0, "no", "no", {})
<1>1. {"no", "subscribing"} \subseteq Phases /\ "no" \in News /\ {0, -1} \subseteq Counts
      /\ {} \in Messages
  BY DEF Phases, News, Counts, Messages
<1>2. /\ h \in Notes /\ h.phase = "subscribing" /\ h.news = "no" /\ h.locks["listeners"] = -1
      /\ h.told = {}
  BY <1>1, AtFields
<1>3. k \in Notes /\ k.told = {}
  BY <1>1, AtFields
<1>4. InPhase(h, "no") = k
  BY <1>1, AtSteps
<1>5. Do("insert", o) \in Instructions /\ Do("insert", o).do = "insert"
  BY BodyInstructions DEF Bodies
<1> HIDE DEF h, k
<1>6. Valid(c, h, Do("insert", o), k)
  BY <1>2, <1>3, <1>4, <1>5
     DEF Valid, Tells, ListenersFree, TakesAndFrees, Enters, UpdatesNode, Accesses, Commits,
         Observes, Listens
<1> QED
  BY <1>2, <1>3, <1>5, <1>6, Push DEF h, k

LEMMA RemoveAt ==
    ASSUME NEW c, NEW list, NEW o \in Objects,
           Outlined(c, list, At(0, 0, -1, 0, "no", "no", {}))
    PROVE  Outlined(c, Onto(Do("remove", o), list), At(0, 0, -1, 0, "no", "no", {}))
<1> DEFINE h == At(0, 0, -1, 0, "no", "no", {})
<1>1. "no" \in Phases /\ "no" \in News /\ {0, -1} \subseteq Counts /\ {} \in Messages
  BY DEF Phases, News, Counts, Messages
<1>2. /\ h \in Notes /\ h.phase = "no" /\ h.news = "no" /\ h.locks["listeners"] = -1
      /\ h.told = {}
  BY <1>1, AtFields
<1>3. Do("remove", o) \in Instructions /\ Do("remove", o).do = "remove"
  BY BodyInstructions DEF Bodies
<1> HIDE DEF h
<1>4. Valid(c, h, Do("remove", o), h)
  BY <1>2, <1>3
     DEF Valid, Tells, ListenersFree, TakesAndFrees, Enters, UpdatesNode, Accesses, Commits,
         Observes, Listens
<1> QED
  BY <1>2, <1>3, <1>4, Push DEF h

\* Listeners are told.
LEMMA CallbacksAt ==
    ASSUME NEW c, NEW list, NEW t \in Counts, NEW m \in Counts, NEW n \in Counts,
           NEW s \in Counts, NEW e \in Messages, NEW x \in {"updated", "poisoned"},
           NEW left \in SUBSET Nat, left \subseteq c.listeners, x = "poisoned" => c.poisoned,
           CalmLocks(c, t, m, n, s, e \cup {x}),
           Outlined(c, list, At(t, m, n, s, "no", "no", e))
    PROVE  LET i == [do |-> "callbacks", event |-> x, left |-> left] IN
           /\ i \in Instructions
           /\ Outlined(c, Onto(i, list), At(t, m, n, s, "no", "no", e \cup {x}))
<1> DEFINE i == [do |-> "callbacks", event |-> x, left |-> left]
           ex == e \cup {x}
           h == At(t, m, n, s, "no", "no", ex)
           k == At(t, m, n, s, "no", "no", e)
<1>1. ex \in Messages
  BY DEF Messages
<1>7. CalmLocks(c, t, m, n, s, ex)
  OBVIOUS
<1>10. ex = e \cup {x}
  OBVIOUS
<1> HIDE DEF ex
<1>2. /\ h \in Notes /\ h.phase = "no" /\ h.news = "no" /\ h.locks["listeners"] = n
      /\ h.told = ex
  BY <1>1, LockTypes, AtFields
<1>3. k \in Notes /\ k.told = e
  BY LockTypes, AtFields
<1>4. Telling(h, e) = k
  BY <1>1, LockTypes, AtSteps
<1>5. i \in Instructions /\ i.do = "callbacks" /\ i.event = x /\ i.left = left
  BY DEF Instructions
<1>6. n # -1
  BY DEF CalmLocks
<1>8. Calm(c, h)
  BY <1>1, <1>7, CalmLocksAt
<1> HIDE DEF h, k, i
<1>9. Valid(c, h, i, k)
  BY <1>10, <1>2, <1>3, <1>4, <1>5, <1>6, <1>8
     DEF Valid, Tells, ListenersFree, TakesAndFrees, Enters, UpdatesNode, Accesses, Commits,
         Observes, Listens
<1> QED
  BY <1>2, <1>3, <1>5, <1>9, Push DEF h, k, ex, i

\* One listener is told.
LEMMA CallbackAt ==
    ASSUME NEW c, NEW list, NEW t \in Counts, NEW m \in Counts, NEW n \in Counts,
           NEW s \in Counts, NEW e \in Messages, NEW x \in e,
           NEW l \in Nat, l \in c.listeners,
           CalmLocks(c, t, m, n, s, e),
           Outlined(c, list, At(t, m, n, s, "no", "no", e))
    PROVE  LET i == [do |-> "callback", event |-> x, to |-> l] IN
           /\ i \in Instructions
           /\ Outlined(c, Onto(i, list), At(t, m, n, s, "no", "no", e))
<1> DEFINE i == [do |-> "callback", event |-> x, to |-> l]
           h == At(t, m, n, s, "no", "no", e)
<1>1. /\ h \in Notes /\ h.phase = "no" /\ h.news = "no" /\ h.locks["listeners"] = n
      /\ h.told = e
  BY LockTypes, AtFields
<1>2. i \in Instructions /\ i.do = "callback" /\ i.event = x /\ i.to = l
  BY DEF Instructions, Messages
<1>3. n # -1
  BY DEF CalmLocks
<1>4. Calm(c, h)
  BY CalmLocksAt
<1> HIDE DEF h, i
<1>5. Valid(c, h, i, h)
  BY <1>1, <1>2, <1>3, <1>4
     DEF Valid, Tells, ListenersFree, TakesAndFrees, Enters, UpdatesNode, Accesses, Commits,
         Observes, Listens
<1> QED
  BY <1>1, <1>2, <1>5, Push DEF h, i

-----------------------------------------------------------------------------
(* The lists of the calls                                                  *)

\* get_data_as, which takes its locks in an order of its own.
LEMMA GetAsOutlined ==
    ASSUME NEW c, NEW list, NEW t \in Counts, NEW m \in Counts, NEW n \in Counts,
           NEW s \in Counts, NEW e \in Messages, NEW o \in Objects,
           CalmLocks(c, t, m, n, s, e),
           Outlined(c, list, At(t, m, n, s, "no", "no", e))
    PROVE  Outlined(c, Entry("get_as", o) \o list, At(t, m, n, s, "no", "no", e))
<1> DEFINE t1 == t + 1
           m1 == m + 1
           s1 == s + 1
           L1 == Onto(Do("look_as", o), list)
           L2 == Onto(Read("txn"), L1)
           L3 == Onto(Read("map"), L2)
           L4 == Onto(Read("structure"), L3)
<1>1. Follows(c, list, e) /\ list \in Seq(Instructions)
  BY FollowsAt, LockTypes
<1>2. Do("look_as", o) \in Instructions /\ Do("look_as", o).do = "look_as"
  BY BodyInstructions DEF Bodies
<1>3. Entry("get_as", o) \o list = L4
  BY <1>1, <1>2, LockTypes, Unfold4 DEF Entry
<1>4. /\ n # -1 /\ (t # 0 \/ m # 0 => e # {})
      /\ s # 0 => c.failed /\ "poisoned" \in e
  BY DEF CalmLocks
<1>5. (m # -1 => m1 \in Counts) /\ (s # -1 => s1 \in Counts)
  BY Unholding
<1>6. t # -1 /\ m # -1 /\ s # -1 => Outlined(c, L1, At(t1, m1, n, s1, "no", "no", e))
  BY LookAt
<1>7. Skipped(c, L1, e) /\ Skipped(c, L2, e) /\ Skipped(c, L3, e)
  <2>1. Follows(c, L1, e) /\ Skipped(c, L1, e)
    BY <1>1, <1>2, Skips
  <2> HIDE DEF L1
  <2>2. Follows(c, L2, e) /\ Skipped(c, L2, e)
    BY <2>1, LockTypes, Skips
  <2> HIDE DEF L2
  <2> QED
    BY <2>1, <2>2, LockTypes, Skips
<1> HIDE DEF L1, m1, s1
<1>8. m # -1 /\ s # -1 => Outlined(c, L2, At(t, m1, n, s1, "no", "no", e))
  BY <1>4, <1>5, <1>6, <1>7, LockTypes, ReadsAt
<1> HIDE DEF L2, t1
<1>9. s # -1 => Outlined(c, L3, At(t, m, n, s1, "no", "no", e))
  BY ZenonT(60), <1>4, <1>5, <1>7, <1>8, LockTypes, ReadsAt DEF m1
<1> HIDE DEF L3
<1>10. Outlined(c, L4, At(t, m, n, s, "no", "no", e))
  <2>1. n # -1 /\ (s = -1 => c.failed /\ "poisoned" \in e)
    BY <1>4
  <2>2. s # -1 => Outlined(c, L3, At(t, m, n, s + 1, "no", "no", e))
    BY <1>9 DEF s1
  <2> QED
    BY <1>7, <2>1, <2>2, LockTypes, ReadsAt
<1> QED
  BY <1>3, <1>10

\* A listener is added; but within a listener there is no getting there.
LEMMA SubscribeOutlined ==
    ASSUME NEW c, NEW list, NEW t \in Counts, NEW m \in Counts, NEW n \in Counts,
           NEW s \in Counts, NEW e \in Messages, NEW o \in Objects,
           CalmLocks(c, t, m, n, s, e),
           Outlined(c, list, At(t, m, n, s, "no", "no", e))
    PROVE  Outlined(c, Entry("subscribe", o) \o list, At(t, m, n, s, "subscribing", "no", e))
<1> DEFINE L1 == Onto(Free("listeners"), list)
           L2 == Onto(Do("insert", o), L1)
           L3 == Onto(Write("listeners"), L2)
<1>1. Follows(c, list, e) /\ list \in Seq(Instructions)
  BY FollowsAt, LockTypes
<1>2. Do("insert", o) \in Instructions /\ Do("insert", o).do = "insert"
  BY BodyInstructions DEF Bodies
<1>3. Entry("subscribe", o) \o list = L3
  BY <1>1, <1>2, LockTypes, Unfold3 DEF Entry
<1>4. /\ n # -1 /\ (n # 0 => e # {})
      /\ n = 0 => t = 0 /\ m = 0 /\ s = 0 /\ e = {}
  BY DEF CalmLocks, Counts
<1>5. Skipped(c, L2, e)
  <2>1. Follows(c, L1, e)
    BY <1>1, LockTypes, Skips
  <2> HIDE DEF L1
  <2> QED
    BY <1>2, <2>1, Skips
<1>6. n = 0 => Outlined(c, L2, At(t, m, -1, s, "subscribing", "no", e))
  <2> SUFFICES ASSUME n = 0
               PROVE  Outlined(c, L2, At(0, 0, -1, 0, "subscribing", "no", {}))
    BY <1>4
  <2>1. Outlined(c, list, At(0, 0, 0, 0, "no", "no", {}))
    BY <1>4
  <2>2. Outlined(c, L1, At(0, 0, -1, 0, "no", "no", {}))
    BY <1>4, <2>1, LockTypes, Unholding, FreesAt
  <2> HIDE DEF L1
  <2> QED
    BY <2>2, InsertAt
<1> HIDE DEF L2
<1>7. Outlined(c, L3, At(t, m, n, s, "subscribing", "no", e))
  <2>1. "subscribing" \in Phases /\ "no" \in News
    BY DEF Phases, News
  <2>2. n # -1 /\ (n # 0 => e # {})
    BY <1>4
  <2> QED
    BY <1>5, <1>6, <2>1, <2>2, WritesAt
<1> QED
  BY <1>3, <1>7

\* A subscription is dropped; but within a listener there is no getting there.
LEMMA DropOutlined ==
    ASSUME NEW c, NEW list, NEW t \in Counts, NEW m \in Counts, NEW n \in Counts,
           NEW s \in Counts, NEW e \in Messages, NEW o \in Objects,
           CalmLocks(c, t, m, n, s, e),
           Outlined(c, list, At(t, m, n, s, "no", "no", e))
    PROVE  Outlined(c, Entry("drop", o) \o list, At(t, m, n, s, "no", "no", e))
<1> DEFINE L1 == Onto(Free("listeners"), list)
           L2 == Onto(Do("remove", o), L1)
           L3 == Onto(Write("listeners"), L2)
<1>1. Follows(c, list, e) /\ list \in Seq(Instructions)
  BY FollowsAt, LockTypes
<1>2. Do("remove", o) \in Instructions /\ Do("remove", o).do = "remove"
  BY BodyInstructions DEF Bodies
<1>3. Entry("drop", o) \o list = L3
  BY <1>1, <1>2, LockTypes, Unfold3 DEF Entry
<1>4. /\ n # -1 /\ (n # 0 => e # {})
      /\ n = 0 => t = 0 /\ m = 0 /\ s = 0 /\ e = {}
  BY DEF CalmLocks, Counts
<1>5. Skipped(c, L2, e)
  <2>1. Follows(c, L1, e)
    BY <1>1, LockTypes, Skips
  <2> HIDE DEF L1
  <2> QED
    BY <1>2, <2>1, Skips
<1>6. n = 0 => Outlined(c, L2, At(t, m, -1, s, "no", "no", e))
  <2> SUFFICES ASSUME n = 0
               PROVE  Outlined(c, L2, At(0, 0, -1, 0, "no", "no", {}))
    BY <1>4
  <2>1. Outlined(c, list, At(0, 0, 0, 0, "no", "no", {}))
    BY <1>4
  <2>2. Outlined(c, L1, At(0, 0, -1, 0, "no", "no", {}))
    BY <1>4, <2>1, LockTypes, Unholding, FreesAt
  <2> HIDE DEF L1
  <2> QED
    BY <2>2, RemoveAt
<1> HIDE DEF L2
<1>7. Outlined(c, L3, At(t, m, n, s, "no", "no", e))
  <2>1. n # -1 /\ (n # 0 => e # {})
    BY <1>4
  <2> QED
    BY <1>5, <1>6, <2>1, LockTypes, WritesAt
<1> QED
  BY <1>3, <1>7

\* Every call that the application or a listener may make.
LEMMA EntryOutlined ==
    ASSUME NEW c, NEW list, NEW t \in Counts, NEW m \in Counts, NEW n \in Counts,
           NEW s \in Counts, NEW e \in Messages, NEW o \in Objects, NEW call \in AllCalls,
           CalmLocks(c, t, m, n, s, e),
           Outlined(c, list, At(t, m, n, s, "no", "no", e))
    PROVE  Outlined(c, Entry(call, o) \o list,
                    At(t, m, n, s, IF call = "subscribe" THEN "subscribing" ELSE "no", "no", e))
<1>1. CASE call \in {"update", "delete", "set", "get"}
  <2>1. Entry(call, o) \o list = Onto(Do(call, o), list) /\ call # "subscribe"
    BY <1>1 DEF Entry, Onto
  <2> QED
    BY <1>1, <2>1, CallAt
<1>2. CASE call = "get_as"
  BY <1>2, GetAsOutlined
<1>3. CASE call = "read"
  BY <1>3, ReadOutlined
<1>4. CASE call = "external"
  BY <1>4, ExternalOutlined
<1>5. CASE call = "subscribe"
  BY <1>5, SubscribeOutlined
<1>6. CASE call = "drop"
  BY <1>6, DropOutlined
<1> QED
  BY <1>1, <1>2, <1>3, <1>4, <1>5, <1>6 DEF AllCalls

\* TreeObserver::notify: all listeners are told, with the lock read.
LEMMA NotifyOutlined ==
    ASSUME NEW c, NEW list, NEW t \in Counts, NEW m \in Counts, NEW n \in Counts,
           NEW s \in Counts, NEW e \in Messages, NEW x \in {"updated", "poisoned"},
           NEW left \in SUBSET Nat, left \subseteq c.listeners, x = "poisoned" => c.poisoned,
           n # -1, x = "updated" \/ "updated" \in e \/ m = -1 => t # 0,
           s # 0 => c.failed /\ "poisoned" \in e \cup {x},
           Outlined(c, list, At(t, m, n, s, "no", "no", e))
    PROVE  LET i == [do |-> "callbacks", event |-> x, left |-> left] IN
           Outlined(c, <<Read("listeners"), i, Free("listeners")>> \o list,
                    At(t, m, n, s, "no", "no", e \cup {x}))
<1> DEFINE n1 == n + 1
           ex == e \cup {x}
           i == [do |-> "callbacks", event |-> x, left |-> left]
           L1 == Onto(Free("listeners"), list)
           L2 == Onto(i, L1)
           L3 == Onto(Read("listeners"), L2)
<1>1. list \in Seq(Instructions)
  BY FollowsAt, LockTypes
<1>2. ex \in Messages
  BY DEF Messages
<1>3. n1 \in Counts /\ n1 >= 1 /\ n1 # 0 /\ n1 # -1 /\ Unheld(n1) = n
  BY DEF Counts, Unheld
<1> HIDE DEF n1
<1>4. Outlined(c, L1, At(t, m, n1, s, "no", "no", e))
  BY <1>3, LockTypes, FreesAt
<1>5. CalmLocks(c, t, m, n1, s, e \cup {x})
  BY <1>3 DEF CalmLocks
<1> HIDE DEF L1
<1>6. i \in Instructions /\ Outlined(c, L2, At(t, m, n1, s, "no", "no", ex))
  BY <1>3, <1>4, <1>5, CallbacksAt
<1> HIDE DEF i, ex
<1>7. <<Read("listeners"), i, Free("listeners")>> \o list = L3
  BY <1>1, <1>6, LockTypes, Unfold3 DEF L1
<1> HIDE DEF L2
<1>8. Outlined(c, L3, At(t, m, n, s, "no", "no", ex))
  BY <1>2, <1>6, LockTypes, ReadsAt DEF n1
<1> QED
  BY <1>7, <1>8 DEF ex, i

\* update_node of a tree that is not poisoned.
LEMMA UpdateOutlined ==
    ASSUME NEW c, NEW list, NEW t \in Counts, NEW m \in Counts, NEW n \in Counts,
           NEW e \in Messages, NEW o \in Objects,
           CalmLocks(c, t, m, n, 0, e),
           Outlined(c, list, At(t, m, n, 0, "no", "no", e))
    PROVE  Outlined(c, <<Write("structure"), Do("repairs", o)>> \o list,
                    At(t, m, n, 0, "begun", "no", e))
<1> DEFINE L1 == Onto(Do("repairs", o), list)
           L2 == Onto(Write("structure"), L1)
<1>1. Follows(c, list, e) /\ list \in Seq(Instructions) /\ 0 \in Counts
  BY FollowsAt, LockTypes DEF Counts
<1>2. Do("repairs", o) \in Instructions /\ Do("repairs", o).do = "repairs"
  BY BodyInstructions DEF Bodies
<1>3. <<Write("structure"), Do("repairs", o)>> \o list = L2
  BY <1>1, <1>2, LockTypes, Unfold2
<1>4. Outlined(c, L1, At(t, m, n, -1, "begun", "no", e))
  BY RepairsAt
<1> HIDE DEF L1
<1>5. Outlined(c, L2, At(t, m, n, 0, "begun", "no", e))
  <2>1. n # -1
    BY DEF CalmLocks
  <2>2. "begun" \in Phases /\ "no" \in News
    BY DEF Phases, News
  <2> QED
    BY <1>1, <1>4, <2>1, <2>2, WritesAt
<1> QED
  BY <1>3, <1>5

\* delete_nodes of a tree that is not poisoned.
LEMMA DeleteOutlined ==
    ASSUME NEW c, NEW list, NEW t \in Counts, NEW m \in Counts, NEW n \in Counts,
           NEW e \in Messages, NEW o \in Objects,
           CalmLocks(c, t, m, n, 0, e),
           Outlined(c, list, At(t, m, n, 0, "no", "no", e))
    PROVE  Outlined(c, (<<Write("txn"), Write("map"), Write("structure"), Do("delete_ids", o),
                          Free("structure")>> \o End("yrs_tree")) \o list,
                    At(t, m, n, 0, "no", "no", e))
<1> DEFINE L0 == End("yrs_tree") \o list
           L1 == Onto(Free("structure"), L0)
           L2 == Onto(Do("delete_ids", o), L1)
           L3 == Onto(Write("structure"), L2)
           L4 == Onto(Write("map"), L3)
           L5 == Onto(Write("txn"), L4)
<1>1. /\ Follows(c, list, e) /\ list \in Seq(Instructions) /\ {0, -1} \subseteq Counts
      /\ {"no", "changed"} \subseteq News
  <2>1. {0, -1} \subseteq Counts /\ {"no", "changed"} \subseteq News
    BY DEF Counts, News
  <2> QED
    BY <2>1, FollowsAt, LockTypes
<1>2. Do("delete_ids", o) \in Instructions /\ Do("delete_ids", o).do = "delete_ids"
  BY BodyInstructions DEF Bodies
<1>3. (<<Write("txn"), Write("map"), Write("structure"), Do("delete_ids", o),
         Free("structure")>> \o End("yrs_tree")) \o list = L5
  <2> DEFINE x == Write("txn")
             y == Write("map")
             z == Write("structure")
             u == Do("delete_ids", o)
             v == Free("structure")
             f == <<x, y, z, u, v>>
             end == End("yrs_tree")
  <2>1. x \in Instructions /\ y \in Instructions /\ z \in Instructions /\ u \in Instructions
        /\ v \in Instructions
    BY <1>2, LockTypes
  <2>2. end \in Seq(Instructions) /\ L0 = end \o list
    BY <1>1, EndUnfolds
  <2> HIDE DEF x, y, z, u, v, end
  <2>3. f \in Seq(Instructions) /\ L0 \in Seq(Instructions)
    <3> HIDE DEF L0
    <3> QED
      BY <1>1, <2>1, <2>2, ConcatProperties
  <2> HIDE DEF L0
  <2>4. f \o L0 = Onto(x, Onto(y, Onto(z, Onto(u, Onto(v, L0)))))
    BY SMTT(30), <2>1, <2>3, Unfold5
  <2>5. (f \o end) \o list = f \o L0
    <3> HIDE DEF f
    <3> QED
      BY <1>1, <2>2, <2>3, ConcatAssociative
  <2> QED
    BY <2>4, <2>5 DEF x, y, z, u, v, end
<1>4. n # -1 /\ (t # 0 \/ m # 0 => e # {}) /\ ("updated" \in e => t # 0)
  BY DEF CalmLocks
<1>5. Skipped(c, L3, e) /\ Skipped(c, L4, e)
  <2>1. Follows(c, L0, e)
    BY <1>1, EndSkipped DEF Follows
  <2> HIDE DEF L0
  <2>2. Follows(c, L1, e)
    BY <2>1, LockTypes, Skips
  <2> HIDE DEF L1
  <2>3. Follows(c, L2, e)
    BY <1>2, <2>2, Skips
  <2> HIDE DEF L2
  <2>4. Follows(c, L3, e) /\ Skipped(c, L3, e)
    BY <2>3, LockTypes, Skips
  <2> HIDE DEF L3
  <2> QED
    BY <2>4, LockTypes, Skips
<1>6. CASE t = 0 /\ m = 0
  <2>1. Outlined(c, L0, At(-1, -1, n, 0, "no", "changed", e))
    BY <1>1, <1>4, <1>6, LockTypes, EndOutlined
  <2> HIDE DEF L0
  <2>2. Outlined(c, L1, At(-1, -1, n, -1, "no", "changed", e))
    BY <1>1, <1>4, <2>1, LockTypes, Unholding, FreesAt
  <2> HIDE DEF L1
  <2>3. Outlined(c, L2, At(-1, -1, n, -1, "no", "no", e))
    BY <1>1, <1>4, <1>6, <2>2, DeleteAt
  <2> HIDE DEF L2
  <2>4. Outlined(c, L3, At(-1, -1, n, 0, "no", "no", e))
    BY <1>1, <1>4, <2>3, LockTypes, WritesAt
  <2> HIDE DEF L3
  <2>5. Outlined(c, L4, At(-1, 0, n, 0, "no", "no", e))
    BY <1>1, <1>4, <2>4, LockTypes, WritesAt
  <2> HIDE DEF L4
  <2>6. Outlined(c, L5, At(0, 0, n, 0, "no", "no", e))
    BY <1>1, <1>4, <2>5, LockTypes, WritesAt
  <2> QED
    BY <1>3, <1>6, <2>6
<1>7. CASE t = 0 /\ m # 0
  <2> HIDE DEF L3
  <2>1. Outlined(c, L4, At(-1, m, n, 0, "no", "no", e))
    BY <1>1, <1>4, <1>5, <1>7, LockTypes, WritesAt
  <2> HIDE DEF L4
  <2>2. Outlined(c, L5, At(0, m, n, 0, "no", "no", e))
    BY <1>1, <1>4, <2>1, LockTypes, WritesAt
  <2> QED
    BY <1>3, <1>7, <2>2
<1>8. CASE t # 0
  <2> HIDE DEF L4
  <2>1. Outlined(c, L5, At(t, m, n, 0, "no", "no", e))
    BY <1>1, <1>4, <1>5, <1>8, LockTypes, WritesAt
  <2> QED
    BY <1>3, <2>1
<1> QED
  BY <1>6, <1>7, <1>8

\* set_data of a tree that is not poisoned.
LEMMA SetOutlined ==
    ASSUME NEW c, NEW list, NEW t \in Counts, NEW m \in Counts, NEW n \in Counts,
           NEW e \in Messages, NEW o \in Objects,
           CalmLocks(c, t, m, n, 0, e),
           Outlined(c, list, At(t, m, n, 0, "no", "no", e))
    PROVE  Outlined(c, <<Write("txn"), Write("map"), Write("structure"), Do("put", o)>> \o list,
                    At(t, m, n, 0, "no", "no", e))
<1> DEFINE L1 == Onto(Do("put", o), list)
           L2 == Onto(Write("structure"), L1)
           L3 == Onto(Write("map"), L2)
           L4 == Onto(Write("txn"), L3)
<1>1. {0, -1} \subseteq Counts
  BY DEF Counts
<1>2. Follows(c, list, e) /\ list \in Seq(Instructions)
  BY <1>1, FollowsAt, LockTypes
<1>3. Do("put", o) \in Instructions /\ Do("put", o).do = "put"
  BY BodyInstructions DEF Bodies
<1>4. <<Write("txn"), Write("map"), Write("structure"), Do("put", o)>> \o list = L4
  BY SMTT(30), <1>2, <1>3, LockTypes, Unfold4
<1>5. n # -1 /\ (t # 0 \/ m # 0 => e # {}) /\ ("updated" \in e => t # 0)
  BY DEF CalmLocks
<1>6. Skipped(c, L2, e) /\ Skipped(c, L3, e)
  <2>1. Follows(c, L1, e)
    BY <1>2, <1>3, Skips
  <2> HIDE DEF L1
  <2>2. Follows(c, L2, e) /\ Skipped(c, L2, e)
    BY <2>1, LockTypes, Skips
  <2> HIDE DEF L2
  <2> QED
    BY <2>2, LockTypes, Skips
<1>7. CASE t = 0 /\ m = 0
  <2>1. Outlined(c, L1, At(-1, -1, n, -1, "no", "no", e))
    BY <1>5, <1>7, PutAt
  <2> HIDE DEF L1
  <2>2. Outlined(c, L2, At(-1, -1, n, 0, "no", "no", e))
    BY <1>1, <1>5, <2>1, LockTypes, WritesAt
  <2> HIDE DEF L2
  <2>3. Outlined(c, L3, At(-1, 0, n, 0, "no", "no", e))
    BY <1>1, <1>5, <2>2, LockTypes, WritesAt
  <2> HIDE DEF L3
  <2>4. Outlined(c, L4, At(0, 0, n, 0, "no", "no", e))
    BY <1>1, <1>5, <2>3, LockTypes, WritesAt
  <2> QED
    BY <1>4, <1>7, <2>4
<1>8. CASE t = 0 /\ m # 0
  <2> HIDE DEF L2
  <2>1. Outlined(c, L3, At(-1, m, n, 0, "no", "no", e))
    BY <1>1, <1>5, <1>6, <1>8, LockTypes, WritesAt
  <2> HIDE DEF L3
  <2>2. Outlined(c, L4, At(0, m, n, 0, "no", "no", e))
    BY <1>1, <1>5, <2>1, LockTypes, WritesAt
  <2> QED
    BY <1>4, <1>8, <2>2
<1>9. CASE t # 0
  <2> HIDE DEF L3
  <2>1. Outlined(c, L4, At(t, m, n, 0, "no", "no", e))
    BY <1>1, <1>5, <1>6, <1>9, LockTypes, WritesAt
  <2> QED
    BY <1>4, <2>1
<1> QED
  BY <1>7, <1>8, <1>9

\* get_data of a tree that is not poisoned.
LEMMA GetOutlined ==
    ASSUME NEW c, NEW list, NEW t \in Counts, NEW m \in Counts, NEW n \in Counts,
           NEW e \in Messages, NEW o \in Objects,
           CalmLocks(c, t, m, n, 0, e),
           Outlined(c, list, At(t, m, n, 0, "no", "no", e))
    PROVE  Outlined(c, <<Read("txn"), Read("map"), Read("structure"), Do("look", o)>> \o list,
                    At(t, m, n, 0, "no", "no", e))
<1> DEFINE t1 == t + 1
           m1 == m + 1
           s1 == 0 + 1
           L1 == Onto(Do("look", o), list)
           L2 == Onto(Read("structure"), L1)
           L3 == Onto(Read("map"), L2)
           L4 == Onto(Read("txn"), L3)
<1>1. 0 \in Counts
  BY DEF Counts
<1>2. Follows(c, list, e) /\ list \in Seq(Instructions)
  BY <1>1, FollowsAt, LockTypes
<1>3. Do("look", o) \in Instructions /\ Do("look", o).do = "look"
  BY BodyInstructions DEF Bodies
<1>4. <<Read("txn"), Read("map"), Read("structure"), Do("look", o)>> \o list = L4
  BY SMTT(30), <1>2, <1>3, LockTypes, Unfold4
<1>5. n # -1 /\ (t = -1 => e # {}) /\ (m = -1 => e # {})
  BY DEF CalmLocks
<1>6. (t # -1 => t1 \in Counts) /\ (m # -1 => m1 \in Counts)
  BY Unholding
<1>7. t # -1 /\ m # -1 => Outlined(c, L1, At(t1, m1, n, s1, "no", "no", e))
  BY <1>1, LookAt
<1>8. Skipped(c, L2, e) /\ Skipped(c, L3, e)
  <2>1. Follows(c, L1, e)
    BY <1>2, <1>3, Skips
  <2> HIDE DEF L1
  <2>2. Follows(c, L2, e) /\ Skipped(c, L2, e)
    BY <2>1, LockTypes, Skips
  <2> HIDE DEF L2
  <2> QED
    BY <2>2, LockTypes, Skips
<1> HIDE DEF L1, t1, m1
<1>9. t # -1 /\ m # -1 => Outlined(c, L2, At(t1, m1, n, 0, "no", "no", e))
  BY <1>1, <1>5, <1>6, <1>7, LockTypes, ReadsAt
<1> HIDE DEF L2, s1
<1>10. t # -1 => Outlined(c, L3, At(t1, m, n, 0, "no", "no", e))
  <2>1. t # -1 /\ m # -1 => Outlined(c, L2, At(t1, m + 1, n, 0, "no", "no", e))
    BY <1>9 DEF m1
  <2> QED
    BY <1>1, <1>5, <1>6, <1>8, <2>1, LockTypes, ReadsAt
<1> HIDE DEF L3
<1>11. Outlined(c, L4, At(t, m, n, 0, "no", "no", e))
  <2>1. t # -1 => Outlined(c, L3, At(t + 1, m, n, 0, "no", "no", e))
    BY <1>10 DEF t1
  <2> QED
    BY <1>1, <1>5, <1>8, <2>1, LockTypes, ReadsAt
<1> QED
  BY <1>4, <1>11

\* update_node writes its repairs in a transaction of their own.
LEMMA RepairingOutlined ==
    ASSUME NEW c, NEW list, NEW t \in Counts, NEW m \in Counts, NEW n \in Counts,
           NEW e \in Messages, NEW o \in Objects,
           CalmLocks(c, t, m, n, 0, e),
           Outlined(c, list, At(t, m, n, 0, "no", "no", e))
    PROVE  Outlined(c, <<Write("txn"), Write("map"), Do("write_repairs", o)>> \o list,
                    At(t, m, n, -1, "begun", "no", e))
<1> DEFINE L1 == Onto(Do("write_repairs", o), list)
           L2 == Onto(Write("map"), L1)
           L3 == Onto(Write("txn"), L2)
<1>1. {0, -1} \subseteq Counts /\ "begun" \in Phases /\ "no" \in News
  BY DEF Counts, Phases, News
<1>2. Follows(c, list, e) /\ list \in Seq(Instructions)
  BY <1>1, FollowsAt, LockTypes
<1>3. Do("write_repairs", o) \in Instructions /\ Do("write_repairs", o).do = "write_repairs"
  BY BodyInstructions DEF Bodies
<1>4. <<Write("txn"), Write("map"), Do("write_repairs", o)>> \o list = L3
  BY <1>2, <1>3, LockTypes, Unfold3
<1>5. n # -1 /\ (t # 0 \/ m # 0 => e # {}) /\ ("updated" \in e => t # 0)
  BY DEF CalmLocks
<1>6. Skipped(c, L1, e) /\ Skipped(c, L2, e)
  <2>1. Follows(c, L1, e) /\ Skipped(c, L1, e)
    BY <1>2, <1>3, Skips
  <2> HIDE DEF L1
  <2> QED
    BY <2>1, LockTypes, Skips
<1>7. CASE t = 0 /\ m = 0
  <2>1. Outlined(c, L1, At(-1, -1, n, -1, "begun", "no", e))
    BY <1>5, <1>7, WriteRepairsAt
  <2> HIDE DEF L1
  <2>2. Outlined(c, L2, At(-1, 0, n, -1, "begun", "no", e))
    BY <1>1, <1>5, <2>1, WritesAt
  <2> HIDE DEF L2
  <2>3. Outlined(c, L3, At(0, 0, n, -1, "begun", "no", e))
    BY <1>1, <1>5, <2>2, WritesAt
  <2> QED
    BY <1>4, <1>7, <2>3
<1>8. CASE t = 0 /\ m # 0
  <2> HIDE DEF L1
  <2>1. Outlined(c, L2, At(-1, m, n, -1, "begun", "no", e))
    BY <1>1, <1>5, <1>6, <1>8, WritesAt
  <2> HIDE DEF L2
  <2>2. Outlined(c, L3, At(0, m, n, -1, "begun", "no", e))
    BY <1>1, <1>5, <2>1, WritesAt
  <2> QED
    BY <1>4, <1>8, <2>2
<1>9. CASE t # 0
  <2> HIDE DEF L2
  <2>1. Outlined(c, L3, At(t, m, n, -1, "begun", "no", e))
    BY <1>1, <1>5, <1>6, <1>9, WritesAt
  <2> QED
    BY <1>4, <2>1
<1> QED
  BY <1>7, <1>8, <1>9

LEMMA PlaceIsList ==
    ASSUME NEW o \in Objects
    PROVE  Place(o) \in Seq(Instructions)
<1> DEFINE x == Write("txn")
           y == Write("map")
           z == Do("place", o)
           u == Free("structure")
           v == Do("enable", o)
<1>1. x \in Instructions /\ y \in Instructions /\ z \in Instructions /\ u \in Instructions
      /\ v \in Instructions
  BY LockTypes, BodyInstructions DEF Bodies
<1>2. End("yrs_tree") \in Seq(Instructions)
  <2>1. <<>> \in Seq(Instructions)
    OBVIOUS
  <2> QED
    BY <2>1, EndUnfolds
<1>3. Place(o) = <<x, y, z, u, v>> \o End("yrs_tree")
  BY DEF Place
<1> HIDE DEF x, y, z, u, v
<1>4. <<x, y, z, u, v>> \in Seq(Instructions)
  BY <1>1
<1> QED
  BY <1>2, <1>3, <1>4, ConcatProperties

\* The repairs are written, with the observer off, then the node is placed.
LEMMA RepairedOutlined ==
    ASSUME NEW c, NEW list, NEW n \in Counts, NEW e \in Messages, NEW o \in Objects,
           n # -1, "updated" \notin e,
           Outlined(c, list, At(0, 0, n, 0, "no", "no", e))
    PROVE  Outlined(c, (End("yrs_tree") \o Place(o)) \o list, At(-1, -1, n, -1, "off", "no", e))
<1>1. {0, -1} \subseteq Counts /\ "off" \in Phases /\ "no" \in News
  BY DEF Counts, Phases, News
<1>2. list \in Seq(Instructions)
  BY <1>1, FollowsAt, LockTypes
<1>3. Outlined(c, Place(o) \o list, At(0, 0, n, -1, "off", "no", e))
  BY <1>1, PlaceOutlined
<1>4. Outlined(c, End("yrs_tree") \o (Place(o) \o list), At(-1, -1, n, -1, "off", "no", e))
  BY <1>1, <1>3, EndOutlined
<1>5. (End("yrs_tree") \o Place(o)) \o list = End("yrs_tree") \o (Place(o) \o list)
  <2> DEFINE end == End("yrs_tree")
             place == Place(o)
  <2>1. end \in Seq(Instructions) /\ place \in Seq(Instructions)
    BY <1>2, PlaceIsList, EndUnfolds
  <2> HIDE DEF end, place
  <2>2. (end \o place) \o list = end \o (place \o list)
    BY <1>2, <2>1, ConcatAssociative
  <2> QED
    BY <2>2 DEF end, place
<1> QED
  BY <1>4, <1>5

\* update_node gives up: the tree is poisoned while the structure is borrowed.
LEMMA GivesUpOutlined ==
    ASSUME NEW c, NEW list, NEW n \in Counts, NEW e \in Messages, NEW o \in Objects,
           n # -1, "updated" \notin e,
           Outlined(c, list, At(0, 0, n, 0, "no", "no", e))
    PROVE  Outlined(c, (End("yrs_tree") \o <<Do("poison", o), Free("structure")>>) \o list,
                    At(-1, -1, n, -1, "failing", "no", e))
<1> DEFINE x == Do("poison", o)
           y == Free("structure")
           L1 == Onto(y, list)
           L2 == Onto(x, L1)
<1>1. {0, -1} \subseteq Counts /\ {"no", "failing"} \subseteq Phases /\ "no" \in News
  BY DEF Counts, Phases, News
<1>2. list \in Seq(Instructions)
  BY <1>1, FollowsAt
<1>3. x \in Instructions /\ y \in Instructions
  BY LockTypes, BodyInstructions DEF Bodies
<1>4. Outlined(c, L1, At(0, 0, n, -1, "no", "no", e))
  BY <1>1, Unholding, FreesAt
<1> HIDE DEF L1
<1>5. Outlined(c, L2, At(0, 0, n, -1, "failing", "no", e))
  <2>1. "failing" \in {"no", "failing"} /\ (-1 # 0 => "failing" = "failing" \/ c.failed)
        /\ (0 = -1 => 0 # 0)
    OBVIOUS
  <2> QED
    BY <1>1, <1>4, <2>1, PoisonAt
<1>6. <<x, y>> \o list = L2 /\ <<x, y>> \in Seq(Instructions)
  <2> HIDE DEF x, y
  <2> QED
    BY <1>2, <1>3, Unfold2 DEF L1
<1> HIDE DEF L2
<1>7. Outlined(c, End("yrs_tree") \o L2, At(-1, -1, n, -1, "failing", "no", e))
  BY <1>1, <1>5, EndOutlined
<1>8. (End("yrs_tree") \o <<x, y>>) \o list = End("yrs_tree") \o L2
  <2> DEFINE end == End("yrs_tree")
             two == <<x, y>>
  <2>1. end \in Seq(Instructions) /\ two \in Seq(Instructions)
    BY <1>2, <1>6, EndUnfolds
  <2>2. two \o list = L2
    BY <1>6
  <2> HIDE DEF end, two
  <2>3. (end \o two) \o list = end \o (two \o list)
    BY <1>2, <2>1, ConcatAssociative
  <2> QED
    BY <2>2, <2>3 DEF end, two
<1> QED
  BY <1>7, <1>8

\* set_data of data that is a map, or that there is not.
LEMMA PutOutlined ==
    ASSUME NEW c, NEW list, NEW n \in Counts, NEW e \in Messages, NEW o \in Objects,
           n # -1, "updated" \notin e,
           NEW poison \in {<<>>, <<Do("poison", o)>>},
           Outlined(c, list, At(0, 0, n, 0, "no", "no", e))
    PROVE  Outlined(c, (<<Free("structure")>> \o poison \o End("yrs_tree_data")) \o list,
                    At(-1, -1, n, -1, "no", "no", e))
<1> DEFINE L0 == End("yrs_tree_data") \o list
           L1 == poison \o L0
           L2 == Onto(Free("structure"), L1)
<1>1. {0, -1} \subseteq Counts /\ "no" \in Phases /\ "no" \in News
  BY DEF Counts, Phases, News
<1>2. list \in Seq(Instructions) /\ End("yrs_tree_data") \in Seq(Instructions)
  BY <1>1, FollowsAt, EndUnfolds
<1>3. poison \in Seq(Instructions) /\ <<Free("structure")>> \in Seq(Instructions)
  <2> DEFINE x == Do("poison", o)
             y == Free("structure")
  <2>1. x \in Instructions /\ y \in Instructions
    BY LockTypes, BodyInstructions DEF Bodies
  <2>2. poison \in {<<>>, <<x>>}
    OBVIOUS
  <2> HIDE DEF x, y
  <2>3. <<x>> \in Seq(Instructions) /\ <<y>> \in Seq(Instructions) /\ <<>> \in Seq(Instructions)
    BY <2>1
  <2> QED
    BY <2>2, <2>3 DEF y
<1>4. Outlined(c, L0, At(-1, -1, n, 0, "no", "no", e))
  BY <1>1, EndOutlined
<1>5. Outlined(c, L1, At(-1, -1, n, 0, "no", "no", e))
  <2>1. L0 \in Seq(Instructions)
    BY <1>2, ConcatProperties
  <2> HIDE DEF L0
  <2>2. CASE poison = <<>>
    <3>1. <<>> \o L0 = L0
      BY <2>1
    <3> QED
      BY <1>4, <2>2, <3>1
  <2>3. CASE poison = <<Do("poison", o)>>
    <3>1. "no" \in {"no", "failing"} /\ -1 # 0
      OBVIOUS
    <3>2. Outlined(c, Onto(Do("poison", o), L0), At(-1, -1, n, 0, "no", "no", e))
      BY <1>1, <1>4, <3>1, PoisonAt
    <3> QED
      BY <2>3, <3>2 DEF Onto
  <2> QED
    BY <2>2, <2>3
<1>6. (<<Free("structure")>> \o poison \o End("yrs_tree_data")) \o list = L2
  <2> DEFINE f == <<Free("structure")>>
             end == End("yrs_tree_data")
  <2>1. f \in Seq(Instructions) /\ end \in Seq(Instructions)
    BY <1>2, <1>3
  <2>2. L2 = f \o (poison \o (end \o list))
    BY DEF Onto
  <2> HIDE DEF f, end, L2
  <2>3. f \o poison \in Seq(Instructions) /\ end \o list \in Seq(Instructions)
    BY <1>2, <1>3, <2>1, ConcatProperties
  <2>4. (f \o poison \o end) \o list = (f \o poison) \o (end \o list)
    <3> DEFINE fp == f \o poison
    <3>1. fp \in Seq(Instructions)
      BY <2>3
    <3> HIDE DEF fp
    <3>2. (fp \o end) \o list = fp \o (end \o list)
      BY SMTT(30), <1>2, <2>1, <3>1, ConcatAssociative
    <3> QED
      BY <3>2 DEF fp
  <2>5. (f \o poison) \o (end \o list) = f \o (poison \o (end \o list))
    BY SMTT(30), <1>3, <2>1, <2>3, ConcatAssociative
  <2> QED
    BY <2>2, <2>4, <2>5 DEF f, end
<1> HIDE DEF L1
<1>7. Outlined(c, L2, At(-1, -1, n, -1, "no", "no", e))
  BY <1>1, <1>5, Unholding, FreesAt
<1> QED
  BY <1>6, <1>7

\* get_data, which may poison the tree with the transaction and the map read.
LEMMA LookOutlined ==
    ASSUME NEW c, NEW list, NEW t \in Counts, NEW m \in Counts, NEW n \in Counts,
           NEW s \in Counts, NEW e \in Messages, NEW o \in Objects,
           n # -1, t # -1, m # -1, s # -1, s # 0 => c.failed,
           NEW poison \in {<<>>, <<Do("poison", o)>>},
           Outlined(c, list, At(t, m, n, s, "no", "no", e))
    PROVE  Outlined(c, (<<Free("structure")>> \o poison \o <<Free("map"), Free("txn")>>) \o list,
                    At(t + 1, m + 1, n, s + 1, "no", "no", e))
<1> DEFINE t1 == t + 1
           m1 == m + 1
           s1 == s + 1
           L1 == Onto(Free("txn"), list)
           L2 == Onto(Free("map"), L1)
           L3 == poison \o L2
           L4 == Onto(Free("structure"), L3)
<1>1. /\ t1 \in Counts /\ t1 # 0 /\ Unheld(t1) = t
      /\ m1 \in Counts /\ m1 # 0 /\ Unheld(m1) = m /\ m1 # -1
      /\ s1 \in Counts /\ s1 # 0 /\ Unheld(s1) = s
  BY DEF Counts, Unheld
<1>2. list \in Seq(Instructions)
  BY FollowsAt, LockTypes
<1> HIDE DEF t1, m1, s1
<1>3. Outlined(c, L1, At(t1, m, n, s, "no", "no", e))
  BY <1>1, LockTypes, FreesAt
<1>4. Outlined(c, L2, At(t1, m1, n, s, "no", "no", e))
  <2> HIDE DEF L1
  <2> QED
    BY <1>1, <1>3, LockTypes, FreesAt
<1>5. poison \in Seq(Instructions)
  <2> DEFINE x == Do("poison", o)
  <2>1. x \in Instructions
    BY BodyInstructions DEF Bodies
  <2>2. poison \in {<<>>, <<x>>}
    OBVIOUS
  <2> HIDE DEF x
  <2>3. <<x>> \in Seq(Instructions) /\ <<>> \in Seq(Instructions)
    BY <2>1
  <2> QED
    BY <2>2, <2>3
<1>6. L2 \in Seq(Instructions)
  <2> HIDE DEF L2
  <2> QED
    BY <1>4 DEF Outlined
<1>7. Outlined(c, L3, At(t1, m1, n, s, "no", "no", e))
  <2> HIDE DEF L2
  <2>1. CASE poison = <<>>
    <3>1. <<>> \o L2 = L2
      BY <1>6
    <3> QED
      BY <1>4, <2>1, <3>1
  <2>2. CASE poison = <<Do("poison", o)>>
    <3>1. Outlined(c, Onto(Do("poison", o), L2), At(t1, m1, n, s, "no", "no", e))
      BY <1>1, <1>4, LockTypes, PoisonAt
    <3> QED
      BY <2>2, <3>1 DEF Onto
  <2> QED
    BY <2>1, <2>2
<1>8. (<<Free("structure")>> \o poison \o <<Free("map"), Free("txn")>>) \o list = L4
  <2> DEFINE f == <<Free("structure")>>
             x == Free("map")
             y == Free("txn")
             g == <<x, y>>
             fp == f \o poison
  <2>1. f \in Seq(Instructions)
    <3> DEFINE z == Free("structure")
    <3>1. z \in Instructions
      BY LockTypes
    <3> HIDE DEF z
    <3>2. <<z>> \in Seq(Instructions)
      BY <3>1
    <3> QED
      BY <3>2 DEF z
  <2>2. x \in Instructions /\ y \in Instructions
    BY LockTypes
  <2>3. L4 = f \o (poison \o L2) /\ L2 = Onto(x, Onto(y, list))
    BY DEF Onto
  <2> HIDE DEF f, x, y, L2, L4
  <2>4. g \in Seq(Instructions) /\ g \o list = L2
    BY <1>2, <2>2, <2>3, Unfold2
  <2>5. g \in Seq(Instructions) /\ fp \in Seq(Instructions)
    BY <1>5, <2>1, <2>4, ConcatProperties
  <2> HIDE DEF g
  <2>6. (f \o poison) \o L2 = f \o (poison \o L2)
    BY SMTT(30), <1>5, <1>6, <2>1, ConcatAssociative
  <2> HIDE DEF fp
  <2>7. (fp \o g) \o list = fp \o (g \o list)
    BY SMTT(30), <1>2, <2>5, ConcatAssociative
  <2> QED
    BY <2>3, <2>4, <2>6, <2>7 DEF f, fp, g, x, y
<1> HIDE DEF L3
<1>9. Outlined(c, L4, At(t1, m1, n, s1, "no", "no", e))
  BY <1>1, <1>7, LockTypes, FreesAt
<1> QED
  BY <1>8, <1>9 DEF t1, m1, s1

\* get_data_as, which has freed everything when it poisons the tree.
LEMMA LookAsOutlined ==
    ASSUME NEW c, NEW list, NEW t \in Counts, NEW m \in Counts, NEW n \in Counts,
           NEW s \in Counts, NEW e \in Messages, NEW o \in Objects,
           t # -1, m # -1, s # -1, CalmLocks(c, t, m, n, s, e),
           NEW poison \in {<<>>, <<Do("poison", o)>>},
           Outlined(c, list, At(t, m, n, s, "no", "no", e))
    PROVE  Outlined(c, (<<Free("txn"), Free("map"), Free("structure")>> \o poison) \o list,
                    At(t + 1, m + 1, n, s + 1, "no", "no", e))
<1> DEFINE t1 == t + 1
           m1 == m + 1
           s1 == s + 1
           L0 == poison \o list
           L1 == Onto(Free("structure"), L0)
           L2 == Onto(Free("map"), L1)
           L3 == Onto(Free("txn"), L2)
<1>1. /\ t1 \in Counts /\ t1 # 0 /\ Unheld(t1) = t
      /\ m1 \in Counts /\ m1 # 0 /\ Unheld(m1) = m
      /\ s1 \in Counts /\ s1 # 0 /\ Unheld(s1) = s
  BY DEF Counts, Unheld
<1>2. list \in Seq(Instructions)
  BY FollowsAt, LockTypes
<1>3. poison \in Seq(Instructions)
  <2> DEFINE x == Do("poison", o)
  <2>1. x \in Instructions
    BY BodyInstructions DEF Bodies
  <2>2. poison \in {<<>>, <<x>>}
    OBVIOUS
  <2> HIDE DEF x
  <2>3. <<x>> \in Seq(Instructions) /\ <<>> \in Seq(Instructions)
    BY <2>1
  <2> QED
    BY <2>2, <2>3
<1>4. n # -1 /\ ("updated" \in e => t # 0) /\ (m = -1 => t # 0) /\ (s # 0 => c.failed)
  BY DEF CalmLocks
<1>5. Outlined(c, L0, At(t, m, n, s, "no", "no", e))
  <2>1. CASE poison = <<>>
    <3>1. <<>> \o list = list
      BY <1>2
    <3> QED
      BY <2>1, <3>1
  <2>2. CASE poison = <<Do("poison", o)>>
    <3>1. Outlined(c, Onto(Do("poison", o), list), At(t, m, n, s, "no", "no", e))
      BY <1>4, LockTypes, PoisonAt
    <3> QED
      BY <2>2, <3>1 DEF Onto
  <2> QED
    BY <2>1, <2>2
<1>6. L0 \in Seq(Instructions)
  <2> HIDE DEF L0
  <2> QED
    BY <1>5 DEF Outlined
<1> HIDE DEF t1, m1, s1, L0
<1>7. Outlined(c, L1, At(t, m, n, s1, "no", "no", e))
  BY <1>1, <1>4, <1>5, LockTypes, FreesAt
<1> HIDE DEF L1
<1>8. Outlined(c, L2, At(t, m1, n, s1, "no", "no", e))
  BY <1>1, <1>4, <1>7, LockTypes, FreesAt
<1> HIDE DEF L2
<1>9. Outlined(c, L3, At(t1, m1, n, s1, "no", "no", e))
  BY <1>1, <1>4, <1>8, LockTypes, FreesAt
<1>10. (<<Free("txn"), Free("map"), Free("structure")>> \o poison) \o list = L3
  <2> DEFINE x == Free("txn")
             y == Free("map")
             z == Free("structure")
             f == <<x, y, z>>
  <2>1. x \in Instructions /\ y \in Instructions /\ z \in Instructions
    BY LockTypes
  <2>2. L3 = Onto(x, Onto(y, Onto(z, L0)))
    BY DEF L1, L2
  <2> HIDE DEF x, y, z, L3
  <2>3. f \in Seq(Instructions) /\ f \o L0 = L3
    BY <1>6, <2>1, <2>2, Unfold3
  <2>4. (f \o poison) \o list = f \o L0
    <3>1. f \in Seq(Instructions)
      BY <2>3
    <3> HIDE DEF f
    <3>2. (f \o poison) \o list = f \o (poison \o list)
      BY SMTT(30), <1>2, <1>3, <3>1, ConcatAssociative
    <3> QED
      BY <3>2 DEF L0
  <2> QED
    BY <2>3, <2>4 DEF x, y, z
<1> QED
  BY <1>9, <1>10 DEF t1, m1, s1

\* The observer is called at the end of a transaction, where the structure is
\* not borrowed.
LEMMA ObserveOutlined ==
    ASSUME NEW c, NEW list, NEW t \in Counts, NEW m \in Counts, NEW n \in Counts,
           NEW e \in Messages, NEW o \in Objects, n # -1, t # 0, m # -1,
           Outlined(c, list, At(t, m, n, 0, "no", "no", e))
    PROVE  Outlined(c, <<Write("structure"), Read("map"), Do("build", o)>> \o list,
                    At(t, m, n, 0, "no", "building", e))
<1> DEFINE L1 == Onto(Do("build", o), list)
           L2 == Onto(Read("map"), L1)
           L3 == Onto(Write("structure"), L2)
<1>1. {0, -1} \subseteq Counts /\ "no" \in Phases /\ {"no", "building"} \subseteq News
  BY DEF Counts, Phases, News
<1>2. list \in Seq(Instructions)
  BY <1>1, FollowsAt
<1>3. Do("build", o) \in Instructions
  BY BodyInstructions DEF Bodies
<1>4. <<Write("structure"), Read("map"), Do("build", o)>> \o list = L3
  BY <1>2, <1>3, LockTypes, Unfold3
<1>5. Outlined(c, L1, At(t, m + 1, n, -1, "no", "building", e))
  BY BuildAt
<1> HIDE DEF L1
<1>6. Outlined(c, L2, At(t, m, n, -1, "no", "building", e))
  BY <1>1, <1>5, ReadsAt
<1> HIDE DEF L2
<1>7. Outlined(c, L3, At(t, m, n, 0, "no", "building", e))
  BY <1>1, <1>6, WritesAt
<1> QED
  BY <1>4, <1>7

\* The tree is rebuilt: the borrow ends, then the listeners are told.
LEMMA BuiltOutlined ==
    ASSUME NEW c, NEW list, NEW t \in Counts, NEW m \in Counts, NEW n \in Counts,
           NEW e \in Messages, NEW left \in SUBSET Nat, left \subseteq c.listeners,
           n # -1, t # 0, m # -1,
           Outlined(c, list, At(t, m, n, 0, "no", "no", e))
    PROVE  LET i == [do |-> "callbacks", event |-> "updated", left |-> left] IN
           Outlined(c, (<<Free("map"), Free("structure")>>
                          \o <<Read("listeners"), i, Free("listeners")>>) \o list,
                    At(t, m + 1, n, -1, "no", "no", e \cup {"updated"}))
<1> DEFINE i == [do |-> "callbacks", event |-> "updated", left |-> left]
           ex == e \cup {"updated"}
           m1 == m + 1
           L0 == <<Read("listeners"), i, Free("listeners")>> \o list
           L1 == Onto(Free("structure"), L0)
           L2 == Onto(Free("map"), L1)
<1>1. {0, -1} \subseteq Counts /\ "no" \in Phases /\ "no" \in News /\ ex \in Messages
  BY DEF Counts, Phases, News, Messages
<1>2. m1 \in Counts /\ m1 # 0 /\ Unheld(m1) = m
  BY DEF Counts, Unheld
<1>3. list \in Seq(Instructions)
  BY <1>1, FollowsAt
<1>4. Outlined(c, L0, At(t, m, n, 0, "no", "no", ex))
  <2>1. /\ 0 \in Counts /\ "updated" \in {"updated", "poisoned"} /\ "updated" # "poisoned"
        /\ t # 0 /\ 0 = 0
    BY <1>1
  <2> QED
    BY <2>1, NotifyOutlined
<1>5. L0 \in Seq(Instructions)
  <2> HIDE DEF L0
  <2> QED
    BY <1>4 DEF Outlined
<1>6. (<<Free("map"), Free("structure")>> \o <<Read("listeners"), i, Free("listeners")>>) \o list
        = L2
  <2> DEFINE x == Free("map")
             y == Free("structure")
             f == <<x, y>>
             u == Read("listeners")
             v == Free("listeners")
             g == <<u, i, v>>
  <2>1. x \in Instructions /\ y \in Instructions /\ u \in Instructions /\ v \in Instructions
    BY LockTypes
  <2>2. i \in Instructions
    BY DEF Instructions
  <2>3. L2 = Onto(x, Onto(y, L0)) /\ L0 = g \o list
    OBVIOUS
  <2> HIDE DEF x, y, u, v, i, L0, L2
  <2>4. f \o L0 = L2
    BY <1>5, <2>1, <2>3, Unfold2
  <2>5. f \in Seq(Instructions) /\ g \in Seq(Instructions)
    BY <2>1, <2>2
  <2> HIDE DEF f, g
  <2>6. (f \o g) \o list = f \o (g \o list)
    BY <1>3, <2>5, ConcatAssociative
  <2> QED
    BY <2>3, <2>4, <2>6 DEF f, g, x, y, u, v
<1> HIDE DEF L0, m1, ex
<1>7. Outlined(c, L1, At(t, m, n, -1, "no", "no", ex))
  BY <1>1, <1>4, Unholding, FreesAt
<1> HIDE DEF L1
<1>8. Outlined(c, L2, At(t, m1, n, -1, "no", "no", ex))
  BY <1>1, <1>2, <1>7, FreesAt
<1> QED
  BY <1>6, <1>8 DEF m1, ex, i

\* The tree cannot be rebuilt: the borrow ends, then the tree is poisoned.
LEMMA UnbuiltOutlined ==
    ASSUME NEW c, NEW list, NEW t \in Counts, NEW m \in Counts, NEW n \in Counts,
           NEW e \in Messages, NEW o \in Objects, n # -1, t # 0, m # -1,
           Outlined(c, list, At(t, m, n, 0, "no", "no", e))
    PROVE  Outlined(c, <<Free("map"), Free("structure"), Do("poison", o)>> \o list,
                    At(t, m + 1, n, -1, "no", "building", e))
<1> DEFINE m1 == m + 1
           L1 == Onto(Do("poison", o), list)
           L2 == Onto(Free("structure"), L1)
           L3 == Onto(Free("map"), L2)
<1>1. {0, -1} \subseteq Counts /\ "no" \in Phases /\ {"no", "building"} \subseteq News
  BY DEF Counts, Phases, News
<1>2. m1 \in Counts /\ m1 # 0 /\ Unheld(m1) = m
  BY DEF Counts, Unheld
<1>3. list \in Seq(Instructions)
  BY <1>1, FollowsAt
<1>4. Do("poison", o) \in Instructions
  BY BodyInstructions DEF Bodies
<1>5. <<Free("map"), Free("structure"), Do("poison", o)>> \o list = L3
  BY <1>3, <1>4, LockTypes, Unfold3
<1> HIDE DEF m1
<1>6. Outlined(c, L1, At(t, m, n, 0, "no", "building", e))
  BY <1>1, PoisonAt
<1> HIDE DEF L1
<1>7. Outlined(c, L2, At(t, m, n, -1, "no", "building", e))
  BY <1>1, <1>6, Unholding, FreesAt
<1> HIDE DEF L2
<1>8. Outlined(c, L3, At(t, m1, n, -1, "no", "building", e))
  BY <1>1, <1>2, <1>7, FreesAt
<1> QED
  BY <1>5, <1>8 DEF m1

-----------------------------------------------------------------------------
(* The steps                                                               *)

\* The types of what a note says nothing of.
StateOK ==
    /\ stopped \in BOOLEAN
    /\ disabled \in [Objects -> BOOLEAN] /\ poisoned \in [Objects -> BOOLEAN]
    /\ tree \in [pending : BOOLEAN, missed : SUBSET {"tree", "repairs"}]
    /\ doc \in [broken : SUBSET Breakable, changes : SUBSET {"tree", "repairs", "data"}]
    /\ subs \in [listeners : SUBSET Nat, next_id : 0 .. MaxSubscribed]
    /\ subs.listeners \subseteq 0 .. subs.next_id - 1
    /\ calls \in 0 .. MaxCalls

LEMMA InvBy ==
    ASSUME NEW h \in Notes, Holds(h), Outlined(Context, todo, h), StateOK
    PROVE  CallsInv
<1>1. todo \in Seq(Instructions)
  BY DEF Outlined
<1>2. held \in [Locks -> Nat \cup {-1}]
  BY DEF Holds, Notes, Held, Counts
<1> QED
  BY <1>1, <1>2 DEF CallsInv, TypeOK, StateOK

LEMMA InvNext ==
    ASSUME NEW h \in Notes, Holds(h)', Outlined(Context', todo', h), StateOK'
    PROVE  CallsInv'
<1>1. todo' \in Seq(Instructions)
  BY DEF Outlined
<1>2. held' \in [Locks -> Nat \cup {-1}]
  BY DEF Holds, Notes, Held, Counts
<1>3. TypeOK'
  BY <1>1, <1>2 DEF TypeOK, StateOK
<1> QED
  BY <1>3 DEF CallsInv

\* The note of the next instruction, and the one after it.
LEMMA Popped ==
    ASSUME CallsInv, todo # <<>>
    PROVE  /\ StateOK /\ Context \in Contexts
           /\ Head(todo) \in Instructions /\ Tail(todo) \in Seq(Instructions)
           /\ \E h \in Notes, k \in Notes :
                /\ Holds(h) /\ h.phase # "dead"
                /\ Valid(Context, h, Head(todo), k) /\ Outlined(Context, Tail(todo), k)
<1>1. TypeOK
  BY DEF CallsInv
<1>2. PICK h \in Notes : Holds(h) /\ Outlined(Context, todo, h)
  BY DEF CallsInv
<1>3. PICK k \in Notes :
        Valid(Context, h, Head(todo), k) /\ Outlined(Context, Tail(todo), k)
  BY <1>2, Pop
<1>4. Head(todo) \in Instructions
  BY <1>2, Pop
<1>5. Tail(todo) \in Seq(Instructions)
  BY <1>3 DEF Outlined
<1>6. StateOK
  BY <1>1 DEF TypeOK, StateOK
<1>7. Context \in Contexts
  <2>1. FailedMidway \in BOOLEAN
    BY DEF FailedMidway
  <2>2. poisoned["tree"] \in BOOLEAN /\ subs.listeners \in SUBSET Nat
    BY <1>6, ObjectsAssumption DEF StateOK
  <2> QED
    BY <2>1, <2>2 DEF Context, Contexts
<1>8. h.phase # "dead"
  BY <1>2 DEF Holds
<1> QED
  BY <1>2, <1>3, <1>4, <1>5, <1>6, <1>7, <1>8

\* Whether update_node gave up, of a tree that is not cloned.
LEMMA Failed ==
    ASSUME Objects = {"tree"}
    PROVE  /\ FailedMidway <=> disabled["tree"] /\ poisoned["tree"]
           /\ FailedMidway' <=> disabled'["tree"] /\ poisoned'["tree"]
           /\ Context.failed = FailedMidway /\ Context.poisoned = poisoned["tree"]
           /\ Context.listeners = subs.listeners
           /\ Context'.failed = FailedMidway' /\ Context'.poisoned = poisoned'["tree"]
           /\ Context'.listeners = subs'.listeners
           /\ UNCHANGED <<disabled, poisoned, subs>> => Context' = Context
           /\ ~ FailedMidway /\ ~ FailedMidway' /\ UNCHANGED <<poisoned, subs>>
                => Context' = Context
  BY DEF FailedMidway, Context

\* A lock is taken.
LEMMA AcquireStep ==
    ASSUME Objects = {"tree"}, CallsInv, Acquire
    PROVE  CallsInv'
<1>1. todo # <<>>
  BY DEF Acquire, Now
<1>2. PICK h \in Notes, k \in Notes :
        /\ Holds(h) /\ h.phase # "dead"
        /\ Valid(Context, h, Head(todo), k) /\ Outlined(Context, Tail(todo), k)
  BY <1>1, Popped
<1>3. StateOK /\ Tail(todo) \in Seq(Instructions) /\ Head(todo) \in Instructions
  BY <1>1, Popped
<1>4. todo' = Tail(todo)
  BY <1>3 DEF Acquire, Run
<1>5. UNCHANGED <<disabled, poisoned, tree, doc, subs, stopped, calls>>
  BY DEF Acquire, Only
<1>6. StateOK'
  BY <1>3, <1>5 DEF StateOK
<1>7. Outlined(Context', todo', k)
  BY <1>2, <1>4, <1>5, Failed
<1> DEFINE l == Head(todo).lock
<1>8. h.locks = held
  BY <1>2 DEF Holds
<1>9. k.locks = held' /\ k = [h EXCEPT !.locks = held']
  <2>1. CASE Now("write") /\ held[l] = 0 /\ held' = [held EXCEPT ![l] = -1]
    <3>1. k = Wrote(h, l)
      BY <1>2, <1>8, <2>1 DEF Valid, TakesAndFrees, Now
    <3> QED
      BY <1>8, <2>1, <3>1 DEF Wrote, With, Notes
  <2>2. CASE Now("read") /\ held[l] >= 0 /\ held' = [held EXCEPT ![l] = @ + 1]
    <3>1. k = HasRead(h, l)
      BY <1>2, <1>8, <2>2 DEF Valid, TakesAndFrees, Now
    <3> QED
      BY <1>8, <2>2, <3>1 DEF HasRead, With, Notes
  <2> QED
    BY <2>1, <2>2 DEF Acquire
<1>10. Holds(k)'
  <2>1. k.phase = h.phase /\ k.news = h.news /\ k.told = h.told
    BY <1>9 DEF Notes
  <2> QED
    BY <1>2, <1>5, <1>9, <2>1 DEF Holds
<1> QED
  BY <1>2, <1>6, <1>7, <1>10, InvNext

\* A lock is freed.
LEMMA ReleaseStep ==
    ASSUME Objects = {"tree"}, CallsInv, Release
    PROVE  CallsInv'
<1>1. todo # <<>>
  BY DEF Release, Now
<1>2. PICK h \in Notes, k \in Notes :
        /\ Holds(h) /\ h.phase # "dead"
        /\ Valid(Context, h, Head(todo), k) /\ Outlined(Context, Tail(todo), k)
  BY <1>1, Popped
<1>3. StateOK /\ Tail(todo) \in Seq(Instructions) /\ Head(todo) \in Instructions
  BY <1>1, Popped
<1>4. todo' = Tail(todo)
  BY <1>3 DEF Release, Run
<1>5. UNCHANGED <<disabled, poisoned, tree, doc, subs, stopped, calls>>
  BY DEF Release, Only
<1>6. StateOK'
  BY <1>3, <1>5 DEF StateOK
<1>7. Outlined(Context', todo', k)
  BY <1>2, <1>4, <1>5, Failed
<1> DEFINE l == Head(todo).lock
<1>8. h.locks = held
  BY <1>2 DEF Holds
<1>9. k.locks = held' /\ k = [h EXCEPT !.locks = held']
  <2>1. k = Freed(h, l)
    BY <1>2, <1>8 DEF Valid, TakesAndFrees, Now, Release
  <2>2. held' = [held EXCEPT ![l] = Unheld(held[l])]
    BY DEF Release, Unheld
  <2> QED
    BY <1>8, <2>1, <2>2 DEF Freed, With, Notes
<1>10. Holds(k)'
  <2>1. k.phase = h.phase /\ k.news = h.news /\ k.told = h.told
    BY <1>9 DEF Notes
  <2> QED
    BY <1>2, <1>5, <1>9, <2>1 DEF Holds
<1> QED
  BY <1>2, <1>6, <1>7, <1>10, InvNext

\* The step before it has been taken: where the next instruction begins.
Before(h, k) ==
    /\ Holds(h) /\ h.phase # "dead"
    /\ Valid(Context, h, Head(todo), k) /\ Outlined(Context, Tail(todo), k)

\* A call begins.
LEMMA BeginStep ==
    ASSUME Objects = {"tree"}, CallsInv, Begin
    PROVE  CallsInv'
<1>1. PICK call \in {"update", "delete", "set", "get"} : Now(call)
  BY DEF Begin
<1>2. todo # <<>> /\ Head(todo).do = call
  BY <1>1 DEF Now
<1>3. PICK h \in Notes, k \in Notes : Before(h, k)
  BY <1>2, Popped DEF Before
<1>4. StateOK /\ Tail(todo) \in Seq(Instructions) /\ Head(todo) \in Instructions
  BY <1>2, Popped
<1> DEFINE o == Head(todo).by
           r == Tail(todo)
<1>5. o \in Objects /\ o = "tree"
  BY <1>2, <1>4 DEF Instructions
<1>6. UNCHANGED <<held, disabled, poisoned, tree, doc, subs, stopped, calls>>
  BY DEF Begin, Goes, Only
<1>7. StateOK' /\ Context' = Context
  BY <1>4, <1>6, Failed DEF StateOK
<1>8. Calm(Context, h) /\ k = h
  BY <1>2, <1>3 DEF Before, Valid, Enters
<1>9. \A g \in Notes : g.locks = h.locks /\ g.news = h.news /\ g.told = h.told
                        /\ (g.phase = "no" \/ (g.phase = "begun" /\ ~ poisoned["tree"]))
                        => Holds(g)'
  BY <1>3, <1>6, <1>8 DEF Before, Holds, Calm
<1>10. CASE poisoned[o]
  <2>1. todo' = <<>> \o r
    BY <1>1, <1>2, <1>10 DEF Begin, Goes, Run, Now
  <2>2. todo' = r
    BY <1>4, <2>1
  <2>3. Holds(h)'
    BY <1>8, <1>9 DEF Calm
  <2> QED
    BY <1>3, <1>7, <1>8, <2>2, <2>3, InvNext DEF Before
<1>11. CASE ~ poisoned[o]
  <2> DEFINE t == h.locks["txn"]
             m == h.locks["map"]
             n == h.locks["listeners"]
             e == h.told
  <2>1. h.locks["structure"] = 0 /\ h.phase = "no" /\ h.news = "no"
    BY <1>5, <1>8, <1>11, Failed DEF Calm
  <2>2. /\ t \in Counts /\ m \in Counts /\ n \in Counts /\ e \in Messages /\ 0 \in Counts
        /\ h = At(t, m, n, 0, "no", "no", e)
    BY <2>1, LockTypes, AtNotes DEF Counts
  <2>3. CalmLocks(Context, t, m, n, 0, e)
    BY <1>8, <2>1 DEF Calm, CalmLocks, Nothing, Locks
  <2>4. Outlined(Context, r, At(t, m, n, 0, "no", "no", e))
    BY <1>3, <1>8, <2>2 DEF Before
  <2>5. Holds(h)'
    BY <1>9, <2>1
  <2> HIDE DEF t, m, n, e
  <2>6. CASE call = "update"
    <3> DEFINE g == At(t, m, n, 0, "begun", "no", e)
    <3>1. todo' = <<Write("structure"), Do("repairs", o)>> \o r
      BY <1>2, <1>11, <2>6 DEF Begin, Goes, Run, Now
    <3>2. "begun" \in Phases
      BY DEF Phases
    <3>3. g \in Notes /\ Holds(g)'
      <4>1. /\ g \in Notes /\ g.phase = "begun" /\ g.news = "no" /\ g.told = e
        BY <2>2, <3>2, LockTypes, AtFields
      <4>2. g.locks = h.locks
        BY <2>2 DEF At
      <4> QED
        BY <1>5, <1>9, <1>11, <2>1, <4>1, <4>2 DEF e
    <3>4. Outlined(Context, todo', g)
      BY <1>5, <2>2, <2>3, <2>4, <3>1, UpdateOutlined
    <3> HIDE DEF g
    <3> QED
      BY <1>7, <3>3, <3>4, InvNext
  <2>7. CASE call = "delete"
    <3>1. todo' = (<<Write("txn"), Write("map"), Write("structure"), Do("delete_ids", o),
                     Free("structure")>> \o End("yrs_tree")) \o r
      BY <1>2, <1>11, <2>7 DEF Begin, Goes, Run, Now
    <3>2. Outlined(Context, todo', h)
      BY <1>5, <2>2, <2>3, <2>4, <3>1, DeleteOutlined
    <3> QED
      BY <1>7, <2>5, <3>2, InvNext
  <2>8. CASE call = "set"
    <3>1. todo' = <<Write("txn"), Write("map"), Write("structure"), Do("put", o)>> \o r
      BY <1>2, <1>11, <2>8 DEF Begin, Goes, Run, Now
    <3>2. Outlined(Context, todo', h)
      BY <1>5, <2>2, <2>3, <2>4, <3>1, SetOutlined
    <3> QED
      BY <1>7, <2>5, <3>2, InvNext
  <2>9. CASE call = "get"
    <3>1. todo' = <<Read("txn"), Read("map"), Read("structure"), Do("look", o)>> \o r
      BY <1>2, <1>11, <2>9 DEF Begin, Goes, Run, Now
    <3>2. Outlined(Context, todo', h)
      BY <1>5, <2>2, <2>3, <2>4, <3>1, GetOutlined
    <3> QED
      BY <1>7, <2>5, <3>2, InvNext
  <2> QED
    BY <1>1, <2>6, <2>7, <2>8, <2>9
<1> QED
  BY <1>10, <1>11

\* update_node of a tree with or without repairs to write.
LEMMA RepairsStep ==
    ASSUME Objects = {"tree"}, CallsInv, Repairs
    PROVE  CallsInv'
<1>1. todo # <<>> /\ Head(todo).do = "repairs"
  BY DEF Repairs, Now
<1>2. PICK h \in Notes, k \in Notes : Before(h, k)
  BY <1>1, Popped DEF Before
<1>3. StateOK /\ Tail(todo) \in Seq(Instructions) /\ Head(todo) \in Instructions
  BY <1>1, Popped
<1> DEFINE o == Head(todo).by
           r == Tail(todo)
<1>4. o \in Objects
  BY <1>1, <1>3 DEF Instructions
<1>5. UNCHANGED <<held, disabled, poisoned, tree, doc, subs, stopped, calls>>
  BY DEF Repairs, Goes, Only
<1>6. StateOK' /\ Context' = Context
  BY <1>3, <1>5, Failed DEF StateOK
<1>7. /\ h.phase = "begun" /\ h.news = "no" /\ h.locks["structure"] = -1
      /\ k = InPhase(Freed(h, "structure"), "no") /\ Calm(Context, k)
  BY <1>1, <1>2 DEF Before, Valid, UpdatesNode
<1> DEFINE t == h.locks["txn"]
           m == h.locks["map"]
           n == h.locks["listeners"]
           e == h.told
<1>8. /\ t \in Counts /\ m \in Counts /\ n \in Counts /\ e \in Messages /\ {0, -1} \subseteq Counts
      /\ h = At(t, m, n, -1, "begun", "no", e) /\ {"no", "begun"} \subseteq Phases
  BY <1>7, LockTypes, AtNotes DEF Counts, Phases
<1>9. Holds(h)'
  BY <1>2, <1>5 DEF Before, Holds
<1> HIDE DEF t, m, n, e
<1>10. k = At(t, m, n, 0, "no", "no", e)
  <2>1. Freed(h, "structure") = At(t, m, n, 0, "begun", "no", e)
    BY <1>8, LockTypes, AtSteps, Unholding
  <2>2. InPhase(At(t, m, n, 0, "begun", "no", e), "no") = At(t, m, n, 0, "no", "no", e)
    BY <1>8, LockTypes, AtSteps
  <2> QED
    BY <1>7, <2>1, <2>2
<1>11. CalmLocks(Context, t, m, n, 0, e)
  <2>1. Calm(Context, At(t, m, n, 0, "no", "no", e))
    BY <1>7, <1>10
  <2> QED
    BY <1>8, <2>1, CalmLocksAt
<1>12. Outlined(Context, r, At(t, m, n, 0, "no", "no", e))
  BY <1>2, <1>10 DEF Before
<1>13. Outlined(Context, todo', h)
  <2>1. CASE tree.pending
    <3>1. todo' = <<Write("txn"), Write("map"), Do("write_repairs", o)>> \o r
      BY <2>1 DEF Repairs, Goes, Run
    <3> QED
      BY <1>4, <1>8, <1>11, <1>12, <3>1, RepairingOutlined
  <2>2. CASE ~ tree.pending
    <3>1. todo' = Place(o) \o r
      BY <2>2 DEF Repairs, Goes, Run
    <3>2. n # -1 /\ ("updated" \in e => t # 0) /\ (t # 0 \/ m # 0 => e # {})
      BY <1>11 DEF CalmLocks
    <3> QED
      BY <1>4, <1>8, <1>12, <3>1, <3>2, PlaceOutlined
  <2> QED
    BY <2>1, <2>2
<1> QED
  BY <1>6, <1>9, <1>13, InvNext

\* update_node writes the repairs, or gives up.
LEMMA WriteRepairsStep ==
    ASSUME Objects = {"tree"}, CallsInv, WriteRepairs
    PROVE  CallsInv'
<1>1. todo # <<>> /\ Head(todo).do = "write_repairs"
  BY DEF WriteRepairs, Now
<1>2. PICK h \in Notes, k \in Notes : Before(h, k)
  BY <1>1, Popped DEF Before
<1>3. StateOK /\ Tail(todo) \in Seq(Instructions) /\ Head(todo) \in Instructions
  BY <1>1, Popped
<1> DEFINE o == Head(todo).by
           r == Tail(todo)
<1>4. o \in Objects /\ o = "tree"
  BY <1>1, <1>3 DEF Instructions
<1>5. UNCHANGED <<held, poisoned, subs, stopped, calls>> /\ disabled' = [disabled EXCEPT ![o] = TRUE]
  BY DEF WriteRepairs, Only
<1>6. PICK some \in {{}, {"repairs"}} :
        /\ doc' = [doc EXCEPT !.changes = some]
        /\ tree' = [pending |-> "container" \in doc.broken, missed |-> tree.missed \cup some]
  BY DEF WriteRepairs
<1>7. StateOK'
  <2>1. disabled' \in [Objects -> BOOLEAN]
    BY <1>3, <1>5 DEF StateOK
  <2>2. tree' \in [pending : BOOLEAN, missed : SUBSET {"tree", "repairs"}]
    BY <1>3, <1>6 DEF StateOK
  <2>3. doc' \in [broken : SUBSET Breakable, changes : SUBSET {"tree", "repairs", "data"}]
    BY <1>3, <1>6 DEF StateOK
  <2> QED
    BY <1>3, <1>5, <2>1, <2>2, <2>3 DEF StateOK
<1>8. /\ h.phase = "begun" /\ h.news = "no" /\ h.locks["structure"] = -1
      /\ h.locks["txn"] = -1 /\ h.locks["map"] = -1 /\ "updated" \notin h.told
      /\ k = InPhase(Freed(Freed(Freed(h, "structure"), "map"), "txn"), "no")
      /\ h.locks["listeners"] # -1
  BY <1>1, <1>2 DEF Before, Valid, UpdatesNode, ListenersFree
<1>9. ~ poisoned["tree"] /\ h.locks = held /\ "tree" \notin tree.missed
  BY <1>2, <1>8 DEF Before, Holds
<1>10. Context' = Context
  BY <1>5, <1>9, Failed
<1> DEFINE n == h.locks["listeners"]
           e == h.told
<1>11. /\ n \in Counts /\ e \in Messages /\ {0, -1} \subseteq Counts
       /\ h = At(-1, -1, n, -1, "begun", "no", e)
       /\ {"no", "begun", "off", "failing"} \subseteq Phases
  BY <1>8, LockTypes, AtNotes DEF Counts, Phases
<1>12. n # -1 /\ "updated" \notin e
  BY <1>8
<1>13. ASSUME NEW p \in {"off", "failing"}
       PROVE  At(-1, -1, n, -1, p, "no", e) \in Notes /\ Holds(At(-1, -1, n, -1, p, "no", e))'
  <2> DEFINE g == At(-1, -1, n, -1, p, "no", e)
  <2>1. g \in Notes /\ g.phase = p /\ g.news = "no" /\ g.told = e
    BY SMTT(30), <1>11, LockTypes, AtFields
  <2>2. g.locks = h.locks
    BY <1>11 DEF At
  <2>3. disabled'["tree"]
    BY <1>3, <1>4, <1>5 DEF StateOK
  <2>4. "tree" \notin tree'.missed
    BY <1>6, <1>9
  <2> HIDE DEF g
  <2>5. Holds(g)'
    BY <1>5, <1>9, <1>12, <2>1, <2>2, <2>3, <2>4 DEF Holds
  <2> QED
    BY <2>1, <2>5 DEF g
<1> HIDE DEF n, e
<1>14. k = At(0, 0, n, 0, "no", "no", e)
  <2>1. Freed(h, "structure") = At(-1, -1, n, 0, "begun", "no", e)
    BY <1>11, LockTypes, AtSteps, Unholding
  <2>2. Freed(At(-1, -1, n, 0, "begun", "no", e), "map") = At(-1, 0, n, 0, "begun", "no", e)
    BY <1>11, LockTypes, AtSteps, Unholding
  <2>3. Freed(At(-1, 0, n, 0, "begun", "no", e), "txn") = At(0, 0, n, 0, "begun", "no", e)
    BY <1>11, LockTypes, AtSteps, Unholding
  <2>4. InPhase(At(0, 0, n, 0, "begun", "no", e), "no") = At(0, 0, n, 0, "no", "no", e)
    BY <1>11, LockTypes, AtSteps
  <2> QED
    BY <1>8, <2>1, <2>2, <2>3, <2>4
<1>15. Outlined(Context, r, At(0, 0, n, 0, "no", "no", e))
  BY <1>2, <1>14 DEF Before
<1>16. CASE "container" \in doc.broken
  <2>1. todo' = (End("yrs_tree") \o <<Do("poison", o), Free("structure")>>) \o r
    BY <1>16 DEF WriteRepairs, Run
  <2>2. Outlined(Context, todo', At(-1, -1, n, -1, "failing", "no", e))
    BY <1>4, <1>11, <1>12, <1>15, <2>1, GivesUpOutlined
  <2> QED
    BY <1>7, <1>10, <1>13, <2>2, InvNext
<1>17. CASE "container" \notin doc.broken
  <2>1. todo' = (End("yrs_tree") \o Place(o)) \o r
    BY <1>17 DEF WriteRepairs, Run
  <2>2. Outlined(Context, todo', At(-1, -1, n, -1, "off", "no", e))
    BY <1>4, <1>11, <1>12, <1>15, <2>1, RepairedOutlined
  <2> QED
    BY <1>7, <1>10, <1>13, <2>2, InvNext
<1> QED
  BY <1>16, <1>17

\* The structure is changed, with the map.
LEMMA ModifyStep ==
    ASSUME Objects = {"tree"}, CallsInv, Modify
    PROVE  CallsInv'
<1>1. todo # <<>> /\ Head(todo).do \in {"place", "delete_ids"}
  BY DEF Modify, Now
<1>2. PICK h \in Notes, k \in Notes : Before(h, k)
  BY <1>1, Popped DEF Before
<1>3. StateOK /\ Tail(todo) \in Seq(Instructions)
  BY <1>1, Popped
<1>4. UNCHANGED <<held, disabled, poisoned, subs, stopped, calls>> /\ todo' = Tail(todo)
  BY <1>3 DEF Modify, Only, Run
<1>5. \/ doc' = [doc EXCEPT !.changes = {"tree"}]
         /\ tree' = [tree EXCEPT !.missed = tree.missed \cup {"tree"}]
      \/ UNCHANGED <<doc, tree>>
  BY DEF Modify
<1>6. StateOK' /\ Context' = Context
  <2>1. tree' \in [pending : BOOLEAN, missed : SUBSET {"tree", "repairs"}]
    BY <1>3, <1>5 DEF StateOK
  <2>2. doc' \in [broken : SUBSET Breakable, changes : SUBSET {"tree", "repairs", "data"}]
    BY <1>3, <1>5 DEF StateOK
  <2> QED
    BY <1>3, <1>4, <2>1, <2>2, Failed DEF StateOK
<1>7. /\ h.news = "no" /\ "updated" \notin h.told /\ k = WithNews(h, "changed")
      /\ h.phase \in {"no", "begun", "off"}
  BY <1>1, <1>2 DEF Before, Valid, UpdatesNode, Accesses
<1>8. /\ k.news = "changed" /\ k.told = h.told /\ k.phase = h.phase /\ k.locks = h.locks
  BY <1>7 DEF WithNews, Notes
<1>9. Holds(k)'
  <2>1. ~ poisoned["tree"] /\ "tree" \in tree'.missed => doc'.changes = {"tree"}
    BY <1>2, <1>3, <1>5, <1>7 DEF Before, Holds, StateOK
  <2> QED
    BY <1>2, <1>4, <1>7, <1>8, <2>1 DEF Before, Holds
<1> QED
  BY <1>2, <1>4, <1>6, <1>9, InvNext DEF Before

\* The observer is enabled again.
LEMMA EnableStep ==
    ASSUME Objects = {"tree"}, CallsInv, Enable
    PROVE  CallsInv'
<1>1. todo # <<>> /\ Head(todo).do = "enable"
  BY DEF Enable, Now
<1>2. PICK h \in Notes, k \in Notes : Before(h, k)
  BY <1>1, Popped DEF Before
<1>3. StateOK /\ Tail(todo) \in Seq(Instructions) /\ Head(todo) \in Instructions
  BY <1>1, Popped
<1>4. UNCHANGED <<held, poisoned, tree, doc, subs, stopped, calls>> /\ todo' = Tail(todo)
  BY <1>3 DEF Enable, Only, Run
<1>5. Head(todo).by = "tree"
  BY <1>1, <1>3 DEF Instructions
<1>6. disabled' \in [Objects -> BOOLEAN] /\ ~ disabled'["tree"]
  BY <1>3, <1>5 DEF Enable, StateOK
<1>7. h.phase \in {"begun", "off"} /\ k = InPhase(h, "no")
  BY <1>1, <1>2 DEF Before, Valid, UpdatesNode
<1>8. ~ poisoned["tree"]
  BY <1>2, <1>7 DEF Before, Holds
<1>9. StateOK' /\ Context' = Context
  <2>1. Context' = Context
    BY <1>4, <1>8, Failed
  <2> QED
    BY <1>3, <1>4, <1>6, <2>1 DEF StateOK
<1>10. k.news = h.news /\ k.told = h.told /\ k.phase = "no" /\ k.locks = h.locks
  BY <1>7 DEF InPhase, Notes
<1>11. Holds(k)'
  BY <1>2, <1>4, <1>6, <1>10 DEF Before, Holds
<1> QED
  BY <1>2, <1>4, <1>9, <1>11, InvNext DEF Before

\* set_data, which may poison the tree.
LEMMA PutStep ==
    ASSUME Objects = {"tree"}, CallsInv, Put
    PROVE  CallsInv'
<1>1. todo # <<>> /\ Head(todo).do = "put"
  BY DEF Put, Now
<1>2. PICK h \in Notes, k \in Notes : Before(h, k)
  BY <1>1, Popped DEF Before
<1>3. StateOK /\ Tail(todo) \in Seq(Instructions) /\ Head(todo) \in Instructions
  BY <1>1, Popped
<1> DEFINE o == Head(todo).by
           r == Tail(todo)
           poison == IF doc.broken = {"data"} THEN <<Do("poison", o)>> ELSE <<>>
<1>4. o \in Objects
  BY <1>1, <1>3 DEF Instructions
<1>5. UNCHANGED <<held, disabled, poisoned, tree, subs, stopped, calls>>
  BY DEF Put, Only
<1>6. /\ doc' = [doc EXCEPT !.changes = IF doc.broken = {} THEN {"data"} ELSE {}]
      /\ todo' = (<<Free("structure")>> \o poison \o End("yrs_tree_data")) \o r
  BY DEF Put, Run
<1>7. StateOK' /\ Context' = Context
  <2>1. doc' \in [broken : SUBSET Breakable, changes : SUBSET {"tree", "repairs", "data"}]
    BY <1>3, <1>6 DEF StateOK
  <2> QED
    BY <1>3, <1>5, <2>1, Failed DEF StateOK
<1>8. /\ h.phase = "no" /\ h.news = "no" /\ "updated" \notin h.told
      /\ h.locks["structure"] = -1 /\ h.locks["txn"] = -1 /\ h.locks["map"] = -1
      /\ h.locks["listeners"] # -1
      /\ k = Freed(Freed(Freed(h, "structure"), "map"), "txn")
  <2>1. /\ \A l \in {"txn", "map", "structure"} : h.locks[l] = -1
        /\ h.phase = "no" /\ h.news = "no" /\ "updated" \notin h.told
        /\ k = Freed(Freed(Freed(h, "structure"), "map"), "txn")
    BY <1>1, <1>2 DEF Before, Valid, Accesses
  <2>2. h.locks["listeners"] # -1
    BY <1>1, <1>2 DEF Before, Valid, ListenersFree
  <2> QED
    BY <2>1, <2>2
<1> DEFINE n == h.locks["listeners"]
           e == h.told
<1>9. /\ n \in Counts /\ e \in Messages /\ {0, -1} \subseteq Counts
      /\ h = At(-1, -1, n, -1, "no", "no", e)
  BY <1>8, LockTypes, AtNotes DEF Counts
<1>10. n # -1 /\ "updated" \notin e
  BY <1>8
<1>11. Holds(h)'
  BY <1>2, <1>5, <1>8 DEF Before, Holds
<1> HIDE DEF n, e
<1>12. k = At(0, 0, n, 0, "no", "no", e)
  <2>1. Freed(h, "structure") = At(-1, -1, n, 0, "no", "no", e)
    BY <1>9, LockTypes, AtSteps, Unholding
  <2>2. Freed(At(-1, -1, n, 0, "no", "no", e), "map") = At(-1, 0, n, 0, "no", "no", e)
    BY <1>9, LockTypes, AtSteps, Unholding
  <2>3. Freed(At(-1, 0, n, 0, "no", "no", e), "txn") = At(0, 0, n, 0, "no", "no", e)
    BY <1>9, LockTypes, AtSteps, Unholding
  <2> QED
    BY <1>8, <2>1, <2>2, <2>3
<1>13. Outlined(Context, r, At(0, 0, n, 0, "no", "no", e))
  BY <1>2, <1>12 DEF Before
<1>14. poison \in {<<>>, <<Do("poison", o)>>}
  OBVIOUS
<1> HIDE DEF poison
<1>15. Outlined(Context, todo', h)
  BY <1>4, <1>6, <1>9, <1>10, <1>13, <1>14, PutOutlined
<1> QED
  BY <1>7, <1>11, <1>15, InvNext

\* get_data and get_data_as, which may poison the tree.
LEMMA LookStep ==
    ASSUME Objects = {"tree"}, CallsInv, Look
    PROVE  CallsInv'
<1>1. todo # <<>> /\ Head(todo).do \in {"look", "look_as"}
  BY DEF Look, Now
<1>2. PICK h \in Notes, k \in Notes : Before(h, k)
  BY <1>1, Popped DEF Before
<1>3. StateOK /\ Tail(todo) \in Seq(Instructions) /\ Head(todo) \in Instructions
  BY <1>1, Popped
<1> DEFINE o == Head(todo).by
           r == Tail(todo)
           poison == IF doc.broken # {} THEN <<Do("poison", o)>> ELSE <<>>
<1>4. o \in Objects
  BY <1>1, <1>3 DEF Instructions
<1>5. UNCHANGED <<held, disabled, poisoned, tree, doc, subs, stopped, calls>>
  BY DEF Look, Goes, Only
<1>6. StateOK' /\ Context' = Context
  BY <1>3, <1>5, Failed DEF StateOK
<1>7. /\ h.phase = "no" /\ h.news = "no"
      /\ h.locks["txn"] >= 1 /\ h.locks["map"] >= 1 /\ h.locks["structure"] >= 1
      /\ k = Freed(Freed(Freed(h, "structure"), "map"), "txn") /\ Calm(Context, k)
  <2>1. /\ \A l \in {"txn", "map", "structure"} : h.locks[l] >= 1
        /\ h.phase = "no" /\ h.news = "no"
        /\ k = Freed(Freed(Freed(h, "structure"), "map"), "txn") /\ Calm(Context, k)
    BY <1>1, <1>2 DEF Before, Valid, Accesses
  <2> QED
    BY <2>1
<1> DEFINE n == h.locks["listeners"]
           e == h.told
           t == h.locks["txn"] - 1
           m == h.locks["map"] - 1
           s == h.locks["structure"] - 1
           t1 == h.locks["txn"]
           m1 == h.locks["map"]
           s1 == h.locks["structure"]
<1>8. /\ n \in Counts /\ e \in Messages /\ t1 \in Counts /\ m1 \in Counts /\ s1 \in Counts
      /\ h = At(t1, m1, n, s1, "no", "no", e)
  BY <1>7, LockTypes, AtNotes
<1>9. /\ t \in Counts /\ t # -1 /\ t1 = t + 1 /\ Unheld(t1) = t
      /\ m \in Counts /\ m # -1 /\ m1 = m + 1 /\ Unheld(m1) = m
      /\ s \in Counts /\ s # -1 /\ s1 = s + 1 /\ Unheld(s1) = s
  <2>1. h.locks["txn"] \in Nat /\ h.locks["map"] \in Nat /\ h.locks["structure"] \in Nat
    BY <1>7, <1>8 DEF Counts
  <2> QED
    BY <1>7, <2>1 DEF Counts, Unheld
<1>10. Holds(h)'
  BY <1>2, <1>5 DEF Before, Holds
<1> HIDE DEF n, e, t, m, s, t1, m1, s1
<1>11. k = At(t, m, n, s, "no", "no", e)
  <2>1. Freed(h, "structure") = At(t1, m1, n, s, "no", "no", e)
    BY SMTT(30), <1>8, <1>9, LockTypes, AtSteps
  <2>2. Freed(At(t1, m1, n, s, "no", "no", e), "map") = At(t1, m, n, s, "no", "no", e)
    BY SMTT(30), <1>8, <1>9, LockTypes, AtSteps
  <2>3. Freed(At(t1, m, n, s, "no", "no", e), "txn") = At(t, m, n, s, "no", "no", e)
    BY SMTT(30), <1>8, <1>9, LockTypes, AtSteps
  <2> QED
    BY <1>7, <2>1, <2>2, <2>3
<1>12. Outlined(Context, r, At(t, m, n, s, "no", "no", e))
  BY <1>2, <1>11 DEF Before
<1>13. CalmLocks(Context, t, m, n, s, e)
  <2>1. Calm(Context, At(t, m, n, s, "no", "no", e))
    BY <1>7, <1>11
  <2> QED
    BY <1>8, <1>9, <2>1, CalmLocksAt
<1>14. poison \in {<<>>, <<Do("poison", o)>>}
  OBVIOUS
<1>15. n # -1 /\ (s # 0 => Context.failed)
  BY <1>13 DEF CalmLocks
<1>16. h = At(t + 1, m + 1, n, s + 1, "no", "no", e)
  BY <1>8, <1>9
<1>17. CASE Head(todo).do = "look"
  <2>1. todo' = (<<Free("structure")>> \o poison \o <<Free("map"), Free("txn")>>) \o r
    BY <1>17 DEF Look, Goes, Run
  <2> HIDE DEF poison
  <2>2. Outlined(Context, todo', At(t + 1, m + 1, n, s + 1, "no", "no", e))
    BY ZenonT(60), <1>4, <1>8, <1>9, <1>12, <1>14, <1>15, <2>1, LookOutlined
  <2> QED
    BY <1>6, <1>10, <1>16, <2>2, InvNext
<1>18. CASE Head(todo).do = "look_as"
  <2>1. todo' = (<<Free("txn"), Free("map"), Free("structure")>> \o poison) \o r
    BY <1>18 DEF Look, Goes, Run
  <2> HIDE DEF poison
  <2>2. Outlined(Context, todo', At(t + 1, m + 1, n, s + 1, "no", "no", e))
    BY <1>4, <1>8, <1>9, <1>12, <1>13, <1>14, <2>1, LookAsOutlined
  <2> QED
    BY <1>6, <1>10, <1>16, <2>2, InvNext
<1> QED
  BY <1>1, <1>17, <1>18

\* The thread ends.
LEMMA UnwrapFailsStep ==
    ASSUME Objects = {"tree"}, CallsInv, UnwrapFails
    PROVE  CallsInv'
<1>1. TypeOK /\ UNCHANGED <<todo, held, disabled, poisoned, tree, doc, subs, calls>> /\ stopped'
  BY DEF CallsInv, UnwrapFails
<1>2. PICK h \in Notes : Holds(h) /\ Outlined(Context, todo, h)
  BY DEF CallsInv
<1>3. StateOK' /\ Context' = Context
  BY <1>1, Failed DEF TypeOK, StateOK, UnwrapFails
<1>4. Holds(h)'
  BY <1>1, <1>2 DEF Holds
<1> QED
  BY <1>1, <1>2, <1>3, <1>4, InvNext

\* Another writer changes the document.
LEMMA ExternalStep ==
    ASSUME Objects = {"tree"}, CallsInv, External
    PROVE  CallsInv'
<1>1. todo # <<>> /\ Head(todo).do = "external"
  BY DEF External, Now
<1>2. PICK h \in Notes, k \in Notes : Before(h, k)
  BY <1>1, Popped DEF Before
<1>3. StateOK /\ Tail(todo) \in Seq(Instructions)
  BY <1>1, Popped
<1>4. UNCHANGED <<held, disabled, poisoned, subs, stopped, calls>> /\ todo' = Tail(todo)
  BY <1>3 DEF External, Only, Run
<1>5. PICK changed \in {{"tree"}, {"data"}}, b \in SUBSET Breakable :
        /\ doc' = [broken |-> b, changes |-> changed]
        /\ tree' = [tree EXCEPT !.missed = tree.missed \cup (changed \ {"data"})]
  BY DEF External
<1>6. StateOK' /\ Context' = Context
  <2>1. tree' \in [pending : BOOLEAN, missed : SUBSET {"tree", "repairs"}]
    BY <1>3, <1>5 DEF StateOK
  <2>2. doc' \in [broken : SUBSET Breakable, changes : SUBSET {"tree", "repairs", "data"}]
    BY <1>5
  <2> QED
    BY <1>3, <1>4, <2>1, <2>2, Failed DEF StateOK
<1>7. /\ h.phase = "no" /\ h.news = "no" /\ "updated" \notin h.told /\ k = WithNews(h, "changed")
  BY <1>1, <1>2 DEF Before, Valid, Accesses
<1>8. /\ k.news = "changed" /\ k.told = h.told /\ k.phase = h.phase /\ k.locks = h.locks
  BY <1>7 DEF WithNews, Notes
<1>9. Holds(k)'
  <2>1. ~ poisoned["tree"] /\ "tree" \in tree'.missed => doc'.changes = {"tree"}
    BY <1>2, <1>3, <1>5, <1>7 DEF Before, Holds, StateOK
  <2> QED
    BY <1>2, <1>4, <1>7, <1>8, <2>1 DEF Before, Holds
<1> QED
  BY <1>2, <1>4, <1>6, <1>9, InvNext DEF Before

\* A transaction ends, and calls the observer if it is to see the changes.
LEMMA CommitStep ==
    ASSUME Objects = {"tree"}, CallsInv, CommitAndObserve
    PROVE  CallsInv'
<1>1. todo # <<>> /\ Head(todo).do = "commit"
  BY DEF CommitAndObserve, Now
<1>2. PICK h \in Notes, k \in Notes : Before(h, k)
  BY <1>1, Popped DEF Before
<1>3. StateOK /\ Tail(todo) \in Seq(Instructions)
  BY <1>1, Popped
<1> DEFINE r == Tail(todo)
<1>4. /\ UNCHANGED <<held, disabled, poisoned, tree, subs, stopped, calls>>
      /\ doc' = [doc EXCEPT !.changes = {}]
  BY DEF CommitAndObserve, Only
<1>5. StateOK' /\ Context' = Context
  <2>1. doc' \in [broken : SUBSET Breakable, changes : SUBSET {"tree", "repairs", "data"}]
    BY <1>3, <1>4 DEF StateOK
  <2> QED
    BY <1>3, <1>4, <2>1, Failed DEF StateOK
<1>6. /\ "updated" \notin h.told /\ h.locks["txn"] # 0 /\ h.locks["map"] >= 0
      /\ k = WithNews(h, "no")
      /\ \/ h.phase \in {"off", "failing"} /\ h.news = "no"
         \/ /\ h.phase = "no"
            /\ h.locks["structure"] = 0 \/ FailedMidway
            /\ h.news = "no" \/ (h.news = "changed" /\ Head(todo).origin # "yrs_tree_data")
  BY <1>1, <1>2, Failed DEF Before, Valid, Commits
<1>7. h.locks["listeners"] # -1
  BY <1>1, <1>2 DEF Before, Valid, ListenersFree
<1>8. k.news = "no" /\ k.told = h.told /\ k.phase = h.phase /\ k.locks = h.locks
  BY <1>6 DEF WithNews, Notes
<1> DEFINE unseen == \/ doc.changes = {}
                     \/ disabled["tree"]
                     \/ Head(todo).origin = "yrs_tree_data"
<1>9. CASE unseen
  <2>1. todo' = <<>> \o r
    BY <1>9 DEF CommitAndObserve, Run
  <2>2. todo' = r
    BY <1>3, <2>1
  <2>3. ~ poisoned["tree"] => "tree" \notin tree.missed
    BY <1>2, <1>6, <1>9 DEF Before, Holds
  <2>4. Holds(k)'
    BY <1>2, <1>4, <1>8, <2>3 DEF Before, Holds
  <2> QED
    BY <1>2, <1>5, <2>2, <2>4, InvNext DEF Before
<1>10. CASE ~ unseen
  <2>1. todo' = <<Write("structure"), Read("map"), Do("build", "tree")>> \o r
    BY <1>10 DEF CommitAndObserve, Run
  <2>2. h.phase = "no" /\ h.locks["structure"] = 0
    BY <1>2, <1>6, <1>10, Failed DEF Before, Holds
  <2> DEFINE t == h.locks["txn"]
             m == h.locks["map"]
             n == h.locks["listeners"]
             e == h.told
             g == At(t, m, n, 0, "no", "building", e)
  <2>3. /\ t \in Counts /\ m \in Counts /\ n \in Counts /\ e \in Messages /\ 0 \in Counts
        /\ h = At(t, m, n, 0, "no", h.news, e) /\ h.news \in News
        /\ {"no", "building"} \subseteq News /\ "no" \in Phases
    BY <2>2, LockTypes, AtNotes DEF Counts, News
  <2>4. t # 0 /\ m # -1 /\ n # -1 /\ "updated" \notin e
    BY <1>6, <1>7
  <2>5. g.locks = h.locks
    BY <2>3 DEF At
  <2> HIDE DEF t, m, n, e
  <2>6. k = At(t, m, n, 0, "no", "no", e)
    BY <1>6, <2>3, AtSteps
  <2>7. g \in Notes /\ g.phase = "no" /\ g.news = "building" /\ g.told = e
    BY <2>3, AtFields
  <2>8. Outlined(Context, todo', g)
    <3>1. Outlined(Context, r, At(t, m, n, 0, "no", "no", e))
      BY <1>2, <2>6 DEF Before
    <3> QED
      BY <2>1, <2>3, <2>4, <3>1, ObserveOutlined, ObjectsAssumption
  <2> HIDE DEF g
  <2>9. Holds(g)'
    BY <1>2, <1>4, <2>2, <2>4, <2>5, <2>7 DEF Before, Holds
  <2> QED
    BY <1>5, <2>7, <2>8, <2>9, InvNext
<1> QED
  BY <1>9, <1>10

\* The observer rebuilds the tree, or poisons it.
LEMMA BuildStep ==
    ASSUME Objects = {"tree"}, CallsInv, Build
    PROVE  CallsInv'
<1>1. todo # <<>> /\ Head(todo).do = "build"
  BY DEF Build, Now
<1>2. PICK h \in Notes, k \in Notes : Before(h, k)
  BY <1>1, Popped DEF Before
<1>3. StateOK /\ Tail(todo) \in Seq(Instructions)
  BY <1>1, Popped
<1> DEFINE r == Tail(todo)
<1>4. UNCHANGED <<held, disabled, poisoned, doc, subs, stopped, calls>>
  BY DEF Build, Only
<1>5. StateOK' /\ Context' = Context
  <2>1. tree' \in [pending : BOOLEAN, missed : SUBSET {"tree", "repairs"}]
    BY <1>3 DEF Build, StateOK
  <2> QED
    BY <1>3, <1>4, <2>1, Failed DEF StateOK
<1>6. /\ h.phase = "no" /\ h.news = "building" /\ h.locks["structure"] = -1
      /\ h.locks["map"] >= 1 /\ h.locks["txn"] # 0
      /\ k = WithNews(Freed(Freed(h, "structure"), "map"), "no")
  BY <1>1, <1>2 DEF Before, Valid, Observes
<1>7. h.locks["listeners"] # -1
  BY <1>1, <1>2 DEF Before, Valid, ListenersFree
<1> DEFINE t == h.locks["txn"]
           m == h.locks["map"] - 1
           m1 == h.locks["map"]
           n == h.locks["listeners"]
           e == h.told
<1>8. /\ t \in Counts /\ m1 \in Counts /\ n \in Counts /\ e \in Messages
      /\ h = At(t, m1, n, -1, "no", "building", e)
  BY <1>6, LockTypes, AtNotes
<1>9. m \in Counts /\ m # -1 /\ m1 = m + 1 /\ Unheld(m1) = m
  BY <1>6, <1>8 DEF Counts, Unheld
<1>10. {0, -1} \subseteq Counts /\ "no" \in Phases /\ {"no", "building"} \subseteq News
  BY DEF Counts, Phases, News
<1>11. t # 0 /\ n # -1
  BY <1>6, <1>7
<1> HIDE DEF t, m, m1, n, e
<1>14. k = At(t, m, n, 0, "no", "no", e)
  <2>1. Freed(h, "structure") = At(t, m1, n, 0, "no", "building", e)
    BY <1>8, <1>10, AtSteps, Unholding
  <2>2. Freed(At(t, m1, n, 0, "no", "building", e), "map") = At(t, m, n, 0, "no", "building", e)
    BY SMTT(30), <1>8, <1>9, <1>10, AtSteps
  <2>3. WithNews(At(t, m, n, 0, "no", "building", e), "no") = At(t, m, n, 0, "no", "no", e)
    BY SMTT(30), <1>8, <1>9, <1>10, AtSteps
  <2> QED
    BY <1>6, <2>1, <2>2, <2>3
<1>15. Outlined(Context, r, At(t, m, n, 0, "no", "no", e))
  BY <1>2, <1>14 DEF Before
<1>16. CASE /\ \E p \in BOOLEAN : tree' = [pending |-> tree.pending \/ p, missed |-> {}]
            /\ Run(<<Free("map"), Free("structure")>> \o Notify("updated"))
  <2> DEFINE i == [do |-> "callbacks", event |-> "updated", left |-> subs.listeners]
             ex == e \cup {"updated"}
             g == At(t, m1, n, -1, "no", "no", ex)
  <2>1. todo' = (<<Free("map"), Free("structure")>>
                  \o <<Read("listeners"), i, Free("listeners")>>) \o r
    BY <1>16 DEF Run, Notify
  <2>2. subs.listeners \in SUBSET Nat /\ subs.listeners \subseteq Context.listeners
    BY <1>3, Failed DEF StateOK
  <2>3. Outlined(Context, todo', At(t, m + 1, n, -1, "no", "no", e \cup {"updated"}))
    BY <1>8, <1>9, <1>11, <1>15, <2>1, <2>2, BuiltOutlined
  <2>4. Outlined(Context, todo', g)
    BY <1>9, <2>3
  <2>5. ex \in Messages
    BY <1>8 DEF Messages
  <2> HIDE DEF ex
  <2>6. g \in Notes /\ g.phase = "no" /\ g.news = "no"
    BY <1>8, <1>10, <2>5, AtFields
  <2>7. g.locks = h.locks
    BY <1>8 DEF At
  <2>8. tree'.missed = {}
    BY <1>16
  <2> HIDE DEF g
  <2>9. Holds(g)'
    BY <1>2, <1>4, <1>6, <2>6, <2>7, <2>8 DEF Before, Holds
  <2> QED
    BY <1>5, <2>4, <2>6, <2>9, InvNext
<1>17. CASE /\ \E p \in BOOLEAN : tree' = [tree EXCEPT !.pending = @ \/ p]
            /\ Run(<<Free("map"), Free("structure"), Do("poison", "tree")>>)
  <2>1. todo' = <<Free("map"), Free("structure"), Do("poison", "tree")>> \o r
    BY <1>17 DEF Run
  <2>2. Outlined(Context, todo', At(t, m + 1, n, -1, "no", "building", e))
    BY <1>8, <1>9, <1>11, <1>15, <2>1, UnbuiltOutlined, ObjectsAssumption
  <2>3. Outlined(Context, todo', h)
    BY <1>8, <1>9, <2>2
  <2>4. tree'.missed = tree.missed
    BY <1>3, <1>17 DEF StateOK
  <2>5. Holds(h)'
    BY <1>2, <1>4, <2>4 DEF Before, Holds
  <2> QED
    BY <1>5, <2>3, <2>5, InvNext
<1> QED
  BY <1>16, <1>17 DEF Build

\* The tree is poisoned, and the listeners are to be told.
LEMMA PoisonStep ==
    ASSUME Objects = {"tree"}, CallsInv, Poison
    PROVE  CallsInv'
<1>1. todo # <<>> /\ Head(todo).do = "poison"
  BY DEF Poison, Now
<1>2. PICK h \in Notes, k \in Notes : Before(h, k)
  BY <1>1, Popped DEF Before
<1>3. /\ StateOK /\ Tail(todo) \in Seq(Instructions) /\ Head(todo) \in Instructions
      /\ Context \in Contexts
  BY <1>1, Popped
<1> DEFINE r == Tail(todo)
<1>4. UNCHANGED <<held, disabled, tree, doc, subs, stopped, calls>>
  BY DEF Poison, Only
<1>5. Head(todo).by = "tree"
  BY <1>1, <1>3 DEF Instructions
<1>6. poisoned' \in [Objects -> BOOLEAN] /\ poisoned'["tree"]
  BY <1>3, <1>5 DEF Poison, StateOK
<1>7. StateOK'
  BY <1>3, <1>4, <1>6 DEF StateOK
<1>8. /\ Context'.failed = disabled["tree"] /\ Context'.poisoned = TRUE
      /\ Context'.listeners = subs.listeners /\ Context' \in Contexts
      /\ Context.failed => Context'.failed
  <2>1. FailedMidway' = disabled["tree"]
    BY <1>3, <1>4, <1>6, ObjectsAssumption DEF FailedMidway, StateOK
  <2>2. Context' = [failed |-> disabled["tree"], poisoned |-> TRUE, listeners |-> subs.listeners]
    BY <1>4, <1>6, <2>1, ObjectsAssumption DEF Context
  <2>3. disabled["tree"] \in BOOLEAN /\ subs.listeners \in SUBSET Nat
    BY <1>3, ObjectsAssumption DEF StateOK
  <2>4. Context.failed => disabled["tree"]
    BY Failed
  <2> QED
    BY <2>2, <2>3, <2>4 DEF Contexts
<1>9. /\ h.phase \in {"no", "failing"}
      /\ "updated" \in h.told => h.locks["txn"] # 0
      /\ h.locks["map"] = -1 => h.locks["txn"] # 0
      /\ h.locks["structure"] # 0 => h.phase = "failing" \/ FailedMidway
      /\ k = WithNews(InPhase(h, "no"), "no")
  BY <1>1, <1>2, Failed DEF Before, Valid, Observes
<1>10. h.locks["listeners"] # -1
  BY <1>1, <1>2 DEF Before, Valid, ListenersFree
<1>11. h.locks["structure"] # 0 => Context'.failed
  <2>1. h.phase = "failing" => disabled["tree"]
    BY <1>2 DEF Before, Holds
  <2>2. FailedMidway => disabled["tree"]
    BY Failed
  <2> QED
    BY <1>8, <1>9, <2>1, <2>2
<1> DEFINE t == h.locks["txn"]
           m == h.locks["map"]
           n == h.locks["listeners"]
           s == h.locks["structure"]
           e == h.told
           ex == e \cup {"poisoned"}
           g == At(t, m, n, s, "no", "no", ex)
<1>12. /\ t \in Counts /\ m \in Counts /\ n \in Counts /\ s \in Counts /\ e \in Messages
       /\ h = At(t, m, n, s, h.phase, h.news, e) /\ h.phase \in Phases /\ h.news \in News
  BY LockTypes, AtNotes
<1>13. /\ n # -1 /\ ("updated" \in e \/ m = -1 => t # 0) /\ (s # 0 => Context'.failed)
  BY <1>9, <1>10, <1>11
<1>14. g.locks = h.locks
  BY <1>12 DEF At
<1>15. "updated" \in e => tree.missed = {}
  BY <1>2 DEF Before, Holds
<1> HIDE DEF t, m, n, s, e
<1>16. k = At(t, m, n, s, "no", "no", e)
  <2>1. InPhase(h, "no") = At(t, m, n, s, "no", h.news, e)
    BY SMTT(30), <1>12, LockTypes, AtSteps
  <2>2. WithNews(At(t, m, n, s, "no", h.news, e), "no") = At(t, m, n, s, "no", "no", e)
    BY <1>12, LockTypes, AtSteps
  <2> QED
    BY <1>9, <2>1, <2>2
<1>17. Outlined(Context', r, At(t, m, n, s, "no", "no", e))
  <2>1. Outlined(Context, r, k)
    BY <1>2 DEF Before
  <2>2. Context.listeners = Context'.listeners
    BY <1>8, Failed
  <2>3. Outlined(Context', r, k)
    BY <1>3, <1>8, <2>1, <2>2, OtherContext
  <2> QED
    BY <1>16, <2>3
<1> DEFINE i == [do |-> "callbacks", event |-> "poisoned", left |-> subs.listeners]
<1>18. todo' = <<Read("listeners"), i, Free("listeners")>> \o r
  BY DEF Poison, Run, Notify
<1>19. Outlined(Context', todo', g)
  <2>1. subs.listeners \in SUBSET Nat /\ subs.listeners \subseteq Context'.listeners
    BY <1>3, <1>8 DEF StateOK
  <2>2. "poisoned" \in {"updated", "poisoned"} /\ "poisoned" # "updated"
        /\ "poisoned" \in e \cup {"poisoned"} /\ Context'.poisoned
    BY <1>8
  <2>3. Outlined(Context', <<Read("listeners"), i, Free("listeners")>> \o r,
                 At(t, m, n, s, "no", "no", e \cup {"poisoned"}))
    BY <1>12, <1>13, <1>17, <2>1, <2>2, NotifyOutlined
  <2> QED
    BY <1>18, <2>3
<1>20. ex \in Messages /\ ("updated" \in ex => "updated" \in e)
  BY <1>12 DEF Messages
<1> HIDE DEF ex
<1>21. g \in Notes /\ g.phase = "no" /\ g.news = "no" /\ g.told = ex
  BY <1>12, <1>20, LockTypes, AtFields
<1> HIDE DEF g
<1>22. Holds(g)'
  BY <1>2, <1>4, <1>6, <1>14, <1>15, <1>20, <1>21 DEF Before, Holds
<1> QED
  BY <1>7, <1>19, <1>21, <1>22, InvNext

\* notify goes on to the next listener.
LEMMA NextListenerStep ==
    ASSUME Objects = {"tree"}, CallsInv, NextListener
    PROVE  CallsInv'
<1>1. todo # <<>> /\ Head(todo).do = "callbacks"
  BY DEF NextListener, Now
<1>2. PICK h \in Notes, k \in Notes : Before(h, k)
  BY <1>1, Popped DEF Before
<1>3. StateOK /\ Tail(todo) \in Seq(Instructions) /\ Head(todo) \in Instructions
  BY <1>1, Popped
<1> DEFINE i == Head(todo)
           r == Tail(todo)
<1>4. UNCHANGED <<held, disabled, poisoned, tree, doc, subs, stopped, calls>>
  BY DEF NextListener, Goes, Only
<1>5. StateOK' /\ Context' = Context
  BY <1>3, <1>4, Failed DEF StateOK
<1>6. /\ Calm(Context, h) /\ i.left \subseteq subs.listeners /\ k = Telling(h, k.told)
      /\ i.event = "poisoned" => poisoned["tree"]
      /\ h.told = k.told \cup {i.event}
  BY <1>1, <1>2, Failed DEF Before, Valid, Listens, Tells
<1>7. i \in [do : {"callbacks"}, event : {"updated", "poisoned"}, left : SUBSET Nat]
  BY <1>1, <1>3 DEF Instructions
<1>8. CASE i.left = {} /\ Goes(<<>>)
  <2>1. todo' = <<>> \o r
    BY <1>8 DEF Goes, Run
  <2>2. todo' = r
    BY <1>3, <2>1
  <2>3. k.phase = h.phase /\ k.news = h.news /\ k.locks = h.locks
    BY <1>6 DEF Telling, Notes
  <2>4. Holds(k)'
    BY <1>2, <1>4, <1>6, <2>3 DEF Before, Holds
  <2> QED
    BY <1>2, <1>5, <2>2, <2>4, InvNext DEF Before
<1>9. ASSUME NEW l \in i.left,
             Goes(<<[do |-> "callback", event |-> i.event, to |-> l],
                    [i EXCEPT !.left = @ \ {l}]>>)
      PROVE  CallsInv'
  <2> DEFINE x == [do |-> "callback", event |-> i.event, to |-> l]
             y == [i EXCEPT !.left = @ \ {l}]
  <2>1. todo' = <<x, y>> \o r
    BY <1>9 DEF Goes, Run
  <2>2. x \in Instructions /\ x.do = "callback" /\ x.event = i.event /\ x.to = l
    <3>1. l \in Nat /\ i.event \in {"updated", "poisoned"}
      BY <1>7
    <3> QED
      BY <3>1 DEF Instructions
  <2>3. y \in Instructions /\ y.do = "callbacks" /\ y.event = i.event /\ y.left = i.left \ {l}
    <3>1. y \in [do : {"callbacks"}, event : {"updated", "poisoned"}, left : SUBSET Nat]
      BY <1>7
    <3>2. y.do = "callbacks" /\ y.event = i.event /\ y.left = i.left \ {l}
      BY <1>7
    <3> QED
      BY <3>1, <3>2 DEF Instructions
  <2>4. h.phase = "no" /\ h.news = "no" /\ h.locks["listeners"] >= 1
    BY <1>6 DEF Calm
  <2> HIDE DEF x, y, i
  <2>5. Valid(Context, h, y, k)
    <3>1. y.left \subseteq Context.listeners /\ (y.event = "poisoned" => Context.poisoned)
      BY <1>6, <2>3, Failed
    <3>2. h.told = k.told \cup Tells(y)
      BY <1>6, <2>3 DEF Tells
    <3> QED
      BY <1>6, <2>3, <2>4, <3>1, <3>2
         DEF Valid, ListenersFree, TakesAndFrees, Enters, UpdatesNode, Accesses, Commits,
             Observes, Listens
  <2>6. Valid(Context, h, x, h)
    <3>1. x.to \in Context.listeners /\ x.event \in h.told
      BY <1>6, <1>9, <2>2, Failed
    <3>2. Tells(x) = {}
      BY <2>2 DEF Tells
    <3> QED
      BY <1>6, <2>2, <2>4, <3>1, <3>2
         DEF Valid, ListenersFree, TakesAndFrees, Enters, UpdatesNode, Accesses, Commits,
             Observes, Listens
  <2>7. Outlined(Context, Onto(y, r), h)
    BY <1>2, <2>3, <2>5, Push DEF Before
  <2>8. Outlined(Context, Onto(x, Onto(y, r)), h)
    BY <2>2, <2>6, <2>7, Push
  <2>9. todo' = Onto(x, Onto(y, r))
    BY <1>3, <2>1, <2>2, <2>3, Unfold2
  <2>10. Holds(h)'
    BY <1>2, <1>4 DEF Before, Holds
  <2> QED
    BY <1>5, <2>8, <2>9, <2>10, InvNext
<1> QED
  BY <1>8, <1>9 DEF NextListener

\* A call, where the thread may make one.
LEMMA Entered ==
    ASSUME NEW c, NEW list, NEW h \in Notes, NEW o \in Objects, NEW call \in AllCalls,
           Calm(c, h), Outlined(c, list, h)
    PROVE  \E g \in Notes :
            /\ Outlined(c, Entry(call, o) \o list, g)
            /\ g.locks = h.locks /\ g.news = h.news /\ g.told = h.told
            /\ g.phase = "no" \/ (g.phase = "subscribing" /\ call = "subscribe")
<1> DEFINE t == h.locks["txn"]
           m == h.locks["map"]
           n == h.locks["listeners"]
           s == h.locks["structure"]
           e == h.told
           p == IF call = "subscribe" THEN "subscribing" ELSE "no"
           g == At(t, m, n, s, p, "no", e)
<1>1. h.phase = "no" /\ h.news = "no"
  BY DEF Calm
<1>2. /\ t \in Counts /\ m \in Counts /\ n \in Counts /\ s \in Counts /\ e \in Messages
      /\ h = At(t, m, n, s, "no", "no", e)
  BY <1>1, LockTypes, AtNotes
<1>3. g.locks = h.locks
  BY <1>2 DEF At
<1>4. p \in Phases /\ (p = "no" \/ (p = "subscribing" /\ call = "subscribe"))
  BY DEF Phases
<1>5. h.told = e
  OBVIOUS
<1> HIDE DEF t, m, n, s, e
<1>6. CalmLocks(c, t, m, n, s, e)
  <2>1. Calm(c, At(t, m, n, s, "no", "no", e))
    BY <1>2
  <2> QED
    BY <1>2, <2>1, CalmLocksAt
<1>7. Outlined(c, Entry(call, o) \o list, g)
  <2>1. Outlined(c, list, At(t, m, n, s, "no", "no", e))
    BY <1>2
  <2> QED
    BY <1>2, <1>6, <2>1, EntryOutlined
<1> HIDE DEF p
<1>8. g \in Notes /\ g.phase = p /\ g.news = "no" /\ g.told = e
  BY <1>2, <1>4, LockTypes, AtFields
<1> HIDE DEF g
<1> QED
  BY <1>1, <1>3, <1>4, <1>5, <1>7, <1>8

\* The application makes a call.
LEMMA CallStep ==
    ASSUME Objects = {"tree"}, CallsInv, Call
    PROVE  CallsInv'
<1>1. PICK call \in CallNames, o \in Objects : Enter(call, o)
  BY DEF Call
<1>2. call \in AllCalls
  BY CallsAssumption
<1>3. todo = <<>> /\ UNCHANGED <<held, stopped, disabled, poisoned, tree, doc, subs>>
  BY DEF Call
<1>4. TypeOK
  BY DEF CallsInv
<1>5. PICK h \in Notes : Holds(h) /\ Outlined(Context, todo, h)
  BY DEF CallsInv
<1>6. h = Final
  BY <1>3, <1>5, Ends
<1>7. calls' \in 0 .. MaxCalls
  BY <1>4, BoundsAssumption DEF Call, TypeOK
<1>8. StateOK' /\ Context' = Context
  BY <1>3, <1>4, <1>7, Failed DEF TypeOK, StateOK
<1>9. Calm(Context, h)
  BY <1>6 DEF Calm, Final, Nothing, Locks
<1> DEFINE none == <<>>
<1>10. todo' = Entry(call, o) \o none /\ Outlined(Context, none, h)
  BY <1>1, <1>3, <1>5 DEF Enter
<1> HIDE DEF none
<1>11. PICK g \in Notes :
        /\ Outlined(Context, Entry(call, o) \o none, g)
        /\ g.locks = h.locks /\ g.news = h.news /\ g.told = h.told
        /\ g.phase = "no" \/ (g.phase = "subscribing" /\ call = "subscribe")
  BY <1>2, <1>9, <1>10, Entered
<1>12. call = "subscribe" => subs.next_id < MaxSubscribed
  BY <1>1 DEF Enter
<1>13. h.phase = "no"
  BY <1>6 DEF Final
<1>14. Holds(g)'
  BY <1>3, <1>5, <1>11, <1>12, <1>13 DEF Holds
<1> QED
  BY <1>8, <1>10, <1>11, <1>14, InvNext

\* A listener returns, or makes a call.
LEMMA CallbackStep ==
    ASSUME Objects = {"tree"}, CallsInv, Callback
    PROVE  CallsInv'
<1>1. todo # <<>> /\ Head(todo).do = "callback"
  BY DEF Callback, Now
<1>2. PICK h \in Notes, k \in Notes : Before(h, k)
  BY <1>1, Popped DEF Before
<1>3. StateOK /\ Tail(todo) \in Seq(Instructions)
  BY <1>1, Popped
<1> DEFINE r == Tail(todo)
<1>4. UNCHANGED <<held, disabled, poisoned, tree, doc, subs, stopped, calls>>
  BY DEF Callback, Only
<1>5. StateOK' /\ Context' = Context
  BY <1>3, <1>4, Failed DEF StateOK
<1>6. Calm(Context, h) /\ k = h
  BY <1>1, <1>2 DEF Before, Valid, Listens
<1>7. CASE Run(<<>>)
  <2>1. todo' = r
    BY <1>3, <1>7 DEF Run
  <2>2. Holds(h)'
    BY <1>2, <1>4 DEF Before, Holds
  <2> QED
    BY <1>2, <1>5, <1>6, <2>1, <2>2, InvNext DEF Before
<1>8. ASSUME NEW call \in ListenerCalls, NEW o \in Objects, Enter(call, o)
      PROVE  CallsInv'
  <2>1. call \in AllCalls
    BY CallsAssumption
  <2>2. todo' = Entry(call, o) \o r
    BY <1>1, <1>8 DEF Enter
  <2>3. PICK g \in Notes :
          /\ Outlined(Context, Entry(call, o) \o r, g)
          /\ g.locks = h.locks /\ g.news = h.news /\ g.told = h.told
          /\ g.phase = "no" \/ (g.phase = "subscribing" /\ call = "subscribe")
    BY <1>2, <1>6, <2>1, Entered DEF Before
  <2>4. call = "subscribe" => subs.next_id < MaxSubscribed
    BY <1>8 DEF Enter
  <2>5. h.phase = "no"
    BY <1>6 DEF Calm
  <2>6. Holds(g)'
    BY <1>2, <1>4, <2>3, <2>4, <2>5 DEF Before, Holds
  <2> QED
    BY <1>5, <2>2, <2>3, <2>6, InvNext
<1> QED
  BY <1>7, <1>8 DEF Callback

\* A listener is added, where none is called.
LEMMA InsertStep ==
    ASSUME Objects = {"tree"}, CallsInv, Insert
    PROVE  CallsInv'
<1>1. todo # <<>> /\ Head(todo).do = "insert"
  BY DEF Insert, Now
<1>2. PICK h \in Notes, k \in Notes : Before(h, k)
  BY <1>1, Popped DEF Before
<1>3. StateOK /\ Tail(todo) \in Seq(Instructions) /\ Context \in Contexts
  BY <1>1, Popped
<1>4. UNCHANGED <<held, disabled, poisoned, tree, doc, stopped, calls>> /\ todo' = Tail(todo)
  BY <1>3 DEF Insert, Only, Run
<1>5. h.phase = "subscribing" /\ h.told = {} /\ k = InPhase(h, "no")
  BY <1>1, <1>2 DEF Before, Valid, Listens
<1>6. subs.next_id < MaxSubscribed
  BY <1>2, <1>5 DEF Before, Holds
<1>7. subs' = [listeners |-> subs.listeners \cup {subs.next_id}, next_id |-> subs.next_id + 1]
  BY DEF Insert
<1>8. /\ subs' \in [listeners : SUBSET Nat, next_id : 0 .. MaxSubscribed]
      /\ subs'.listeners \subseteq 0 .. subs'.next_id - 1
  <2> DEFINE L == subs.listeners
             x == subs.next_id
  <2>1. x \in 0 .. MaxSubscribed /\ L \subseteq 0 .. x - 1 /\ L \subseteq Nat /\ x < MaxSubscribed
    BY <1>3, <1>6 DEF StateOK
  <2> HIDE DEF L, x
  <2>2. x \in Nat /\ x + 1 \in 0 .. MaxSubscribed /\ L \cup {x} \subseteq 0 .. (x + 1) - 1
    BY <2>1, BoundsAssumption
  <2>3. subs' = [listeners |-> L \cup {x}, next_id |-> x + 1]
    BY <1>7 DEF L, x
  <2> QED
    BY <2>1, <2>2, <2>3
<1>9. StateOK'
  BY <1>3, <1>4, <1>8 DEF StateOK
<1>10. Context' \in Contexts /\ Context'.failed = Context.failed /\ Context'.poisoned = Context.poisoned
  <2>1. FailedMidway' = FailedMidway
    BY <1>4 DEF FailedMidway
  <2>2. Context' = [failed |-> FailedMidway, poisoned |-> poisoned["tree"],
                    listeners |-> subs'.listeners]
    BY <1>4, <2>1 DEF Context
  <2>3. subs'.listeners \in SUBSET Nat
    BY <1>8
  <2> QED
    BY <1>3, <2>2, <2>3 DEF Contexts, Context
<1>11. k.phase = "no" /\ k.told = {} /\ k.news = h.news /\ k.locks = h.locks
  BY <1>5 DEF InPhase, Notes
<1>12. Outlined(Context', todo', k)
  BY <1>2, <1>3, <1>4, <1>10, <1>11, OtherContext DEF Before
<1>13. Holds(k)'
  BY <1>2, <1>4, <1>5, <1>11 DEF Before, Holds
<1> QED
  BY <1>9, <1>12, <1>13, InvNext

\* A listener is removed, where none is called; or its callback owns another
\* subscription.
LEMMA RemoveStep ==
    ASSUME Objects = {"tree"}, CallsInv, Remove
    PROVE  CallsInv' \/ Stuck'
<1>1. todo # <<>> /\ Head(todo).do = "remove" /\ ~ stopped
  BY DEF Remove, Now
<1>2. PICK h \in Notes, k \in Notes : Before(h, k)
  BY <1>1, Popped DEF Before
<1>3. StateOK /\ Tail(todo) \in Seq(Instructions) /\ Context \in Contexts
  BY <1>1, Popped
<1>4. UNCHANGED <<held, disabled, poisoned, tree, doc, stopped, calls>>
  BY DEF Remove, Only
<1>5. h.phase = "no" /\ h.told = {} /\ k = h /\ h.locks["listeners"] = -1
  BY <1>1, <1>2 DEF Before, Valid, Listens
<1>6. PICK l \in subs.listeners :
        /\ subs' = [subs EXCEPT !.listeners = @ \ {l}]
        /\ Run(<<>>) \/ Run(Entry("drop", Head(todo).by))
  BY DEF Remove
<1>7. /\ subs' \in [listeners : SUBSET Nat, next_id : 0 .. MaxSubscribed]
      /\ subs'.listeners \subseteq 0 .. subs'.next_id - 1
  BY <1>3, <1>6 DEF StateOK
<1>8. StateOK'
  BY <1>3, <1>4, <1>7 DEF StateOK
<1>9. Context' \in Contexts /\ Context'.failed = Context.failed /\ Context'.poisoned = Context.poisoned
  <2>1. FailedMidway' = FailedMidway
    BY <1>4 DEF FailedMidway
  <2>2. Context' = [failed |-> FailedMidway, poisoned |-> poisoned["tree"],
                    listeners |-> subs'.listeners]
    BY <1>4, <2>1 DEF Context
  <2>3. subs'.listeners \in SUBSET Nat
    BY <1>7
  <2> QED
    BY <1>3, <2>2, <2>3 DEF Contexts, Context
<1>10. CASE Run(<<>>)
  <2>1. todo' = Tail(todo)
    BY <1>3, <1>10 DEF Run
  <2>2. Outlined(Context', todo', h)
    BY <1>2, <1>3, <1>5, <1>9, <2>1, OtherContext DEF Before
  <2>3. Holds(h)'
    BY <1>2, <1>4, <1>5 DEF Before, Holds
  <2> QED
    BY <1>8, <2>2, <2>3, InvNext
<1>11. CASE Run(Entry("drop", Head(todo).by))
  <2> DEFINE o == Head(todo).by
             i == Write("listeners")
             j == Do("remove", o)
             f == Free("listeners")
  <2>1. o \in Objects
    BY <1>1, Popped DEF Instructions
  <2>2. i \in Instructions /\ j \in Instructions /\ f \in Instructions
    BY <2>1 DEF Instructions, Write, Do, Free, Locks
  <2>3. i.do = "write" /\ i.lock = "listeners" /\ j.do = "remove"
    BY DEF Write, Do
  <2>4. todo' = <<i, j, f>> \o Tail(todo)
    BY <1>11 DEF Run, Entry
  <2> HIDE DEF i, j, f, o
  <2>5. /\ todo' \in Seq(Instructions) /\ todo' # <<>> /\ Len(todo') > 1
        /\ Head(todo') = i /\ todo'[2] = j
    BY <1>3, <2>2, <2>4
  <2>6. held'["listeners"] = -1
    BY <1>2, <1>4, <1>5 DEF Before, Holds
  <2>7. DropWithinDrop'
    BY <1>1, <1>4, <2>3, <2>5, <2>6 DEF DropWithinDrop, Now
  <2>8. held' \in [Locks -> Nat \cup {-1}]
    BY <1>4 DEF CallsInv, TypeOK
  <2>9. TypeOK'
    BY <1>8, <2>5, <2>8 DEF TypeOK, StateOK
  <2> QED
    BY <2>7, <2>9 DEF Stuck
<1> QED
  BY <1>6, <1>10, <1>11

-----------------------------------------------------------------------------
(* The theorems                                                            *)

LEMMA CallsInvInit ==
    ASSUME Objects = {"tree"}, Init
    PROVE  CallsInv
<1>1. Final \in Notes
  BY DEF Final, Nothing, Notes, Held, Counts, Phases, News, Messages
<1>2. Holds(Final)
  BY DEF Init, Holds, Final, Nothing, Locks
<1>3. Outlined(Context, todo, Final)
  BY Ends DEF Init
<1>4. StateOK
  <2>1. subs \in [listeners : SUBSET Nat, next_id : 0 .. MaxSubscribed]
    BY BoundsAssumption DEF Init
  <2>2. subs.listeners \subseteq 0 .. subs.next_id - 1
    BY DEF Init
  <2>3. calls \in 0 .. MaxCalls
    BY BoundsAssumption DEF Init
  <2> QED
    BY <2>1, <2>2, <2>3 DEF Init, StateOK
<1> QED
  BY <1>1, <1>2, <1>3, <1>4, InvBy

LEMMA CallsInvNext ==
    ASSUME Objects = {"tree"}, CallsInv, [Next]_vars
    PROVE  CallsInv' \/ Stuck'
<1>1. CASE Next
  BY <1>1, CallStep, AcquireStep, ReleaseStep, BeginStep, RepairsStep, WriteRepairsStep,
     ModifyStep, EnableStep, PutStep, LookStep, UnwrapFailsStep, ExternalStep, CommitStep,
     BuildStep, PoisonStep, NextListenerStep, CallbackStep, InsertStep, RemoveStep DEF Next
<1>2. CASE UNCHANGED vars
  <2>1. UNCHANGED <<todo, held, stopped, disabled, poisoned, tree, doc, subs, calls>>
    BY <1>2 DEF vars
  <2>2. PICK h \in Notes : Holds(h) /\ Outlined(Context, todo, h)
    BY DEF CallsInv
  <2>3. TypeOK
    BY DEF CallsInv
  <2>4. StateOK' /\ Context' = Context
    BY <2>1, <2>3, Failed DEF TypeOK, StateOK
  <2>5. Holds(h)'
    BY <2>1, <2>2 DEF Holds
  <2> QED
    BY <2>1, <2>2, <2>4, <2>5, InvNext
<1> QED
  BY <1>1, <1>2

\* A drop within a drop waits for ever.
LEMMA StuckNext ==
    ASSUME Stuck, [Next]_vars
    PROVE  Stuck'
<1>1. /\ todo # <<>> /\ Head(todo).do = "write" /\ Head(todo).lock = "listeners"
      /\ held["listeners"] = -1
  BY DEF Stuck, DropWithinDrop, Now
<1>2. ~ Call /\ ~ Acquire /\ ~ Release
  BY <1>1 DEF Call, Acquire, Release, Now
<1>3. ~ Begin /\ ~ Repairs /\ ~ WriteRepairs /\ ~ Modify /\ ~ Enable
  BY <1>1 DEF Begin, Repairs, WriteRepairs, Modify, Enable, Now
<1>4. ~ Put /\ ~ Look /\ ~ UnwrapFails /\ ~ External
  BY <1>1 DEF Put, Look, UnwrapFails, External, Now
<1>5. ~ CommitAndObserve /\ ~ Build /\ ~ Poison
  BY <1>1 DEF CommitAndObserve, Build, Poison, Now
<1>6. ~ NextListener /\ ~ Callback /\ ~ Insert /\ ~ Remove
  BY <1>1 DEF NextListener, Callback, Insert, Remove, Now
<1>7. UNCHANGED vars
  BY <1>2, <1>3, <1>4, <1>5, <1>6 DEF Next
<1> QED
  BY <1>7 DEF vars, Stuck, TypeOK, DropWithinDrop, Now

\* However calls and listeners nest, what is left to do has a proof outline; or
\* a subscription is dropped in the drop of another one, and that is the end.
THEOREM CallsOutlined ==
    ASSUME Objects = {"tree"}
    PROVE  Spec => [](CallsInv \/ Stuck)
<1>1. Init => CallsInv \/ Stuck
  BY CallsInvInit
<1>2. (CallsInv \/ Stuck) /\ [Next]_vars => (CallsInv \/ Stuck)'
  BY CallsInvNext, StuckNext
<1> QED
  BY <1>1, <1>2, PTL DEF Spec

\* Every lock is written once or read by some, listeners have ids below the
\* next one, and what is left to do are instructions.
THEOREM CallsTypeCorrect ==
    ASSUME Objects = {"tree"}
    PROVE  Spec => []TypeOK
<1>1. CallsInv \/ Stuck => TypeOK
  BY DEF CallsInv, Stuck
<1> QED
  BY <1>1, CallsOutlined, PTL

\* What waits for itself waits for a lock that the note allows to wait for.
LEMMA BlockedWaits ==
    ASSUME CallsInv, Blocked
    PROVE  /\ todo # <<>>
           /\ \E h \in Notes :
                Waits(Context, h, Head(todo).lock) /\ Outlined(Context, todo, h)
<1>1. todo # <<>> /\ Head(todo).do \in {"write", "read"}
  BY DEF Blocked, Now
<1>2. PICK h \in Notes : Holds(h) /\ Outlined(Context, todo, h)
  BY DEF CallsInv
<1>3. PICK k \in Notes : Valid(Context, h, Head(todo), k)
  BY <1>1, <1>2, Pop
<1>4. TakesAndFrees(Context, h, Head(todo), k) /\ h.locks = held
  BY <1>2, <1>3 DEF Valid, Holds
<1> DEFINE l == Head(todo).lock
<1>5. l \in Locks
  <2>1. Head(todo) \in Instructions
    BY <1>1, <1>2, Pop
  <2> QED
    BY <1>1, <2>1 DEF Instructions
<1>6. held[l] \in Nat \cup {-1}
  BY <1>5 DEF CallsInv, TypeOK
<1>7. Waits(Context, h, l)
  BY <1>4, <1>6 DEF TakesAndFrees, Blocked, Now
<1> QED
  BY <1>1, <1>2, <1>7

\* No operation waits for a lock that it holds itself, in whatever order its
\* guards are dropped: what waits for ever has been called by a listener, or is
\* the drop of a subscription in the drop of another one.
THEOREM OperationsNeverWait ==
    ASSUME Objects = {"tree"}
    PROVE  Spec => []OnlyListenersWait
<1>1. ASSUME CallsInv PROVE OnlyListenersWait
  <2> SUFFICES ASSUME Blocked PROVE InListener
    BY DEF OnlyListenersWait
  <2>1. PICK h \in Notes : Waits(Context, h, Head(todo).lock) /\ Outlined(Context, todo, h)
    BY <1>1, BlockedWaits
  <2>2. PICK e \in h.told : TRUE
    BY <2>1 DEF Waits
  <2>3. PICK i \in DOMAIN todo : todo[i].do = "callbacks"
    BY <2>1, <2>2, ToldByCallbacks
  <2> QED
    BY <2>3 DEF InListener
<1>2. Stuck => OnlyListenersWait
  BY DEF Stuck, DropWithinDrop, OnlyListenersWait
<1> QED
  BY <1>1, <1>2, CallsOutlined, PTL

\* The structure is not borrowed while it is borrowed mutably, except by the
\* listeners that are told that update_node gave up.
THEOREM StructureNeverReborrowed ==
    ASSUME Objects = {"tree"}
    PROVE  Spec => []NeverReborrows
<1>1. ASSUME CallsInv PROVE NeverReborrows
  <2> SUFFICES ASSUME Blocked, Head(todo).lock = "structure"
               PROVE  FailedMidway /\ \E i \in DOMAIN todo :
                        todo[i].do = "callbacks" /\ todo[i].event = "poisoned"
    BY DEF NeverReborrows
  <2>1. PICK h \in Notes : Waits(Context, h, Head(todo).lock) /\ Outlined(Context, todo, h)
    BY <1>1, BlockedWaits
  <2>2. Context.failed /\ "poisoned" \in h.told
    BY <2>1 DEF Waits
  <2>3. FailedMidway
    BY <2>2 DEF Context
  <2>4. \E i \in DOMAIN todo : todo[i].do = "callbacks" /\ todo[i].event = "poisoned"
    BY <2>1, <2>2, ToldByCallbacks
  <2> QED
    BY <2>3, <2>4
<1>2. Stuck => NeverReborrows
  BY DEF Stuck, DropWithinDrop, NeverReborrows
<1> QED
  BY <1>1, <1>2, CallsOutlined, PTL

\* What is known where a listener is called.
LEMMA CallbackKnows ==
    ASSUME CallsInv, Now("callback")
    PROVE  \E h \in Notes :
            Holds(h) /\ Head(todo).event \in h.told /\ Head(todo).to \in subs.listeners
<1>1. todo # <<>> /\ Head(todo).do = "callback"
  BY DEF Now
<1>2. PICK h \in Notes : Holds(h) /\ Outlined(Context, todo, h)
  BY DEF CallsInv
<1>3. PICK k \in Notes : Valid(Context, h, Head(todo), k)
  BY <1>1, <1>2, Pop
<1>4. Listens(Context, h, Head(todo), k)
  BY <1>2, <1>3 DEF Valid, Holds
<1> QED
  BY <1>1, <1>2, <1>4 DEF Listens, Context

\* Listeners that are told of an update find the tree of the document.
THEOREM ListenersAreUpToDate ==
    ASSUME Objects = {"tree"}
    PROVE  Spec => []ListenersSeeTheNewTree
<1>1. CallsInv => ListenersSeeTheNewTree
  BY CallbackKnows DEF ListenersSeeTheNewTree, Holds
<1>2. Stuck => ListenersSeeTheNewTree
  BY DEF Stuck, DropWithinDrop, Now, ListenersSeeTheNewTree
<1> QED
  BY <1>1, <1>2, CallsOutlined, PTL

\* A listener is not called once its subscription has been dropped.
THEOREM OnlySubscribersCalled ==
    ASSUME Objects = {"tree"}
    PROVE  Spec => []CalledIsSubscribed
<1>1. CallsInv => CalledIsSubscribed
  BY CallbackKnows DEF CalledIsSubscribed
<1>2. Stuck => CalledIsSubscribed
  BY DEF Stuck, DropWithinDrop, Now, CalledIsSubscribed
<1> QED
  BY <1>1, <1>2, CallsOutlined, PTL

\* Between calls the observer is on, or the tree is poisoned; and an open tree
\* shows the document, but for its own repairs.
THEOREM QuietTreesAreCurrent ==
    ASSUME Objects = {"tree"}
    PROVE  Spec => []QuietMeansCurrent
<1>1. ASSUME CallsInv PROVE QuietMeansCurrent
  <2> SUFFICES ASSUME todo = <<>>
               PROVE  /\ \A o \in Objects : disabled[o] => poisoned[o]
                      /\ ~ poisoned["tree"] => tree.missed \subseteq {"repairs"}
    BY DEF QuietMeansCurrent
  <2>1. PICK h \in Notes : Holds(h) /\ Outlined(Context, todo, h)
    BY <1>1 DEF CallsInv
  <2>2. h.phase = "no" /\ h.news = "no"
    BY <2>1, Ends DEF Final
  <2>3. tree.missed \subseteq {"tree", "repairs"}
    BY <1>1 DEF CallsInv, TypeOK
  <2>4. disabled["tree"] \in BOOLEAN /\ poisoned["tree"] \in BOOLEAN
    BY <1>1, ObjectsAssumption DEF CallsInv, TypeOK
  <2> QED
    BY <2>1, <2>2, <2>3, <2>4 DEF Holds
<1>2. Stuck => QuietMeansCurrent
  BY DEF Stuck, DropWithinDrop, Now, QuietMeansCurrent
<1> QED
  BY <1>1, <1>2, CallsOutlined, PTL
=============================================================================
