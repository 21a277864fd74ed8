------------------------------- MODULE Calls -------------------------------
(***************************************************************************)
(* Calls of a Tree (src/src/tree.rs) and of its listeners (events.rs), as  *)
(* far as they take locks: the transaction of the document, the lock of    *)
(* the map, the lock of the listeners, and the RefCell of the structure.   *)
(* All run in one thread, since a Tree is not Sync; but a commit calls the *)
(* observer, the observer the listeners, and these the tree again, while   *)
(* the callers below hold what they hold. (The mutex around the RefCell is *)
(* reentrant, so that this thread never waits for it.)                     *)
(*                                                                         *)
(* todo is what the thread has yet to do, innermost call first. The lists  *)
(* of instructions follow the functions line by line: where a guard goes   *)
(* out of scope is where the list frees it.                                *)
(***************************************************************************)
EXTENDS Integers, Sequences, FiniteSets

CONSTANTS
    Objects,        \* the Tree and its clones; the observer has "tree"
    Breakable,      \* what other writers may break: "data", "container"
    CallNames,      \* bound: the calls that the application makes,
    ListenerCalls,  \* and those that a listener makes
    MaxCalls,       \* bound on the calls of the application
    MaxSubscribed,  \* bound on the subscriptions ever made
    MaxNesting      \* bound on notifications within notifications

AllCalls == {"update", "delete", "set", "get", "get_as", "read", "external", "subscribe", "drop"}

ASSUME ObjectsAssumption == "tree" \in Objects
ASSUME BreakableAssumption == Breakable \subseteq {"data", "container"}
ASSUME CallsAssumption == CallNames \subseteq AllCalls /\ ListenerCalls \subseteq AllCalls
ASSUME BoundsAssumption == {MaxCalls, MaxNesting} \subseteq Nat /\ MaxSubscribed \in Nat \ {0}

VARIABLES
    todo,       \* the instructions of the calls on the stack
    held,       \* of each lock: -1 when written, else how many read it
    stopped,    \* an unwrap of None has ended the thread
    disabled,   \* yjs_observer_disabled, of each object
    poisoned,   \* poisioned.is_some(), of each object
    tree,       \* the structure: [pending, missed]; missed is history, what
                \* of the document the cached tree does not show
    doc,        \* [broken, changes]: what is not of the type it should be,
                \* and what the open transaction has changed
    subs,       \* the observer: [listeners, next_id]
    calls       \* bound: calls so far

vars == <<todo, held, stopped, disabled, poisoned, tree, doc, subs, calls>>

Locks == {"txn", "map", "listeners", "structure"}

\* What an instruction names: the lock that it takes or frees, the object that
\* it is done by, or what a transaction, a listener or all of them are told.
Instructions ==
    [do : {"write", "read", "free"}, lock : Locks]
    \cup [do : {"update", "delete", "set", "get", "repairs", "write_repairs", "place", "enable",
               "delete_ids", "put", "look", "look_as", "external", "build", "poison",
               "insert", "remove"}, by : Objects]
    \cup [do : {"commit"}, origin : {"none", "yrs_tree", "yrs_tree_data"}]
    \cup [do : {"callbacks"}, event : {"updated", "poisoned"}, left : SUBSET Nat]
    \cup [do : {"callback"}, event : {"updated", "poisoned"}, to : Nat]

TypeOK ==
    /\ todo \in Seq(Instructions)
    /\ held \in [Locks -> Nat \cup {-1}]
    /\ stopped \in BOOLEAN
    /\ disabled \in [Objects -> BOOLEAN] /\ poisoned \in [Objects -> BOOLEAN]
    /\ tree \in [pending : BOOLEAN, missed : SUBSET {"tree", "repairs"}]
    /\ doc \in [broken : SUBSET Breakable, changes : SUBSET {"tree", "repairs", "data"}]
    /\ subs \in [listeners : SUBSET Nat, next_id : 0 .. MaxSubscribed]
    /\ subs.listeners \subseteq 0 .. subs.next_id - 1
    /\ calls \in 0 .. MaxCalls

\* A new tree to which one listener has subscribed.
Init ==
    /\ todo = <<>> /\ held = [l \in Locks |-> 0] /\ stopped = FALSE
    /\ disabled = [o \in Objects |-> FALSE] /\ poisoned = [o \in Objects |-> FALSE]
    /\ tree = [pending |-> FALSE, missed |-> {}]
    /\ doc = [broken |-> {}, changes |-> {}]
    /\ subs = [listeners |-> {0}, next_id |-> 1]
    /\ calls = 0

-----------------------------------------------------------------------------
(* The lists of instructions                                               *)

Write(l)    == [do |-> "write", lock |-> l]
Read(l)     == [do |-> "read", lock |-> l]
Free(l)     == [do |-> "free", lock |-> l]
Do(i, o)    == [do |-> i, by |-> o]
Commit(org) == [do |-> "commit", origin |-> org]

\* Mutant: the guard of the map outlives the transaction.
EndMapLast(org) == <<Commit(org), Free("txn"), Free("map")>>

\* The guard of the map is dropped, then the transaction.
End(org) == <<Free("map"), Commit(org), Free("txn")>>

\* Mutant: the structure is not dropped before the transaction ends.
PlaceBorrowed(o) == <<Write("txn"), Write("map"), Do("place", o), Do("enable", o)>>
                    \o End("yrs_tree") \o <<Free("structure")>>

\* Mutant: the observer is not enabled again.
PlaceStaysDisabled(o) ==
    <<Write("txn"), Write("map"), Do("place", o), Free("structure")>> \o End("yrs_tree")

\* Tree::update_node from the second transaction on.
Place(o) == <<Write("txn"), Write("map"), Do("place", o), Free("structure"), Do("enable", o)>>
            \o End("yrs_tree")

\* What is done of a call before anything depends on the state.
Entry(call, o) ==
    CASE call \in {"update", "delete", "set", "get"} -> <<Do(call, o)>>
      [] call = "get_as"    -> <<Read("structure"), Read("map"), Read("txn"), Do("look_as", o)>>
      [] call = "read"      -> <<Read("structure"), Free("structure")>>
      [] call = "external"  -> <<Write("txn"), Do("external", o), Commit("none"), Free("txn")>>
      [] call = "subscribe" -> <<Write("listeners"), Do("insert", o), Free("listeners")>>
      [] call = "drop"      -> <<Write("listeners"), Do("remove", o), Free("listeners")>>

\* Mutant: the listeners are called without the lock.
NotifyUnlocked(event) ==
    <<[do |-> "callbacks", event |-> event, left |-> subs.listeners]>>

\* TreeObserver::notify
Notify(event) ==
    <<Read("listeners"), [do |-> "callbacks", event |-> event, left |-> subs.listeners],
      Free("listeners")>>

-----------------------------------------------------------------------------
(* Steps                                                                   *)

Now(i)  == ~ stopped /\ todo # <<>> /\ Head(todo).do = i
Run(is) == todo' = is \o Tail(todo)

\* A call begins, at the top or in a callback; there is a subscription to drop.
Enter(call, o) ==
    /\ call = "subscribe" => subs.next_id < MaxSubscribed
    /\ call = "drop" => subs.listeners # {}
    /\ todo' = Entry(call, o) \o (IF todo = <<>> THEN <<>> ELSE Tail(todo))

Call ==
    /\ ~ stopped /\ todo = <<>> /\ calls < MaxCalls
    /\ \E call \in CallNames, o \in Objects : Enter(call, o)
    /\ calls' = calls + 1
    /\ UNCHANGED <<held, stopped, disabled, poisoned, tree, doc, subs>>

Only(v) == UNCHANGED v /\ UNCHANGED <<stopped, calls>>

\* A lock is taken where nobody else holds it, and waited for where somebody
\* does: the thread itself, for ever. The RefCell panics instead of waiting;
\* either way the thread goes no further.
Acquire ==
    /\ \/ Now("write") /\ held[Head(todo).lock] = 0
          /\ held' = [held EXCEPT ![Head(todo).lock] = -1]
       \/ Now("read") /\ held[Head(todo).lock] >= 0
          /\ held' = [held EXCEPT ![Head(todo).lock] = @ + 1]
    /\ Run(<<>>)
    /\ Only(<<disabled, poisoned, tree, doc, subs>>)

Release ==
    /\ Now("free")
    /\ held' = [held EXCEPT ![Head(todo).lock] = IF @ = -1 THEN 0 ELSE @ - 1]
    /\ Run(<<>>)
    /\ Only(<<disabled, poisoned, tree, doc, subs>>)

Blocked == \/ Now("write") /\ held[Head(todo).lock] # 0
           \/ Now("read")  /\ held[Head(todo).lock] = -1

Goes(is) == Run(is) /\ Only(<<held, disabled, poisoned, tree, doc, subs>>)

\* update_node, delete_nodes, set_data and get_data of a poisoned tree fail at
\* once; others take their locks.
Begin ==
    \E call \in {"update", "delete", "set", "get"} :
        /\ Now(call)
        /\ LET o == Head(todo).by IN
            Goes(CASE poisoned[o]       -> <<>>
                   [] ~ poisoned[o] /\ call = "update" -> <<Write("structure"), Do("repairs", o)>>
                   [] ~ poisoned[o] /\ call = "delete" ->
                        <<Write("txn"), Write("map"), Write("structure"), Do("delete_ids", o),
                          Free("structure")>> \o End("yrs_tree")
                   [] ~ poisoned[o] /\ call = "set"    ->
                        <<Write("txn"), Write("map"), Write("structure"), Do("put", o)>>
                   [] ~ poisoned[o] /\ call = "get"    ->
                        <<Read("txn"), Read("map"), Read("structure"), Do("look", o)>>)

\* update_node: pending repairs are written in a transaction of their own.
Repairs ==
    /\ Now("repairs")
    /\ LET o == Head(todo).by IN
        Goes(IF tree.pending
             THEN <<Write("txn"), Write("map"), Do("write_repairs", o)>>
             ELSE Place(o))

\* apply_pending_edge_map_updates, with the observer disabled, since the
\* structure is borrowed. A container of another type is an error, met when
\* some updates may be written already; on it the tree is poisoned with the
\* structure still borrowed, and the observer stays disabled.
WriteRepairs ==
    /\ Now("write_repairs")
    /\ LET o == Head(todo).by
           Written(some) == /\ doc' = [doc EXCEPT !.changes = some]
                            /\ tree' = [pending |-> "container" \in doc.broken,
                                        missed  |-> tree.missed \cup some]
       IN
        /\ disabled' = [disabled EXCEPT ![o] = TRUE]
        /\ IF "container" \in doc.broken
           THEN /\ Run(End("yrs_tree") \o <<Do("poison", o), Free("structure")>>)
                /\ \E some \in {{}, {"repairs"}} : Written(some)
           ELSE /\ Run(End("yrs_tree") \o Place(o))
                /\ Written({"repairs"})
    /\ Only(<<held, poisoned, subs>>)

\* TreeStructure::update_node and delete_nodes. The root has no container, and
\* what is not there is not removed.
Modify ==
    /\ Now("place") \/ Now("delete_ids")
    /\ \/ /\ doc' = [doc EXCEPT !.changes = {"tree"}]
          /\ tree' = [tree EXCEPT !.missed = @ \cup {"tree"}]
       \/ UNCHANGED <<doc, tree>>
    /\ Run(<<>>)
    /\ Only(<<held, disabled, poisoned, subs>>)

Enable ==
    /\ Now("enable")
    /\ disabled' = [disabled EXCEPT ![Head(todo).by] = FALSE]
    /\ Run(<<>>)
    /\ Only(<<held, poisoned, tree, doc, subs>>)

\* set_data: where the data is not a map, the tree is poisoned before the
\* guards are dropped; a container of another type is only an error.
Put ==
    /\ Now("put")
    /\ LET o == Head(todo).by IN
        /\ Run(<<Free("structure")>>
                \o (IF doc.broken = {"data"} THEN <<Do("poison", o)>> ELSE <<>>)
                \o End("yrs_tree_data"))
        /\ doc' = [doc EXCEPT !.changes = IF doc.broken = {} THEN {"data"} ELSE {}]
    /\ Only(<<held, disabled, poisoned, tree, subs>>)

\* get_data; get_data_as has dropped everything before it poisons.
Look ==
    /\ Now("look") \/ Now("look_as")
    /\ LET poison == IF doc.broken # {} THEN <<Do("poison", Head(todo).by)>> ELSE <<>> IN
        Goes(IF Head(todo).do = "look"
             THEN <<Free("structure")>> \o poison \o <<Free("map"), Free("txn")>>
             ELSE <<Free("txn"), Free("map"), Free("structure")>> \o poison)

\* The container of the node has gone: an unwrap of None; also in the
\* observer, where the parent of a node has gone.
UnwrapFails ==
    /\ Now("put") \/ Now("look") \/ Now("look_as") \/ Now("write_repairs") \/ Now("build")
    /\ stopped' = TRUE
    /\ UNCHANGED <<todo, held, disabled, poisoned, tree, doc, subs, calls>>

\* A transaction of another writer of the document: a remote update, say.
External ==
    /\ Now("external")
    /\ \E changed \in {{"tree"}, {"data"}}, b \in SUBSET Breakable :
        /\ doc' = [broken |-> b, changes |-> changed]
        /\ tree' = [tree EXCEPT !.missed = @ \cup (changed \ {"data"})]
    /\ Run(<<>>)
    /\ Only(<<held, disabled, poisoned, subs>>)

\* Mutant: the listeners are told before the tree is rebuilt.
CommitAndNotify ==
    /\ Now("commit")
    /\ doc' = [doc EXCEPT !.changes = {}]
    /\ Run(IF \/ doc.changes = {}
              \/ disabled["tree"]
              \/ Head(todo).origin = "yrs_tree_data"
           THEN <<>>
           ELSE Notify("updated") \o <<Write("structure"), Read("map"), Do("build", "tree")>>)
    /\ Only(<<held, disabled, poisoned, tree, subs>>)

\* The end of a transaction: what it has changed goes to the observer, which
\* returns when it is disabled or when a tree has set data.
CommitAndObserve ==
    /\ Now("commit")
    /\ doc' = [doc EXCEPT !.changes = {}]
    /\ Run(IF \/ doc.changes = {}
              \/ disabled["tree"]
              \/ Head(todo).origin = "yrs_tree_data"
           THEN <<>>
           ELSE <<Write("structure"), Read("map"), Do("build", "tree")>>)
    /\ Only(<<held, disabled, poisoned, tree, subs>>)

\* The observer: the tree is rebuilt, which may leave repairs pending; then
\* the borrow ends and the listeners are told, or the tree is poisoned.
Build ==
    /\ Now("build")
    /\ \/ /\ \E p \in BOOLEAN : tree' = [pending |-> tree.pending \/ p, missed |-> {}]
          /\ Run(<<Free("map"), Free("structure")>> \o Notify("updated"))
       \/ /\ \E p \in BOOLEAN : tree' = [tree EXCEPT !.pending = @ \/ p]
          /\ Run(<<Free("map"), Free("structure"), Do("poison", "tree")>>)
    /\ Only(<<held, disabled, poisoned, doc, subs>>)

\* mark_poisoned
Poison ==
    /\ Now("poison")
    /\ poisoned' = [poisoned EXCEPT ![Head(todo).by] = TRUE]
    /\ Run(Notify("poisoned"))
    /\ Only(<<held, disabled, tree, doc, subs>>)

\* notify calls one listener after the other, in any order.
NextListener ==
    /\ Now("callbacks")
    /\ LET h == Head(todo) IN
        \/ h.left = {} /\ Goes(<<>>)
        \/ \E l \in h.left :
            Goes(<<[do |-> "callback", event |-> h.event, to |-> l],
                   [h EXCEPT !.left = @ \ {l}]>>)

Nesting == Cardinality({i \in DOMAIN todo : todo[i].do = "callbacks"})

\* A listener returns, or makes a call of any object and returns.
Callback ==
    /\ Now("callback")
    /\ \/ Run(<<>>)
       \/ /\ Nesting <= MaxNesting
          /\ \E call \in ListenerCalls, o \in Objects : Enter(call, o)
    /\ Only(<<held, disabled, poisoned, tree, doc, subs>>)

\* Mutant: the next subscription gets the same id.
InsertSameId ==
    /\ Now("insert")
    /\ subs' = [subs EXCEPT !.listeners = @ \cup {subs.next_id}]
    /\ Run(<<>>)
    /\ Only(<<held, disabled, poisoned, tree, doc>>)

\* TreeObserver::subscribe
Insert ==
    /\ Now("insert")
    /\ subs' = [listeners |-> subs.listeners \cup {subs.next_id}, next_id |-> subs.next_id + 1]
    /\ Run(<<>>)
    /\ Only(<<held, disabled, poisoned, tree, doc>>)

\* The callback goes with the subscription, while the listeners are still
\* written; where it owns another subscription, this is dropped there and then.
Remove ==
    /\ Now("remove")
    /\ \E l \in subs.listeners :
        /\ subs' = [subs EXCEPT !.listeners = @ \ {l}]
        /\ \/ Run(<<>>)
           \/ subs.listeners # {l} /\ Run(Entry("drop", Head(todo).by))
    /\ Only(<<held, disabled, poisoned, tree, doc>>)

Next ==
    \/ Call \/ Acquire \/ Release
    \/ Begin \/ Repairs \/ WriteRepairs \/ Modify \/ Enable
    \/ Put \/ Look \/ UnwrapFails \/ External
    \/ CommitAndObserve \/ Build \/ Poison
    \/ NextListener \/ Callback \/ Insert \/ Remove

Spec == Init /\ [][Next]_vars

-----------------------------------------------------------------------------
(* Properties                                                              *)

InListener == \E i \in DOMAIN todo : todo[i].do = "callbacks"

\* update_node gave up while it wrote the repairs: an entry of the map is not
\* a container, as only writers other than trees leave it.
FailedMidway == \E o \in Objects : disabled[o] /\ poisoned[o]

\* "We manually disable the observer when we apply pending edge map updates to
\* avoid trying to re-borrow the structure": however calls nest, the structure
\* is not borrowed while another call has borrowed it mutably; except by the
\* listeners that are told of a poisoning in the middle of update_node.
NeverReborrows ==
    Blocked /\ Head(todo).lock = "structure" =>
        FailedMidway /\ \E i \in DOMAIN todo :
            todo[i].do = "callbacks" /\ todo[i].event = "poisoned"

\* A subscription is dropped with the callback that owns it, in the middle of
\* the drop of the subscription of that callback.
DropWithinDrop ==
    /\ Now("write") /\ Head(todo).lock = "listeners" /\ held["listeners"] = -1
    /\ Len(todo) > 1 /\ todo[2].do = "remove"

\* No operation waits for a lock that it holds itself, in whatever order its
\* guards are dropped, and none leaves a lock behind: what waits for ever has
\* been called by a listener, or is a drop within a drop.
OnlyListenersWait == Blocked => InListener \/ DropWithinDrop

\* Listeners that are told of an update and read the cached tree, as those of
\* the README do, see the tree of the document as it is.
ListenersSeeTheNewTree ==
    Now("callback") /\ Head(todo).event = "updated" => tree.missed = {}

\* A listener is not called once its subscription has been dropped, also when
\* another listener drops it.
CalledIsSubscribed == Now("callback") => Head(todo).to \in subs.listeners

\* Between calls the observer is enabled again, unless update_node gave up and
\* poisoned the tree; and an open tree shows the document: what it does not
\* show are at most its own repairs, which the observer is not told of.
QuietMeansCurrent ==
    todo = <<>> =>
        /\ \A o \in Objects : disabled[o] => poisoned[o]
        /\ ~ poisoned["tree"] => tree.missed \subseteq {"repairs"}
=============================================================================
