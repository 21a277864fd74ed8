# Verification of yrs_tree

`yrs_tree` is a tree CRDT stored in a Yrs document. This directory holds TLA+
models of it, the TLC configurations that check them, and theorems that TLAPS
proves about them.

## The system

Each node has a *container* in a Yrs map: an edge map `em`, which records for
every parent the node ever had the value of that edge, and a fractional index
`fi`. The parent of a node is its greatest edge. Concurrent moves can merge into
a cycle, which every client breaks by itself, by moving nodes of the cycle back
to earlier parents.

| part | state | operations |
|---|---|---|
| `EdgeMap` (`tree_structure.rs:13-44`) | parent → edge value, a `HashMap` | `max_edge`, `edges_desc`, `add_edge` |
| `TreeStructure` (`tree_structure.rs`) | `nodes` (parent, children, edge map, index), `pending_edge_map_updates` | `init_from_yjs` (collect, parents, reattach, order), `can_reach`, `update_node`, `delete_nodes`, `apply_pending_edge_map_updates` |
| `Tree` (`tree.rs`) | document, cached structure, poisoning, `yjs_observer_disabled` | `new`, `update_node`, `delete_node(s)`, the observer of the map, data access |
| `Node` / `NodeApi` (`node.rs`) | an id and its tree | create, `move_to`, `move_before`, `move_after`, `delete`, queries |
| `TreeIter` (`iter.rs`) | a snapshot of the structure, a queue or the last node | `next`, depth-first and breadth-first |
| `TreeObserver`, `Subscription` (`events.rs`) | listeners behind a lock | `subscribe`, `notify`, drop |
| the Yrs map (external) | the containers, a log of items per key | insert, remove, merge of updates |

How they interact: an operation of a `Node` calls its `Tree`, which first writes
the pending repairs to the document (with the observer disabled), then makes its
own change in a second transaction. When a transaction ends, Yrs calls the
observer, which rebuilds the whole `TreeStructure` from the map and either
notifies the listeners or poisons the tree. A remote update takes the same path.
Nothing but the document is shared between clients.

What is hard here:

- merges of concurrent moves that form cycles, edges that tie, nodes whose parent
  was deleted at the same time;
- the loop of `reattach_nodes`, which works on a set that is out of date after
  each iteration;
- repairs that are cached but not yet in the document, and are still pending when
  the next update comes or the tree is opened anew;
- operations made of several transactions, with a rebuild after each (`delete`
  with `Promote`), and lists read before the first of them;
- a rebuild that fails half way, after it has cleared the cached tree;
- callbacks that run while locks are held: a commit calls the observer, which
  calls the listeners, which call the tree again, all within one operation;
- an iterator without a stack, which finds its way back through the siblings.

What makes each part correct: `max_edge` and `add_edge` agree that a new edge
wins; `can_reach` tells the nodes that lead to the root and ends; a rebuild ends
with a tree, moves only nodes that were on or below a cycle and leaves repairs
that reproduce that tree; clients that have the same updates show the same tree;
an operation does what it says and nothing else; an iteration comes to every node
once and ends; no operation waits for a lock of its own or leaves the observer
disabled, and listeners see the tree of the document they are told of.

`PROJECT.json` lists the hazards with their lines and the properties for each.

## Modules

| module | models | notes |
|---|---|---|
| `Hierarchy` | ids, edge maps, `Attached`, `Subtree` | pure operators; `Ids` is any finite set of positive naturals |
| `CanReach` | `can_reach`, one action per loop iteration | shows that the answer is the operator `Attached` that other modules use |
| `RootedTree` | what a rebuild promises | abstract: any tree of recorded parents that keeps the greatest edges where they lead to the root; failure only where they make no tree. `TreeStructure` implements it |
| `TreeStructure` | `init_from_yjs` with the loop of `reattach_nodes`, `apply_pending_edge_map_updates` | one action per function and per iteration; extends `Rebuild` for what both have, and to say that the loop ends as `Rebuilds` does |
| `Rebuild` | `init_from_yjs` as the set of its outcomes | for modules in which a rebuild is part of a larger step |
| `YrsMap` | external: the Yrs map | an item per key, named by the path of clients that wrote it; removal; merge |
| `Tree` | clients with a tree over a document each, which exchange updates | the operations of `Tree` and `Node`, the observer, poisoning |
| `Traversal` | `TreeIter::new` and `next` in both orders | an action per way through `next`; an iteration of the climb is a step |
| `Display` | the loop of `Display for Tree` | extends `Traversal`: draws what the iteration answers |
| `Calls` | the locks and borrows of all operations, the observer, `TreeObserver`, `Subscription`, node data | one thread, calls nested through listeners |
| `HierarchyProofs`, `CanReachProofs`, `TreeStructureProofs`, `RebuildProofs`, `TreeProofs`, `OperationProofs`, `TraversalProofs`, `CallsProofs` | | theorems |
| `MCCanReach`, `MCTreeStructure`, `MCTree`, `MCTraversal`, `MCCalls` | | instances for TLC |

### State and actions

`TreeStructure`: `doc` is the Yrs map as `collect_node_containers` reads it;
`parent`, `edges` and `children` are the fields of `nodes`, whose key set is the
domain of `parent`; `detached` is `non_attached_nodes`; `pending` is
`pending_edge_map_updates`; `phase` says where `init_from_yjs` is, or how it
ended. `ApplyYjsUpdate` starts a build of any document, `ProcessParents(Fails)`
is `process_parent_relationships`, `SkipAttached`, `Reattach` and
`ReattachFails` are the three ways through an iteration of `reattach_nodes`,
`UpdateChildrenOrder` and `UpdateChildrenPanics` are `update_children_order`.
`unwrap` of `None` is the phase `"panicked"`. `carried` is a history variable: how
many pending updates are older than the build.

`RootedTree` has the document, the `tree` that readers see and a `mode`. The
refinement mapping is in `TreeStructure`: `Shown` is `parent` when a build has
ended well and no tree otherwise, `Mode` forgets where the loop is. A document
changes (`Change`), then either a tree that it `IsShownAs` is shown (`Show`) or the
build fails, which only `MayFail` allows (`Fail`); the repairs are written behind
the tree that is shown (`Persist`), or cannot be (`Lose`).

`CanReach`: `tortoise`, `hare` and `answer` are the locals and the result of
`can_reach`. An iteration of its `while` is one of `HareArrives`, `HareFalls` and
`Hop`.

`Tree`: each client has a record with its document, the cached `parent`, `edges`
and `children`, `pending`, the nodes it has handles of, and its `status`: open,
poisoned, or stopped when a panic went through the caller or `Tree::new` failed.
`stale` and `fresh` are history: how many of the pending updates predate the last
build, and whether the last build was of the document as it is. `commits` are the
states of the document that others may get. An operation is one action:
`CreateChild`, `MoveTo`, `MoveRelative`, `DeletePromote`, `DeleteCascade`,
`Reopen`. It contains all the transactions of the operation and the rebuild after
each, because a `Tree` holds `Cell`s and is not `Sync`, so no remote update is
applied in between by another thread. `Receive` is a remote update: any state that another client
committed, in any order, again or never.

`Traversal`: `snap` is the copy of the structure, `queue` and `last` are the fields
`queue` and `last_node`, `current` is the local of the loop that climbs. `yielded`
is history. `Begin`, `ToFirstChild`, `ToNextSibling` and `PopFront` answer a node;
`ToClimb` and `ToParent` are the entry and the iterations of the loop;
`NothingQueued`, `StartMissing` and `BackAtStart` answer `None`. A start is any
node, as handles outlive their nodes. Snapshots are the trees that builds leave
and the ruins that failed builds leave: no children and any parents. `Display`
adds `last_depth` and `is_last_at_depth`; where it draws, each answer of `next` is
an iteration of its loop.

`Calls`: `todo` is the stack of the thread, written out as the instructions that
remain: locks taken and freed, transactions committed, and the bodies in between,
each an action (`Repairs`, `WriteRepairs`, `Modify`, `Put`, `Look`, `Build`,
`Poison` ..). The lists `Entry`, `Place` and `End` follow the order in which the
functions take their guards and, at the end of their scopes, drop them. `held` says
who reads or writes each lock; `Blocked` is a thread that waits for itself or
panics in the `RefCell`. `disabled` and `poisoned` are fields of a `Tree` and, with
`#[derive(Clone)]`, of each clone. `tree` keeps of the structure whether repairs
are pending and, as history, what of the document it does not show; `doc` keeps
what the open transaction has changed and what is of a type that it should not be;
`subs` is the `TreeObserver`. A listener returns or makes any call; when it is
removed, its callback may own another subscription, which is then dropped. A
`stopped` thread has panicked on an `unwrap`.

The Yrs map is modelled by what the code relies on. Two documents that have
different items at a key keep the one that is last in the list of items, where an
item comes after the one its writer saw and concurrent ones are ordered by client.
A removed container is gone with all it held, whatever is written to it elsewhere.

Some choices of the code are left open in the models on purpose: of several edges
with the greatest value `max_edge` and `edges_desc` may answer any, because they
go through a `HashMap`; so is the order in which containers get their parents
before `process_parent_relationships` fails.

## Runs

| run | instance | checks |
|---|---|---|
| `rebuild` | every document of up to 3 nodes, up to 2 edges each with values 0 and 1 | `TypeOK`, `BuiltIsRooted`, `SettledNodesAttached`, `RepairWillPersist`, `RepairOnlyAttaches`, `EndsAsRebuild`, `ShowsARootedTree` (refinement) |
| `rebuild_again` | every two documents of up to 2 nodes one after the other | `RepairWillPersist`, `BuildEnds`, `EndsAsRebuild`, `ShowsARootedTree` |
| `can_reach` | every parent function of up to 5 ids, with missing parents | `TypeOK`, `AnswerIsRight`, `SearchProgresses`, `SearchEnds` |
| `clients` | 2 clients, 2 nodes, 3 operations of every kind | `TypeOK`, `OpenTreeIsATree`, `CacheFollowsTheDocument`, `TieFreeTreesConverge`, `PlaceIsExact`, `PromoteKeepsOrder`, `CascadeIsExact` |
| `alone` | 1 client, 3 nodes, 4 operations (no moves to another parent but by `create`, no reopening) | `PlaceIsExact`, `MovesBeside`, `PromoteKeepsOrder`, `CascadeIsExact` |
| `traversal` | every tree of up to 4 nodes with its siblings in every order, every ruin of 2 nodes, every start, both orders | `TypeOK`, `VisitsTheSubtree`, `AnswersInOrder`, `NeverLost`, `InOrder`, `DrawsTheTree`, `IterationProgresses`, `Ends` |
| `calls` | 5 calls, up to 3 listeners, notifications within notifications up to 2 deep | `TypeOK`, `NeverReborrows`, `OnlyListenersWait`, `ListenersSeeTheNewTree`, `CalledIsSubscribed`, `QuietMeansCurrent` |

Why the bounds are enough. Three nodes give cycles of length one, two and three,
nodes below a cycle, a node below a node that is reattached first, and ids that
sort either way along a cycle. Two edges per node are what one move makes; a
repair adds a value or raises one. Two values give ties. Two builds are what it
takes for a pending update to outlive its build. Five ids in `can_reach` make a
tail of two nodes before a cycle of three, so that tortoise and hare meet after
several rounds. Two clients and two nodes make the concurrent moves that form a
cycle, the concurrent moves of one node that tie, and a deletion concurrent with
a move below the node; the third operation acts on the merged and repaired tree.
`alone` has the chains of three and the sibling order that two nodes do not have.
Creating an id that exists moves the node, so `create` also makes cycles.
Four nodes below the root make every shape that the climb of `traversal` can tell
apart: siblings before, between and after a subtree two deep, and a climb over
two levels; `Display` jumps from depth three to depth one. In `calls`, `MaxCalls`
of 5 is an external change that leaves repairs pending, another that breaks a
container or the data, and three operations after them; `MaxSubscribed` of 3 is a
listener that is told while another is dropped and a third subscribes;
`MaxNesting` of 2 is a notification from within a notification within an
operation. `Breakable` are the two ways in which other writers break a type.

`CHECK_DEADLOCK FALSE` is in the runs of `TreeStructure` and `Tree`, which stop at
the bounds `MaxUpdates` and `MaxOps` and where a client has stopped, and in those
of `Calls`, where a thread that waits for itself is what `Blocked` is about. In
`CanReach` and `Traversal` deadlock is checked.

Fairness. `TreeStructure` assumes weak fairness of `InitFromYjs` and `CanReach` of
its `Next`: both are loops in one thread that nothing interrupts. `Traversal` and
`Display` assume it of their `Next`: the loops of the library that use the
iterator (`collect` in `delete_node`, `fmt`) call `next` until it answers `None`. Updates are not
fair: there need not be another one. `Tree` has no fairness, because neither the
operations of an application nor the delivery of updates is the library's to
promise; convergence is stated on the sets of updates seen.

### Where the code and its documentation differ

Each of these runs checks one sentence of the documentation and finds a behaviour
of the code against it. `PROJECT.json` has the quotes.

| run | behaviour |
|---|---|
| `converging` | Two clients move one node to different parents. Both new edges have the same value, and each rebuild picks either. |
| `stale_repair` | A repair is pending; a remote update gives the node a newer edge; the next operation on any node writes the old repair over it, and the node moves. |
| `deleting` | Node 2 is placed under 1 and 1 under 2; the cycle is repaired, but in the cached tree only. Deleting 2 makes 1 fall back to the recorded edge to 2, which is gone: a panic in the observer. |
| `gives_up` | Node 1 has only been under 2, node 2 under the root and itself. Node 1 is looked at first, has no attached parent, and the tree is poisoned, though 2 can go back to the root. |
| `clone` | A clone writes pending repairs with its own copy of the observer flag set; the observer looks at the flag of the original and borrows the structure that the clone has borrowed. |

Other ones were read in the code and have no run. `move_before` gives a node the
index of the one it is moved before, so with a greater id it lands after it
(`src/node.rs:113`, `tree_structure.rs:366`; `MovesBeside` says what does hold).
On a poisoned tree `move_before` unwraps a missing position instead of failing with
`TreePoisoned` (`src/node.rs:250`), and `get_as` does not look at the poisoning at
all (`src/tree.rs:321`). After a build that failed, `ancestors()` and `depth()` of
a node on a cycle do not return (`src/node.rs:391`). When `update_node` meets an
entry that is not a container while it writes repairs, it poisons the tree with
the structure still borrowed, so a listener that then reads the tree panics, and
leaves the observer disabled (`src/tree.rs:173`); `NeverReborrows` and
`QuietMeansCurrent` name this case. "When dropped, the subscription is automatically
cancelled" (`src/events.rs:25`), but the callback goes with it while the listeners
are still written (`src/events.rs:71`): a callback that owns another subscription
drops it there, which waits for ever. `Remove` has this drop in it, and
`OnlyListenersWait` names it (`DropWithinDrop`) as the one wait outside of listeners.

These disagreements are also why some properties have the hypotheses they have:
`TieFree` (no two edges of a node have one value), `stale = 0` (no pending repairs
from earlier builds) and, for the deletions, `pending = <<>>`. Where they fail,
the runs above show what happens instead.

`fresh` excludes one more case from convergence and from what operations promise:
`move_to` on a handle of the root writes the pending repairs, then fails with
`BadYrsDoc`, and the cached tree is not rebuilt. `CacheFollowsTheDocument` holds there
too: what was pending is then in the document, so that the cached edges are still
those of the document with what is pending.

## Proofs

For every finite set of ids, every set of edge maps, any number of clients, of
updates and of calls:

| theorem | says |
|---|---|
| `AddEdgeIsUniqueMax` | after `add_edge` the added parent is the only greatest edge |
| `CanReachIsRight` | `can_reach` answers whether the node leads to the root |
| `SearchAlwaysProgresses` | `Spec => SearchProgresses`: each iteration but the last brings the search nearer to its end |
| `CanReachTypeCorrect` | `Spec => []TypeOK` of `CanReach` |
| `TypeCorrect` | `Spec => []TypeOK` of `TreeStructure` |
| `BuiltAlwaysRooted` | a build that ends without error leaves a tree |
| `SettledAlwaysAttached` | the loop invariant of `reattach_nodes` |
| `RepairAlwaysOnlyAttaches` | breaking cycles moves no node that leads to the root |
| `RepairsAlwaysPersist` | the repairs left pending make the document give every node the parent shown |
| `RebuildImplementsRootedTree` | `Spec => ShowsARootedTree`: the loop implements `RootedTree` |
| `BuildsEndAsRebuild` | `Spec => EndsAsRebuild`: the loop, one iteration at a time, ends as the one-step `Rebuilds` may |
| `BuildsAlwaysProgress` | with each step of a build but the last there is less to be done |
| `BuildsNeverStuck` | in every state of a build there is a way on |
| `RebuildIsATree` | whatever `Rebuild` answers for a document is, unless it is a failure, a tree; the children of a node are, once each, those that have it as parent |
| `TieFreeRebuild` | without ties a rebuild has one outcome, whatever was pending and however many cycles it breaks |
| `TreeTypeCorrect` | `Spec => []TypeOK` of `Tree` |
| `OpenTreeAlwaysATree` | a client's open tree is a tree of exactly the nodes of its document |
| `CacheAlwaysFollows` | `Spec => []CacheFollowsTheDocument`: an open tree has its children in the order of the document and greatest cached edges as parents; its cached edges are those of the document and the pending repairs, if none of these predates the last build |
| `TieFreeTreesAlwaysConverge` | `Spec => []TieFreeTreesConverge`: who has seen the same updates has the same document and, without ties, the same tree |
| `UpdatesAlwaysCommute` | what clients may get of each other merges to the same document in any order, in any groups, once or repeatedly |
| `PlacingIsExact` | `Spec => PlaceIsExact`: creating and moving without a cycle, on a tree that is `Plain` (open, rebuilt, no ties, no repairs from before the last build) |
| `MovingIsExact` | `Spec => MovesBeside`: moving a node to before or after another, on a tree that is `Plain` and has no siblings of one index |
| `PromotingKeepsOrder` | `Spec => PromoteKeepsOrder`: deleting a node whose children stay, on a tree that is `Plain` with nothing pending |
| `CascadingIsExact` | `Spec => CascadeIsExact`: deleting a node and its descendants, on a tree that is `Plain` with nothing pending |
| `TraversalTypeCorrect` | `Spec => []TypeOK` of `Traversal` |
| `AlwaysVisitsTheSubtree` | `Spec => []VisitsTheSubtree`: both orders answer the start and its descendants, each once |
| `AlwaysAnswersInOrder` | `Spec => []AnswersInOrder`: a node before its descendants and these before its next sibling, or level by level |
| `ClimbsAreNeverLost` | `Spec => []NeverLost`: no lookup on the way up fails |
| `IterationAlwaysProgresses` | `Spec => IterationProgresses`: each step but the last leaves less before the iteration |
| `AlwaysDrawsTheTree` | `DisplaySpec => []DrawsTheTree`: the lines in front of each node are those of its ancestors |
| `CallsTypeCorrect` | `Spec => []TypeOK` of `Calls` |
| `StructureNeverReborrowed` | `Spec => []NeverReborrows`, of a tree that is not cloned, as are the following |
| `OperationsNeverWait` | `Spec => []OnlyListenersWait`: no operation waits for a lock of its own, but for a drop within a drop |
| `ListenersAreUpToDate` | `Spec => []ListenersSeeTheNewTree` |
| `OnlySubscribersCalled` | `Spec => []CalledIsSubscribed` |
| `QuietTreesAreCurrent` | `Spec => []QuietMeansCurrent` |

The assumptions are those of the modules: ids are a finite set of positive
naturals, `EdgeMaps` holds edge maps, `Indices` naturals, `Snapshots` holds trees
and ruins, and the bounds are naturals (`MaxSubscribed` a positive one, because the
initial state of `Calls` has a subscription). The theorems of `CallsProofs` have one
hypothesis more, `Objects = {"tree"}`: with a clone `NeverReborrows` is false, which
the run `clone` shows.

The argument for `TreeStructure`. `BuiltIsRooted` is not inductive: it says
nothing during the loop. The invariant is `TypeOK /\ BuiltIsRooted /\
SettledNodesAttached`; the last part says that every node present is still in
`detached` or leads to the root, unless a node already hangs from an id without a
container. An iteration keeps it by `ReparentDetached` (`HierarchyProofs`):
giving a node that does not lead to the root a new parent leaves all that do
attached, and attaches the node if the parent is attached. The parent that
`Reattach` picks is not in `detached`, so by the invariant it is attached or has
no container, which is the excuse. When `detached` is empty either all nodes are
attached, or `UpdateChildrenOrder` is not enabled and the build panics.
`RepairOnlyAttaches` follows from the same lemma.

`RepairWillPersist` needs `RepairInv`: in the loop, and for builds without older
pending updates, the cached edge map of every node is the one of the document with
the pending updates written (`Written`). `WrittenAppend` says that one more pending
update changes one edge of one map, which is what `AddEdge` does to the cached one,
and by `AddEdgeIsUniqueMax` the new edge is the only greatest one. Writing the
updates makes the document equal to the cache (`WrittenNothing`).

The refinement needs `RefinementInv`: during the loop, the parents of the cached
edge maps are the recorded ones, and there is a choice `g` of greatest edges that
the tree follows wherever `g` leads to the root. The code draws `g` once and
does not keep it, so it is an existential, with `parent'` of `ProcessParents` as
its first witness. A build that fails has a node that is not attached; were
`g` a tree, every node would be, so `MayFail` holds. A build that ends shows a tree
because of `BuiltIsRooted`.

That a build ends is a matter of a measure and of a way on. The measure
(`BuildsAlwaysProgress`) is the number of detached nodes, and before they are known
one more than there are nodes. There is a way on (`CanGoOn`) because every
edge map that is not empty has a greatest edge, and so has, unless it is empty,
the set of those that lead out of `detached` (`MaxEdgesOutsideNonEmpty`).

`EndsAsRebuild` needs `BuildInv`: the state of the loop is, for some way in which
the one-step rebuild starts, among those that its recursion has after as many
iterations as nodes have left `detached` (`ReachedIn`). `IterationSettles` is the
step: each of `SkipAttached`, `Reattach` and `ReattachFails` takes the record `Now` of
the loop's variables to one of `Settle(Now)`. That the recursion exists at all is
`ReattachedIsLast`; a build that gave up stays what it is for the iterations that
the recursion has left (`ReachedLast`). So the theorems on `Rebuilds`, and on `Tree`,
which uses it, are about the loop of the code.

The argument for `Rebuild` and `Tree`. `Rebuilds` is what TreeStructure's loop does
in one step, so that `RebuildIsATree` needs an induction of its own: over the
iterations, whose number is that of the detached nodes. `BoundedInduction` and
`BoundedRecursion` (`HierarchyProofs`) are what takes the place of the library's
theorems with operator parameters: from the least number at which a claim would
fail, and of functions on `0 .. k`. The loop invariant is `Settled`, the same as
`SettledNodesAttached`; `SortedChildrenFacts` says that the sorted children of a
node are, once each, the nodes that have it as parent.

`OpenTreeIsATree` is not inductive for a client, because an operation is several
transactions and a rebuild sees the document of the last. `GoodStates` are the
states of a client in which the nodes of the cache are those of the document and,
while the tree is open, form a tree that `FollowsTheDocument`. `ObservedGood` says that a rebuild of any state
leaves a good one, by `RebuildIsATree` and `RebuildRecords`; the rest is that every
operation leaves a document with well-formed entries (`EdgeWrittenType`,
`PlacedType`, `MergeType`), and that the transaction which is not observed, that of
the pending repairs, adds and removes no container and makes the document's edges
the cached ones (`WritePendingGood`).
`RebuildRecords` is where the loop of repairs is gone through: each iteration
changes the cached edges and the pending updates alike (`Recorded`).

The argument for convergence has two parts. `TieFreeRebuild`: two rebuilds of one
document without ties go through states that are `Alike` in all but the pending
updates, since a node that is still detached has the edges that the document has
and one of these is the greatest outside the set (`OneMaxEdgeOutside`). That
clients which have seen the same have the same document is not inductive. A
document says how many transactions of each client it has, not which items, so the
invariant `Agrees` relates it to the commits of the clients. Documents are ordered
by `DocWithin`: at each key the one has the item of the other or an earlier one, in
the order of paths, and what is removed stays so. `IsAfter` is a strict total order
(`AfterIsTotal`, `AfterIsTransitive`), so this is a partial order
(`EntryWithinAntisymmetric`), and the merge of two documents is the least that
both are within (`MergeIsWithin`, `MergeIsLeast`). The invariant is then that the
commits of a client are in a row (`CommitsFollow`) and that every document is the
least that has, for each client, the commit it has seen last (`MadeOfCommits`): two
documents that have seen the same are within each other. `MergeIsWithin` holds only
where one path names one item, which a transaction keeps because the path of what it
inserts ends in its client and is after all there is of that client anywhere
(`ItemsAgree`, `GrownIsNew`). `CommitAgrees` and `ReceiveAgrees` are the two steps;
that an operation is a series of the first is `UpdateNodeMembers`,
`DeleteNodesMembers` and, again by `PromoteLoop`, `PromoteMembers`. TLC checked the
invariant with two clients, two nodes and three operations before it was proved.

`UpdatesAlwaysCommute` is about the merges themselves. By `MergeIsAJoin` the merge of
two documents of which each path names one item is their least upper bound in
`DocWithin`, and so idempotent, commutative and associative; `Agrees` says that the
documents which clients have, and had after each transaction, are of that kind.

The argument for the operations. What they promise is proved of `PlainStates`, the
good states that `Plain` describes. There the cached edges are those of the
document with the pending updates written, so writing these makes the document's
greatest edges the parents that the tree shows, and the edge of the operation
exceeds them (`UpdateNodeIsExact`). The document is then that of a tree,
because the place is not below the node (`PlacingKeepsRooted`), and the rebuild of
such a document is exact: nothing is detached and nothing becomes pending
(`RebuildOfATree`, `ObservedTree`). Deleting a closed set of nodes is the same with
`PruningKeepsRooted`. The order of siblings is that of sorted sequences, which
`SortedIsUnique` says are determined by their items: `UpdateNodeAppends` for the
last place, `PromotedChildren` for the children of a parent whose child is
promoted. For a move beside a node `SortedPositions` relates the places of two items
to their indices, and `UpdateNodeBeside` does so before and after the rebuild.
The loop of `Promote` keeps to `MovedStates`, which says for each number
of iterations which children have moved, that their indices increase, and that the
state is plain again (`UpdateNodeKeepsPlain`: a new edge above all others ties with
none); `PromoteLoop` is the induction.

The argument for `Traversal`. What is visited and in which order is one invariant
for each order. `Precedes(m, n)` says that `n` is below `m` or that they are in the
subtrees of an earlier and a later sibling; `BelowNotBefore` shows that it is
irreflexive, from which it follows that nothing is answered twice. Depth first
(`DepthInv`), what has been answered is on the way down the last node and what
precedes it, and on the way up what precedes the node that the climb has come to
and all below that. `PrecedesChild` says what precedes a child: its parent, what
precedes the parent, and the subtrees of the siblings before it. With it, each way
through `next` answers a node when exactly what precedes it has been answered
(`EarlierThanFirstChild`, `EarlierThanSibling`, `EarlierThanParent`), and when the
climb is back at the start, that is its whole subtree. Breadth first, `BreadthInv`
says that the children of every answered node have been answered or are queued, so
that at the end the answered nodes are a set that holds the start and the children
of what it holds; `Subtree` is the least such set. `LevelInv` is about the order:
the answers followed by the queue are ordered, and the parents of what is queued
have been answered. The children that are appended come after all of it, since a
child is one deeper than its parent (`DepthOfChild`) and the children of two nodes
of a level are in the order of these (`ChildrenOfALevel`).

`InOrder` says the same by two recursive functions, and of ruins as well. TLC checks
both, so that the definitions that the proofs use are compared with the ones that a
reader expects.

`NeverLost` follows from `DepthInv`: what a climb has come to is below the start, so
it has a parent that is present, whose children in a tree are all the nodes that
have it as parent. In a ruin nothing has children, and the climb begins at the
start; `LoneInv` says so. `IterationProgresses` has as its measure twice the number of
nodes not answered, plus the depth of where the iteration is. An answer takes two
off and may go one deeper, a step of the climb goes one up, and entering the climb
takes the remaining one off. Both halves need what is proved before: that an
answer is new is `VisitsTheSubtree`, that a node is one deeper than its parent holds
of trees only.

The argument for `Display`. `DrawsTheTree` is inductive with `last_depth` and the
vector before the first line (`DrawInv`), given what the iteration does between two
lines (`NextAnswer`): the next node is a child of the last one or of a node above it.
It is then at most one deeper, so that one entry is added or some are cut off, and
the nodes above it, but for itself, were above the last one or were it: their entries
are still there (`AdjustedFacts`, `DrawKeeps`).

The argument for `CanReach`. The invariant says that the hare is above the
tortoise (reached from it by one or more parents) and that the start is attached
exactly when the hare is. Where they meet, the tortoise is above itself
(`CycleNotAttached`): the nodes above it are closed under parents without the
root, so their complement is closed, contains the root, and the tortoise is not
attached. "Above" is stated by closed sets rather than by recursion, as `Attached`
is, so that no induction over data is needed.

`SearchProgresses` has as its measure the number of nodes on the way of the tortoise
to the root or around its cycle, and of those from the hare on to the tortoise.
Either the tortoise leaves a node behind that it does not come back to, and the lead
does not grow; or it is on a cycle, where the hare is too (`CycleComesBack`), leaves
two nodes behind (`UpwardLeaves`) and the tortoise moves away by one. `HopProgresses`
puts the two together. The way up is again the least closed set (`Upward`), stopped at
the tortoise. The invariant says besides that tortoise and hare are at one place
only at a node that is its own parent; elsewhere the search has ended.

The argument for `Calls`. What a thread has yet to do is a list of any length, put
together from the lists of the functions and of the calls that listeners make, so
that no property of it is inductive without a description of such lists. The
invariant, `CallsInv`, annotates the list with a proof outline: a note before every
instruction and one at the end, each of which says what the thread holds there,
where in `update_node` it is, whether the observer has yet to see a change, and
what the listeners on the stack have been told. `Valid` relates an instruction to
the notes on its two sides, the first note describes the state (`Holds`), and the
last one is that nothing is held. An action replaces the first instruction by a
list that leads from its first note to its second: there is a lemma for each list
(`EndOutlined`, `PlaceOutlined`, `EntryOutlined` ..), `Push` and `Pop` put lists and
outlines together, and one lemma for each action. Calls may be made only at notes
that are `Calm`: nothing is held, or listeners are being told. Notes depend on who
listens, on whether the tree is poisoned and on whether `update_node` gave up; by
`OtherContext` those below stay valid when these change. The dead note is that of a
thread that waits for itself, whose list says nothing any more. A drop within a drop
has no outline, since an outline ends with nothing held and this thread holds the
listeners; it is a disjunct of its own, `Stuck`, that no action leads out of
(`StuckNext`). TLC checked the
invariant on the instance with three calls, two subscriptions and one nested
notification before it was proved.

Only model-checked: `InOrder`, which is stated by recursive functions
(`AnswersInOrder` is proved); and the liveness properties `BuildEnds`, `SearchEnds`
and `Ends`. Of these the part about the code is proved: a measure that is a natural
number and decreases with every step that does not end the loop
(`BuildsAlwaysProgress`, `SearchAlwaysProgresses`, `IterationAlwaysProgresses`), and
of builds that there is a way on (`BuildsNeverStuck`). What is missing is the step
from there to `<>`, which takes `ENABLED` and an induction over the measure, both out
of reach of the prover. TLC checks the properties themselves, with the fairness
above.

## Not modelled

- The values of node data: a map of its own in the container that the tree never
  reads. `Calls` has the locks, the poisoning and the origin that keeps the
  observer from rebuilding.
- `children`, `parent`, `siblings`, `ancestors` and `has_node`, which read a field
  of the cached tree; `OpenTreeIsATree` says what they read. `Calls` has their
  borrow.
- Several threads with one tree: its `Cell`s keep a `Tree` from being shared.
- What a program does that catches a panic: the models stop there.
- Containers whose `em` or `fi` has another type, which read as an empty map and
  the default index; the empty map is covered.
- The length of fractional indices: the n-th index stands for n applications of
  `new_after`. The library calls nothing else.
- `i64` overflow of edge values, which takes 2^63 moves.
- The wording of `Display` and of errors, and the examples.

## Plan

Done: all modules and runs above, the refinement of `RootedTree`, and the theorems
above. What is left to prove is listed under "Only model-checked".
