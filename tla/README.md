# TLA+ models of erhe

erhe is a C++ collection of libraries for 3D programs (`src/erhe/*`) with a scene
and geometry editor built on them (`src/editor`).  This directory holds TLA+
modules of the parts whose correctness depends on long sequences of calls or on
the interleaving of threads, TLC configurations that check them on small
instances, and TLAPS proofs.  Paths below are relative to the repository;
`item.cpp:98` means line 98 of that file at the commit the project was written for.

- [Inventory](#inventory): what the system consists of, what is hard about it
- [Modules](#modules): what each module models and how it corresponds to the code
- [Runs](#runs): what each run checks, the bounds, the fairness
- [What the runs found](#what-the-runs-found)
- [Proofs](#proofs)
- [Not modelled](#not-modelled) and the [plan](#plan)

## Inventory

The editor is one process.  `Editor::tick` (`src/editor/editor.cpp:110`) is its frame
loop: windows (ImGui), then commands bound to keys and mouse, then
`Operation_stack::update`, then physics, messages and rendering.  Nearly all state
belongs to the main thread.  Other threads run geometry jobs (`tf::Executor`), physics
jobs (Jolt), shader compilation with its own GL contexts, and whatever is put on an
`erhe::concurrency` queue.

| component | state | operations | depends on it | what makes it correct |
|---|---|---|---|---|
| item hierarchy, `src/erhe/item/hierarchy.cpp` | `m_parent`, `m_children`, `m_depth` of every item | `set_parent`, `remove`, `recursive_remove`, copy | everything that is in a tree | links agree both ways, depth counts ancestors, no cycle |
| attachments, `src/erhe/scene/node_attachment.cpp`, `mesh.cpp`, `light.cpp`, `camera.cpp` | the node of each mesh, light and camera; the lists of each scene; the ray tracing scene of a mesh | attach, detach, and following the node from host to host | scene graph | listed by the scene of its node, once, and by no other |
| scene graph, `src/erhe/scene/node.cpp`, `scene.cpp` | node's host, `m_flat_node_vector`, `m_nodes_sorted`, `parent_from_node`, cached `world_from_node` | the hierarchy operations overridden, transform setters, `update_node_transforms` | renderers, physics, tools | the vector holds exactly what hangs under the root; hosts follow parents; caches agree with local transforms after an update |
| operations and undo, `src/editor/operations` | `m_queued`, `m_executed`, `m_undone`; positions remembered by each operation | queue, update, undo, redo; execute and undo of each operation | every editing window and tool | undo and redo give back exactly the tree there was; no `ERHE_VERIFY` fails |
| item tree window, operations window, selection, clipboard | `m_selection`, the flag `selected` on items, clipboard contents | click, drop, attach, delete, cut, copy, duplicate, paste | operations (constructed from the present tree, executed later) | never an item below itself; selected items exist; a drop and a deletion do all and only what was asked |
| serial queue, `src/erhe/concurrency/serial_queue.cpp` | deque, counter, stop flag; two mutexes, two condition variables; a thread | enqueue, cancel, wait, destroy | (library API; no user in the repository) | order, nothing lost, `wait` returns when drained and only then |
| thread pool and concurrent queue, `thread_pool.cpp` | lock-free queues by priority, counters, cancel flags | enqueue, wait (which also works), cancel | `editor/task_queue.cpp` | every task runs or is cancelled; no waiting for itself |
| networking, `src/erhe/net` | ring buffers, sockets, packet framing | send, receive, poll, connect | `network_window.cpp`, `net_test.cpp` | bytes neither lost nor invented; packets whole and in order |
| render graph, `src/erhe/rendergraph` | nodes with input and output connectors | connect, disconnect, register, unregister, sort | editor views | both ends of a connection agree; producers execute first |
| commands, `src/erhe/commands` | state of each command, active mouse command | bindings, priorities, tick | all tools | at most one active mouse command |
| GL contexts, `gl_context_provider.cpp` | pool of worker contexts, condition variable | acquire, release | shader and transfer threads | a released context is handed out |
| per-frame buffers, `multi_buffer.cpp`, `buffer_writer.cpp` | slot index, write offset | next frame, begin, write, align | renderers | no write beyond the buffer, or into a slot in use |
| message bus, `message_bus.hpp` | receivers, queued messages | send, queue, update | editor, scene | each message reaches every receiver once, in order |

Interactions: nodes tell their scene when they enter or leave it (callbacks out of
`set_parent`); Jolt tells `Scene_root` when a body wakes or sleeps, which decides whether
the node takes part in updates; windows and commands build operations from the tree and
the selection *before* what is already queued has been executed; operations change the
tree and the selection when the frame loop, undo or redo executes them.

What is hard to test here: long legal call sequences that leave links, hosts, depths and
caches in disagreement; operations constructed in one state and executed or undone in
another; a sorted vector that stays "sorted" when depths change; condition variables with
predicates under different mutexes or without one; threads that run other tasks while they
wait; a byte stream that is cut anywhere, over ring buffers that wrap anywhere; and lists of
plain pointers that must forget what is destroyed.  `PROJECT.json` lists every such place under
`hazards`, with the property that covers it or the reason why none does yet.

## Modules

`Hierarchy.tla` has the tree of items as constant operators on a value `h`, a record of
the functions `parent`, `children` and `depth`.  `SetParent`, `RemoveItem`,
`RecursiveRemove` and `Reposition` compute the tree after one call.  They are closed
forms: `Subtree` is the smallest set that is closed under `children`, and a depth change
moves a whole subtree.  `HierarchyLoops.tla` has the same calls as the recursions and
loops that `hierarchy.cpp` writes, with the early return of `set_depth_recursive` and the
child-by-child `remove`; a run compares the two in every tree it reaches.  A
`set_parent` below oneself is not a tree operation here: `CreatesCycle` is a guard in
`Scene` (a client must not do that) and an outcome in `Operations`.

`Scene.tla` is a state machine of nodes and scenes over `Hierarchy`.

| variable | in the code |
|---|---|
| `tree` | the `Hierarchy` part of all nodes |
| `host` | `node_data.host`; a scene and its `Scene_host` are one here |
| `flat` | `m_flat_node_vector`, in its order |
| `sorted` | `m_nodes_sorted` |
| `local`, `world` | `parent_from_node`, `world_from_node` |
| `active` | nodes with `Item_flags::no_transform_update` (their body is awake) |

The actions are `NodeSetParent`, `NodeRemove`, `NodeRecursiveRemove` (each with the host
changes that `handle_parent_update` passes down the subtree), the two setters of
transforms, `UpdateNodeTransforms`, and the two physics callbacks.  Clients do not move
the root node of a scene; `~Scene` does `recursive_remove` on it, and so may any step
here.  A subtree that comes to a scene is appended to `flat` with every node before its
children, siblings in any order (`Arrivals`).  Transforms are the elements of a cyclic group of
order `M`: the code only composes and inverts them.  The group is commutative, so a wrong order of factors would not show;
with `M = 2` a missing, doubled or stale factor does.

`Operations.tla` has the operations of `src/editor/operations` as functions from an
operation and the editing state `m` (tree, selection, flags, status) to the operation
with what it now remembers, and the next `m`.  A failed `ERHE_VERIFY`, a recursion without
end, a null pointer and an uncaught exception each end the program with a `status`.

`OperationStack.tla` is the state machine of the editor's editing: `m`, the three vectors
`queued`, `executed`, `undone` of `Operation_stack`, the `clipboard`, the clones `made` so
far, and `given`, the number of inputs since the tick began.  An input is one caller: a
click, a drop, the Attach or Delete button, cut, copy, duplicate, paste, undo, redo;
`Update` is `Operation_stack::update`.  In a tick the mouse (ImGui) comes before the keys
and `Update` last, as in `Editor::tick`.  A drop builds its compound operation as
`move_selection` and `attach_selection_to` do; deletion tries every order that `std::sort`
may leave among items of equal depth.  `before` and `after` are history variables, the
trees that undo and redo should give back.

`UndoHistory.tla` is the abstract specification: a line of versions with a present one;
edits extend it and forget what was undone, undo and redo move along it.
`OperationStack` implements it under `past <- before`, `present <- m.tree`,
`future <- after`: since `before` and `after` are recorded when operations are executed
and undone, the refinement says that replaying positions gives back *exactly* the
recorded tree, order of children and depths included.

`SerialQueue.tla` models `Serial_queue` thread by thread.  What is done under
`m_queue_mutex` is one step, because every access to what it guards holds it for the whole
step.  `m_wait_mutex` is held over several steps of a client: taking it, testing the
predicate, falling asleep.  That keeps apart the two moments between which `cancel`, which
does not take that mutex, can act.  `Destroy` is the destructor, which starts when no
other client is inside a call, as C++ requires; tasks may enqueue further tasks
(`TaskEnqueues`), also then.  `enqueued`, `finished`, `cancelled`, `asked`, `waits` are
history.

`SceneAttachments.tla` extends `Scene` with what hangs on nodes: `nodeOf` and `attached` are
the two ends (`m_node`, `node_data.attachments`), `listed`, `rtScene` and `skins` what a scene
knows of its meshes.  `Attach` and `Detach` are `Node_attachment::set_node`; the other actions
are `Scene`'s with the host updates of all attachments in the subtree that moves.  One list
stands for the layers of a scene and for its cameras, since an attachment does not change its
layer.

`ThreadPool.tla` models `Thread_pool`, `Concurrent_queue` and the editor's
`Parallel_task_queue` thread by thread.  Who waits takes and runs tasks, and a task may call
`enqueue` and `wait`, so each thread has a `stack` of frames: the call it is in and its
argument.  Every access to `task_counter`, `cancelled` and `m_stop` and every call of the
lock-free queue is a step; that queue keeps no order between producers and is a set of tasks
per priority here.  `notify_one` belongs to the push before it: it only wakes, and a wakeup
that is lost is what the step `WorkerSleeps` after a failed scan already stands for.
`SleepEnds` is the timeout.  Tasks wait only for queues whose tasks do not wait
(`ThreadPoolAssumption`): `concurrent_queue.hpp:11` allows no dependency between tasks at all,
and with a chain of two waits a thread may pick up, inside a wait, a task that waits for the
queue suspended below it on the same stack, and then spins for ever.

`RingBuffer.tla` has `Ring_buffer` as operators on a record of cells, two offsets and the
flag `full`.  `PacketStream.tla` is the server with its sockets, one client and the stream
between them.  `Server::poll` and `broadcast` loop over sockets: `agenda` holds the calls that
are still to be made, each call of `::send` or `::recv` is one step and moves any number of
cells, and each packet that is taken out of the receive buffer is another.  A packet is a
header of two cells (magic, length) and its payload; a cell knows where it comes from, so that
a cell in the wrong place shows.  `Stop`, `Disconnect`, `ConnectAgain` and `FlushFails` are the
ways in which connections end and begin again.  What the operating system does is external:
it holds at most `PipeSize` cells, accepts connections in order, and loses what is on its way
when one end closes.  `MessageChannel.tla` is the abstract specification: per connection a
sequence of accepted messages of which a prefix has been delivered, until something spoils the
connection; `PacketStream` implements it with `sound` the connections whose buffers no
`end_produce(0)` or `end_consume(0)` has changed (history variable `spoilt`).

`Rendergraph.tla` models the graph and its nodes call by call (one thread).  A connection is
kept in a list at both ends; `Connect` and `ConnectHalfway` are the two outcomes of `connect`
that change anything, `Destroy` is the destructor of a node with the loop of
`unregister_node` over a vector that shrinks under it (`Told`), `SetDepth` the recursion of
`set_depth`, `Taken` the order of `sort`.  `fault` says what ended the program: a recursion
without end, or the use of a node that was destroyed.

`MC*.tla` give the constants their values and hold what only TLC needs.  Definitions
under a comment "Wrong:" are mutants: each replaces the definition below it in one check
and makes one property fail, as evidence that the property says something.

## Runs

| run | instance | checks |
|---|---|---|
| `scene_hosts` | 2 scenes, 3 nodes, 3 meshes of which two share a skin, 1 transform | where meshes are listed (`AttachmentsFollow`), links and depths (`TreeWellFormed`), hosts (`HostOfParent`), `m_flat_node_vector` (`FlatIsReachable`), what puts it out of order while it counts as sorted (`OnlyReparentUnsorts`), the code's own verifications (`HostChecksHold`), closed forms against loops (`ClosedFormsAgree`) |
| `scene_transforms` | 1 scene, 3 nodes, 2 transforms, 1 body | `ReparentKeepsPlace`, `UpdateRefreshes`, `TransformsSettle` |
| `op_drag` | 3 items, 2 operations kept | undo history (`ImplementsHistory`), no failed verification (`VerifyHolds`), no cycle from drops (`NeverBelowItself`), `DroppedTogether`, `DeleteIsExact` |
| `op_copy` | 2 items, 2 clones, 2 operations kept | selection (`SelectionInScene`), what is to be inserted (`InsertedOnce`), undo and redo that come to their end (`UndoReturns`), with cut, copy, paste, duplicate and the Attach button |
| `serial_queue` | 2 clients, 3 tasks, 3 waits | `CounterSound`, `RunsInOrder`, `WaitDrains`, `NothingLeftBehind`; under fairness `WaitEndsUncancelled`, `TasksEnd`, `DestroyEnds` |
| `thread_pool` | 1 worker, 2 clients, 2 queues of which one's tasks may wait for the other, 2 tasks, 3 calls | `TasksAccounted`, `NoUseAfterDestroy`, `WaitDrains`, `CancelDrops`; under fairness `WaitsEnd`, `WakeupsHeal` |
| `packet_stream` | 2 connections, 3 broadcasts of messages of 0, 1, 2 and 5 cells, buffers of 6 and a stream of 3 | `StreamIntact`, `UsesConnectedSockets`, the channel (`ImplementsChannel`); under fairness `MessagesArrive`, `HungUpClientsGo` |
| `rendergraph` | 4 nodes, 6 possible connections under 3 keys, 5 calls of `connect` | `GraphSound`, `FrameInOrder`, `DestroyedAreForgotten`, `DepthsFollow` |
| `scene_stale_order`, `op_attach_cycle`, `op_clone_flag`, `serial_cancel` | as above | one claim of a comment or check in the repository each, which the code does not keep |

An invariant that is a conjunction of named parts is one property of a run: `AttachmentsFollow`,
`CounterSound`, `SelectionInScene`, `TasksAccounted`, `StreamIntact` and `GraphSound` contain the type
invariant of their module, and each has mutants for its other parts.

Bounds, and why they are enough for what they are for:

- *Scenes.* Three nodes make every tree shape up to depth 3, a subtree and a node that move
  independently, and orphaned subtrees beside both scenes (for any number of nodes the
  invariants of this run are proved, but for `ClosedFormsAgree`); three meshes may
  hang on one node or on three, and two of them show what sharing a skin does; two scenes give every pair of
  old and new host (the same, another, none).  Three nodes give a node, its parent and a
  grandparent, and a body on one of them: the shortest chain in which an update can be
  stale.  The space of `Scene` is finite without further bounds.
- *Editing.* `MaxSelected` (2) bounds what clicks select, `MaxHistory` (2) the operations
  queued and executed, `MaxPerTick` (1) the inputs of a tick; clicks stop once the history is
  full, for they could not lead to a new operation.  A compound operation has as many parts
  as items are selected, and a deletion as many as are below them, so order within and
  between operations matters already at these bounds.  With two inputs per tick an undo
  may come between the construction and the execution of an operation, and the operation's
  verification then fails; nothing in the repository says that it cannot, and no run relies on it.  Undo and redo do
  not depend on these bounds: `ImplementsHistory`, `UndoReturns` and `InsertedOnce` are proved
  for all of them, the other properties for all items and all bounds but that of one input per tick.
- *Serial queue.* `MaxTasks` (3) tasks and `MaxWaits` (3) calls of `wait`: one task in hand,
  one queued and one enqueued by a task, two clients of which both may wait, and the wait of
  the destructor.
- *Thread pool.* Two tasks (`MaxTasks`) and three calls of `wait`, `cancel` or `steal`
  (`MaxCalls`) by two clients and by tasks: a task that is in the lock-free queue and one in hand,
  a wait inside a task inside a wait, two cancellations that overlap, and a destructor while both
  are going on.  One worker is the hardest case for `WaitsEnd`.
- *Packets.* Buffers of 6 cells hold a packet of each length up to 4 and half of the next, a packet of 7
  cells never fits, and the stream of 3 takes less than any packet; three broadcasts wrap both
  buffers.  Two connections are one that ends and the one after it, with a closed socket still in
  `m_clients` between them.
- *Render graph.* The editor's wiring of one viewport (the comment in `MCRendergraph` has the
  places): a node with three consumers under a key, two sinks that ask for the same single output,
  and a cycle.  `MaxConnects` (5) allows the cycle and one connection beside it.

`CHECK_DEADLOCK FALSE` stands where the system may stop: an editor that has ended or used up
its bounds, and a queue that was destroyed or has no callers left.

Fairness.  `Scene!FairSpec` assumes that every scene is updated again and again, as
`Editor_scenes` and the viewports do each frame (`src/editor/editor_scenes.cpp:83-93`,
`viewport_scene_view.cpp:148`).  `SerialQueue!FairSpec` assumes that the worker, each waiting
client and a destructor under way go on when they can (weak fairness, what an operating
system's scheduler gives), and that tasks end.  No fairness of a mutex is assumed, and no
client has to call anything.  `ThreadPool!FairSpec` assumes the same of the pool's threads and of
clients inside a call, that tasks end, and that the timed sleep does.
`PacketStream!FairSpec` assumes that both ends are polled again and again, as
`network_window.cpp` does in every frame, and that a loop over sockets goes on.  The other
specifications are safety only.

`ImplementsHistory` refines stuttering-insensitively: an edit of the abstract line is any
number of operations executed by one `Update`, while inputs that only queue or select are
stuttering.

## What the runs found

1. `scene_stale_order`: `m_nodes_sorted` is cleared only when a node is registered.  After a
   `set_parent` within a scene a child may stand before its new parent in the vector, and
   `update_node_transforms` computes the child's world transform from the parent's of the
   frame before (`node.hpp:29` says the cached one is calculated by the update).
   `TransformsSettle` bounds the damage: when nothing else changes, later updates repair it.
2. `op_attach_cycle`: the Attach button (`windows/operations.cpp:212`) does not ask whether the
   second node is below the first, the item tree window does (`item_tree_window.cpp:204`,
   `:284`).  Attaching a node to its descendant makes `set_depth_recursive` recurse without end.
3. `op_clone_flag`: copying an item copies the flag `selected` (`item.cpp:98`), which
   `Selection::sanity_check` (`selection_tool.cpp:808`) reports as an error.
4. `serial_cancel`: `Serial_queue::cancel` empties the queue without waking those who wait for
   it to be empty; `wait()` then does not return until another task is run to its end.

The models show more that no text of the repository contradicts, or that a run excepts:

- A packet that wraps around the end of the receive buffer ends the program: `rotate()`
  (`ring_buffer.cpp:67`) moves the bytes but leaves both offsets, so the second look at the
  buffer finds the packet wrapped as before and the `ERHE_VERIFY` of `socket.cpp:399` fails
  ("Rotate so that it won't", says the comment at 390).  `WrapRefused` in the model; buffers of
  4 MB make it rare.
- `end_produce(0)` on an empty buffer makes it full, `end_consume(0)` on a full one empties it
  (`ring_buffer.cpp:128`, `:173`).  `send()` of a message that never fits, a blocked `::send` with a
  full buffer, and a `::recv` that finds nothing each do that (`socket.cpp:303`, `:262`, `:357`).
- A message of length 0 stops the stream behind it (`socket.cpp:376`).
- `DestroyedAreForgotten` needs its condition of at most two partners under a key: with three the
  loop at `rendergraph.cpp:191` or `:198` passes one over, which keeps a dangling pointer.  Neither
  is a half made connection forgotten.
- A skin shared by several meshes leaves the scene with the first of them (`scene.cpp:447`); two
  `cancel()` that overlap end with the first (`thread_pool.cpp:157`).

## Proofs

### Serial queue

`SerialQueueProofs.tla` proves, for any set of clients and any bounds, these theorems about
`SerialQueue` (all leaves checked by tlapm; the only assumption is
`SerialQueueAssumption`: the owner is a client and the bounds are natural numbers).

| theorem | states |
|---|---|
| `CounterCorrect` | `Spec => []CounterSound` |
| `OrderKept` | `Spec => []RunsInOrder` |
| `NoneLeft` | `Spec => []NothingLeftBehind` |
| `WaitIsSound` | `Spec => WaitDrains`, an action property |
| `Invariance` | `Spec => []IInv`, from which the others follow |

None of the properties is inductive.  The inductive invariant is
`IInv == TypeOK /\ Placed /\ Counted /\ Closed`:

- `Placed`: the deque holds the tasks numbered `Left + 1 .. enqueued`, in order; those up to
  `Left` are exactly the ones that ended or are in hand; what was run is increasing and comes
  before the task in hand; none of these was cancelled.  Order and "nothing left behind" need
  to know where *every* task is.
- `Counted`: `CounterCounts`, and that a task is in hand just while the worker is running or
  counting; the decrement happens in another step and under another mutex than the removal
  from the deque.
- `Closed`: from the moment the destructor's wait has returned, the counter stays 0 and nobody
  else is inside; the worker goes only then.  That needs to know that a task in hand, the only
  one who could still enqueue, has been counted.

The proof has one lemma per action that changes tasks (`PushKeeps`, `CancelKeeps`, `TakesKeeps`,
`FinishesKeeps`) and one per group of the others (`WorkerKeeps`, `WaitingKeeps`,
`DestructorKeeps`, ...), two lemmas on sequences (`AppendFacts`, `TailFacts`), and `NextKeeps`
to put them together.  TLC checked `IInv` as an invariant of the instance before it was proved.

### Thread pool

`ThreadPoolProofs.tla` proves about `ThreadPool`, for any numbers of workers, clients, queues,
priorities, tasks and calls, from `ThreadPoolAssumption`:

| theorem | states |
|---|---|
| `Accounted` | `Spec => []TasksAccounted` |
| `DestroyedUnused` | `Spec => []NoUseAfterDestroy` |
| `WaitIsSound`, `CancelIsSound` | `Spec => WaitDrains`, `Spec => CancelDrops`, action properties |
| `Invariance` | `Spec => []IInv`, from which the others follow |

The state that matters is in the stacks, and the parts of `IInv` speak of them:

- `Stacks`: which calls may be at the bottom of whose stack and which above it.
- `Placed`: every task is queued under its priority, in the hand of exactly one call of one
  stack, or has ended, and never two of these.  `CounterCounts`, that a counter is the number
  of tasks of its queue that are queued or in a hand, is inductive only with it: `take` moves a
  task from one set to the other, and nothing else may have it.
- `Flags`: who is in `cancel()` has the flag up or has been overruled.
- `Destroyed`: when a queue is being destroyed only its own destructor waits for it, so that
  from the zero that `wait` has seen nothing of it can appear any more.
- `Closed`: when the pool is being destroyed no other client is inside, when it is gone no
  worker is.

Every step changes the top of one stack and may wake a worker, so the proof describes that once
(`StackCalls`, `StackGoes`, `StackReturns`, `StackResets`), then what a task that appears,
moves or ends does to the sets counted (`TaskAppears`, `TaskTaken`, `TaskLeavesHand`, ...), and
has a lemma per action from these (`PushKeeps`, `WaitReturnsKeeps`, ...).

### Trees and scenes

`SceneProofs.tla` proves about `Scene` and `SceneAttachments`, for any sets of nodes and scenes, from
`NoneAssumption`, `SceneAssumption` and `FinitelyManyItems` (the empty pointer is no item and no
scene, different scenes have different root nodes, there are finitely many nodes):

| theorem | states |
|---|---|
| `TreeStaysWellFormed` | `Spec => []TreeWellFormed` |
| `HostFollowsParent` | `Spec => []HostOfParent` |
| `FlatStaysReachable` | `Spec => []FlatIsReachable` |
| `HostChecksAlwaysHold` | `Spec => []HostChecksHold` |
| `OrderLostByReparent` | `Spec => OnlyReparentUnsorts`, an action property |
| `ReparentingKeepsPlace` | `Spec => ReparentKeepsPlace`, an action property |
| `UpdatingRefreshes` | `Spec => UpdateRefreshes`, an action property |
| `TypesStay` | `Spec => []TypeOK` |

The first four follow from one inductive invariant, `SceneProofs!IInv`.  That the vector holds the
nodes *reachable* from the root cannot be proved step by step from hosts and vectors
alone, since registering looks at hosts only, nor from the tree alone.  The invariant
connects them in the middle: the nodes hosted by a scene are those below its root
(`HostedIsReachable`), and the vector has the hosted ones but for the root,
each once (`FlatIsHosted`); with it come the types, the well-formed tree, `HostOfParent`, and that
roots stay without parent and with their scene (`RootsStay`).  `OrderLostByReparent` compares
positions before and after a step.  A step that leaves `m_nodes_sorted` set has either sorted the
vector, or kept the order of the nodes that stay (`KeepsOrder`: `EraseAllBefore` says so of the
erase, from `EraseAllAscends`); so a pair that turns the wrong way round has changed a depth, and by
`NextOrder` that is a node which stays in the scene.  `UpdateRefreshes` is about a pass over the vector, a fold: `UpdatePassRuns`
gives its intermediate states and `PassRefreshes` counts through them, with parents before their
children since depths do not fall along the vector.

`HierarchyProofs.tla` has the facts about trees that this needs, and that any other user
of `Hierarchy` may cite:

- lists of children: what `With`, `Without` and the hand-over of `remove` contain, and that
  no child is on a list twice (`WithFacts`, `WithoutFacts`, `HandedOver`);
- `SubtreeLeast`: a subtree is the least set with its top that is closed under children, so
  that a claim about all of a subtree is proved by naming a closed set, without induction;
  `SubtreeInTree`: depths grow downwards, and so nothing is below itself;
- how each operation changes the subtree of *every* item (`SubtreeMoves`, `SubtreeLoses`,
  `SubtreeDissolves`);
- `SetParentTree`, `RemoveItemTree`, `RecursiveRemoveTree`: the operation keeps a tree a
  tree, depths included, from these;
- `SetParentUndone`: `set_parent` back to the old parent, at the position the item had there, gives
  the very tree of before, the order of all children and all depths included; from `TakenOff` and
  `PutBack` about lists.  `RepositionUndone`: so does moving an item within its list and back.

Of `SceneAttachments` it proves `AttachmentsAlwaysFollow`, `AttachmentSpec => []AttachmentsFollow`.
Each action there contains a step of `Scene`, so that all of the theorems above hold with
attachments too (the lemma `AttachmentsOnlyFollow`).  One lemma (`HostUpdateLists`) says what the
host update of a set of attachments does to the lists, the ray tracing scenes and the skins; each action is
a case of it.

### Undo

`OperationStackProofs.tla` proves about `OperationStack`, for any finite set of items, any trees the
editor may have loaded, any set of callers and any bounds, so for any number of inputs in a tick
too, from `NoneAssumption` and `OperationStackAssumption` (loaded trees are well formed and hold
no clone, the root is no clone and has no parent, as the scene's constructor makes it,
`erhe/scene/scene.cpp:288`):

| theorem | states |
|---|---|
| `StackIsHistory` | `Spec => ImplementsHistory`, the refinement of `UndoHistory` |
| `UndoComesToAnEnd` | `Spec => UndoReturns`, an action property |
| `OnlyInsertedOnce` | `Spec => []InsertedOnce` |
| `Types` | `Spec => []TypeOK` |
| `ExecuteFollows` | an executed compound operation leads back, and there again |
| `Inductive` | `Spec => []IInv`, from which the others follow |

The invariant relates the stack to its history (`Line`): each executed operation *leads back* from
the tree after it to the one recorded before it, each undone one the other way, and the present
tree is where both lines meet.  `Follows(ops, h, g)` is what leading means: executing `ops`
in `h` gives `g` without stopping and leaves `ops` as it is, undoing it in `g` gives `h`, whatever is
selected.  It is a statement about all machines with that tree, and so stays true when the operation
is moved from one vector to the other; undo and redo need nothing else.

That an operation may enter the line is `ExecuteFollows`, for a compound of any length.  It needs
that an insertion is of an item without a parent, for undoing one leaves the item with none.  In
general this is false of a tree that other operations of the same compound or tick have
changed meanwhile, and three more parts of the invariant exclude it: `InsertedOnce`, that what is to
be inserted is in no tree of the history; `Pending`, that no other queued operation is about it;
`SelectsOthers`, that no selection which an operation will put back has it, since a deletion or drop
could then move it.  `BatchStep` carries this through the loop of `update`.

Below that, each kind of operation has a lemma that says what executing and undoing it does
(`ParentChangeIs`, `RepositionIs`, `RemoveIs`, `InsertIs`, ...) and one that it leads back
(`ChangeLinks`, `RepositionLinks`, `RemoveLinks`, `InsertLinks`).  They rest on the facts about trees
that `HierarchyProofs` has (`SetParentUndone`, `RepositionUndone`); a removal is an operation
of its own with a compound inside, the children it hands to its parent, which is undone in the
opposite order (`HandingTrees`, `RunsBack`).  Compounds are folds: `FoldRuns` gives the states in between.

### What the callers promise

The second half of `OperationStackProofs.tla` has what depends on who queues the operations.  All
of it is for `MaxPerTick = 1`, as in the runs, and for any items, loaded trees, callers and other
bounds:

| theorem | states |
|---|---|
| `EditorIsCalm` | `Spec => [](IInv /\ Calm)`, from which the others follow |
| `VerificationsHold` | `Spec => []VerifyHolds` |
| `NothingBelowItself` | `Spec => []NeverBelowItself`, if `"attach_button" \notin Inputs` |
| `SelectionStaysInScene` | `Spec => []SelectionInScene` |
| `DeletingIsExact` | `Spec => DeleteIsExact`, an action property |
| `DropsStayTogether` | `Spec => DroppedTogether`, an action property |

Both conditions are needed.  With two inputs per tick an undo may come between the construction of
an operation and its execution; `op_attach_cycle` is the counterexample with the Attach button.

`Calm` adds two things to `IInv`.  The operation that waits keeps what its caller `Promised`:
executed in the present tree it runs to its end (the Attach button's may not return), and if it
is a deletion it deletes exactly the selection, if a drop it leaves a row.  And each operation of
the line `Turns` selections of the tree before it into selections of the tree after it, and back.
`IInv` is about trees whatever is selected; `Turns` says what else is needed of the selections that
insertions and removals put back, and moves along the line in the same way.

What is promised is proved where the caller constructs the operations, by a statement about the
tree after the first k parts that each part hands on (`TreesThrough`):

- *Drop* (`Going`).  After k parts the first k items are below the new parent, the scene is what
  it was, and the new parent is still below none of the items (`MovedTrees`), so each part finds
  the parent it was constructed with and makes no cycle.  Before or after an anchor, the anchor and
  the k items are next to each other in the list (`MovedRows`); a part that moves an item within
  the list first takes it out, which leaves that row whole (`RowWithout`), and then lengthens it
  (`RowWith`).  That the final row is that of the selection is a fact about erasing from a list read
  backwards (`EraseAllBackwards`).
- *Delete* (`TakenOut`).  The sort puts the deepest items first, so each item has no
  children left when it is removed (`NoneLeftBelow`) and hands none to its parent, though
  the operation would.  The scene then loses what was below the selection and nothing else
  (`SceneLoses`).
- *Duplicate, paste* (`Grown`).  Each clone has no parent until its turn, and goes below
  an item of the scene.
- *Attach button* (`AttachTurns`).  It either makes a cycle, or leaves the items of the scene.

`UpdateRuns` then says that `update` does what was promised, and `EmptiedByUpdate` that only this
step empties the queue.

### Render graph

`RendergraphProofs.tla` proves about `Rendergraph`, for any sets of nodes, keys, routings and
wires, from `RendergraphAssumption` (finitely many nodes, no wire from a node to itself):

| theorem | states |
|---|---|
| `GraphStaysSound` | `Spec => []GraphSound` |
| `FramesRunInOrder` | `Spec => []FrameInOrder` |
| `DepthsAlwaysFollow` | `Spec => DepthsFollow`, an action property |
| `TheDestroyedAreForgotten` | `Spec => DestroyedAreForgotten`, an action property |
| `GraphKeeps` | `Spec => []GraphInv`, from which the others follow |

`Links`, the part of the invariant the others need, says that a list holds nothing but what a wire
of the editor put there, of nodes that had been constructed, into the list of a node alive.  Three
algorithms are functions over their own progress, and each has a lemma that says how it runs:

- `sort` (`TakenRuns`, `TakenInOrder`): each round takes a node whose producers have been taken,
  and when none is left to take, what remains feeds itself, a cycle;
- `set_depth` (`WalkRuns`, `LevelsFollow`, `WalkEnds`): a consumer that is not deeper than its
  producer is raised in the next level; each node of a level has a producer in the level before, so
  that without a cycle the nodes that levels can still raise get fewer, and the walk ends;
- the loop of `unregister_node` over a shrinking vector (`ToldRuns`, `TwoAreTold`): with two entries
  none is passed over.

### Packets

`PacketStreamProofs.tla` proves about `PacketStream`, for any numbers of connections and broadcasts,
any messages and all sizes of the buffers, from `PacketStreamAssumption` (both buffer sizes are
positive):

| theorem | states |
|---|---|
| `ConnectedSockets` | `Spec => []UsesConnectedSockets` |
| `NoGaps` | `Spec => []StreamIntact` |
| `ChannelImplemented` | `Spec => ImplementsChannel`, the refinement of `MessageChannel` |

The inductive invariant is `Stream`, in two layers.  `Frame` says who holds what, whatever is in
the stream:

- the types, and that what has a buffer has a ring buffer of the right size (`SendTyped`,
  `PipeTyped`, `ReceiveTyped`);
- `Plan`: `poll` and `broadcast` make a list of calls first and then go through it, and a call
  may close a socket that is still in `m_clients`.  The list is in order (`AgendaOK`): each
  remaining call has a socket that is connected, nothing follows the receive of a socket,
  the only call that closes it without clearing the list, and a sweep is to come whenever a closed
  socket is in `m_clients`.  From this alone follows `ConnectedSockets`;
- `Idle`: connections are made in order, and one not accepted yet was never used.

On top of it:

- `Flow`: for every sound connection that lasts, receive buffer, what is on its way and a rest,
  joined, are the packets not delivered yet; the rest is the send buffer, unless the server's end is
  closed and what was in it is lost.  `StreamIntact` says this only of connections that are
  connected at both ends, but the client reads on after the server has closed, and the header
  it looks for must still be at the front.
- `Fit`: every accepted packet fits in a buffer, since `send` refuses others; both ends have
  buffers of one size.  Without it a part of a packet could fill the receive buffer and be
  thrown away by `end_consume(0)` (`PartialPacketsKept`).
- `Behind`: nothing is delivered that was not accepted, so that there is a next packet.

The proof goes in layers too.  The first is about ring buffers alone (`WrittenBuffer`,
`ConsumedBuffer`, `PeekIs`, `ReadableCells`): what `write`, `end_consume`, `peek` and `begin_consume`
do to `Contents`, the cells a buffer holds, wherever it wraps; no later proof knows of offsets.
The second is about a stream that is cut in three parts (`LinkedTake`, `LinkedSend`, `LinkedMore`,
`LinkedFirst`).  `FirstPacket` and `NextPacket` then say that a client which sees a whole header
sees that of the next packet, and that the packet it processes is that one.  Then each part
of the invariant has its lemma (`FitKept`, `FlowKept`, ...), most by the few actions that change
its variables (`ServerChanges`, `PipeChanges`, ...).

The refinement is by step: `SendWrites` is `Accept` of the channel, `ProcessPacket` is `Deliver` on a
sound connection and `DeliverAny` on a spoilt one, the four steps that call `Spoil` are the
channel's or change nothing, all others leave the channel alone (`ChannelStep`).

### Lists and counting

`Lists.tla` has `EraseAll`, the erase of all elements that satisfy a condition.  `ListProofs.tla` has
what the proofs above need beyond the library's theorems.  Induction over the naturals takes an
operator there, which the provers cannot instantiate; `CountingUp` states it with a *set* that
contains 0 and with every number its successor, and is proved from a well-founded
order.  `PeelingExists` and `StepsExist` say that a recursive function over an interval or over the
subsets of one exists, so that a fold or a recursion may be unrolled; `EraseAllKeeps`,
`EraseAllLeaves`, `LengthOfInjective`, `SetToSeqsLists` say what lists contain.  `FlattenIs` and
`FlattenMore` say what joining a list of lists gives.  `EraseAllAscends` names the positions that an
erase keeps by increasing numbers; two such lists of the same numbers are equal (`SameAscent`), so
two erases that keep the same elements give the same list.  `ConcatLeaves` and `ReorderLeaves` say of
a joined and of a permuted list without repetitions what it contains, and that it has none.

### What is not proved

Only model-checked are liveness (`WaitEndsUncancelled`, `TasksEnd`, `DestroyEnds`,
`TransformsSettle`, `WaitsEnd`, `WakeupsHeal`, `MessagesArrive`, `HungUpClientsGo`), since fairness
and `ENABLED` are beyond tlapm; that the closed forms of `Hierarchy` equal the recursions
(`ClosedFormsAgree`), whose module has RECURSIVE operators.  Every other property of a passing run is
a theorem; those of *What the callers promise* for one input per tick.  The claims of the four runs
that expect a violation are false and have no theorem.

## Not modelled

Numeric kernels (geometry, ray tracing, math), rendering and everything whose effect is a GPU
command, the physics engine beyond its two callbacks, OpenXR, window systems, importers, logging
and configuration, and the vendored libraries: they have no protocol between their steps, or the
protocol is of code outside the repository.  The programs `example` and `hextiles` only use the
libraries.  Within what is modelled: names and other flags of items, visibility and ray
tracing transforms of attachments, scene messages, range selection, filtering in the item tree,
the mesh operations and their threads, enabled and disabled render graph nodes and their texture
lookups, what a network client sends (the code of the other direction), the socket calls of each
platform (`net_linux.cpp:216` passes the inverse of the mode it is asked for; the model has
non-blocking sockets), spurious wakeups of condition variables (all waits test again).

Commands, the pool of GL contexts, per-frame buffers and the message bus are small machines that
could be modelled like the others and are not yet.

## Plan

Done: `Hierarchy`, `HierarchyLoops`, `Scene`, `SceneAttachments`, `Operations`, `OperationStack`
with `UndoHistory`, `SerialQueue`, `ThreadPool`, `RingBuffer`, `PacketStream` with
`MessageChannel`, `Rendergraph`; `SerialQueueProofs`, `ThreadPoolProofs`, `HierarchyProofs`,
`ListProofs`, `SceneProofs`, `RendergraphProofs`, `PacketStreamProofs`, `OperationStackProofs`.
Next, most important first:

1. `OperationStack`: operations queued by executor threads between the steps of `update`; the
   brush preview as another input; `Node_attach_operation` over `SceneAttachments`.
2. Smaller machines: GL context pool, command states, frame slots, message bus.
