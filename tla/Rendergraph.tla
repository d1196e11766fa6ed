---------------------------- MODULE Rendergraph ----------------------------
(***************************************************************************)
(* The render graph (erhe::rendergraph): nodes register with the graph     *)
(* when they are constructed and leave it when they are destroyed; the     *)
(* editor connects an output of one to an input of another under a key;    *)
(* every frame sorts the nodes and runs them in that order.                *)
(*                                                                         *)
(* A connection is kept at both ends, in lists of plain pointers, so a     *)
(* node that goes must be taken out of the lists of all its partners.      *)
(* Everything runs on the main thread; the unit of interleaving is a call. *)
(*                                                                         *)
(* A node that may have no inputs or no outputs (inputs_allowed,           *)
(* outputs_allowed) cannot register one either: here its keys are not      *)
(* registered.  Positions, labels and m_enabled are left out: they decide  *)
(* how a node is drawn and whether it is run, never the order.             *)
(***************************************************************************)
EXTENDS Integers, Sequences, FiniteSets, SequencesExt, FiniteSetsExt, Lists

CONSTANTS
  Node,             \* the nodes the editor constructs, each once
  Key,              \* Rendergraph_node_key
  InputRouting,     \* of each node: the keys its inputs are registered under
  OutputRouting,    \* of each node: the keys its outputs are registered under
  Wires,            \* the connections the editor asks for: <<key, source, sink>>
  MaxConnects       \* bound on the calls of connect that are modelled

Routing == {"none", "by_consumer", "by_producer"}
Unregistered == "unregistered"

ASSUME RendergraphAssumption ==
  /\ IsFiniteSet(Node)
  /\ InputRouting \in [Node -> [Key -> Routing \union {Unregistered}]]
  /\ OutputRouting \in [Node -> [Key -> Routing \union {Unregistered}]]
  /\ Wires \subseteq {w \in Key \X Node \X Node : w[2] # w[3]}
  /\ MaxConnects \in Nat

VARIABLES
  life,        \* of each node: not yet constructed, alive or destroyed
  nodes,       \* m_nodes, in the order the frame runs them
  producers,   \* of each node and key: producer_nodes of the input
  consumers,   \* of each node and key: consumer_nodes of the output
  depth,       \* m_depth
  ran,         \* what the frame just run has run; << >> after any other call
  fault,       \* what has gone wrong for good: the program has no behaviour left
  connects     \* calls of connect so far

vars == <<life, nodes, producers, consumers, depth, ran, fault, connects>>

Faults == {"none", "stack overflow", "use after free"}
Working == fault = "none"

Alive == {n \in Node : life[n] = "alive"}
Gone == {n \in Node : life[n] = "gone"}

ProducersOf(n) == UNION {ToSet(producers[n][k]) : k \in Key}
ConsumersOf(n) == UNION {ToSet(consumers[n][k]) : k \in Key}

Nothing == [k \in Key |-> << >>]

Init ==
  /\ life = [n \in Node |-> "unborn"]
  /\ nodes = << >>
  /\ producers = [n \in Node |-> Nothing]
  /\ consumers = [n \in Node |-> Nothing]
  /\ depth = [n \in Node |-> 0]
  /\ ran = << >>
  /\ fault = "none"
  /\ connects = 0

-----------------------------------------------------------------------------
(* Construction: the base constructor registers the node, the derived one  *)
(* its inputs and outputs.                                                 *)

Create(n) ==
  /\ Working
  /\ life[n] = "unborn"
  /\ life' = [life EXCEPT ![n] = "alive"]
  /\ nodes' = Append(nodes, n)
  /\ ran' = << >>
  /\ UNCHANGED <<producers, consumers, depth, fault, connects>>

-----------------------------------------------------------------------------
(* Connecting: the sink first, with its depth and the depths of everything *)
(* behind it, then the source.                                             *)

\* Wrong: a producer is not looked for before it is added.
InputAcceptsTwice(key, source, sink) ==
  /\ InputRouting[sink][key] # Unregistered
  /\ InputRouting[sink][key] = "by_producer" => producers[sink][key] = << >>

\* connect_input takes the producer: the key is registered, an input whose
\* producer owns the resource has no other, and the producer is not there yet.
InputAccepts(key, source, sink) ==
  /\ InputRouting[sink][key] # Unregistered
  /\ InputRouting[sink][key] = "by_producer" => producers[sink][key] = << >>
  /\ source \notin ToSet(producers[sink][key])

\* connect_output takes the consumer, under the mirrored conditions.
OutputAccepts(key, source, sink) ==
  /\ OutputRouting[source][key] # Unregistered
  /\ OutputRouting[source][key] = "by_consumer" => consumers[source][key] = << >>
  /\ sink \notin ToSet(consumers[source][key])

\* The recursion of set_depth, level by level: a path that raises as many nodes
\* as there are has gone round a cycle, and the recursion has no end.
DepthWalk(node, value, After(_), Pushes(_, _)) ==
  LET Round[i \in 0 .. Cardinality(Node)] ==
        IF i = 0
        THEN [depth |-> [depth EXCEPT ![node] = value], raised |-> {node}, met |-> {node}]
        ELSE LET last == Round[i - 1]
                 Pushing(c) == {p \in last.raised : /\ c \in After(p)
                                                    /\ Pushes(last.depth[p], last.depth[c])}
                 raised == {c \in Node : Pushing(c) # {}}
             IN  [depth  |-> [c \in Node |->
                                IF c \in raised
                                THEN Max({last.depth[p] : p \in Pushing(c)}) + 1
                                ELSE last.depth[c]],
                  raised |-> raised,
                  met    |-> last.met \union UNION {ConsumersOf(p) : p \in last.raised}]
  IN  Round[Cardinality(Node)]

\* Wrong: a consumer as deep as its producer stays; the depth is pushed along
\* the inputs as well.
SetDepthBelow(node, value)    == DepthWalk(node, value, ConsumersOf, >)
SetDepthBothWays(node, value) ==
  DepthWalk(node, value, LAMBDA p : ConsumersOf(p) \union ProducersOf(p), >=)

\* set_depth gives a node its depth, lower than before if need be, and pushes
\* along the outputs every consumer that is not deeper.
SetDepth(node, value) == DepthWalk(node, value, ConsumersOf, >=)

\* What the walk of set_depth ends in.
FaultOf(walk) ==
  IF walk.met \intersect Gone # {} THEN "use after free"
  ELSE IF walk.raised # {} THEN "stack overflow"
  ELSE "none"

ConnectInput(key, source, sink) ==
  LET walk == SetDepth(sink, depth[source] + 1)
  IN  /\ InputAccepts(key, source, sink)
      /\ producers' = [producers EXCEPT ![sink][key] = Append(@, source)]
      /\ depth' = IF FaultOf(walk) = "none" THEN walk.depth ELSE depth
      /\ fault' = FaultOf(walk)

MayConnect(key, source, sink) ==
  /\ Working
  /\ {source, sink} \subseteq Alive
  /\ connects < MaxConnects
  /\ connects' = connects + 1
  /\ ran' = << >>

\* Rendergraph::connect returns true: both ends hold the connection.
Connect(key, source, sink) ==
  /\ MayConnect(key, source, sink)
  /\ ConnectInput(key, source, sink)
  /\ OutputAccepts(key, source, sink)
  /\ consumers' = IF fault' = "none"
                  THEN [consumers EXCEPT ![source][key] = Append(@, sink)]
                  ELSE consumers
  /\ UNCHANGED <<life, nodes>>

\* Rendergraph::connect returns false, after the sink has taken the producer and
\* nobody takes it back.  (A connect the sink refuses changes nothing at all.)
ConnectHalfway(key, source, sink) ==
  /\ MayConnect(key, source, sink)
  /\ ConnectInput(key, source, sink)
  /\ ~OutputAccepts(key, source, sink)
  /\ UNCHANGED <<life, nodes, consumers>>

\* Wrong: only the sink is told.
DisconnectInput(key, source, sink) ==
  /\ Working
  /\ {source, sink} \subseteq Alive
  /\ source \in ToSet(producers[sink][key])
  /\ producers' = [producers EXCEPT ![sink][key] = EraseAll(@, {source})]
  /\ ran' = << >>
  /\ UNCHANGED <<life, nodes, consumers, depth, fault, connects>>

\* Rendergraph::disconnect: both ends, whatever each of them held.  Depths stay.
Disconnect(key, source, sink) ==
  /\ Working
  /\ {source, sink} \subseteq Alive
  /\ \/ source \in ToSet(producers[sink][key])
     \/ sink \in ToSet(consumers[source][key])
  /\ producers' = [producers EXCEPT ![sink][key] = EraseAll(@, {source})]
  /\ consumers' = [consumers EXCEPT ![source][key] = EraseAll(@, {sink})]
  /\ ran' = << >>
  /\ UNCHANGED <<life, nodes, depth, fault, connects>>

-----------------------------------------------------------------------------
(* Destruction.  The loop over the partners of a connector calls           *)
(* disconnect, which erases the partner from the vector the loop is over:  *)
(* the rest moves up by one place, and the loop goes on to the next place  *)
(* up to the old end, reading behind the new end what erasing left there.  *)

\* The partners one such loop calls disconnect with.
Told(partners) ==
  LET size == Len(partners)
      Pass[i \in 0 .. size] ==
        IF i = 0
        THEN [memory |-> partners, live |-> size, told |-> {}]
        ELSE LET last == Pass[i - 1]
                 partner == last.memory[i]
                 held == SubSeq(last.memory, 1, last.live)
             IN  IF partner \in ToSet(held)
                 THEN [memory |-> EraseAll(held, {partner})
                                    \o SubSeq(last.memory, last.live, size),
                       live   |-> last.live - 1,
                       told   |-> last.told \union {partner}]
                 ELSE [last EXCEPT !.told = @ \union {partner}]
  IN  Pass[size].told

\* Wrong: the consumers are cleared before the loop.
ToldNobody(node, key) == {}

\* The producers, and the consumers, that unregister_node tells under a key.
ToldProducers(node, key) == Told(producers[node][key])
ToldConsumers(node, key) == Told(consumers[node][key])

\* ~Rendergraph_node calls unregister_node.
Destroy(n) ==
  LET told == UNION {ToldProducers(n, k) \union ToldConsumers(n, k) : k \in Key}
  IN  /\ Working
      /\ n \in Alive
      /\ life' = [life EXCEPT ![n] = "gone"]
      /\ nodes' = EraseAll(nodes, {n})
      /\ producers' = [m \in Node |->
           IF m = n THEN Nothing
           ELSE [k \in Key |-> IF m \in ToldConsumers(n, k)
                               THEN EraseAll(producers[m][k], {n})
                               ELSE producers[m][k]]]
      /\ consumers' = [m \in Node |->
           IF m = n THEN Nothing
           ELSE [k \in Key |-> IF m \in ToldProducers(n, k)
                               THEN EraseAll(consumers[m][k], {n})
                               ELSE consumers[m][k]]]
      /\ fault' = IF told \intersect Gone # {} THEN "use after free" ELSE "none"
      /\ ran' = << >>
      /\ UNCHANGED <<depth, connects>>

-----------------------------------------------------------------------------
(* The frame.                                                              *)

\* sort() takes, again and again, the first node left that is ready, until it
\* has them all or finds none.
TakenWhen(IsReady(_, _)) ==
  LET Take[i \in 0 .. Len(nodes)] ==
        IF i = 0
        THEN << >>
        ELSE LET last == Take[i - 1]
                 Ready == {j \in DOMAIN nodes : /\ nodes[j] \notin ToSet(last)
                                                /\ IsReady(nodes[j], ToSet(last))}
             IN  IF Ready = {} THEN last ELSE Append(last, nodes[Min(Ready)])
  IN  Take[Len(nodes)]

\* Wrong: one producer taken is enough.
TakenWithOne ==
  TakenWhen(LAMBDA n, taken : ProducersOf(n) = {} \/ ProducersOf(n) \intersect taken # {})

\* A node is ready when all its producers have been taken.
Taken == TakenWhen(LAMBDA n, taken : ProducersOf(n) \subseteq taken)

Sorted == Len(Taken) = Len(nodes)

\* execute() with an order: sort() has put it in place of the old one.
Execute ==
  /\ Working
  /\ Sorted
  /\ nodes' = Taken
  /\ ran' = Taken
  /\ UNCHANGED <<life, producers, consumers, depth, fault, connects>>

\* execute() without one: sort() names every producer of every node in the log,
\* returns with the old order in place, and the nodes run in that one.
ExecuteUnsorted ==
  /\ Working
  /\ ~Sorted
  /\ fault' = IF (UNION {ProducersOf(n) : n \in ToSet(nodes)}) \intersect Gone # {}
              THEN "use after free" ELSE "none"
  /\ ran' = nodes
  /\ UNCHANGED <<life, nodes, producers, consumers, depth, connects>>

Next ==
  \/ \E n \in Node : Create(n) \/ Destroy(n)
  \/ \E w \in Wires : \/ Connect(w[1], w[2], w[3])
                      \/ ConnectHalfway(w[1], w[2], w[3])
                      \/ Disconnect(w[1], w[2], w[3])
  \/ Execute
  \/ ExecuteUnsorted

Spec == Init /\ [][Next]_vars

-----------------------------------------------------------------------------
(* Properties.                                                             *)

\* The order holds the nodes that are alive, each once; the lists hold each
\* partner once and only under keys that are registered.
TypeOK ==
  /\ life \in [Node -> {"unborn", "alive", "gone"}]
  /\ IsInjective(nodes) /\ ToSet(nodes) = Alive
  /\ ran \in {<< >>, nodes}
  /\ \A n \in Node, k \in Key :
       /\ IsInjective(producers[n][k]) /\ IsInjective(consumers[n][k])
       /\ InputRouting[n][k] = Unregistered => producers[n][k] = << >>
       /\ OutputRouting[n][k] = Unregistered => consumers[n][k] = << >>
  /\ depth \in [Node -> Nat]
  /\ fault \in Faults
  /\ connects \in 0 .. MaxConnects

\* The nodes that lie on a cycle of producers or behind one: the largest set in
\* which every node has a producer of the set.
Cyclic(set) == \A n \in set : ProducersOf(n) \intersect set # {}
NoCycle == \A set \in (SUBSET Alive) \ {{}} : ~Cyclic(set)

\* A frame runs every producer before its consumers, whenever there is such an
\* order.  This is what the connections are for: the "window" and "rendertarget
\* texture" slots exist only to force the order in which nodes are rendered
\* (imgui_window_scene_view_node.cpp:99-113).
FrameInOrder ==
  (ran # << >> /\ NoCycle /\ fault = "none") =>
    \A i, j \in DOMAIN ran : ran[j] \in ProducersOf(ran[i]) => j < i

\* What a source knows of a connection its sink knows too, and what a sink knows
\* its source knows as well unless connect gave up half way, which it does only
\* when the source's output had a consumer that no other may share.
EndsAgree ==
  \A w \in Wires :
    {w[2], w[3]} \subseteq Alive /\ fault = "none" =>
      /\ w[3] \in ToSet(consumers[w[2]][w[1]]) => w[2] \in ToSet(producers[w[3]][w[1]])
      /\ (/\ w[2] \in ToSet(producers[w[3]][w[1]])
          /\ OutputRouting[w[2]][w[1]] \in {"none", "by_producer"})
            => w[3] \in ToSet(consumers[w[2]][w[1]])

\* A destroyed node is in no list of a node that is alive, provided that it knew
\* all its partners (no connection of it was left half made) and had at most two
\* under each key: with three the loop of unregister_node passes one over.
Forgotten(n) ==
  \A m \in Alive : n \notin ProducersOf(m) \union ConsumersOf(m)

KnowsItsPartners(n) ==
  \A m \in Alive, k \in Key :
    /\ n \in ToSet(producers[m][k]) => m \in ToSet(consumers[n][k])
    /\ n \in ToSet(consumers[m][k]) => m \in ToSet(producers[n][k])

DestroyedAreForgotten ==
  [][\A n \in Alive \ Alive' :
       (/\ KnowsItsPartners(n)
        /\ \A k \in Key : Len(producers[n][k]) <= 2 /\ Len(consumers[n][k]) <= 2)
         => Forgotten(n)']_vars

\* A node whose depth is set ends up less deep than everything behind it: the
\* columns of automatic_layout run from left to right there.  (Not everywhere:
\* connecting a second producer may lower a depth, and disconnecting keeps it.)
DepthsFollow ==
  [][\A n \in Node :
       depth'[n] # depth[n] /\ NoCycle' => \A c \in ConsumersOf(n)' : depth'[n] < depth'[c]]_vars

\* The recursion of set_depth has an end unless the connections form a cycle.
OverflowNeedsCycle == fault = "stack overflow" => ~NoCycle

\* Whatever was connected, refused half way, disconnected and destroyed, in any
\* order: the graph's own vector holds exactly the nodes that are alive, the two
\* ends of every connection agree as far as connect lets them, and set_depth has
\* come back unless it was sent round a cycle (rendergraph_node.cpp:391-457, 546).
GraphSound == TypeOK /\ EndsAgree /\ OverflowNeedsCycle
=============================================================================
