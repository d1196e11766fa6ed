------------------------- MODULE RendergraphProofs -------------------------
(***************************************************************************)
(* Proofs about module Rendergraph, for every set of nodes, keys and       *)
(* wires: the lists of connected nodes agree, a frame runs in order, and   *)
(* what set_depth and unregister_node leave.                               *)
(***************************************************************************)
EXTENDS Rendergraph, ListProofs

-----------------------------------------------------------------------------
(***************************************************************************)
(* The inductive invariant.  What GraphSound says of the lists is kept     *)
(* because they never hold anything but what a wire of the editor put      *)
(* there, of nodes that had been constructed, into lists of nodes that     *)
(* were alive.                                                             *)
(***************************************************************************)
GraphTypes ==
  /\ life \in [Node -> {"unborn", "alive", "gone"}]
  /\ nodes \in Seq(Node)
  /\ producers \in [Node -> [Key -> Seq(Node)]]
  /\ consumers \in [Node -> [Key -> Seq(Node)]]
  /\ fault \in Faults
  /\ connects \in 0 .. MaxConnects

NodesAreAlive == IsInjective(nodes) /\ ToSet(nodes) = Alive

RanTheNodes == ran \in {<< >>, nodes}

InputsKept ==
  \A n \in Node, k \in Key :
    /\ IsInjective(producers[n][k])
    /\ InputRouting[n][k] = Unregistered => producers[n][k] = << >>
    /\ \A m \in ToSet(producers[n][k]) :
         <<k, m, n>> \in Wires /\ n \in Alive /\ life[m] # "unborn"

OutputsKept ==
  \A n \in Node, k \in Key :
    /\ IsInjective(consumers[n][k])
    /\ OutputRouting[n][k] = Unregistered => consumers[n][k] = << >>
    /\ \A m \in ToSet(consumers[n][k]) :
         <<k, n, m>> \in Wires /\ n \in Alive /\ life[m] # "unborn"

Depths == depth \in [Node -> Nat]

Links == GraphTypes /\ NodesAreAlive /\ InputsKept /\ OutputsKept
-----------------------------------------------------------------------------
LEMMA EmptyOnce == IsInjective(<< >>) /\ ToSet(<< >>) = {} /\ << >> \in Seq(Node)
BY DEF IsInjective, ToSet

\* A list of one node and key is replaced.
LEMMA OneListChanges ==
  ASSUME NEW F \in [Node -> [Key -> Seq(Node)]], NEW n \in Node, NEW k \in Key,
         NEW q \in Seq(Node)
  PROVE  /\ [F EXCEPT ![n][k] = q] \in [Node -> [Key -> Seq(Node)]]
         /\ \A m \in Node, j \in Key :
              [F EXCEPT ![n][k] = q][m][j] = IF m = n /\ j = k THEN q ELSE F[m][j]
OBVIOUS

\* A wire's two nodes.
LEMMA WireNodes ==
  ASSUME NEW w \in Wires
  PROVE  w[1] \in Key /\ w[2] \in Node /\ w[3] \in Node /\ w[2] # w[3]
         /\ w = <<w[1], w[2], w[3]>>
BY RendergraphAssumption

LEMMA CreateKeeps ==
  ASSUME Links, NEW n \in Node, Create(n)
  PROVE  Links' /\ (RanTheNodes /\ Depths => RanTheNodes' /\ Depths')
<1>1. /\ life[n] = "unborn" /\ life' = [life EXCEPT ![n] = "alive"]
      /\ nodes' = Append(nodes, n) /\ ran' = << >>
      /\ UNCHANGED <<producers, consumers, depth, fault, connects>>
  BY DEF Create
<1>2. GraphTypes'
  BY <1>1, AppendLeaves DEF Links, GraphTypes
<1>3. \A m \in Node : life'[m] = IF m = n THEN "alive" ELSE life[m]
  BY <1>1 DEF Links, GraphTypes
<1>4. Alive' = Alive \cup {n} /\ n \notin Alive
  BY <1>1, <1>3 DEF Alive
<1>5. NodesAreAlive'
  BY <1>1, <1>4, AppendLeaves DEF Links, GraphTypes, NodesAreAlive
<1>6. InputsKept'
  <2>1. \A m \in Node : life[m] # "unborn" => life'[m] # "unborn"
    BY <1>1, <1>3
  <2> QED BY <1>1, <1>4, <2>1 DEF Links, InputsKept, GraphTypes, ToSet
<1>7. OutputsKept'
  <2>1. \A m \in Node : life[m] # "unborn" => life'[m] # "unborn"
    BY <1>1, <1>3
  <2> QED BY <1>1, <1>4, <2>1 DEF Links, OutputsKept, GraphTypes, ToSet
<1> QED BY <1>1, <1>2, <1>5, <1>6, <1>7 DEF Links, RanTheNodes, Depths

(***************************************************************************)
(* What unregister_node and disconnect do to a list: what stays was there, *)
(* and nothing twice.                                                      *)
(***************************************************************************)
Shorter(q, s) ==
  q \in Seq(Node) /\ ToSet(q) \subseteq ToSet(s) /\ (IsInjective(s) => IsInjective(q))

LEMMA EraseShortens ==
  ASSUME NEW s \in Seq(Node), NEW S
  PROVE  Shorter(EraseAll(s, S), s) /\ Shorter(<< >>, s) /\ Shorter(s, s)
BY EraseAllLeaves, EmptyOnce DEF Shorter

LEMMA EmptyWhenNoElement ==
  ASSUME NEW s \in Seq(Node), ToSet(s) = {}
  PROVE  s = << >>
<1>1. DOMAIN s = 1 .. Len(s) /\ Len(s) \in Nat
  OBVIOUS
<1>2. ASSUME Len(s) # 0 PROVE FALSE
  <2>1. 1 \in DOMAIN s
    BY <1>1, <1>2
  <2>2. s[1] \in ToSet(s)
    BY <2>1 DEF ToSet
  <2> QED BY <2>2
<1> QED BY <1>2

LEMMA ShorterInputs ==
  ASSUME Links,
         producers' \in [Node -> [Key -> Seq(Node)]],
         \A n \in Node, k \in Key : Shorter(producers'[n][k], producers[n][k]),
         \A n \in Node : life[n] # "unborn" => life'[n] # "unborn",
         \A n \in Node \ Alive' : \A k \in Key : producers'[n][k] = << >>
  PROVE  InputsKept'
<1> SUFFICES ASSUME NEW n \in Node, NEW k \in Key
             PROVE  /\ IsInjective(producers'[n][k])
                    /\ InputRouting[n][k] = Unregistered => producers'[n][k] = << >>
                    /\ \A m \in ToSet(producers'[n][k]) :
                         <<k, m, n>> \in Wires /\ n \in Alive' /\ life'[m] # "unborn"
  BY DEF InputsKept
<1> DEFINE q == producers'[n][k]
           s == producers[n][k]
<1>1. q \in Seq(Node) /\ Shorter(q, s)
  OBVIOUS
<1>2. /\ IsInjective(s) /\ (InputRouting[n][k] = Unregistered => s = << >>)
      /\ \A m \in ToSet(s) : <<k, m, n>> \in Wires /\ n \in Alive /\ life[m] # "unborn"
  BY DEF Links, InputsKept
<1>3. n \notin Alive' => q = << >>
  OBVIOUS
<1>4. \A m \in ToSet(s) : life'[m] # "unborn"
  <2>1. \A m \in ToSet(s) : m \in Node
    BY <1>2, WireNodes
  <2> QED BY <1>2, <2>1
<1> HIDE DEF q, s
<1>5. IsInjective(q) /\ ToSet(q) \subseteq ToSet(s)
  BY <1>1, <1>2 DEF Shorter
<1>6. InputRouting[n][k] = Unregistered => q = << >>
  BY <1>1, <1>2, <1>5, EmptyOnce, EmptyWhenNoElement
<1>7. n \in Alive' \/ ToSet(q) = {}
  BY <1>3, EmptyOnce
<1>8. \A m \in ToSet(q) : <<k, m, n>> \in Wires /\ n \in Alive' /\ life'[m] # "unborn"
  BY <1>2, <1>4, <1>5, <1>7
<1> QED BY <1>5, <1>6, <1>8 DEF q

LEMMA ShorterOutputs ==
  ASSUME Links,
         consumers' \in [Node -> [Key -> Seq(Node)]],
         \A n \in Node, k \in Key : Shorter(consumers'[n][k], consumers[n][k]),
         \A n \in Node : life[n] # "unborn" => life'[n] # "unborn",
         \A n \in Node \ Alive' : \A k \in Key : consumers'[n][k] = << >>
  PROVE  OutputsKept'
<1> SUFFICES ASSUME NEW n \in Node, NEW k \in Key
             PROVE  /\ IsInjective(consumers'[n][k])
                    /\ OutputRouting[n][k] = Unregistered => consumers'[n][k] = << >>
                    /\ \A m \in ToSet(consumers'[n][k]) :
                         <<k, n, m>> \in Wires /\ n \in Alive' /\ life'[m] # "unborn"
  BY DEF OutputsKept
<1> DEFINE q == consumers'[n][k]
           s == consumers[n][k]
<1>1. q \in Seq(Node) /\ Shorter(q, s)
  OBVIOUS
<1>2. /\ IsInjective(s) /\ (OutputRouting[n][k] = Unregistered => s = << >>)
      /\ \A m \in ToSet(s) : <<k, n, m>> \in Wires /\ n \in Alive /\ life[m] # "unborn"
  BY DEF Links, OutputsKept
<1>3. n \notin Alive' => q = << >>
  OBVIOUS
<1>4. \A m \in ToSet(s) : life'[m] # "unborn"
  <2>1. \A m \in ToSet(s) : m \in Node
    BY <1>2, WireNodes
  <2> QED BY <1>2, <2>1
<1> HIDE DEF q, s
<1>5. IsInjective(q) /\ ToSet(q) \subseteq ToSet(s)
  BY <1>1, <1>2 DEF Shorter
<1>6. OutputRouting[n][k] = Unregistered => q = << >>
  BY <1>1, <1>2, <1>5, EmptyOnce, EmptyWhenNoElement
<1>7. n \in Alive' \/ ToSet(q) = {}
  BY <1>3, EmptyOnce
<1>8. \A m \in ToSet(q) : <<k, n, m>> \in Wires /\ n \in Alive' /\ life'[m] # "unborn"
  BY <1>2, <1>4, <1>5, <1>7
<1> QED BY <1>5, <1>6, <1>8 DEF q

\* A node that is not alive has no lists.
LEMMA DeadHaveNone ==
  ASSUME Links, NEW n \in Node \ Alive, NEW k \in Key
  PROVE  producers[n][k] = << >> /\ consumers[n][k] = << >>
<1>1. producers[n][k] \in Seq(Node) /\ consumers[n][k] \in Seq(Node)
  BY DEF Links, GraphTypes
<1>2. ToSet(producers[n][k]) = {} /\ ToSet(consumers[n][k]) = {}
  BY DEF Links, InputsKept, OutputsKept
<1> QED BY <1>1, <1>2, EmptyWhenNoElement

LEMMA DisconnectKeeps ==
  ASSUME Links, NEW w \in Wires, Disconnect(w[1], w[2], w[3])
  PROVE  /\ Links'
         /\ \A n \in Node, k \in Key :
              /\ producers'[n][k] = IF n = w[3] /\ k = w[1]
                                    THEN EraseAll(producers[n][k], {w[2]})
                                    ELSE producers[n][k]
              /\ consumers'[n][k] = IF n = w[2] /\ k = w[1]
                                    THEN EraseAll(consumers[n][k], {w[3]})
                                    ELSE consumers[n][k]
<1> DEFINE key == w[1]
           source == w[2]
           sink == w[3]
           inputs == EraseAll(producers[sink][key], {source})
           outputs == EraseAll(consumers[source][key], {sink})
<1>1. key \in Key /\ source \in Node /\ sink \in Node
  BY WireNodes
<1>2. /\ producers' = [producers EXCEPT ![sink][key] = inputs]
      /\ consumers' = [consumers EXCEPT ![source][key] = outputs]
      /\ {source, sink} \subseteq Alive /\ ran' = << >>
      /\ UNCHANGED <<life, nodes, depth, fault, connects>>
  BY DEF Disconnect
<1> HIDE DEF key, source, sink
<1>3. /\ producers \in [Node -> [Key -> Seq(Node)]]
      /\ consumers \in [Node -> [Key -> Seq(Node)]]
      /\ \A n \in Node, k \in Key :
           producers[n][k] \in Seq(Node) /\ consumers[n][k] \in Seq(Node)
  BY DEF Links, GraphTypes
<1>4. inputs \in Seq(Node) /\ outputs \in Seq(Node)
  BY <1>1, <1>3, EraseAllLeaves
<1> HIDE DEF inputs, outputs
<1>5. /\ producers' \in [Node -> [Key -> Seq(Node)]]
      /\ consumers' \in [Node -> [Key -> Seq(Node)]]
      /\ \A n \in Node, k \in Key :
           /\ producers'[n][k] = IF n = sink /\ k = key THEN inputs ELSE producers[n][k]
           /\ consumers'[n][k] = IF n = source /\ k = key THEN outputs ELSE consumers[n][k]
  BY <1>1, <1>2, <1>3, <1>4, OneListChanges
<1>6. \A n \in Node, k \in Key : /\ Shorter(producers'[n][k], producers[n][k])
                                 /\ Shorter(consumers'[n][k], consumers[n][k])
  <2>1. /\ Shorter(inputs, producers[sink][key]) /\ Shorter(outputs, consumers[source][key])
        /\ \A n \in Node, k \in Key : /\ Shorter(producers[n][k], producers[n][k])
                                      /\ Shorter(consumers[n][k], consumers[n][k])
    BY <1>1, <1>3, EraseShortens DEF inputs, outputs
  <2> QED BY <1>5, <2>1
<1>7. Alive' = Alive
  BY <1>2 DEF Alive
<1>8. \A n \in Node \ Alive' : \A k \in Key :
         producers'[n][k] = << >> /\ consumers'[n][k] = << >>
  BY <1>2, <1>5, <1>7, DeadHaveNone
<1>9. InputsKept' /\ OutputsKept'
  BY <1>2, <1>5, <1>6, <1>8, ShorterInputs, ShorterOutputs
<1>10. GraphTypes' /\ NodesAreAlive'
  BY <1>2, <1>5, <1>7 DEF Links, GraphTypes, NodesAreAlive
<1> QED BY <1>5, <1>9, <1>10 DEF Links, key, source, sink, inputs, outputs

LEMMA DestroyKeeps ==
  ASSUME Links, NEW n \in Node, Destroy(n)
  PROVE  /\ Links'
         /\ Alive' = Alive \ {n}
         /\ \A m \in Node, k \in Key :
              /\ producers'[m][k] = IF m = n THEN << >>
                                    ELSE IF m \in ToldConsumers(n, k)
                                    THEN EraseAll(producers[m][k], {n})
                                    ELSE producers[m][k]
              /\ consumers'[m][k] = IF m = n THEN << >>
                                    ELSE IF m \in ToldProducers(n, k)
                                    THEN EraseAll(consumers[m][k], {n})
                                    ELSE consumers[m][k]
<1>1. /\ life' = [life EXCEPT ![n] = "gone"]
      /\ nodes' = EraseAll(nodes, {n})
      /\ producers' = [m \in Node |->
           IF m = n THEN Nothing
           ELSE [k \in Key |-> IF m \in ToldConsumers(n, k)
                               THEN EraseAll(producers[m][k], {n})
                               ELSE producers[m][k]]]
      /\ consumers' = [m \in Node |->
           IF m = n THEN Nothing
           ELSE [k \in Key |-> IF m \in ToldProducers(n, k)
                               THEN EraseAll(consumers[m][k], {n})
                               ELSE consumers[m][k]]]
      /\ fault' \in Faults /\ connects' = connects
  BY DEF Destroy, Faults
<1>2. /\ nodes \in Seq(Node) /\ connects \in 0 .. MaxConnects
      /\ life \in [Node -> {"unborn", "alive", "gone"}]
      /\ \A m \in Node, k \in Key :
           producers[m][k] \in Seq(Node) /\ consumers[m][k] \in Seq(Node)
  BY DEF Links, GraphTypes
<1>3. \A m \in Node, k \in Key :
        /\ producers'[m][k] = IF m = n THEN << >>
                              ELSE IF m \in ToldConsumers(n, k)
                              THEN EraseAll(producers[m][k], {n})
                              ELSE producers[m][k]
        /\ consumers'[m][k] = IF m = n THEN << >>
                              ELSE IF m \in ToldProducers(n, k)
                              THEN EraseAll(consumers[m][k], {n})
                              ELSE consumers[m][k]
  BY <1>1 DEF Nothing
<1>4. \A m \in Node, k \in Key : /\ Shorter(producers'[m][k], producers[m][k])
                                 /\ Shorter(consumers'[m][k], consumers[m][k])
  BY <1>2, <1>3, EraseShortens
<1>5. \A m \in Node : life'[m] = IF m = n THEN "gone" ELSE life[m]
  BY <1>1, <1>2
<1>6. Alive' = Alive \ {n}
  BY <1>5 DEF Alive
<1>7. producers' \in [Node -> [Key -> Seq(Node)]] /\ consumers' \in [Node -> [Key -> Seq(Node)]]
  <2>1. \A m \in Node, k \in Key : EraseAll(producers[m][k], {n}) \in Seq(Node)
                                   /\ EraseAll(consumers[m][k], {n}) \in Seq(Node)
    BY <1>2, EraseAllLeaves
  <2>2. Nothing \in [Key -> Seq(Node)]
    BY EmptyOnce DEF Nothing
  <2>3. producers' \in [Node -> [Key -> Seq(Node)]]
    BY <1>1, <1>2, <2>1, <2>2
  <2>4. consumers' \in [Node -> [Key -> Seq(Node)]]
    BY <1>1, <1>2, <2>1, <2>2
  <2> QED BY <2>3, <2>4
<1>8. \A m \in Node \ Alive' : \A k \in Key :
         producers'[m][k] = << >> /\ consumers'[m][k] = << >>
  <2> SUFFICES ASSUME NEW m \in Node \ Alive', NEW k \in Key, m # n
               PROVE  producers'[m][k] = << >> /\ consumers'[m][k] = << >>
    BY <1>3
  <2>1. producers[m][k] = << >> /\ consumers[m][k] = << >>
    BY <1>6, DeadHaveNone
  <2>2. ToSet(producers'[m][k]) = {} /\ ToSet(consumers'[m][k]) = {}
    BY <1>4, <2>1, EmptyOnce DEF Shorter
  <2> QED BY <1>7, <2>2, EmptyWhenNoElement
<1>9. InputsKept' /\ OutputsKept'
  BY <1>4, <1>5, <1>7, <1>8, ShorterInputs, ShorterOutputs
<1>10. NodesAreAlive'
  <2>1. /\ ToSet(EraseAll(nodes, {n})) = ToSet(nodes) \ {n}
        /\ IsInjective(nodes) => IsInjective(EraseAll(nodes, {n}))
    BY <1>2, EraseAllLeaves
  <2> QED BY <1>1, <1>6, <2>1 DEF Links, NodesAreAlive
<1>11. GraphTypes'
  <2>1. EraseAll(nodes, {n}) \in Seq(Node)
    BY <1>2, EraseAllLeaves
  <2> QED BY <1>1, <1>2, <1>7, <2>1 DEF GraphTypes
<1> QED BY <1>3, <1>6, <1>9, <1>10, <1>11 DEF Links

\* A node is added at the end of one list.
Grown(q, s, added, x) == q = IF added THEN Append(s, x) ELSE s

LEMMA GrownOnce ==
  ASSUME NEW s \in Seq(Node), NEW x \in Node, NEW added, NEW q,
         Grown(q, s, added, x), IsInjective(s), added => x \notin ToSet(s)
  PROVE  /\ q \in Seq(Node) /\ IsInjective(q)
         /\ ToSet(q) = IF added THEN ToSet(s) \cup {x} ELSE ToSet(s)
BY AppendLeaves DEF Grown

LEMMA ConnectKeeps ==
  ASSUME Links, NEW w \in Wires,
         Connect(w[1], w[2], w[3]) \/ ConnectHalfway(w[1], w[2], w[3])
  PROVE  /\ Links'
         /\ life' = life /\ nodes' = nodes /\ ran' = << >>
         /\ w[2] \in Alive /\ w[3] \in Alive
         /\ w[2] \notin ToSet(producers[w[3]][w[1]])
         /\ \A n \in Node, k \in Key :
              Grown(producers'[n][k], producers[n][k], n = w[3] /\ k = w[1], w[2])
         /\ \/ consumers' = consumers
            \/ /\ fault' = "none" /\ w[3] \notin ToSet(consumers[w[2]][w[1]])
               /\ \A n \in Node, k \in Key :
                    Grown(consumers'[n][k], consumers[n][k], n = w[2] /\ k = w[1], w[3])
         /\ fault' = "none" /\ OutputAccepts(w[1], w[2], w[3]) =>
               \A n \in Node, k \in Key :
                 Grown(consumers'[n][k], consumers[n][k], n = w[2] /\ k = w[1], w[3])
         /\ ~OutputAccepts(w[1], w[2], w[3]) => consumers' = consumers
<1> DEFINE key == w[1]
           source == w[2]
           sink == w[3]
           inputs == Append(producers[sink][key], source)
           outputs == Append(consumers[source][key], sink)
           walk == SetDepth(sink, depth[source] + 1)
<1>1. /\ key \in Key /\ source \in Node /\ sink \in Node
      /\ w = <<key, source, sink>> /\ <<key, source, sink>> \in Wires
  BY WireNodes
<1>2. /\ MayConnect(key, source, sink) /\ ConnectInput(key, source, sink)
      /\ life' = life /\ nodes' = nodes
  BY DEF Connect, ConnectHalfway
<1>3. \/ /\ OutputAccepts(key, source, sink)
         /\ consumers' = IF fault' = "none"
                         THEN [consumers EXCEPT ![source][key] = outputs] ELSE consumers
      \/ ~OutputAccepts(key, source, sink) /\ consumers' = consumers
  BY DEF Connect, ConnectHalfway
<1> HIDE DEF key, source, sink
<1>4. /\ {source, sink} \subseteq Alive /\ connects < MaxConnects
      /\ connects' = connects + 1 /\ ran' = << >>
  BY <1>2 DEF MayConnect
<1>5. /\ InputAccepts(key, source, sink)
      /\ producers' = [producers EXCEPT ![sink][key] = inputs]
      /\ fault' = FaultOf(walk)
  BY <1>2 DEF ConnectInput
<1>6. fault' \in Faults
  BY <1>5 DEF FaultOf, Faults
<1>7. /\ producers \in [Node -> [Key -> Seq(Node)]]
      /\ consumers \in [Node -> [Key -> Seq(Node)]]
      /\ \A n \in Node, k \in Key :
           /\ producers[n][k] \in Seq(Node) /\ consumers[n][k] \in Seq(Node)
           /\ IsInjective(producers[n][k]) /\ IsInjective(consumers[n][k])
  BY DEF Links, GraphTypes, InputsKept, OutputsKept
<1>8. inputs \in Seq(Node) /\ outputs \in Seq(Node)
  BY <1>1, <1>7, AppendLeaves
<1> HIDE DEF inputs, outputs
<1>9. /\ producers' \in [Node -> [Key -> Seq(Node)]]
      /\ \A n \in Node, k \in Key :
           producers'[n][k] = IF n = sink /\ k = key THEN inputs ELSE producers[n][k]
  BY <1>1, <1>5, <1>7, <1>8, OneListChanges
<1>10. /\ [consumers EXCEPT ![source][key] = outputs] \in [Node -> [Key -> Seq(Node)]]
       /\ \A n \in Node, k \in Key :
            [consumers EXCEPT ![source][key] = outputs][n][k]
              = IF n = source /\ k = key THEN outputs ELSE consumers[n][k]
  BY <1>1, <1>7, <1>8, OneListChanges
<1>11. \A n \in Node, k \in Key :
          Grown(producers'[n][k], producers[n][k], n = sink /\ k = key, source)
  BY <1>9 DEF Grown, inputs
<1>12. consumers' # consumers =>
         /\ fault' = "none" /\ OutputAccepts(key, source, sink)
         /\ consumers' = [consumers EXCEPT ![source][key] = outputs]
  BY <1>3
<1>13. fault' = "none" /\ OutputAccepts(key, source, sink) =>
         \A n \in Node, k \in Key :
            Grown(consumers'[n][k], consumers[n][k], n = source /\ k = key, sink)
  BY <1>3, <1>10 DEF Grown, outputs
<1>14. consumers' \in [Node -> [Key -> Seq(Node)]]
  BY <1>7, <1>10, <1>12
<1>15. source \notin ToSet(producers[sink][key]) /\ InputRouting[sink][key] # Unregistered
  BY <1>5 DEF InputAccepts
<1>16. OutputAccepts(key, source, sink) =>
         sink \notin ToSet(consumers[source][key]) /\ OutputRouting[source][key] # Unregistered
  BY DEF OutputAccepts
<1>17. Alive' = Alive /\ life[source] # "unborn" /\ life[sink] # "unborn"
  BY <1>2, <1>4 DEF Alive
<1>18. InputsKept'
  <2> SUFFICES ASSUME NEW n \in Node, NEW k \in Key
               PROVE  /\ IsInjective(producers'[n][k])
                      /\ InputRouting[n][k] = Unregistered => producers'[n][k] = << >>
                      /\ \A m \in ToSet(producers'[n][k]) :
                           <<k, m, n>> \in Wires /\ n \in Alive' /\ life'[m] # "unborn"
    BY DEF InputsKept
  <2>1. /\ InputRouting[n][k] = Unregistered => producers[n][k] = << >>
        /\ \A m \in ToSet(producers[n][k]) :
             <<k, m, n>> \in Wires /\ n \in Alive /\ life[m] # "unborn"
    BY DEF Links, InputsKept
  <2>2. CASE n = sink /\ k = key
    <3>1. IsInjective(inputs) /\ ToSet(inputs) = ToSet(producers[n][k]) \cup {source}
      BY <1>1, <1>7, <1>15, <2>2, AppendLeaves DEF inputs
    <3> QED BY <1>1, <1>2, <1>4, <1>9, <1>15, <1>17, <2>1, <2>2, <3>1
  <2>3. CASE ~(n = sink /\ k = key)
    <3>1. producers'[n][k] = producers[n][k]
      BY <1>9, <2>3
    <3> QED BY <1>2, <1>7, <1>17, <2>1, <3>1
  <2> QED BY <2>2, <2>3
<1>19. OutputsKept'
  <2>1. CASE consumers' = consumers
    BY <1>2, <1>17, <2>1 DEF Links, OutputsKept
  <2>2. CASE consumers' # consumers
    <3> SUFFICES ASSUME NEW n \in Node, NEW k \in Key
                 PROVE  /\ IsInjective(consumers'[n][k])
                        /\ OutputRouting[n][k] = Unregistered => consumers'[n][k] = << >>
                        /\ \A m \in ToSet(consumers'[n][k]) :
                             <<k, n, m>> \in Wires /\ n \in Alive' /\ life'[m] # "unborn"
      BY DEF OutputsKept
    <3>1. /\ OutputRouting[n][k] = Unregistered => consumers[n][k] = << >>
          /\ \A m \in ToSet(consumers[n][k]) :
               <<k, n, m>> \in Wires /\ n \in Alive /\ life[m] # "unborn"
      BY DEF Links, OutputsKept
    <3>2. consumers'[n][k] = IF n = source /\ k = key THEN outputs ELSE consumers[n][k]
      BY <1>10, <1>12, <2>2
    <3>3. CASE n = source /\ k = key
      <4>1. IsInjective(outputs) /\ ToSet(outputs) = ToSet(consumers[n][k]) \cup {sink}
        BY <1>1, <1>7, <1>12, <1>16, <2>2, <3>3, AppendLeaves DEF outputs
      <4> QED BY <1>1, <1>2, <1>4, <1>12, <1>16, <1>17, <2>2, <3>1, <3>2, <3>3, <4>1
    <3>4. CASE ~(n = source /\ k = key)
      BY <1>2, <1>7, <1>17, <3>1, <3>2, <3>4
    <3> QED BY <3>3, <3>4
  <2> QED BY <2>1, <2>2
<1>20. GraphTypes' /\ NodesAreAlive'
  <2>1. connects' \in 0 .. MaxConnects
    BY <1>4, RendergraphAssumption DEF Links, GraphTypes
  <2> QED BY <1>2, <1>6, <1>9, <1>14, <1>17, <2>1 DEF Links, GraphTypes, NodesAreAlive
<1>21. \/ consumers' = consumers
       \/ /\ fault' = "none" /\ sink \notin ToSet(consumers[source][key])
          /\ \A n \in Node, k \in Key :
               Grown(consumers'[n][k], consumers[n][k], n = source /\ k = key, sink)
  BY <1>12, <1>13, <1>16
<1>22. ~OutputAccepts(key, source, sink) => consumers' = consumers
  BY <1>12
<1> QED BY <1>2, <1>4, <1>11, <1>13, <1>15, <1>18, <1>19, <1>20, <1>21, <1>22
        DEF Links, key, source, sink

-----------------------------------------------------------------------------
(* The two ends of a connection.                                           *)

LEMMA CreateKeepsEnds ==
  ASSUME Links, EndsAgree, NEW n \in Node, Create(n)
  PROVE  EndsAgree'
<1>1. /\ life[n] = "unborn" /\ life' = [life EXCEPT ![n] = "alive"] /\ fault = "none"
      /\ producers' = producers /\ consumers' = consumers
  BY DEF Create, Working
<1>2. \A m \in Node : m # n => (m \in Alive' => m \in Alive)
  BY <1>1 DEF Alive, Links, GraphTypes
<1>3. n \notin Alive
  BY <1>1 DEF Alive
<1>4. \A m \in Node, k \in Key :
         /\ n \notin ToSet(producers[m][k]) /\ n \notin ToSet(consumers[m][k])
         /\ ToSet(producers[n][k]) = {} /\ ToSet(consumers[n][k]) = {}
  BY <1>1, <1>3, DeadHaveNone, EmptyOnce DEF Links, InputsKept, OutputsKept
<1> SUFFICES ASSUME NEW w \in Wires, {w[2], w[3]} \subseteq Alive'
             PROVE  /\ w[3] \in ToSet(consumers[w[2]][w[1]]) => w[2] \in ToSet(producers[w[3]][w[1]])
                    /\ (/\ w[2] \in ToSet(producers[w[3]][w[1]])
                        /\ OutputRouting[w[2]][w[1]] \in {"none", "by_producer"})
                          => w[3] \in ToSet(consumers[w[2]][w[1]])
  BY <1>1 DEF EndsAgree
<1>5. w[1] \in Key /\ w[2] \in Node /\ w[3] \in Node
  BY WireNodes
<1>6. CASE w[2] = n
  BY <1>4, <1>5, <1>6
<1>7. CASE w[3] = n
  BY <1>4, <1>5, <1>7
<1>8. CASE w[2] # n /\ w[3] # n
  BY <1>1, <1>2, <1>5, <1>8 DEF EndsAgree
<1> QED BY <1>6, <1>7, <1>8

LEMMA ConnectKeepsEnds ==
  ASSUME Links, EndsAgree, NEW v \in Wires,
         Connect(v[1], v[2], v[3]) \/ ConnectHalfway(v[1], v[2], v[3])
  PROVE  EndsAgree'
<1>1. /\ v[1] \in Key /\ v[2] \in Node /\ v[3] \in Node
      /\ v = <<v[1], v[2], v[3]>>
  BY WireNodes
<1>2. /\ life' = life /\ v[2] \in Alive /\ v[3] \in Alive
      /\ \A n \in Node, k \in Key :
           Grown(producers'[n][k], producers[n][k], n = v[3] /\ k = v[1], v[2])
      /\ fault' = "none" /\ OutputAccepts(v[1], v[2], v[3]) =>
            \A n \in Node, k \in Key :
              Grown(consumers'[n][k], consumers[n][k], n = v[2] /\ k = v[1], v[3])
      /\ ~OutputAccepts(v[1], v[2], v[3]) => consumers' = consumers
  BY ConnectKeeps
<1>3. fault = "none"
  BY DEF Connect, ConnectHalfway, MayConnect, Working
<1>4. Alive' = Alive
  BY <1>2 DEF Alive
<1>5. \A n \in Node, k \in Key :
        /\ producers[n][k] \in Seq(Node) /\ consumers[n][k] \in Seq(Node)
  BY DEF Links, GraphTypes
<1>6. \A n \in Node, k \in Key :
        ToSet(producers'[n][k]) = ToSet(producers[n][k])
                                    \cup (IF n = v[3] /\ k = v[1] THEN {v[2]} ELSE {})
  BY <1>1, <1>2, <1>5, AppendLeaves DEF Grown
<1> SUFFICES ASSUME NEW w \in Wires, {w[2], w[3]} \subseteq Alive, fault' = "none"
             PROVE  /\ w[3] \in ToSet(consumers'[w[2]][w[1]]) => w[2] \in ToSet(producers'[w[3]][w[1]])
                    /\ (/\ w[2] \in ToSet(producers'[w[3]][w[1]])
                        /\ OutputRouting[w[2]][w[1]] \in {"none", "by_producer"})
                          => w[3] \in ToSet(consumers'[w[2]][w[1]])
  BY <1>4 DEF EndsAgree
<1>7. /\ w[1] \in Key /\ w[2] \in Node /\ w[3] \in Node
      /\ w[3] \in ToSet(consumers[w[2]][w[1]]) => w[2] \in ToSet(producers[w[3]][w[1]])
      /\ (/\ w[2] \in ToSet(producers[w[3]][w[1]])
          /\ OutputRouting[w[2]][w[1]] \in {"none", "by_producer"})
            => w[3] \in ToSet(consumers[w[2]][w[1]])
  BY <1>3, WireNodes DEF EndsAgree
<1>8. CASE OutputAccepts(v[1], v[2], v[3])
  <2>1. \A n \in Node, k \in Key :
          ToSet(consumers'[n][k]) = ToSet(consumers[n][k])
                                      \cup (IF n = v[2] /\ k = v[1] THEN {v[3]} ELSE {})
    BY <1>1, <1>2, <1>5, <1>8, AppendLeaves DEF Grown
  <2>2. w[2] \in ToSet(producers'[w[3]][w[1]])
          <=> \/ w[2] \in ToSet(producers[w[3]][w[1]])
              \/ w[3] = v[3] /\ w[1] = v[1] /\ w[2] = v[2]
    BY <1>6, <1>7
  <2>3. w[3] \in ToSet(consumers'[w[2]][w[1]])
          <=> \/ w[3] \in ToSet(consumers[w[2]][w[1]])
              \/ w[2] = v[2] /\ w[1] = v[1] /\ w[3] = v[3]
    BY <1>7, <2>1
  <2> QED BY <1>7, <2>2, <2>3
<1>9. CASE ~OutputAccepts(v[1], v[2], v[3])
  <2>1. OutputRouting[v[2]][v[1]] \in {"none", "by_producer"}
          => v[3] \in ToSet(consumers[v[2]][v[1]])
    BY <1>9 DEF OutputAccepts, Unregistered
  <2>2. consumers' = consumers
    BY <1>2, <1>9
  <2> QED BY <1>1, <1>6, <1>7, <2>1, <2>2
<1> QED BY <1>8, <1>9

LEMMA DisconnectKeepsEnds ==
  ASSUME Links, EndsAgree, NEW v \in Wires, Disconnect(v[1], v[2], v[3])
  PROVE  EndsAgree'
<1>1. v[1] \in Key /\ v[2] \in Node /\ v[3] \in Node
  BY WireNodes
<1>2. \A n \in Node, k \in Key :
         /\ producers'[n][k] = IF n = v[3] /\ k = v[1]
                               THEN EraseAll(producers[n][k], {v[2]}) ELSE producers[n][k]
         /\ consumers'[n][k] = IF n = v[2] /\ k = v[1]
                               THEN EraseAll(consumers[n][k], {v[3]}) ELSE consumers[n][k]
  BY DisconnectKeeps
<1>3. fault = "none" /\ Alive' = Alive
  BY DEF Disconnect, Working, Alive
<1>4. \A n \in Node, k \in Key :
        /\ producers[n][k] \in Seq(Node) /\ consumers[n][k] \in Seq(Node)
  BY DEF Links, GraphTypes
<1>5. \A n \in Node, k \in Key :
        /\ ToSet(producers'[n][k]) = ToSet(producers[n][k])
                                       \ (IF n = v[3] /\ k = v[1] THEN {v[2]} ELSE {})
        /\ ToSet(consumers'[n][k]) = ToSet(consumers[n][k])
                                       \ (IF n = v[2] /\ k = v[1] THEN {v[3]} ELSE {})
  BY <1>2, <1>4, EraseAllLeaves
<1> SUFFICES ASSUME NEW w \in Wires, {w[2], w[3]} \subseteq Alive
             PROVE  /\ w[3] \in ToSet(consumers'[w[2]][w[1]]) => w[2] \in ToSet(producers'[w[3]][w[1]])
                    /\ (/\ w[2] \in ToSet(producers'[w[3]][w[1]])
                        /\ OutputRouting[w[2]][w[1]] \in {"none", "by_producer"})
                          => w[3] \in ToSet(consumers'[w[2]][w[1]])
  BY <1>3 DEF EndsAgree
<1>6. /\ w[1] \in Key /\ w[2] \in Node /\ w[3] \in Node
      /\ w[3] \in ToSet(consumers[w[2]][w[1]]) => w[2] \in ToSet(producers[w[3]][w[1]])
      /\ (/\ w[2] \in ToSet(producers[w[3]][w[1]])
          /\ OutputRouting[w[2]][w[1]] \in {"none", "by_producer"})
            => w[3] \in ToSet(consumers[w[2]][w[1]])
  BY <1>3, WireNodes DEF EndsAgree
<1>7. w[2] \in ToSet(producers'[w[3]][w[1]])
        <=> /\ w[2] \in ToSet(producers[w[3]][w[1]])
            /\ ~(w[3] = v[3] /\ w[1] = v[1] /\ w[2] = v[2])
  BY <1>5, <1>6
<1>8. w[3] \in ToSet(consumers'[w[2]][w[1]])
        <=> /\ w[3] \in ToSet(consumers[w[2]][w[1]])
            /\ ~(w[2] = v[2] /\ w[1] = v[1] /\ w[3] = v[3])
  BY <1>5, <1>6
<1> QED BY <1>6, <1>7, <1>8

LEMMA DestroyKeepsEnds ==
  ASSUME Links, EndsAgree, NEW n \in Node, Destroy(n)
  PROVE  EndsAgree'
<1>1. /\ Alive' = Alive \ {n}
      /\ \A m \in Node, k \in Key :
           /\ producers'[m][k] = IF m = n THEN << >>
                                 ELSE IF m \in ToldConsumers(n, k)
                                 THEN EraseAll(producers[m][k], {n}) ELSE producers[m][k]
           /\ consumers'[m][k] = IF m = n THEN << >>
                                 ELSE IF m \in ToldProducers(n, k)
                                 THEN EraseAll(consumers[m][k], {n}) ELSE consumers[m][k]
  BY DestroyKeeps
<1>2. fault = "none"
  BY DEF Destroy, Working
<1>3. \A m \in Node, k \in Key :
        /\ producers[m][k] \in Seq(Node) /\ consumers[m][k] \in Seq(Node)
  BY DEF Links, GraphTypes
<1>4. \A m \in Node, k \in Key : m # n =>
        /\ ToSet(producers'[m][k]) \ {n} = ToSet(producers[m][k]) \ {n}
        /\ ToSet(consumers'[m][k]) \ {n} = ToSet(consumers[m][k]) \ {n}
  BY <1>1, <1>3, EraseAllLeaves
<1> SUFFICES ASSUME NEW w \in Wires, {w[2], w[3]} \subseteq Alive'
             PROVE  /\ w[3] \in ToSet(consumers'[w[2]][w[1]]) => w[2] \in ToSet(producers'[w[3]][w[1]])
                    /\ (/\ w[2] \in ToSet(producers'[w[3]][w[1]])
                        /\ OutputRouting[w[2]][w[1]] \in {"none", "by_producer"})
                          => w[3] \in ToSet(consumers'[w[2]][w[1]])
  BY DEF EndsAgree
<1>5. {w[2], w[3]} \subseteq Alive /\ w[2] # n /\ w[3] # n
  BY <1>1
<1>6. /\ w[1] \in Key /\ w[2] \in Node /\ w[3] \in Node
      /\ w[3] \in ToSet(consumers[w[2]][w[1]]) => w[2] \in ToSet(producers[w[3]][w[1]])
      /\ (/\ w[2] \in ToSet(producers[w[3]][w[1]])
          /\ OutputRouting[w[2]][w[1]] \in {"none", "by_producer"})
            => w[3] \in ToSet(consumers[w[2]][w[1]])
  BY <1>2, <1>5, WireNodes DEF EndsAgree
<1> QED BY <1>4, <1>5, <1>6

-----------------------------------------------------------------------------
(***************************************************************************)
(* What sort() takes: each node once, after its producers, until none is   *)
(* left that is ready.                                                     *)
(***************************************************************************)
ReadyAfter(q) ==
  {j \in DOMAIN nodes : nodes[j] \notin ToSet(q) /\ ProducersOf(nodes[j]) \subseteq ToSet(q)}

Takes(run) ==
  /\ run[0] = << >>
  /\ \A k \in 1 .. Len(nodes) :
       run[k] = IF ReadyAfter(run[k - 1]) = {} THEN run[k - 1]
                ELSE Append(run[k - 1], nodes[Min(ReadyAfter(run[k - 1]))])

LEMMA TakenRuns ==
  ASSUME nodes \in Seq(Node)
  PROVE  \E run \in [0 .. Len(nodes) -> Seq(Node)] : Takes(run) /\ Taken = run[Len(nodes)]
<1> DEFINE n == Len(nodes)
           Next1(q) == IF ReadyAfter(q) = {} THEN q
                       ELSE Append(q, nodes[Min(ReadyAfter(q))])
           step == [k \in 1 .. n |-> [q \in Seq(Node) |-> Next1(q)]]
           Iterates(f) ==
             f = [i \in 0 .. n |->
                    IF i = 0 THEN << >>
                    ELSE IF {j \in DOMAIN nodes :
                               /\ nodes[j] \notin ToSet(f[i - 1])
                               /\ ProducersOf(nodes[j]) \subseteq ToSet(f[i - 1])} = {}
                    THEN f[i - 1]
                    ELSE Append(f[i - 1],
                                nodes[Min({j \in DOMAIN nodes :
                                             /\ nodes[j] \notin ToSet(f[i - 1])
                                             /\ ProducersOf(nodes[j]) \subseteq ToSet(f[i - 1])})])]
           it == CHOOSE f : Iterates(f)
<1>1. n \in Nat /\ DOMAIN nodes = 1 .. n /\ << >> \in Seq(Node) /\ \A k \in 1 .. n : nodes[k] \in Node
  OBVIOUS
<1>2. Taken = it[n]
  BY DEF Taken, TakenWhen
<1>3. ASSUME NEW q \in Seq(Node) PROVE Next1(q) \in Seq(Node)
  <2>1. CASE ReadyAfter(q) = {}
    BY <2>1
  <2>2. CASE ReadyAfter(q) # {}
    <3>1. ReadyAfter(q) \in SUBSET Nat
      BY <1>1 DEF ReadyAfter
    <3>2. Min(ReadyAfter(q)) \in DOMAIN nodes
      BY <2>2, <3>1, MinOfSome DEF ReadyAfter
    <3> QED BY <1>1, <3>2, AppendLeaves
  <2> QED BY <2>1, <2>2
<1> HIDE DEF Next1, n
<1>4. step \in [1 .. n -> [Seq(Node) -> Seq(Node)]]
  BY <1>3
<1>5. PICK f \in [0 .. n -> Seq(Node)] : Steps(n, << >>, step, f)
  <2> HIDE DEF step
  <2> QED BY <1>1, <1>4, StepsExist
<1>6. f = [i \in 0 .. n |-> IF i = 0 THEN << >> ELSE Next1(f[i - 1])]
  <2>1. \A i \in 1 .. n : \A q \in Seq(Node) : step[i][q] = Next1(q)
    OBVIOUS
  <2>2. f = [i \in 0 .. n |-> IF i = 0 THEN << >> ELSE step[i][f[i - 1]]]
    BY <1>5 DEF Steps
  <2>3. \A i \in 0 .. n : i # 0 => i \in 1 .. n /\ i - 1 \in 0 .. n
    BY <1>1
  <2>4. \A i \in 0 .. n : i # 0 => step[i][f[i - 1]] = Next1(f[i - 1])
    <3> HIDE DEF step
    <3> QED BY <1>5, <2>1, <2>3
  <2> HIDE DEF step
  <2> QED BY <2>2, <2>4
<1>7. \A g : Iterates(g) <=> g = [i \in 0 .. n |-> IF i = 0 THEN << >> ELSE Next1(g[i - 1])]
  BY DEF Next1, ReadyAfter
<1> HIDE DEF Iterates
<1>8. Iterates(f)
  BY <1>6, <1>7
<1>9. it = [i \in 0 .. n |-> IF i = 0 THEN << >> ELSE Next1(it[i - 1])]
  <2>1. Iterates(it)
    BY <1>8
  <2> HIDE DEF it
  <2> QED BY <1>7, <2>1
<1> HIDE DEF it
<1>10. it[0] = << >> /\ \A k \in 1 .. n : it[k] = Next1(it[k - 1])
  <2>1. 0 \in 0 .. n /\ \A k \in 1 .. n : k \in 0 .. n /\ k # 0
    BY <1>1
  <2> QED BY <1>9, <2>1
<1>11. Takes(it)
  BY <1>10 DEF Takes, Next1, n
<1>12. \A k \in 0 .. n : it[k] \in Seq(Node)
  <2> DEFINE T == {k \in 0 .. n : it[k] \in Seq(Node)}
  <2>1. 0 \in T
    <3>1. 0 \in 0 .. n
      BY <1>1
    <3> QED BY <1>1, <1>10, <3>1
  <2>2. ASSUME NEW k \in 0 .. n - 1, k \in T PROVE k + 1 \in T
    <3>1. k + 1 \in 1 .. n /\ (k + 1) - 1 = k /\ k + 1 \in 0 .. n
      BY <1>1
    <3>2. it[k + 1] = Next1(it[k])
      BY <1>10, <3>1
    <3> QED BY <1>3, <2>2, <3>1, <3>2
  <2>3. 0 .. n \subseteq T
    <3> HIDE DEF T
    <3> QED BY <2>1, <2>2, <1>1, CountingUp
  <2> QED BY <2>3
<1>13. it \in [0 .. n -> Seq(Node)]
  BY <1>9, <1>12
<1> QED BY <1>2, <1>11, <1>13 DEF n

\* An order of some of the nodes, after k steps: no node comes before one of its
\* producers.
OrderAfter(q, k) ==
  /\ q \in Seq(Node) /\ IsInjective(q) /\ ToSet(q) \subseteq ToSet(nodes)
  /\ \A i \in 1 .. Len(q) : \A m \in ProducersOf(q[i]) :
       \E j \in 1 .. Len(q) : j < i /\ q[j] = m
  /\ Len(q) = k \/ ReadyAfter(q) = {}

LEMMA TakenInOrder ==
  ASSUME nodes \in Seq(Node)
  PROVE  OrderAfter(Taken, Len(nodes))
<1> DEFINE n == Len(nodes)
<1>1. PICK run \in [0 .. n -> Seq(Node)] : Takes(run) /\ Taken = run[n]
  BY TakenRuns
<1>2. n \in Nat /\ DOMAIN nodes = 1 .. n /\ \A k \in 1 .. n : nodes[k] \in Node
  OBVIOUS
<1>3. /\ run[0] = << >>
      /\ \A k \in 1 .. n :
           run[k] = IF ReadyAfter(run[k - 1]) = {} THEN run[k - 1]
                    ELSE Append(run[k - 1], nodes[Min(ReadyAfter(run[k - 1]))])
  BY <1>1 DEF Takes
<1> HIDE DEF n
<1> DEFINE T == {k \in 0 .. n : OrderAfter(run[k], k)}
<1>4. 0 \in T
  <2>1. OrderAfter(<< >>, 0)
    BY EmptyOnce DEF OrderAfter
  <2>2. 0 \in 0 .. n
    BY <1>2
  <2> QED BY <1>3, <2>1, <2>2
<1>5. ASSUME NEW k \in 0 .. n - 1, k \in T PROVE k + 1 \in T
  <2>1. k \in Nat /\ k + 1 \in 1 .. n /\ (k + 1) - 1 = k /\ k + 1 \in 0 .. n
    BY <1>2
  <2> DEFINE q == run[k]
             r == run[k + 1]
             ready == ReadyAfter(q)
  <2>2. r = IF ready = {} THEN q ELSE Append(q, nodes[Min(ready)])
    BY <1>3, <2>1
  <2>3. OrderAfter(q, k)
    BY <1>5
  <2> HIDE DEF q, r, ready
  <2>4. CASE ready = {}
    <3>1. OrderAfter(q, k + 1)
      BY <2>3, <2>4 DEF OrderAfter, ready
    <3> QED BY <2>1, <2>2, <2>4, <3>1 DEF r
  <2>5. CASE ready # {}
    <3> DEFINE x == nodes[Min(ready)]
               l == Len(q)
    <3>1. ready \in SUBSET Nat
      BY <1>2 DEF ready, ReadyAfter
    <3>2. Min(ready) \in ready
      BY <2>5, <3>1, MinOfSome
    <3>3. /\ x \in Node /\ x \in ToSet(nodes) /\ x \notin ToSet(q)
          /\ ProducersOf(x) \subseteq ToSet(q)
      BY <1>2, <3>2 DEF ready, ReadyAfter, ToSet
    <3> HIDE DEF x
    <3>4. q \in Seq(Node) /\ r = Append(q, x) /\ l = k
      BY <2>2, <2>3, <2>5 DEF OrderAfter, x, ready
    <3>5. /\ r \in Seq(Node) /\ ToSet(r) = ToSet(q) \cup {x} /\ IsInjective(r)
      BY <2>3, <3>3, <3>4, AppendLeaves DEF OrderAfter
    <3>6. /\ Len(r) = l + 1 /\ l \in Nat /\ DOMAIN q = 1 .. l
          /\ r[l + 1] = x /\ \A i \in 1 .. l : r[i] = q[i]
      BY <3>4
    <3>7. \A i \in 1 .. l : \A m \in ProducersOf(q[i]) : \E j \in 1 .. l : j < i /\ q[j] = m
      BY <2>3 DEF OrderAfter
    <3>8. ASSUME NEW i \in 1 .. l + 1, NEW m \in ProducersOf(r[i])
          PROVE  \E j \in 1 .. l + 1 : j < i /\ r[j] = m
      <4>1. CASE i = l + 1
        <5>1. m \in ToSet(q)
          BY <3>3, <3>6, <3>8, <4>1
        <5>2. PICK j \in 1 .. l : q[j] = m
          BY <3>6, <5>1 DEF ToSet
        <5>3. j \in 1 .. l + 1 /\ j < i /\ r[j] = m
          BY <3>6, <4>1, <5>2
        <5> QED BY <5>3
      <4>2. CASE i # l + 1
        <5>1. i \in 1 .. l /\ r[i] = q[i]
          BY <3>6, <4>2
        <5>2. PICK j \in 1 .. l : j < i /\ q[j] = m
          BY <3>7, <3>8, <5>1
        <5>3. j \in 1 .. l + 1 /\ j < i /\ r[j] = m
          BY <3>6, <5>2
        <5> QED BY <5>3
      <4> QED BY <4>1, <4>2
    <3>9. OrderAfter(r, k + 1)
      <4>1. ToSet(r) \subseteq ToSet(nodes)
        BY <2>3, <3>3, <3>5 DEF OrderAfter
      <4>2. \A i \in 1 .. Len(r) : \A m \in ProducersOf(r[i]) :
              \E j \in 1 .. Len(r) : j < i /\ r[j] = m
        <5> HIDE DEF l
        <5> QED BY <3>6, <3>8
      <4> QED BY <3>4, <3>5, <3>6, <4>1, <4>2 DEF OrderAfter
    <3> QED BY <2>1, <3>9 DEF r
  <2> QED BY <2>4, <2>5
<1>6. n \in T
  <2> HIDE DEF T
  <2>1. 0 .. n \subseteq T
    BY <1>2, <1>4, <1>5, CountingUp
  <2> QED BY <1>2, <2>1
<1> QED BY <1>1, <1>6 DEF n

LEMMA ExecuteKeeps ==
  ASSUME Links, Execute
  PROVE  Links' /\ RanTheNodes' /\ FrameInOrder'
<1> DEFINE order == Taken
<1>1. /\ fault = "none" /\ Len(order) = Len(nodes) /\ nodes' = order /\ ran' = order
      /\ UNCHANGED <<life, producers, consumers, depth, fault, connects>>
  BY DEF Execute, Sorted, Working
<1>2. OrderAfter(order, Len(nodes)) /\ nodes \in Seq(Node)
  BY TakenInOrder DEF Links, GraphTypes
<1> HIDE DEF order
<1>3. /\ order \in Seq(Node) /\ IsInjective(order) /\ ToSet(order) \subseteq ToSet(nodes)
      /\ \A i \in 1 .. Len(order) : \A m \in ProducersOf(order[i]) :
           \E j \in 1 .. Len(order) : j < i /\ order[j] = m
  BY <1>2 DEF OrderAfter
<1>4. Alive' = Alive
  BY <1>1 DEF Alive
<1>5. ToSet(order) = ToSet(nodes)
  <2>1. IsFiniteSet(ToSet(nodes)) /\ Cardinality(ToSet(nodes)) = Len(nodes)
    BY <1>2, LengthOfInjective DEF Links, NodesAreAlive
  <2>2. Cardinality(ToSet(order)) = Len(order)
    BY <1>3, LengthOfInjective
  <2> QED BY <1>1, <1>3, <2>1, <2>2, FS_Subset
<1>6. NodesAreAlive' /\ GraphTypes'
  BY <1>1, <1>3, <1>4, <1>5 DEF Links, NodesAreAlive, GraphTypes
<1>7. InputsKept' /\ OutputsKept'
  BY <1>1, <1>4 DEF Links, InputsKept, OutputsKept
<1>8. FrameInOrder'
  <2>1. \A n : ProducersOf(n)' = ProducersOf(n)
    BY <1>1 DEF ProducersOf
  <2>2. ASSUME NEW i \in DOMAIN order, NEW j \in DOMAIN order, order[j] \in ProducersOf(order[i])
        PROVE  j < i
    <3>1. DOMAIN order = 1 .. Len(order)
      BY <1>3
    <3>2. PICK h \in 1 .. Len(order) : h < i /\ order[h] = order[j]
      BY <1>3, <2>2, <3>1
    <3>3. h = j
      BY <1>3, <3>1, <3>2 DEF IsInjective
    <3> QED BY <3>2, <3>3
  <2> QED BY <1>1, <2>1, <2>2 DEF FrameInOrder
<1> QED BY <1>1, <1>6, <1>7, <1>8 DEF Links, RanTheNodes

\* A frame without an order: the nodes that sort() has not taken go round.
LEMMA ExecuteUnsortedKeeps ==
  ASSUME Links, ExecuteUnsorted
  PROVE  Links' /\ RanTheNodes' /\ FrameInOrder'
<1> DEFINE order == Taken
<1>1. /\ Len(order) # Len(nodes) /\ ran' = nodes
      /\ fault' = IF (UNION {ProducersOf(n) : n \in ToSet(nodes)}) \intersect Gone # {}
                  THEN "use after free" ELSE "none"
      /\ UNCHANGED <<life, nodes, producers, consumers, depth, connects>>
  BY DEF ExecuteUnsorted, Sorted
<1>2. OrderAfter(order, Len(nodes)) /\ nodes \in Seq(Node)
  BY TakenInOrder DEF Links, GraphTypes
<1> HIDE DEF order
<1>3. /\ order \in Seq(Node) /\ IsInjective(order) /\ ToSet(order) \subseteq ToSet(nodes)
      /\ ReadyAfter(order) = {}
  BY <1>1, <1>2 DEF OrderAfter
<1>4. Alive' = Alive /\ ToSet(nodes) = Alive
  BY <1>1 DEF Alive, Links, NodesAreAlive
<1>5. Links'
  BY <1>1, <1>4 DEF Links, NodesAreAlive, GraphTypes, InputsKept, OutputsKept, Faults
<1>6. ASSUME fault' = "none" PROVE ~NoCycle'
  <2> DEFINE left == Alive \ ToSet(order)
  <2>1. left # {}
    <3> SUFFICES ASSUME left = {} PROVE FALSE
      OBVIOUS
    <3>1. ToSet(order) = ToSet(nodes)
      BY <1>3, <1>4
    <3> QED BY <1>1, <1>2, <1>3, <3>1, LengthOfInjective DEF Links, NodesAreAlive
  <2>2. ASSUME NEW n \in left PROVE ProducersOf(n) \intersect left # {}
    <3>1. PICK j \in DOMAIN nodes : nodes[j] = n
      BY <1>4 DEF ToSet
    <3>2. PICK m \in ProducersOf(n) : m \notin ToSet(order)
      BY <1>3, <3>1 DEF ReadyAfter
    <3>3. PICK k \in Key : m \in ToSet(producers[n][k])
      BY <3>2 DEF ProducersOf
    <3>4. n \in Node /\ m \in Node /\ life[m] # "unborn" /\ life[m] \in {"unborn", "alive", "gone"}
      <4>1. n \in Node
        BY DEF Alive
      <4>2. <<k, m, n>> \in Wires /\ life[m] # "unborn"
        BY <3>3, <4>1 DEF Links, InputsKept
      <4>3. m \in Node
        BY <4>2, WireNodes
      <4> QED BY <4>1, <4>2, <4>3 DEF Links, GraphTypes
    <3>5. m \notin Gone
      BY <1>1, <1>4, <1>6, <3>2
    <3>6. m \in Alive
      BY <3>4, <3>5 DEF Alive, Gone
    <3> QED BY <3>2, <3>6
  <2>3. PICK L \in SUBSET Alive : L # {} /\ \A n \in L : ProducersOf(n) \intersect L # {}
    <3>1. left \in SUBSET Alive
      OBVIOUS
    <3> HIDE DEF left
    <3> QED BY <2>1, <2>2, <3>1
  <2>4. \A n : ProducersOf(n)' = ProducersOf(n)
    BY <1>1 DEF ProducersOf
  <2>5. Cyclic(L)'
    BY <2>3, <2>4 DEF Cyclic
  <2> QED BY <1>4, <2>3, <2>5 DEF NoCycle
<1>7. FrameInOrder'
  BY <1>6 DEF FrameInOrder
<1> QED BY <1>1, <1>5, <1>7 DEF RanTheNodes

-----------------------------------------------------------------------------
(***************************************************************************)
(* The walk of set_depth, level by level.                                  *)
(***************************************************************************)
Walk == [depth : [Node -> Nat], raised : SUBSET Node, met : SUBSET Node]

Pushing(w, c) == {p \in w.raised : c \in ConsumersOf(p) /\ w.depth[p] >= w.depth[c]}
Raised(w) == {c \in Node : Pushing(w, c) # {}}

Start(node, value) ==
  [depth |-> [depth EXCEPT ![node] = value], raised |-> {node}, met |-> {node}]

Onward(w) ==
  [depth  |-> [c \in Node |->
                 IF c \in Raised(w) THEN Max({w.depth[p] : p \in Pushing(w, c)}) + 1
                 ELSE w.depth[c]],
   raised |-> Raised(w),
   met    |-> w.met \union UNION {ConsumersOf(p) : p \in w.raised}]

Size == Cardinality(Node)

Walks(run, node, value) ==
  run[0] = Start(node, value) /\ \A k \in 1 .. Size : run[k] = Onward(run[k - 1])

LEMMA ConsumersAreNodes ==
  ASSUME Links, NEW n \in Node
  PROVE  /\ ConsumersOf(n) \subseteq {c \in Node : life[c] # "unborn"}
         /\ ConsumersOf(n) # {} => n \in Alive
<1> SUFFICES ASSUME NEW c \in ConsumersOf(n)
             PROVE  c \in Node /\ life[c] # "unborn" /\ n \in Alive
  OBVIOUS
<1>1. PICK k \in Key : c \in ToSet(consumers[n][k])
  BY DEF ConsumersOf
<1>2. <<k, n, c>> \in Wires /\ n \in Alive /\ life[c] # "unborn"
  BY <1>1 DEF Links, OutputsKept
<1> QED BY <1>2, WireNodes

\* What a level does to the depths: they only grow, and a consumer that was not
\* deeper than a node just raised is deeper now.
LEMMA OneLevel ==
  ASSUME Links, NEW w \in Walk
  PROVE  /\ Onward(w) \in Walk
         /\ \A c \in Node : Onward(w).depth[c] >= w.depth[c]
         /\ \A c \in Node : c \notin Raised(w) => Onward(w).depth[c] = w.depth[c]
         /\ \A c \in Node, p \in w.raised : c \in ConsumersOf(p) =>
              Onward(w).depth[c] > w.depth[p]
<1> DEFINE D(c) == {w.depth[p] : p \in Pushing(w, c)}
<1>1. w.depth \in [Node -> Nat] /\ w.raised \in SUBSET Node /\ w.met \in SUBSET Node
  BY DEF Walk
<1>2. ASSUME NEW c \in Node, c \in Raised(w)
      PROVE  /\ Max(D(c)) \in Nat /\ Max(D(c)) >= w.depth[c]
             /\ \A p \in Pushing(w, c) : Max(D(c)) >= w.depth[p]
  <2>1. Pushing(w, c) \subseteq Node /\ Pushing(w, c) # {}
    BY <1>1, <1>2 DEF Pushing, Raised
  <2>2. IsFiniteSet(D(c))
    <3>1. IsFiniteSet(Pushing(w, c))
      BY <2>1, FS_Subset, RendergraphAssumption
    <3>2. [p \in Pushing(w, c) |-> w.depth[p]] \in Surjection(Pushing(w, c), D(c))
      BY DEF Surjection
    <3> HIDE DEF D
    <3> QED BY <3>1, <3>2, FS_Surjection
  <2>3. D(c) \in SUBSET Nat /\ D(c) # {}
    BY <1>1, <2>1
  <2>4. \A p \in Pushing(w, c) : w.depth[p] \in D(c) /\ w.depth[p] >= w.depth[c]
    BY DEF Pushing
  <2> HIDE DEF D
  <2>5. Max(D(c)) \in D(c) /\ \A y \in D(c) : y <= Max(D(c))
    BY <2>2, <2>3, MaxOfFinite
  <2>6. Max(D(c)) \in Nat /\ \A y \in D(c) : y \in Nat
    BY <2>3, <2>5
  <2>7. PICK p \in Pushing(w, c) : TRUE
    BY <2>1
  <2>8. w.depth[c] \in Nat
    BY <1>1
  <2>9. Max(D(c)) >= w.depth[c]
    BY <2>4, <2>5, <2>6, <2>7, <2>8
  <2> QED BY <2>4, <2>5, <2>6, <2>9
<1>3. \A c \in Node :
        Onward(w).depth[c] = IF c \in Raised(w) THEN Max(D(c)) + 1 ELSE w.depth[c]
  BY DEF Onward
<1> HIDE DEF D
<1>4. \A c \in Node : w.depth[c] \in Nat /\ Onward(w).depth[c] \in Nat
  BY <1>1, <1>2, <1>3
<1>5. Onward(w) \in Walk
  <2>1. DOMAIN Onward(w).depth = Node
        /\ Onward(w).depth = [c \in Node |-> Onward(w).depth[c]]
    BY DEF Onward
  <2>2. Onward(w).depth \in [Node -> Nat]
    BY <1>4, <2>1
  <2>3. Onward(w).raised \in SUBSET Node
    BY DEF Onward, Raised
  <2>4. Onward(w).met \in SUBSET Node
    BY <1>1, ConsumersAreNodes DEF Onward
  <2>5. Onward(w) = [depth |-> Onward(w).depth, raised |-> Onward(w).raised,
                     met |-> Onward(w).met]
    BY DEF Onward
  <2> QED BY <2>2, <2>3, <2>4, <2>5 DEF Walk
<1>6. \A c \in Node : Onward(w).depth[c] >= w.depth[c]
  BY <1>2, <1>3, <1>4
<1>7. ASSUME NEW c \in Node, NEW p \in w.raised, c \in ConsumersOf(p)
      PROVE  Onward(w).depth[c] > w.depth[p]
  <2>1. p \in Node /\ w.depth[p] \in Nat
    BY <1>1
  <2>2. CASE w.depth[p] >= w.depth[c]
    <3>1. p \in Pushing(w, c) /\ c \in Raised(w)
      BY <1>7, <2>2 DEF Pushing, Raised
    <3> QED BY <1>2, <1>3, <2>1, <3>1
  <2>3. CASE ~(w.depth[p] >= w.depth[c])
    BY <1>4, <1>6, <2>1, <2>3
  <2> QED BY <2>2, <2>3
<1> QED BY <1>3, <1>5, <1>6, <1>7

LEMMA WalkRuns ==
  ASSUME Links, Depths, NEW node \in Node, NEW value \in Nat
  PROVE  \E run \in [0 .. Size -> Walk] :
           Walks(run, node, value) /\ SetDepth(node, value) = run[Size]
<1> DEFINE step == [k \in 1 .. Size |-> [w \in Walk |-> Onward(w)]]
           Iterates(f) ==
             f = [i \in 0 .. Size |->
                    IF i = 0 THEN Start(node, value)
                    ELSE LET last == f[i - 1]
                             P(c) == {p \in last.raised :
                                        /\ c \in ConsumersOf(p)
                                        /\ last.depth[p] >= last.depth[c]}
                             raised == {c \in Node : P(c) # {}}
                         IN  [depth  |-> [c \in Node |->
                                            IF c \in raised
                                            THEN Max({last.depth[p] : p \in P(c)}) + 1
                                            ELSE last.depth[c]],
                              raised |-> raised,
                              met    |-> last.met \union UNION {ConsumersOf(p) : p \in last.raised}]]
           it == CHOOSE f : Iterates(f)
<1>1. Size \in Nat
  BY FS_CardinalityType, RendergraphAssumption DEF Size
<1>2. Start(node, value) \in Walk
  BY DEF Start, Walk, Depths
<1>3. SetDepth(node, value) = it[Size]
  BY DEF SetDepth, DepthWalk, Size, Start
<1>4. step \in [1 .. Size -> [Walk -> Walk]]
  BY OneLevel
<1>5. PICK f \in [0 .. Size -> Walk] : Steps(Size, Start(node, value), step, f)
  <2> HIDE DEF step
  <2> QED BY <1>1, <1>2, <1>4, StepsExist
<1>6. f = [i \in 0 .. Size |-> IF i = 0 THEN Start(node, value) ELSE Onward(f[i - 1])]
  <2>1. \A i \in 1 .. Size : \A w \in Walk : step[i][w] = Onward(w)
    OBVIOUS
  <2>2. f = [i \in 0 .. Size |-> IF i = 0 THEN Start(node, value) ELSE step[i][f[i - 1]]]
    BY <1>5 DEF Steps
  <2>3. \A i \in 0 .. Size : i # 0 => i \in 1 .. Size /\ i - 1 \in 0 .. Size
    BY <1>1
  <2>4. \A i \in 0 .. Size : i # 0 => step[i][f[i - 1]] = Onward(f[i - 1])
    <3> HIDE DEF step
    <3> QED BY <1>5, <2>1, <2>3
  <2> HIDE DEF step
  <2> QED BY <2>2, <2>4
<1>7. \A g : Iterates(g) <=>
        g = [i \in 0 .. Size |-> IF i = 0 THEN Start(node, value) ELSE Onward(g[i - 1])]
  BY DEF Onward, Raised, Pushing
<1> HIDE DEF Iterates
<1>8. Iterates(f)
  BY <1>6, <1>7
<1>9. it = [i \in 0 .. Size |-> IF i = 0 THEN Start(node, value) ELSE Onward(it[i - 1])]
  <2>1. Iterates(it)
    BY <1>8
  <2> HIDE DEF it
  <2> QED BY <1>7, <2>1
<1> HIDE DEF it
<1>10. it[0] = Start(node, value) /\ \A k \in 1 .. Size : it[k] = Onward(it[k - 1])
  <2>1. 0 \in 0 .. Size /\ \A k \in 1 .. Size : k \in 0 .. Size /\ k # 0
    BY <1>1
  <2> QED BY <1>9, <2>1
<1>11. Walks(it, node, value)
  BY <1>10 DEF Walks
<1>12. \A k \in 0 .. Size : it[k] \in Walk
  <2> DEFINE T == {k \in 0 .. Size : it[k] \in Walk}
  <2>1. 0 \in T
    <3>1. 0 \in 0 .. Size
      BY <1>1
    <3> QED BY <1>2, <1>10, <3>1
  <2>2. ASSUME NEW k \in 0 .. Size - 1, k \in T PROVE k + 1 \in T
    <3>1. k + 1 \in 1 .. Size /\ (k + 1) - 1 = k /\ k + 1 \in 0 .. Size
      BY <1>1
    <3>2. it[k + 1] = Onward(it[k])
      BY <1>10, <3>1
    <3> QED BY <2>2, <3>1, <3>2, OneLevel
  <2>3. 0 .. Size \subseteq T
    <3> HIDE DEF T
    <3> QED BY <2>1, <2>2, <1>1, CountingUp
  <2> QED BY <2>3
<1>13. it \in [0 .. Size -> Walk]
  BY <1>9, <1>12
<1> QED BY <1>3, <1>11, <1>13

(***************************************************************************)
(* What the levels hold: every node a level raises consumes something of a *)
(* node the level before raised, the walk has met it, and of the nodes     *)
(* whose depth is not the old one only the last level's may have a         *)
(* consumer that is not deeper.                                            *)
(***************************************************************************)
EverRaised(run) == UNION {run[k].raised : k \in 0 .. Size}

Follows(w, old) ==
  \A n \in Node : w.depth[n] # old[n] =>
    n \in w.raised \/ \A c \in ConsumersOf(n) : w.depth[n] < w.depth[c]

LEMMA LevelsFollow ==
  ASSUME Links, Depths, NEW node \in Node, NEW value \in Nat,
         NEW run \in [0 .. Size -> Walk], Walks(run, node, value)
  PROVE  /\ run[0].raised = {node}
         /\ \A k \in 1 .. Size : \A c \in run[k].raised :
              \E p \in run[k - 1].raised : c \in ConsumersOf(p)
         /\ EverRaised(run) \subseteq run[Size].met
         /\ Follows(run[Size], depth)
         /\ \A n \in Node : run[Size].depth[n] # depth[n] => n \in EverRaised(run)
<1>1. /\ Size \in Nat /\ \A k \in 0 .. Size : run[k] \in Walk
      /\ run[0] = Start(node, value)
      /\ \A k \in 1 .. Size : run[k] = Onward(run[k - 1])
  BY FS_CardinalityType, RendergraphAssumption DEF Size, Walks
<1>2. run[0].raised = {node} /\ run[0].met = {node}
      /\ \A n \in Node : n # node => run[0].depth[n] = depth[n]
  BY <1>1 DEF Start, Depths
<1>0. \A w : /\ Onward(w).raised = Raised(w)
              /\ Onward(w).met = w.met \cup UNION {ConsumersOf(p) : p \in w.raised}
  BY DEF Onward
<1>3. \A k \in 1 .. Size : \A c \in run[k].raised :
        \E p \in run[k - 1].raised : c \in ConsumersOf(p)
  <2> SUFFICES ASSUME NEW k \in 1 .. Size, NEW c \in run[k].raised
               PROVE  \E p \in run[k - 1].raised : c \in ConsumersOf(p)
    OBVIOUS
  <2>1. c \in Raised(run[k - 1])
    BY <1>0, <1>1
  <2> QED BY <2>1 DEF Raised, Pushing
<1> DEFINE T == {k \in 0 .. Size :
                   /\ \A j \in 0 .. k : run[j].raised \subseteq run[k].met
                   /\ Follows(run[k], depth)
                   /\ \A n \in Node : run[k].depth[n] # depth[n] => n \in EverRaised(run)}
<1>4. 0 \in T
  <2>1. 0 \in 0 .. Size /\ \A j \in 0 .. 0 : j = 0
    BY <1>1
  <2>2. Follows(run[0], depth)
    BY <1>2 DEF Follows
  <2>3. node \in EverRaised(run)
    BY <1>2, <2>1 DEF EverRaised
  <2> QED BY <1>2, <2>1, <2>2, <2>3
<1>5. ASSUME NEW k \in 0 .. Size - 1, k \in T PROVE k + 1 \in T
  <2>1. /\ k + 1 \in 1 .. Size /\ (k + 1) - 1 = k /\ k + 1 \in 0 .. Size /\ k \in 0 .. Size
        /\ \A j \in 0 .. k + 1 : j \in 0 .. k \/ j = k + 1
    BY <1>1
  <2> DEFINE w == run[k]
             v == run[k + 1]
  <2>2. w \in Walk /\ v = Onward(w) /\ v.raised = Raised(w)
        /\ v.met = w.met \cup UNION {ConsumersOf(p) : p \in w.raised}
    <3>1. w \in Walk /\ v = Onward(w)
      BY <1>1, <2>1
    <3> HIDE DEF v, w
    <3> QED BY <1>0, <3>1
  <2>3. /\ \A c \in Node : v.depth[c] >= w.depth[c] /\ v.depth[c] \in Nat /\ w.depth[c] \in Nat
        /\ \A c \in Node : c \notin v.raised => v.depth[c] = w.depth[c]
        /\ \A c \in Node, p \in w.raised : c \in ConsumersOf(p) => v.depth[c] > w.depth[p]
    <3>1. v \in Walk
      BY <2>2, OneLevel
    <3>2. \A c \in Node : v.depth[c] \in Nat /\ w.depth[c] \in Nat
      BY <2>2, <3>1 DEF Walk
    <3> HIDE DEF v, w
    <3> QED BY <2>2, <3>2, OneLevel
  <2>4. /\ \A j \in 0 .. k : run[j].raised \subseteq w.met
        /\ Follows(w, depth)
        /\ \A n \in Node : w.depth[n] # depth[n] => n \in EverRaised(run)
    BY <1>5
  <2>5. v.raised \subseteq v.met
    BY <1>3, <2>1, <2>2
  <2>6. v.raised \subseteq EverRaised(run)
    BY <2>1 DEF EverRaised
  <2>7. \A j \in 0 .. k + 1 : run[j].raised \subseteq v.met
    BY <2>1, <2>2, <2>4, <2>5
  <2> HIDE DEF v, w
  <2>8. Follows(v, depth)
    <3> SUFFICES ASSUME NEW n \in Node, v.depth[n] # depth[n], n \notin v.raised,
                        NEW c \in ConsumersOf(n)
                 PROVE  v.depth[n] < v.depth[c]
      BY DEF Follows
    <3>1. c \in Node /\ v.depth[n] = w.depth[n] /\ w.depth[n] # depth[n]
      BY <2>3, ConsumersAreNodes
    <3>2. n \in w.raised \/ w.depth[n] < w.depth[c]
      BY <2>4, <3>1 DEF Follows
    <3> QED BY <2>3, <3>1, <3>2
  <2>9. \A n \in Node : v.depth[n] # depth[n] => n \in EverRaised(run)
    BY <2>3, <2>4, <2>6
  <2> QED BY <2>1, <2>7, <2>8, <2>9 DEF v
<1>6. Size \in T
  <2> HIDE DEF T
  <2>1. 0 .. Size \subseteq T
    BY <1>1, <1>4, <1>5, CountingUp
  <2> QED BY <1>1, <2>1
<1>7. EverRaised(run) \subseteq run[Size].met
  BY <1>6 DEF EverRaised
<1> QED BY <1>2, <1>3, <1>6, <1>7

\* What the walk finds is alive or gone; if none of it is gone, all are alive, and
\* every consumer it raised is known to be one by the node it consumes from.
LEMMA WalkIsAlive ==
  ASSUME Links, Depths, EndsAgree, fault = "none", NEW node \in Alive, NEW value \in Nat,
         NEW run \in [0 .. Size -> Walk], Walks(run, node, value),
         run[Size].met \intersect Gone = {}
  PROVE  /\ EverRaised(run) \subseteq Alive
         /\ \A k \in 1 .. Size : \A c \in run[k].raised :
              \E p \in run[k - 1].raised : p \in ProducersOf(c)
<1>1. node \in Node
  BY DEF Alive
<1>2. Size \in Nat
  BY FS_CardinalityType, RendergraphAssumption DEF Size
<1>3. /\ run[0].raised = {node}
      /\ \A k \in 1 .. Size : \A c \in run[k].raised :
           \E p \in run[k - 1].raised : c \in ConsumersOf(p)
      /\ EverRaised(run) \subseteq run[Size].met
  BY <1>1, LevelsFollow
<1>4. \A k \in 0 .. Size : run[k].raised \subseteq Node /\ run[k].raised \subseteq EverRaised(run)
  BY DEF EverRaised, Walk
<1>5. ASSUME NEW k \in 0 .. Size, NEW c \in run[k].raised PROVE c \in Alive
  <2>1. c \in Node /\ c \in run[Size].met
    BY <1>3, <1>4
  <2>2. CASE k = 0
    BY <1>3, <2>2
  <2>3. CASE k # 0
    <3>1. k \in 1 .. Size /\ k - 1 \in 0 .. Size
      BY <1>2, <2>3
    <3>2. PICK p \in run[k - 1].raised : c \in ConsumersOf(p)
      BY <1>3, <3>1
    <3>3. p \in Node
      BY <1>4, <3>1
    <3>4. life[c] # "unborn"
      BY <3>2, <3>3, ConsumersAreNodes
    <3>5. life[c] \in {"unborn", "alive", "gone"}
      BY <2>1 DEF Links, GraphTypes
    <3> QED BY <2>1, <3>4, <3>5 DEF Alive, Gone
  <2> QED BY <2>2, <2>3
<1>6. EverRaised(run) \subseteq Alive
  BY <1>5 DEF EverRaised
<1>7. ASSUME NEW k \in 1 .. Size, NEW c \in run[k].raised
      PROVE  \E p \in run[k - 1].raised : p \in ProducersOf(c)
  <2>1. k \in 0 .. Size /\ k - 1 \in 0 .. Size
    BY <1>2
  <2>2. PICK p \in run[k - 1].raised : c \in ConsumersOf(p)
    BY <1>3
  <2>3. p \in Alive /\ c \in Alive /\ p \in Node /\ c \in Node
    BY <1>4, <1>5, <2>1
  <2>4. PICK key \in Key : c \in ToSet(consumers[p][key])
    BY <2>2 DEF ConsumersOf
  <2>5. <<key, p, c>> \in Wires
    BY <2>3, <2>4 DEF Links, OutputsKept
  <2>6. p \in ToSet(producers[c][key])
    BY <2>3, <2>4, <2>5 DEF EndsAgree
  <2> QED BY <2>6 DEF ProducersOf
<1> QED BY <1>6, <1>7

(***************************************************************************)
(* The walk ends if there is no cycle: the nodes that any level from the   *)
(* k-th on can raise get fewer with k, as each of them has a producer      *)
(* among those that the level before can raise.                            *)
(***************************************************************************)
LEMMA WalkEnds ==
  ASSUME Links, Depths, EndsAgree, fault = "none", NEW node \in Alive, NEW value \in Nat,
         NEW run \in [0 .. Size -> Walk], Walks(run, node, value),
         run[Size].met \intersect Gone = {}, NoCycle
  PROVE  run[Size].raised = {}
<1>1. Size \in Nat /\ IsFiniteSet(Node)
  BY FS_CardinalityType, RendergraphAssumption DEF Size
<1>2. /\ EverRaised(run) \subseteq Alive
      /\ \A k \in 1 .. Size : \A c \in run[k].raised :
           \E p \in run[k - 1].raised : p \in ProducersOf(c)
  BY WalkIsAlive
<1>3. \A k \in 0 .. Size : run[k].raised \subseteq Alive
  BY <1>2 DEF EverRaised
<1>4. Alive \subseteq Node
  BY DEF Alive
<1> DEFINE T == {k \in 0 .. Size : \E A \in SUBSET Alive :
                    /\ Cardinality(A) + k <= Size
                    /\ \A j \in k .. Size : run[j].raised \subseteq A}
<1>5. 0 \in T
  <2>1. Cardinality(Alive) <= Size /\ Cardinality(Alive) \in Nat
    BY <1>1, <1>4, FS_Subset, FS_CardinalityType DEF Size
  <2>2. 0 \in 0 .. Size /\ Cardinality(Alive) + 0 <= Size
    BY <1>1, <2>1
  <2> QED BY <1>3, <2>2
<1>6. ASSUME NEW k \in 0 .. Size - 1, k \in T PROVE k + 1 \in T
  <2>1. PICK A \in SUBSET Alive : /\ Cardinality(A) + k <= Size
                                  /\ \A j \in k .. Size : run[j].raised \subseteq A
    BY <1>6
  <2> DEFINE B == {n \in A : ProducersOf(n) \intersect A # {}}
  <2>2. /\ k + 1 \in 0 .. Size
        /\ \A j \in k + 1 .. Size : j \in k .. Size /\ j - 1 \in k .. Size /\ j \in 1 .. Size
    BY <1>1
  <2>3. \A j \in k + 1 .. Size : run[j].raised \subseteq B
    BY <1>2, <2>1, <2>2
  <2>4. IsFiniteSet(A) /\ Cardinality(A) \in Nat
    BY <1>1, <1>4, FS_Subset, FS_CardinalityType
  <2>5. IsFiniteSet(B) /\ Cardinality(B) \in Nat /\ Cardinality(B) <= Cardinality(A)
        /\ (Cardinality(A) = Cardinality(B) => A = B)
    <3>1. B \in SUBSET A
      OBVIOUS
    <3> HIDE DEF B
    <3> QED BY <2>4, <3>1, FS_Subset, FS_CardinalityType
  <2>6. Cardinality(B) + (k + 1) <= Size
    <3>1. CASE A = {}
      <4>1. Cardinality(B) = 0
        BY <3>1, FS_EmptySet
      <4> QED BY <1>1, <4>1
    <3>2. CASE A # {}
      <4>1. B # A
        BY <3>2 DEF NoCycle, Cyclic
      <4> HIDE DEF B
      <4> QED BY <1>1, <2>1, <2>4, <2>5, <4>1
    <3> QED BY <3>1, <3>2
  <2> QED BY <2>2, <2>3, <2>6
<1>7. PICK A \in SUBSET Alive : /\ Cardinality(A) + Size <= Size
                                /\ \A j \in Size .. Size : run[j].raised \subseteq A
  <2> HIDE DEF T
  <2>1. 0 .. Size \subseteq T
    BY <1>1, <1>5, <1>6, CountingUp
  <2>2. Size \in T
    BY <1>1, <2>1
  <2> QED BY <2>2 DEF T
<1>8. A = {}
  <2>1. IsFiniteSet(A) /\ Cardinality(A) \in Nat
    BY <1>1, <1>4, FS_Subset, FS_CardinalityType
  <2>2. Cardinality(A) = 0
    BY <1>1, <1>7, <2>1
  <2> QED BY <2>1, <2>2, FS_EmptySet
<1> QED BY <1>1, <1>7, <1>8

\* A step of DepthsFollow.
DepthsFollowStep ==
  \A n \in Node :
    depth'[n] # depth[n] /\ NoCycle' => \A c \in ConsumersOf(n)' : depth'[n] < depth'[c]

(***************************************************************************)
(* connect: if the walk is cut short by the end of the stack, or comes     *)
(* back to the source, the connection closes a cycle: everything behind    *)
(* the sink has a producer there, and the sink has the source.             *)
(***************************************************************************)
LEMMA ConnectSetsDepths ==
  ASSUME Links, Depths, EndsAgree, NEW w \in Wires,
         Connect(w[1], w[2], w[3]) \/ ConnectHalfway(w[1], w[2], w[3])
  PROVE  Depths' /\ OverflowNeedsCycle' /\ DepthsFollowStep
<1> DEFINE key == w[1]
           source == w[2]
           sink == w[3]
           walk == SetDepth(sink, depth[source] + 1)
<1>1. key \in Key /\ source \in Node /\ sink \in Node
  BY WireNodes
<1>2. /\ fault = "none" /\ ConnectInput(key, source, sink)
  BY DEF Connect, ConnectHalfway, MayConnect, Working
<1>3. /\ life' = life /\ sink \in Alive /\ source \in Alive
      /\ \A n \in Node, k \in Key :
           Grown(producers'[n][k], producers[n][k], n = sink /\ k = key, source)
      /\ \/ consumers' = consumers
         \/ \A n \in Node, k \in Key :
              Grown(consumers'[n][k], consumers[n][k], n = source /\ k = key, sink)
  BY ConnectKeeps
<1> HIDE DEF key, source, sink
<1>4. /\ depth' = IF FaultOf(walk) = "none" THEN walk.depth ELSE depth
      /\ fault' = FaultOf(walk)
  BY <1>2 DEF ConnectInput
<1>5. depth[source] + 1 \in Nat
  BY <1>1 DEF Depths
<1>6. PICK run \in [0 .. Size -> Walk] :
         Walks(run, sink, depth[source] + 1) /\ walk = run[Size]
  BY <1>1, <1>5, WalkRuns
<1> HIDE DEF walk
<1>7. Size \in Nat
  BY FS_CardinalityType, RendergraphAssumption DEF Size
<1>8. Depths'
  <2>1. walk.depth \in [Node -> Nat]
    BY <1>6, <1>7 DEF Walk
  <2> QED BY <1>4, <2>1 DEF Depths
<1>9. Alive' = Alive
  BY <1>3 DEF Alive
<1>10. \A n \in Node, k \in Key :
         /\ producers[n][k] \in Seq(Node) /\ consumers[n][k] \in Seq(Node)
  BY DEF Links, GraphTypes
<1>11. /\ \A n \in Node, k \in Key : ToSet(producers[n][k]) \subseteq ToSet(producers'[n][k])
       /\ source \in ToSet(producers'[sink][key])
       /\ \A n \in Node, k \in Key :
            ToSet(consumers'[n][k]) \subseteq
              ToSet(consumers[n][k]) \cup (IF n = source /\ k = key THEN {sink} ELSE {})
  BY <1>1, <1>3, <1>10, AppendLeaves DEF Grown
<1>12. /\ \A n \in Node : ProducersOf(n) \subseteq ProducersOf(n)'
       /\ source \in ProducersOf(sink)'
       /\ \A n \in Node : \A c \in ConsumersOf(n)' : c \in ConsumersOf(n) \/ (n = source /\ c = sink)
  BY <1>1, <1>11 DEF ProducersOf, ConsumersOf
<1>13. NoCycle' => NoCycle
  <2> SUFFICES ASSUME NEW S \in (SUBSET Alive) \ {{}}, Cyclic(S) PROVE ~NoCycle'
    BY DEF NoCycle
  <2>1. Cyclic(S)'
    BY <1>12 DEF Cyclic, Alive
  <2> QED BY <1>9, <2>1 DEF NoCycle
<1>14. FaultOf(walk) # "use after free" => run[Size].met \intersect Gone = {}
  BY <1>6 DEF FaultOf
<1>15. OverflowNeedsCycle'
  <2> SUFFICES ASSUME fault' = "stack overflow", NoCycle' PROVE FALSE
    BY DEF OverflowNeedsCycle
  <2>1. run[Size].met \intersect Gone = {}
    BY <1>4, <1>14
  <2>2. run[Size].raised = {}
    BY <1>2, <1>3, <1>5, <1>6, <1>13, <2>1, WalkEnds
  <2> QED BY <1>4, <1>6, <2>2 DEF FaultOf
<1>16. DepthsFollowStep
  <2> SUFFICES ASSUME NEW n \in Node, depth'[n] # depth[n], NoCycle', NEW c \in ConsumersOf(n)'
               PROVE  depth'[n] < depth'[c]
    BY DEF DepthsFollowStep
  <2>1. depth' = run[Size].depth /\ run[Size].met \intersect Gone = {} /\ run[Size].raised = {}
    <3>1. FaultOf(walk) = "none"
      BY <1>4
    <3> QED BY <1>4, <1>6, <1>14, <3>1 DEF FaultOf
  <2>2. /\ run[0].raised = {sink} /\ Follows(run[Size], depth) /\ n \in EverRaised(run)
    BY <1>1, <1>5, <1>6, <2>1, LevelsFollow
  <2>3. CASE c \in ConsumersOf(n)
    BY <2>1, <2>2, <2>3 DEF Follows
  <2>4. CASE n = source /\ c = sink
    <3>1. /\ EverRaised(run) \subseteq Alive
          /\ \A k \in 1 .. Size : \A m \in run[k].raised :
               \E p \in run[k - 1].raised : p \in ProducersOf(m)
      BY <1>2, <1>3, <1>5, <1>6, <2>1, WalkIsAlive
    <3>2. ASSUME NEW m \in EverRaised(run)
          PROVE  ProducersOf(m)' \intersect EverRaised(run) # {}
      <4>1. PICK k \in 0 .. Size : m \in run[k].raised
        BY DEF EverRaised
      <4>2. m \in Node
        BY <3>1 DEF Alive
      <4>3. CASE k = 0
        BY <1>12, <2>2, <2>4, <4>1, <4>3
      <4>4. CASE k # 0
        <5>1. k \in 1 .. Size /\ k - 1 \in 0 .. Size
          BY <1>7, <4>4
        <5>2. PICK p \in run[k - 1].raised : p \in ProducersOf(m)
          BY <3>1, <4>1, <5>1
        <5> QED BY <1>12, <4>2, <5>1, <5>2 DEF EverRaised
      <4> QED BY <4>3, <4>4
    <3>3. PICK C \in SUBSET Alive : n \in C /\ \A m \in C : ProducersOf(m)' \intersect C # {}
      BY <2>2, <3>1, <3>2
    <3>4. Cyclic(C)'
      BY <3>3 DEF Cyclic
    <3> QED BY <1>9, <2>2, <3>3, <3>4 DEF NoCycle
  <2> QED BY <1>12, <2>3, <2>4
<1> QED BY <1>8, <1>15, <1>16

-----------------------------------------------------------------------------
(***************************************************************************)
(* The loop of unregister_node over at most two partners: what erasing the *)
(* first leaves behind the new end is the second.                          *)
(***************************************************************************)
Pass(partners, i, last) ==
  LET partner == last.memory[i]
      held == SubSeq(last.memory, 1, last.live)
  IN  IF partner \in ToSet(held)
      THEN [memory |-> EraseAll(held, {partner})
                         \o SubSeq(last.memory, last.live, Len(partners)),
            live   |-> last.live - 1,
            told   |-> last.told \union {partner}]
      ELSE [last EXCEPT !.told = @ \union {partner}]

Untold(partners) == [memory |-> partners, live |-> Len(partners), told |-> {}]

Passes(pass, partners) ==
  /\ pass[0] = Untold(partners)
  /\ \A i \in 1 .. Len(partners) : pass[i] = Pass(partners, i, pass[i - 1])

LEMMA ToldRuns ==
  ASSUME NEW partners \in Seq(Node), Len(partners) <= 2
  PROVE  \E pass : Passes(pass, partners) /\ Told(partners) = pass[Len(partners)].told
<1> DEFINE size == Len(partners)
           Iterates(f) ==
             f = [i \in 0 .. size |->
                    IF i = 0
                    THEN [memory |-> partners, live |-> size, told |-> {}]
                    ELSE LET last == f[i - 1]
                             partner == last.memory[i]
                             held == SubSeq(last.memory, 1, last.live)
                         IN  IF partner \in ToSet(held)
                             THEN [memory |-> EraseAll(held, {partner})
                                                \o SubSeq(last.memory, last.live, size),
                                   live   |-> last.live - 1,
                                   told   |-> last.told \union {partner}]
                             ELSE [last EXCEPT !.told = @ \union {partner}]]
           it == CHOOSE f : Iterates(f)
           first == Untold(partners)
           second == Pass(partners, 1, first)
           third == Pass(partners, 2, second)
           g == [i \in 0 .. size |-> IF i = 0 THEN first ELSE IF i = 1 THEN second ELSE third]
<1>1. size \in 0 .. 2
  <2>1. size \in Nat /\ size <= 2
    OBVIOUS
  <2> HIDE DEF size
  <2> QED BY <2>1
<1>2. Told(partners) = it[size].told
  BY DEF Told
<1>3. \A f : Iterates(f) <=>
        f = [i \in 0 .. size |-> IF i = 0 THEN first ELSE Pass(partners, i, f[i - 1])]
  BY DEF Untold, Pass
<1> HIDE DEF Iterates, size
<1>4. Iterates(g)
  <2>1. \A i \in 0 .. size : i = 0 \/ i = 1 \/ i = 2
    BY <1>1
  <2>2. \A i \in 0 .. size : i # 0 => i - 1 \in 0 .. size
    BY <1>1
  <2>3. \A i \in 0 .. size : g[i] = IF i = 0 THEN first ELSE IF i = 1 THEN second ELSE third
    OBVIOUS
  <2> HIDE DEF first
  <2>4. \A i \in 0 .. size : g[i] = IF i = 0 THEN first ELSE Pass(partners, i, g[i - 1])
    <3> SUFFICES ASSUME NEW i \in 0 .. size
                 PROVE  g[i] = IF i = 0 THEN first ELSE Pass(partners, i, g[i - 1])
      OBVIOUS
    <3> HIDE DEF g
    <3>1. CASE i = 0
      BY <2>3, <3>1
    <3>2. CASE i = 1
      <4>1. i - 1 = 0 /\ 0 \in 0 .. size
        BY <1>1, <3>2
      <4> QED BY <2>3, <3>2, <4>1
    <3>3. CASE i = 2
      <4>1. i - 1 = 1 /\ 1 \in 0 .. size /\ 1 # 0 /\ i # 0 /\ i # 1
        BY <1>1, <3>3
      <4> QED BY <2>3, <3>3, <4>1
    <3> QED BY <2>1, <3>1, <3>2, <3>3
  <2>5. g = [i \in 0 .. size |-> g[i]]
    OBVIOUS
  <2> HIDE DEF g
  <2> QED BY <1>3, <2>4, <2>5
<1> HIDE DEF first, g
<1>5. it = [i \in 0 .. size |-> IF i = 0 THEN first ELSE Pass(partners, i, it[i - 1])]
  <2>1. Iterates(it)
    BY <1>4
  <2> HIDE DEF it
  <2> QED BY <1>3, <2>1
<1> HIDE DEF it
<1>6. it[0] = first /\ \A i \in 1 .. size : it[i] = Pass(partners, i, it[i - 1])
  <2>1. 0 \in 0 .. size /\ \A i \in 1 .. size : i \in 0 .. size /\ i # 0
    BY <1>1
  <2> QED BY <1>5, <2>1
<1>7. Passes(it, partners)
  BY <1>6 DEF Passes, first, size
<1> QED BY <1>2, <1>7 DEF size

LEMMA TwoAreTold ==
  ASSUME NEW partners \in Seq(Node), IsInjective(partners), Len(partners) <= 2
  PROVE  ToSet(partners) \subseteq Told(partners)
<1>1. PICK pass : Passes(pass, partners) /\ Told(partners) = pass[Len(partners)].told
  BY ToldRuns
<1>2. /\ pass[0] = Untold(partners)
      /\ \A i \in 1 .. Len(partners) : pass[i] = Pass(partners, i, pass[i - 1])
  BY <1>1 DEF Passes
<1>3. \A i, r : Pass(partners, i, [memory |-> r.memory, live |-> r.live, told |-> r.told]).told
                  = r.told \cup {r.memory[i]}
  BY DEF Pass
<1>4. Len(partners) \in 0 .. 2 /\ DOMAIN partners = 1 .. Len(partners)
  <2> DEFINE size == Len(partners)
  <2>1. size \in Nat /\ size <= 2 /\ DOMAIN partners = 1 .. size
    OBVIOUS
  <2> HIDE DEF size
  <2>2. size \in 0 .. 2
    BY <2>1
  <2> QED BY <2>1, <2>2 DEF size
<1>5. CASE Len(partners) = 0
  BY <1>4, <1>5 DEF ToSet
<1>6. CASE Len(partners) = 1
  <2>1. pass[1] = Pass(partners, 1, Untold(partners))
    BY <1>2, <1>6
  <2>2. pass[1].told = {partners[1]}
    BY <2>1 DEF Pass, Untold
  <2> QED BY <1>1, <1>4, <1>6, <2>2 DEF ToSet
<1>7. CASE Len(partners) = 2
  <2> DEFINE p == partners[1]
             q == partners[2]
             held == SubSeq(partners, 1, 2)
             kept == EraseAll(held, {p})
  <2>1. /\ p \in Node /\ q \in Node /\ p # q /\ ToSet(partners) = {p, q}
    BY <1>4, <1>7 DEF ToSet, IsInjective
  <2>2. held \in Seq(Node) /\ Len(held) = 2 /\ held[1] = p /\ held[2] = q
        /\ DOMAIN held = 1 .. 2
    BY <1>4, <1>7
  <2> HIDE DEF p, q, held
  <2>3. ToSet(held) = {p, q} /\ IsInjective(held)
    BY <2>1, <2>2 DEF ToSet, IsInjective
  <2>4. kept \in Seq(Node) /\ ToSet(kept) = {q} /\ IsInjective(kept)
    BY <2>1, <2>2, <2>3, EraseAllLeaves
  <2>5. Len(kept) = 1
    <3>1. Cardinality({q}) = 1
      BY FS_Singleton
    <3> HIDE DEF kept
    <3> QED BY <2>4, <3>1, LengthOfInjective
  <2>6. pass[1] = Pass(partners, 1, Untold(partners)) /\ pass[2] = Pass(partners, 2, pass[1])
    <3>1. 1 \in 1 .. Len(partners) /\ 2 \in 1 .. Len(partners) /\ 1 - 1 = 0 /\ 2 - 1 = 1
      BY <1>7
    <3> QED BY <1>2, <3>1
  <2>7. pass[1] = [memory |-> kept \o SubSeq(partners, 2, 2), live |-> 2 - 1, told |-> {} \cup {p}]
    <3>1. p \in ToSet(held)
      BY <2>3
    <3> QED BY <1>7, <2>6, <3>1 DEF Pass, Untold, p, held
  <2>8. pass[1].memory[2] = q /\ pass[1].told = {p}
    <3> DEFINE rest == SubSeq(partners, 2, 2)
               both == kept \o rest
    <3>1. rest \in Seq(Node) /\ Len(rest) = 1 /\ rest[1] = q
      BY <1>4, <1>7 DEF q
    <3>2. pass[1].memory = both /\ pass[1].told = {} \cup {p}
      BY <2>7
    <3>3. both[2] = q
      <4> HIDE DEF kept, rest
      <4>1. 1 \in 1 .. Len(rest) /\ Len(kept) + 1 = 2
        BY <2>5, <3>1
      <4> QED BY <2>4, <3>1, <4>1, JoinedLists
    <3> HIDE DEF both
    <3> QED BY <3>2, <3>3
  <2>9. pass[2].told = {p} \cup {q}
    <3> DEFINE r == pass[1]
    <3>1. r = [memory |-> r.memory, live |-> r.live, told |-> r.told]
      BY <2>7
    <3>2. Pass(partners, 2, r).told = r.told \cup {r.memory[2]}
      BY <1>3, <3>1
    <3> QED BY <2>6, <2>8, <3>2
  <2> QED BY <1>1, <1>7, <2>1, <2>9
<1> QED BY <1>4, <1>5, <1>6, <1>7

\* A step of DestroyedAreForgotten.
ForgettingStep ==
  \A n \in Alive \ Alive' :
    (/\ KnowsItsPartners(n)
     /\ \A k \in Key : Len(producers[n][k]) <= 2 /\ Len(consumers[n][k]) <= 2)
      => Forgotten(n)'

LEMMA DestroyForgets ==
  ASSUME Links, NEW n \in Node, Destroy(n)
  PROVE  ForgettingStep
<1>1. /\ Alive' = Alive \ {n} /\ n \in Node
      /\ \A m \in Node, k \in Key :
           /\ producers'[m][k] = IF m = n THEN << >>
                                 ELSE IF m \in ToldConsumers(n, k)
                                 THEN EraseAll(producers[m][k], {n}) ELSE producers[m][k]
           /\ consumers'[m][k] = IF m = n THEN << >>
                                 ELSE IF m \in ToldProducers(n, k)
                                 THEN EraseAll(consumers[m][k], {n}) ELSE consumers[m][k]
  BY DestroyKeeps
<1> SUFFICES ASSUME KnowsItsPartners(n),
                    \A k \in Key : Len(producers[n][k]) <= 2 /\ Len(consumers[n][k]) <= 2,
                    NEW m \in Alive \ {n}, NEW k \in Key
             PROVE  n \notin ToSet(producers'[m][k]) /\ n \notin ToSet(consumers'[m][k])
  BY <1>1 DEF ForgettingStep, Forgotten, ProducersOf, ConsumersOf
<1>2. /\ m \in Node /\ m \in Alive /\ m # n
      /\ producers[m][k] \in Seq(Node) /\ consumers[m][k] \in Seq(Node)
      /\ producers[n][k] \in Seq(Node) /\ consumers[n][k] \in Seq(Node)
      /\ IsInjective(producers[n][k]) /\ IsInjective(consumers[n][k])
  BY DEF Alive, Links, GraphTypes, InputsKept, OutputsKept
<1>3. /\ ToSet(consumers[n][k]) \subseteq ToldConsumers(n, k)
      /\ ToSet(producers[n][k]) \subseteq ToldProducers(n, k)
  BY <1>2, TwoAreTold DEF ToldConsumers, ToldProducers
<1>4. n \notin ToSet(producers'[m][k])
  <2>1. CASE m \in ToldConsumers(n, k)
    BY <1>1, <1>2, <2>1, EraseAllLeaves
  <2>2. CASE m \notin ToldConsumers(n, k)
    BY <1>1, <1>2, <1>3, <2>2 DEF KnowsItsPartners
  <2> QED BY <2>1, <2>2
<1>5. n \notin ToSet(consumers'[m][k])
  <2>1. CASE m \in ToldProducers(n, k)
    BY <1>1, <1>2, <2>1, EraseAllLeaves
  <2>2. CASE m \notin ToldProducers(n, k)
    BY <1>1, <1>2, <1>3, <2>2 DEF KnowsItsPartners
  <2> QED BY <2>1, <2>2
<1> QED BY <1>4, <1>5

-----------------------------------------------------------------------------
(* The theorems.                                                           *)

GraphInv ==
  /\ Links /\ RanTheNodes /\ Depths
  /\ EndsAgree /\ OverflowNeedsCycle /\ FrameInOrder

LEMMA InitGraph == Init => GraphInv
<1> SUFFICES ASSUME Init PROVE GraphInv
  OBVIOUS
<1>1. /\ life = [n \in Node |-> "unborn"] /\ nodes = << >>
      /\ producers = [n \in Node |-> Nothing] /\ consumers = [n \in Node |-> Nothing]
      /\ depth = [n \in Node |-> 0] /\ ran = << >> /\ fault = "none" /\ connects = 0
  BY DEF Init
<1>2. \A n \in Node, k \in Key : producers[n][k] = << >> /\ consumers[n][k] = << >>
  BY <1>1 DEF Nothing
<1>3. Alive = {}
  BY <1>1 DEF Alive
<1>4. GraphTypes
  <2>1. Nothing \in [Key -> Seq(Node)]
    BY EmptyOnce DEF Nothing
  <2> QED BY <1>1, <2>1, EmptyOnce, RendergraphAssumption DEF GraphTypes, Faults
<1>5. NodesAreAlive /\ InputsKept /\ OutputsKept
  BY <1>1, <1>2, <1>3, EmptyOnce DEF NodesAreAlive, InputsKept, OutputsKept
<1>6. EndsAgree
  BY <1>3 DEF EndsAgree
<1> QED BY <1>1, <1>4, <1>5, <1>6
        DEF GraphInv, Links, RanTheNodes, Depths, OverflowNeedsCycle, FrameInOrder

\* Every step of the graph keeps the invariant and is one of DepthsFollow and of
\* DestroyedAreForgotten.
LEMMA NextGraph ==
  ASSUME GraphInv, [Next]_vars
  PROVE  GraphInv' /\ (vars' # vars => DepthsFollowStep /\ ForgettingStep)
<1> USE DEF GraphInv
<1>1. CASE \E n \in Node : Create(n)
  <2>1. PICK n \in Node : Create(n)
    BY <1>1
  <2>2. /\ fault = "none" /\ fault' = "none" /\ ran' = << >> /\ depth' = depth
        /\ life[n] = "unborn" /\ life' = [life EXCEPT ![n] = "alive"]
    BY <2>1 DEF Create, Working
  <2>3. Alive \subseteq Alive'
    BY <2>2 DEF Alive, Links, GraphTypes
  <2> QED BY <2>1, <2>2, <2>3, CreateKeeps, CreateKeepsEnds
          DEF OverflowNeedsCycle, FrameInOrder, DepthsFollowStep, ForgettingStep
<1>2. CASE \E n \in Node : Destroy(n)
  <2>1. PICK n \in Node : Destroy(n)
    BY <1>2
  <2>2. fault' # "stack overflow" /\ ran' = << >> /\ depth' = depth
    BY <2>1 DEF Destroy
  <2> QED BY <2>1, <2>2, DestroyKeeps, DestroyKeepsEnds, DestroyForgets
          DEF OverflowNeedsCycle, FrameInOrder, DepthsFollowStep, RanTheNodes, Depths
<1>3. CASE \E w \in Wires : Connect(w[1], w[2], w[3]) \/ ConnectHalfway(w[1], w[2], w[3])
  <2>1. PICK w \in Wires : Connect(w[1], w[2], w[3]) \/ ConnectHalfway(w[1], w[2], w[3])
    BY <1>3
  <2>2. Links' /\ life' = life /\ ran' = << >>
    BY <2>1, ConnectKeeps
  <2>3. Alive' = Alive
    BY <2>2 DEF Alive
  <2>4. EndsAgree'
    BY <2>1, ConnectKeepsEnds
  <2>5. Depths' /\ OverflowNeedsCycle' /\ DepthsFollowStep
    BY <2>1, ConnectSetsDepths
  <2> QED BY <2>2, <2>3, <2>4, <2>5 DEF RanTheNodes, FrameInOrder, ForgettingStep
<1>4. CASE \E w \in Wires : Disconnect(w[1], w[2], w[3])
  <2>1. PICK w \in Wires : Disconnect(w[1], w[2], w[3])
    BY <1>4
  <2>2. fault = "none" /\ fault' = "none" /\ ran' = << >> /\ depth' = depth /\ life' = life
    BY <2>1 DEF Disconnect, Working
  <2>3. Alive' = Alive
    BY <2>2 DEF Alive
  <2>4. Links' /\ EndsAgree'
    BY <2>1, DisconnectKeeps, DisconnectKeepsEnds
  <2> QED BY <2>2, <2>3, <2>4
          DEF RanTheNodes, Depths, OverflowNeedsCycle, FrameInOrder, DepthsFollowStep,
              ForgettingStep
<1>5. CASE Execute \/ ExecuteUnsorted
  <2>1. /\ fault' # "stack overflow" /\ fault = "none" /\ depth' = depth
        /\ UNCHANGED <<life, producers, consumers>>
    BY <1>5 DEF Execute, ExecuteUnsorted, Working
  <2>2. Alive' = Alive
    BY <2>1 DEF Alive
  <2>3. EndsAgree'
    BY <2>1, <2>2 DEF EndsAgree
  <2>4. Links' /\ RanTheNodes' /\ FrameInOrder'
    BY <1>5, ExecuteKeeps, ExecuteUnsortedKeeps
  <2> QED BY <2>1, <2>2, <2>3, <2>4
          DEF Depths, OverflowNeedsCycle, DepthsFollowStep, ForgettingStep
<1>6. CASE UNCHANGED vars
  <2>1. UNCHANGED <<life, nodes, producers, consumers, depth, ran, fault, connects>>
    BY <1>6 DEF vars
  <2>2. Alive' = Alive /\ \A n : ProducersOf(n)' = ProducersOf(n)
    BY <2>1 DEF Alive, ProducersOf
  <2>3. NoCycle' <=> NoCycle
    BY <2>2 DEF NoCycle, Cyclic
  <2>4. Links' /\ RanTheNodes' /\ Depths'
    BY <2>1, <2>2 DEF Links, GraphTypes, NodesAreAlive, InputsKept, OutputsKept,
                      RanTheNodes, Depths
  <2>5. EndsAgree' /\ OverflowNeedsCycle' /\ FrameInOrder'
    BY <2>1, <2>2, <2>3 DEF EndsAgree, OverflowNeedsCycle, FrameInOrder
  <2> QED BY <1>6, <2>4, <2>5
<1> QED BY <1>1, <1>2, <1>3, <1>4, <1>5, <1>6 DEF Next

\* The invariant holds whatever is created, connected, disconnected, destroyed
\* and run, in any order.
THEOREM GraphKeeps == Spec => []GraphInv
<1>1. Init => GraphInv
  BY InitGraph
<1>2. GraphInv /\ [Next]_vars => GraphInv'
  BY NextGraph
<1> QED BY <1>1, <1>2, PTL DEF Spec

\* The order holds the nodes that are alive, each once, the ends of every
\* connection agree as far as connect lets them, and set_depth comes back unless
\* it is sent round a cycle: for every set of nodes, keys, routings and wires.
THEOREM GraphStaysSound == Spec => []GraphSound
<1>1. GraphInv => GraphSound
  <2> SUFFICES ASSUME GraphInv PROVE TypeOK /\ EndsAgree /\ OverflowNeedsCycle
    BY DEF GraphSound
  <2> QED BY DEF GraphInv, Links, GraphTypes, NodesAreAlive, RanTheNodes, InputsKept,
                 OutputsKept, Depths, TypeOK
<1> QED BY <1>1, GraphKeeps, PTL

\* A frame runs every producer before its consumers unless the connections form
\* a cycle: what sort() does not find, there is not.
THEOREM FramesRunInOrder == Spec => []FrameInOrder
<1>1. GraphInv => FrameInOrder
  BY DEF GraphInv
<1> QED BY <1>1, GraphKeeps, PTL

\* A node whose depth connect sets ends up less deep than all its consumers.
THEOREM DepthsAlwaysFollow == Spec => DepthsFollow
<1>1. GraphInv /\ [Next]_vars =>
        [\A n \in Node :
           depth'[n] # depth[n] /\ NoCycle' =>
             \A c \in ConsumersOf(n)' : depth'[n] < depth'[c]]_vars
  BY NextGraph DEF DepthsFollowStep
<1> QED BY <1>1, GraphKeeps, PTL DEF Spec, DepthsFollow

\* unregister_node leaves a node that knew all its partners, two a key at most,
\* in nobody's list.
THEOREM TheDestroyedAreForgotten == Spec => DestroyedAreForgotten
<1>1. GraphInv /\ [Next]_vars =>
        [\A n \in Alive \ Alive' :
           (/\ KnowsItsPartners(n)
            /\ \A k \in Key : Len(producers[n][k]) <= 2 /\ Len(consumers[n][k]) <= 2)
             => Forgotten(n)']_vars
  BY NextGraph DEF ForgettingStep
<1> QED BY <1>1, GraphKeeps, PTL DEF Spec, DestroyedAreForgotten
=============================================================================
