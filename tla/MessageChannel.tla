--------------------------- MODULE MessageChannel ---------------------------
(***************************************************************************)
(* What a connection of erhe::net promises: the messages that send() took  *)
(* arrive at the receive handler whole, in order and each once, as long as *)
(* the connection is sound.  A connection may stop at any time; when it is *)
(* not sound any more, anything may arrive.                                *)
(***************************************************************************)
EXTENDS Integers, Sequences

CONSTANTS Connections, Messages
VARIABLES accepted,   \* the messages that were taken, of each connection,
          delivered,  \* those the handler got, 0 for none of them,
          sound       \* and the connections that keep the promise

Init ==
  /\ accepted = [i \in Connections |-> <<>>]
  /\ delivered = [i \in Connections |-> <<>>]
  /\ sound = Connections

Accept(i) ==
  /\ \E m \in Messages : accepted' = [accepted EXCEPT ![i] = Append(@, m)]
  /\ UNCHANGED <<delivered, sound>>

Deliver(i) ==
  /\ i \in sound /\ Len(delivered[i]) < Len(accepted[i])
  /\ delivered' = [delivered EXCEPT ![i] = Append(@, accepted[i][Len(@) + 1])]
  /\ UNCHANGED <<accepted, sound>>

Spoil(i) == sound' = sound \ {i} /\ UNCHANGED <<accepted, delivered>>

DeliverAny(i) ==
  /\ i \notin sound
  /\ \E m \in Messages \cup {0} : delivered' = [delivered EXCEPT ![i] = Append(@, m)]
  /\ UNCHANGED <<accepted, sound>>

Next == \E i \in Connections : Accept(i) \/ Deliver(i) \/ Spoil(i) \/ DeliverAny(i)

Spec == Init /\ [][Next]_<<accepted, delivered, sound>>
=============================================================================
