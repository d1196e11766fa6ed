--------------------------- MODULE MCPacketStream ---------------------------
(***************************************************************************)
(* Packets of 3 and 4 cells, an empty message and one that is too long,    *)
(* and buffers of 6 cells: packets end where a buffer ends, and wrap.      *)
(***************************************************************************)
EXTENDS PacketStream

MCLengthOf == <<1, 2, 0, 5>>
=============================================================================
