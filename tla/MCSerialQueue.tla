---------------------------- MODULE MCSerialQueue ----------------------------
(* Two clients, one of which destroys the queue. *)
EXTENDS SerialQueue
CONSTANTS main, other
=============================================================================
