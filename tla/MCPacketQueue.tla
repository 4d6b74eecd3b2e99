---------------------------- MODULE MCPacketQueue ----------------------------
(* Model-checking instance of PacketQueue; the .cfg file gives the bounds.   *)
EXTENDS PacketQueue
==============================================================================
