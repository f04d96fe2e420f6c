----------------------------- MODULE MCPacketWriter -----------------------------
(* PacketWriter with a dataBuf of 20 words: events of 8 words just fit, those of 9 *)
(* are huge.                                                                       *)
EXTENDS PacketWriter
================================================================================
