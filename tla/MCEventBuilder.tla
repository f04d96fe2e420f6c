----------------------------- MODULE MCEventBuilder -----------------------------
(* EventBuilder with two cards, a short ring and few triggers.  NSlots < EvidMod is  *)
(* kept, and EvidMod >= 2 * NSlots where words are lost: in the code it is 64 to     *)
(* 4096, so that an event left behind in the ring is never taken for a new one.      *)
EXTENDS EventBuilder
================================================================================
