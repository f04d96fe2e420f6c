------------------------------ MODULE MCFilarRing ------------------------------
(* FilarRing with the sizes of the code on one channel, and with small rings on two. *)
(* The entry count wraps, or sticks, below NBuf in both.                             *)
EXTENDS FilarRing
================================================================================
