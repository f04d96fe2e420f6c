------------------------------ MODULE MCRunControl ------------------------------
(* RunControl needs no more than a bound on the timeouts: the queues are short *)
(* because the host sends one command at a time.                               *)
EXTENDS RunControl
================================================================================
