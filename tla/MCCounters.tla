------------------------------- MODULE MCCounters -------------------------------
(* Counters with a word of three values: the sums pass the end of a word and a narrow *)
(* sum gets to the largest word and beyond.                                          *)
EXTENDS Counters
================================================================================
