------------------------------ MODULE MCCycleSync ------------------------------
(* CycleSync with few cards and blocks of up to two cycles.  *)
EXTENDS CycleSync
================================================================================
