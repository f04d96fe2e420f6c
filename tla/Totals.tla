--------------------------------- MODULE Totals ---------------------------------
(* Sums of sequences of numbers, for the counts that programs on both sides of a   *)
(* socket or a file must agree on.                                                 *)
EXTENDS Integers, Sequences

\* The sum of the numbers in s.
Total(s) ==
    LET upTo[k \in 0 .. Len(s)] == IF k = 0 THEN 0 ELSE upTo[k - 1] + s[k]
    IN  upTo[Len(s)]
================================================================================
