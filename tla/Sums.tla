-------------------------------- MODULE Sums --------------------------------
(***************************************************************************)
(* The accumulation loops of the library ("total_cost += ...") are sums of *)
(* a sequence, taken from the left.  Written as a recursive function, not  *)
(* as a RECURSIVE operator, so that theorems can be proved about them.     *)
(***************************************************************************)
EXTENDS Integers, Sequences

Running(s) == LET run[i \in 0..Len(s)] == IF i = 0 THEN 0 ELSE run[i-1] + s[i]
              IN  run

Total(s) == Running(s)[Len(s)]
=============================================================================
