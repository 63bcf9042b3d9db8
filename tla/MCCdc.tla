------------------------------- MODULE MCCdc -------------------------------
(* Instances of Cdc for TLC.                                               *)
EXTENDS Cdc, TLC

CONSTANTS i1, i2, a, b

\* Neighbouring events on different partitions, and two on the same one.
Alternating == [e \in Events |-> IF e % 2 = 1 THEN a ELSE b]
Interchangeable == Permutations(Instances)
=============================================================================
