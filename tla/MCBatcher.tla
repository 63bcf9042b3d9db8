----------------------------- MODULE MCBatcher -----------------------------
(* Instances of Batcher for TLC.                                           *)
EXTENDS Batcher, TLC

CONSTANTS c1, c2, c3, c4

\* c1 ends in an open chain, c2 is a chain whose last event is rejected, c3
\* is of the other operation and c4 does not fit any batch.
Ops == [c \in Cmds |-> IF c = c3 THEN "accounts" ELSE "transfers"]
Sizes == [c \in Cmds |-> CASE c = c2 -> 2 [] c = c4 -> 4 [] OTHER -> 1]
Chains == [c \in Cmds |-> IF c \in {c1, c2} THEN 1..Sizes[c] ELSE {}]
Rejects == [c \in Cmds |-> IF c = c2 THEN {2} ELSE {}]
=============================================================================
