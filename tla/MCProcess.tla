----------------------------- MODULE MCProcess -----------------------------
(* An instance of Process for TLC.                                         *)
EXTENDS Process

CONSTANTS r1, r2

\* Requests overlap where the CDC job runs alone; beside the sink they come one
\* after the other, each joining what the last one left in flight.  Where both
\* jobs run none comes, as checks is what it is beside the sink.
FewVisits == [sink |-> {r1}, cdc |-> {r1, r2}, both |-> {}]
=============================================================================
