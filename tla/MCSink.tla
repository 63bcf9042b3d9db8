------------------------------- MODULE MCSink -------------------------------
(* Instances of Sink for TLC.                                              *)
EXTENDS Sink, TLC

CONSTANTS p1, p2

\* One partition: a rejected transfer and an accepted one right behind it, which
\* share a pass and the queue, and poison behind a gap.
OneLog == p1 :> {0, 1, 3}
OnePoison == p1 :> {3}
OneOutput == p1 :> (0 :> 2 @@ 1 :> 1 @@ 3 :> 0)
OnePanic == p1 :> {1}

\* Two partitions, one record each.  The first one's event is rejected, and
\* the broker refuses the dead letter.
TwoLogs == p1 :> {0} @@ p2 :> {0}
NoRecord == p1 :> {} @@ p2 :> {}
TwoOutputs == p1 :> (0 :> 2) @@ p2 :> (0 :> 1)
OneRefused == {<<p1, 0, 2>>}

\* The same with two rejected events, and both dead letters refused.
MoreOutputs == p1 :> (0 :> 3) @@ p2 :> (0 :> 1)
TwoRefused == {<<p1, 0, 2>>, <<p1, 0, 3>>}
=============================================================================
