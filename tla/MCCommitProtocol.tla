-------------------------- MODULE MCCommitProtocol --------------------------
(* Instances of CommitProtocol for TLC.                                    *)
EXTENDS CommitProtocol, TLC

CONSTANTS c1, c2, p1, p2

\* A log that starts above 0 and has a gap, beside one of a single record.
TwoLogs == p1 :> {1, 2, 4} @@ p2 :> {0}
ShortLog == p1 :> {0, 1}

=============================================================================
