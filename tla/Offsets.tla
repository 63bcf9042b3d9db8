------------------------------ MODULE Offsets ------------------------------
(***************************************************************************)
(* The completion tracker of the sink, internal/sink/offsets.go: what one  *)
(* partitionState holds and what every method of Offsets does to it.       *)
(*                                                                         *)
(* The code keeps a map from partitions to states and leaves a partition   *)
(* it has never tracked out of the map.  Every method treats an absent     *)
(* partition exactly as it treats one with the forgotten flag, so here an  *)
(* absent partition is a Tombstone and the map is a total function.        *)
(*                                                                         *)
(* The leader epochs the code stores beside the offsets are left out: they *)
(* travel to the broker and back and decide nothing here.  The code keys   *)
(* its maps by offset, so a set of offsets stands for each of them.        *)
(*                                                                         *)
(* "At most one" results (a watermark that may be missing) are sets of at  *)
(* most one element.                                                       *)
(***************************************************************************)
EXTENDS Integers

\* minOffset and maxOffset, as sets: empty for an empty map.
LeastOf(S) == {x \in S : \A y \in S : x <= y}
GreatestOf(S) == {x \in S : \A y \in S : y <= x}

PartitionState ==
    [pending: SUBSET Nat, done: SUBSET Nat, committed: Nat \cup {-1},
     lowest: Nat \cup {-1}, highest: Nat, forgotten: BOOLEAN]

\* What Forget leaves behind: every field but the flag is Go's zero value.
Tombstone ==
    [pending |-> {}, done |-> {}, committed |-> 0, lowest |-> 0,
     highest |-> 0, forgotten |-> TRUE]

\* What Track starts a new or revived partition with.
Fresh ==
    [pending |-> {}, done |-> {}, committed |-> -1, lowest |-> -1,
     highest |-> 0, forgotten |-> FALSE]

Forget(st) == Tombstone

-----------------------------------------------------------------------------
\* Track starts a forgotten partition afresh: the group has given it back.
Revived(st) == IF st.forgotten THEN Fresh ELSE st

\* Mutant of Track: a revived partition keeps the zero values of its tombstone.
TrackRevivesInPlace(st, o) ==
    [st EXCEPT !.pending = @ \cup {o},
               !.highest = IF o > @ THEN o ELSE @,
               !.lowest = IF @ < 0 \/ o < @ THEN o ELSE @]

Track(st, o) ==
    [Revived(st) EXCEPT !.pending = @ \cup {o},
                        !.highest = IF o > @ THEN o ELSE @,
                        !.lowest = IF @ < 0 \/ o < @ THEN o ELSE @]

-----------------------------------------------------------------------------
\* Done ignores an offset that is not pending: a repeated or a late call.
Done(st, o) ==
    IF st.forgotten \/ o \notin st.pending THEN st
    ELSE [st EXCEPT !.pending = @ \ {o}, !.done = @ \cup {o}]

\* Mutant of Watermark: the highest finished record, whatever is pending below it.
WatermarkMaxDone(st) == {o + 1 : o \in GreatestOf(st.done)}

\* The offset of the next unprocessed record, if anything was ever tracked.
Watermark(st) ==
    IF st.pending # {} THEN LeastOf(st.pending)
    ELSE {o + 1 : o \in GreatestOf(st.done)}

\* What Commitable hands out for one partition: nothing, or one offset.
Commitable(st) ==
    {w \in Watermark(st) : w > st.committed /\ (w - 1) \in st.done}

\* Mutant of RewindPoint: one record too far back.
RewindBeforeFirst(st) ==
    IF st.forgotten THEN {} ELSE {o - 1 : o \in LeastOf(st.pending)}

\* The offset an abandoned partition is rewound to, if it has work left.
RewindPoint(st) == IF st.forgotten THEN {} ELSE LeastOf(st.pending)

\* Mutant of MarkCommitted: the record at the watermark is dropped too.
MarkCommittedOffByOne(st, w) ==
    IF st.forgotten THEN st
    ELSE [st EXCEPT !.committed = w, !.done = {o \in @ : o > w}]

\* Mutant of MarkCommitted: what the commit covers stays tracked.
MarkCommittedKeepsDone(st, w) ==
    IF st.forgotten THEN st ELSE [st EXCEPT !.committed = w]

\* A commit of w went through: remember it and drop what it covers.
MarkCommitted(st, w) ==
    IF st.forgotten THEN st
    ELSE [st EXCEPT !.committed = w, !.done = {o \in @ : o >= w}]

\* Mutant of CommitLag: the offset of the last record instead of the one after it.
CommitLagExclusive(st) ==
    st.highest - (IF st.committed < 0 THEN st.lowest ELSE st.committed)

\* The gauge kafkatb_offset_commit_lag; meaningless for a tombstone.
CommitLag(st) ==
    st.highest + 1 - (IF st.committed < 0 THEN st.lowest ELSE st.committed)

\* The number CommitLag stands for in the code's comment: what has been
\* tracked and is not yet covered by a commit.
Backlog(st) == st.pending \cup st.done
=============================================================================
