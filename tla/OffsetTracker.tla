--------------------------- MODULE OffsetTracker ---------------------------
(***************************************************************************)
(* The tracker of module Offsets under the contract its comments give it,  *)
(* not under the calls the sink happens to make: offsets of one partition  *)
(* are tracked and finished in any order, Done may be repeated, late or    *)
(* for an offset never tracked, Forget may come at any time, and between   *)
(* Commitable and MarkCommitted (the lock is released) anything may happen.*)
(* The reference is what the calls so far say, kept beside the state: the  *)
(* offsets tracked since the partition's last revival and which of them    *)
(* are finished.                                                           *)
(***************************************************************************)
EXTENDS Offsets

CONSTANT Offs       \* the offsets records may have

ASSUME OffsAssumption == Offs \subseteq Nat

VARIABLES st,       \* the partitionState
          snap,     \* the offset handed out by Commitable, not yet marked
          tracked,  \* reference: offsets tracked in this life
          finished  \* reference: those of them that are finished

vars == <<st, snap, tracked, finished>>

TypeOK ==
    /\ st \in PartitionState
    /\ snap \subseteq Nat
    /\ tracked \subseteq Offs
    /\ finished \subseteq tracked

Init ==
    /\ st = Tombstone
    /\ snap = {}
    /\ tracked = {}
    /\ finished = {}

CallTrack(o) ==
    /\ st' = Track(st, o)
    /\ tracked' = tracked \cup {o}
    /\ finished' = finished \ {o}
    /\ UNCHANGED snap

CallDone(o) ==
    /\ st' = Done(st, o)
    /\ finished' = finished \cup ({o} \cap tracked)
    /\ UNCHANGED <<snap, tracked>>

CallCommitable ==
    /\ snap = {}
    /\ snap' = Commitable(st)
    /\ UNCHANGED <<st, tracked, finished>>

CallMarkCommitted ==
    /\ snap # {}
    /\ st' = MarkCommitted(st, CHOOSE w \in snap : TRUE)
    /\ snap' = {}
    /\ UNCHANGED <<tracked, finished>>

\* The commit failed: the caller drops what Commitable handed out.
DropSnapshot ==
    /\ snap # {}
    /\ snap' = {}
    /\ UNCHANGED <<st, tracked, finished>>

CallForget ==
    /\ st' = Forget(st)
    /\ tracked' = {}
    /\ finished' = {}
    /\ UNCHANGED snap

Next ==
    \/ CallCommitable \/ CallMarkCommitted \/ DropSnapshot \/ CallForget
    \/ \E o \in Offs : CallTrack(o) \/ CallDone(o)

Spec == Init /\ [][Next]_vars

-----------------------------------------------------------------------------
\* What ties the state to the calls so far.  The unfinished records of this
\* life are the pending ones; only tracked records are done, and a finished
\* one that no commit covers is; a handed out offset is above the commit it
\* will replace.
MatchesCalls ==
    /\ st.pending = tracked \ finished
    /\ st.done \subseteq tracked
    /\ st.forgotten => tracked = {}
    /\ ~st.forgotten =>
          /\ \A o \in finished : o >= st.committed => o \in st.done
          /\ \A w \in snap : w > st.committed

TrackerInv == TypeOK /\ MatchesCalls

\* Commitable hands out a contiguous prefix: all that was tracked below the
\* offset is finished, and so is the record right below it, in this life.
CommitablePrefix ==
    \A w \in Commitable(st) :
       /\ \A o \in tracked : o < w => o \in finished
       /\ w - 1 \in finished

\* Nothing is held back: once all that was tracked is finished, the offset
\* after the last record is handed out, unless a commit already covers it.
CommitableComplete ==
    tracked # {} /\ tracked = finished =>
       \A m \in GreatestOf(tracked) :
          m >= st.committed => Commitable(st) = {m + 1}

\* The rewind point of an abandoned partition is the first unfinished record
\* of this life, so a rewind neither skips one nor repeats a finished prefix.
RewindToFirstUnfinished == RewindPoint(st) = LeastOf(tracked \ finished)
=============================================================================
