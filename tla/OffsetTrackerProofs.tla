------------------------- MODULE OffsetTrackerProofs -------------------------
(***************************************************************************)
(* The three promises of the offset tracker, for every set of offsets and  *)
(* every sequence of calls.                                                *)
(***************************************************************************)
EXTENDS OffsetTracker, TLAPS

\* What Track does to each field.
LEMMA TrackEffect ==
  ASSUME NEW s \in PartitionState, NEW o \in Nat
  PROVE  /\ Track(s, o) \in PartitionState
         /\ ~Track(s, o).forgotten
         /\ Track(s, o).pending = (IF s.forgotten THEN {} ELSE s.pending) \cup {o}
         /\ Track(s, o).done = IF s.forgotten THEN {} ELSE s.done
         /\ Track(s, o).committed = IF s.forgotten THEN -1 ELSE s.committed
  <1>1. Revived(s) \in PartitionState
    BY DEF Revived, Fresh, PartitionState
  <1>2. /\ ~Revived(s).forgotten
        /\ Revived(s).pending = IF s.forgotten THEN {} ELSE s.pending
        /\ Revived(s).done = IF s.forgotten THEN {} ELSE s.done
        /\ Revived(s).committed = IF s.forgotten THEN -1 ELSE s.committed
    BY DEF Revived, Fresh, PartitionState
  <1> QED
    BY <1>1, <1>2 DEF Track, PartitionState

\* A tracked record is pending, finished before or not.
LEMMA TrackStep ==
  ASSUME TrackerInv, NEW o \in Offs, CallTrack(o)
  PROVE  TrackerInv'
  <1>1. st \in PartitionState /\ o \in Nat
    BY OffsAssumption DEF TrackerInv, TypeOK
  <1>2. TypeOK'
    BY <1>1, TrackEffect DEF TrackerInv, TypeOK, CallTrack
  <1>3. CASE st.forgotten
    <2>1. tracked = {} /\ finished = {}
      BY <1>3 DEF TrackerInv, MatchesCalls, TypeOK
    <2>2. /\ st'.pending = {o} /\ st'.done = {} /\ ~st'.forgotten
          /\ st'.committed = -1
      BY <1>1, <1>3, TrackEffect DEF CallTrack
    <2>3. \A w \in snap : w \in Nat
      BY DEF TrackerInv, TypeOK
    <2> QED
      BY <1>2, <2>1, <2>2, <2>3 DEF CallTrack, TrackerInv, MatchesCalls
  <1>4. CASE ~st.forgotten
    <2>1. /\ st'.pending = st.pending \cup {o} /\ st'.done = st.done
          /\ ~st'.forgotten /\ st'.committed = st.committed
      BY <1>1, <1>4, TrackEffect DEF CallTrack
    <2> QED
      BY <1>2, <1>4, <2>1 DEF CallTrack, TrackerInv, MatchesCalls, TypeOK
  <1> QED
    BY <1>3, <1>4

\* A repeated, late or stray Done changes nothing; any other finishes a record.
LEMMA DoneStep ==
  ASSUME TrackerInv, NEW o \in Offs, CallDone(o)
  PROVE  TrackerInv'
  <1>1. CASE st.forgotten \/ o \notin st.pending
    <2>1. st' = st /\ UNCHANGED <<snap, tracked>>
      BY <1>1 DEF CallDone, Done
    <2>2. finished' = finished
      BY <1>1 DEF CallDone, TrackerInv, MatchesCalls, TypeOK
    <2> QED
      BY <2>1, <2>2 DEF TrackerInv, MatchesCalls, TypeOK
  <1>2. CASE ~st.forgotten /\ o \in st.pending
    <2>1. st \in PartitionState /\ o \in Nat
      BY OffsAssumption DEF TrackerInv, TypeOK
    <2>2. /\ st' \in PartitionState
          /\ st'.pending = st.pending \ {o} /\ st'.done = st.done \cup {o}
          /\ st'.forgotten = st.forgotten /\ st'.committed = st.committed
      BY <1>2, <2>1 DEF CallDone, Done, PartitionState
    <2>3. finished' = finished \cup {o} /\ UNCHANGED <<snap, tracked>>
      BY <1>2 DEF CallDone, TrackerInv, MatchesCalls
    <2>4. o \in tracked
      BY <1>2 DEF TrackerInv, MatchesCalls
    <2> QED
      BY <1>2, <2>2, <2>3, <2>4 DEF TrackerInv, MatchesCalls, TypeOK
  <1> QED
    BY <1>1, <1>2

\* A commit covers a prefix of what is finished.
LEMMA MarkStep ==
  ASSUME TrackerInv, CallMarkCommitted
  PROVE  TrackerInv'
  <1> DEFINE w == CHOOSE x \in snap : TRUE
  <1>1. st \in PartitionState /\ w \in snap /\ w \in Nat
    BY DEF CallMarkCommitted, TrackerInv, TypeOK
  <1>2. st' = MarkCommitted(st, w) /\ snap' = {} /\ UNCHANGED <<tracked, finished>>
    BY DEF CallMarkCommitted
  <1> HIDE DEF w
  <1>3. CASE st.forgotten
    BY <1>2, <1>3 DEF MarkCommitted, TrackerInv, MatchesCalls, TypeOK
  <1>4. CASE ~st.forgotten
    <2>1. /\ st' \in PartitionState
          /\ st'.pending = st.pending /\ st'.done = {o \in st.done : o >= w}
          /\ st'.committed = w /\ ~st'.forgotten
      BY <1>1, <1>2, <1>4 DEF MarkCommitted, PartitionState
    <2>2. w > st.committed
      BY <1>1, <1>4 DEF TrackerInv, MatchesCalls
    <2>3. \A o \in finished : o >= w => o \in st'.done
      <3>1. \A o \in finished : o \in Nat
        BY OffsAssumption DEF TrackerInv, TypeOK
      <3>2. st.committed \in Int
        BY <1>1 DEF PartitionState
      <3>3. \A o \in finished : o >= w => o >= st.committed
        BY <1>1, <2>2, <3>1, <3>2
      <3> QED
        BY <1>4, <2>1, <3>3 DEF TrackerInv, MatchesCalls
    <2> QED
      BY <1>2, <2>1, <2>3 DEF TrackerInv, MatchesCalls, TypeOK
  <1> QED
    BY <1>3, <1>4

\* Every call keeps the invariant.
LEMMA TrackerStep ==
  ASSUME TrackerInv, [Next]_vars
  PROVE  TrackerInv'
  <1>1. CASE UNCHANGED vars
    BY <1>1 DEF vars, TrackerInv, MatchesCalls, TypeOK
  <1>2. CASE \E o \in Offs : CallTrack(o) \/ CallDone(o)
    BY <1>2, TrackStep, DoneStep
  <1>3. CASE CallCommitable
    <2>1. Commitable(st) \subseteq Nat /\ \A w \in Commitable(st) : w > st.committed
      BY DEF Commitable, Watermark, LeastOf, GreatestOf, PartitionState,
           TrackerInv, TypeOK
    <2> QED
      BY <1>3, <2>1 DEF CallCommitable, TrackerInv, MatchesCalls, TypeOK
  <1>4. CASE CallMarkCommitted
    BY <1>4, MarkStep
  <1>5. CASE DropSnapshot
    BY <1>5 DEF DropSnapshot, TrackerInv, MatchesCalls, TypeOK
  <1>6. CASE CallForget
    BY <1>6 DEF CallForget, Forget, Tombstone, PartitionState, TrackerInv,
         MatchesCalls, TypeOK
  <1> QED
    BY <1>1, <1>2, <1>3, <1>4, <1>5, <1>6 DEF Next

\* The tracker's state is what the calls so far say.
THEOREM TrackerInvariant == Spec => []TrackerInv
  <1>1. Init => TrackerInv
    BY DEF Init, TrackerInv, MatchesCalls, TypeOK, Tombstone, PartitionState
  <1> QED
    BY <1>1, TrackerStep, PTL DEF Spec

-----------------------------------------------------------------------------
\* Commitable hands out a finished prefix of the records of this life, for
\* every order of calls.
THEOREM PrefixOnly == Spec => []CommitablePrefix
  <1>1. TrackerInv => CommitablePrefix
    <2> SUFFICES ASSUME TrackerInv, NEW w \in Commitable(st)
                 PROVE  /\ \A o \in tracked : o < w => o \in finished
                        /\ w - 1 \in finished
      BY DEF CommitablePrefix
    <2>1. /\ st.pending = tracked \ finished /\ st.done \subseteq tracked
          /\ tracked \subseteq Nat
      BY OffsAssumption DEF TrackerInv, MatchesCalls, TypeOK
    <2>2. w \in Watermark(st) /\ w - 1 \in st.done
      BY DEF Commitable
    <2>3. CASE st.pending # {}
      <3>1. w \in st.pending /\ \A y \in st.pending : w <= y
        BY <2>2, <2>3 DEF Watermark, LeastOf
      <3>2. w - 1 \notin st.pending /\ \A o \in tracked : o < w => o \notin st.pending
        <4>1. w \in Nat /\ st.pending \subseteq Nat
          BY <2>1, <3>1
        <4>2. \A y \in st.pending : ~(y < w) /\ y # w - 1
          BY <3>1, <4>1
        <4> QED
          BY <4>2
      <3> QED
        BY <2>1, <2>2, <3>2
    <2>4. CASE st.pending = {}
      BY <2>1, <2>2, <2>4
    <2> QED
      BY <2>3, <2>4
  <1> QED
    BY <1>1, TrackerInvariant, PTL

\* Nothing finished is held back once everything tracked is finished.
THEOREM NothingHeldBack == Spec => []CommitableComplete
  <1>1. TrackerInv => CommitableComplete
    <2> SUFFICES ASSUME TrackerInv, tracked # {}, tracked = finished,
                        NEW m \in GreatestOf(tracked), m >= st.committed
                 PROVE  Commitable(st) = {m + 1}
      BY DEF CommitableComplete
    <2>1. /\ st.pending = {} /\ st.done \subseteq tracked /\ ~st.forgotten
          /\ m \in tracked /\ tracked \subseteq Nat
          /\ \A y \in tracked : y <= m
      BY OffsAssumption DEF TrackerInv, MatchesCalls, TypeOK, GreatestOf
    <2>2. m \in st.done
      BY <2>1 DEF TrackerInv, MatchesCalls
    <2>3. GreatestOf(st.done) = {m}
      <3>1. \A x \in GreatestOf(st.done) : m <= x /\ x <= m /\ x \in Nat
        BY <2>1, <2>2 DEF GreatestOf
      <3>2. m \in GreatestOf(st.done)
        BY <2>1, <2>2 DEF GreatestOf
      <3>3. \A x \in GreatestOf(st.done) : x = m
        <4>1. m \in Nat
          BY <2>1
        <4>2. \A x \in Nat : m <= x /\ x <= m => x = m
          BY <4>1
        <4> QED
          BY <3>1, <4>2
      <3> QED
        BY <3>2, <3>3
    <2>4. Watermark(st) = {m + 1}
      BY <2>1, <2>3 DEF Watermark
    <2>5. m + 1 > st.committed /\ (m + 1) - 1 = m
      <3>1. st.committed \in Int /\ m \in Nat
        BY <2>1 DEF TrackerInv, TypeOK, PartitionState
      <3> QED
        BY <3>1
    <2> QED
      BY <2>2, <2>4, <2>5 DEF Commitable
  <1> QED
    BY <1>1, TrackerInvariant, PTL

\* An abandoned partition is rewound to its first unfinished record.
THEOREM RewindIsExact == Spec => []RewindToFirstUnfinished
  <1>1. TrackerInv => RewindToFirstUnfinished
    BY DEF TrackerInv, MatchesCalls, RewindToFirstUnfinished, RewindPoint, LeastOf
  <1> QED
    BY <1>1, TrackerInvariant, PTL
=============================================================================
