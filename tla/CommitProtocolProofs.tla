------------------------ MODULE CommitProtocolProofs ------------------------
(***************************************************************************)
(* Proofs about CommitProtocol, for every set of consumers, every set of   *)
(* partitions and every log, finite or not.                                *)
(***************************************************************************)
EXTENDS CommitProtocol, FiniteSetTheorems, TLAPS

-----------------------------------------------------------------------------
(* What the methods of the tracker do to one partition's state.            *)

\* What Forget leaves behind is a state.
LEMMA TombstoneType == Tombstone \in PartitionState
  BY DEF Tombstone, PartitionState

\* Track adds one offset to pending and revives a forgotten state.
LEMMA TrackFields ==
  ASSUME NEW st \in PartitionState, NEW o \in Nat
  PROVE  /\ Track(st, o) \in PartitionState
         /\ ~Track(st, o).forgotten
         /\ Track(st, o).pending =
              (IF st.forgotten THEN {} ELSE st.pending) \cup {o}
         /\ Track(st, o).done = IF st.forgotten THEN {} ELSE st.done
  <1>1. Revived(st) \in PartitionState
    BY DEF Revived, Fresh, PartitionState
  <1>2. /\ ~Revived(st).forgotten
        /\ Revived(st).pending = IF st.forgotten THEN {} ELSE st.pending
        /\ Revived(st).done = IF st.forgotten THEN {} ELSE st.done
    BY DEF Revived, Fresh, PartitionState
  <1> QED
    BY <1>1, <1>2 DEF Track, PartitionState

\* Done moves an offset from pending to done and changes nothing else.
LEMMA DoneFields ==
  ASSUME NEW st \in PartitionState, NEW o \in Nat
  PROVE  /\ Done(st, o) \in PartitionState
         /\ Done(st, o).forgotten = st.forgotten
         /\ Done(st, o).pending \subseteq st.pending
         /\ st.pending \subseteq Done(st, o).pending \cup {o}
         /\ Done(st, o).done \subseteq st.done \cup {o}
         /\ Done(st, o).pending \cup Done(st, o).done
              \subseteq st.pending \cup st.done
         /\ st.forgotten => Done(st, o) = st
  BY DEF Done, PartitionState

\* MarkCommitted touches neither pending nor the forgotten flag, and only
\* ever shrinks done.
LEMMA MarkFields ==
  ASSUME NEW st \in PartitionState, NEW w \in Nat
  PROVE  /\ MarkCommitted(st, w) \in PartitionState
         /\ MarkCommitted(st, w).forgotten = st.forgotten
         /\ MarkCommitted(st, w).pending = st.pending
         /\ MarkCommitted(st, w).done \subseteq st.done
  BY DEF MarkCommitted, PartitionState

\* The offsets Commitable hands out are natural numbers.
LEMMA CommitableType ==
  ASSUME NEW st \in PartitionState
  PROVE  Commitable(st) \subseteq Nat
  BY DEF Commitable, Watermark, LeastOf, GreatestOf, PartitionState

\* The offset Pending hands out is a pending one.
LEMMA RewindType ==
  ASSUME NEW st \in PartitionState
  PROVE  RewindPoint(st) \subseteq st.pending /\ RewindPoint(st) \subseteq Nat
  BY DEF RewindPoint, LeastOf, PartitionState

-----------------------------------------------------------------------------
(* Type correctness.                                                       *)

\* The return of commit keeps the types.
LEMMA ReturnType ==
  ASSUME TypeOK, NEW c \in Consumers, NEW who \in {"run", "revoke"},
         Return(c, who)
  PROVE  /\ pc' \in [Consumers -> {"poll", "track", "batch", "post", "commit",
                                   "final", "exited", "down"}]
         /\ mu' \in [Consumers -> {"free", "run", "revoke"}]
         /\ cstep' \in [Consumers -> {"flush", "send", "mark"}]
         /\ snap' \in [Consumers -> [Partitions -> SUBSET Nat]]
         /\ rstage' \in [Consumers -> {"none", "commit", "forget"}]
         /\ UNCHANGED <<stopping, fetched, pos, owned, revoking, member>>
  BY DEF TypeOK, Return, NoOffsets

\* The broker stores natural numbers.
LEMMA StoreType ==
  ASSUME TypeOK, NEW c \in Consumers, NEW A \in SUBSET Requested(c), Store(c, A)
  PROVE  /\ committed' \in [Partitions -> Nat]
         /\ \A p \in Partitions : committed'[p] = committed[p]
                                  \/ committed'[p] \in snap[c][p]
  <1>1. \A p \in A : p \in Partitions /\ snap[c][p] # {} /\ snap[c][p] \subseteq Nat
    BY DEF Requested, TypeOK
  <1>2. \A p \in A : (CHOOSE w \in snap[c][p] : TRUE) \in snap[c][p]
    BY <1>1
  <1> QED
    BY <1>1, <1>2 DEF Store, TypeOK

\* The end of a process keeps the types.
LEMMA DownType ==
  ASSUME TypeOK, NEW c \in Consumers, Down(c)
  PROVE  TypeOK'
  BY TombstoneType DEF TypeOK, Down, NoOffsets

\* Every step keeps the types.
LEMMA TypeStep ==
  ASSUME TypeOK, [Next]_vars
  PROVE  TypeOK'
  <1> USE LogAssumption
  <1>0. CASE UNCHANGED vars
    BY <1>0 DEF TypeOK, vars, loop, commit, group
  <1> SUFFICES ASSUME NEW c \in Consumers,
                      \/ Fault(c) \/ Progress(c) \/ CallbackProgress(c)
                      \/ Poll(c) \/ PollEmpty(c) \/ PeriodicCommit(c) \/ NotYetDue(c)
                      \/ Rejoin(c) \/ Restart(c)
                      \/ \E p \in Partitions : Assign(c, p) \/ Settle(c, p)
               PROVE  TypeOK'
    BY <1>0 DEF Next
  <1>1. CASE Fence(c)
    BY <1>1 DEF Fence, TypeOK, loop, commit
  <1>2. CASE Revoke(c)
    BY <1>2 DEF Revoke, Callback, TypeOK, loop, commit
  <1>3. CASE AbandonBatch(c)
    <2>1. \A p \in Unfinished(c) :
             (CHOOSE o \in RewindPoint(tracker[c][p]) : TRUE) \in Nat
      <3> SUFFICES ASSUME NEW p \in Unfinished(c)
                   PROVE  (CHOOSE o \in RewindPoint(tracker[c][p]) : TRUE) \in Nat
        OBVIOUS
      <3>1. tracker[c][p] \in PartitionState /\ RewindPoint(tracker[c][p]) # {}
        BY DEF Unfinished, TypeOK
      <3> QED
        BY <3>1, RewindType
    <2>2. pos' \in [Consumers -> [Partitions -> Nat]]
      <3> DEFINE back == [p \in Partitions |->
                            IF p \in Unfinished(c)
                            THEN CHOOSE o \in RewindPoint(tracker[c][p]) : TRUE
                            ELSE pos[c][p]]
      <3>0. \A p \in Partitions : pos[c][p] \in Nat
        BY DEF TypeOK
      <3>1. back \in [Partitions -> Nat]
        BY <2>1, <3>0
      <3>2. pos' = [pos EXCEPT ![c] = back]
        BY <1>3 DEF AbandonBatch
      <3> HIDE DEF back
      <3> QED
        BY <3>1, <3>2 DEF TypeOK
    <2>3. tracker' \in [Consumers -> [Partitions -> PartitionState]]
      <3> DEFINE left == [p \in Partitions |->
                            IF p \in Unfinished(c) THEN Forget(tracker[c][p])
                            ELSE tracker[c][p]]
      <3>1. left \in [Partitions -> PartitionState]
        BY TombstoneType DEF TypeOK, Forget
      <3>2. tracker' = [tracker EXCEPT ![c] = left]
        BY <1>3 DEF AbandonBatch
      <3> HIDE DEF left
      <3> QED
        BY <3>1, <3>2 DEF TypeOK
    <2> QED
      BY <1>3, <2>2, <2>3 DEF AbandonBatch, TypeOK, commit, group
  <1>4. CASE FlushFails(c)
    <2>1. Return(c, mu[c]) /\ mu[c] \in {"run", "revoke"}
      BY <1>4 DEF FlushFails, TypeOK
    <2> QED
      BY <1>4, <2>1, ReturnType DEF FlushFails, TypeOK
  <1>5. CASE SendFails(c)
    <2>1. Return(c, mu[c]) /\ mu[c] \in {"run", "revoke"}
      BY <1>5 DEF SendFails, TypeOK
    <2>2. committed' \in [Partitions -> Nat]
      BY <1>5, StoreType DEF SendFails
    <2> QED
      BY <1>5, <2>1, <2>2, ReturnType DEF SendFails, TypeOK
  <1>6. CASE Stop(c)
    BY <1>6 DEF Stop, TypeOK, commit, group
  <1>7. CASE Crash(c)
    BY <1>7, DownType DEF Crash
  <1>8. CASE StartWorkers(c)
    BY <1>8 DEF StartWorkers, TypeOK, commit, group
  <1>9. CASE BatchDone(c)
    BY <1>9 DEF BatchDone, TypeOK, commit, group
  <1>10. CASE LeaveOnShutdown(c)
    BY <1>10 DEF LeaveOnShutdown, TypeOK, commit, group
  <1>11. CASE FinalCommit(c)
    BY <1>11 DEF FinalCommit, TypeOK, commit, group
  <1>12. ASSUME NEW who \in {"run", "revoke"}, CommitBegin(c, who)
         PROVE  TypeOK'
    <2>1. CommitableNow(c) \in [Partitions -> SUBSET Nat]
      BY CommitableType DEF CommitableNow, TypeOK
    <2>2. CASE CommitableNow(c) = NoOffsets
      BY <1>12, <2>2, ReturnType DEF CommitBegin, TypeOK
    <2>3. CASE CommitableNow(c) # NoOffsets
      <3>1. /\ mu' = [mu EXCEPT ![c] = who]
            /\ snap' = [snap EXCEPT ![c] = CommitableNow(c)]
            /\ UNCHANGED <<cstep, loop, group, tracker, settled, committed>>
        BY <1>12, <2>3, Zenon DEF CommitBegin
      <3> QED
        BY <2>1, <3>1 DEF TypeOK, loop, group
    <2> QED
      BY <2>2, <2>3
  <1>13. CASE FlushOk(c)
    BY <1>13 DEF FlushOk, TypeOK, loop, group
  <1>14. CASE SendOk(c)
    <2>1. committed' \in [Partitions -> Nat]
      BY <1>14, StoreType DEF SendOk
    <2> QED
      BY <1>14, <2>1 DEF SendOk, TypeOK, loop, group
  <1>15. CASE SendRejected(c)
    <2>1. Return(c, mu[c]) /\ mu[c] \in {"run", "revoke"}
      BY <1>15 DEF SendRejected, TypeOK
    <2> QED
      BY <1>15, <2>1, ReturnType DEF SendRejected, TypeOK
  <1>16. CASE Mark(c)
    <2>1. Return(c, mu[c]) /\ mu[c] \in {"run", "revoke"}
      BY <1>16 DEF Mark, TypeOK
    <2>2. \A p \in Partitions : snap[c][p] # {} =>
             (CHOOSE w \in snap[c][p] : TRUE) \in Nat
      BY DEF TypeOK
    <2>3. tracker' \in [Consumers -> [Partitions -> PartitionState]]
      <3> DEFINE marked == [p \in Partitions |->
                     IF snap[c][p] = {} THEN tracker[c][p]
                     ELSE MarkCommitted(tracker[c][p], CHOOSE w \in snap[c][p] : TRUE)]
      <3>1. tracker[c] \in [Partitions -> PartitionState]
        BY DEF TypeOK
      <3>2. marked \in [Partitions -> PartitionState]
        BY <2>2, <3>1, MarkFields
      <3>3. tracker' = [tracker EXCEPT ![c] = marked]
        BY <1>16 DEF Mark
      <3> QED
        BY <3>2, <3>3 DEF TypeOK
    <2> QED
      BY <1>16, <2>1, <2>3, ReturnType DEF Mark, TypeOK
  <1>17. CASE Terminate(c)
    BY <1>17, DownType DEF Terminate
  <1>18. CASE GiveUpAll(c)
    BY <1>18 DEF GiveUpAll, Callback, TypeOK, loop, commit
  <1>19. CASE Poll(c)
    <2>1. PICK upto \in [Partitions -> UNION {EndsOf(c, p) : p \in Partitions}] :
             /\ \A p \in Partitions : upto[p] \in EndsOf(c, p)
             /\ fetched' = [fetched EXCEPT ![c] = [p \in Partitions |->
                              {o \in Log[p] : pos[c][p] <= o /\ o < upto[p]}]]
             /\ pos' = [pos EXCEPT ![c] = upto]
      BY <1>19 DEF Poll
    <2>2. \A p \in Partitions : EndsOf(c, p) \subseteq Nat
      BY DEF EndsOf, TypeOK
    <2>3. upto \in [Partitions -> Nat]
      BY <2>1, <2>2
    <2>4. pos' \in [Consumers -> [Partitions -> Nat]]
      BY <2>1, <2>3 DEF TypeOK
    <2>5. fetched' \in [Consumers -> [Partitions -> SUBSET Nat]]
      BY <2>1 DEF TypeOK
    <2> QED
      BY <1>19, <2>4, <2>5 DEF Poll, TypeOK, commit, group
  <1>20. CASE PollEmpty(c)
    BY <1>20 DEF PollEmpty, TypeOK, commit, group
  <1>21. CASE PeriodicCommit(c)
    BY <1>21 DEF PeriodicCommit, TypeOK, commit, group
  <1>22. CASE NotYetDue(c)
    BY <1>22 DEF NotYetDue, TypeOK, commit, group
  <1>23. CASE Rejoin(c)
    BY <1>23 DEF Rejoin, TypeOK, loop, commit
  <1>24. CASE Restart(c)
    BY <1>24 DEF Restart, TypeOK, commit
  <1>25. ASSUME NEW p \in Partitions, TrackRecord(c, p)
         PROVE  TypeOK'
    <2>1. PICK o \in LeastOf(fetched[c][p]) :
             /\ tracker' = [tracker EXCEPT ![c][p] = Track(@, o)]
             /\ fetched' = [fetched EXCEPT ![c][p] = @ \ {o}]
      BY <1>25 DEF TrackRecord
    <2>2. o \in Nat
      BY DEF LeastOf, TypeOK
    <2>3. tracker' \in [Consumers -> [Partitions -> PartitionState]]
      <3>1. Track(tracker[c][p], o) \in PartitionState
        BY <2>2, TrackFields DEF TypeOK
      <3> QED
        BY <2>1, <3>1 DEF TypeOK
    <2> QED
      BY <1>25, <2>1, <2>3 DEF TrackRecord, TypeOK, commit, group
  <1>26. ASSUME NEW p \in Partitions, Confirm(c, p)
         PROVE  TypeOK'
    <2>1. PICK o \in LeastOf(tracker[c][p].pending) :
             tracker' = [tracker EXCEPT ![c][p] = Done(@, o)]
      BY <1>26 DEF Confirm
    <2>2. o \in Nat
      BY DEF LeastOf, TypeOK, PartitionState
    <2>3. tracker' \in [Consumers -> [Partitions -> PartitionState]]
      <3>1. Done(tracker[c][p], o) \in PartitionState
        BY <2>2, DoneFields DEF TypeOK
      <3> QED
        BY <2>1, <3>1 DEF TypeOK
    <2> QED
      BY <1>26, <2>3 DEF Confirm, TypeOK, loop, commit, group
  <1>27. ASSUME NEW p \in Partitions, ForgetRevoked(c, p)
         PROVE  TypeOK'
    BY <1>27, TombstoneType DEF ForgetRevoked, Forget, TypeOK, loop, commit
  <1>28. ASSUME NEW p \in Partitions, Assign(c, p)
         PROVE  TypeOK'
    BY <1>28 DEF Assign, TypeOK, commit
  <1>29. ASSUME NEW p \in Partitions, Settle(c, p)
         PROVE  TypeOK'
    BY <1>29 DEF Settle, TypeOK, PartitionState, loop, commit, group
  <1> QED
    BY <1>1, <1>2, <1>3, <1>4, <1>5, <1>6, <1>7, <1>8, <1>9, <1>10, <1>11,
       <1>12, <1>13, <1>14, <1>15, <1>16, <1>17, <1>18, <1>19, <1>20, <1>21,
       <1>22, <1>23, <1>24, <1>25, <1>26, <1>27, <1>28, <1>29
    DEF Fault, Progress, CallbackProgress

\* Type correctness of the commit protocol: in particular every offset a
\* process rewinds to, asks the broker to store or fetches from is one.
THEOREM TypeCorrect == Spec => []TypeOK
  <1>1. Init => TypeOK
    BY TombstoneType DEF Init, TypeOK, NoOffsets
  <1>2. TypeOK /\ [Next]_vars => TypeOK'
    BY TypeStep
  <1> QED
    BY <1>1, <1>2, PTL DEF Spec

-----------------------------------------------------------------------------
(* No loss.  DataInv is disturbed by the steps that touch the tracker, the *)
(* fetch positions, the assignment or the settled records; every other     *)
(* step at most drops a snapshot or stores offsets from one.               *)

\* A step that keeps the trackers, positions and fetches, only drops snapshots
\* and stores only offsets that are safe keeps the data part of the invariant.
LEMMA Frame ==
  ASSUME TypeOK, DataInv,
         UNCHANGED <<tracker, pos, owned, fetched, settled>>,
         \A c \in Consumers, p \in Partitions : snap'[c][p] \subseteq snap[c][p],
         \A p \in Partitions : \/ committed'[p] = committed[p]
                               \/ \E c \in Consumers : committed'[p] \in snap[c][p]
  PROVE  DataInv'
  <1>1. \A p \in Partitions : \A w : SafeAt(p, w)' <=> SafeAt(p, w)
    BY DEF SafeAt
  <1>2. NoLoss'
    BY <1>1 DEF DataInv, NoLoss, SnapshotSafe
  <1>3. SnapshotSafe'
    BY <1>1 DEF DataInv, SnapshotSafe
  <1>4. NothingStranded' /\ DoneIsSettled' /\ TrackedIsOwned' /\ TrackedIsRead'
    BY DEF DataInv, NothingStranded, DoneIsSettled, TrackedIsOwned, TrackedIsRead
  <1> QED
    BY <1>2, <1>3, <1>4 DEF DataInv

\* The return of commit forgets the snapshot and leaves the rest alone.
LEMMA ReturnDropsSnapshot ==
  ASSUME TypeOK, NEW c \in Consumers, NEW who, Return(c, who)
  PROVE  /\ \A d \in Consumers, p \in Partitions : snap'[d][p] \subseteq snap[d][p]
         /\ UNCHANGED <<pos, owned, fetched>>
  BY DEF Return, TypeOK, NoOffsets

\* What Commitable hands out is safe to commit.
LEMMA CommitableSafe ==
  ASSUME IndInv, NEW c \in Consumers, NEW p \in Partitions,
         fetched[c][p] = {}, NEW w \in Commitable(tracker[c][p])
  PROVE  SafeAt(p, w)
  <1> USE LogAssumption
  <1> DEFINE st == tracker[c][p]
  <1>1. /\ st \in PartitionState /\ pos[c][p] \in Nat
        /\ st.pending \subseteq Nat /\ st.done \subseteq Nat
    BY DEF IndInv, TypeOK, PartitionState
  <1>2. w \in Watermark(st) /\ Backlog(st) # {}
    BY <1>1 DEF Commitable, Watermark, LeastOf, GreatestOf, Backlog
  <1>3. p \in owned[c]
    BY <1>1, <1>2 DEF IndInv, DataInv, TrackedIsOwned, PartitionState
  <1>4. w <= pos[c][p] /\ \A o \in st.pending : w <= o
    <2>1. \A o \in st.pending \cup st.done : o < pos[c][p]
      BY DEF IndInv, DataInv, TrackedIsRead, Backlog
    <2>2. CASE st.pending # {}
      BY <1>1, <1>2, <2>1, <2>2 DEF Watermark, LeastOf
    <2>3. CASE st.pending = {}
      BY <1>1, <1>2, <2>1, <2>3 DEF Watermark, GreatestOf
    <2> QED
      BY <2>2, <2>3
  <1>5. w \in Nat
    BY <1>1, CommitableType
  <1> SUFFICES ASSUME NEW o \in Log[p], o < w, o \notin settled[p]
               PROVE  FALSE
    BY DEF SafeAt
  <1>6. o \in Nat
    OBVIOUS
  <1>7. o < pos[c][p]
    BY <1>1, <1>4, <1>5, <1>6
  <1>8. o \in st.pending
    BY <1>3, <1>7 DEF IndInv, DataInv, NothingStranded
  <1> QED
    BY <1>4, <1>5, <1>6, <1>8

\* commit takes its snapshot under the lock: it is safe when taken.
LEMMA CommitBeginData ==
  ASSUME IndInv, NEW c \in Consumers, NEW who \in {"run", "revoke"},
         CommitBegin(c, who)
  PROVE  DataInv'
  <1> USE DEF IndInv
  <1>1. CASE CommitableNow(c) = NoOffsets
    <2>1. Return(c, who) /\ UNCHANGED <<tracker, settled, committed>>
      BY <1>1, Zenon DEF CommitBegin
    <2> QED
      BY <2>1, ReturnDropsSnapshot, Frame
  <1>2. CASE CommitableNow(c) # NoOffsets
    <2>1. /\ snap' = [snap EXCEPT ![c] = CommitableNow(c)]
          /\ UNCHANGED <<cstep, loop, group, tracker, settled, committed>>
      BY <1>2, Zenon DEF CommitBegin
    <2>2. fetched[c] = NoOffsets
      BY DEF CommitBegin, Committing, BlockHolds, RebalanceBlocked
    <2>3. \A p \in Partitions : \A w \in CommitableNow(c)[p] : SafeAt(p, w)
      BY <2>2, CommitableSafe DEF CommitableNow, NoOffsets
    <2>4. \A p \in Partitions : \A w : SafeAt(p, w)' <=> SafeAt(p, w)
      BY <2>1 DEF SafeAt
    <2>5. SnapshotSafe'
      BY <2>1, <2>3, <2>4 DEF DataInv, SnapshotSafe, TypeOK
    <2>6. NoLoss' /\ NothingStranded' /\ DoneIsSettled' /\ TrackedIsOwned'
            /\ TrackedIsRead'
      BY <2>1, <2>4 DEF DataInv, NoLoss, NothingStranded, DoneIsSettled,
           TrackedIsOwned, TrackedIsRead, loop, group
    <2> QED
      BY <2>5, <2>6 DEF DataInv
  <1> QED
    BY <1>1, <1>2

\* Offsets of records are natural numbers.
LEMMA LogOffsets == \A p \in Partitions : \A o \in Log[p] : o \in Nat
  BY LogAssumption

\* A newly assigned partition starts at the committed offset, below which
\* everything is settled.
LEMMA AssignData ==
  ASSUME IndInv, NEW c \in Consumers, NEW p \in Partitions, Assign(c, p)
  PROVE  DataInv'
  <1> USE DEF IndInv
  <1>1. /\ owned' = [owned EXCEPT ![c] = @ \cup {p}]
        /\ pos' = [pos EXCEPT ![c][p] = committed[p]]
        /\ p \notin owned[c] /\ ~RebalanceBlocked(c)
        /\ UNCHANGED <<tracker, fetched, snap, settled, committed>>
    BY DEF Assign, commit
  <1>2. \A q \in Partitions : \A w : SafeAt(q, w)' <=> SafeAt(q, w)
    BY <1>1 DEF SafeAt
  <1>3. NoLoss' /\ SnapshotSafe' /\ DoneIsSettled'
    BY <1>1, <1>2 DEF DataInv, NoLoss, SnapshotSafe, DoneIsSettled
  <1>4. fetched[c][p] = {}
    BY <1>1 DEF BlockHolds, RebalanceBlocked, NoOffsets
  <1>5. Backlog(tracker[c][p]) = {}
    BY <1>1 DEF DataInv, TrackedIsOwned
  <1>6. TrackedIsOwned'
    <2>1. \A d \in Consumers : owned[d] \subseteq owned'[d]
      BY <1>1 DEF TypeOK
    <2> QED
      BY <1>1, <2>1 DEF DataInv, TrackedIsOwned
  <1>7. TrackedIsRead'
    <2> SUFFICES ASSUME NEW d \in Consumers, NEW q \in Partitions,
                        NEW o \in Backlog(tracker[d][q]) \cup fetched[d][q]
                 PROVE  o \in Log[q] /\ o < pos'[d][q]
      BY <1>1 DEF TrackedIsRead
    <2>1. ~(d = c /\ q = p)
      BY <1>4, <1>5
    <2>2. pos'[d][q] = pos[d][q]
      BY <1>1, <2>1 DEF TypeOK
    <2> QED
      BY <2>2 DEF DataInv, TrackedIsRead
  <1>8. NothingStranded'
    <2> SUFFICES ASSUME NEW d \in Consumers, NEW q \in owned'[d], NEW o \in Log[q],
                        o < pos'[d][q], o \notin settled[q]
                 PROVE  o \in fetched[d][q] \cup tracker[d][q].pending
      BY <1>1 DEF NothingStranded
    <2>1. CASE d = c /\ q = p
      BY <1>1, <2>1 DEF DataInv, NoLoss, SafeAt, TypeOK
    <2>2. CASE ~(d = c /\ q = p)
      <3>1. q \in owned[d] /\ pos'[d][q] = pos[d][q]
        BY <1>1, <2>2 DEF TypeOK
      <3> QED
        BY <3>1 DEF DataInv, NothingStranded
    <2> QED
      BY <2>1, <2>2
  <1> QED
    BY <1>3, <1>6, <1>7, <1>8 DEF DataInv

\* A poll moves the position past exactly the records it hands over.
LEMMA PollData ==
  ASSUME IndInv, NEW c \in Consumers, Poll(c)
  PROVE  DataInv'
  <1> USE LogAssumption DEF IndInv
  <1>1. PICK upto \in [Partitions -> UNION {EndsOf(c, p) : p \in Partitions}] :
           /\ \A p \in Partitions : upto[p] \in EndsOf(c, p)
           /\ \A p \in Partitions \ owned[c] : upto[p] = pos[c][p]
           /\ fetched' = [fetched EXCEPT ![c] = [p \in Partitions |->
                            {o \in Log[p] : pos[c][p] <= o /\ o < upto[p]}]]
           /\ pos' = [pos EXCEPT ![c] = upto]
    BY DEF Poll
  <1>2. /\ UNCHANGED <<tracker, owned, snap, settled, committed>>
        /\ fetched[c] = NoOffsets
    BY DEF Poll, BlockHolds, commit, group
  <1>3. \A p \in Partitions : pos[c][p] \in Nat /\ upto[p] \in Nat /\ pos[c][p] <= upto[p]
    <2> SUFFICES ASSUME NEW p \in Partitions
                 PROVE  pos[c][p] \in Nat /\ upto[p] \in Nat /\ pos[c][p] <= upto[p]
      OBVIOUS
    <2>1. pos[c][p] \in Nat /\ Log[p] \subseteq Nat
      BY DEF TypeOK
    <2> QED
      BY <1>1, <2>1 DEF EndsOf
  <1>4. \A d \in Consumers, p \in Partitions :
           /\ pos'[d][p] = IF d = c THEN upto[p] ELSE pos[d][p]
           /\ fetched'[d][p] = IF d = c
                               THEN {o \in Log[p] : pos[c][p] <= o /\ o < upto[p]}
                               ELSE fetched[d][p]
    BY <1>1 DEF TypeOK
  <1>5. \A q \in Partitions : \A w : SafeAt(q, w)' <=> SafeAt(q, w)
    BY <1>2 DEF SafeAt
  <1>6. NoLoss' /\ SnapshotSafe' /\ DoneIsSettled'
    BY <1>2, <1>5 DEF DataInv, NoLoss, SnapshotSafe, DoneIsSettled
  <1>7. TrackedIsOwned'
    <2>1. ASSUME NEW p \in Partitions, fetched'[c][p] # {}
          PROVE  p \in owned[c]
      <3> SUFFICES ASSUME p \notin owned[c]
                   PROVE  FALSE
        OBVIOUS
      <3>1. fetched'[c][p] = {o \in Log[p] : pos[c][p] <= o /\ o < upto[p]}
        BY <1>4
      <3>2. upto[p] = pos[c][p]
        BY <1>1
      <3>3. PICK o \in Log[p] : pos[c][p] <= o /\ o < pos[c][p]
        BY <2>1, <3>1, <3>2
      <3> QED
        BY <1>3, <3>3, LogOffsets
    <2>2. ASSUME NEW d \in Consumers, NEW p \in Partitions, fetched'[d][p] # {}
          PROVE  p \in owned[d]
      <3>1. CASE d = c
        BY <2>1, <2>2, <3>1
      <3>2. CASE d # c
        <4>1. fetched'[d][p] = fetched[d][p]
          BY <1>4, <3>2
        <4> QED
          BY <2>2, <4>1 DEF DataInv, TrackedIsOwned
      <3> QED
        BY <3>1, <3>2
    <2> QED
      BY <1>2, <2>2 DEF DataInv, TrackedIsOwned
  <1>8. TrackedIsRead'
    <2> SUFFICES ASSUME NEW d \in Consumers, NEW p \in Partitions,
                        NEW o \in Backlog(tracker[d][p]) \cup fetched'[d][p]
                 PROVE  o \in Log[p] /\ o < pos'[d][p]
      BY <1>2 DEF TrackedIsRead
    <2>1. CASE o \in Backlog(tracker[d][p])
      <3>1. o \in Log[p] /\ o < pos[d][p]
        BY <2>1 DEF DataInv, TrackedIsRead
      <3>2. o \in Nat /\ pos[d][p] \in Nat
        BY <3>1, LogOffsets DEF TypeOK
      <3>3. pos[d][p] <= pos'[d][p] /\ pos'[d][p] \in Nat
        <4>1. CASE d = c
          <5>1. pos'[d][p] = upto[p] /\ pos[d][p] = pos[c][p]
            BY <1>4, <4>1
          <5> QED
            BY <1>3, <5>1
        <4>2. CASE d # c
          <5>1. pos'[d][p] = pos[d][p]
            BY <1>4, <4>2
          <5> QED
            BY <3>2, <5>1
        <4> QED
          BY <4>1, <4>2
      <3> QED
        BY <3>1, <3>2, <3>3
    <2>2. CASE o \in fetched'[d][p]
      <3>1. CASE d = c
        BY <1>4, <2>2, <3>1
      <3>2. CASE d # c
        <4>1. o \in fetched[d][p] /\ pos'[d][p] = pos[d][p]
          BY <1>4, <2>2, <3>2
        <4> QED
          BY <4>1 DEF DataInv, TrackedIsRead
      <3> QED
        BY <3>1, <3>2
    <2> QED
      BY <2>1, <2>2
  <1>9. NothingStranded'
    <2> SUFFICES ASSUME NEW d \in Consumers, NEW p \in owned[d], NEW o \in Log[p],
                        o < pos'[d][p], o \notin settled[p]
                 PROVE  o \in fetched'[d][p] \cup tracker[d][p].pending
      BY <1>2 DEF NothingStranded
    <2>0. p \in Partitions
      BY DEF TypeOK
    <2>1. CASE d # c
      BY <1>4, <2>0, <2>1 DEF DataInv, NothingStranded
    <2>2. CASE d = c /\ o < pos[c][p]
      <3>1. o \in fetched[c][p] \cup tracker[c][p].pending
        BY <2>2 DEF DataInv, NothingStranded
      <3> QED
        BY <1>2, <2>0, <2>2, <3>1 DEF NoOffsets
    <2>3. CASE d = c /\ ~(o < pos[c][p])
      <3>0. o \in Nat /\ pos[c][p] \in Nat /\ pos'[c][p] = upto[p]
        BY <1>3, <1>4, <2>0, LogOffsets
      <3>1. pos[c][p] <= o /\ o < upto[p]
        BY <2>3, <3>0
      <3> QED
        BY <1>4, <2>0, <2>3, <3>1
    <2> QED
      BY <2>1, <2>2, <2>3
  <1> QED
    BY <1>6, <1>7, <1>8, <1>9 DEF DataInv

\* Track takes a record from the poll into the tracker.
LEMMA TrackRecordData ==
  ASSUME IndInv, NEW c \in Consumers, NEW p \in Partitions, TrackRecord(c, p)
  PROVE  DataInv'
  <1> USE DEF IndInv
  <1>1. PICK o \in LeastOf(fetched[c][p]) :
           /\ tracker' = [tracker EXCEPT ![c][p] = Track(@, o)]
           /\ fetched' = [fetched EXCEPT ![c][p] = @ \ {o}]
    BY DEF TrackRecord
  <1>2. UNCHANGED <<pos, owned, snap, settled, committed>>
    BY DEF TrackRecord, commit, group
  <1>3. o \in fetched[c][p] /\ o \in Nat /\ p \in owned[c]
    BY DEF LeastOf, TypeOK, DataInv, TrackedIsOwned
  <1>4. tracker[c][p] \in PartitionState
    BY DEF TypeOK
  <1>5. /\ tracker'[c][p] = Track(tracker[c][p], o)
        /\ fetched'[c][p] = fetched[c][p] \ {o}
        /\ \A d \in Consumers, q \in Partitions : ~(d = c /\ q = p) =>
              tracker'[d][q] = tracker[d][q] /\ fetched'[d][q] = fetched[d][q]
    BY <1>1 DEF TypeOK
  <1>6. /\ ~tracker'[c][p].forgotten
        /\ tracker'[c][p].pending = tracker[c][p].pending \cup {o}
        /\ tracker'[c][p].done = tracker[c][p].done
    <2>1. tracker[c][p].forgotten =>
             tracker[c][p].pending = {} /\ tracker[c][p].done = {}
      BY DEF DataInv, TrackedIsOwned, Backlog
    <2>2. /\ ~tracker'[c][p].forgotten
          /\ tracker'[c][p].pending =
               (IF tracker[c][p].forgotten THEN {} ELSE tracker[c][p].pending) \cup {o}
          /\ tracker'[c][p].done =
               IF tracker[c][p].forgotten THEN {} ELSE tracker[c][p].done
      BY <1>3, <1>4, <1>5, TrackFields
    <2>3. CASE tracker[c][p].forgotten
      BY <2>1, <2>2, <2>3
    <2>4. CASE ~tracker[c][p].forgotten
      BY <2>2, <2>4
    <2> QED
      BY <2>3, <2>4
  <1>7. \A q \in Partitions : \A w : SafeAt(q, w)' <=> SafeAt(q, w)
    BY <1>2 DEF SafeAt
  <1>8. NoLoss' /\ SnapshotSafe'
    BY <1>2, <1>7 DEF DataInv, NoLoss, SnapshotSafe
  <1>9. DoneIsSettled'
    BY <1>2, <1>5, <1>6 DEF DataInv, DoneIsSettled
  <1>10. TrackedIsOwned'
    BY <1>2, <1>3, <1>5, <1>6 DEF DataInv, TrackedIsOwned
  <1>11. TrackedIsRead'
    BY <1>2, <1>3, <1>5, <1>6 DEF DataInv, TrackedIsRead, Backlog
  <1>12. NothingStranded'
    <2> SUFFICES ASSUME NEW d \in Consumers, NEW q \in owned[d], NEW x \in Log[q],
                        x < pos[d][q], x \notin settled[q]
                 PROVE  x \in fetched'[d][q] \cup tracker'[d][q].pending
      BY <1>2 DEF NothingStranded
    <2>1. q \in Partitions /\ x \in fetched[d][q] \cup tracker[d][q].pending
      BY DEF DataInv, NothingStranded, TypeOK
    <2> QED
      BY <1>5, <1>6, <2>1
  <1> QED
    BY <1>8, <1>9, <1>10, <1>11, <1>12 DEF DataInv

\* More settled records only make the invariant easier.
LEMMA SettleData ==
  ASSUME IndInv, NEW c \in Consumers, NEW p \in Partitions, Settle(c, p)
  PROVE  DataInv'
  <1> USE DEF IndInv
  <1>1. UNCHANGED <<tracker, pos, owned, fetched, snap, committed>>
    BY DEF Settle, loop, commit, group
  <1>2. \A q \in Partitions : settled[q] \subseteq settled'[q]
    BY DEF Settle, TypeOK
  <1>3. \A q \in Partitions : \A w : SafeAt(q, w) => SafeAt(q, w)'
    BY <1>2 DEF SafeAt
  <1>4. NoLoss' /\ SnapshotSafe'
    BY <1>1, <1>3 DEF DataInv, NoLoss, SnapshotSafe
  <1>5. NothingStranded' /\ DoneIsSettled'
    BY <1>1, <1>2 DEF DataInv, NothingStranded, DoneIsSettled, TypeOK
  <1>6. TrackedIsOwned' /\ TrackedIsRead'
    BY <1>1 DEF DataInv, TrackedIsOwned, TrackedIsRead
  <1> QED
    BY <1>4, <1>5, <1>6 DEF DataInv

\* Done is called for a settled record.
LEMMA ConfirmData ==
  ASSUME IndInv, NEW c \in Consumers, NEW p \in Partitions, Confirm(c, p)
  PROVE  DataInv'
  <1> USE DEF IndInv
  <1>1. PICK o \in LeastOf(tracker[c][p].pending) :
           o \in settled[p] /\ tracker' = [tracker EXCEPT ![c][p] = Done(@, o)]
    BY DEF Confirm
  <1>2. UNCHANGED <<pos, owned, fetched, snap, settled, committed>>
    BY DEF Confirm, loop, commit, group
  <1>3. tracker[c][p] \in PartitionState /\ o \in Nat
    BY DEF LeastOf, TypeOK, PartitionState
  <1>4. /\ tracker'[c][p] = Done(tracker[c][p], o)
        /\ \A d \in Consumers, q \in Partitions : ~(d = c /\ q = p) =>
              tracker'[d][q] = tracker[d][q]
    BY <1>1 DEF TypeOK
  <1>5. /\ tracker'[c][p].forgotten = tracker[c][p].forgotten
        /\ tracker[c][p].pending \subseteq tracker'[c][p].pending \cup {o}
        /\ tracker'[c][p].done \subseteq tracker[c][p].done \cup {o}
        /\ Backlog(tracker'[c][p]) \subseteq Backlog(tracker[c][p])
    BY <1>3, <1>4, DoneFields DEF Backlog
  <1>6. \A q \in Partitions : \A w : SafeAt(q, w)' <=> SafeAt(q, w)
    BY <1>2 DEF SafeAt
  <1>7. NoLoss' /\ SnapshotSafe'
    BY <1>2, <1>6 DEF DataInv, NoLoss, SnapshotSafe
  <1>8. DoneIsSettled'
    BY <1>1, <1>2, <1>4, <1>5 DEF DataInv, DoneIsSettled
  <1>9. TrackedIsOwned'
    BY <1>2, <1>4, <1>5 DEF DataInv, TrackedIsOwned
  <1>10. TrackedIsRead'
    BY <1>2, <1>4, <1>5 DEF DataInv, TrackedIsRead
  <1>11. NothingStranded'
    <2> SUFFICES ASSUME NEW d \in Consumers, NEW q \in owned[d], NEW x \in Log[q],
                        x < pos[d][q], x \notin settled[q]
                 PROVE  x \in fetched[d][q] \cup tracker'[d][q].pending
      BY <1>2 DEF NothingStranded
    <2>1. q \in Partitions /\ x \in fetched[d][q] \cup tracker[d][q].pending
      BY DEF DataInv, NothingStranded, TypeOK
    <2> QED
      BY <1>1, <1>4, <1>5, <2>1
  <1> QED
    BY <1>7, <1>8, <1>9, <1>10, <1>11 DEF DataInv

\* MarkCommitted drops only finished records.
LEMMA MarkData ==
  ASSUME IndInv, NEW c \in Consumers, Mark(c)
  PROVE  DataInv'
  <1> USE DEF IndInv
  <1>1. /\ UNCHANGED <<pos, owned, fetched, settled, committed>>
        /\ \A d \in Consumers, p \in Partitions : snap'[d][p] \subseteq snap[d][p]
    BY ReturnDropsSnapshot DEF Mark
  <1>2. \A d \in Consumers, p \in Partitions :
           /\ tracker'[d][p].forgotten = tracker[d][p].forgotten
           /\ tracker'[d][p].pending = tracker[d][p].pending
           /\ tracker'[d][p].done \subseteq tracker[d][p].done
    <2> SUFFICES ASSUME NEW d \in Consumers, NEW p \in Partitions
                 PROVE  /\ tracker'[d][p].forgotten = tracker[d][p].forgotten
                        /\ tracker'[d][p].pending = tracker[d][p].pending
                        /\ tracker'[d][p].done \subseteq tracker[d][p].done
      OBVIOUS
    <2>1. CASE d # c \/ snap[c][p] = {}
      <3>1. tracker'[d][p] = tracker[d][p]
        BY <2>1 DEF Mark, TypeOK
      <3> QED
        BY <3>1
    <2>2. CASE d = c /\ snap[c][p] # {}
      <3>1. PICK w \in Nat : tracker'[c][p] = MarkCommitted(tracker[c][p], w)
        <4>1. (CHOOSE w \in snap[c][p] : TRUE) \in Nat
          BY <2>2 DEF TypeOK
        <4>2. tracker'[c][p] = MarkCommitted(tracker[c][p], CHOOSE w \in snap[c][p] : TRUE)
          BY <2>2 DEF Mark, TypeOK
        <4> QED
          BY <4>1, <4>2
      <3>2. tracker[c][p] \in PartitionState
        BY DEF TypeOK
      <3> QED
        BY <2>2, <3>1, <3>2, MarkFields
    <2> QED
      BY <2>1, <2>2
  <1>3. \A q \in Partitions : \A w : SafeAt(q, w)' <=> SafeAt(q, w)
    BY <1>1 DEF SafeAt
  <1>4. NoLoss' /\ SnapshotSafe'
    BY <1>1, <1>3 DEF DataInv, NoLoss, SnapshotSafe
  <1>5a. \A d \in Consumers, p \in Partitions :
            Backlog(tracker'[d][p]) \subseteq Backlog(tracker[d][p])
    BY <1>2 DEF Backlog
  <1>5. DoneIsSettled' /\ TrackedIsOwned' /\ TrackedIsRead'
    <2>1. DoneIsSettled'
      BY <1>1, <1>2 DEF DataInv, DoneIsSettled
    <2>2. TrackedIsOwned'
      BY <1>1, <1>2, <1>5a DEF DataInv, TrackedIsOwned
    <2>3. TrackedIsRead'
      BY <1>1, <1>5a DEF DataInv, TrackedIsRead
    <2> QED
      BY <2>1, <2>2, <2>3
  <1>6. NothingStranded'
    <2> SUFFICES ASSUME NEW d \in Consumers, NEW p \in owned[d], NEW o \in Log[p],
                        o < pos[d][p], o \notin settled[p]
                 PROVE  o \in fetched[d][p] \cup tracker'[d][p].pending
      BY <1>1 DEF NothingStranded
    <2>1. p \in Partitions /\ o \in fetched[d][p] \cup tracker[d][p].pending
      BY DEF DataInv, NothingStranded, TypeOK
    <2> QED
      BY <1>2, <2>1
  <1> QED
    BY <1>4, <1>5, <1>6 DEF DataInv

\* abandonBatch rewinds to the first record that is not finished.
LEMMA AbandonData ==
  ASSUME IndInv, NEW c \in Consumers, AbandonBatch(c)
  PROVE  DataInv'
  <1> USE DEF IndInv
  <1>1. UNCHANGED <<owned, fetched, snap, settled, committed>>
    BY DEF AbandonBatch, commit, group
  <1>2. fetched[c] = NoOffsets
    BY DEF AbandonBatch, BlockHolds
  <1>3. \A d \in Consumers, p \in Partitions : ~(d = c /\ p \in Unfinished(c)) =>
           tracker'[d][p] = tracker[d][p] /\ pos'[d][p] = pos[d][p]
    BY DEF AbandonBatch, TypeOK
  <1>4. \A p \in Unfinished(c) :
           /\ p \in Partitions
           /\ tracker'[c][p] = Tombstone
           /\ pos'[c][p] \in RewindPoint(tracker[c][p])
    <2> SUFFICES ASSUME NEW p \in Unfinished(c)
                 PROVE  /\ p \in Partitions
                        /\ tracker'[c][p] = Tombstone
                        /\ pos'[c][p] \in RewindPoint(tracker[c][p])
      OBVIOUS
    <2>1. p \in Partitions /\ RewindPoint(tracker[c][p]) # {}
      BY DEF Unfinished
    <2>2. tracker'[c][p] = Tombstone
      BY <2>1 DEF AbandonBatch, Forget, TypeOK
    <2>3. pos'[c][p] = CHOOSE o \in RewindPoint(tracker[c][p]) : TRUE
      BY <2>1 DEF AbandonBatch, TypeOK
    <2> QED
      BY <2>1, <2>2, <2>3
  <1>5. Tombstone.forgotten /\ Backlog(Tombstone) = {} /\ Tombstone.done = {}
    BY DEF Tombstone, Backlog
  <1>6. \A q \in Partitions : \A w : SafeAt(q, w)' <=> SafeAt(q, w)
    BY <1>1 DEF SafeAt
  <1>7. NoLoss' /\ SnapshotSafe'
    BY <1>1, <1>6 DEF DataInv, NoLoss, SnapshotSafe
  <1>8. DoneIsSettled'
    BY <1>1, <1>3, <1>4, <1>5 DEF DataInv, DoneIsSettled
  <1>9. TrackedIsOwned'
    BY <1>1, <1>3, <1>4, <1>5 DEF DataInv, TrackedIsOwned
  <1>10. TrackedIsRead'
    BY <1>1, <1>2, <1>3, <1>4, <1>5 DEF DataInv, TrackedIsRead, NoOffsets
  <1>11. NothingStranded'
    <2> SUFFICES ASSUME NEW d \in Consumers, NEW p \in owned[d], NEW o \in Log[p],
                        o < pos'[d][p], o \notin settled[p]
                 PROVE  o \in fetched[d][p] \cup tracker'[d][p].pending
      BY <1>1 DEF NothingStranded
    <2>0. p \in Partitions /\ o \in Nat
      BY LogOffsets DEF TypeOK
    <2>1. CASE ~(d = c /\ p \in Unfinished(c))
      BY <1>3, <2>0, <2>1 DEF DataInv, NothingStranded
    <2>2. CASE d = c /\ p \in Unfinished(c)
      <3> DEFINE w == pos'[c][p]
      <3>1. w \in tracker[c][p].pending /\ \A x \in tracker[c][p].pending : w <= x
        BY <1>4, <2>2 DEF RewindPoint, LeastOf
      <3>2. w < pos[c][p] /\ w \in Nat /\ pos[c][p] \in Nat
        BY <2>0, <3>1 DEF DataInv, TrackedIsRead, Backlog, TypeOK, PartitionState
      <3>3. o < pos[c][p]
        BY <2>0, <2>2, <3>2
      <3>4. o \in tracker[c][p].pending
        BY <1>2, <2>0, <2>2, <3>3 DEF DataInv, NothingStranded, NoOffsets
      <3> QED
        BY <2>0, <2>2, <3>1, <3>2, <3>4
    <2> QED
      BY <2>1, <2>2
  <1> QED
    BY <1>7, <1>8, <1>9, <1>10, <1>11 DEF DataInv

\* OnRevoked forgets a partition it no longer owns.
LEMMA ForgetData ==
  ASSUME IndInv, NEW c \in Consumers, NEW p \in Partitions, ForgetRevoked(c, p)
  PROVE  DataInv'
  <1> USE DEF IndInv
  <1>1. UNCHANGED <<pos, fetched, snap, settled, committed>>
    BY DEF ForgetRevoked, loop, commit
  <1>2. /\ tracker'[c][p] = Tombstone
        /\ \A d \in Consumers, q \in Partitions : ~(d = c /\ q = p) =>
              tracker'[d][q] = tracker[d][q] /\ (q \in owned'[d] <=> q \in owned[d])
        /\ p \notin owned'[c]
        /\ \A d \in Consumers : owned'[d] \subseteq Partitions
    BY DEF ForgetRevoked, Forget, TypeOK
  <1>3. fetched[c][p] = {}
    BY DEF ForgetRevoked, BlockHolds, RebalanceBlocked, NoOffsets
  <1>4. Tombstone.forgotten /\ Backlog(Tombstone) = {} /\ Tombstone.done = {}
    BY DEF Tombstone, Backlog
  <1>5. \A q \in Partitions : \A w : SafeAt(q, w)' <=> SafeAt(q, w)
    BY <1>1 DEF SafeAt
  <1>6. NoLoss' /\ SnapshotSafe'
    BY <1>1, <1>5 DEF DataInv, NoLoss, SnapshotSafe
  <1>7. DoneIsSettled'
    BY <1>1, <1>2, <1>4 DEF DataInv, DoneIsSettled
  <1>8. TrackedIsOwned'
    BY <1>1, <1>2, <1>3, <1>4 DEF DataInv, TrackedIsOwned
  <1>9. TrackedIsRead'
    BY <1>1, <1>2, <1>3, <1>4 DEF DataInv, TrackedIsRead
  <1>10. NothingStranded'
    BY <1>1, <1>2 DEF DataInv, NothingStranded, TypeOK
  <1> QED
    BY <1>6, <1>7, <1>8, <1>9, <1>10 DEF DataInv

\* A process that ended owns nothing.
LEMMA DownData ==
  ASSUME IndInv, NEW c \in Consumers, Down(c)
  PROVE  DataInv'
  <1> USE DEF IndInv
  <1>1. UNCHANGED <<settled, committed>>
    BY DEF Down
  <1>2. /\ owned'[c] = {}
        /\ \A p \in Partitions : /\ tracker'[c][p] = Tombstone
                                 /\ fetched'[c][p] = {} /\ snap'[c][p] = {}
        /\ \A d \in Consumers \ {c} :
              /\ tracker'[d] = tracker[d] /\ fetched'[d] = fetched[d]
              /\ snap'[d] = snap[d] /\ pos'[d] = pos[d] /\ owned'[d] = owned[d]
    BY DEF Down, NoOffsets, TypeOK
  <1>3. Tombstone.forgotten /\ Backlog(Tombstone) = {} /\ Tombstone.done = {}
    BY DEF Tombstone, Backlog
  <1>4. \A q \in Partitions : \A w : SafeAt(q, w)' <=> SafeAt(q, w)
    BY <1>1 DEF SafeAt
  <1>5. NoLoss' /\ SnapshotSafe'
    BY <1>1, <1>2, <1>4 DEF DataInv, NoLoss, SnapshotSafe
  <1>6. DoneIsSettled' /\ TrackedIsOwned'
    <2>1. DoneIsSettled'
      BY <1>1, <1>2, <1>3 DEF DataInv, DoneIsSettled
    <2>2. TrackedIsOwned'
      BY <1>2, <1>3 DEF DataInv, TrackedIsOwned
    <2> QED
      BY <2>1, <2>2
  <1>7. TrackedIsRead'
    <2> SUFFICES ASSUME NEW d \in Consumers, NEW p \in Partitions,
                        NEW o \in Backlog(tracker'[d][p]) \cup fetched'[d][p]
                 PROVE  o \in Log[p] /\ o < pos'[d][p]
      BY DEF TrackedIsRead
    <2>1. d # c
      BY <1>2, <1>3
    <2> QED
      BY <1>2, <2>1 DEF DataInv, TrackedIsRead
  <1>8. NothingStranded'
    BY <1>1, <1>2 DEF DataInv, NothingStranded
  <1> QED
    BY <1>5, <1>6, <1>7, <1>8 DEF DataInv
-----------------------------------------------------------------------------
(* The rebalance block, and the steps that leave the data alone.           *)

\* Every step keeps the rebalance block and the commit mutex honest.
LEMMA BlockStep ==
  ASSUME TypeOK, BlockHolds, NEW c \in Consumers,
         \/ Fault(c) \/ Progress(c) \/ CallbackProgress(c)
         \/ Poll(c) \/ PollEmpty(c) \/ PeriodicCommit(c) \/ NotYetDue(c)
         \/ Rejoin(c) \/ Restart(c)
         \/ \E p \in Partitions : Assign(c, p) \/ Settle(c, p)
  PROVE  BlockHolds'
  <1> USE DEF BlockHolds, RebalanceBlocked, Committing, TypeOK
  <1>1. CASE \/ Fence(c) \/ Revoke(c) \/ Stop(c) \/ Rejoin(c) \/ Restart(c)
             \/ GiveUpAll(c) \/ FlushOk(c) \/ SendOk(c)
    BY <1>1 DEF Fence, Revoke, GiveUpAll, Callback, Stop, Rejoin, Restart,
         FlushOk, SendOk, loop, group, commit
  <1>2. CASE \/ AbandonBatch(c) \/ StartWorkers(c) \/ BatchDone(c)
             \/ LeaveOnShutdown(c) \/ FinalCommit(c) \/ PollEmpty(c)
             \/ PeriodicCommit(c) \/ NotYetDue(c)
    <2>1. /\ UNCHANGED <<fetched, mu, rstage>>
          /\ pc[c] \notin {"commit", "final"}
          /\ pc[c] = "track" => fetched[c] = NoOffsets
          /\ pc[c] # "track" => pc'[c] # "batch"
          /\ pc'[c] # "track"
          /\ \A d \in Consumers \ {c} : pc'[d] = pc[d]
      BY <1>2 DEF AbandonBatch, StartWorkers, BatchDone, LeaveOnShutdown,
           FinalCommit, PollEmpty, PeriodicCommit, NotYetDue, group, commit
    <2> QED
      BY <2>1
  <1>3. CASE Crash(c) \/ Terminate(c)
    <2>1. /\ fetched'[c] = NoOffsets /\ rstage'[c] = "none" /\ mu'[c] = "free"
          /\ \A d \in Consumers \ {c} :
                /\ fetched'[d] = fetched[d] /\ rstage'[d] = rstage[d]
                /\ mu'[d] = mu[d] /\ pc'[d] = pc[d]
      BY <1>3 DEF Crash, Terminate, Down
    <2> SUFFICES ASSUME NEW d \in Consumers
                 PROVE  /\ pc'[d] # "track" => fetched'[d] = NoOffsets
                        /\ rstage'[d] # "none" => pc'[d] \notin {"track", "batch"}
                        /\ mu'[d] # "free" => Committing(d, mu[d])'
      BY DEF NoOffsets
    <2>2. CASE d = c
      BY <2>1, <2>2
    <2>3. CASE d # c
      BY <2>1, <2>3
    <2> QED
      BY <2>2, <2>3
  <1>4. CASE Poll(c)
    <2>1. \A d \in Consumers \ {c} : fetched'[d] = fetched[d]
      BY <1>4 DEF Poll
    <2> QED
      BY <1>4, <2>1 DEF Poll, group, commit
  <1>5. CASE \E who \in {"run", "revoke"} : CommitBegin(c, who)
    <2>1. PICK who \in {"run", "revoke"} : CommitBegin(c, who)
      BY <1>5
    <2>2. CASE Return(c, who)
      BY <2>1, <2>2 DEF CommitBegin, Return
    <2>3. CASE mu' = [mu EXCEPT ![c] = who] /\ UNCHANGED <<cstep, loop, group>>
      BY <2>1, <2>3 DEF CommitBegin, loop, group
    <2> QED
      BY <2>1, <2>2, <2>3, Zenon DEF CommitBegin
  <1>6. CASE FlushFails(c) \/ SendFails(c) \/ SendRejected(c) \/ Mark(c)
    <2>1. Return(c, mu[c]) /\ mu[c] # "free"
      BY <1>6 DEF FlushFails, SendFails, SendRejected, Mark
    <2> QED
      BY <2>1 DEF Return
  <1>7. ASSUME NEW p \in Partitions,
               TrackRecord(c, p) \/ Confirm(c, p) \/ ForgetRevoked(c, p)
               \/ Assign(c, p) \/ Settle(c, p)
        PROVE  BlockHolds'
    <2>1. CASE TrackRecord(c, p)
      BY <2>1 DEF TrackRecord, group, commit
    <2>2. CASE ForgetRevoked(c, p)
      BY <2>2 DEF ForgetRevoked, loop, commit
    <2>3. CASE Confirm(c, p) \/ Assign(c, p) \/ Settle(c, p)
      BY <2>3 DEF Confirm, Assign, Settle, loop, group, commit
    <2> QED
      BY <1>7, <2>1, <2>2, <2>3
  <1> QED
    BY <1>1, <1>2, <1>3, <1>4, <1>5, <1>6, <1>7
    DEF Fault, Progress, CallbackProgress

\* The invariant holds initially.
LEMMA InvInit == Init => IndInv
  <1> SUFFICES ASSUME Init
               PROVE  IndInv
    OBVIOUS
  <1>1. TypeOK
    BY TombstoneType DEF Init, TypeOK, NoOffsets
  <1>2. Tombstone.forgotten /\ Backlog(Tombstone) = {} /\ Tombstone.done = {}
    BY DEF Tombstone, Backlog
  <1>3. NoLoss
    BY LogOffsets DEF Init, NoLoss, SafeAt
  <1>4. NothingStranded /\ DoneIsSettled /\ TrackedIsOwned /\ TrackedIsRead
          /\ SnapshotSafe
    BY <1>2 DEF Init, NothingStranded, DoneIsSettled, TrackedIsOwned,
         TrackedIsRead, SnapshotSafe, NoOffsets
  <1>5. BlockHolds
    BY DEF Init, BlockHolds, RebalanceBlocked
  <1> QED
    BY <1>1, <1>3, <1>4, <1>5 DEF IndInv, DataInv

\* Every step preserves the invariant, one case per action.
LEMMA InvStep ==
  ASSUME IndInv, [Next]_vars
  PROVE  IndInv'
  <1>1. TypeOK'
    BY TypeStep DEF IndInv
  <1>2. CASE UNCHANGED vars
    <2>1. DataInv'
      BY <1>2, Frame DEF IndInv, vars, loop, commit, group
    <2>2. BlockHolds'
      BY <1>2 DEF IndInv, BlockHolds, RebalanceBlocked, Committing, vars, loop,
           commit, group
    <2> QED
      BY <1>1, <2>1, <2>2 DEF IndInv
  <1> SUFFICES ASSUME NEW c \in Consumers,
                      \/ Fault(c) \/ Progress(c) \/ CallbackProgress(c)
                      \/ Poll(c) \/ PollEmpty(c) \/ PeriodicCommit(c) \/ NotYetDue(c)
                      \/ Rejoin(c) \/ Restart(c)
                      \/ \E p \in Partitions : Assign(c, p) \/ Settle(c, p)
               PROVE  IndInv'
    BY <1>2 DEF Next
  <1>3. BlockHolds'
    BY BlockStep DEF IndInv
  <1>4. CASE \/ Fence(c) \/ Revoke(c) \/ Stop(c) \/ StartWorkers(c) \/ BatchDone(c)
             \/ LeaveOnShutdown(c) \/ FinalCommit(c) \/ FlushOk(c) \/ GiveUpAll(c)
             \/ PollEmpty(c) \/ PeriodicCommit(c) \/ NotYetDue(c) \/ Rejoin(c)
             \/ Restart(c)
    <2>1. UNCHANGED <<tracker, pos, owned, fetched, settled, snap, committed>>
      BY <1>4 DEF Fence, Revoke, GiveUpAll, Callback, Stop, StartWorkers,
           BatchDone, LeaveOnShutdown, FinalCommit, FlushOk, PollEmpty,
           PeriodicCommit, NotYetDue, Rejoin, Restart, loop, commit, group
    <2> QED
      BY <1>1, <1>3, <2>1, Frame DEF IndInv
  <1>5. CASE FlushFails(c) \/ SendRejected(c)
    <2>1. Return(c, mu[c]) /\ UNCHANGED <<tracker, settled, committed>>
      BY <1>5 DEF FlushFails, SendRejected
    <2> QED
      BY <1>1, <1>3, <2>1, ReturnDropsSnapshot, Frame DEF IndInv
  <1>6. CASE SendOk(c)
    <2>1. UNCHANGED <<tracker, pos, owned, fetched, settled, snap>>
      BY <1>6 DEF SendOk, loop, group
    <2>2. \A p \in Partitions : committed'[p] = committed[p]
                                \/ committed'[p] \in snap[c][p]
      BY <1>6, StoreType DEF SendOk, IndInv
    <2> QED
      BY <1>1, <1>3, <2>1, <2>2, Frame DEF IndInv
  <1>7. CASE SendFails(c)
    <2>1. Return(c, mu[c]) /\ UNCHANGED <<tracker, settled>>
      BY <1>7 DEF SendFails
    <2>2. \A p \in Partitions : committed'[p] = committed[p]
                                \/ committed'[p] \in snap[c][p]
      BY <1>7, StoreType DEF SendFails, IndInv
    <2> QED
      BY <1>1, <1>3, <2>1, <2>2, ReturnDropsSnapshot, Frame DEF IndInv
  <1>8. CASE Crash(c) \/ Terminate(c)
    BY <1>1, <1>3, <1>8, DownData DEF IndInv, Crash, Terminate
  <1>9. CASE Poll(c) \/ AbandonBatch(c) \/ Mark(c)
    BY <1>1, <1>3, <1>9, PollData, AbandonData, MarkData DEF IndInv
  <1>10. CASE \E who \in {"run", "revoke"} : CommitBegin(c, who)
    BY <1>1, <1>3, <1>10, CommitBeginData DEF IndInv
  <1>11. CASE \E p \in Partitions : \/ TrackRecord(c, p) \/ Confirm(c, p)
                                    \/ ForgetRevoked(c, p) \/ Assign(c, p)
                                    \/ Settle(c, p)
    BY <1>1, <1>3, <1>11, TrackRecordData, ConfirmData, ForgetData, AssignData,
       SettleData DEF IndInv
  <1> QED
    BY <1>4, <1>5, <1>6, <1>7, <1>8, <1>9, <1>10, <1>11
    DEF Fault, Progress, CallbackProgress

\* The inductive invariant of the commit protocol holds in every reachable
\* state.
THEOREM Invariant == Spec => []IndInv
  BY InvInit, InvStep, PTL DEF Spec

\* No record is lost: whatever processes crash, are fenced, abandon batches
\* or race a revocation with their own commit, everything below a committed
\* offset has been settled.
THEOREM NoRecordLost == Spec => []NoLoss
  <1>1. IndInv => NoLoss
    BY DEF IndInv, DataInv
  <1> QED
    BY <1>1, Invariant, PTL

\* A record a consumer has read past is settled or still in its hands.
THEOREM NoRecordStranded == Spec => []NothingStranded
  <1>1. IndInv => NothingStranded
    BY DEF IndInv, DataInv
  <1> QED
    BY <1>1, Invariant, PTL
-----------------------------------------------------------------------------
(* The protocol implements AtLeastOnce.                                    *)

\* Every step settles a record, commits safe offsets or stutters.
LEMMA StepSimulation ==
  ASSUME IndInv, IndInv', [Next]_vars
  PROVE  [ALO!Next]_(ALO!vars)
  <1>1. CASE UNCHANGED vars
    BY <1>1 DEF vars, ALO!vars
  <1> SUFFICES ASSUME NEW c \in Consumers,
                      \/ Fault(c) \/ Progress(c) \/ CallbackProgress(c)
                      \/ Poll(c) \/ PollEmpty(c) \/ PeriodicCommit(c) \/ NotYetDue(c)
                      \/ Rejoin(c) \/ Restart(c)
                      \/ \E p \in Partitions : Assign(c, p) \/ Settle(c, p)
               PROVE  ALO!Next \/ UNCHANGED ALO!vars
    BY <1>1 DEF Next
  <1>2. CASE \E p \in Partitions : Settle(c, p)
    <2>1. PICK p \in Partitions : Settle(c, p)
      BY <1>2
    <2>2. PICK o \in tracker[c][p].pending :
             settled' = [settled EXCEPT ![p] = @ \cup {o}] /\ UNCHANGED committed
      BY <2>1 DEF Settle
    <2>3. o \in Log[p]
      BY DEF IndInv, DataInv, TrackedIsRead, Backlog
    <2> QED
      BY <2>2, <2>3 DEF ALO!Next, ALO!Settle
  <1>3. CASE SendOk(c) \/ SendFails(c)
    <2>1. UNCHANGED settled
      BY <1>3 DEF SendOk, SendFails
    <2>2. \A p \in Partitions : committed'[p] = committed[p]
                                \/ committed'[p] \in snap[c][p]
      BY <1>3, StoreType DEF SendOk, SendFails, IndInv
    <2>3. \A p \in Partitions : committed'[p] # committed[p]
                                  => ALO!SafeAt(p, committed'[p])
      BY <2>2 DEF IndInv, DataInv, SnapshotSafe, SafeAt, ALO!SafeAt
    <2>4. committed' \in [Partitions -> Nat]
      BY DEF IndInv, TypeOK
    <2> QED
      BY <2>1, <2>3, <2>4 DEF ALO!Next, ALO!Commit
  <1>4. CASE \/ Fence(c) \/ Revoke(c) \/ Stop(c) \/ StartWorkers(c) \/ BatchDone(c)
             \/ LeaveOnShutdown(c) \/ FinalCommit(c) \/ FlushOk(c) \/ GiveUpAll(c)
             \/ PollEmpty(c) \/ PeriodicCommit(c) \/ NotYetDue(c) \/ Rejoin(c)
             \/ Restart(c) \/ AbandonBatch(c) \/ Poll(c)
    BY <1>4 DEF Fence, Revoke, GiveUpAll, Callback, Stop, StartWorkers, BatchDone,
         LeaveOnShutdown, FinalCommit, FlushOk, PollEmpty, PeriodicCommit,
         NotYetDue, Rejoin, Restart, AbandonBatch, Poll, ALO!vars
  <1>5. CASE \/ FlushFails(c) \/ SendRejected(c) \/ Mark(c) \/ Crash(c)
             \/ Terminate(c) \/ \E who \in {"run", "revoke"} : CommitBegin(c, who)
    BY <1>5 DEF FlushFails, SendRejected, Mark, Crash, Terminate, Down,
         CommitBegin, ALO!vars
  <1>6. CASE \E p \in Partitions : \/ TrackRecord(c, p) \/ Confirm(c, p)
                                   \/ ForgetRevoked(c, p) \/ Assign(c, p)
    BY <1>6 DEF TrackRecord, Confirm, ForgetRevoked, Assign, ALO!vars
  <1> QED
    BY <1>2, <1>3, <1>4, <1>5, <1>6 DEF Fault, Progress, CallbackProgress

\* The sink's commit protocol implements at-least-once consumption.
THEOREM Refinement == Spec => ImplementsAtLeastOnce
  <1>1. Init => ALO!Init
    BY DEF Init, ALO!Init, NoOffsets
  <1>2. IndInv /\ IndInv' /\ [Next]_vars => [ALO!Next]_(ALO!vars)
    BY StepSimulation
  <1> QED
    BY <1>1, <1>2, Invariant, PTL DEF Spec, ImplementsAtLeastOnce, ALO!Spec

-----------------------------------------------------------------------------
(* A partition that comes back after a revocation is never held back by    *)
(* what its former life had committed.                                     *)

\* A step that leaves a partition's state, position and fetch alone and drops
\* or keeps its snapshot keeps its floor.
LEMMA FloorKept ==
  ASSUME NEW c \in Consumers, NEW p \in Partitions, FloorAt(c, p),
         tracker'[c][p] = tracker[c][p], pos'[c][p] = pos[c][p],
         fetched'[c][p] = fetched[c][p],
         snap'[c][p] = {} \/ (snap'[c][p] = snap[c][p] /\ mu'[c] = mu[c])
  PROVE  FloorAt(c, p)'
  BY DEF FloorAt

\* A partition without a state has no floor to keep.
LEMMA FloorOfTombstone ==
  ASSUME NEW c \in Consumers, NEW p \in Partitions,
         tracker'[c][p].forgotten, snap'[c][p] # {} => mu'[c] # "free"
  PROVE  FloorAt(c, p)'
  BY DEF FloorAt

\* The offset to be committed lies at or below everything unfinished, and at
\* or below the fetch position.
LEMMA CommitableFloor ==
  ASSUME IndInv, NEW c \in Consumers, NEW p \in Partitions,
         NEW w \in Commitable(tracker[c][p])
  PROVE  w <= pos[c][p] /\ \A o \in tracker[c][p].pending : w <= o
  <1> DEFINE st == tracker[c][p]
  <1>1. /\ st.pending \subseteq Nat /\ st.done \subseteq Nat /\ pos[c][p] \in Nat
        /\ \A o \in st.pending \cup st.done : o < pos[c][p]
    BY DEF IndInv, TypeOK, PartitionState, DataInv, TrackedIsRead, Backlog
  <1>2. w \in Watermark(st)
    BY DEF Commitable
  <1>3. CASE st.pending # {}
    BY <1>1, <1>2, <1>3 DEF Watermark, LeastOf
  <1>4. CASE st.pending = {}
    BY <1>1, <1>2, <1>4 DEF Watermark, GreatestOf
  <1> QED
    BY <1>3, <1>4

-----------------------------------------------------------------------------
(* The steps that move a floor or what lies above it.                      *)

\* Records are fetched at or above the position, which only grows.
LEMMA PollFloor ==
  ASSUME IndInv, CommitFloor, NEW c \in Consumers, Poll(c)
  PROVE  CommitFloor'
  <1> USE LogAssumption
  <1> SUFFICES ASSUME NEW d \in Consumers, NEW p \in Partitions
               PROVE  FloorAt(d, p)'
    BY DEF CommitFloor
  <1>0. FloorAt(d, p)
    BY DEF CommitFloor
  <1>1. UNCHANGED <<tracker, mu, snap>> /\ pc[c] = "poll" /\ rstage[c] = "none"
    BY DEF Poll, commit
  <1>2. CASE d # c
    <2>1. pos'[d] = pos[d] /\ fetched'[d] = fetched[d]
      BY <1>2 DEF Poll, IndInv, TypeOK
    <2> QED
      BY <1>0, <1>1, <2>1, FloorKept
  <1>3. CASE d = c
    <2>1. mu[c] = "free"
      BY <1>1 DEF IndInv, BlockHolds, Committing, TypeOK
    <2>2. snap[c][p] = {}
      BY <1>0, <1>3, <2>1 DEF FloorAt
    <2>3. PICK upto \in [Partitions -> UNION {EndsOf(c, q) : q \in Partitions}] :
             /\ \A q \in Partitions : upto[q] \in EndsOf(c, q)
             /\ fetched' = [fetched EXCEPT ![c] = [q \in Partitions |->
                              {o \in Log[q] : pos[c][q] <= o /\ o < upto[q]}]]
             /\ pos' = [pos EXCEPT ![c] = upto]
      BY DEF Poll
    <2>4. pos[c][p] \in Nat /\ tracker[c][p].committed \in Nat \cup {-1}
      BY DEF IndInv, TypeOK, PartitionState
    <2>5. upto[p] \in Nat /\ pos[c][p] <= upto[p]
      BY <2>3, <2>4 DEF EndsOf
    <2>6. pos'[c][p] = upto[p]
      BY <2>3 DEF IndInv, TypeOK
    <2>7. \A o \in fetched'[c][p] : o \in Nat /\ pos[c][p] <= o
      BY <2>3 DEF IndInv, TypeOK
    <2>8. ~tracker[c][p].forgotten =>
             /\ tracker[c][p].committed <= pos[c][p]
             /\ \A o \in Backlog(tracker[c][p]) : tracker[c][p].committed <= o
      BY <1>0, <1>3 DEF FloorAt
    <2>9. ~tracker[c][p].forgotten =>
             /\ tracker[c][p].committed <= upto[p]
             /\ \A o \in fetched'[c][p] : tracker[c][p].committed <= o
      BY <2>4, <2>5, <2>7, <2>8
    <2> QED
      BY <1>1, <1>3, <2>2, <2>6, <2>8, <2>9 DEF FloorAt
  <1> QED
    BY <1>2, <1>3

\* A tracked record was fetched above the floor; a revived state has none.
LEMMA TrackRecordFloor ==
  ASSUME IndInv, CommitFloor, NEW c \in Consumers, NEW q \in Partitions,
         TrackRecord(c, q)
  PROVE  CommitFloor'
  <1> SUFFICES ASSUME NEW d \in Consumers, NEW p \in Partitions
               PROVE  FloorAt(d, p)'
    BY DEF CommitFloor
  <1>0. FloorAt(d, p)
    BY DEF CommitFloor
  <1>1. UNCHANGED <<pos, mu, snap>> /\ pc[c] = "track"
    BY DEF TrackRecord, commit
  <1>2. PICK o \in LeastOf(fetched[c][q]) :
           /\ tracker' = [tracker EXCEPT ![c][q] = Track(@, o)]
           /\ fetched' = [fetched EXCEPT ![c][q] = @ \ {o}]
    BY DEF TrackRecord
  <1>3. CASE d # c \/ p # q
    <2>1. tracker'[d][p] = tracker[d][p] /\ fetched'[d][p] = fetched[d][p]
      BY <1>2, <1>3 DEF IndInv, TypeOK
    <2> QED
      BY <1>0, <1>1, <2>1, FloorKept
  <1>4. CASE d = c /\ p = q
    <2> DEFINE st == tracker[c][p]
    <2>1. mu[c] = "free"
      BY <1>1 DEF IndInv, BlockHolds, Committing, RebalanceBlocked, TypeOK
    <2>2. snap[c][p] = {}
      BY <1>0, <1>4, <2>1 DEF FloorAt
    <2>3. tracker'[c][p] = Track(st, o) /\ fetched'[c][p] = fetched[c][p] \ {o}
      BY <1>2, <1>4 DEF IndInv, TypeOK
    <2>4. o \in fetched[c][p] /\ o \in Nat /\ st \in PartitionState
            /\ pos[c][p] \in Nat /\ fetched[c][p] \subseteq Nat
      BY <1>2, <1>4 DEF LeastOf, IndInv, TypeOK
    <2>5. /\ Track(st, o).pending = (IF st.forgotten THEN {} ELSE st.pending) \cup {o}
          /\ Track(st, o).done = IF st.forgotten THEN {} ELSE st.done
      BY <2>4, TrackFields
    <2>6. Track(st, o).committed = IF st.forgotten THEN -1 ELSE st.committed
      BY <2>4 DEF Track, Revived, Fresh, PartitionState
    <2>7. CASE st.forgotten
      <3>1. \A x \in Backlog(Track(st, o)) \cup fetched'[c][p] : -1 <= x
        BY <2>3, <2>4, <2>5, <2>7 DEF Backlog
      <3> QED
        BY <1>1, <1>4, <2>2, <2>3, <2>4, <2>6, <2>7, <3>1 DEF FloorAt
    <2>8. CASE ~st.forgotten
      <3>1. /\ st.committed <= pos[c][p]
            /\ \A x \in Backlog(st) \cup fetched[c][p] : st.committed <= x
        BY <1>0, <1>4, <2>8 DEF FloorAt
      <3>2. Backlog(Track(st, o)) \cup fetched'[c][p]
              \subseteq Backlog(st) \cup fetched[c][p]
        BY <2>3, <2>4, <2>5, <2>8 DEF Backlog
      <3> QED
        BY <1>1, <1>4, <2>2, <2>3, <2>6, <2>8, <3>1, <3>2 DEF FloorAt
    <2> QED
      BY <2>7, <2>8
  <1> QED
    BY <1>3, <1>4

\* A finished record stays in the backlog.
LEMMA ConfirmFloor ==
  ASSUME IndInv, CommitFloor, NEW c \in Consumers, NEW q \in Partitions,
         Confirm(c, q)
  PROVE  CommitFloor'
  <1> SUFFICES ASSUME NEW d \in Consumers, NEW p \in Partitions
               PROVE  FloorAt(d, p)'
    BY DEF CommitFloor
  <1>0. FloorAt(d, p)
    BY DEF CommitFloor
  <1>1. UNCHANGED <<pos, fetched, mu, snap>>
    BY DEF Confirm, loop, commit
  <1>2. PICK o \in LeastOf(tracker[c][q].pending) :
           tracker' = [tracker EXCEPT ![c][q] = Done(@, o)]
    BY DEF Confirm
  <1>3. CASE d # c \/ p # q
    <2>1. tracker'[d][p] = tracker[d][p]
      BY <1>2, <1>3 DEF IndInv, TypeOK
    <2> QED
      BY <1>0, <1>1, <2>1, FloorKept
  <1>4. CASE d = c /\ p = q
    <2> DEFINE st == tracker[c][p]
    <2>1. st \in PartitionState /\ o \in Nat
      BY <1>2, <1>4 DEF LeastOf, IndInv, TypeOK, PartitionState
    <2>2. tracker'[c][p] = Done(st, o)
      BY <1>2, <1>4 DEF IndInv, TypeOK
    <2>3. /\ Done(st, o).forgotten = st.forgotten
          /\ Done(st, o).pending \subseteq st.pending
          /\ Backlog(Done(st, o)) \subseteq Backlog(st)
      BY <2>1, DoneFields DEF Backlog
    <2>4. Done(st, o).committed = st.committed
      BY <2>1 DEF Done, PartitionState
    <2> QED
      BY <1>0, <1>1, <1>4, <2>2, <2>3, <2>4 DEF FloorAt
  <1> QED
    BY <1>3, <1>4

\* What commit snapshots is a floor of what is left.
LEMMA CommitBeginFloor ==
  ASSUME IndInv, CommitFloor, NEW c \in Consumers, NEW who \in {"run", "revoke"},
         CommitBegin(c, who)
  PROVE  CommitFloor'
  <1> SUFFICES ASSUME NEW d \in Consumers, NEW p \in Partitions
               PROVE  FloorAt(d, p)'
    BY DEF CommitFloor
  <1>0. FloorAt(d, p)
    BY DEF CommitFloor
  <1>1. UNCHANGED tracker
    BY DEF CommitBegin
  <1>2. CASE Return(c, who)
    <2>1. UNCHANGED <<pos, fetched>>
      BY <1>2 DEF Return
    <2>2. snap'[d][p] = {} \/ (snap'[d][p] = snap[d][p] /\ mu'[d] = mu[d])
      BY <1>2 DEF Return, NoOffsets, IndInv, TypeOK
    <2> QED
      BY <1>0, <1>1, <2>1, <2>2, FloorKept
  <1>3. CASE /\ mu' = [mu EXCEPT ![c] = who]
             /\ snap' = [snap EXCEPT ![c] = CommitableNow(c)]
             /\ UNCHANGED <<cstep, loop, group>>
    <2>1. UNCHANGED <<pos, fetched>>
      BY <1>3 DEF loop
    <2>2. CASE d # c
      <3>1. snap'[d][p] = snap[d][p] /\ mu'[d] = mu[d]
        BY <1>3, <2>2 DEF IndInv, TypeOK
      <3> QED
        BY <1>0, <1>1, <2>1, <3>1, FloorKept
    <2>3. CASE d = c
      <3>1. mu'[c] = who /\ snap'[c][p] = Commitable(tracker[c][p])
        BY <1>3 DEF CommitableNow, IndInv, TypeOK
      <3>2. \A w \in snap'[c][p] :
               w <= pos[c][p] /\ \A o \in tracker[c][p].pending : w <= o
        BY <3>1, CommitableFloor
      <3> QED
        BY <1>0, <1>1, <2>1, <2>3, <3>1, <3>2 DEF FloorAt
    <2> QED
      BY <2>2, <2>3
  <1> QED
    BY <1>2, <1>3, Zenon DEF CommitBegin

\* The new floor is the offset that was snapshotted: it lies below what is
\* pending, and what is done below it is dropped.
LEMMA MarkFloor ==
  ASSUME IndInv, CommitFloor, NEW c \in Consumers, Mark(c)
  PROVE  CommitFloor'
  <1> SUFFICES ASSUME NEW d \in Consumers, NEW p \in Partitions
               PROVE  FloorAt(d, p)'
    BY DEF CommitFloor
  <1>0. FloorAt(d, p)
    BY DEF CommitFloor
  <1>1. Return(c, mu[c]) /\ mu[c] \in {"run", "revoke"}
    BY DEF Mark, IndInv, TypeOK
  <1>2. UNCHANGED <<pos, fetched>>
    BY <1>1 DEF Return
  <1>3. snap'[d][p] = {} \/ (snap'[d][p] = snap[d][p] /\ mu'[d] = mu[d])
    BY <1>1 DEF Return, NoOffsets, IndInv, TypeOK
  <1>4. CASE d # c \/ snap[c][p] = {}
    <2>1. tracker'[d][p] = tracker[d][p]
      BY <1>4 DEF Mark, IndInv, TypeOK
    <2> QED
      BY <1>0, <1>2, <1>3, <2>1, FloorKept
  <1>5. CASE d = c /\ snap[c][p] # {}
    <2> DEFINE st == tracker[c][p]
               w == CHOOSE x \in snap[c][p] : TRUE
    <2>1. w \in snap[c][p] /\ w \in Nat /\ st \in PartitionState
      BY <1>5 DEF IndInv, TypeOK
    <2>2. tracker'[c][p] = MarkCommitted(st, w)
      BY <1>5 DEF Mark, IndInv, TypeOK
    <2>3. snap'[c][p] = {}
      BY <1>1 DEF Return, NoOffsets, IndInv, TypeOK
    <2> HIDE DEF w
    <2>4. CASE st.forgotten
      BY <1>5, <2>2, <2>3, <2>4, FloorOfTombstone DEF MarkCommitted
    <2>5. CASE ~st.forgotten
      <3>1. w <= pos[c][p] /\ \A o \in st.pending : w <= o
        BY <1>0, <1>5, <2>1, <2>5 DEF FloorAt
      <3>2. pc[c] # "track"
        BY <1>1 DEF IndInv, BlockHolds, Committing, RebalanceBlocked
      <3>3. fetched[c][p] = {}
        BY <3>2 DEF IndInv, BlockHolds, NoOffsets
      <3>4. /\ MarkCommitted(st, w).committed = w
            /\ MarkCommitted(st, w).pending = st.pending
            /\ MarkCommitted(st, w).done = {o \in st.done : o >= w}
        BY <2>1, <2>5 DEF MarkCommitted, PartitionState
      <3>5. \A o \in Backlog(MarkCommitted(st, w)) : w <= o
        <4>1. \A o \in st.done : o \in Nat
          BY <2>1 DEF PartitionState
        <4> QED
          BY <2>1, <3>1, <3>4, <4>1 DEF Backlog
      <3> QED
        BY <1>2, <1>5, <2>2, <2>3, <3>1, <3>3, <3>4, <3>5 DEF FloorAt
    <2> QED
      BY <2>4, <2>5
  <1> QED
    BY <1>4, <1>5

\* An abandoned partition loses its state; the others keep their position.
LEMMA AbandonFloor ==
  ASSUME IndInv, CommitFloor, NEW c \in Consumers, AbandonBatch(c)
  PROVE  CommitFloor'
  <1> SUFFICES ASSUME NEW d \in Consumers, NEW p \in Partitions
               PROVE  FloorAt(d, p)'
    BY DEF CommitFloor
  <1>0. FloorAt(d, p)
    BY DEF CommitFloor
  <1>1. UNCHANGED <<fetched, mu, snap>>
    BY DEF AbandonBatch, commit
  <1>2. CASE d # c \/ p \notin Unfinished(c)
    <2>1. tracker'[d][p] = tracker[d][p] /\ pos'[d][p] = pos[d][p]
      BY <1>2 DEF AbandonBatch, IndInv, TypeOK
    <2> QED
      BY <1>0, <1>1, <2>1, FloorKept
  <1>3. CASE d = c /\ p \in Unfinished(c)
    <2>1. tracker'[c][p] = Tombstone
      BY <1>3 DEF AbandonBatch, Forget, IndInv, TypeOK
    <2>2. snap'[c][p] # {} => mu'[c] # "free"
      BY <1>0, <1>1, <1>3 DEF FloorAt
    <2> QED
      BY <1>3, <2>1, <2>2, FloorOfTombstone DEF Tombstone
  <1> QED
    BY <1>2, <1>3

\* A revoked partition loses its state, whatever commit is under way.
LEMMA ForgetFloor ==
  ASSUME IndInv, CommitFloor, NEW c \in Consumers, NEW q \in Partitions,
         ForgetRevoked(c, q)
  PROVE  CommitFloor'
  <1> SUFFICES ASSUME NEW d \in Consumers, NEW p \in Partitions
               PROVE  FloorAt(d, p)'
    BY DEF CommitFloor
  <1>0. FloorAt(d, p)
    BY DEF CommitFloor
  <1>1. UNCHANGED <<pos, fetched, mu, snap>>
    BY DEF ForgetRevoked, loop, commit
  <1>2. CASE d # c \/ p # q
    <2>1. tracker'[d][p] = tracker[d][p]
      BY <1>2 DEF ForgetRevoked, IndInv, TypeOK
    <2> QED
      BY <1>0, <1>1, <2>1, FloorKept
  <1>3. CASE d = c /\ p = q
    <2>1. tracker'[c][p] = Tombstone
      BY <1>3 DEF ForgetRevoked, Forget, IndInv, TypeOK
    <2>2. snap'[c][p] # {} => mu'[c] # "free"
      BY <1>0, <1>1, <1>3 DEF FloorAt
    <2> QED
      BY <1>3, <2>1, <2>2, FloorOfTombstone DEF Tombstone
  <1> QED
    BY <1>2, <1>3

\* Only a partition that had no state gets a new position.
LEMMA AssignFloor ==
  ASSUME IndInv, CommitFloor, NEW c \in Consumers, NEW q \in Partitions,
         Assign(c, q)
  PROVE  CommitFloor'
  <1> SUFFICES ASSUME NEW d \in Consumers, NEW p \in Partitions
               PROVE  FloorAt(d, p)'
    BY DEF CommitFloor
  <1>0. FloorAt(d, p)
    BY DEF CommitFloor
  <1>1. UNCHANGED <<tracker, fetched, mu, snap>> /\ q \notin owned[c]
    BY DEF Assign, commit
  <1>2. CASE d # c \/ p # q
    <2>1. pos'[d][p] = pos[d][p]
      BY <1>2 DEF Assign, IndInv, TypeOK
    <2> QED
      BY <1>0, <1>1, <2>1, FloorKept
  <1>3. CASE d = c /\ p = q
    <2>1. tracker[c][p].forgotten
      BY <1>1, <1>3 DEF IndInv, DataInv, TrackedIsOwned
    <2>2. snap'[c][p] # {} => mu'[c] # "free"
      BY <1>0, <1>1, <1>3 DEF FloorAt
    <2> QED
      BY <1>1, <1>3, <2>1, <2>2, FloorOfTombstone
  <1> QED
    BY <1>2, <1>3

\* A process that ended has no states.
LEMMA DownFloor ==
  ASSUME IndInv, CommitFloor, NEW c \in Consumers, Down(c)
  PROVE  CommitFloor'
  <1> SUFFICES ASSUME NEW d \in Consumers, NEW p \in Partitions
               PROVE  FloorAt(d, p)'
    BY DEF CommitFloor
  <1>0. FloorAt(d, p)
    BY DEF CommitFloor
  <1>1. CASE d # c
    <2>1. /\ tracker'[d] = tracker[d] /\ pos'[d] = pos[d]
          /\ fetched'[d] = fetched[d] /\ snap'[d] = snap[d] /\ mu'[d] = mu[d]
      BY <1>1 DEF Down, IndInv, TypeOK
    <2> QED
      BY <1>0, <2>1, FloorKept
  <1>2. CASE d = c
    <2>1. tracker'[c][p] = Tombstone /\ snap'[c][p] = {}
      BY DEF Down, NoOffsets, IndInv, TypeOK
    <2> QED
      BY <1>2, <2>1, FloorOfTombstone DEF Tombstone
  <1> QED
    BY <1>1, <1>2

\* The return of commit drops the snapshot and keeps the floors.
LEMMA ReturnFloor ==
  ASSUME IndInv, CommitFloor, NEW c \in Consumers, NEW who, Return(c, who),
         UNCHANGED tracker
  PROVE  CommitFloor'
  <1> SUFFICES ASSUME NEW d \in Consumers, NEW p \in Partitions
               PROVE  FloorAt(d, p)'
    BY DEF CommitFloor
  <1>1. UNCHANGED <<pos, fetched>>
    BY DEF Return
  <1>2. snap'[d][p] = {} \/ (snap'[d][p] = snap[d][p] /\ mu'[d] = mu[d])
    BY DEF Return, NoOffsets, IndInv, TypeOK
  <1> QED
    BY <1>1, <1>2, FloorKept DEF CommitFloor

-----------------------------------------------------------------------------
\* Every step keeps every floor, one case per action.
LEMMA FloorStep ==
  ASSUME IndInv, CommitFloor, [Next]_vars
  PROVE  CommitFloor'
  <1>0. CASE UNCHANGED <<tracker, pos, fetched, mu, snap>>
    BY <1>0, FloorKept DEF CommitFloor
  <1>1. CASE UNCHANGED vars
    BY <1>0, <1>1 DEF vars, loop, commit
  <1> SUFFICES ASSUME NEW c \in Consumers,
                      \/ Fault(c) \/ Progress(c) \/ CallbackProgress(c)
                      \/ Poll(c) \/ PollEmpty(c) \/ PeriodicCommit(c) \/ NotYetDue(c)
                      \/ Rejoin(c) \/ Restart(c)
                      \/ \E p \in Partitions : Assign(c, p) \/ Settle(c, p)
               PROVE  CommitFloor'
    BY <1>1 DEF Next
  <1>2. CASE \/ Fence(c) \/ Revoke(c) \/ Stop(c) \/ StartWorkers(c) \/ BatchDone(c)
             \/ LeaveOnShutdown(c) \/ FinalCommit(c) \/ FlushOk(c) \/ GiveUpAll(c)
             \/ PollEmpty(c) \/ PeriodicCommit(c) \/ NotYetDue(c) \/ Rejoin(c)
             \/ Restart(c) \/ SendOk(c) \/ \E p \in Partitions : Settle(c, p)
    <2>1. UNCHANGED <<tracker, pos, fetched, mu, snap>>
      BY <1>2 DEF Fence, Revoke, GiveUpAll, Callback, Stop, StartWorkers,
           BatchDone, LeaveOnShutdown, FinalCommit, FlushOk, PollEmpty, SendOk,
           PeriodicCommit, NotYetDue, Rejoin, Restart, Settle, loop, commit
    <2> QED
      BY <1>0, <2>1
  <1>3. CASE FlushFails(c) \/ SendFails(c) \/ SendRejected(c)
    <2>1. Return(c, mu[c]) /\ UNCHANGED tracker
      BY <1>3 DEF FlushFails, SendFails, SendRejected
    <2> QED
      BY <2>1, ReturnFloor
  <1>4. CASE Crash(c) \/ Terminate(c)
    BY <1>4, DownFloor DEF Crash, Terminate
  <1>5. CASE Poll(c) \/ AbandonBatch(c) \/ Mark(c)
    BY <1>5, PollFloor, AbandonFloor, MarkFloor
  <1>6. CASE CommitBegin(c, "run") \/ CommitBegin(c, "revoke")
    BY <1>6, CommitBeginFloor
  <1>7. CASE \E p \in Partitions : \/ TrackRecord(c, p) \/ Confirm(c, p)
                                   \/ ForgetRevoked(c, p) \/ Assign(c, p)
    BY <1>7, TrackRecordFloor, ConfirmFloor, ForgetFloor, AssignFloor
  <1> QED
    BY <1>2, <1>3, <1>4, <1>5, <1>6, <1>7
    DEF Fault, Progress, CallbackProgress

\* What the tracker remembers as committed lies below everything it tracks,
\* however revocations, commits, abandoned batches and crashes interleave, so
\* a partition that returns with an older offset is committed again.
THEOREM CommittedIsFloor == Spec => []TrackedAboveCommitted
  <1>1. Init => CommitFloor
    BY DEF Init, CommitFloor, FloorAt, Tombstone, NoOffsets
  <1>2. IndInv /\ CommitFloor /\ [Next]_vars => CommitFloor'
    BY FloorStep
  <1>3. CommitFloor => TrackedAboveCommitted
    BY DEF CommitFloor, FloorAt, TrackedAboveCommitted
  <1> QED
    BY <1>1, <1>2, <1>3, Invariant, PTL DEF Spec

-----------------------------------------------------------------------------
(* The lag gauge.                                                          *)

\* What a live state's extremes say about its backlog.  The highest offset
\* tracked is in the backlog until a commit has covered everything.
Gauged(st) ==
    ~st.forgotten =>
       /\ st.lowest >= 0
       /\ \A o \in Backlog(st) : st.lowest <= o /\ o <= st.highest
       /\ Backlog(st) # {} => st.highest \in Backlog(st)
       /\ Backlog(st) = {} => st.committed = st.highest + 1

\* A commit that finds nothing pending covers everything tracked: nothing is
\* tracked or finished between the snapshot and MarkCommitted.
SnapshotCovers(c, p) ==
    ~tracker[c][p].forgotten /\ tracker[c][p].pending = {} =>
       \A w \in snap[c][p] : w = tracker[c][p].highest + 1

GaugeInv ==
    \A c \in Consumers, p \in Partitions :
       Gauged(tracker[c][p]) /\ SnapshotCovers(c, p)

\* A record read after the commit that covered everything lies above what
\* was tracked before it.
LEMMA TrackGauged ==
  ASSUME NEW st \in PartitionState, NEW o \in Nat, Gauged(st),
         ~st.forgotten => st.committed <= o
  PROVE  Gauged(Track(st, o))
  <1>1. CASE st.forgotten
    <2>1. /\ Track(st, o).lowest = o /\ Track(st, o).highest = o
          /\ Track(st, o).pending = {o} /\ Track(st, o).done = {}
      BY <1>1 DEF Track, Revived, Fresh
    <2> QED
      BY <2>1 DEF Gauged, Backlog
  <1>2. CASE ~st.forgotten
    <2>1. /\ Track(st, o).lowest = (IF st.lowest < 0 \/ o < st.lowest THEN o ELSE st.lowest)
          /\ Track(st, o).highest = (IF o > st.highest THEN o ELSE st.highest)
          /\ Backlog(Track(st, o)) = Backlog(st) \cup {o}
      BY <1>2 DEF Track, Revived, PartitionState, Backlog
    <2>2. /\ st.lowest \in Int /\ st.highest \in Nat /\ st.committed \in Int
          /\ \A x \in Backlog(st) : x \in Nat
      BY DEF PartitionState, Backlog
    <2>3. /\ st.lowest >= 0
          /\ \A x \in Backlog(st) : st.lowest <= x /\ x <= st.highest
          /\ Backlog(st) # {} => st.highest \in Backlog(st)
          /\ Backlog(st) = {} => st.committed = st.highest + 1
      BY <1>2 DEF Gauged
    <2>4. Track(st, o).lowest >= 0
      BY <2>1, <2>2, <2>3
    <2>5. \A x \in Backlog(st) \cup {o} :
             Track(st, o).lowest <= x /\ x <= Track(st, o).highest
      BY <2>1, <2>2, <2>3
    <2>6. Track(st, o).highest \in Backlog(st) \cup {o}
      BY <1>2, <2>1, <2>2, <2>3
    <2> QED
      BY <2>1, <2>4, <2>5, <2>6 DEF Gauged
  <1> QED
    BY <1>1, <1>2

\* A finished record stays in the backlog.
LEMMA DoneGauged ==
  ASSUME NEW st \in PartitionState, NEW o \in Nat, Gauged(st)
  PROVE  Gauged(Done(st, o))
  <1>1. /\ Done(st, o).forgotten = st.forgotten /\ Backlog(Done(st, o)) = Backlog(st)
        /\ Done(st, o).lowest = st.lowest /\ Done(st, o).highest = st.highest
        /\ Done(st, o).committed = st.committed
    BY DEF Done, PartitionState, Backlog
  <1> QED
    BY <1>1 DEF Gauged

\* A commit leaves the highest record in the backlog, or nothing.
LEMMA MarkGauged ==
  ASSUME NEW st \in PartitionState, NEW w \in Nat, Gauged(st),
         ~st.forgotten => \A o \in st.pending : w <= o,
         ~st.forgotten /\ st.pending = {} => w = st.highest + 1
  PROVE  Gauged(MarkCommitted(st, w))
  <1>1. CASE st.forgotten
    BY <1>1 DEF MarkCommitted
  <1>2. CASE ~st.forgotten
    <2> DEFINE new == MarkCommitted(st, w)
    <2>1. /\ new.pending = st.pending /\ new.done = {o \in st.done : o >= w}
          /\ new.lowest = st.lowest /\ new.highest = st.highest /\ new.committed = w
      BY <1>2 DEF MarkCommitted, PartitionState
    <2>2. /\ st.pending \subseteq Nat /\ st.done \subseteq Nat /\ st.highest \in Nat
      BY DEF PartitionState
    <2>3. /\ st.lowest >= 0
          /\ \A x \in Backlog(st) : st.lowest <= x /\ x <= st.highest
          /\ Backlog(st) # {} => st.highest \in Backlog(st)
      BY <1>2 DEF Gauged
    <2> HIDE DEF new
    <2>4. Backlog(new) \subseteq Backlog(st)
      BY <2>1 DEF Backlog
    <2>5. CASE st.pending = {}
      <3>1. w = st.highest + 1 /\ \A x \in st.done : ~(x >= w)
        BY <1>2, <2>2, <2>3, <2>5 DEF Backlog
      <3>2. Backlog(new) = {}
        BY <2>1, <2>5, <3>1 DEF Backlog
      <3> QED
        BY <2>1, <2>3, <3>1, <3>2 DEF Gauged, new
    <2>6. CASE st.pending # {}
      <3>1. w <= st.highest /\ st.highest \in Backlog(st)
        BY <1>2, <2>2, <2>3, <2>6 DEF Backlog
      <3>2. st.highest \in Backlog(new)
        BY <2>1, <2>2, <3>1 DEF Backlog
      <3> QED
        BY <2>1, <2>3, <2>4, <3>2 DEF Gauged, new
    <2> QED
      BY <2>5, <2>6
  <1> QED
    BY <1>1, <1>2

\* With nothing pending, what is commitable covers everything tracked.
LEMMA CommitableCovers ==
  ASSUME NEW st \in PartitionState, Gauged(st), ~st.forgotten, st.pending = {},
         NEW w \in Commitable(st)
  PROVE  w = st.highest + 1
  <1>1. PICK o \in GreatestOf(st.done) : w = o + 1
    BY DEF Commitable, Watermark
  <1>2. o \in st.done /\ \A y \in st.done : y <= o
    BY <1>1 DEF GreatestOf
  <1>3. o \in Nat /\ st.highest \in Nat /\ Backlog(st) = st.done
    BY <1>2 DEF PartitionState, Backlog
  <1>4. o <= st.highest /\ st.highest <= o
    BY <1>2, <1>3 DEF Gauged
  <1> QED
    BY <1>1, <1>3, <1>4

\* The gauge of a live state whose commit lies below its backlog.
LEMMA LagOfGauged ==
  ASSUME NEW st \in PartitionState, Gauged(st), ~st.forgotten,
         \A o \in Backlog(st) : st.committed <= o
  PROVE  /\ CommitLag(st) >= Cardinality(Backlog(st))
         /\ CommitLag(st) = 0 <=> Backlog(st) = {}
  <1> DEFINE floor == IF st.committed < 0 THEN st.lowest ELSE st.committed
             B == Backlog(st)
             n == Cardinality(B)
  <1>1. /\ st.highest \in Nat /\ st.committed \in Int /\ st.lowest \in Int
        /\ \A o \in B : o \in Nat
    BY DEF PartitionState, Backlog
  <1>2. floor \in Int /\ CommitLag(st) = st.highest + 1 - floor
    BY <1>1 DEF CommitLag
  <1>3. \A o \in B : floor <= o /\ o <= st.highest
    BY <1>1 DEF Gauged
  <1>4. B = {} => floor = st.highest + 1
    BY <1>1 DEF Gauged
  <1> HIDE DEF floor, B, n
  <1>5. IsFiniteSet(floor..st.highest)
        /\ Cardinality(floor..st.highest) =
             IF floor > st.highest THEN 0 ELSE st.highest - floor + 1
    <2> DEFINE hi == st.highest
    <2>1. floor \in Int /\ hi \in Int
      BY <1>1, <1>2
    <2> HIDE DEF hi
    <2>2. IsFiniteSet(floor..hi) /\ Cardinality(floor..hi) = IF floor > hi THEN 0 ELSE hi - floor + 1
      BY <2>1, FS_Interval, Zenon
    <2> QED
      BY <2>2, Zenon DEF hi
  <1>6. B \in SUBSET (floor..st.highest)
    BY <1>1, <1>2, <1>3
  <1>7. IsFiniteSet(B) /\ n <= Cardinality(floor..st.highest) /\ n \in Nat
    BY <1>5, <1>6, FS_Subset, FS_CardinalityType DEF n
  <1>8. n = 0 <=> B = {}
    BY <1>7, FS_EmptySet DEF n
  <1>9. CASE B = {}
    BY <1>1, <1>2, <1>4, <1>8, <1>9 DEF B, n
  <1>10. CASE B # {}
    <2>1. floor <= st.highest
      BY <1>1, <1>2, <1>3, <1>10
    <2>2. n <= st.highest - floor + 1 /\ st.highest + 1 - floor > 0
      BY <1>1, <1>2, <1>5, <1>7, <2>1
    <2> QED
      BY <1>1, <1>2, <1>7, <1>10, <2>2 DEF B, n
  <1> QED
    BY <1>9, <1>10

-----------------------------------------------------------------------------
(* The steps that move the gauge.                                          *)

\* A step that leaves a partition's state alone and drops or keeps its
\* snapshot keeps its gauge.
LEMMA GaugeKept ==
  ASSUME NEW c \in Consumers, NEW p \in Partitions, GaugeInv,
         tracker'[c][p] = tracker[c][p],
         snap'[c][p] = {} \/ snap'[c][p] = snap[c][p]
  PROVE  Gauged(tracker'[c][p]) /\ SnapshotCovers(c, p)'
  BY DEF GaugeInv, SnapshotCovers

\* A forgotten partition has no gauge.
LEMMA GaugeOfTombstone ==
  ASSUME NEW c \in Consumers, NEW p \in Partitions, tracker'[c][p] = Tombstone
  PROVE  Gauged(tracker'[c][p]) /\ SnapshotCovers(c, p)'
  BY DEF Gauged, SnapshotCovers, Tombstone

\* While a batch is in hand no commit is under way.
LEMMA NoSnapshotInBatch ==
  ASSUME IndInv, CommitFloor, NEW c \in Consumers, RebalanceBlocked(c),
         NEW p \in Partitions
  PROVE  snap[c][p] = {}
  <1>1. mu[c] = "free"
    BY DEF IndInv, BlockHolds, Committing, RebalanceBlocked, TypeOK
  <1> QED
    BY <1>1 DEF CommitFloor, FloorAt

\* A batch is tracked and finished with no snapshot about.
LEMMA BatchGauge ==
  ASSUME IndInv, CommitFloor, GaugeInv, NEW c \in Consumers, NEW q \in Partitions,
         TrackRecord(c, q) \/ Confirm(c, q)
  PROVE  GaugeInv'
  <1> SUFFICES ASSUME NEW d \in Consumers, NEW p \in Partitions
               PROVE  Gauged(tracker'[d][p]) /\ SnapshotCovers(d, p)'
    BY DEF GaugeInv
  <1>1. UNCHANGED snap /\ RebalanceBlocked(c)
    BY DEF TrackRecord, Confirm, commit, RebalanceBlocked
  <1>2. CASE d # c \/ p # q
    <2>1. tracker'[d][p] = tracker[d][p]
      BY <1>2 DEF TrackRecord, Confirm, IndInv, TypeOK
    <2> QED
      BY <1>1, <2>1, GaugeKept
  <1>3. CASE d = c /\ p = q
    <2> DEFINE st == tracker[c][p]
    <2>1. snap'[c][p] = {}
      BY <1>1, NoSnapshotInBatch
    <2>2. st \in PartitionState /\ Gauged(st)
      BY DEF IndInv, TypeOK, GaugeInv
    <2>3. CASE TrackRecord(c, q)
      <3>1. PICK o \in LeastOf(fetched[c][p]) :
               tracker' = [tracker EXCEPT ![c][p] = Track(@, o)]
        BY <1>3, <2>3 DEF TrackRecord
      <3>2. o \in fetched[c][p] /\ o \in Nat /\ tracker'[c][p] = Track(st, o)
        BY <3>1 DEF LeastOf, IndInv, TypeOK
      <3>3. ~st.forgotten => st.committed <= o
        BY <3>2 DEF CommitFloor, FloorAt
      <3>4. Gauged(Track(st, o))
        BY <2>2, <3>2, <3>3, TrackGauged
      <3> QED
        BY <1>3, <2>1, <3>2, <3>4 DEF SnapshotCovers
    <2>4. CASE Confirm(c, q)
      <3>1. PICK o \in LeastOf(tracker[c][p].pending) :
               tracker' = [tracker EXCEPT ![c][p] = Done(@, o)]
        BY <1>3, <2>4 DEF Confirm
      <3>2. o \in Nat /\ tracker'[c][p] = Done(st, o)
        BY <2>2, <3>1 DEF LeastOf, IndInv, TypeOK, PartitionState
      <3>3. Gauged(Done(st, o))
        BY <2>2, <3>2, DoneGauged
      <3> QED
        BY <1>3, <2>1, <3>2, <3>3 DEF SnapshotCovers
    <2> QED
      BY <2>3, <2>4
  <1> QED
    BY <1>2, <1>3

\* The snapshot of a commit covers everything if nothing is pending.
LEMMA CommitBeginGauge ==
  ASSUME IndInv, GaugeInv, NEW c \in Consumers, NEW who \in {"run", "revoke"},
         CommitBegin(c, who)
  PROVE  GaugeInv'
  <1> SUFFICES ASSUME NEW d \in Consumers, NEW p \in Partitions
               PROVE  Gauged(tracker'[d][p]) /\ SnapshotCovers(d, p)'
    BY DEF GaugeInv
  <1>1. UNCHANGED tracker
    BY DEF CommitBegin
  <1>2. CASE snap'[d][p] = {} \/ snap'[d][p] = snap[d][p]
    BY <1>1, <1>2, GaugeKept
  <1>3. CASE d = c /\ snap' = [snap EXCEPT ![c] = CommitableNow(c)]
    <2>1. snap'[c][p] = Commitable(tracker[c][p])
      BY <1>3 DEF CommitableNow, IndInv, TypeOK
    <2>2. tracker[c][p] \in PartitionState /\ Gauged(tracker[c][p])
      BY DEF IndInv, TypeOK, GaugeInv
    <2>3. SnapshotCovers(c, p)'
      BY <1>1, <2>1, <2>2, CommitableCovers DEF SnapshotCovers
    <2> QED
      BY <1>1, <1>3, <2>2, <2>3
  <1>4. \/ snap' = [snap EXCEPT ![c] = NoOffsets]
        \/ snap' = [snap EXCEPT ![c] = CommitableNow(c)]
    BY Zenon DEF CommitBegin, Return
  <1> QED
    BY <1>2, <1>3, <1>4 DEF NoOffsets, IndInv, TypeOK

\* MarkCommitted covers what the snapshot promised.
LEMMA MarkGauge ==
  ASSUME IndInv, CommitFloor, GaugeInv, NEW c \in Consumers, Mark(c)
  PROVE  GaugeInv'
  <1> SUFFICES ASSUME NEW d \in Consumers, NEW p \in Partitions
               PROVE  Gauged(tracker'[d][p]) /\ SnapshotCovers(d, p)'
    BY DEF GaugeInv
  <1>1. snap' = [snap EXCEPT ![c] = NoOffsets]
    BY DEF Mark, Return
  <1>2. snap'[d][p] = {} \/ (d # c /\ snap'[d][p] = snap[d][p])
    BY <1>1 DEF NoOffsets, IndInv, TypeOK
  <1>3. CASE d # c \/ snap[c][p] = {}
    <2>1. tracker'[d][p] = tracker[d][p]
      BY <1>3 DEF Mark, IndInv, TypeOK
    <2> QED
      BY <1>2, <2>1, GaugeKept
  <1>4. CASE d = c /\ snap[c][p] # {}
    <2> DEFINE st == tracker[c][p]
               w == CHOOSE x \in snap[c][p] : TRUE
    <2>1. w \in snap[c][p] /\ w \in Nat /\ st \in PartitionState /\ Gauged(st)
      BY <1>4 DEF IndInv, TypeOK, GaugeInv
    <2>2. tracker'[c][p] = MarkCommitted(st, w)
      BY <1>4 DEF Mark, IndInv, TypeOK
    <2> HIDE DEF w
    <2>3. ~st.forgotten => \A o \in st.pending : w <= o
      BY <2>1 DEF CommitFloor, FloorAt
    <2>4. ~st.forgotten /\ st.pending = {} => w = st.highest + 1
      BY <2>1 DEF GaugeInv, SnapshotCovers
    <2>5. Gauged(MarkCommitted(st, w))
      BY <2>1, <2>3, <2>4, MarkGauged
    <2> QED
      BY <1>2, <1>4, <2>2, <2>5 DEF SnapshotCovers
  <1> QED
    BY <1>3, <1>4

\* A partition is forgotten whole, or left alone.
LEMMA ForgetGauge ==
  ASSUME IndInv, GaugeInv, NEW c \in Consumers,
         \/ AbandonBatch(c) \/ Down(c)
         \/ \E q \in Partitions : ForgetRevoked(c, q)
  PROVE  GaugeInv'
  <1> SUFFICES ASSUME NEW d \in Consumers, NEW p \in Partitions
               PROVE  Gauged(tracker'[d][p]) /\ SnapshotCovers(d, p)'
    BY DEF GaugeInv
  <1>0. /\ tracker \in [Consumers -> [Partitions -> PartitionState]]
        /\ snap \in [Consumers -> [Partitions -> SUBSET Nat]]
    BY DEF IndInv, TypeOK
  <1>1. CASE AbandonBatch(c)
    <2>1. UNCHANGED snap
      BY <1>1 DEF AbandonBatch, commit
    <2>2. tracker'[d][p] = Tombstone \/ tracker'[d][p] = tracker[d][p]
      BY <1>0, <1>1 DEF AbandonBatch, Forget
    <2> QED
      BY <2>1, <2>2, GaugeKept, GaugeOfTombstone
  <1>2. CASE Down(c)
    <2>1. tracker'[d][p] = Tombstone \/ tracker'[d][p] = tracker[d][p]
      BY <1>0, <1>2 DEF Down
    <2>2. snap'[d][p] = {} \/ snap'[d][p] = snap[d][p]
      BY <1>0, <1>2 DEF Down, NoOffsets
    <2> QED
      BY <2>1, <2>2, GaugeKept, GaugeOfTombstone
  <1>3. ASSUME NEW q \in Partitions, ForgetRevoked(c, q)
        PROVE  Gauged(tracker'[d][p]) /\ SnapshotCovers(d, p)'
    <2>1. UNCHANGED snap
      BY <1>3 DEF ForgetRevoked, commit
    <2>2. tracker'[d][p] = Tombstone \/ tracker'[d][p] = tracker[d][p]
      BY <1>0, <1>3 DEF ForgetRevoked, Forget
    <2> QED
      BY <2>1, <2>2, GaugeKept, GaugeOfTombstone
  <1> QED
    BY <1>1, <1>2, <1>3

\* Every step keeps the gauge, one case per action.
LEMMA GaugeStep ==
  ASSUME IndInv, CommitFloor, GaugeInv, [Next]_vars
  PROVE  GaugeInv'
  <1>0. CASE UNCHANGED <<tracker, snap>>
    BY <1>0, GaugeKept DEF GaugeInv
  <1>1. CASE UNCHANGED vars
    BY <1>0, <1>1 DEF vars, commit
  <1> SUFFICES ASSUME NEW c \in Consumers,
                      \/ Fault(c) \/ Progress(c) \/ CallbackProgress(c)
                      \/ Poll(c) \/ PollEmpty(c) \/ PeriodicCommit(c) \/ NotYetDue(c)
                      \/ Rejoin(c) \/ Restart(c)
                      \/ \E p \in Partitions : Assign(c, p) \/ Settle(c, p)
               PROVE  GaugeInv'
    BY <1>1 DEF Next
  <1>2. CASE \/ Fence(c) \/ Revoke(c) \/ Stop(c) \/ StartWorkers(c) \/ BatchDone(c)
             \/ LeaveOnShutdown(c) \/ FinalCommit(c) \/ FlushOk(c) \/ GiveUpAll(c)
             \/ Poll(c) \/ PollEmpty(c) \/ PeriodicCommit(c) \/ NotYetDue(c)
             \/ Rejoin(c) \/ Restart(c) \/ SendOk(c)
             \/ \E p \in Partitions : Assign(c, p) \/ Settle(c, p)
    <2>1. UNCHANGED <<tracker, snap>>
      BY <1>2 DEF Fence, Revoke, GiveUpAll, Callback, Stop, StartWorkers, Poll,
           BatchDone, LeaveOnShutdown, FinalCommit, FlushOk, PollEmpty, SendOk,
           PeriodicCommit, NotYetDue, Rejoin, Restart, Assign, Settle, loop, commit
    <2> QED
      BY <1>0, <2>1
  <1>3. CASE FlushFails(c) \/ SendFails(c) \/ SendRejected(c)
    <2>1. snap' = [snap EXCEPT ![c] = NoOffsets] /\ UNCHANGED tracker
      BY <1>3 DEF FlushFails, SendFails, SendRejected, Return
    <2>2. \A d \in Consumers, p \in Partitions :
             snap'[d][p] = {} \/ snap'[d][p] = snap[d][p]
      BY <2>1 DEF NoOffsets, IndInv, TypeOK
    <2> QED
      BY <2>1, <2>2, GaugeKept DEF GaugeInv
  <1>4. CASE Crash(c) \/ Terminate(c)
    BY <1>4, ForgetGauge DEF Crash, Terminate
  <1>5. CASE AbandonBatch(c) \/ Mark(c) \/ \E p \in Partitions : ForgetRevoked(c, p)
    BY <1>5, ForgetGauge, MarkGauge
  <1>6. CASE CommitBegin(c, "run") \/ CommitBegin(c, "revoke")
    BY <1>6, CommitBeginGauge
  <1>7. CASE \E p \in Partitions : TrackRecord(c, p) \/ Confirm(c, p)
    BY <1>7, BatchGauge
  <1> QED
    BY <1>2, <1>3, <1>4, <1>5, <1>6, <1>7
    DEF Fault, Progress, CallbackProgress

\* The lag gauge of every process is honest: never below the number of
\* records that await a commit, and zero exactly when none does, whatever
\* revocations, abandoned batches and failed commits came before.
THEOREM LagIsHonest == Spec => []LagIsBacklog
  <1>1. Init => CommitFloor /\ GaugeInv
    BY DEF Init, CommitFloor, FloorAt, GaugeInv, Gauged, SnapshotCovers,
           Tombstone, NoOffsets
  <1>2. IndInv /\ CommitFloor /\ GaugeInv /\ [Next]_vars => (CommitFloor /\ GaugeInv)'
    BY FloorStep, GaugeStep
  <1>3. IndInv /\ CommitFloor /\ GaugeInv => LagIsBacklog
    <2> SUFFICES ASSUME IndInv, CommitFloor, GaugeInv, NEW c \in Consumers,
                        NEW p \in Partitions, ~tracker[c][p].forgotten
                 PROVE  /\ CommitLag(tracker[c][p]) >= Cardinality(Backlog(tracker[c][p]))
                        /\ CommitLag(tracker[c][p]) = 0 <=> Backlog(tracker[c][p]) = {}
      BY DEF LagIsBacklog
    <2>1. tracker[c][p] \in PartitionState /\ Gauged(tracker[c][p])
      BY DEF IndInv, TypeOK, GaugeInv
    <2>2. \A o \in Backlog(tracker[c][p]) : tracker[c][p].committed <= o
      BY DEF CommitFloor, FloorAt
    <2> QED
      BY <2>1, <2>2, LagOfGauged
  <1> QED
    BY <1>1, <1>2, <1>3, Invariant, PTL DEF Spec
=============================================================================
