--------------------------- MODULE CommitProtocol ---------------------------
(***************************************************************************)
(* How the sink turns finished records into committed offsets: the loop of *)
(* Sink.Run, the tracker of module Offsets, commit (from the loop and from *)
(* OnRevoked), abandonBatch, and the consumer group they run in            *)
(* (internal/sink/sink.go).  A record's own processing is one step here,   *)
(* Settle: everything it had to publish has been acknowledged to the       *)
(* worker that confirms it.                                                *)
(*                                                                         *)
(* Two goroutines of a process meet here.  Run polls, lets the partition   *)
(* workers finish and commits; the Kafka client calls OnRevoked on a       *)
(* goroutine of its own.  The client is built with BlockRebalanceOnPoll,   *)
(* so a callback never runs between a poll that returned records and       *)
(* AllowRebalance, and a poll waits for a callback under way.  commitMu    *)
(* serialises the two commits, but not OnRevoked's Forget with Run's       *)
(* commit, and not either of them with the broker.                         *)
(***************************************************************************)
EXTENDS Offsets, FiniteSets

CONSTANTS Consumers,    \* processes of the consumer group
          Partitions,   \* topic partitions of the command topics
          Log           \* Log[p]: the offsets at which p holds a record

\* Offsets may have gaps: compaction and transaction markers take offsets.
ASSUME LogAssumption == Log \in [Partitions -> SUBSET Nat]

VARIABLES
    tracker,    \* tracker[c][p]: c's partitionState for p
    pos,        \* pos[c][p]: the next offset c's client fetches from p
    owned,      \* owned[c]: partitions c's client believes assigned to it
    fetched,    \* fetched[c][p]: records of the poll not yet tracked
    pc,         \* pc[c]: where the goroutine of Run is
    stopping,   \* stopping[c]: the context of Run is cancelled
    mu,         \* mu[c]: who holds commitMu
    cstep,      \* cstep[c]: where the holder of commitMu is
    snap,       \* snap[c][p]: the offset Commitable handed out, if any
    rstage,     \* rstage[c]: where the OnRevoked callback is
    revoking,   \* revoking[c]: partitions OnRevoked has yet to forget
    member,     \* member[c]: the group coordinator accepts c's commits
    settled,    \* settled[p]: offsets whose processing is final
    committed   \* committed[p]: the group's committed offset at the broker

loop   == <<pc, stopping, fetched, pos>>
commit == <<mu, cstep, snap>>
group  == <<owned, rstage, revoking, member>>
vars   == <<tracker, loop, commit, group, settled, committed>>

TypeOK ==
    /\ tracker \in [Consumers -> [Partitions -> PartitionState]]
    /\ pos \in [Consumers -> [Partitions -> Nat]]
    /\ owned \in [Consumers -> SUBSET Partitions]
    /\ fetched \in [Consumers -> [Partitions -> SUBSET Nat]]
    /\ pc \in [Consumers -> {"poll", "track", "batch", "post", "commit",
                             "final", "exited", "down"}]
    /\ stopping \in [Consumers -> BOOLEAN]
    /\ mu \in [Consumers -> {"free", "run", "revoke"}]
    /\ cstep \in [Consumers -> {"flush", "send", "mark"}]
    /\ snap \in [Consumers -> [Partitions -> SUBSET Nat]]
    /\ rstage \in [Consumers -> {"none", "commit", "forget"}]
    /\ revoking \in [Consumers -> SUBSET Partitions]
    /\ member \in [Consumers -> BOOLEAN]
    /\ settled \in [Partitions -> SUBSET Nat]
    /\ committed \in [Partitions -> Nat]

NoOffsets == [p \in Partitions |-> {}]

\* Every process has joined the group and waits for its first assignment.
Init ==
    /\ tracker = [c \in Consumers |-> [p \in Partitions |-> Tombstone]]
    /\ pos = [c \in Consumers |-> [p \in Partitions |-> 0]]
    /\ owned = [c \in Consumers |-> {}]
    /\ fetched = [c \in Consumers |-> NoOffsets]
    /\ pc = [c \in Consumers |-> "poll"]
    /\ stopping = [c \in Consumers |-> FALSE]
    /\ mu = [c \in Consumers |-> "free"]
    /\ cstep = [c \in Consumers |-> "flush"]
    /\ snap = [c \in Consumers |-> NoOffsets]
    /\ rstage = [c \in Consumers |-> "none"]
    /\ revoking = [c \in Consumers |-> {}]
    /\ member = [c \in Consumers |-> TRUE]
    /\ settled = NoOffsets
    /\ committed = [p \in Partitions |-> 0]

\* Mutant of RebalanceBlocked: a client without BlockRebalanceOnPoll.
NeverBlocked(c) == FALSE

\* Polled records are in hand and AllowRebalance has not been called.
RebalanceBlocked(c) == pc[c] \in {"track", "batch"}

-----------------------------------------------------------------------------
(* The consumer group and the Kafka client (external).                     *)

\* A rebalance ends when every member has come back from its callbacks; the
\* client fetches a new partition from the committed offset.
Assign(c, p) ==
    /\ member[c]
    /\ pc[c] \notin {"exited", "down"}
    /\ ~RebalanceBlocked(c)
    /\ \A d \in Consumers : member[d] => p \notin owned[d] /\ rstage[d] = "none"
    /\ p \notin owned[c]
    /\ owned' = [owned EXCEPT ![c] = @ \cup {p}]
    /\ pos' = [pos EXCEPT ![c][p] = committed[p]]
    /\ UNCHANGED <<tracker, fetched, pc, stopping, commit, rstage, revoking,
                   member, settled, committed>>

\* The session times out: the coordinator drops c, which goes on unaware.
Fence(c) ==
    /\ member[c]
    /\ member' = [member EXCEPT ![c] = FALSE]
    /\ UNCHANGED <<tracker, loop, commit, owned, rstage, revoking, settled,
                   committed>>

Rejoin(c) ==
    /\ ~member[c]
    /\ owned[c] = {}
    /\ rstage[c] = "none"
    /\ pc[c] \notin {"exited", "down"}
    /\ member' = [member EXCEPT ![c] = TRUE]
    /\ UNCHANGED <<tracker, loop, commit, owned, rstage, revoking, settled,
                   committed>>

\* The client calls OnRevoked for partitions that move elsewhere.
Callback(c, P) ==
    /\ rstage[c] = "none"
    /\ ~RebalanceBlocked(c)
    /\ P # {}
    /\ revoking' = [revoking EXCEPT ![c] = P]
    /\ rstage' = [rstage EXCEPT ![c] = "commit"]
    /\ UNCHANGED <<tracker, loop, commit, owned, member, settled, committed>>

Revoke(c) ==
    /\ member[c]
    /\ pc[c] # "exited"
    /\ \E P \in SUBSET owned[c] : Callback(c, P)

\* The same callback for every partition, when the client finds out that the
\* coordinator dropped it and when it leaves the group after Run returned.
GiveUpAll(c) ==
    /\ ~member[c] \/ pc[c] = "exited"
    /\ Callback(c, owned[c])

-----------------------------------------------------------------------------
(* The goroutine of Run.                                                   *)

\* A poll returns records: for every partition a run of the log from pos on.
EndsOf(c, p) == {pos[c][p]} \cup {o + 1 : o \in {x \in Log[p] : x >= pos[c][p]}}

Poll(c) ==
    /\ pc[c] = "poll"
    /\ rstage[c] = "none"
    /\ \E upto \in [Partitions -> UNION {EndsOf(c, p) : p \in Partitions}] :
          LET got == [p \in Partitions |->
                        {o \in Log[p] : pos[c][p] <= o /\ o < upto[p]}]
          IN /\ \A p \in Partitions : upto[p] \in EndsOf(c, p)
             /\ \A p \in Partitions \ owned[c] : upto[p] = pos[c][p]
             /\ \E p \in Partitions : got[p] # {}
             /\ fetched' = [fetched EXCEPT ![c] = got]
             /\ pos' = [pos EXCEPT ![c] = upto]
    /\ pc' = [pc EXCEPT ![c] = "track"]
    /\ UNCHANGED <<tracker, stopping, commit, group, settled, committed>>

\* The poll's own deadline passes, or the context is cancelled: no records,
\* and the client does not block rebalances.
PollEmpty(c) ==
    /\ pc[c] = "poll"
    /\ pc' = [pc EXCEPT ![c] = "post"]
    /\ UNCHANGED <<tracker, stopping, fetched, pos, commit, group, settled,
                   committed>>

TrackRecord(c, p) ==
    /\ pc[c] = "track"
    /\ \E o \in LeastOf(fetched[c][p]) :
          /\ tracker' = [tracker EXCEPT ![c][p] = Track(@, o)]
          /\ fetched' = [fetched EXCEPT ![c][p] = @ \ {o}]
    /\ UNCHANGED <<pc, stopping, pos, commit, group, settled, committed>>

StartWorkers(c) ==
    /\ pc[c] = "track"
    /\ fetched[c] = NoOffsets
    /\ pc' = [pc EXCEPT ![c] = "batch"]
    /\ UNCHANGED <<tracker, stopping, fetched, pos, commit, group, settled,
                   committed>>

\* The last publication of a record in the batch is acknowledged.
Settle(c, p) ==
    /\ pc[c] = "batch"
    /\ \E o \in tracker[c][p].pending \ settled[p] :
          settled' = [settled EXCEPT ![p] = @ \cup {o}]
    /\ UNCHANGED <<tracker, loop, commit, group, committed>>

\* Mutant of Confirm: Done without waiting for the publications.
ConfirmUnacknowledged(c, p) ==
    /\ pc[c] = "batch"
    /\ \E o \in LeastOf(tracker[c][p].pending) :
          tracker' = [tracker EXCEPT ![c][p] = Done(@, o)]
    /\ UNCHANGED <<loop, commit, group, settled, committed>>

\* confirm marks records Done in offset order, a settled one at a time.
Confirm(c, p) ==
    /\ pc[c] = "batch"
    /\ \E o \in LeastOf(tracker[c][p].pending) :
          /\ o \in settled[p]
          /\ tracker' = [tracker EXCEPT ![c][p] = Done(@, o)]
    /\ UNCHANGED <<loop, commit, group, settled, committed>>

Unfinished(c) == {p \in Partitions : RewindPoint(tracker[c][p]) # {}}

BatchDone(c) ==
    /\ pc[c] = "batch"
    /\ Unfinished(c) = {}
    /\ pc' = [pc EXCEPT ![c] = "post"]
    /\ UNCHANGED <<tracker, stopping, fetched, pos, commit, group, settled,
                   committed>>

\* Mutant of AbandonBatch: the records are forgotten and never fetched again.
AbandonWithoutRewind(c) ==
    /\ pc[c] = "batch"
    /\ ~stopping[c]
    /\ Unfinished(c) # {}
    /\ tracker' = [tracker EXCEPT ![c] = [p \in Partitions |->
                     IF p \in Unfinished(c) THEN Forget(@[p]) ELSE @[p]]]
    /\ pc' = [pc EXCEPT ![c] = "post"]
    /\ UNCHANGED <<pos, stopping, fetched, commit, group, settled, committed>>

\* abandonBatch: rewind and forget exactly the partitions with work left.
AbandonBatch(c) ==
    /\ pc[c] = "batch"
    /\ ~stopping[c]
    /\ Unfinished(c) # {}
    /\ pos' = [pos EXCEPT ![c] = [p \in Partitions |->
                 IF p \in Unfinished(c)
                 THEN CHOOSE o \in RewindPoint(tracker[c][p]) : TRUE
                 ELSE @[p]]]
    /\ tracker' = [tracker EXCEPT ![c] = [p \in Partitions |->
                     IF p \in Unfinished(c) THEN Forget(@[p]) ELSE @[p]]]
    /\ pc' = [pc EXCEPT ![c] = "post"]
    /\ UNCHANGED <<stopping, fetched, commit, group, settled, committed>>

\* On cancellation there is nothing to rewind.
LeaveOnShutdown(c) ==
    /\ pc[c] = "batch"
    /\ stopping[c]
    /\ Unfinished(c) # {}
    /\ pc' = [pc EXCEPT ![c] = "post"]
    /\ UNCHANGED <<tracker, stopping, fetched, pos, commit, group, settled,
                   committed>>

\* After AllowRebalance: the final commit, a due periodic one, or neither.
FinalCommit(c) ==
    /\ pc[c] = "post"
    /\ stopping[c]
    /\ pc' = [pc EXCEPT ![c] = "final"]
    /\ UNCHANGED <<tracker, stopping, fetched, pos, commit, group, settled,
                   committed>>

PeriodicCommit(c) ==
    /\ pc[c] = "post"
    /\ ~stopping[c]
    /\ pc' = [pc EXCEPT ![c] = "commit"]
    /\ UNCHANGED <<tracker, stopping, fetched, pos, commit, group, settled,
                   committed>>

NotYetDue(c) ==
    /\ pc[c] = "post"
    /\ ~stopping[c]
    /\ pc' = [pc EXCEPT ![c] = "poll"]
    /\ UNCHANGED <<tracker, stopping, fetched, pos, commit, group, settled,
                   committed>>

-----------------------------------------------------------------------------
(* commit, called by Run ("run") and by OnRevoked ("revoke").              *)

Committing(c, who) ==
    \/ who = "run" /\ pc[c] \in {"commit", "final"}
    \/ who = "revoke" /\ rstage[c] = "commit"

\* commit returns to its caller and releases commitMu.
Return(c, who) ==
    /\ mu' = [mu EXCEPT ![c] = "free"]
    /\ cstep' = [cstep EXCEPT ![c] = "flush"]
    /\ snap' = [snap EXCEPT ![c] = NoOffsets]
    /\ pc' = IF who = "revoke" THEN pc
             ELSE [pc EXCEPT ![c] = IF @ = "final" THEN "exited" ELSE "poll"]
    /\ rstage' = IF who = "run" THEN rstage ELSE [rstage EXCEPT ![c] = "forget"]
    /\ UNCHANGED <<stopping, fetched, pos, owned, revoking, member>>

CommitableNow(c) == [p \in Partitions |-> Commitable(tracker[c][p])]

CommitBegin(c, who) ==
    /\ Committing(c, who)
    /\ mu[c] = "free"
    /\ IF CommitableNow(c) = NoOffsets
       THEN Return(c, who)
       ELSE /\ mu' = [mu EXCEPT ![c] = who]
            /\ snap' = [snap EXCEPT ![c] = CommitableNow(c)]
            /\ UNCHANGED <<cstep, loop, group>>
    /\ UNCHANGED <<tracker, settled, committed>>

FlushOk(c) ==
    /\ mu[c] # "free"
    /\ cstep[c] = "flush"
    /\ cstep' = [cstep EXCEPT ![c] = "send"]
    /\ UNCHANGED <<tracker, loop, mu, snap, group, settled, committed>>

FlushFails(c) ==
    /\ mu[c] # "free"
    /\ cstep[c] = "flush"
    /\ Return(c, mu[c])
    /\ UNCHANGED <<tracker, settled, committed>>

\* The coordinator stores the offsets of the partitions in A (external).
Store(c, A) ==
    committed' = [p \in Partitions |->
                    IF p \in A THEN CHOOSE w \in snap[c][p] : TRUE
                    ELSE committed[p]]

Requested(c) == {p \in Partitions : snap[c][p] # {}}

SendOk(c) ==
    /\ mu[c] # "free"
    /\ cstep[c] = "send"
    /\ member[c]
    /\ Store(c, Requested(c))
    /\ cstep' = [cstep EXCEPT ![c] = "mark"]
    /\ UNCHANGED <<tracker, loop, mu, snap, group, settled>>

\* An error for some partition, for the request, or a lost answer: whatever
\* the coordinator stored, nothing is marked.
SendFails(c) ==
    /\ mu[c] # "free"
    /\ cstep[c] = "send"
    /\ member[c]
    /\ \E A \in SUBSET Requested(c) : Store(c, A)
    /\ Return(c, mu[c])
    /\ UNCHANGED <<tracker, settled>>

\* The coordinator has dropped this process from the group.
SendRejected(c) ==
    /\ mu[c] # "free"
    /\ cstep[c] = "send"
    /\ ~member[c]
    /\ Return(c, mu[c])
    /\ UNCHANGED <<tracker, settled, committed>>

Mark(c) ==
    /\ mu[c] # "free"
    /\ cstep[c] = "mark"
    /\ tracker' = [tracker EXCEPT ![c] = [p \in Partitions |->
                     IF snap[c][p] = {} THEN @[p]
                     ELSE MarkCommitted(@[p], CHOOSE w \in snap[c][p] : TRUE)]]
    /\ Return(c, mu[c])
    /\ UNCHANGED <<settled, committed>>

-----------------------------------------------------------------------------
\* Mutant of ForgetRevoked: the state of the revoked partition survives.
RevokeWithoutForget(c, p) ==
    /\ rstage[c] = "forget"
    /\ p \in revoking[c]
    /\ owned' = [owned EXCEPT ![c] = @ \ {p}]
    /\ revoking' = [revoking EXCEPT ![c] = @ \ {p}]
    /\ rstage' = IF revoking[c] = {p} THEN [rstage EXCEPT ![c] = "none"]
                 ELSE rstage
    /\ UNCHANGED <<tracker, loop, commit, member, settled, committed>>

\* The rest of OnRevoked: one Forget per partition, without commitMu.
ForgetRevoked(c, p) ==
    /\ rstage[c] = "forget"
    /\ p \in revoking[c]
    /\ tracker' = [tracker EXCEPT ![c][p] = Forget(@)]
    /\ owned' = [owned EXCEPT ![c] = @ \ {p}]
    /\ revoking' = [revoking EXCEPT ![c] = @ \ {p}]
    /\ rstage' = IF revoking[c] = {p} THEN [rstage EXCEPT ![c] = "none"]
                 ELSE rstage
    /\ UNCHANGED <<loop, commit, member, settled, committed>>

-----------------------------------------------------------------------------
(* The life of the process.                                                *)

Stop(c) ==
    /\ pc[c] \notin {"exited", "down"}
    /\ ~stopping[c]
    /\ stopping' = [stopping EXCEPT ![c] = TRUE]
    /\ UNCHANGED <<tracker, pc, fetched, pos, commit, group, settled,
                   committed>>

\* Everything the process held in memory is gone.
Down(c) ==
    /\ tracker' = [tracker EXCEPT ![c] = [p \in Partitions |-> Tombstone]]
    /\ pos' = [pos EXCEPT ![c] = [p \in Partitions |-> 0]]
    /\ owned' = [owned EXCEPT ![c] = {}]
    /\ fetched' = [fetched EXCEPT ![c] = NoOffsets]
    /\ pc' = [pc EXCEPT ![c] = "down"]
    /\ stopping' = [stopping EXCEPT ![c] = FALSE]
    /\ mu' = [mu EXCEPT ![c] = "free"]
    /\ cstep' = [cstep EXCEPT ![c] = "flush"]
    /\ snap' = [snap EXCEPT ![c] = NoOffsets]
    /\ rstage' = [rstage EXCEPT ![c] = "none"]
    /\ revoking' = [revoking EXCEPT ![c] = {}]
    /\ member' = [member EXCEPT ![c] = FALSE]
    /\ UNCHANGED <<settled, committed>>

Crash(c) == pc[c] # "down" /\ Down(c)

Terminate(c) == pc[c] = "exited" /\ owned[c] = {} /\ Down(c)

Restart(c) ==
    /\ pc[c] = "down"
    /\ pc' = [pc EXCEPT ![c] = "poll"]
    /\ member' = [member EXCEPT ![c] = TRUE]
    /\ UNCHANGED <<tracker, stopping, fetched, pos, commit, owned, rstage,
                   revoking, settled, committed>>

-----------------------------------------------------------------------------
\* Steps that begin at a whim of the environment, and may stop coming.
Fault(c) ==
    \/ Fence(c) \/ Revoke(c) \/ AbandonBatch(c) \/ FlushFails(c)
    \/ SendFails(c) \/ Stop(c) \/ Crash(c)

\* Steps that bring a batch, a commit or a shutdown to its end ...
Progress(c) ==
    \/ StartWorkers(c) \/ BatchDone(c) \/ LeaveOnShutdown(c) \/ FinalCommit(c)
    \/ CommitBegin(c, "run")
    \/ FlushOk(c) \/ SendOk(c) \/ SendRejected(c) \/ Mark(c) \/ Terminate(c)
    \/ \E p \in Partitions : TrackRecord(c, p) \/ Confirm(c, p)

\* ... and those of the client's goroutine that runs the callback.
CallbackProgress(c) ==
    \/ GiveUpAll(c) \/ CommitBegin(c, "revoke")
    \/ \E p \in Partitions : ForgetRevoked(c, p)

Next ==
    \E c \in Consumers :
       \/ Fault(c) \/ Progress(c) \/ CallbackProgress(c)
       \/ Poll(c) \/ PollEmpty(c) \/ PeriodicCommit(c) \/ NotYetDue(c)
       \/ Rejoin(c) \/ Restart(c)
       \/ \E p \in Partitions : Assign(c, p) \/ Settle(c, p)

Spec == Init /\ [][Next]_vars

-----------------------------------------------------------------------------
(* Correctness.                                                            *)

SafeAt(p, w) == \A o \in Log[p] : o < w => o \in settled[p]

\* No record below a committed offset was skipped.  Committing past a record
\* that is not settled would lose it: the next owner starts at the offset.
NoLoss == \A p \in Partitions : SafeAt(p, committed[p])

\* The records a consumer has read past and not settled are in its hands:
\* fetched, or pending in the tracker.  A record that is neither would never
\* be processed, however long this consumer keeps the partition
\* (abandonBatch: "records already fetched will not arrive again").
NothingStranded ==
    \A c \in Consumers : \A p \in owned[c] : \A o \in Log[p] :
       o < pos[c][p] /\ o \notin settled[p]
          => o \in fetched[c][p] \cup tracker[c][p].pending

\* What the tracker remembers as committed lies below everything it still
\* tracks, so a partition that came back after a revocation is never held
\* back by the offset of its former life (MarkCommitted, Track).
TrackedAboveCommitted ==
    \A c \in Consumers : \A p \in Partitions :
       LET st == tracker[c][p] IN
       ~st.forgotten => \A o \in Backlog(st) : st.committed <= o

\* The parts that make NoLoss inductive.  Only settled records are done; a
\* state that tracks anything belongs to an owned partition; what is tracked
\* was read from the log below the fetch position; an offset on its way to
\* the broker is safe to store; and the rebalance block and commitMu do
\* their work.
DoneIsSettled ==
    \A c \in Consumers, p \in Partitions : tracker[c][p].done \subseteq settled[p]

TrackedIsOwned ==
    \A c \in Consumers, p \in Partitions :
       /\ ~tracker[c][p].forgotten => p \in owned[c]
       /\ tracker[c][p].forgotten => Backlog(tracker[c][p]) = {}
       /\ fetched[c][p] # {} => p \in owned[c]

TrackedIsRead ==
    \A c \in Consumers, p \in Partitions :
       \A o \in Backlog(tracker[c][p]) \cup fetched[c][p] :
          o \in Log[p] /\ o < pos[c][p]

SnapshotSafe ==
    \A c \in Consumers, p \in Partitions : \A w \in snap[c][p] : SafeAt(p, w)

BlockHolds ==
    \A c \in Consumers :
       /\ pc[c] # "track" => fetched[c] = NoOffsets
       /\ rstage[c] # "none" => ~RebalanceBlocked(c)
       /\ mu[c] # "free" => Committing(c, mu[c])

DataInv ==
    /\ NoLoss /\ NothingStranded /\ DoneIsSettled /\ TrackedIsOwned
    /\ TrackedIsRead /\ SnapshotSafe

IndInv == TypeOK /\ DataInv /\ BlockHolds

\* The part that makes TrackedAboveCommitted inductive on top of IndInv.  A
\* live state's commit lies below everything its partition has in hand or
\* has yet to fetch, an offset on its way to MarkCommitted does too, and only
\* the holder of commitMu has one.
FloorAt(c, p) ==
    LET st == tracker[c][p] IN
    /\ ~st.forgotten =>
          /\ st.committed <= pos[c][p]
          /\ \A o \in Backlog(st) \cup fetched[c][p] : st.committed <= o
          /\ \A w \in snap[c][p] :
                w <= pos[c][p] /\ \A o \in st.pending : w <= o
    /\ snap[c][p] # {} => mu[c] # "free"

CommitFloor == \A c \in Consumers, p \in Partitions : FloorAt(c, p)

\* The lag gauge never goes negative, is zero exactly when nothing tracked
\* awaits a commit, and is at least the number of records that do.
LagIsBacklog ==
    \A c \in Consumers : \A p \in Partitions :
       LET st == tracker[c][p] IN
       ~st.forgotten =>
          /\ CommitLag(st) >= Cardinality(Backlog(st))
          /\ CommitLag(st) = 0 <=> Backlog(st) = {}

ALO == INSTANCE AtLeastOnce WITH settled <- settled, committed <- committed
\* The protocol implements at-least-once consumption.
ImplementsAtLeastOnce == ALO!Spec

\* A commit moves only offsets of partitions that no other process of the
\* group is reading ("a rebalance block held during processing: otherwise it
\* is possible to commit someone else's partitions").
CommitsOwnPartitions ==
    [][\A c \in Consumers, p \in Partitions :
          (SendOk(c) \/ SendFails(c)) /\ committed'[p] # committed[p]
             => \A d \in Consumers \ {c} : ~(member[d] /\ p \in owned[d])]_vars

\* With fairness: once the environment stops interfering (no session
\* timeouts, revocations, exhausted budgets, failed flushes or commits,
\* shutdowns, crashes), every record ends up settled and its offset accepted
\* by the broker.  Whatever happened before, no partition is left wedged.
Drained(p) ==
    /\ Log[p] \subseteq settled[p]
    /\ \E c \in Consumers :
          /\ p \in owned[c]
          /\ \A o \in Log[p] : o < pos[c][p]
          /\ Backlog(tracker[c][p]) = {}
EventuallyDrained ==
    (<>[][\A c \in Consumers : ~Fault(c)]_vars) => <>[](\A p \in Partitions : Drained(p))

Fairness ==
    \A c \in Consumers :
       /\ WF_vars(Progress(c)) /\ SF_vars(CallbackProgress(c))
       /\ \A p \in Partitions : WF_vars(Settle(c, p))
       /\ WF_vars(PollEmpty(c) \/ NotYetDue(c))
       /\ SF_vars(Poll(c)) /\ SF_vars(PeriodicCommit(c))
       /\ WF_vars(Rejoin(c)) /\ WF_vars(Restart(c))
       /\ \A p \in Partitions : WF_vars(Assign(c, p))

FairSpec == Spec /\ Fairness
=============================================================================
