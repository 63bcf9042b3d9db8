-------------------------------- MODULE Sink --------------------------------
(***************************************************************************)
(* What CommitProtocol takes as one step, Settle, in full: how the sink    *)
(* drives the records of a batch through the batcher and the emitter       *)
(* (internal/sink/sink.go: runPartition, pass, prepare, finish, confirm;   *)
(* internal/emit/emitter.go).  One worker per partition submits a run of   *)
(* records, collects their outcomes in order, hands their publications to  *)
(* the broker, and marks done those whose publications are acknowledged.   *)
(*                                                                         *)
(* One process, without rebalances: those are the business of module       *)
(* CommitProtocol, and no callback runs during a batch.  The batcher is    *)
(* the queue that module Batcher shows it to be: commands are applied in   *)
(* the order of submission, and each is answered once.                     *)
(*                                                                         *)
(* A publication is <<p, o, k>>, the k-th one of record o of partition p.  *)
(* Publications of an earlier pass nobody waits for any more are orphans.  *)
(***************************************************************************)
EXTENDS Offsets, Sequences, FiniteSets

CONSTANTS
    Partitions,     \* topic partitions of the command topics
    Log,            \* Log[p]: the offsets at which p holds a record
    Poison,         \* Poison[p]: records that never reach the batcher
    Outputs,        \* Outputs[p][o]: results and rejections o must publish
    Panics,         \* Panics[p]: records whose finish may panic
    Broken,         \* publications the broker refuses whenever it sees them
    MaxInFlight,    \* sink.max_in_flight_per_partition
    MaxQueue        \* batcher.max_queue

ASSUME SinkAssumption ==
    /\ Log \in [Partitions -> SUBSET Nat]
    /\ \A p \in Partitions :
          /\ Poison[p] \subseteq Log[p] /\ Panics[p] \subseteq Log[p]
          /\ Outputs[p] \in [Log[p] -> Nat]
          /\ \A o \in Poison[p] : Outputs[p][o] = 0
    /\ MaxInFlight \in Nat \ {0} /\ MaxQueue \in Nat \ {0}

VARIABLES
    pc,         \* where the goroutine of Run is
    stopping,   \* the context of Run is cancelled
    expired,    \* the deadline of the batch has passed
    tracker,    \* tracker[p]: the partitionState of p
    pos,        \* pos[p]: the next offset the client fetches
    stage,      \* stage[p]: where the worker of p is
    todo,       \* todo[p]: recs, the records of the batch not yet driven home
    prep,       \* prep[p]: those of them prepared in this pass ...
    handed,     \* handed[p]: ... and those whose publications were handed off
    failing,    \* failing[p]: failErr, the pass was stopped by an error
    outcome,    \* outcome[p][o]: what waits on the channel of o's command
    queue,      \* commands on the batcher's queue
    flying,     \* publications of the passes under way, unanswered
    failed,     \* publications of the passes under way, failed and untaken
    orphans,    \* publications of earlier passes, unanswered
    leftover,   \* the emitter tracks a failure nobody is going to take
    landed,     \* publications the broker has acknowledged at some time
    applied,    \* applied[p]: records TigerBeetle has applied at some time
    committed   \* committed[p]: the group's committed offset

worker  == <<stage, todo, prep, handed, failing>>
emitter == <<flying, failed, orphans, leftover, landed>>
batcher == <<outcome, queue, applied>>
run     == <<pc, stopping, expired>>
offsets == <<tracker, pos, committed>>
vars    == <<run, offsets, worker, emitter, batcher>>

\* The publication that dead-letters a record as poison comes last.
PoisonSlot(p, o) == Outputs[p][o] + 1
Slots(p, o) == 1..PoisonSlot(p, o)
PublicationsOf(p) == UNION {{<<p, o, k>> : k \in Slots(p, o)} : o \in Log[p]}
Publications == UNION {PublicationsOf(p) : p \in Partitions}
Command == [part: Partitions, at: UNION {Log[p] : p \in Partitions}, live: BOOLEAN]

TypeOK ==
    /\ pc \in {"poll", "batch", "post", "commit", "final", "exited"}
    /\ {stopping, expired, leftover} \subseteq BOOLEAN
    /\ tracker \in [Partitions -> PartitionState]
    /\ pos \in [Partitions -> Nat] /\ committed \in [Partitions -> Nat]
    /\ stage \in [Partitions -> {"idle", "top", "submit", "parked", "collect",
                                 "confirm", "retry", "left"}]
    /\ failing \in [Partitions -> BOOLEAN]
    /\ \A p \in Partitions :
          /\ handed[p] \subseteq prep[p]
          /\ prep[p] \subseteq todo[p]
          /\ todo[p] \subseteq Log[p]
          /\ Cardinality(prep[p]) <= MaxInFlight
          /\ outcome[p] \in [Log[p] -> {"none", "applied", "error"}]
          /\ applied[p] \subseteq Log[p]
    /\ queue \in Seq(Command) /\ Len(queue) <= MaxQueue
    /\ flying \cup failed \cup orphans \cup landed \subseteq Publications
    /\ flying \cap failed = {}

NoRecords == [p \in Partitions |-> {}]
NoOutcome == [p \in Partitions |-> [o \in Log[p] |-> "none"]]
AllIdle == [p \in Partitions |-> "idle"]

Init ==
    /\ pc = "poll" /\ stopping = FALSE /\ expired = FALSE
    /\ tracker = [p \in Partitions |-> Tombstone]
    /\ pos = [p \in Partitions |-> 0]
    /\ stage = AllIdle
    /\ todo = NoRecords /\ prep = NoRecords /\ handed = NoRecords
    /\ failing = [p \in Partitions |-> FALSE]
    /\ outcome = NoOutcome /\ queue = <<>>
    /\ flying = {} /\ failed = {} /\ orphans = {} /\ leftover = FALSE
    /\ landed = {} /\ applied = NoRecords
    /\ committed = [p \in Partitions |-> 0]

-----------------------------------------------------------------------------
(* The batcher and the broker, as their users see them.                    *)

\* The answer goes to the channel of the command, which after the end of the
\* pass nobody holds any more.
Answer(answer) ==
    /\ queue' = Tail(queue)
    /\ outcome' = IF Head(queue).live
                  THEN [outcome EXCEPT ![Head(queue).part][Head(queue).at] = answer]
                  ELSE outcome

ApplyHead == applied' = [applied EXCEPT ![Head(queue).part] = @ \cup {Head(queue).at}]

Serve ==
    /\ queue # <<>>
    /\ ApplyHead /\ Answer("applied")
    /\ UNCHANGED <<run, offsets, worker, emitter>>

\* The answer did not fit the batch, which may have been applied.
Mismatch ==
    /\ queue # <<>>
    /\ ApplyHead /\ Answer("error")
    /\ UNCHANGED <<run, offsets, worker, emitter>>

\* A batch that was given up, or the drain: ErrClosed.
CloseCommand ==
    /\ queue # <<>>
    /\ stopping
    /\ ApplyHead \/ UNCHANGED applied
    /\ Answer("error")
    /\ UNCHANGED <<run, offsets, worker, emitter>>

Acknowledge(x) ==
    /\ x \in flying \cup orphans
    /\ x \notin Broken
    /\ flying' = flying \ {x}
    /\ orphans' = orphans \ {x}
    /\ landed' = landed \cup {x}
    /\ UNCHANGED <<run, offsets, worker, batcher, failed, leftover>>

\* Every failure is tracked until a Wait takes it or a Flush reports it.
Refuse(x) ==
    /\ x \in flying \cup orphans
    /\ flying' = flying \ {x}
    /\ orphans' = orphans \ {x}
    /\ failed' = IF x \in flying THEN failed \cup {x} ELSE failed
    /\ leftover' = (leftover \/ x \in orphans)
    /\ UNCHANGED <<run, offsets, worker, batcher, landed>>

-----------------------------------------------------------------------------
(* A batch: processBatch.                                                  *)

The(S) == CHOOSE x \in S : TRUE

\* One Track after another, for the records of one partition.
TrackAll(st, S) ==
    IF S = {} THEN st
    ELSE [Revived(st) EXCEPT
            !.pending = @ \cup S,
            !.highest = The(GreatestOf(S \cup {@})),
            !.lowest = IF @ < 0 THEN The(LeastOf(S)) ELSE The(LeastOf(S \cup {@}))]

\* A poll returns, for every partition, a run of the log from pos on, which
\* has a last record.
Poll ==
    /\ pc = "poll"
    /\ \E got \in [Partitions -> SUBSET UNION {Log[p] : p \in Partitions}] :
          /\ \A p \in Partitions :
                /\ got[p] \subseteq {o \in Log[p] : o >= pos[p]}
                /\ \A o \in got[p], r \in Log[p] : pos[p] <= r /\ r < o => r \in got[p]
                /\ got[p] # {} => GreatestOf(got[p]) # {}
          /\ got # NoRecords
          /\ tracker' = [p \in Partitions |-> TrackAll(tracker[p], got[p])]
          /\ pos' = [p \in Partitions |->
                       IF got[p] = {} THEN pos[p] ELSE The(GreatestOf(got[p])) + 1]
          /\ todo' = got
          /\ stage' = [p \in Partitions |-> IF got[p] = {} THEN "idle" ELSE "top"]
    /\ pc' = "batch"
    /\ UNCHANGED <<stopping, expired, committed, prep, handed, failing, emitter, batcher>>

\* No records before the poll's deadline, or the context is cancelled.
PollEmpty ==
    /\ pc = "poll"
    /\ pc' = "post"
    /\ UNCHANGED <<stopping, expired, offsets, worker, emitter, batcher>>

Expire ==
    /\ pc = "batch"
    /\ ~expired
    /\ expired' = TRUE
    /\ UNCHANGED <<pc, stopping, offsets, worker, emitter, batcher>>

WorkersDone == pc = "batch" /\ \A p \in Partitions : stage[p] \in {"idle", "left"}

BatchOver ==
    /\ pc' = "post"
    /\ expired' = FALSE
    /\ stage' = AllIdle
    /\ todo' = NoRecords
    /\ UNCHANGED <<stopping, committed, prep, handed, failing, emitter, batcher>>

\* Every record is driven home, or the process shuts down: nothing to rewind.
JoinWorkers ==
    /\ WorkersDone
    /\ stopping \/ \A p \in Partitions : stage[p] = "idle"
    /\ BatchOver
    /\ UNCHANGED <<tracker, pos>>

Unfinished == {p \in Partitions : RewindPoint(tracker[p]) # {}}

\* Mutant of AbandonBatch: the partition is rewound behind the record it broke on.
AbandonPastFailure ==
    /\ WorkersDone
    /\ ~stopping
    /\ \E p \in Partitions : stage[p] = "left"
    /\ pos' = [p \in Partitions |->
                 IF p \in Unfinished THEN The(RewindPoint(tracker[p])) + 1 ELSE pos[p]]
    /\ tracker' = [p \in Partitions |->
                     IF p \in Unfinished THEN Forget(tracker[p]) ELSE tracker[p]]
    /\ BatchOver

\* abandonBatch: what the workers left unfinished is forgotten and read again.
AbandonBatch ==
    /\ WorkersDone
    /\ ~stopping
    /\ \E p \in Partitions : stage[p] = "left"
    /\ pos' = [p \in Partitions |->
                 IF p \in Unfinished THEN The(RewindPoint(tracker[p])) ELSE pos[p]]
    /\ tracker' = [p \in Partitions |->
                     IF p \in Unfinished THEN Forget(tracker[p]) ELSE tracker[p]]
    /\ BatchOver

-----------------------------------------------------------------------------
(* The worker of a partition: runPartition and pass.                       *)

Hurry == stopping \/ expired

\* The top of runPartition's loop.
Finish(p) ==
    /\ stage[p] = "top"
    /\ todo[p] = {} \/ Hurry
    /\ stage' = [stage EXCEPT ![p] = IF todo[p] = {} THEN "idle" ELSE "left"]
    /\ UNCHANGED <<run, offsets, todo, prep, handed, failing, emitter, batcher>>

StartPass(p) ==
    /\ stage[p] = "top"
    /\ todo[p] # {}
    /\ ~Hurry
    /\ stage' = [stage EXCEPT ![p] = "submit"]
    /\ UNCHANGED <<run, offsets, todo, prep, handed, failing, emitter, batcher>>

\* Mutant of NextToPrepare: one record more than the limit.
NextToPrepareOneMore(p) ==
    IF Cardinality(prep[p]) <= MaxInFlight THEN LeastOf(todo[p] \ prep[p]) ELSE {}

NextToPrepare(p) ==
    IF Cardinality(prep[p]) < MaxInFlight THEN LeastOf(todo[p] \ prep[p]) ELSE {}

\* prepare, up to the point where SubmitAsync may block.
Prepare(p) ==
    /\ stage[p] = "submit"
    /\ ~Hurry
    /\ \E o \in NextToPrepare(p) :
          IF o \in Poison[p]
          THEN /\ prep' = [prep EXCEPT ![p] = @ \cup {o}]
               /\ UNCHANGED stage
          ELSE /\ stage' = [stage EXCEPT ![p] = "parked"]
               /\ UNCHANGED prep
    /\ UNCHANGED <<run, offsets, todo, handed, failing, emitter, batcher>>

Submit(p) ==
    /\ stage[p] = "parked"
    /\ Len(queue) < MaxQueue
    /\ \E o \in NextToPrepare(p) :
          /\ queue' = Append(queue, [part |-> p, at |-> o, live |-> TRUE])
          /\ prep' = [prep EXCEPT ![p] = @ \cup {o}]
    /\ stage' = [stage EXCEPT ![p] = "submit"]
    /\ UNCHANGED <<run, offsets, todo, handed, failing, emitter, outcome, applied>>

\* Mutant of SubmitCut: the submission that was cut short is passed over, and
\* the record behind it gets on the queue.
SubmitCutPassedOver(p) ==
    /\ stage[p] = "parked"
    /\ Hurry
    /\ Len(queue) < MaxQueue
    /\ \E o \in NextToPrepare(p) :
          \E r \in LeastOf(todo[p] \ (prep[p] \cup {o})) \ Poison[p] :
             queue' = Append(queue, [part |-> p, at |-> r, live |-> TRUE])
    /\ stage' = [stage EXCEPT ![p] = "collect"]
    /\ UNCHANGED <<run, offsets, todo, prep, handed, failing, emitter, outcome, applied>>

\* The submission is cut short: by the deadline, which is no error, or by the
\* shutdown, which is one.  Either way nothing behind it is submitted.
SubmitCut(p) ==
    /\ stage[p] = "parked"
    /\ Hurry
    /\ failing' = [failing EXCEPT ![p] = stopping]
    /\ stage' = [stage EXCEPT ![p] = "collect"]
    /\ UNCHANGED <<run, offsets, todo, prep, handed, emitter, batcher>>

AllSubmitted(p) ==
    /\ stage[p] = "submit"
    /\ NextToPrepare(p) = {} \/ Hurry
    /\ stage' = [stage EXCEPT ![p] = "collect"]
    /\ UNCHANGED <<run, offsets, todo, prep, handed, failing, emitter, batcher>>

-----------------------------------------------------------------------------
(* Collecting outcomes, and finish.                                        *)

NextToCollect(p) == LeastOf(prep[p] \ handed[p])

\* The publications finish hands off.  A panic in the middle adds a dead
\* letter to what is already on its way.  Bound: a publication is not handed
\* off while one of the same name from an earlier pass is unanswered.
Issues(p, o) ==
    IF o \in Poison[p] THEN {{PoisonSlot(p, o)}}
    ELSE {1..Outputs[p][o]}
           \cup (IF o \in Panics[p]
                 THEN {1..k \cup {PoisonSlot(p, o)} : k \in 0..Outputs[p][o]}
                 ELSE {})

HandOff(p) ==
    /\ stage[p] = "collect"
    /\ \E o \in NextToCollect(p) :
          /\ o \in Poison[p] \/ outcome[p][o] = "applied"
          /\ \E ks \in Issues(p, o) :
                LET xs == {<<p, o, k>> : k \in ks} IN
                /\ xs \cap orphans = {}
                /\ flying' = flying \cup xs
          /\ handed' = [handed EXCEPT ![p] = @ \cup {o}]
    /\ UNCHANGED <<run, offsets, stage, todo, prep, failing, failed, orphans,
                   leftover, landed, batcher>>

\* The outcome is an infrastructure error.
OutcomeFails(p) ==
    /\ stage[p] = "collect"
    /\ \E o \in NextToCollect(p) : o \notin Poison[p] /\ outcome[p][o] = "error"
    /\ failing' = [failing EXCEPT ![p] = TRUE]
    /\ stage' = [stage EXCEPT ![p] = "confirm"]
    /\ UNCHANGED <<run, offsets, todo, prep, handed, emitter, batcher>>

\* All are collected, or the next outcome does not come in time.
CollectEnds(p) ==
    /\ stage[p] = "collect"
    /\ \A o \in NextToCollect(p) :
          o \notin Poison[p] /\ outcome[p][o] = "none" /\ Hurry
    /\ stage' = [stage EXCEPT ![p] = "confirm"]
    /\ UNCHANGED <<run, offsets, todo, prep, handed, failing, emitter, batcher>>

-----------------------------------------------------------------------------
(* confirm, and the end of a pass.                                         *)

NextToConfirm(p) == LeastOf(handed[p])

\* The publication of o that Wait is at: the first one not acknowledged.
Awaited(p, o) ==
    {x \in flying \cup failed : /\ x[1] = p /\ x[2] = o
                                /\ \A y \in flying \cup failed :
                                      y[1] = p /\ y[2] = o => x[3] <= y[3]}
Mine(p) == {x \in flying \cup failed : x[1] = p}

MarkDone(p, o) ==
    /\ tracker' = [tracker EXCEPT ![p] = Done(@, o)]
    /\ todo' = [todo EXCEPT ![p] = @ \ {o}]
    /\ prep' = [prep EXCEPT ![p] = @ \ {o}]
    /\ handed' = [handed EXCEPT ![p] = @ \ {o}]
    /\ outcome' = [outcome EXCEPT ![p][o] = "none"]
    /\ UNCHANGED <<run, pos, committed, stage, failing, emitter, queue, applied>>

\* Mutant of Confirm: handing off is taken for acknowledgment.
ConfirmHandedOff(p) ==
    /\ stage[p] = "confirm"
    /\ \E o \in NextToConfirm(p) : MarkDone(p, o)

Confirm(p) ==
    /\ stage[p] = "confirm"
    /\ \E o \in NextToConfirm(p) : Awaited(p, o) = {} /\ MarkDone(p, o)

\* Nobody waits any longer for what the pass has under way.  taken is the
\* failure a Wait has returned: it alone leaves the emitter's tracking.
EndPass(p, taken, next) ==
    /\ stage' = [stage EXCEPT ![p] = next]
    /\ prep' = [prep EXCEPT ![p] = {}]
    /\ handed' = [handed EXCEPT ![p] = {}]
    /\ failing' = [failing EXCEPT ![p] = FALSE]
    /\ outcome' = [outcome EXCEPT ![p] = [o \in Log[p] |-> "none"]]
    /\ queue' = [j \in DOMAIN queue |->
                   [queue[j] EXCEPT !.live = @ /\ queue[j].part # p]]
    /\ flying' = flying \ Mine(p)
    /\ orphans' = orphans \cup (flying \cap Mine(p))
    /\ failed' = failed \ Mine(p)
    /\ leftover' = (leftover \/ (failed \cap Mine(p)) \ taken # {})
    /\ UNCHANGED <<run, offsets, todo, landed, applied>>

\* Mutant of WaitFails: the failure is returned and stays tracked.
WaitFailsUntaken(p) ==
    /\ stage[p] = "confirm"
    /\ \E o \in NextToConfirm(p) : \E x \in Awaited(p, o) \cap failed :
          EndPass(p, {}, "retry")

WaitFails(p) ==
    /\ stage[p] = "confirm"
    /\ \E o \in NextToConfirm(p) : \E x \in Awaited(p, o) \cap failed :
          EndPass(p, {x}, "retry")

\* No answer in time: no error, and nothing to retry.
WaitCut(p) ==
    /\ stage[p] = "confirm"
    /\ Hurry
    /\ \E o \in NextToConfirm(p) : Awaited(p, o) \cap flying # {}
    /\ EndPass(p, {}, "top")

PassEnds(p) ==
    /\ stage[p] = "confirm"
    /\ handed[p] = {}
    /\ EndPass(p, {}, IF failing[p] THEN "retry" ELSE "top")

\* After a pause the rest is retried, unless it would outlast the budget or
\* the process shuts down.
Retry(p) ==
    /\ stage[p] = "retry"
    /\ ~stopping
    /\ stage' = [stage EXCEPT ![p] = "top"]
    /\ UNCHANGED <<run, offsets, todo, prep, handed, failing, emitter, batcher>>

GiveUp(p) ==
    /\ stage[p] = "retry"
    /\ stage' = [stage EXCEPT ![p] = "left"]
    /\ UNCHANGED <<run, offsets, todo, prep, handed, failing, emitter, batcher>>

-----------------------------------------------------------------------------
(* Committing, and the life of the process.                                *)

CommitDue ==
    /\ pc = "post"
    /\ pc' = IF stopping THEN "final" ELSE "commit"
    /\ UNCHANGED <<stopping, expired, offsets, worker, emitter, batcher>>

NotYetDue ==
    /\ pc = "post"
    /\ ~stopping
    /\ pc' = "poll"
    /\ UNCHANGED <<stopping, expired, offsets, worker, emitter, batcher>>

CommitReturns ==
    /\ pc \in {"commit", "final"}
    /\ pc' = IF pc = "final" THEN "exited" ELSE "poll"
    /\ UNCHANGED <<stopping, expired, pos, worker, batcher, flying, failed, orphans,
                   landed>>

Requested == {p \in Partitions : Commitable(tracker[p]) # {}}

NothingToCommit ==
    /\ CommitReturns
    /\ Requested = {}
    /\ UNCHANGED <<tracker, committed, leftover>>

\* Flush: everything is answered, and a failure nobody took is reported once.
FlushReports ==
    /\ CommitReturns
    /\ Requested # {}
    /\ orphans = {}
    /\ leftover
    /\ leftover' = FALSE
    /\ UNCHANGED <<tracker, committed>>

\* Flush runs into its context.
FlushCut ==
    /\ CommitReturns
    /\ Requested # {}
    /\ stopping
    /\ orphans # {}
    /\ UNCHANGED <<tracker, committed, leftover>>

Flushed == Requested # {} /\ orphans = {} /\ ~leftover

Store(A) ==
    committed' = [p \in Partitions |->
                    IF p \in A THEN The(Commitable(tracker[p])) ELSE committed[p]]

Commit ==
    /\ CommitReturns
    /\ Flushed
    /\ Store(Requested)
    /\ tracker' = [p \in Partitions |->
                     IF p \in Requested
                     THEN MarkCommitted(tracker[p], The(Commitable(tracker[p])))
                     ELSE tracker[p]]
    /\ UNCHANGED leftover

CommitFails ==
    /\ CommitReturns
    /\ Flushed
    /\ \E A \in SUBSET Requested : Store(A)
    /\ UNCHANGED <<tracker, leftover>>

Stop ==
    /\ pc # "exited"
    /\ ~stopping
    /\ stopping' = TRUE
    /\ UNCHANGED <<pc, expired, offsets, worker, emitter, batcher>>

\* The process ends, in the middle of anything or after Run has returned, and
\* another begins at the committed offsets.  What was on the wire and arrives
\* after the end might as well have arrived just before it.
Restart ==
    /\ pc' = "poll" /\ stopping' = FALSE /\ expired' = FALSE
    /\ tracker' = [p \in Partitions |-> Tombstone]
    /\ pos' = committed
    /\ stage' = AllIdle
    /\ todo' = NoRecords /\ prep' = NoRecords /\ handed' = NoRecords
    /\ failing' = [p \in Partitions |-> FALSE]
    /\ outcome' = NoOutcome /\ queue' = <<>>
    /\ flying' = {} /\ failed' = {} /\ orphans' = {} /\ leftover' = FALSE
    /\ UNCHANGED <<committed, landed, applied>>

Exit == pc = "exited" /\ Restart
Crash == pc # "exited" /\ Restart

-----------------------------------------------------------------------------
Fault ==
    \/ Mismatch \/ CommitFails \/ Stop \/ Crash
    \/ \E x \in Publications \ Broken : Refuse(x)

Run ==
    \/ JoinWorkers \/ AbandonBatch \/ NothingToCommit \/ FlushReports \/ FlushCut
    \/ Commit \/ Exit

Worker(p) ==
    \/ Finish(p) \/ StartPass(p) \/ Prepare(p) \/ Submit(p) \/ SubmitCut(p)
    \/ AllSubmitted(p) \/ HandOff(p) \/ OutcomeFails(p) \/ CollectEnds(p)
    \/ Confirm(p) \/ WaitFails(p) \/ WaitCut(p) \/ PassEnds(p)
    \/ Retry(p) \/ GiveUp(p)

Outside ==
    \/ Serve \/ CloseCommand
    \/ \E x \in Publications : Acknowledge(x)
    \/ \E x \in Broken : Refuse(x)

Next ==
    \/ Fault \/ Run \/ Outside \/ Poll \/ PollEmpty \/ Expire
    \/ CommitDue \/ NotYetDue \/ \E p \in Partitions : Worker(p)

Spec == Init /\ [][Next]_vars

-----------------------------------------------------------------------------
(* Correctness.                                                            *)

\* A record is settled once its dead letter, or its result and a dead letter
\* for every event of it that was rejected, has been acknowledged.
Settled(p, o) ==
    \/ <<p, o, PoisonSlot(p, o)>> \in landed
    \/ /\ o \in applied[p]
       /\ \A k \in 1..Outputs[p][o] : <<p, o, k>> \in landed

settled == [p \in Partitions |-> {o \in Log[p] : Settled(p, o)}]

ALO == INSTANCE AtLeastOnce WITH settled <- settled, committed <- committed
\* A committed offset is never above a record whose outcome is neither in the
\* results nor in the dead-letter queue (confirm, Flush).
ImplementsAtLeastOnce == ALO!Spec

\* A record the process has read past is settled, or still pending in the
\* tracker of a live partition, so a rewind will find it.
ReadIsSettledOrPending ==
    \A p \in Partitions : \A o \in Log[p] :
       o < pos[p] => o \in settled[p] \/ o \in tracker[p].pending

\* Commands of a partition are applied for the first time in offset order,
\* whatever was retried, rewound or cut short, for as long as the process is
\* not shutting down (pass: "the application order within a partition must be
\* offset order").
FirstApplicationInOrder ==
    [][~stopping =>
          \A p \in Partitions : \A o \in applied'[p] \ applied[p] :
             \A r \in Log[p] \ Poison[p] : r < o => r \in applied'[p]]_vars

\* A record whose publication fails again and again keeps its own partition
\* from moving and no other ("one persistently failing record would fail
\* Flush forever, and along with it the commit of every other partition").
\* The budget is taken to suffice for partitions without such a record, and
\* not to end in the middle of a pass, for ever.
Healthy(p) == PublicationsOf(p) \cap Broken = {}

BudgetTooShort ==
    /\ Expire
    /\ \E p \in Partitions :
          IF Healthy(p) THEN stage[p] # "idle"
          ELSE stage[p] \notin {"idle", "top", "retry", "left"}

OthersCommit ==
    (<>[][~Fault /\ ~BudgetTooShort]_vars) =>
       \A p \in Partitions : Healthy(p) => <>(\A o \in Log[p] : o < committed[p])

\* A poll that brings records of p.
PollOf(p) == Poll /\ pos'[p] # pos[p]

Fairness ==
    /\ WF_vars(Run) /\ WF_vars(Expire) /\ WF_vars(PollEmpty \/ NotYetDue)
    /\ WF_vars(Serve) /\ SF_vars(CommitDue)
    /\ \A x \in Publications : WF_vars(Acknowledge(x) \/ Refuse(x))
    /\ \A p \in Partitions : WF_vars(Worker(p)) /\ SF_vars(PollOf(p))

FairSpec == Spec /\ Fairness
=============================================================================
