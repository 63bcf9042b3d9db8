# A verification project for kafka-tb

kafka-tb moves commands from Kafka into TigerBeetle and changes of TigerBeetle
back into Kafka. This directory holds TLA+ models of the parts of it where a
mistake would lose, repeat or reorder money movements without any test noticing,
the TLC configurations that check them, and TLAPS proofs of the most important
results for every size of the system.

Paths below are relative to the repository. `map` in `PROJECT.json` names the
source lines behind every definition, `hazards` what each property is for.

## 1. The system

### Parts, their state and their operations

| Part | State | Operations | Where |
|---|---|---|---|
| Offset tracker | per partition: pending, done, committed, lowest, highest, forgotten | Track, Done, Commitable, RewindPoint, MarkCommitted, Forget, CommitLag | `internal/sink/offsets.go` |
| Sink, outer loop | the poll in hand, fetch positions (in the client), `commitMu`, last commit time | Run, processBatch, abandonBatch, commit, OnRevoked | `internal/sink/sink.go` |
| Sink, partition workers | records of one partition of a batch and how far each got | runPartition, pass, prepare, finish, confirm, backoff | `internal/sink/sink.go` |
| Batcher | queue, accumulated batch, linger timer, `stop` and `finished` channels | SubmitAsync, watchLate, loop, call, flush, drain, settle, Close | `internal/tbx/batcher.go`, `outcome.go` |
| Emitter | publications in flight, set of failed ones not yet taken | DLQ, Results, Wait, take, Flush | `internal/emit/emitter.go` |
| CDC job | the cursor | Run, publish, ascending | `internal/cdc/job.go` |
| Cursor recovery | none: reads partition tails | Resume | `internal/cdc/cursor.go` |
| Event rendering | a reusable buffer | Encoder.Record | `internal/cdc/message.go` |
| Command decoding | none | Decode, checkDepth | `internal/codec` |
| Amounts, ids, registry | the registry of ledgers and codes, read only | ParseAmount, FormatAmount | `internal/model` |
| Configuration | none | Load, validate | `internal/config` |
| Health and metrics | a cached readiness answer, counters | checkReady, Serve | `internal/obs` |
| Process lifecycle | signal, the running service | runUntilSignal, startSink, startCDC | `cmd/kafkatb/main.go` |
| Load generator | - | benchmark only | `cmd/loadgen` |

### How they interact

`Run` polls the Kafka client, tracks the records, hands each partition's records
to a worker and joins the workers. A worker decodes its records, submits commands
to the batcher asynchronously, waits for the outcomes in offset order, has the
emitter publish results and dead letters, waits for the acknowledgements and
calls `Done`. `Run` then lets the client rebalance and, when it is due, commits
what the tracker says is finished, after a `Flush` of the emitter. The client
calls `OnRevoked` on a goroutine of its own; it too commits, and then forgets the
partitions. Only `commitMu` and `BlockRebalanceOnPoll` stand between the two.

The batcher's loop is the only caller of TigerBeetle on this side. Its queue is
filled by all workers; shutdown comes from a cancelled context, from `Close`, or
from both.

The CDC job shares nothing with the sink. It queries TigerBeetle for the events
after its cursor, writes them to its own topic, and keeps the cursor nowhere but
in the records it writes.

### What is hard

- two goroutines committing from one tracker, while partitions come and go;
- snapshots used after a round trip to the broker; commits that fail in part or
  whose answer is lost; processes dropped from the group that do not know it;
- crashes between applying, publishing, marking done and committing;
- a batch that runs out of time, is forgotten and is read again;
- submissions that meet a shutdown at every possible point, with three goroutines
  entitled to empty the queue;
- CDC windows cut short by crashes, producers whose records land after their
  death, and several jobs writing one topic;
- a shutdown with several ways down, signals that race failures, and a readiness
  call that cannot be cancelled;
- conversions at the edge of a number's width, and buffers reused while records
  rendered into them are in flight.

### What makes each part correct

- *Tracker*: what it hands out for commit never covers an unfinished record, and
  reaches the end once all that is tracked is finished; what it hands out for a rewind
  is the first unfinished record.
- *Sink*: no record below a committed offset is unprocessed, whoever committed it;
  a record read and not finished is still in somebody's hands; once the trouble
  ends, everything is processed and committed.
- *Batcher*: exactly one answer per command it has let go of, an honest one, from its own events, in
  submission order; nobody waits forever.
- *CDC*: every checkpoint in the topic is true; the job's cursor does not go back;
  every event is published in the end.
- *Workers and emitter*: a record is done only when what it must publish is
  acknowledged; commands of a partition are first applied in offset order; one
  failing record does not keep other partitions from committing.
- *Process and readiness*: nothing is closed under the work that needs it; the exit
  status tells the truth; every shutdown ends; readiness is no older than the call that a
  request joined, and is not paid for with a goroutine per request.
- *Configuration, decoding, rendering*: what the limits admit fits a batch; an amount
  accepted is the amount written; what the CDC job writes about a transfer, the decoder
  would read as that transfer; the bytes of a record do not change until it is
  acknowledged.

## 2. Modules

| Module | Models | Its state and actions against the code |
|---|---|---|
| `Offsets` | `offsets.go` | One record per partition with the fields of `partitionState`; an operator per method. A partition absent from the code's map is a `Tombstone`, which every method treats alike. Leader epochs are left out. |
| `OffsetTracker` | the tracker under any sequence of calls | `st` and the offset between `Commitable` and `MarkCommitted`, plus what the calls so far say (`tracked`, `finished`) as reference. |
| `AtLeastOnce` | abstract: what the sink promises | `settled` and `committed`; a commit may only stand where all below it is settled. Offsets may go back. Of `CommitProtocol`, where settling is one step, this says what `NoLoss` says; it is there because `Sink`, where settling is many, implements the same specification. |
| `CommitProtocol` | `Run`, `processBatch`, `abandonBatch`, `commit`, `OnRevoked`, the group | see below |
| `Sink` | `runPartition`, `pass`, `prepare`, `finish`, `confirm`, and `emitter.go` | see below |
| `Batcher` | `batcher.go`, the windows of `outcome.go` | see below |
| `Cdc` | `job.go`, `cursor.go`, `startCDC` | see below |
| `Health` | `checkReady` of `obs/health.go` and the checks of `main.go` | see below |
| `Process` | `runUntilSignal`, `run`, `startSink`, `startCDC`, `Serve` | see below |
| `Amounts` | `model/amount.go` | `ParseAmount` and `FormatAmount` on sequences of digits, with both of their paths, loop by loop; `Denotes`, which weighs each digit by its place, is the reference. |
| `Registry` | `model/registry.go`, `model/id.go` | names of ledgers, codes and flags in both directions; a set of bits for a flag word. |
| `Config` | `config.Load`, `validate` | a raw configuration in, none or one out. |
| `Decoder` | `jsonc/decoder.go`, the parser easyjson generated for it | `checkDepth` byte by byte (`scanByte`), five classes of bytes; `Quoted`, `Bracket` and `Joined` are how JSON texts are made and how deep they nest, the reference. `Unmarshal` over a list of fields, with repeated keys and `null`. |
| `Encoder` | `Encoder.Record` of `cdc/message.go` | the message an event becomes, its key, and the gaps that are reported. |
| `Vocabulary` | the way of one message through all five, and `marshal` | see below |
| `CommitProtocolProofs`, `OffsetTrackerProofs`, `SinkProofs`, `BatcherProofs`, `CdcProofs`, `ProcessProofs`, `AmountsProofs`, `VocabularyProofs` | theorems | section 5 |
| `MC*` | instances for TLC | section 3 |

**CommitProtocol.** `pc[c]` is where the goroutine of `Run` stands: polling,
tracking, with the workers, after `AllowRebalance` ("post"), in the periodic or in
the final commit. `commit` is cut where the code leaves its own memory: taking
`commitMu` and the snapshot (`CommitBegin`), `Flush`, the request, `MarkCommitted`.
`OnRevoked` is `Callback`, the same commit with `who = "revoke"`, and one
`ForgetRevoked` per partition, which the code does outside the mutex. `Settle` is
the whole processing of one record by its worker, up to the last acknowledgement;
`Confirm` is the `Done` that follows, in offset order. `AbandonBatch` rewinds and
forgets in one step: nothing else looks at the tracker while the rebalance block
is held. External: assignment, fencing and rejoining, and what the coordinator
does with a commit (all of it, some of it, or all with the answer lost). A process
the coordinator has dropped goes on working until it notices; `member` says
whether its commits are accepted.

**Sink.** The step `Settle` of `CommitProtocol` in full, for one process and without
rebalances (no callback runs during a batch). Each partition has a worker: `stage[p]` is
its place in `runPartition` (top, retry, left) and `pass` (submit, parked in
`SubmitAsync`, collect, confirm); `todo`, `prep` and `handed` are the slices `recs`, `prep`
and `issued`, as sets, since records are taken in offset order. The batcher is reduced
to what module `Batcher` shows its users: a bounded queue, served in order, one answer
each, `ErrClosed` only after a stop. Publications are in the set `flying` until
`Acknowledge` or `Refuse`; `failed` and `leftover` together are the emitter's `untaken`:
failures a `Wait` may still take, and whether there are others. `EndPass` is every return
of `pass`: what is under way becomes an orphan. `settled` is not a variable here but
derived: the dead letter of the whole record, or its application with its result and
the dead letter of each rejected event, has been acknowledged. `Broken` names
publications the broker always refuses (a dead letter too large for its topic, say).
`commit` is one step, as nothing interferes with it in this setting; its interleavings
are in `CommitProtocol`. Bound: a publication is not handed off again while the one of an
earlier pass is unanswered.

**Batcher.** A channel that is closed is a Boolean, a `select` a choice among the
cases that are ready. `SubmitAsync` is `Enter` (size checks, first look at `stop`),
`Enqueue`/`TurnAway`/`CallerGone` (its select) and `HandBack` (the second look,
which decides whether `watchLate` stands between the caller and `j.done`). The loop
is `Receive`, `Tick`, `SeeStop` and the call with its retries; `held` is the command
already received when the batch in front of it has to be flushed. The loop's drain,
the watcher of `Start` and `Close` all empty the queue (`DrainOne`). `Chained` is the
clearing of the last linked flag of each command; `OutcomesOf` the window
arithmetic. External: `Answer`, which rejects a chain when one of its events is
rejected, and that TigerBeetle may have applied a call that reported an error.

**Cdc.** An event is its timestamp, a record is the event and the checkpoint it
claims. `Query` is the answer accepted by the order check, with all but the last
event produced; `Close` produces the last one after all others are acknowledged;
`Advance` moves the cursor. `Scan` reads one tail at a time. A process that fails or
dies leaves records that may still land (`ghosts`). `Obscure` stands for retention
and for records the job cannot read. The cursor wraps at `MaxTimestamp`, as
`checkpoint+1` does in the code's unsigned type.

**Process and Health.** `pc` is where the main goroutine stands: building a part, in
`g.Wait`, in the stop functions. A part is open, on its way to being closed, or
closed; `StopOrder` is the order of the deferred calls and of `startSink`'s `stop`. The
sink's `Run`, the batcher's loop, the CDC job and the metrics server are goroutines of
which only what a shutdown waits for or could pull the ground from is kept: a batch, a
call, a query, a publication. A signal is `FirstSignal`, then `RestoreDefault` (the
goroutine that calls `stop`), after which `SecondSignal` kills. `failed` is a history
variable: what really failed, and so what an honest exit status reports. A failure of the
metrics listener is two steps, as in `Serve`: `ListenAndServe` returns (`ListenFails`, `serve` is
"broken"), and the `select` takes its error (`ServeFails`) or, if the context is cancelled too,
may take that instead (`ServeStops`; the failure is then "missed"). `Shutdown` ends when the
requests have, at its deadline (`Drained`), or with another error (`DrainFails`). `Health`
holds the readiness requests: `inFlight` and `call` are the fields of that name,
`ReadyCall` is the goroutine `checkReady` starts. Two history variables say how old an
answer may be: `held` has the checks that held at some moment since the running call
started, `seen` those that held while a request waited, or since the start of the call it
joined, if that was still running. `consumer.Close` waits for a batch,
since the client is built with `BlockRebalanceOnPoll`.

**Vocabulary.** One configuration is loaded, one message decoded against it, its
transfers become events as TigerBeetle would report them (external), or events come
from somewhere else (`Windows`), and the encoder renders them. `marshal` is
`MarshalBegin` (the writer appends to the scratch buffer and chains pooled chunks behind
it) and one of `CopyOut`, `BuildBytes`, `MarshalFails`; `mem` says what each buffer holds,
so that a body which shares a buffer changes when the buffer is written. The emitter's
`Results` takes and returns buffers of the same pool in between (`OtherTakes`,
`OtherGives`). `Buffers` bounds the allocations: a step that needs a new one waits until
one is free, which in the run never happens. `IsConfig`, `IsPayload` and `IsWindow` say what
Go's types say of the inputs; `IsEvent` adds what TigerBeetle guarantees of a change event: ids are
not 0, and a transfer that posts or voids names the pending one.

## 3. Runs

All runs finish well within five minutes on two cores.

| Run | Question | Result |
|---|---|---|
| `tracker` | Tracker under any calls, in any order, over offsets with a gap | holds |
| `commit` | One process, two partitions, every fault: `NoLoss`, `NothingStranded`, `TrackedAboveCommitted`, `LagIsBacklog`, the refinement of `AtLeastOnce`, and `EventuallyDrained`: after the last fault everything is settled and committed | holds |
| `foreign_commit` | Does a process commit only partitions nobody else reads? | **violated**, finding 1 |
| `sink` | One partition through cut budgets, failures, retries, rewinds, panics, shutdown and crashes: `ReadIsSettledOrPending`, `FirstApplicationInOrder`, refinement of `AtLeastOnce` | holds |
| `sink_others` | `OthersCommit` when one dead letter of a record is refused for ever | holds |
| `sink_starved` | The same with two dead letters of one record | **violated**, finding 2 |
| `cdc` | `NoGap` with two jobs, ghosts, obscured tails, an override, answers out of order that leave events out, and the cursor's wrap | holds |
| `cdc_alone` | A job left alone in its topic: `CursorNeverRegresses`, `EveryEventPublished` | holds |
| `batcher` | One honest answer, order, batches of one operation within the limit, transparency of batching | holds |
| `batcher_live` | Nobody hangs: `EveryoneAnswered`, `CloseReturns` | holds |
| `process` | Start, failures, signals, readiness and shutdown: `NothingClosedUnderWork`, `HonestStatus`, `OneCallOutstanding`, `NoStaleReadiness`, `ShutdownCompletes` | holds |
| `vocabulary` | From the configuration file to the record on the wire: `OldConfigLoads`, `CommandFits`, `AmountExact`, `DepthExact`, `OneVocabulary`, `BodiesIntact` | holds |

### Bounds, and why they are enough

- *tracker*: offsets `{0, 1, 2, 4}`. 0 is Go's zero value, which a revived partition
  must not be judged by; the gap makes `w - 1 \in done` differ from "the record
  before w"; four records allow a finished one on both sides of a pending one.
- *commit*: logs `{1, 2, 4}` and `{0}`. Three records are needed for a record to finish
  behind a pending one and for a snapshot to fall between two others; the second
  partition is there for commits that are stored in part and for a rewind of one
  partition out of two.
  Handovers between processes are in the theorems (section 5), which hold for any
  number of them; `foreign_commit` has two processes.
- *sink*: two adjacent commands (a rejected one with two publications, and one with one
  whose handling may panic) and, behind a gap, a poison record; two in flight. The two commands
  meet in one pass and on the queue, so that a submission is cut with the next record ready to
  be submitted, and a retry starts from the middle of a run; the third record makes a pass
  full, short, and one that starts behind a finished record. In this program a submission fails
  only by the deadline or by the shutdown (a closed batcher, a cancelled context), so the
  branch of `pass` for other failures (`sink.go:390`) is the one that stops, `SubmitCut` with
  `stopping`. `sink_others` and `sink_starved` need only
  one record in each of two partitions: what they ask is what one worker's failures do
  to the other partition's commit.
- *cdc*: an answer is any sequence of events up to the limit, of which only one in order is
  taken to leave none out. Three events on two partitions, two in one of them, windows of two, so that a
  window spans both partitions and a job needs more than one window. `MaxTimestamp`
  is 3, so the last event is the largest timestamp and the cursor wraps. At most two
  ghosts at a time: one to overwrite the tail of each partition. `--timestamp-last`
  is 2, in the middle of the events.
- *batcher*: batches of three events; one command that ends in an open chain, one
  two-event chain whose last event is rejected, one of the other operation: each
  reason to flush early occurs and so do full batches. `batcher_live` has a queue of
  one, so that submissions block, and a command that fits no batch.
- *process*: the sink alone, the CDC job alone and both. Two readiness requests (`Visits`)
  where the job runs alone, one beside the sink, which is asked again and again and joins what
  it left in flight, none with both, where the endpoint is the same as beside the sink. Two are
  enough for a request to join another's call and for one to time out before the next. One name for a call more than
  there are requests, so that a second call could always be started beside the first.
- *vocabulary*: `MaxSmall` = 127 stands for the largest 64-bit number and `MaxBig` = 16383
  for the largest 128-bit one, scales up to 2, so that a power of ten, a product and a sum
  each cross both widths; amounts are all numbers around those edges with the dot
  in every place. Batches of 3, windows of 2, an in-flight default of 4, so that queues
  and batches lie on both sides of the default. A scratch buffer holds 2 pieces, so that
  a message fits, outgrows it, and fits the one that replaces it; at most 2 pooled and
  12 buffers in all, more than a run needs.

### Deadlock and fairness

The batcher really may stop (everything answered, loop gone), and `vocabulary` ends
when its window is published, so these runs do not check for deadlock; all others do.

`commit` assumes, for `EventuallyDrained`, that goroutines run (weak fairness of the steps that finish a batch,
a commit or a callback), that the publications of a record are acknowledged in the
end (weak fairness of `Settle`; the worker retries until they are), that a dropped
member rejoins and partitions are assigned (external), and strongly: a poll that
could return records again and again does return some (the broker answers within the
poll's timeout), the commit interval elapses again and again (a ticker in the code:
`commitTicker` fires whatever the loop does), and the callback goroutine gets the mutex and
the gap between two polls. Faults are not fair: the property speaks of behaviours in
which they end.

`batcher_live` assumes that goroutines run, that a call which is repeated forever
succeeds in the end (strong fairness of `CallOk`; the code retries without limit),
and that Go's `select` chooses at random among ready cases and channels serve blocked
senders in turn, which makes `SeeStop`, `Tick` and `Enqueue`/`TurnAway` strongly fair.

`sink_others` and `sink_starved` assume that goroutines run, that the batcher serves and
the broker answers (it may refuse what is in `Broken`), that time passes (`Expire`), and
strongly that records of each partition are polled and that commits come due again and
again. `OthersCommit` is about behaviours in which other faults end and the budget is
in the end long enough: for healthy partitions, and for a pass under way to get its
answers. The last part matters. A pass cut by the deadline also leaves a failure nobody
takes, and if every batch ended that way, one refused publication would be enough to
starve all commits.

`cdc_alone` assumes only that the job takes its steps.

`process` assumes that each goroutine runs, and strongly that the batcher's loop sees
`stop` (its `select` picks at random among ready cases) and that `consumer.Close` gets to leave
the group while the sink goes on polling (the Kafka client holds back polls while a rebalance or
a departure waits for `AllowRebalance`). TigerBeetle is not assumed to
answer; `ShutdownCompletes` is about behaviours in which it does from some time on,
because `Batcher.Close` waits for its call without a bound. The readiness call need
never return, and signals need not come.

## 4. Findings

1. **A stale snapshot commits a partition that has moved** (`foreign_commit`). `Run`
   commits after `AllowRebalance`, and `OnRevoked`'s `Forget` is not under `commitMu`.
   The comment at `sink.go:786` says the rebalance block prevents committing someone
   else's partitions; it does not cover this. `NoLoss` is proved all the same: the
   stale offset was safe when taken and settled records stay settled, so the price is
   records processed twice.
2. **A record with two failing publications keeps every partition from committing**
   (`sink_starved`). `confirm` returns at the first failure, so the others of that record
   are never taken; `Flush` reports them and the commit is given up, in every round. The
   comment on `take` (`emitter.go:89`) describes this very danger for one failing record
   as averted. `sink_others` shows that it is for one failing publication.

Some more observations, not runs. `ascending` (`job.go:255`) says it checks a "strictly
ascending, timestamp-ordered prefix"; it checks the order. That an answer in order leaves
no event out is trusted, and so it is in `Answers`; one out of order may leave out any. And after `stop` the batcher answers a failed batch
with `ErrClosed` and still sends the command it already holds, so that "the application
order matches the Submit order" (`batcher.go:43`) holds only until then, which is how
`OrderWhileRunning` is worded. The comment on `run` (`main.go:228`) says that shutdown will
"flush and close the DLQ/results producer"; `emitter.Close` (`emitter.go:266`) closes it, and
nothing flushes it there. It makes no difference to at-least-once: what was not
acknowledged was not committed. A ledger or code without a name is rendered as its number
(`message.go:325`), so that an unknown ledger 7 reads like one that is named "7". The
configuration may name a ledger so; `OneVocabulary` holds where none is (`NamesAreNotNumbers`). A failed `startCDC` runs the
sink's stop function while the sink is not cancelled. `NothingClosedUnderWork` holds there
because `consumer.Close` waits for the batch, and the poll that follows finds the client closed; but
`AllowRebalance` comes before Run's own commit, which can then find the producer closed. That
one commit is excepted in the property; what it may commit was marked done, and so
acknowledged, before. Nor does the property speak of the readiness call,
which may ask a TigerBeetle client that is closed: it outlives the server by design. And when
the metrics listener fails at the moment a signal arrives, the `select` of `Serve` may take the
signal (`health.go:165`): the process then exits clean although the listener failed, the one
failure besides an interrupted scan that `HonestStatus` allows to go unreported.

## 5. Proofs

Checked by TLAPS for any finite or infinite sets of processes, partitions, events,
instances and commands, any logs, limits and batch sizes. Every inductive invariant below was
first checked by TLC on the instance of its component's run.

| Module | Theorems | From |
|---|---|---|
| `CommitProtocolProofs` | `TypeCorrect`, `Invariant`, `NoRecordLost`, `NoRecordStranded`, `Refinement`, `CommittedIsFloor`, `LagIsHonest` | `LogAssumption`: offsets are natural numbers |
| `OffsetTrackerProofs` | `TrackerInvariant`, `PrefixOnly`, `NothingHeldBack`, `RewindIsExact` | offsets are natural numbers |
| `SinkProofs` | `SinkTypeCorrect`, `NothingForgotten`, `AppliedInOrder`, `SinkRefinement` | the assumptions of `Sink` on its constants |
| `BatcherProofs` | `BatcherTypeCorrect`, `AnsweredOnce`, `ClosedNeverLies`, `OrderKept`, `BatchesWellFormed`, `BatchingIsTransparent` | the assumptions of `Batcher` |
| `CdcProofs` | `CdcInvariant`, `CdcTypeCorrect`, `TopicHasNoGap`; `CursorMonotone` | `CdcAssumption`; for the last also `Alone` |
| `ProcessProofs` | `ProcessInvariant`, `ProcessTypeCorrect`, `ClosedInOrder`, `StatusIsHonest`, `OneReadyCall`, `HealthInvariant`, `ReadinessIsFresh` | `CallsAssumption`: finitely many readiness requests, and one name for a call more |
| `AmountsProofs` | `ParseExact`, `RoundTrip` | `WidthAssumption`: the tables of powers are exact in the narrow width, which is below the wide one |
| `VocabularyProofs` | `VocabularyInvariant`, `VocabularyTypeCorrect`, `OmissionIsSafe`, `DecodedFits`, `BodiesNeverOverwritten`, `AmountsAreExact` | the same, `LimitAssumption`, `ScaleAssumption` (a scale that validates is an index of the tables), `TimeoutAssumption`, `BufferAssumption`, `InputAssumption`: the inputs are as Go types them |
| | `DepthsAreExact` | also `TextsAreJSON`: payloads are built as JSON texts are, and carry the depth so defined |
| | `VocabularyIsShared` | also `NamesAreNotNumbers`: no ledger and no code has a number for a name (section 4) |

**The commit protocol.** `NoLoss` speaks only of the broker. To be preserved by `SendOk` it
needs that the snapshot on its way is safe (`SnapshotSafe`); for that the watermark must be safe
when taken, so that a done record must be settled (`DoneIsSettled`) and a record below the
watermark that the tracker does not know must be settled as well. That last fact is
`NothingStranded`: what was read past and is not settled is fetched or pending. It
holds over a revocation only because a state that tracks anything belongs to an owned
partition (`TrackedIsOwned`, `TrackedIsRead`), which in turn needs that no callback
strikes while a poll is in hand (`BlockHolds`). The mutants of `RebalanceBlocked` and
`ForgetRevoked` show that neither can be dropped.

**The committed floor and the lag gauge.** A tracker's `committed` moves by `MarkCommitted`,
which applies a snapshot taken long before. The invariant (`CommitFloor`) therefore speaks of the
snapshot too: in a partition that is not forgotten, the committed offset lies at or below all that
is tracked or fetched and below the fetch position, and so does a snapshot on its way, as to what
is pending. That a snapshot cannot outlive its partition's state and meet a new one at a lower
position is where `IndInv` is needed. `CommitLag` computes from `lowest`, `highest` and `committed`
alone; `GaugeInv` says that these bound the backlog on both sides, that the highest is in
it unless it is empty, and that an empty one is committed to its end (`Gauged`). The last needs that
a snapshot which meets nothing pending covers all that was tracked (`SnapshotCovers`).

**The tracker.** `TrackerInv` ties the code's fields to the history of calls (`MatchesCalls`): the
pending records are those tracked and not finished in this life, only tracked ones are done, a
finished one that no commit covers is, and an offset handed out is above the committed one
it will replace. The last is what keeps a late `MarkCommitted` from moving backwards.

**The sink.** `SinkInv` follows a record. What was read and is neither settled nor pending does
not exist (`Tracking`); what a finish handed off has its publications under way, failed or
acknowledged (`Publishing`), so that a `confirm` that saw no failure marks a settled record done.
Orphans of earlier passes may still land, which only settles more. `InOrder` is about the
queue: until the shutdown a command stands behind every earlier one of its partition that
was never applied. It survives a retry because a pass starts at the first unfinished
record, so what it submits again was applied or is submitted before it. Then the refinement:
`Commitable` hands out an offset with nothing unsettled below it. One fact about the world is
stated in `Poll`: what it returns has a greatest offset.

**The batcher.** What is accepted and not answered is the end of the submission order, cut into the
batch, the command in hand and the queue (`Pipeline`); everything before it is answered, once
(`Answered`). TigerBeetle has applied nothing of the queue, and of the batch all or nothing, all
only after a call that failed (`Applied`); until the stop nothing was passed over
(`NoneSkipped`). `AnsweredOnce` is `Answered` read with `InHandIsRest`: what is in somebody's hands is
what lies behind the answered part of the order, and nothing else. `ClosedIsHonest` then needs to know who may say closed and when (`Phases`,
`Honest`). For `BatchingTransparent` the events of a batch are located by `FlattenSeq`: a command's
window starts where the events before it end, and no chain crosses that place since `Chained`
cleared the flag, so `Answer` sees the same chain as if the command were alone.

**Change data capture.** `NoGap` is about claims in the topic; they get there from a window or from
a ghost. So the invariant adds that a ghost claims too much by no more than its own event
(`GhostsTruthful`), and that a window leaves out nothing between the cursor and its
last event, of which everything but the last is published or in flight, and all of
it before the closing record is produced (`WindowWhole`). `CursorMonotone` is about a job `Alone`, as
the run `cdc_alone` has it: one instance, no override, no retention that hides a tail,
nothing of an earlier life that lands late, and no event at the largest timestamp, after which
`checkpoint+1` wraps. `Memory` says that the tails hold a claim as high as the cursor; during a scan it
is among what was found or what is still to be read.

**The process and readiness.** `Supported` says what rests on what: the batcher's loop on an open
batcher, the batcher on the client, a batch on the consumer, the consumer on the producer, the CDC
job on a main goroutine that has not left `g.Wait`. `SinkSupported` adds that the sink runs on an
open consumer unless `startCDC` has failed beside it, which needs to know what each kind of process
has started by when. The stop functions keep it because each closes a
part only when nothing above it is up (`StopsClient` and its two siblings). `Accounted` follows every
failure from where it happens to the error `run` returns; it needs that no goroutine of the group
can fail any more once the main goroutine is in the stop functions, which is in `Supported`.
`RegisteredCall`: a call that runs is the one `inFlight` points at. `HealthInv` adds that a
waiting request has witnessed what its call found out and what holds now (`Witnessed`). A
request that joins a call late takes over what the call has been there for, which is what it has
found out so far (`Attended`). That a free name for a new call exists is a
count: fewer requests than names.

**Configuration, decoding, rendering.** `OmissionIsSafe` compares two files that differ in one key:
the clamped default lies in the range the given value lies in. `DecodedFits` follows a payload
through the parser, where the last of several lists counts, through the limit and the
clearing of the last flag. `BodiesNeverOverwritten` rests on `OneOwner`: every buffer belongs to the
encoder, the pool, the other goroutine or one record; and on `Rendering`: what the
chunks hold, put together, is the event at hand, one chunk or two.

**Amounts.** Both directions are compared with one number, the `Worth` of the digits before and
after the dot. `ParseExact`: the loop of `atoiUint64` computes `SetString` as long as that fits the
word, and its guard fails exactly when it does not; then no product or sum that `parseUint64` goes on to form
exceeds the word, so that no `Wrap` wraps; the big path reads the same digits followed by zeros; and what both compute is the
sum of the digits by their places, which is `Denotes`. `RoundTrip`: the digits of a quotient and of a
remainder, padded to the scale, are worth the number they were taken from. The counts of digits that
the two formatters compute differently (a loop of divisions, the length of a text) are the same.
`AmountsAreExact` carries `ParseExact` to every payload and every configuration that loads.

**Depth.** A text is a string, a byte that means nothing, the empty text, a text in brackets, or one
text after another (`TextSet`; a string's body is made of plain bytes and escaped pairs, `BodySet`). `DepthMeasured`:
scanning a text from any state outside strings brings the depth back to where it was, and `seen` to
the larger of itself and the depth plus the text's nesting. The early return of the
code is the comparison at the end, since `seen` never falls. `SomeText` shows that the definition is not empty: an
escaped quote in a string in brackets is a text.

**One vocabulary.** `TransferSpoken` takes the fields of a rendered event one at a time: ids that are
not 0 (`IdSpoken`), those that may be absent (`OptionalSpoken`), whole seconds (`TimeoutSpoken`), names with the
scale that goes with them (`LedgerSpoken`, `CodeSpoken`), the amount (`RoundTrip`), and the flags: `flagNames`
writes the name of each bit that is set and no other (`NamesOfBits`), the names of bits 0 to 7 are distinct and
accepted, those of the others are refused (`FlagsSpoken`). That a post or void names its pending transfer and nothing else
does is TigerBeetle's rule, in `IsEvent`; without it the decoder's pairing of flag and `pending_id` would refuse
such a record.

### Method

The library's induction rules take an operator and cannot be used here, but the least-element
principle (`WFMin`) takes a set, and from it follow induction for a property given as a set
(`SetInduction`) and the existence of least and greatest elements. With that, what
`FlattenSeq` computes is proved by its recursion. A loop of the code is a recursive function in the
model; that there is such a function, and so that its defining equation may be used, is proved by the same induction
(`LoopDefined`).

### Only model-checked

- Liveness under fairness: `EventuallyDrained`, `EveryEventPublished`, `EveryoneAnswered`,
  `CloseReturns`, `OthersCommit`, `ShutdownCompletes`. Out of this prover's reach.

Every safety property that a run checks and that holds is a theorem. TLC also evaluates the named assumptions on
the run's instance, but for `TextsAreJSON` and `NamesAreNotNumbers`, which speak of infinite sets; `MCVocabulary`
builds its texts with `Quoted`, `Bracket` and `Joined` from single bytes, and its names are words.

## 6. Not modelled

The load generator is a tool beside the program. Of the `*_easyjson.go` files only the parser of
commands is modelled; the writers append one field after another and appear as pieces
of a message. `checkKnownKeys` walks the file against Go types by reflection; here a file has
an unknown key or not. Settings that `validate` checks on their own are good, bad or absent.
Metrics are counters nothing reads back, except the lag gauge (`LagIsBacklog`); pprof is a
library. A readiness request that comes over an open connection after the listener has failed
is left out. Backoff delays, logging and timing are left out everywhere: a timer is a step that
may happen. The emitter's list of the order in which publications failed decides only which
error a `Flush` names; the set is modelled, the list is not. What TigerBeetle answers to a chain
that is replayed after a lost reply cannot be read off this repository and is not assumed: if
it fails the rest of the chain, a record that was applied would go to the dead letters.

## 7. Plan

Done, in this order: `Offsets`, `CommitProtocol` with `AtLeastOnce` (the promise that
matters most), `Cdc`, `Batcher`, `Sink`, `Process` with `Health`, the modules of `Vocabulary`, and
the proofs of section 5, which state every safety property of the passing runs. Left:

1. Finding 1 bounded: what a stale snapshot can repeat is what was settled after it.
2. A walk of `checkKnownKeys` over a small tree of keys.
