------------------------------ MODULE Batcher ------------------------------
(***************************************************************************)
(* The batcher, the single door into TigerBeetle (internal/tbx/batcher.go  *)
(* and outcome.go): SubmitAsync, watchLate, the send loop, Close and the   *)
(* two settlers that answer what the loop left on the queue.               *)
(*                                                                         *)
(* Every command is submitted once, on a goroutine of its own, so that     *)
(* submissions meet each other and the shutdown in every order.  A Go      *)
(* channel that is closed is a Boolean; a select is a choice among the     *)
(* cases that are ready.  A command is a number of events, each of which   *)
(* TigerBeetle either rejects or not; linked events share their fate.      *)
(***************************************************************************)
EXTENDS Integers, Sequences, SequencesExt, FiniteSets

CONSTANTS
    Cmds,       \* commands
    Op,         \* Op[c]: the operation, create_accounts or create_transfers
    Size,       \* Size[c]: the number of events in c
    Linked,     \* Linked[c]: which events of c carry the linked flag
    Bad,        \* Bad[c]: which events of c TigerBeetle rejects
    MaxBatch,   \* batcher.max_batch_size
    MaxQueue    \* batcher.max_queue

ASSUME BatcherAssumption ==
    /\ Size \in [Cmds -> Nat]
    /\ MaxBatch \in Nat \ {0} /\ MaxQueue \in Nat \ {0}
    /\ \A c \in Cmds : Linked[c] \subseteq 1..Size[c] /\ Bad[c] \subseteq 1..Size[c]

VARIABLES
    sub,        \* sub[c]: where the submission of c is
    done,       \* done[c]: what was written to the channel j.done
    out,        \* out[c]: what watchLate passed on, if it watches c
    queue,      \* commands on the queue
    batch,      \* the run the loop has accumulated
    held,       \* the command the loop has received and not yet placed
    timer,      \* the linger timer is armed
    pc,         \* where the loop is
    leaving,    \* the loop has seen stop and leaves after this flush
    stop, finished,     \* the channels of that name are closed
    watcher,    \* Start's goroutine that settles after the loop
    closer,     \* the caller of Close
    order,      \* history: commands in the order they got on the queue
    applied,    \* history: commands in the order TigerBeetle applied them
    uncertain   \* history: commands in a call that reported an error

submission == <<sub, out>>
loop == <<batch, held, timer, pc, leaving>>
shutdown == <<stop, finished, watcher, closer>>
tigerbeetle == <<applied, uncertain>>
vars == <<submission, done, queue, loop, shutdown, order, tigerbeetle>>

Verdict == {"ok", "rejected"}
Result == [kind: {"outcomes"}, of: Seq(Verdict)]
             \cup [kind: {"closed", "mismatch"}]

Closed == [kind |-> "closed"]
Mismatch == [kind |-> "mismatch"]

TypeOK ==
    /\ sub \in [Cmds -> {"new", "checked", "queued", "direct", "late", "refused"}]
    /\ \A c \in Cmds : Range(done[c]) \cup Range(out[c]) \subseteq Result
    /\ queue \in Seq(Cmds) /\ Len(queue) <= MaxQueue
    /\ batch \in Seq(Cmds)
    /\ held \in Seq(Cmds) /\ Len(held) <= 1
    /\ {timer, leaving, stop, finished} \subseteq BOOLEAN
    /\ pc \in {"unstarted", "select", "call", "retry", "drain", "exited"}
    /\ watcher \in {"wait", "drain", "done"}
    /\ closer \in {"idle", "wait", "drain", "done"}
    /\ order \in Seq(Cmds) /\ applied \in Seq(Cmds)
    /\ uncertain \subseteq Cmds

\* Start is called at once, or (as some tests do) never.
Init ==
    /\ sub = [c \in Cmds |-> "new"]
    /\ done = [c \in Cmds |-> <<>>]
    /\ out = [c \in Cmds |-> <<>>]
    /\ queue = <<>> /\ batch = <<>> /\ held = <<>>
    /\ timer = FALSE /\ leaving = FALSE
    /\ pc \in {"select", "unstarted"}
    /\ stop = FALSE /\ finished = FALSE
    /\ watcher = "wait" /\ closer = "idle"
    /\ order = <<>> /\ applied = <<>> /\ uncertain = {}

-----------------------------------------------------------------------------
(* SubmitAsync and watchLate.                                              *)

Unfit(c) == Size[c] = 0 \/ Size[c] > MaxBatch

\* The size checks and the first look at stop.
Enter(c) ==
    /\ sub[c] = "new"
    /\ sub' = [sub EXCEPT ![c] = IF Unfit(c) \/ stop THEN "refused" ELSE "checked"]
    /\ UNCHANGED <<out, done, queue, loop, shutdown, order, tigerbeetle>>

\* Mutant of Enqueue: no backpressure.
EnqueueUnbounded(c) ==
    /\ sub[c] = "checked"
    /\ queue' = Append(queue, c)
    /\ order' = Append(order, c)
    /\ sub' = [sub EXCEPT ![c] = "queued"]
    /\ UNCHANGED <<out, done, loop, shutdown, tigerbeetle>>

Enqueue(c) ==
    /\ sub[c] = "checked"
    /\ Len(queue) < MaxQueue
    /\ queue' = Append(queue, c)
    /\ order' = Append(order, c)
    /\ sub' = [sub EXCEPT ![c] = "queued"]
    /\ UNCHANGED <<out, done, loop, shutdown, tigerbeetle>>

\* The other cases of that select: stop is closed, or the caller's context
\* is cancelled.
TurnAway(c) ==
    /\ sub[c] = "checked"
    /\ stop
    /\ sub' = [sub EXCEPT ![c] = "refused"]
    /\ UNCHANGED <<out, done, queue, loop, shutdown, order, tigerbeetle>>

CallerGone(c) ==
    /\ sub[c] = "checked"
    /\ sub' = [sub EXCEPT ![c] = "refused"]
    /\ UNCHANGED <<out, done, queue, loop, shutdown, order, tigerbeetle>>

\* Mutant of HandBack: every caller gets j.done, however late it came.
HandBackDirect(c) ==
    /\ sub[c] = "queued"
    /\ sub' = [sub EXCEPT ![c] = "direct"]
    /\ UNCHANGED <<out, done, queue, loop, shutdown, order, tigerbeetle>>

\* The second look at stop decides who watches j.done.
HandBack(c) ==
    /\ sub[c] = "queued"
    /\ sub' = [sub EXCEPT ![c] = IF stop THEN "late" ELSE "direct"]
    /\ UNCHANGED <<out, done, queue, loop, shutdown, order, tigerbeetle>>

\* Mutant of WatchLate: gives up on stop instead of finished.
WatchLateUntilStop(c) ==
    /\ sub[c] = "late"
    /\ out[c] = <<>>
    /\ done[c] # <<>> \/ stop
    /\ out' = [out EXCEPT ![c] = IF done[c] # <<>> THEN done[c] ELSE <<Closed>>]
    /\ UNCHANGED <<sub, done, queue, loop, shutdown, order, tigerbeetle>>

\* The outcome, which goes first, or finished.
WatchLate(c) ==
    /\ sub[c] = "late"
    /\ out[c] = <<>>
    /\ done[c] # <<>> \/ finished
    /\ out' = [out EXCEPT ![c] = IF done[c] # <<>> THEN done[c] ELSE <<Closed>>]
    /\ UNCHANGED <<sub, done, queue, loop, shutdown, order, tigerbeetle>>

-----------------------------------------------------------------------------
(* What a batch is, and what TigerBeetle makes of it.                      *)

Events(b) == FlattenSeq([k \in DOMAIN b |-> [n \in 1..Size[b[k]] |-> <<b[k], n>>]])
Fill(b) == Len(Events(b))

\* Mutant of Chained: a chain may run on into the next command.
ChainedAcross(e) == e[2] \in Linked[e[1]]

\* The flag of an event as it is sent: the last one of a command loses it.
Chained(e) == e[2] \in Linked[e[1]] /\ e[2] # Size[e[1]]

\* Events j and k belong to one chain: all between them but the last link on.
SameChain(es, j, k) ==
    \A n \in DOMAIN es : (j <= n /\ n < k) \/ (k <= n /\ n < j) => Chained(es[n])

\* TigerBeetle's answer (external): an event fails if any of its chain does.
Answer(es) ==
    [j \in DOMAIN es |->
        IF \E k \in DOMAIN es : SameChain(es, j, k) /\ es[k][2] \in Bad[es[k][1]]
        THEN "rejected" ELSE "ok"]

\* The window of the k-th command in the answer for b.
OutcomesOf(b, k) ==
    LET offset == Fill(SubSeq(b, 1, k - 1)) IN
    SubSeq(Answer(Events(b)), offset + 1, offset + Size[b[k]])

-----------------------------------------------------------------------------
(* The loop.                                                               *)

\* The command is appended; a full batch is sent at once, any other waits
\* for company until the linger timer fires.
Place(b, c) ==
    /\ batch' = Append(b, c)
    /\ held' = <<>>
    /\ IF Fill(Append(b, c)) >= MaxBatch
       THEN pc' = "call" /\ timer' = FALSE
       ELSE pc' = "select" /\ timer' = TRUE

\* Mutant of MustFlush: only the size counts.
MustFlushOnSize(c) == batch # <<>> /\ Fill(batch) + Size[c] > MaxBatch

MustFlush(c) ==
    batch # <<>> /\ (Op[c] # Op[batch[1]] \/ Fill(batch) + Size[c] > MaxBatch)

Receive ==
    /\ pc = "select"
    /\ queue # <<>>
    /\ queue' = Tail(queue)
    /\ IF MustFlush(Head(queue))
       THEN /\ held' = <<Head(queue)>>
            /\ pc' = "call"
            /\ timer' = FALSE
            /\ UNCHANGED batch
       ELSE Place(batch, Head(queue))
    /\ UNCHANGED <<submission, done, leaving, shutdown, order, tigerbeetle>>

Tick ==
    /\ pc = "select"
    /\ timer
    /\ IF batch = <<>> THEN UNCHANGED <<pc, timer>>
       ELSE pc' = "call" /\ timer' = FALSE
    /\ UNCHANGED <<submission, done, queue, batch, held, leaving, shutdown, order,
                   tigerbeetle>>

\* Mutant of SeeStop: the loop leaves without sending what it has accumulated.
SeeStopUnflushed ==
    /\ pc = "select"
    /\ stop
    /\ leaving' = TRUE
    /\ pc' = "drain"
    /\ UNCHANGED <<submission, done, queue, batch, held, timer, shutdown, order,
                   tigerbeetle>>

\* The stop case of the select: flush, then drain, then return.
SeeStop ==
    /\ pc = "select"
    /\ stop
    /\ leaving' = TRUE
    /\ pc' = IF batch = <<>> THEN "drain" ELSE "call"
    /\ timer' = (timer /\ batch = <<>>)
    /\ UNCHANGED <<submission, done, queue, batch, held, shutdown, order, tigerbeetle>>

\* Mutant of Flushed: the batch is not reset.
FlushedKeepsBatch ==
    /\ IF held # <<>> THEN Place(batch, held[1])
       ELSE /\ pc' = IF leaving THEN "drain" ELSE "select"
            /\ UNCHANGED <<batch, held, timer>>
    /\ UNCHANGED leaving

\* flush returns to where it was called.
Flushed ==
    /\ IF held # <<>> THEN Place(<<>>, held[1])
       ELSE /\ batch' = <<>>
            /\ pc' = IF leaving THEN "drain" ELSE "select"
            /\ UNCHANGED <<held, timer>>
    /\ UNCHANGED leaving

InBatch(c) == \E k \in DOMAIN batch : batch[k] = c
Index(c) == CHOOSE k \in DOMAIN batch : batch[k] = c

\* What TigerBeetle has not seen before it applies, in order; the ids make a
\* repetition harmless.
Unseen == FlattenSeq([k \in DOMAIN batch |->
                        IF batch[k] \in Range(applied) THEN <<>> ELSE <<batch[k]>>])
Apply == applied' = applied \o Unseen

CallOk ==
    /\ pc = "call"
    /\ Apply
    /\ done' = [c \in Cmds |->
                  IF ~InBatch(c) THEN done[c]
                  ELSE Append(done[c], [kind |-> "outcomes",
                                        of |-> OutcomesOf(batch, Index(c))])]
    /\ Flushed
    /\ UNCHANGED <<submission, queue, shutdown, order, uncertain>>

\* A response that does not fit the batch is not parsed.
CallMismatched ==
    /\ pc = "call"
    /\ Apply
    /\ done' = [c \in Cmds |-> IF InBatch(c) THEN Append(done[c], Mismatch) ELSE done[c]]
    /\ Flushed
    /\ UNCHANGED <<submission, queue, shutdown, order, uncertain>>

\* The call reports an error; TigerBeetle may have applied the batch.
CallFails ==
    /\ pc = "call"
    /\ Apply \/ UNCHANGED applied
    /\ uncertain' = uncertain \cup Range(batch)
    /\ pc' = "retry"
    /\ UNCHANGED <<submission, done, queue, batch, held, timer, leaving, shutdown,
                   order>>

Retry ==
    /\ pc = "retry"
    /\ pc' = "call"
    /\ UNCHANGED <<submission, done, queue, batch, held, timer, leaving, shutdown,
                   order, tigerbeetle>>

\* Mutant of GiveUp: it does not take a stop to give up.
GiveUpAnyTime ==
    /\ pc = "retry"
    /\ done' = [c \in Cmds |-> IF InBatch(c) THEN Append(done[c], Closed) ELSE done[c]]
    /\ Flushed
    /\ UNCHANGED <<submission, queue, shutdown, order, tigerbeetle>>

\* Between two attempts stop is seen: the whole batch is answered with it.
GiveUp ==
    /\ pc = "retry"
    /\ stop
    /\ done' = [c \in Cmds |-> IF InBatch(c) THEN Append(done[c], Closed) ELSE done[c]]
    /\ Flushed
    /\ UNCHANGED <<submission, queue, shutdown, order, tigerbeetle>>

-----------------------------------------------------------------------------
(* Shutdown.                                                               *)

\* Start's context is cancelled.
Cancel ==
    /\ pc # "unstarted"
    /\ ~stop
    /\ stop' = TRUE
    /\ UNCHANGED <<submission, done, queue, loop, finished, watcher, closer, order,
                   tigerbeetle>>

\* Mutant of CallClose: waits for the loop without telling it to stop.
CloseWithoutStop ==
    /\ closer = "idle"
    /\ closer' = "wait"
    /\ UNCHANGED <<submission, done, queue, loop, stop, finished, watcher, order,
                   tigerbeetle>>

CallClose ==
    /\ closer = "idle"
    /\ stop' = TRUE
    /\ closer' = "wait"
    /\ UNCHANGED <<submission, done, queue, loop, finished, watcher, order, tigerbeetle>>

LoopGone == pc \in {"unstarted", "exited"}

\* wg.Wait returns, in the watcher and in Close.
SettlerWakes ==
    /\ \/ watcher = "wait" /\ pc = "exited" /\ watcher' = "drain" /\ UNCHANGED closer
       \/ closer = "wait" /\ LoopGone /\ closer' = "drain" /\ UNCHANGED watcher
    /\ UNCHANGED <<submission, done, queue, loop, stop, finished, order, tigerbeetle>>

Draining == pc = "drain" \/ watcher = "drain" \/ closer = "drain"

\* One of the drains receives a command and answers it.
DrainOne ==
    /\ Draining
    /\ queue # <<>>
    /\ queue' = Tail(queue)
    /\ done' = [done EXCEPT ![Head(queue)] = Append(@, Closed)]
    /\ UNCHANGED <<submission, loop, shutdown, order, tigerbeetle>>

\* A drain finds the queue empty: the loop returns, a settler says finished.
LoopReturns ==
    /\ pc = "drain"
    /\ queue = <<>>
    /\ pc' = "exited"
    /\ UNCHANGED <<submission, done, queue, batch, held, timer, leaving, shutdown,
                   order, tigerbeetle>>

SettlerDone ==
    /\ queue = <<>>
    /\ \/ watcher = "drain" /\ watcher' = "done" /\ UNCHANGED closer
       \/ closer = "drain" /\ closer' = "done" /\ UNCHANGED watcher
    /\ finished' = TRUE
    /\ UNCHANGED <<submission, done, queue, loop, stop, order, tigerbeetle>>

-----------------------------------------------------------------------------
Loop ==
    \/ Receive \/ Tick \/ SeeStop \/ CallOk \/ CallMismatched \/ CallFails
    \/ Retry \/ GiveUp \/ LoopReturns

Settling == SettlerWakes \/ DrainOne \/ SettlerDone

Caller(c) ==
    \/ Enter(c) \/ Enqueue(c) \/ TurnAway(c) \/ CallerGone(c) \/ HandBack(c)
    \/ WatchLate(c)

Next == Loop \/ Settling \/ Cancel \/ CallClose \/ \E c \in Cmds : Caller(c)

Spec == Init /\ [][Next]_vars

-----------------------------------------------------------------------------
(* Correctness.                                                            *)

\* What the caller of SubmitAsync finds on its channel.
Reply(c) == IF sub[c] = "late" THEN out[c] ELSE done[c]

\* The commands somebody is still going to answer: those on the queue, and
\* those a loop has that has not returned.
InHand == Range(queue) \cup (IF LoopGone THEN {} ELSE Range(batch) \cup Range(held))

\* A command that got on the queue is in somebody's hand, or has been given its
\* one result, and never both, however the loop, the two settlers and the
\* shutdown overlap ("exactly one result per command").  A second write would
\* block the loop or a drain forever, since j.done holds one result; a
\* command let go without any would leave its caller waiting.
ExactlyOneAnswer ==
    \A c \in Cmds :
       Len(done[c]) = IF c \in Range(order) /\ c \notin InHand THEN 1 ELSE 0

\* ErrClosed is no lie about applied work.  A command answered with it was
\* not applied and never will be, unless a call that carried it had failed
\* with its effect unknown (watchLate, settle).
ClosedIsHonest ==
    \A c \in Cmds :
       Closed \in Range(Reply(c)) /\ c \notin uncertain => c \notin Range(applied)

Before(c, d) ==
    \E j, k \in DOMAIN order : j < k /\ order[j] = c /\ order[k] = d

\* TigerBeetle applies commands in the order they got on the queue, and none
\* is passed over.
AppliedInSubmitOrder ==
    \A c, d \in Cmds : Before(c, d) /\ d \in Range(applied)
       => \E j, k \in DOMAIN applied : j < k /\ applied[j] = c /\ applied[k] = d

\* The same for as long as the batcher has not been told to stop; after that
\* commands may be passed over, and still none overtakes another.
OrderWhileRunning ==
    /\ ~stop => AppliedInSubmitOrder
    /\ \A j, k \in DOMAIN applied : j < k => Before(applied[j], applied[k])

\* What goes out in one request is of one operation and within the limit,
\* whatever was waiting on the queue.
BatchWellFormed ==
    /\ Fill(batch) <= MaxBatch
    /\ \A j, k \in DOMAIN batch : Op[batch[j]] = Op[batch[k]]

\* Batching is transparent: a command gets the outcomes of its own events,
\* the ones it would get if it were sent alone, whatever it shared a request
\* with.  Neither a neighbour's window nor a neighbour's chain reaches it.
BatchingTransparent ==
    \A c \in Cmds : \A r \in Range(done[c]) :
       r.kind = "outcomes" => r.of = Answer(Events(<<c>>))

\* Goroutines run, calls return, and a call that is repeated often enough
\* succeeds.  The select of Go is fair to the case that stays ready, and a
\* channel serves its waiting senders in turn.
Fairness ==
    /\ WF_vars(Loop) /\ WF_vars(Settling) /\ SF_vars(CallOk)
    /\ SF_vars(SeeStop) /\ SF_vars(Tick)
    /\ \A c \in Cmds :
          /\ WF_vars(HandBack(c)) /\ WF_vars(WatchLate(c))
          /\ SF_vars(Enqueue(c) \/ TurnAway(c))

FairSpec == Spec /\ Fairness

\* Nobody hangs: an accepted command is answered and a submission blocked on
\* a full queue returns, whatever way the batcher is stopped and even if it
\* was never started, provided it is then closed.
EveryoneAnswered ==
    \A c \in Cmds :
       (sub[c] \in {"checked", "direct", "late"} /\ (stop \/ pc # "unstarted"))
          ~> (sub[c] = "refused" \/ Reply(c) # <<>>)

\* Close returns.
CloseReturns == closer = "wait" ~> closer = "done"
=============================================================================
