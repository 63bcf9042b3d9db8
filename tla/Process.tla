------------------------------ MODULE Process ------------------------------
(***************************************************************************)
(* The life of one kafkatb process (cmd/kafkatb/main.go): runUntilSignal,  *)
(* run, startSink and startCDC, the goroutines they put into the errgroup, *)
(* Server.Serve, and the stop functions run in the reverse order of their  *)
(* defers.  The pipelines' inner workings are the other modules' subject;  *)
(* here a pipeline is what it holds on to: Run has a batch in hand or not, *)
(* the batcher and the CDC job have a TigerBeetle call out or not.         *)
(*                                                                         *)
(* Module Health is the readiness endpoint of the same process.            *)
(***************************************************************************)
EXTENDS Health, Sequences

CONSTANT Visits     \* Visits[w]: the requests that come to a process of kind w

ASSUME VisitsAssumption == Visits \in [{"sink", "cdc", "both"} -> SUBSET Probes]

VARIABLES
    which,      \* the jobs this process runs: "sink", "cdc" or "both"
    pc,         \* where the goroutine of run is
    sig,        \* signals: "none", "caught" (ctx is cancelled), "restored"
    part,       \* part[x]: the client, the batcher and the Kafka clients
    sinkRun,    \* the goroutine of Sink.Run
    loop,       \* the batcher's loop
    queued,     \* commands wait on the batcher's queue
    cdcRun,     \* the goroutine of Job.Run
    serve,      \* the goroutine of Server.Serve
    groupErr,   \* a goroutine of the errgroup returned an error
    err,        \* what run returns
    status,     \* how the process ended
    failed      \* history: what really failed

main == <<pc, part, err, status>>
jobs == <<sinkRun, loop, queued, cdcRun, serve, groupErr>>
vars == <<health, which, main, sig, jobs, failed>>

Part == {"client", "batcher", "producer", "consumer", "cdcProducer"}

LifeTypeOK ==
    /\ which \in {"sink", "cdc", "both"}
    /\ pc \in {"client", "batcher", "producer", "consumer", "scan", "scanned",
               "cdcProducer", "serve", "wait", "stop", "exited"}
    /\ sig \in {"none", "caught", "restored"}
    /\ part \in [Part -> {"none", "open", "leaving", "closing", "closed"}]
    /\ sinkRun \in {"none", "poll", "batch", "post", "exited"}
    /\ loop \in {"none", "idle", "call", "exited"}
    /\ queued \in BOOLEAN
    /\ cdcRun \in {"none", "check", "query", "publish", "exited"}
    /\ serve \in {"none", "up", "broken", "drain", "exited"}
    /\ groupErr \in BOOLEAN
    /\ err \in {"none", "canceled", "failed"}
    /\ status \in {"running", "clean", "error", "killed"}
    /\ failed \subseteq {"scan", "part", "listen", "missed"}

TypeOK == HealthTypeOK /\ LifeTypeOK

Init ==
    /\ which \in {"sink", "cdc", "both"}
    /\ checks = IF which = "cdc" THEN {"tb"} ELSE Check
    /\ HealthInit
    /\ pc = "client" /\ sig = "none"
    /\ part = [x \in Part |-> "none"]
    /\ sinkRun = "none" /\ loop = "none" /\ queued = FALSE
    /\ cdcRun = "none" /\ serve = "none" /\ groupErr = FALSE
    /\ err = "none" /\ status = "running" /\ failed = {}

\* The context of the errgroup: cancelled by a signal or by the first error.
Cancelled == sig # "none"
GroupCancelled == Cancelled \/ groupErr

Open(x) == part' = [part EXCEPT ![x] = "open"]
GoTo(s) == pc' = s /\ UNCHANGED <<err, status>>

\* run returns e; the stop functions registered so far are due.
Return(e) == pc' = "stop" /\ err' = e /\ UNCHANGED status

\* The process is gone, and with it all it held in memory.
End(s) ==
    /\ pc' = "exited" /\ status' = s
    /\ part' = [x \in Part |-> "none"]
    /\ sinkRun' = "none" /\ loop' = "none" /\ queued' = FALSE
    /\ cdcRun' = "none" /\ serve' = "none" /\ groupErr' = FALSE
    /\ err' = "none" /\ now' = {} /\ inFlight' = {}
    /\ call' = [k \in Calls |-> [pc |-> "none", err |-> "open"]]
    /\ probe' = [r \in Probes |-> "idle"]
    /\ waitsFor' = [r \in Probes |-> {}]
    /\ held' = {}
    /\ seen' = [r \in Probes |-> {}]
    /\ UNCHANGED <<checks, which, sig, failed>>

-----------------------------------------------------------------------------
(* run, startSink and startCDC.                                            *)

AfterSink == IF which = "both" THEN "scan" ELSE "serve"

\* What is built next; a part that cannot be built ends the start, and what
\* was built before it is closed.
Step == [client      |-> IF which = "cdc" THEN "scan" ELSE "batcher",
         producer    |-> "consumer",
         consumer    |-> AfterSink,
         cdcProducer |-> "serve"]

Build(x) ==
    /\ pc = x
    /\ Open(x)
    /\ GoTo(Step[x])
    /\ sinkRun' = IF x = "consumer" THEN "poll" ELSE sinkRun
    /\ cdcRun' = IF x = "cdcProducer" THEN "check" ELSE cdcRun
    /\ UNCHANGED <<health, which, sig, loop, queued, serve, groupErr, failed>>

BuildFails(x) ==
    /\ pc = x
    /\ Return("failed")
    /\ failed' = failed \cup {"part"}
    /\ UNCHANGED <<health, which, sig, part, jobs>>

\* NewBatcher and Start, which cannot fail.
StartBatcher ==
    /\ pc = "batcher"
    /\ Open("batcher")
    /\ GoTo("producer")
    /\ loop' = "idle"
    /\ UNCHANGED <<health, which, sig, sinkRun, queued, cdcRun, serve, groupErr,
                   failed>>

\* The cursor: recovered from the topic, or given by --timestamp-last.
ScanOk ==
    /\ pc = "scan"
    /\ GoTo("cdcProducer")
    /\ UNCHANGED <<health, which, sig, part, jobs, failed>>

\* The scan fails, on its own or because its context is cancelled.
ScanFails ==
    /\ pc = "scan"
    /\ GoTo("scanned")
    /\ failed' = IF GroupCancelled THEN failed ELSE failed \cup {"scan"}
    /\ UNCHANGED <<health, which, sig, part, jobs>>

\* Mutant of ScanVerdict: the scan's error is returned as it came.
ScanVerdictPlain ==
    /\ pc = "scanned"
    /\ Return("failed")
    /\ UNCHANGED <<health, which, sig, part, jobs, failed>>

\* startCDC looks at the context only after the scan has returned.
ScanVerdict ==
    /\ pc = "scanned"
    /\ Return(IF GroupCancelled THEN "canceled" ELSE "failed")
    /\ UNCHANGED <<health, which, sig, part, jobs, failed>>

StartServe ==
    /\ pc = "serve"
    /\ GoTo("wait")
    /\ serve' = "up"
    /\ UNCHANGED <<health, which, sig, part, sinkRun, loop, queued, cdcRun, groupErr,
                   failed>>

\* Mutant of GroupWait: the first pipeline to return ends the wait.
GroupWaitAny ==
    /\ pc = "wait"
    /\ "exited" \in {sinkRun, cdcRun, serve}
    /\ Return(IF groupErr THEN "failed" ELSE "none")
    /\ UNCHANGED <<health, which, sig, part, jobs, failed>>

\* g.Wait returns when every goroutine of the group has.
GroupWait ==
    /\ pc = "wait"
    /\ {sinkRun, cdcRun, serve} \subseteq {"none", "exited"}
    /\ Return(IF groupErr THEN "failed" ELSE "none")
    /\ UNCHANGED <<health, which, sig, part, jobs, failed>>

-----------------------------------------------------------------------------
(* The stop functions.                                                     *)

\* Mutant of StopOrder: the parts go down in the order they came up.
StartOrder == <<"client", "batcher", "producer", "consumer", "cdcProducer">>

\* The deferred calls, last first, and the order within startSink's stop.
StopOrder == <<"cdcProducer", "consumer", "producer", "batcher", "client">>

Due == {x \in Part : part[x] \in {"open", "leaving", "closing"}}
NextToStop(x) ==
    /\ pc = "stop"
    /\ x \in Due
    /\ \E i \in DOMAIN StopOrder :
          StopOrder[i] = x /\ \A j \in 1..(i - 1) : StopOrder[j] \notin Due

StopStep(x, s) ==
    /\ NextToStop(x)
    /\ part' = [part EXCEPT ![x] = s]
    /\ UNCHANGED <<which, sig, pc, err, status, jobs, failed>>

\* Close of a Kafka producer or of the TigerBeetle client.
CloseClient(x) ==
    /\ x \in {"cdcProducer", "producer", "client"}
    /\ StopStep(x, "closed")
    /\ UNCHANGED health

\* consumer.Close waits for AllowRebalance, then leaves the group: OnRevoked
\* runs, with its last commit, and only then is the client closed.
LeaveGroup ==
    /\ part["consumer"] = "open"
    /\ sinkRun # "batch"
    /\ StopStep("consumer", "leaving")
    /\ UNCHANGED health

CloseConsumer ==
    /\ part["consumer"] = "leaving"
    /\ StopStep("consumer", "closed")
    /\ Becomes(now \ {"group"})

\* batcher.Close signals stop and waits for the loop, however long.
SignalStop ==
    /\ part["batcher"] = "open"
    /\ StopStep("batcher", "closing")
    /\ UNCHANGED health

\* Mutant of CloseBatcher: an in-flight call is not waited out.
CloseBatcherNow ==
    /\ part["batcher"] = "closing"
    /\ StopStep("batcher", "closed")
    /\ UNCHANGED health

CloseBatcher ==
    /\ part["batcher"] = "closing"
    /\ loop = "exited"
    /\ StopStep("batcher", "closed")
    /\ UNCHANGED health

\* Mutant of Exit: a cancelled context excuses whatever was returned.
ExitCleanOnSignal ==
    /\ pc = "stop"
    /\ Due = {}
    /\ End(IF err = "none" \/ Cancelled THEN "clean" ELSE "error")

\* The end of runUntilSignal, and of the process.
Exit ==
    /\ pc = "stop"
    /\ Due = {}
    /\ End(IF err = "none" \/ (Cancelled /\ err = "canceled") THEN "clean"
           ELSE "error")

-----------------------------------------------------------------------------
(* Signals.                                                                *)

\* NotifyContext cancels ctx.  Until the goroutine that waits for it has run
\* stop, further signals are swallowed; after that the next one kills.
FirstSignal ==
    /\ sig = "none"
    /\ sig' = "caught"
    /\ UNCHANGED <<health, which, main, jobs, failed>>

RestoreDefault ==
    /\ sig = "caught"
    /\ sig' = "restored"
    /\ UNCHANGED <<health, which, main, jobs, failed>>

SecondSignal == sig = "restored" /\ End("killed")

-----------------------------------------------------------------------------
(* The pipelines.                                                          *)

SinkStep(s) ==
    /\ sinkRun' = s
    /\ UNCHANGED <<health, which, main, sig, loop, cdcRun, serve, groupErr, failed>>

\* A poll returns records, buffered ones also once the context is cancelled;
\* the group is not being left.
Poll ==
    /\ sinkRun = "poll"
    /\ part["consumer"] = "open"
    /\ SinkStep("batch") /\ UNCHANGED queued

Submit == sinkRun = "batch" /\ queued' = TRUE /\ SinkStep("batch")

\* The batch ends: done, out of budget or cancelled.  AllowRebalance.
BatchEnds == sinkRun = "batch" /\ SinkStep("post") /\ UNCHANGED queued

\* Commit, if due; Run returns once its context is cancelled, or when the
\* client it polls is closed.
RunGoesOn ==
    /\ sinkRun = "post"
    /\ SinkStep(IF GroupCancelled THEN "exited" ELSE "poll") /\ UNCHANGED queued

RunEnds ==
    /\ sinkRun = "poll"
    /\ GroupCancelled \/ part["consumer"] = "closed"
    /\ SinkStep("exited") /\ UNCHANGED queued

LoopStep(s) ==
    /\ loop' = s
    /\ UNCHANGED <<health, which, main, sig, sinkRun, cdcRun, serve, groupErr, failed>>

\* The loop sends what is queued, though nobody may wait for it any more.
LoopCalls == loop = "idle" /\ queued /\ queued' = FALSE /\ LoopStep("call")

CallReturns ==
    /\ loop = "call"
    /\ "tb" \in now
    /\ LoopStep("idle") /\ UNCHANGED queued

LoopEnds ==
    /\ loop = "idle"
    /\ GroupCancelled \/ part["batcher"] = "closing"
    /\ queued' = FALSE
    /\ LoopStep("exited")

CdcStep(s, e) ==
    /\ cdcRun' = s
    /\ groupErr' = (groupErr \/ e = "failed")
    /\ failed' = IF e = "failed" THEN failed \cup {"part"} ELSE failed
    /\ UNCHANGED <<health, which, main, sig, sinkRun, loop, queued, serve>>

CdcChecks ==
    cdcRun = "check" /\ CdcStep(IF GroupCancelled THEN "exited" ELSE "query", "none")

QueryAnswers ==
    /\ cdcRun = "query"
    /\ "tb" \in now
    /\ CdcStep("check", "none") \/ CdcStep("publish", "none") \/ CdcStep("exited", "failed")

PublishEnds == cdcRun = "publish" /\ CdcStep("check", "none")

ServeStep(s, e) ==
    /\ serve' = s
    /\ groupErr' = (groupErr \/ e = "failed")
    /\ UNCHANGED <<health, which, main, sig, sinkRun, loop, queued, cdcRun>>

\* ListenAndServe returns an error on its own goroutine, which leaves it in
\* errCh.  That it does so after the select of Serve has moved on, and nobody
\* reads errCh, comes to the same as if it had just before.
ListenFails ==
    /\ serve = "up"
    /\ failed' = failed \cup {"listen"}
    /\ ServeStep("broken", "none")

\* Mutant of ServeFails: whatever ListenAndServe returned, Serve returns nil.
ServeFailsSilently == serve = "broken" /\ ServeStep("exited", "none") /\ UNCHANGED failed

\* The select of Serve takes the error ...
ServeFails == serve = "broken" /\ ServeStep("exited", "failed") /\ UNCHANGED failed

\* ... or ctx.Done.  If both are ready, the error is then never looked at.
ServeStops ==
    /\ serve \in {"up", "broken"}
    /\ GroupCancelled
    /\ failed' = IF serve = "broken" THEN (failed \ {"listen"}) \cup {"missed"} ELSE failed
    /\ ServeStep("drain", "none")

\* Mutant of Drained: Shutdown waits for the last request without a deadline.
DrainedWithoutDeadline ==
    /\ serve = "drain"
    /\ \A k \in Calls : call[k].pc = "none"
    /\ ServeStep("exited", "none")
    /\ UNCHANGED failed

\* Mutant of Drained: the deadline is returned like any error of Shutdown.
DrainedDeadlineIsError ==
    /\ serve = "drain"
    /\ ServeStep("exited", IF \E k \in Calls : call[k].pc # "none" THEN "failed" ELSE "none")
    /\ UNCHANGED failed

\* Shutdown ends when the last request does, or at its deadline, which is
\* not an error ...
Drained == serve = "drain" /\ ServeStep("exited", "none") /\ UNCHANGED failed

\* ... unless closing a listener gave one.
DrainFails ==
    /\ serve = "drain"
    /\ failed' = failed \cup {"part"}
    /\ ServeStep("exited", "failed")

\* The readiness endpoint; the detached call may outlive the server.
Readiness ==
    /\ \/ \E r \in Visits[which] : serve = "up" /\ BeginProbe(r)
       \/ \E r \in Probes : CallAnswers(r) \/ ProbeTimesOut(r)
       \/ \E k \in Calls : ReadyCall(k) \/ NopFails(k)
       \/ \E n \in SUBSET Check :
             n # now /\ (part["consumer"] # "open" => "group" \notin n) /\ Becomes(n)
    /\ UNCHANGED <<which, main, sig, jobs, failed>>

-----------------------------------------------------------------------------
Start == \/ StartBatcher \/ ScanOk \/ ScanVerdict \/ StartServe
         \/ \E x \in DOMAIN Step : Build(x)
Stop == \/ GroupWait \/ LeaveGroup \/ CloseConsumer \/ SignalStop \/ CloseBatcher
        \/ Exit \/ \E x \in Part : CloseClient(x)
Fault == ScanFails \/ ListenFails \/ DrainFails \/ \E x \in DOMAIN Step : BuildFails(x)
SinkGoes == BatchEnds \/ RunGoesOn \/ RunEnds
LoopGoes == CallReturns \/ LoopEnds
CdcGoes == CdcChecks \/ QueryAnswers \/ PublishEnds
ServeGoes == ServeFails \/ ServeStops \/ Drained

Alive == pc # "exited"

Goes ==
    /\ Alive
    /\ \/ Start \/ Stop \/ Fault \/ FirstSignal \/ RestoreDefault \/ SecondSignal
       \/ Poll \/ Submit \/ SinkGoes \/ LoopCalls \/ LoopGoes \/ CdcGoes \/ ServeGoes
       \/ Readiness

Gone == pc = "exited" /\ UNCHANGED vars

Next == Goes \/ Gone

Spec == Init /\ [][Next]_vars

-----------------------------------------------------------------------------
(* Correctness.                                                            *)

\* startCDC has failed beside a running sink, which nobody cancels or waits for.
CdcStartFailed == pc = "stop" /\ which = "both" /\ cdcRun = "none"

\* No work loses the client it needs, on any way down: the TigerBeetle client is
\* open while the batcher or the CDC job has a call out, the batcher and the
\* producer while a batch is in hand, the producer under the last commit of the
\* revocation callback, which flushes it, and under that of Run, but for the one
\* that may follow a failed startCDC: there AllowRebalance lets consumer.Close
\* go on while Run is still to commit.
NothingClosedUnderWork ==
    pc # "exited" =>
       /\ loop = "call" \/ cdcRun = "query" => part["client"] = "open"
       /\ sinkRun = "batch" => part["producer"] = "open" /\ part["batcher"] = "open"
       /\ part["consumer"] = "leaving" => part["producer"] = "open"
       /\ sinkRun = "post" => part["producer"] = "open" \/ CdcStartFailed
       /\ cdcRun = "publish" => part["cdcProducer"] = "open"

\* The exit status tells the truth: an error only if something failed, so a
\* shutdown is never reported as one, and success only if nothing did, save what
\* a signal covers: a scan that failed while it was on its way, and a failure of
\* the listener that the select of Serve missed for it.
HonestStatus ==
    /\ status = "error" => failed # {}
    /\ status = "clean" => failed \subseteq (IF Cancelled THEN {"scan", "missed"} ELSE {})

\* Why it holds: what is up rests on what was built before it, and what runs
\* rests on what is up.
Supported ==
    /\ pc \notin {"client", "stop", "exited"} => part["client"] = "open"
    /\ pc = "producer" => part["batcher"] = "open"
    /\ pc = "consumer" => part["producer"] = "open"
    /\ part["batcher"] \in {"open", "closing"} => part["client"] = "open"
    /\ part["producer"] = "open" => part["batcher"] = "open"
    /\ part["consumer"] \in {"open", "leaving"} => part["producer"] = "open"
    /\ loop \in {"idle", "call"} => part["batcher"] \in {"open", "closing"}
    /\ sinkRun = "batch" => part["consumer"] = "open"
    /\ cdcRun \notin {"none", "exited"} =>
          pc \in {"serve", "wait"} /\ part["cdcProducer"] = "open"
    /\ serve \notin {"none", "exited"} => pc = "wait"

\* The sink outlives a return of run only where startCDC fails beside it.
SinkSupported ==
    /\ pc \in {"client", "batcher", "producer", "consumer"} => sinkRun = "none"
    /\ pc \in {"batcher", "producer", "consumer"} => which # "cdc"
    /\ pc \in {"scan", "scanned", "cdcProducer"} => which # "sink"
    /\ pc \in {"client", "batcher", "producer", "consumer", "scan", "scanned", "cdcProducer"}
          => cdcRun = "none"
    /\ sinkRun # "none" => which # "cdc"
    /\ sinkRun \notin {"none", "exited"} => part["consumer"] = "open" \/ CdcStartFailed
    /\ sinkRun \notin {"none", "exited"} /\ pc = "stop" => CdcStartFailed

\* Every failure is on its way to the status, and nothing else is.
Accounted ==
    pc # "exited" =>
       /\ status = "running"
       /\ pc # "stop" => err = "none"
       /\ groupErr => failed # {} /\ pc \in {"serve", "wait", "stop"}
       /\ pc = "stop" /\ groupErr => err = "failed"
       /\ "part" \in failed => groupErr \/ err = "failed"
       /\ "listen" \in failed => serve = "broken" \/ groupErr \/ err = "failed"
       /\ serve = "broken" => "listen" \in failed
       /\ "missed" \in failed => Cancelled \/ groupErr \/ err = "failed"
       /\ "scan" \in failed => pc = "scanned" \/ err # "none"
       /\ pc = "scanned" => "scan" \in failed \/ Cancelled
       /\ err = "failed" => failed # {}
       /\ err = "canceled" => Cancelled

\* A call that runs is the one in flight.
RegisteredCall ==
    /\ DOMAIN call = Calls
    /\ \A k \in Calls : call[k].pc # "none" => inFlight = {k}

ProcessInv ==
    /\ LifeTypeOK /\ Supported /\ SinkSupported /\ Accounted /\ HonestStatus
    /\ RegisteredCall

Fairness ==
    /\ WF_vars(Alive /\ (Start \/ ScanFails)) /\ WF_vars(Alive /\ Stop)
    /\ WF_vars(Alive /\ SinkGoes) /\ WF_vars(Alive /\ LoopGoes)
    /\ WF_vars(Alive /\ CdcGoes) /\ WF_vars(Alive /\ ServeGoes)
    /\ SF_vars(Alive /\ LoopEnds) /\ SF_vars(Alive /\ LeaveGroup)

FairSpec == Spec /\ Fairness

\* Once a signal arrives, a part of the group fails or a part cannot be built,
\* the process ends, provided TigerBeetle answers from some time on: the batcher
\* waits for its call without a bound.  The readiness call need never return, and
\* where startCDC has failed nobody tells the sink to stop polling.
ShutdownCompletes ==
    (<>[]("tb" \in now)) => (GroupCancelled \/ pc = "stop" ~> pc = "exited")
=============================================================================
