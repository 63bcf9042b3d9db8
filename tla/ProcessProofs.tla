--------------------------- MODULE ProcessProofs ---------------------------
(***************************************************************************)
(* A process comes down in order and reports what happened, on every way   *)
(* down and for any number of readiness requests: NothingClosedUnderWork,  *)
(* HonestStatus and OneCallOutstanding, from ProcessInv.  And readiness is *)
(* never remembered: NoStaleReadiness, from HealthInv on top of it.        *)
(***************************************************************************)
EXTENDS Process, FiniteSetTheorems, TLAPS

\* The parts of the invariant that readiness requests cannot disturb.
Life == LifeTypeOK /\ Supported /\ SinkSupported /\ Accounted /\ HonestStatus

-----------------------------------------------------------------------------
(* The stop functions: what is closed has nothing above it.                *)

\* The TigerBeetle client is closed only when no batcher uses it.
LEMMA StopsClient ==
  ASSUME NextToStop("client")
  PROVE  part["batcher"] \notin {"open", "closing"}
  <1>1. PICK i \in DOMAIN StopOrder :
          StopOrder[i] = "client" /\ \A j \in 1..(i - 1) : StopOrder[j] \notin Due
    BY DEF NextToStop
  <1>2. i = 5 /\ StopOrder[4] = "batcher"
    BY <1>1 DEF StopOrder
  <1> QED
    BY <1>1, <1>2 DEF Due, Part

\* The batcher is closed only when the producer is closed.
LEMMA StopsBatcher ==
  ASSUME NextToStop("batcher")
  PROVE  part["producer"] # "open"
  <1>1. PICK i \in DOMAIN StopOrder :
          StopOrder[i] = "batcher" /\ \A j \in 1..(i - 1) : StopOrder[j] \notin Due
    BY DEF NextToStop
  <1>2. i = 4 /\ StopOrder[3] = "producer"
    BY <1>1 DEF StopOrder
  <1> QED
    BY <1>1, <1>2 DEF Due, Part

\* The producer is closed only when the consumer has left.
LEMMA StopsProducer ==
  ASSUME NextToStop("producer")
  PROVE  part["consumer"] \notin {"open", "leaving"}
  <1>1. PICK i \in DOMAIN StopOrder :
          StopOrder[i] = "producer" /\ \A j \in 1..(i - 1) : StopOrder[j] \notin Due
    BY DEF NextToStop
  <1>2. i = 3 /\ StopOrder[2] = "consumer"
    BY <1>1 DEF StopOrder
  <1> QED
    BY <1>1, <1>2 DEF Due, Part

-----------------------------------------------------------------------------
(* One lemma for each goroutine.                                           *)

\* Building a part puts it on top of parts that are up, or unwinds.
LEMMA StartKeepsLife ==
  ASSUME Life, Alive, Start
  PROVE  Life'
  <1> USE DEF Life, LifeTypeOK, Supported, SinkSupported, CdcStartFailed, Accounted, HonestStatus,
              Cancelled, Alive, GoTo, Open, Part
  <1>1. CASE StartBatcher
    BY <1>1 DEF StartBatcher
  <1>2. CASE ScanOk
    BY <1>2 DEF ScanOk, jobs
  <1>3. CASE ScanVerdict
    BY <1>3 DEF ScanVerdict, Return, GroupCancelled, jobs
  <1>4. CASE StartServe
    BY <1>4 DEF StartServe
  <1>5. ASSUME NEW x \in DOMAIN Step, Build(x)
        PROVE  Life'
    <2>1. x \in {"client", "producer", "consumer", "cdcProducer"}
      BY DEF Step
    <2>2. /\ x = "client" => Step[x] = IF which = "cdc" THEN "scan" ELSE "batcher"
          /\ x = "producer" => Step[x] = "consumer"
          /\ x = "consumer" => Step[x] = IF which = "both" THEN "scan" ELSE "serve"
          /\ x = "cdcProducer" => Step[x] = "serve"
      BY DEF Step, AfterSink
    <2>3. CASE x = "client"
      BY <1>5, <2>2, <2>3 DEF Build
    <2>4. CASE x = "producer"
      BY <1>5, <2>2, <2>4 DEF Build
    <2>5. CASE x = "consumer"
      BY <1>5, <2>2, <2>5 DEF Build
    <2>6. CASE x = "cdcProducer"
      BY <1>5, <2>2, <2>6 DEF Build
    <2> QED
      BY <2>1, <2>3, <2>4, <2>5, <2>6
  <1> QED
    BY <1>1, <1>2, <1>3, <1>4, <1>5 DEF Start

\* The stop functions take down what nothing rests on any more.
LEMMA StopKeepsLife ==
  ASSUME Life, Alive, Stop
  PROVE  Life'
  <1> USE DEF Life, LifeTypeOK, Supported, SinkSupported, CdcStartFailed, Accounted, HonestStatus,
              Cancelled, Alive, Part
  <1>1. CASE GroupWait
    BY <1>1 DEF GroupWait, Return, jobs
  <1>2. CASE LeaveGroup
    BY <1>2 DEF LeaveGroup, StopStep, NextToStop, jobs
  <1>3. CASE CloseConsumer
    BY <1>3 DEF CloseConsumer, StopStep, NextToStop, jobs
  <1>4. CASE SignalStop
    BY <1>4, StopsBatcher DEF SignalStop, StopStep, NextToStop, jobs
  <1>5. CASE CloseBatcher
    BY <1>5, StopsBatcher DEF CloseBatcher, StopStep, NextToStop, jobs
  <1>6. CASE Exit
    BY <1>6 DEF Exit, End
  <1>7. ASSUME NEW x \in Part, CloseClient(x)
        PROVE  Life'
    <2>1. CASE x = "client"
      BY <1>7, <2>1, StopsClient DEF CloseClient, StopStep, NextToStop, jobs
    <2>2. CASE x = "producer"
      BY <1>7, <2>2, StopsProducer DEF CloseClient, StopStep, NextToStop, jobs
    <2>3. CASE x = "cdcProducer"
      BY <1>7, <2>3 DEF CloseClient, StopStep, NextToStop, jobs
    <2> QED
      BY <1>7, <2>1, <2>2, <2>3 DEF CloseClient
  <1> QED
    BY <1>1, <1>2, <1>3, <1>4, <1>5, <1>6, <1>7 DEF Stop

\* A failure is recorded where it will be reported.
LEMMA FaultKeepsLife ==
  ASSUME Life, Alive, Fault
  PROVE  Life'
  <1> USE DEF Life, LifeTypeOK, Supported, SinkSupported, CdcStartFailed, Accounted, HonestStatus,
              Cancelled, Alive, Part
  <1>1. CASE ScanFails
    BY <1>1 DEF ScanFails, GoTo, GroupCancelled, jobs
  <1>2. CASE ListenFails
    <2>1. groupErr' = groupErr /\ failed' = failed \cup {"listen"}
      BY <1>2 DEF ListenFails, ServeStep
    <2> QED
      BY <1>2, <2>1 DEF ListenFails, ServeStep, main
  <1>4. CASE DrainFails
    <2>1. groupErr' = TRUE /\ failed' = failed \cup {"part"}
      BY <1>4 DEF DrainFails, ServeStep
    <2> QED
      BY <1>4, <2>1 DEF DrainFails, ServeStep, main
  <1>3. ASSUME NEW x \in DOMAIN Step, BuildFails(x)
        PROVE  Life'
    <2>1. x \in {"client", "producer", "consumer", "cdcProducer"}
      BY DEF Step
    <2> QED
      BY <1>3, <2>1 DEF BuildFails, Return, jobs
  <1> QED
    BY <1>1, <1>2, <1>3, <1>4 DEF Fault

\* A signal cancels, restores the default, or kills.
LEMMA SignalKeepsLife ==
  ASSUME Life, Alive, FirstSignal \/ RestoreDefault \/ SecondSignal
  PROVE  Life'
  <1> USE DEF Life, LifeTypeOK, Supported, SinkSupported, CdcStartFailed, Accounted, HonestStatus,
              Cancelled, Alive, Part
  <1>1. CASE FirstSignal
    BY <1>1 DEF FirstSignal, main, jobs
  <1>2. CASE RestoreDefault
    BY <1>2 DEF RestoreDefault, main, jobs
  <1>3. CASE SecondSignal
    BY <1>3 DEF SecondSignal, End
  <1> QED
    BY <1>1, <1>2, <1>3

\* The sink's loop polls an open consumer, and returns once cancelled.
LEMMA SinkKeepsLife ==
  ASSUME Life, Alive, Poll \/ Submit \/ SinkGoes
  PROVE  Life'
  <1> USE DEF Life, LifeTypeOK, Supported, SinkSupported, CdcStartFailed, Accounted, HonestStatus,
              Cancelled, Alive, Part
  <1>1. CASE Poll
    BY <1>1 DEF Poll, SinkStep, main
  <1>2. CASE Submit
    BY <1>2 DEF Submit, SinkStep, main
  <1>3. CASE BatchEnds
    BY <1>3 DEF BatchEnds, SinkStep, main
  <1>4. CASE RunGoesOn
    BY <1>4 DEF RunGoesOn, SinkStep, main
  <1>5. CASE RunEnds
    BY <1>5 DEF RunEnds, SinkStep, main
  <1> QED
    BY <1>1, <1>2, <1>3, <1>4, <1>5 DEF SinkGoes

\* The batcher's loop calls an open client.
LEMMA LoopKeepsLife ==
  ASSUME Life, Alive, LoopCalls \/ LoopGoes
  PROVE  Life'
  <1> USE DEF Life, LifeTypeOK, Supported, SinkSupported, CdcStartFailed, Accounted, HonestStatus,
              Cancelled, Alive, Part
  <1>1. CASE LoopCalls
    <2>1. queued' \in BOOLEAN
      BY <1>1 DEF LoopCalls
    <2>2. loop = "idle" /\ LoopStep("call")
      BY <1>1 DEF LoopCalls
    <2> QED
      BY <2>1, <2>2 DEF LoopStep, main
  <1>2. CASE CallReturns
    BY <1>2 DEF CallReturns, LoopStep, main
  <1>3. CASE LoopEnds
    <2>1. queued' \in BOOLEAN
      BY <1>3 DEF LoopEnds
    <2>2. loop = "idle" /\ LoopStep("exited")
      BY <1>3 DEF LoopEnds
    <2> QED
      BY <2>1, <2>2 DEF LoopStep, main
  <1> QED
    BY <1>1, <1>2, <1>3 DEF LoopGoes

\* The CDC job queries and publishes while the main goroutine waits.
LEMMA CdcKeepsLife ==
  ASSUME Life, Alive, CdcGoes
  PROVE  Life'
  <1> USE DEF Life, LifeTypeOK, Supported, SinkSupported, CdcStartFailed, Accounted, HonestStatus,
              Cancelled, Alive, Part
  <1>1. ASSUME NEW s \in {"check", "query", "publish", "exited"}, CdcStep(s, "none"),
               cdcRun \notin {"none", "exited"}
        PROVE  Life'
    BY <1>1 DEF CdcStep, main
  <1>2. ASSUME CdcStep("exited", "failed"), cdcRun \notin {"none", "exited"}
        PROVE  Life'
    <2>1. groupErr' = TRUE /\ failed' = failed \cup {"part"}
      BY <1>2 DEF CdcStep
    <2> QED
      BY <1>2, <2>1 DEF CdcStep, main
  <1> QED
    BY <1>1, <1>2 DEF CdcGoes, CdcChecks, QueryAnswers, PublishEnds

\* The metrics server's failure reaches the group, unless a cancelled context
\* is noticed in its place.
LEMMA ServeKeepsLife ==
  ASSUME Life, Alive, ServeGoes
  PROVE  Life'
  <1> USE DEF Life, LifeTypeOK, Supported, SinkSupported, CdcStartFailed, Accounted, HonestStatus,
              Cancelled, Alive, Part
  <1>1. CASE ServeFails
    <2>1. groupErr' = TRUE /\ serve = "broken" /\ pc = "wait"
      BY <1>1 DEF ServeFails, ServeStep
    <2>2. failed' = failed /\ failed # {}
      BY <1>1 DEF ServeFails
    <2> QED
      BY <1>1, <2>1, <2>2 DEF ServeFails, ServeStep, main
  <1>2. CASE ServeStops
    <2>1. serve \in {"up", "broken"} /\ pc = "wait" /\ groupErr' = groupErr
      BY <1>2 DEF ServeStops, ServeStep
    <2>2. Cancelled \/ groupErr
      BY <1>2 DEF ServeStops, GroupCancelled
    <2>3. CASE serve = "up"
      BY <1>2, <2>1, <2>3 DEF ServeStops, ServeStep, main
    <2>4. CASE serve = "broken"
      <3>1. failed' = (failed \ {"listen"}) \cup {"missed"}
        BY <1>2, <2>4 DEF ServeStops
      <3> QED
        BY <1>2, <2>1, <2>2, <2>4, <3>1 DEF ServeStops, ServeStep, main
    <2> QED
      BY <2>1, <2>3, <2>4
  <1>3. CASE Drained
    BY <1>3 DEF Drained, ServeStep, main
  <1> QED
    BY <1>1, <1>2, <1>3 DEF ServeGoes

\* A step that moves nothing of the process but its readiness.
LEMMA ElsewhereKeepsLife ==
  ASSUME Life, UNCHANGED <<which, main, sig, jobs, failed>>
  PROVE  Life'
  BY DEF Life, LifeTypeOK, Supported, SinkSupported, CdcStartFailed, Accounted, HonestStatus,
         Cancelled, main, jobs

-----------------------------------------------------------------------------
(* The call in flight.                                                     *)

\* checkReady starts a call only when none is registered.
LEMMA ReadinessKeepsCall ==
  ASSUME RegisteredCall, Readiness
  PROVE  RegisteredCall'
  <1> USE DEF RegisteredCall
  <1>1. ASSUME NEW r \in Visits[which], BeginProbe(r)
        PROVE  RegisteredCall'
    BY <1>1 DEF BeginProbe, Register
  <1>2. ASSUME NEW r \in Probes, CallAnswers(r) \/ ProbeTimesOut(r)
        PROVE  RegisteredCall'
    BY <1>2 DEF CallAnswers, ProbeTimesOut
  <1>3. ASSUME NEW k \in Calls, ReadyCall(k) \/ NopFails(k)
        PROVE  RegisteredCall'
    <2>1. CASE NopAnswers(k)
      BY <2>1 DEF NopAnswers
    <2>2. CASE GroupChecked(k)
      BY <2>2 DEF GroupChecked
    <2>3. CASE NopFails(k)
      BY <2>3 DEF NopFails
    <2>4. CASE ClearInFlight(k)
      BY <2>4 DEF ClearInFlight
    <2> QED
      BY <1>3, <2>1, <2>2, <2>3, <2>4 DEF ReadyCall
  <1>4. ASSUME NEW n \in SUBSET Check, Becomes(n)
        PROVE  RegisteredCall'
    BY <1>4 DEF Becomes
  <1> QED
    BY <1>1, <1>2, <1>3, <1>4 DEF Readiness

\* Every other step leaves readiness alone, closes the consumer, or ends it all.
LEMMA OthersKeepCall ==
  ASSUME RegisteredCall, Goes, ~Readiness
  PROVE  RegisteredCall'
  <1>1. CASE Exit \/ SecondSignal
    BY <1>1 DEF RegisteredCall, Exit, SecondSignal, End
  <1>2. CASE UNCHANGED <<call, inFlight>>
    BY <1>2 DEF RegisteredCall
  <1>3. CASE Start
    BY <1>2, <1>3 DEF Start, StartBatcher, ScanOk, ScanVerdict, StartServe, Build, health
  <1>4. CASE Stop /\ ~Exit
    <2>1. CASE CloseConsumer
      BY <1>2, <2>1 DEF CloseConsumer, Becomes
    <2>2. CASE ~CloseConsumer
      BY <1>2, <1>4, <2>2 DEF Stop, GroupWait, LeaveGroup, SignalStop, CloseBatcher, CloseClient,
                              health
    <2> QED
      BY <2>1, <2>2
  <1>5. CASE Fault
    BY <1>2, <1>5 DEF Fault, ScanFails, ListenFails, DrainFails, BuildFails, ServeStep, health
  <1>6. CASE FirstSignal \/ RestoreDefault
    BY <1>2, <1>6 DEF FirstSignal, RestoreDefault, health
  <1>7. CASE Poll \/ Submit \/ SinkGoes
    BY <1>2, <1>7 DEF Poll, Submit, SinkGoes, BatchEnds, RunGoesOn, RunEnds, SinkStep, health
  <1>8. CASE LoopCalls \/ LoopGoes
    BY <1>2, <1>8 DEF LoopCalls, LoopGoes, CallReturns, LoopEnds, LoopStep, health
  <1>9. CASE CdcGoes \/ ServeGoes
    BY <1>2, <1>9 DEF CdcGoes, CdcChecks, QueryAnswers, PublishEnds, CdcStep, ServeGoes,
                      ServeFails, ServeStops, Drained, ServeStep, health
  <1> QED
    BY <1>1, <1>3, <1>4, <1>5, <1>6, <1>7, <1>8, <1>9 DEF Goes

-----------------------------------------------------------------------------
(* The invariant and what follows from it.                                 *)

\* Every step of the process keeps ProcessInv.
LEMMA StepKeepsInv ==
  ASSUME ProcessInv, [Next]_vars
  PROVE  ProcessInv'
  <1>1. Life /\ RegisteredCall
    BY DEF ProcessInv, Life
  <1>2. CASE Goes
    <2>1. Life'
      <3>1. CASE Readiness
        BY <1>1, <3>1, ElsewhereKeepsLife DEF Readiness
      <3>2. CASE ~Readiness
        BY <1>1, <1>2, <3>2, StartKeepsLife, StopKeepsLife, FaultKeepsLife, SignalKeepsLife,
           SinkKeepsLife, LoopKeepsLife, CdcKeepsLife, ServeKeepsLife DEF Goes
      <3> QED
        BY <3>1, <3>2
    <2>2. RegisteredCall'
      BY <1>1, <1>2, ReadinessKeepsCall, OthersKeepCall
    <2> QED
      BY <2>1, <2>2 DEF ProcessInv, Life
  <1>3. CASE UNCHANGED vars
    <2>1. Life'
      BY <1>1, <1>3, ElsewhereKeepsLife DEF vars
    <2>2. RegisteredCall'
      BY <1>1, <1>3 DEF RegisteredCall, vars, health
    <2> QED
      BY <2>1, <2>2 DEF ProcessInv, Life
  <1> QED
    BY <1>2, <1>3 DEF Next, Gone

\* ProcessInv holds in every reachable state of a process: what runs rests on
\* what is up, and every failure is on its way to the exit status.
THEOREM ProcessInvariant == Spec => []ProcessInv
  <1>1. ASSUME Init
        PROVE  ProcessInv
    <2>1. LifeTypeOK
      BY <1>1 DEF Init, LifeTypeOK, Part
    <2>2. Supported /\ SinkSupported /\ Accounted /\ HonestStatus
      BY <1>1 DEF Init, Supported, SinkSupported, Accounted, HonestStatus, Part
    <2>3. RegisteredCall
      BY <1>1 DEF Init, HealthInit, RegisteredCall
    <2> QED
      BY <2>1, <2>2, <2>3 DEF ProcessInv
  <1> QED
    BY <1>1, StepKeepsInv, PTL DEF Spec

\* Nothing is closed under the work NothingClosedUnderWork lists: the order of
\* the stop functions in startSink and run, with what Close waits for.
THEOREM ClosedInOrder == Spec => []NothingClosedUnderWork
  <1>1. ProcessInv => NothingClosedUnderWork
    BY DEF ProcessInv, Supported, SinkSupported, NothingClosedUnderWork
  <1> QED
    BY <1>1, ProcessInvariant, PTL

\* runUntilSignal reports an error only if something failed, and success only if
\* nothing did but, once a signal has arrived, a scan or a listener whose error
\* Serve's select passed over for the cancelled context.
THEOREM StatusIsHonest == Spec => []HonestStatus
  <1>1. ProcessInv => HonestStatus
    BY DEF ProcessInv
  <1> QED
    BY <1>1, ProcessInvariant, PTL

\* checkReady never has two calls of ready() running, whatever the number of
\* requests and the timeouts they run into.
THEOREM OneReadyCall == Spec => []OneCallOutstanding
  <1>1. ASSUME ProcessInv
        PROVE  OneCallOutstanding
    <2> DEFINE running == {k \in Calls : call[k].pc # "none"}
    <2>1. CASE running = {}
      BY <2>1, FS_EmptySet DEF OneCallOutstanding
    <2>2. CASE running # {}
      <3>0. PICK k \in running : TRUE
        BY <2>2
      <3>1. running = {k}
        <4>1. \A j \in running : inFlight = {j}
          BY <1>1 DEF ProcessInv, RegisteredCall
        <4>2. \A j \in running : j = k
          BY <3>0, <4>1
        <4> QED
          BY <3>0, <4>2
      <3>2. Cardinality({k}) = 1
        BY FS_Singleton
      <3>3. Cardinality(running) <= 1
        <4> HIDE DEF running
        <4> QED
          BY <3>1, <3>2
      <3> QED
        BY <3>3 DEF OneCallOutstanding
    <2> QED
      BY <2>1, <2>2
  <1> QED
    BY <1>1, ProcessInvariant, PTL

-----------------------------------------------------------------------------
(* What a positive answer rests on.                                        *)

AtMostOne(S) == \A x, y \in S : x = y

\* The types, with the set-valued pointers as pointers.
HealthTyped ==
    /\ checks \subseteq Check /\ now \subseteq Check
    /\ inFlight \subseteq Calls /\ AtMostOne(inFlight)
    /\ call \in [Calls -> [pc: {"none", "nop", "group", "clear"},
                           err: {"open", "ok", "failed"}]]
    /\ probe \in [Probes -> {"idle", "wait", "ok"}]
    /\ waitsFor \in [Probes -> SUBSET Calls]
    /\ \A r \in Probes : AtMostOne(waitsFor[r])
    /\ held \subseteq Check /\ seen \in [Probes -> SUBSET Check]

\* The call in flight is the one that runs, and has no answer while it asks.
InFlightRuns ==
    /\ \A k \in Calls : call[k].pc # "none" <=> k \in inFlight
    /\ \A k \in Calls : call[k].pc \in {"nop", "group"} => call[k].err = "open"

\* The running call has been there for what it has found out, and holds now.
Attended ==
    \A k \in Calls : call[k].pc # "none" =>
          /\ now \subseteq held
          /\ call[k].pc = "group" => "tb" \in held
          /\ call[k].err = "ok" => checks \subseteq held

\* A waiting request has seen what its call has found out, and what holds now.
WitnessedBy(r) ==
    /\ now \subseteq seen[r]
    /\ \A k \in waitsFor[r] :
          /\ call[k].pc = "group" => "tb" \in seen[r]
          /\ call[k].err = "ok" => checks \subseteq seen[r]

Witnessed ==
    \A r \in Probes : IF probe[r] = "wait" THEN WitnessedBy(r) ELSE waitsFor[r] = {}

HealthInv == HealthTyped /\ InFlightRuns /\ Attended /\ Witnessed

\* With more names than requests, a name is free whenever no call runs.
LEMMA FreeExists ==
  ASSUME HealthInv, inFlight = {}
  PROVE  \E k \in Calls : Free(k)
  <1> SUFFICES ASSUME \A k \in Calls : ~Free(k)
               PROVE  FALSE
    OBVIOUS
  <1>1. \A k \in Calls : \E r \in Probes : k \in waitsFor[r]
    BY DEF Free, HealthInv, InFlightRuns
  <1> DEFINE f == [k \in Calls |-> CHOOSE r \in Probes : k \in waitsFor[r]]
  <1>2. \A k \in Calls : f[k] \in Probes /\ k \in waitsFor[f[k]]
    BY <1>1
  <1>3. f \in [Calls -> Probes]
    BY <1>2
  <1> HIDE DEF f
  <1>4. Cardinality(Probes) \in Nat /\ Cardinality(Calls) \in Nat
    BY CallsAssumption, FS_CardinalityType
  <1>5. PICK x, y \in Calls : x # y /\ f[x] = f[y]
    BY <1>3, <1>4, CallsAssumption, FS_PigeonHole
  <1> QED
    BY <1>2, <1>5 DEF HealthInv, HealthTyped, AtMostOne

\* A request joins a call that runs, or starts one nobody else waits for.
LEMMA BeginKeepsHealth ==
  ASSUME HealthInv, NEW r \in Probes, BeginProbe(r)
  PROVE  HealthInv'
  <1> USE DEF HealthInv
  <1>1. UNCHANGED <<checks, now>> /\ probe' = [probe EXCEPT ![r] = "wait"] /\ probe[r] # "wait"
    BY DEF BeginProbe
  <1>2. CASE inFlight # {}
    <2>1. PICK k \in inFlight : TRUE
      BY <1>2
    <2>2. inFlight = {k} /\ k \in Calls /\ call[k].pc # "none"
      BY <2>1 DEF HealthTyped, InFlightRuns, AtMostOne
    <2>3. /\ waitsFor' = [waitsFor EXCEPT ![r] = {k}] /\ seen' = [seen EXCEPT ![r] = held \cup now]
          /\ UNCHANGED <<inFlight, call, held>>
      BY <1>2, <2>2 DEF BeginProbe
    <2>4. HealthTyped'
      BY <1>1, <2>2, <2>3 DEF HealthTyped, AtMostOne
    <2>5. InFlightRuns'
      BY <2>3 DEF InFlightRuns
    <2>6. Attended'
      BY <1>1, <2>3 DEF Attended
    <2>7. Witnessed'
      <3> SUFFICES ASSUME NEW s \in Probes
                   PROVE  IF probe'[s] = "wait" THEN WitnessedBy(s)' ELSE waitsFor'[s] = {}
        BY DEF Witnessed
      <3>1. CASE s = r
        <4>1. waitsFor'[r] = {k} /\ seen'[r] = held \cup now /\ probe'[r] = "wait"
          BY <1>1, <2>3 DEF HealthTyped
        <4>2. /\ call[k].pc = "group" => "tb" \in held
              /\ call[k].err = "ok" => checks \subseteq held
          BY <2>2 DEF Attended
        <4> QED
          BY <1>1, <2>3, <3>1, <4>1, <4>2 DEF WitnessedBy
      <3>2. CASE s # r
        <4>1. waitsFor'[s] = waitsFor[s] /\ seen'[s] = seen[s] /\ probe'[s] = probe[s]
          BY <1>1, <2>3, <3>2 DEF HealthTyped
        <4> QED
          BY <1>1, <2>3, <4>1 DEF Witnessed, WitnessedBy
      <3> QED
        BY <3>1, <3>2
    <2> QED
      BY <2>4, <2>5, <2>6, <2>7
  <1>3. CASE inFlight = {}
    <2>1. PICK k \in Calls :
             /\ Free(k)
             /\ inFlight' = {k}
             /\ call' = [call EXCEPT ![k] = [pc |-> "nop", err |-> "open"]]
             /\ waitsFor' = [waitsFor EXCEPT ![r] = {k}]
             /\ seen' = [seen EXCEPT ![r] = held \cup now]
             /\ held' = now
      <3> DEFINE k == CHOOSE k \in Calls : Free(k)
      <3>1. k \in Calls /\ Free(k)
        BY <1>3, FreeExists
      <3> QED
        BY <1>3, <3>1 DEF BeginProbe, Register
    <2>2. HealthTyped'
      BY <1>1, <2>1 DEF HealthTyped, AtMostOne
    <2>3. InFlightRuns'
      BY <1>3, <2>1 DEF InFlightRuns, HealthTyped
    <2>4. Witnessed'
      <3> SUFFICES ASSUME NEW s \in Probes
                   PROVE  IF probe'[s] = "wait" THEN WitnessedBy(s)' ELSE waitsFor'[s] = {}
        BY DEF Witnessed
      <3>1. CASE s = r
        <4>1. waitsFor'[r] = {k} /\ now \subseteq seen'[r] /\ call'[k] = [pc |-> "nop", err |-> "open"]
          BY <2>1 DEF HealthTyped
        <4>2. probe'[r] = "wait"
          BY <1>1 DEF HealthTyped
        <4> QED
          BY <1>1, <3>1, <4>1, <4>2 DEF WitnessedBy
      <3>2. CASE s # r
        <4>1. waitsFor'[s] = waitsFor[s] /\ seen'[s] = seen[s] /\ probe'[s] = probe[s]
          BY <1>1, <2>1, <3>2 DEF HealthTyped
        <4>2. \A j \in waitsFor[s] : call'[j] = call[j]
          BY <2>1 DEF Free, HealthTyped
        <4> QED
          BY <1>1, <4>1, <4>2 DEF Witnessed, WitnessedBy
      <3> QED
        BY <3>1, <3>2
    <2>5. Attended'
      <3>1. \A j \in Calls : call'[j].pc # "none" => j = k
        BY <2>1, <2>3 DEF InFlightRuns
      <3>2. call'[k] = [pc |-> "nop", err |-> "open"]
        BY <2>1 DEF HealthTyped
      <3> QED
        BY <1>1, <2>1, <3>1, <3>2 DEF Attended
    <2> QED
      BY <2>2, <2>3, <2>4, <2>5
  <1> QED
    BY <1>2, <1>3

\* A request ends, answered or not.
LEMMA AnswerKeepsHealth ==
  ASSUME HealthInv, NEW r \in Probes, CallAnswers(r) \/ ProbeTimesOut(r)
  PROVE  HealthInv'
  <1> USE DEF HealthInv
  <1>1. PICK a \in {"ok", "idle"} :
           /\ probe' = [probe EXCEPT ![r] = a]
           /\ waitsFor' = [waitsFor EXCEPT ![r] = {}]
           /\ seen' = [seen EXCEPT ![r] = {}]
           /\ UNCHANGED <<checks, now, inFlight, call, held>>
    BY DEF CallAnswers, ProbeTimesOut, Answer
  <1>2. HealthTyped'
    BY <1>1 DEF HealthTyped, AtMostOne
  <1>3. InFlightRuns'
    BY <1>1 DEF InFlightRuns
  <1>4. Witnessed'
    BY <1>1 DEF Witnessed, WitnessedBy, HealthTyped
  <1>5. Attended'
    BY <1>1 DEF Attended
  <1> QED
    BY <1>2, <1>3, <1>4, <1>5

\* ready() finds something out, while everyone who waits for it looks on.
LEMMA ReadyKeepsHealth ==
  ASSUME HealthInv, NEW k \in Calls, ReadyCall(k) \/ NopFails(k)
  PROVE  HealthInv'
  <1> USE DEF HealthInv
  <1>0. UNCHANGED <<checks, now, probe, waitsFor, seen>>
    BY DEF ReadyCall, NopAnswers, GroupChecked, ClearInFlight, NopFails
  <1>1. CASE ClearInFlight(k)
    <2>1. /\ call' = [call EXCEPT ![k].pc = "none"] /\ call[k].pc = "clear"
          /\ inFlight' = {} /\ held' = {}
      BY <1>1 DEF ClearInFlight
    <2>2. inFlight = {k}
      BY <2>1 DEF InFlightRuns, HealthTyped, AtMostOne
    <2>3. HealthTyped'
      BY <1>0, <2>1 DEF HealthTyped, AtMostOne
    <2>4. InFlightRuns'
      BY <2>1, <2>2 DEF InFlightRuns, HealthTyped
    <2>5. \A j \in Calls : call'[j].err = call[j].err /\ (call'[j].pc = "group" => call[j].pc = "group")
      BY <2>1 DEF HealthTyped
    <2>6. Witnessed'
      BY <1>0, <2>5 DEF Witnessed, WitnessedBy, HealthTyped
    <2>7. Attended'
      BY <2>1, <2>4 DEF Attended, InFlightRuns
    <2> QED
      BY <2>3, <2>4, <2>6, <2>7
  <1>2. CASE NopAnswers(k) \/ GroupChecked(k) \/ NopFails(k)
    <2>1. PICK new \in [pc: {"group", "clear"}, err: {"open", "ok", "failed"}] :
             /\ call' = [call EXCEPT ![k] = new]
             /\ new.pc = "group" => "tb" \in now /\ new.err = "open"
             /\ new.err = "ok" => IF call[k].pc = "group" THEN "group" \in now
                                  ELSE "tb" \in now /\ "group" \notin checks
      <3>1. CASE NopAnswers(k) /\ "group" \in checks
        <4>1. call[k].pc = "nop" /\ call[k].err = "open"
          BY <3>1 DEF NopAnswers, InFlightRuns
        <4>2. [call[k] EXCEPT !.pc = "group"] = [pc |-> "group", err |-> "open"]
          BY <4>1 DEF HealthTyped
        <4> QED
          BY <3>1, <4>2 DEF NopAnswers
      <3>2. CASE NopAnswers(k) /\ "group" \notin checks
        BY <3>2 DEF NopAnswers
      <3>3. CASE GroupChecked(k)
        <4> DEFINE new == [pc |-> "clear", err |-> IF "group" \in now THEN "ok" ELSE "failed"]
        <4>1. call' = [call EXCEPT ![k] = new] /\ call[k].pc = "group"
          BY <3>3 DEF GroupChecked
        <4>2. /\ new \in [pc: {"group", "clear"}, err: {"open", "ok", "failed"}]
              /\ new.pc # "group" /\ (new.err = "ok" => "group" \in now)
          OBVIOUS
        <4> HIDE DEF new
        <4> QED
          BY <4>1, <4>2
      <3>4. CASE NopFails(k)
        <4> DEFINE new == [pc |-> "clear", err |-> "failed"]
        <4>1. call' = [call EXCEPT ![k] = new]
          BY <3>4 DEF NopFails
        <4>2. /\ new \in [pc: {"group", "clear"}, err: {"open", "ok", "failed"}]
              /\ new.pc # "group" /\ new.err # "ok"
          OBVIOUS
        <4> HIDE DEF new
        <4> QED
          BY <4>1, <4>2
      <3> QED
        BY <1>2, <3>1, <3>2, <3>3, <3>4
    <2>2. call[k].pc # "none" /\ UNCHANGED <<inFlight, held>>
      BY <1>2 DEF NopAnswers, GroupChecked, NopFails
    <2>3. HealthTyped'
      BY <1>0, <2>1, <2>2 DEF HealthTyped, AtMostOne
    <2>4. InFlightRuns'
      BY <2>1, <2>2 DEF InFlightRuns, HealthTyped
    <2>5. Witnessed'
      <3> SUFFICES ASSUME NEW s \in Probes, probe[s] = "wait", NEW j \in waitsFor[s]
                   PROVE  /\ call'[j].pc = "group" => "tb" \in seen[s]
                          /\ call'[j].err = "ok" => checks \subseteq seen[s]
        BY <1>0 DEF Witnessed, WitnessedBy
      <3>1. WitnessedBy(s) /\ j \in Calls
        BY DEF Witnessed, HealthTyped
      <3>2. CASE j # k
        BY <2>1, <3>1, <3>2 DEF WitnessedBy, HealthTyped
      <3>3. CASE j = k
        <4>1. call'[j] = new
          BY <2>1, <3>3 DEF HealthTyped
        <4>2. new.err = "ok" => checks \subseteq seen[s]
          BY <2>1, <3>1, <3>3 DEF WitnessedBy, HealthTyped, Check
        <4> QED
          BY <2>1, <3>1, <4>1, <4>2 DEF WitnessedBy
      <3> QED
        BY <3>2, <3>3
    <2>6. Attended'
      <3> SUFFICES ASSUME NEW j \in Calls, call'[j].pc # "none"
                   PROVE  /\ now \subseteq held
                          /\ call'[j].pc = "group" => "tb" \in held
                          /\ call'[j].err = "ok" => checks \subseteq held
        BY <1>0, <2>2 DEF Attended
      <3>1. CASE j # k
        BY <2>1, <3>1 DEF Attended, HealthTyped
      <3>2. CASE j = k
        <4>1. call'[j] = new
          BY <2>1, <3>2 DEF HealthTyped
        <4>2. now \subseteq held /\ (call[k].pc = "group" => "tb" \in held)
          BY <2>2 DEF Attended
        <4>3. new.err = "ok" => checks \subseteq held
          BY <2>1, <4>2 DEF HealthTyped, Check
        <4> QED
          BY <2>1, <4>1, <4>2, <4>3
      <3> QED
        BY <3>1, <3>2
    <2> QED
      BY <2>3, <2>4, <2>5, <2>6
  <1> QED
    BY <1>1, <1>2 DEF ReadyCall

\* The world changes under the eyes of whoever waits.
LEMMA BecomesKeepsHealth ==
  ASSUME HealthInv, NEW n \in SUBSET Check, Becomes(n)
  PROVE  HealthInv'
  <1> USE DEF HealthInv
  <1>1. HealthTyped'
    BY DEF Becomes, HealthTyped, AtMostOne
  <1>2. InFlightRuns'
    BY DEF Becomes, InFlightRuns
  <1>3. Witnessed'
    BY DEF Becomes, Witnessed, WitnessedBy
  <1>4. Attended'
    BY DEF Becomes, Attended
  <1> QED
    BY <1>1, <1>2, <1>3, <1>4

\* The end of the process takes all requests and calls with it.
LEMMA EndKeepsHealth ==
  ASSUME HealthInv, Exit \/ SecondSignal
  PROVE  HealthInv'
  <1>1. PICK s \in {"clean", "error", "killed"} : End(s)
    BY DEF Exit, SecondSignal
  <1>2. HealthTyped'
    BY <1>1 DEF End, HealthInv, HealthTyped, AtMostOne
  <1>3. InFlightRuns'
    BY <1>1 DEF End, InFlightRuns
  <1>4. Witnessed'
    BY <1>1 DEF End, Witnessed
  <1>5. Attended'
    BY <1>1 DEF End, Attended
  <1> QED
    BY <1>2, <1>3, <1>4, <1>5 DEF HealthInv

\* The rest of the process leaves readiness alone.
LEMMA OthersLeaveHealth ==
  ASSUME Goes, ~Readiness, ~Exit, ~SecondSignal, ~CloseConsumer
  PROVE  UNCHANGED health
  <1>1. CASE Start
    BY <1>1 DEF Start, StartBatcher, ScanOk, ScanVerdict, StartServe, Build
  <1>2. CASE Stop
    BY <1>2 DEF Stop, GroupWait, LeaveGroup, SignalStop, CloseBatcher, CloseClient
  <1>3. CASE Fault
    BY <1>3 DEF Fault, ScanFails, ListenFails, DrainFails, BuildFails, ServeStep
  <1>4. CASE FirstSignal \/ RestoreDefault
    BY <1>4 DEF FirstSignal, RestoreDefault
  <1>5. CASE Poll \/ Submit \/ SinkGoes
    BY <1>5 DEF Poll, Submit, SinkGoes, BatchEnds, RunGoesOn, RunEnds, SinkStep
  <1>6. CASE LoopCalls \/ LoopGoes
    BY <1>6 DEF LoopCalls, LoopGoes, CallReturns, LoopEnds, LoopStep
  <1>7. CASE CdcGoes \/ ServeGoes
    BY <1>7 DEF CdcGoes, CdcChecks, QueryAnswers, PublishEnds, CdcStep, ServeGoes,
                ServeFails, ServeStops, Drained, ServeStep
  <1> QED
    BY <1>1, <1>2, <1>3, <1>4, <1>5, <1>6, <1>7 DEF Goes

\* Every step of the process keeps HealthInv.
LEMMA StepKeepsHealth ==
  ASSUME LifeTypeOK, HealthInv, [Next]_vars
  PROVE  HealthInv'
  <1>1. CASE UNCHANGED health
    BY <1>1 DEF HealthInv, HealthTyped, InFlightRuns, Attended, Witnessed, WitnessedBy, health
  <1>2. CASE Readiness
    <2>1. Visits[which] \subseteq Probes
      BY VisitsAssumption DEF LifeTypeOK
    <2> QED
      BY <1>2, <2>1, BeginKeepsHealth, AnswerKeepsHealth, ReadyKeepsHealth,
         BecomesKeepsHealth DEF Readiness
  <1>3. CASE Exit \/ SecondSignal
    BY <1>3, EndKeepsHealth
  <1>4. CASE CloseConsumer
    <2>1. now \ {"group"} \in SUBSET Check
      BY DEF HealthInv, HealthTyped
    <2> QED
      BY <1>4, <2>1, BecomesKeepsHealth DEF CloseConsumer
  <1> QED
    BY <1>1, <1>2, <1>3, <1>4, OthersLeaveHealth DEF Next, Gone, vars

\* HealthInv holds in every reachable state.
THEOREM HealthInvariant == Spec => []HealthInv
  <1>1. ASSUME Init
        PROVE  HealthInv
    BY <1>1 DEF Init, HealthInit, HealthInv, HealthTyped, AtMostOne, InFlightRuns,
                Attended, Witnessed, Check
  <1>2. ProcessInv => LifeTypeOK
    BY DEF ProcessInv
  <1> QED
    BY <1>1, <1>2, StepKeepsHealth, ProcessInvariant, PTL DEF Spec

\* The process and its readiness endpoint keep their types: inFlight points
\* at one call or none, and a call in flight has a name nobody else uses.
THEOREM ProcessTypeCorrect == Spec => []TypeOK
  <1>1. ASSUME ProcessInv, HealthInv
        PROVE  TypeOK
    <2>1. Cardinality(inFlight) <= 1
      <3>1. CASE inFlight = {}
        BY <3>1, FS_EmptySet
      <3>2. CASE inFlight # {}
        <4>1. PICK k \in inFlight : TRUE
          BY <3>2
        <4>2. inFlight = {k}
          BY <1>1, <4>1 DEF HealthInv, HealthTyped, AtMostOne
        <4>3. Cardinality({k}) = 1
          BY FS_Singleton
        <4> QED
          BY <4>2, <4>3
      <3> QED
        BY <3>1, <3>2
    <2> QED
      BY <1>1, <2>1 DEF TypeOK, HealthTypeOK, ProcessInv, HealthInv, HealthTyped
  <1> QED
    BY <1>1, ProcessInvariant, HealthInvariant, PTL

\* checkReady answers 200 only with what held while the request waited, or before
\* it but since the start of a call that was running when the request joined it:
\* an answer is never remembered.
THEOREM ReadinessIsFresh == Spec => NoStaleReadiness
  <1>1. ASSUME HealthInv, LifeTypeOK, [Next]_vars, NEW r \in Probes,
               probe[r] = "wait", probe'[r] = "ok"
        PROVE  checks \subseteq seen[r]
    <2>1. WitnessedBy(r) /\ waitsFor[r] \subseteq Calls
      BY <1>1 DEF HealthInv, Witnessed, HealthTyped
    <2>2. ASSUME NEW s \in Probes, BeginProbe(s)
          PROVE  FALSE
      BY <1>1, <2>2 DEF BeginProbe, HealthInv, HealthTyped
    <2>3. CASE UNCHANGED probe
      BY <1>1, <2>3
    <2>4. CASE CallAnswers(r)
      <3>1. PICK k \in waitsFor[r] : Answer(r, call[k].err)
        BY <2>4 DEF CallAnswers
      <3>2. call[k].err = "ok"
        BY <1>1, <3>1 DEF Answer, HealthInv, HealthTyped
      <3> QED
        BY <2>1, <3>1, <3>2 DEF WitnessedBy
    <2>5. CASE ProbeTimesOut(r)
      BY <1>1, <2>5 DEF ProbeTimesOut, Answer, HealthInv, HealthTyped
    <2>6. ASSUME NEW s \in Probes, s # r, CallAnswers(s) \/ ProbeTimesOut(s)
          PROVE  FALSE
      <3>1. PICK a : Answer(s, a)
        BY <2>6 DEF CallAnswers, ProbeTimesOut
      <3> QED
        BY <1>1, <2>6, <3>1 DEF Answer, HealthInv, HealthTyped
    <2>7. CASE Readiness
      <3>1. Visits[which] \subseteq Probes
        BY <1>1, VisitsAssumption DEF LifeTypeOK
      <3>2. ASSUME NEW k \in Calls, ReadyCall(k) \/ NopFails(k)
            PROVE  UNCHANGED probe
        BY <3>2 DEF ReadyCall, NopAnswers, GroupChecked, ClearInFlight, NopFails
      <3>3. ASSUME NEW n, Becomes(n)
            PROVE  UNCHANGED probe
        BY <3>3 DEF Becomes
      <3> QED
        BY <2>2, <2>3, <2>4, <2>5, <2>6, <2>7, <3>1, <3>2, <3>3 DEF Readiness
    <2>8. CASE Exit \/ SecondSignal
      BY <1>1, <2>8 DEF Exit, SecondSignal, End
    <2>9. CASE CloseConsumer
      BY <2>3, <2>9 DEF CloseConsumer, Becomes
    <2> QED
      BY <1>1, <2>3, <2>7, <2>8, <2>9, OthersLeaveHealth DEF Next, Gone, vars, health
  <1>2. HealthInv /\ LifeTypeOK /\ [Next]_vars =>
           [\A r \in Probes : probe[r] = "wait" /\ probe'[r] = "ok"
                                 => checks \subseteq seen[r]]_health
    BY <1>1
  <1>3. ProcessInv => LifeTypeOK
    BY DEF ProcessInv
  <1> QED
    BY <1>2, <1>3, ProcessInvariant, HealthInvariant, PTL DEF Spec, NoStaleReadiness
=============================================================================
