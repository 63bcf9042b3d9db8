------------------------------- MODULE Health -------------------------------
(***************************************************************************)
(* The readiness endpoint (internal/obs/health.go): checkReady, which all  *)
(* /readyz requests share, and the goroutine it detaches.  ready() cannot  *)
(* be cancelled and hangs for as long as TigerBeetle is unreachable, so    *)
(* requests wait for the one call under way, each no longer than its own   *)
(* timeout.                                                                *)
(*                                                                         *)
(* The goroutine writes its result, closes done, and only then takes the   *)
(* lock again to clear inFlight: three steps that requests fall between.   *)
(***************************************************************************)
EXTENDS FiniteSets, Naturals

CONSTANTS Probes,   \* /readyz requests that may be served at the same time
          Calls     \* names for calls of ready(), reused

ASSUME CallsAssumption ==
    /\ IsFiniteSet(Probes) /\ IsFiniteSet(Calls)
    /\ Cardinality(Calls) > Cardinality(Probes)

VARIABLES
    checks,     \* what ready() looks at: "tb", and "group" if the sink runs
    now,        \* those of the checks that would succeed at this moment
    inFlight,   \* the call Server.inFlight points at, if any
    call,       \* call[k]: the goroutine and the readyCall of k
    probe,      \* probe[r]: r waits, was answered 200, or neither
    waitsFor,   \* waitsFor[r]: the call whose done channel r selects on
    held,       \* history: checks that held since the running call started
    seen        \* history: checks that held since r began to wait, or since
                \* the running call started that r joined

health == <<checks, now, inFlight, call, probe, waitsFor, held, seen>>

Check == {"tb", "group"}

HealthTypeOK ==
    /\ checks \subseteq Check /\ now \subseteq Check
    /\ inFlight \subseteq Calls /\ Cardinality(inFlight) <= 1
    /\ call \in [Calls -> [pc: {"none", "nop", "group", "clear"},
                           err: {"open", "ok", "failed"}]]
    /\ probe \in [Probes -> {"idle", "wait", "ok"}]
    /\ waitsFor \in [Probes -> SUBSET Calls]
    /\ held \subseteq Check /\ seen \in [Probes -> SUBSET Check]

HealthInit ==
    /\ now = {} /\ inFlight = {}
    /\ call = [k \in Calls |-> [pc |-> "none", err |-> "open"]]
    /\ probe = [r \in Probes |-> "idle"]
    /\ waitsFor = [r \in Probes |-> {}]
    /\ held = {}
    /\ seen = [r \in Probes |-> {}]

\* A name nobody holds on to any more.
Free(k) == call[k].pc = "none" /\ \A r \in Probes : k \notin waitsFor[r]

-----------------------------------------------------------------------------
Register(k) ==
    /\ inFlight' = {k}
    /\ call' = [call EXCEPT ![k] = [pc |-> "nop", err |-> "open"]]
    /\ held' = now

\* Mutant of BeginProbe: every request registers a call of its own.
BeginProbeAlone(r) ==
    LET k == CHOOSE k \in Calls : Free(k) IN
    /\ probe[r] # "wait"
    /\ probe' = [probe EXCEPT ![r] = "wait"]
    /\ waitsFor' = [waitsFor EXCEPT ![r] = {k}]
    /\ inFlight' = inFlight \cup {k}
    /\ call' = [call EXCEPT ![k] = [pc |-> "nop", err |-> "open"]]
    /\ seen' = [seen EXCEPT ![r] = now]
    /\ UNCHANGED <<checks, now, held>>

\* Mutant of BeginProbe: one readyCall is used again and again.
BeginProbeReusesCall(r) ==
    LET k == CHOOSE k \in Calls : TRUE
        new == inFlight = {}
    IN
    /\ probe[r] # "wait"
    /\ probe' = [probe EXCEPT ![r] = "wait"]
    /\ seen' = [seen EXCEPT ![r] = held \cup now]
    /\ waitsFor' = [waitsFor EXCEPT ![r] = {k}]
    /\ inFlight' = {k}
    /\ call' = [call EXCEPT ![k].pc = IF new THEN "nop" ELSE @]
    /\ held' = IF new THEN now ELSE held
    /\ UNCHANGED <<checks, now>>

\* The first critical section of checkReady: join the call in flight, or
\* register a new one and start its goroutine.
BeginProbe(r) ==
    /\ probe[r] # "wait"
    /\ probe' = [probe EXCEPT ![r] = "wait"]
    /\ seen' = [seen EXCEPT ![r] = held \cup now]
    /\ IF inFlight # {}
       THEN /\ waitsFor' = [waitsFor EXCEPT ![r] = inFlight]
            /\ UNCHANGED <<inFlight, call, held>>
       ELSE LET k == CHOOSE k \in Calls : Free(k) IN
            /\ waitsFor' = [waitsFor EXCEPT ![r] = {k}]
            /\ Register(k)
    /\ UNCHANGED <<checks, now>>

\* ready(): Nop first, which answers only while TigerBeetle is reachable or
\* gives up with an error ...
NopAnswers(k) ==
    /\ call[k].pc = "nop"
    /\ "tb" \in now
    /\ call' = [call EXCEPT ![k] = IF "group" \in checks
                                   THEN [@ EXCEPT !.pc = "group"]
                                   ELSE [pc |-> "clear", err |-> "ok"]]
    /\ UNCHANGED <<checks, now, inFlight, probe, waitsFor, held, seen>>

NopFails(k) ==
    /\ call[k].pc = "nop"
    /\ call' = [call EXCEPT ![k] = [pc |-> "clear", err |-> "failed"]]
    /\ UNCHANGED <<checks, now, inFlight, probe, waitsFor, held, seen>>

\* ... then the consumer's group membership; err is set and done closed.
GroupChecked(k) ==
    /\ call[k].pc = "group"
    /\ call' = [call EXCEPT ![k] =
                  [pc |-> "clear", err |-> IF "group" \in now THEN "ok" ELSE "failed"]]
    /\ UNCHANGED <<checks, now, inFlight, probe, waitsFor, held, seen>>

\* Mutant of ClearInFlight: the last answer is kept and handed out again.
KeepInFlight(k) ==
    /\ call[k].pc = "clear"
    /\ call' = [call EXCEPT ![k].pc = "none"]
    /\ held' = {}
    /\ UNCHANGED <<checks, now, inFlight, probe, waitsFor, seen>>

\* The goroutine's own critical section, its last step.
ClearInFlight(k) ==
    /\ call[k].pc = "clear"
    /\ call' = [call EXCEPT ![k].pc = "none"]
    /\ inFlight' = {}
    /\ held' = {}
    /\ UNCHANGED <<checks, now, probe, waitsFor, seen>>

\* The select of checkReady: the result, or this request's timeout.
Answer(r, a) ==
    /\ probe' = [probe EXCEPT ![r] = IF a = "ok" THEN "ok" ELSE "idle"]
    /\ waitsFor' = [waitsFor EXCEPT ![r] = {}]
    /\ seen' = [seen EXCEPT ![r] = {}]

CallAnswers(r) ==
    /\ probe[r] = "wait"
    /\ \E k \in waitsFor[r] : call[k].err # "open" /\ Answer(r, call[k].err)
    /\ UNCHANGED <<checks, now, inFlight, call, held>>

\* Mutant of ProbeTimesOut: the stuck call is given up and another may start.
TimeoutAbandonsCall(r) ==
    /\ probe[r] = "wait"
    /\ Answer(r, "timeout")
    /\ inFlight' = inFlight \ waitsFor[r]
    /\ UNCHANGED <<checks, now, call, held>>

ProbeTimesOut(r) ==
    /\ probe[r] = "wait"
    /\ Answer(r, "timeout")
    /\ UNCHANGED <<checks, now, inFlight, call, held>>

-----------------------------------------------------------------------------
\* TigerBeetle becomes reachable or unreachable, the consumer joins its group
\* or loses it (external).
Becomes(n) ==
    /\ now' = n
    /\ held' = IF \E k \in Calls : call[k].pc # "none" THEN held \cup n ELSE held
    /\ seen' = [r \in Probes |-> IF probe[r] = "wait" THEN seen[r] \cup n ELSE seen[r]]
    /\ UNCHANGED <<checks, inFlight, call, probe, waitsFor>>

ReadyCall(k) == NopAnswers(k) \/ GroupChecked(k) \/ ClearInFlight(k)

\* At most one call of ready() is outstanding, however many requests arrive
\* and time out while TigerBeetle does not answer ("the goroutine is never
\* abandoned mid-flight to start another").
OneCallOutstanding == Cardinality({k \in Calls : call[k].pc # "none"}) <= 1

\* A positive answer is not a remembered one: each thing ready() looks at
\* held at some moment while the request waited, or earlier, but no earlier
\* than the start of a call that was still running when the request joined it.
NoStaleReadiness ==
    [][\A r \in Probes : probe[r] = "wait" /\ probe'[r] = "ok"
                            => checks \subseteq seen[r]]_health
=============================================================================
