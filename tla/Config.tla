------------------------------- MODULE Config -------------------------------
(***************************************************************************)
(* Load and validate (internal/config/config.go).  A configuration keeps   *)
(* the numbers and tables other components work with; of every other       *)
(* setting only whether it was given, and given well.                      *)
(***************************************************************************)
EXTENDS Integers, FiniteSets

CONSTANTS TBMaxBatch,       \* MaxBatchSize, what one request to TigerBeetle holds
          TBMaxEvents,      \* MaxCDCBatchSize, what one change-event query returns
          DefaultInFlight,  \* DefaultMaxInFlightPerPartition
          TopScale          \* the largest scale of a ledger

ASSUME LimitAssumption ==
    {TBMaxBatch, TBMaxEvents, DefaultInFlight, TopScale} \subseteq Nat /\ DefaultInFlight # 0

\* What the file is read into: Go's ints, ids of 32 and codes of 16 bits.
IsConfig(raw) ==
    /\ DOMAIN raw = {"unknownKey", "setting", "maxBatch", "maxQueue", "maxInFlight", "cdcBatch",
                     "partitionKey", "maxEvents", "maxBytes", "maxDepth", "ledgers", "codes"}
    /\ {raw.maxBatch, raw.maxQueue, raw.maxInFlight} \subseteq Int
    /\ \A n \in DOMAIN raw.ledgers : raw.ledgers[n].id \in Nat
    /\ \A n \in DOMAIN raw.codes : raw.codes[n] \in Nat

PartitionKeys == {"debit_account_id", "credit_account_id", "ledger", "transfer_id"}

\* Settings that are only accepted or refused.  Load has defaults for some.
Defaulted == {"batcher.linger", "sink.poll_size", "cdc.poll_interval"}
Required == {"tigerbeetle.addresses", "kafka.brokers", "kafka.group", "kafka.topics",
             "kafka.dlq_topic", "retry", "shutdown_timeout", "metrics_addr"}
Setting == Defaulted \cup Required

Accepted(raw, s) ==
    raw.setting[s] = "good" \/ (s \in Defaulted /\ raw.setting[s] = "absent")

\* validate: no two names for one id, and no id 0.
Injective(f) == \A x, y \in DOMAIN f : f[x] = f[y] => x = y

LedgersValid(c) ==
    /\ DOMAIN c.ledgers # {}
    /\ \A n \in DOMAIN c.ledgers : c.ledgers[n].id # 0 /\ c.ledgers[n].scale \in 0..TopScale
    /\ Injective([n \in DOMAIN c.ledgers |-> c.ledgers[n].id])

CodesValid(c) ==
    /\ DOMAIN c.codes # {}
    /\ \A n \in DOMAIN c.codes : c.codes[n] # 0
    /\ Injective(c.codes)

\* Mutant of LimitsValid: the limit is checked against TigerBeetle's ceiling only.
LimitsAlone(c) ==
    /\ c.maxEvents \in 1..TBMaxBatch
    /\ c.maxBytes > 0 /\ c.maxDepth > 0

\* What the decoder admits the batcher can accept whole.
LimitsValid(c) ==
    /\ c.maxEvents \in 1..TBMaxBatch
    /\ c.maxEvents <= c.maxBatch
    /\ c.maxBytes > 0 /\ c.maxDepth > 0

Valid(c) ==
    /\ \A s \in Setting : c.setting[s] = "good"
    /\ c.maxBatch \in 1..TBMaxBatch
    /\ c.maxQueue > 0
    /\ c.maxInFlight \in 1..(c.maxQueue + c.maxBatch)
    /\ c.cdcBatch \in 1..TBMaxEvents
    /\ c.partitionKey \in PartitionKeys
    /\ LimitsValid(c) /\ LedgersValid(c) /\ CodesValid(c)

-----------------------------------------------------------------------------
(* Load.  A number left out is 0 in maxInFlight and -1 in cdcBatch.        *)

\* Mutant of InFlight: the default is imposed outright.
InFlightUnclamped(raw) == IF raw.maxInFlight = 0 THEN DefaultInFlight ELSE raw.maxInFlight

\* The default is clamped to what the batcher can hold.
InFlight(raw) ==
    IF raw.maxInFlight # 0 THEN raw.maxInFlight
    ELSE IF DefaultInFlight <= raw.maxQueue + raw.maxBatch THEN DefaultInFlight
    ELSE raw.maxQueue + raw.maxBatch

Defaults(raw) ==
    [raw EXCEPT
       !.maxInFlight = InFlight(raw),
       !.cdcBatch = IF @ = -1 THEN TBMaxEvents ELSE @,
       !.partitionKey = IF @ = "absent" THEN "debit_account_id" ELSE @,
       !.setting = [s \in Setting |-> IF Accepted(raw, s) THEN "good" ELSE "bad"]]

\* The configuration the process runs with: none, or one.
Load(raw) == IF ~raw.unknownKey /\ Valid(Defaults(raw)) THEN {Defaults(raw)} ELSE {}
=============================================================================
