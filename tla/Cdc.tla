-------------------------------- MODULE Cdc --------------------------------
(***************************************************************************)
(* The change-data-capture job: Job.Run and Job.publish                    *)
(* (internal/cdc/job.go), cursor recovery from the output topic            *)
(* (internal/cdc/cursor.go) and the choice of the starting cursor in       *)
(* startCDC (cmd/kafkatb/main.go).                                         *)
(*                                                                         *)
(* The job keeps no state of its own.  Every record it writes claims a     *)
(* checkpoint: "every event up to here is in this topic".  After a restart *)
(* the cursor is the highest claim found on the last record of any         *)
(* partition.  An event is identified with its timestamp, a record with    *)
(* the event it carries and the checkpoint it claims; the rendering of     *)
(* the event (Encoder.Record) decides nothing here but the partition.      *)
(*                                                                         *)
(* Nothing stops two instances from running at once, so several may.       *)
(***************************************************************************)
EXTENDS Integers, Sequences, SequencesExt, FiniteSets

CONSTANTS
    Instances,      \* processes that may run the job
    Events,         \* timestamps of the events that will ever happen
    Parts,          \* partitions of the output topic
    Route,          \* Route[e]: where the record key of e leads
    BatchSize,      \* cdc.batch_size
    MaxTimestamp,   \* the largest value of the cursor's integer type
    Source,         \* what GetChangeEvents answers, see Answers
    Overrides,      \* what the operator may pass as --timestamp-last
    MaxGhosts,      \* bound on the records of dead processes still to land
    Obscurable      \* partitions that may be emptied or written by others

ASSUME CdcAssumption ==
    /\ MaxTimestamp \in Nat
    /\ Events \subseteq 1..MaxTimestamp
    /\ Route \in [Events -> Parts]
    /\ BatchSize \in Nat \ {0}
    /\ Source \in {"prefix", "shuffled"}
    /\ Overrides \subseteq 0..MaxTimestamp
    /\ MaxGhosts \in Nat
    /\ Obscurable \subseteq Parts

VARIABLES
    clock,      \* events up to this timestamp have happened
    published,  \* events a record of which is, or was, in the topic
    tail,       \* tail[p]: the claim of p's last record, if it is readable
    ghosts,     \* records of a dead process that may still reach the topic
    waived,     \* events up to here were given up by --timestamp-last
    pc,         \* pc[i]: where the instance is
    cursor,     \* cursor[i]: checkpoint, the timestamp published up to; that
                \* of its last life while the instance is down or scans
    toscan,     \* toscan[i]: partitions whose tail Resume has yet to read
    found,      \* found[i]: the highest claim Resume has read so far
    window,     \* window[i]: the events being published, oldest first
    inflight    \* inflight[i]: events produced and not yet in the topic

topic == <<published, tail, ghosts>>
job   == <<pc, cursor, toscan, found, window, inflight>>
vars  == <<clock, topic, waived, job>>

Timestamps == 0..MaxTimestamp
Claim == [event: Events, checkpoint: Timestamps]

TypeOK ==
    /\ clock \in Timestamps
    /\ published \subseteq Events
    /\ tail \in [Parts -> SUBSET Timestamps]
    /\ ghosts \subseteq Claim
    /\ waived \in Timestamps
    /\ pc \in [Instances -> {"down", "scan", "query", "rest", "closing"}]
    /\ cursor \in [Instances -> Timestamps]
    /\ toscan \in [Instances -> SUBSET Parts]
    /\ found \in [Instances -> Timestamps]
    /\ window \in [Instances -> Seq(Events)]
    /\ inflight \in [Instances -> SUBSET Events]

Init ==
    /\ clock = 0
    /\ published = {}
    /\ tail = [p \in Parts |-> {}]
    /\ ghosts = {}
    /\ waived = 0
    /\ pc = [i \in Instances |-> "down"]
    /\ cursor = [i \in Instances |-> 0]
    /\ toscan = [i \in Instances |-> {}]
    /\ found = [i \in Instances |-> 0]
    /\ window = [i \in Instances |-> <<>>]
    /\ inflight = [i \in Instances |-> {}]

-----------------------------------------------------------------------------
(* TigerBeetle and Kafka (external).                                       *)

\* The next event happens; timestamps only grow.
Happen(e) ==
    /\ e > clock
    /\ \A f \in Events : f > clock => e <= f
    /\ clock' = e
    /\ UNCHANGED <<topic, waived, job>>

\* GetChangeEvents(TimestampMin = from, Limit = BatchSize).  "prefix" is the
\* documented answer: the oldest events, in order, as many as it likes up to
\* the limit.  "shuffled" is any set of them, in any order, cut to the limit.  Only
\* that an answer in order is the prefix is taken on trust, here as in the code.
Following(from) == {e \in Events : from <= e /\ e <= clock}

SkipsNone(S, from) ==
    \A e \in S, f \in Following(from) : f < e => f \in S

Ascending(s) == \A j, k \in DOMAIN s : j < k => s[j] < s[k]

Answers(from) ==
    {s \in UNION {[1..n -> Following(from)] : n \in 0..BatchSize} :
        /\ Ascending(s) => SkipsNone(Range(s), from)
        /\ Source = "prefix" => Ascending(s)}

\* One record becomes the last of its partition.
Write(e, cp) ==
    /\ published' = published \cup {e}
    /\ tail' = [tail EXCEPT ![Route[e]] = {cp}]

GhostLands(g) ==
    /\ g \in ghosts
    /\ Write(g.event, g.checkpoint)
    /\ ghosts' = ghosts \ {g}
    /\ UNCHANGED <<clock, waived, job>>

\* Retention empties the partition, or a record the job cannot read (written
\* by something else, or by another version) comes to stand last.
Obscure(p) ==
    /\ tail' = [tail EXCEPT ![p] = {}]
    /\ UNCHANGED <<clock, published, ghosts, waived, job>>

-----------------------------------------------------------------------------
(* Starting: Resume, or the operator's --timestamp-last.                   *)

Start(i) ==
    /\ pc[i] = "down"
    /\ pc' = [pc EXCEPT ![i] = "scan"]
    /\ toscan' = [toscan EXCEPT ![i] = Parts]
    /\ UNCHANGED <<clock, topic, waived, cursor, found, window, inflight>>

\* Mutant of Scan: the partition read last decides the cursor.
ScanLastWins(i, p) ==
    /\ pc[i] = "scan"
    /\ p \in toscan[i]
    /\ toscan' = [toscan EXCEPT ![i] = @ \ {p}]
    /\ found' = [found EXCEPT ![i] =
                   IF tail[p] = {} THEN @ ELSE CHOOSE t \in tail[p] : TRUE]
    /\ UNCHANGED <<clock, topic, waived, pc, cursor, window, inflight>>

\* Every partition's last record is read, in any order and not at one
\* moment; an unreadable one is skipped.
Scan(i, p) ==
    /\ pc[i] = "scan"
    /\ p \in toscan[i]
    /\ toscan' = [toscan EXCEPT ![i] = @ \ {p}]
    /\ \E c \in tail[p] \cup {found[i]} :
          /\ \A t \in tail[p] \cup {found[i]} : t <= c
          /\ found' = [found EXCEPT ![i] = c]
    /\ UNCHANGED <<clock, topic, waived, pc, cursor, window, inflight>>

Resumed(i) ==
    /\ pc[i] = "scan"
    /\ toscan[i] = {}
    /\ pc' = [pc EXCEPT ![i] = "query"]
    /\ cursor' = [cursor EXCEPT ![i] = found[i]]
    /\ found' = [found EXCEPT ![i] = 0]
    /\ UNCHANGED <<clock, topic, waived, toscan, window, inflight>>

StartAt(i, t) ==
    /\ pc[i] = "down"
    /\ pc' = [pc EXCEPT ![i] = "query"]
    /\ cursor' = [cursor EXCEPT ![i] = t]
    /\ waived' = IF t > waived THEN t ELSE waived
    /\ UNCHANGED <<clock, topic, toscan, found, window, inflight>>

-----------------------------------------------------------------------------
(* One turn of the loop of Run.  A failed query changes nothing.           *)

\* checkpoint + 1 in the cursor's unsigned type.
Next64(c) == IF c = MaxTimestamp THEN 0 ELSE c + 1

\* Mutant of Query: the order of the answer is not looked at.
QueryUnchecked(i) ==
    /\ pc[i] = "query"
    /\ \E s \in Answers(Next64(cursor[i])) :
          /\ s # <<>>
          /\ window' = [window EXCEPT ![i] = s]
          /\ inflight' = [inflight EXCEPT ![i] = Range(s) \ {Last(s)}]
    /\ pc' = [pc EXCEPT ![i] = "rest"]
    /\ UNCHANGED <<clock, topic, waived, cursor, toscan, found>>

\* The window arrives and everything but its last event is produced.
Query(i) ==
    /\ pc[i] = "query"
    /\ \E s \in Answers(Next64(cursor[i])) :
          /\ s # <<>>
          /\ Ascending(s)
          /\ window' = [window EXCEPT ![i] = s]
          /\ inflight' = [inflight EXCEPT ![i] = Range(s) \ {Last(s)}]
    /\ pc' = [pc EXCEPT ![i] = "rest"]
    /\ UNCHANGED <<clock, topic, waived, cursor, toscan, found>>

\* Run returns an error: no retry could put the answer in order.
Refuse(i) ==
    /\ pc[i] = "query"
    /\ \E s \in Answers(Next64(cursor[i])) : ~Ascending(s)
    /\ pc' = [pc EXCEPT ![i] = "down"]
    /\ UNCHANGED <<clock, topic, waived, cursor, toscan, found, window, inflight>>

\* The checkpoint a record in flight claims: the cursor the window started
\* from, and for the closing record its own timestamp.
Claims(i) == IF pc[i] = "rest" THEN cursor[i] ELSE Last(window[i])

Land(i, e) ==
    /\ pc[i] \in {"rest", "closing"}
    /\ e \in inflight[i]
    /\ Write(e, Claims(i))
    /\ inflight' = [inflight EXCEPT ![i] = @ \ {e}]
    /\ UNCHANGED <<clock, ghosts, waived, pc, cursor, toscan, found, window>>

\* Mutant of Close: the closing record does not wait for the others.
CloseEarly(i) ==
    /\ pc[i] = "rest"
    /\ inflight' = [inflight EXCEPT ![i] = @ \cup {Last(window[i])}]
    /\ pc' = [pc EXCEPT ![i] = "closing"]
    /\ UNCHANGED <<clock, topic, waived, cursor, toscan, found, window>>

\* All but the last are acknowledged: only now the closing record goes out.
Close(i) ==
    /\ pc[i] = "rest"
    /\ inflight[i] = {}
    /\ inflight' = [inflight EXCEPT ![i] = {Last(window[i])}]
    /\ pc' = [pc EXCEPT ![i] = "closing"]
    /\ UNCHANGED <<clock, topic, waived, cursor, toscan, found, window>>

\* Mutant of Advance: the next timestamp to query, not the last published.
AdvancePastWindow(i) ==
    /\ pc[i] = "closing"
    /\ inflight[i] = {}
    /\ cursor' = [cursor EXCEPT ![i] = Last(window[i]) + 1]
    /\ window' = [window EXCEPT ![i] = <<>>]
    /\ pc' = [pc EXCEPT ![i] = "query"]
    /\ UNCHANGED <<clock, topic, waived, toscan, found, inflight>>

\* The closing record is acknowledged: the cursor moves.
Advance(i) ==
    /\ pc[i] = "closing"
    /\ inflight[i] = {}
    /\ cursor' = [cursor EXCEPT ![i] = Last(window[i])]
    /\ window' = [window EXCEPT ![i] = <<>>]
    /\ pc' = [pc EXCEPT ![i] = "query"]
    /\ UNCHANGED <<clock, topic, waived, toscan, found, inflight>>

\* What was produced and has not reached the topic may still do so.
LeaveBehind(i) ==
    /\ \E G \in SUBSET inflight[i] :
          /\ ghosts' = ghosts \cup {[event |-> e, checkpoint |-> Claims(i)] : e \in G}
          /\ G # {} => Cardinality(ghosts') <= MaxGhosts
    /\ inflight' = [inflight EXCEPT ![i] = {}]
    /\ window' = [window EXCEPT ![i] = <<>>]

\* Mutant of ProduceFails: a failed window is not published again.
FailAdvances(i) ==
    /\ pc[i] \in {"rest", "closing"}
    /\ LeaveBehind(i)
    /\ cursor' = [cursor EXCEPT ![i] = Last(window[i])]
    /\ pc' = [pc EXCEPT ![i] = "query"]
    /\ UNCHANGED <<clock, published, tail, waived, toscan, found>>

\* Encoding or publishing failed, or its acknowledgement was lost: the cursor
\* stays, and the query is repeated after a backoff.
ProduceFails(i) ==
    /\ pc[i] \in {"rest", "closing"}
    /\ LeaveBehind(i)
    /\ pc' = [pc EXCEPT ![i] = "query"]
    /\ UNCHANGED <<clock, published, tail, waived, cursor, toscan, found>>

\* The process is stopped or killed, at any point.
Halt(i) ==
    /\ pc[i] # "down"
    /\ LeaveBehind(i)
    /\ pc' = [pc EXCEPT ![i] = "down"]
    /\ toscan' = [toscan EXCEPT ![i] = {}]
    /\ found' = [found EXCEPT ![i] = 0]
    /\ UNCHANGED <<clock, published, tail, waived, cursor>>

-----------------------------------------------------------------------------
Fault(i) == Refuse(i) \/ ProduceFails(i) \/ Halt(i)

Progress(i) ==
    \/ Start(i) \/ Resumed(i) \/ Query(i) \/ Close(i) \/ Advance(i)
    \/ \E p \in Parts : Scan(i, p)
    \/ \E e \in Events : Land(i, e)

Next ==
    \/ \E e \in Events : Happen(e)
    \/ \E g \in ghosts : GhostLands(g)
    \/ \E p \in Obscurable : Obscure(p)
    \/ \E i \in Instances :
          \/ Fault(i) \/ Progress(i)
          \/ \E t \in Overrides : StartAt(i, t)

Spec == Init /\ [][Next]_vars

-----------------------------------------------------------------------------
(* Correctness.                                                            *)

Complete(t) == \A e \in Events : e <= t => e \in published \/ e <= waived

\* No gap: whatever instances overlap, crash mid-window or are resumed from
\* what is left at the partition tails, every claim is true.  Every event up
\* to a claim in the topic, or up to the cursor of a running job, has been
\* published, save those the operator gave up with --timestamp-last.
NoGap ==
    /\ \A p \in Parts : \A t \in tail[p] : Complete(t)
    /\ \A i \in Instances : Complete(cursor[i]) /\ Complete(found[i])

\* The parts that make NoGap inductive.  A record still on its way to the
\* topic claims too much by no more than itself.  A window skips no event
\* after the cursor, all of it but the closing event is published or in
\* flight, and all of it is published before the closing event is produced.
GhostsTruthful ==
    \A g \in ghosts : \A e \in Events :
       e <= g.checkpoint => e \in published \/ e <= waived \/ e = g.event

Body(i) == Range(window[i]) \ {Last(window[i])}

WindowWhole ==
    \A i \in Instances :
       IF pc[i] \in {"rest", "closing"}
       THEN /\ window[i] # <<>>
            /\ \A e \in Events : cursor[i] < e /\ e <= Last(window[i])
                                    => e \in Range(window[i])
            /\ pc[i] = "rest" => /\ inflight[i] \subseteq Body(i)
                                 /\ Body(i) \subseteq published \cup inflight[i]
            /\ pc[i] = "closing" =>
                  /\ inflight[i] \subseteq {Last(window[i])}
                  /\ Range(window[i]) \subseteq published \cup inflight[i]
       ELSE inflight[i] = {}

CdcInv == TypeOK /\ NoGap /\ GhostsTruthful /\ WindowWhole

\* The topic alone is memory enough: as long as nobody else touches it, the
\* cursor never moves back, not even from one life of the job to the next,
\* so windows that were completed are not published again, whichever
\* partitions their records went to.
CursorNeverRegresses ==
    [][\A i \in Instances : cursor'[i] >= cursor[i]]_vars

\* Once the job is left alone, every event that happens gets published.
EveryEventPublished ==
    (<>[][\A i \in Instances : ~Fault(i)]_vars) =>
       \A e \in Events : [](clock >= e => <>(e \in published \/ e <= waived))

FairSpec == Spec /\ \A i \in Instances : WF_vars(Progress(i))
=============================================================================
