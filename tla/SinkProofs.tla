----------------------------- MODULE SinkProofs -----------------------------
(***************************************************************************)
(* What the sink promises while it drives its records through the batcher  *)
(* and the emitter, for every log, every limit and every set of records    *)
(* that are poison, panic or cannot be published.                          *)
(*                                                                         *)
(* The argument follows a record.  What was read and is not settled is     *)
(* pending in the tracker; what was handed off has its publications under  *)
(* way, failed or acknowledged; so what is marked done is settled, and an  *)
(* offset to be committed has only settled records below it.               *)
(***************************************************************************)
EXTENDS Sink, SequenceTheorems, FiniteSetTheorems, WellFoundedInduction, TLAPS

-----------------------------------------------------------------------------
(* The inductive invariant.                                                *)

\* TypeOK, and the domains it leaves open.
Typed ==
    /\ TypeOK
    /\ {todo, prep, handed, applied} \subseteq [Partitions -> SUBSET Nat]
    /\ outcome = [p \in Partitions |-> outcome[p]]
    /\ \A p \in Partitions : IsFiniteSet(prep[p])
    /\ \A j \in DOMAIN queue : queue[j].at \in Log[queue[j].part]

InPass == {"submit", "parked", "collect", "confirm"}

\* Workers run during a batch only, and hold records during a pass only.
Stages ==
    /\ pc # "batch" => stage = AllIdle
    /\ \A p \in Partitions :
          /\ stage[p] = "idle" => todo[p] = {}
          /\ stage[p] \notin InPass => prep[p] = {}

\* What the tracker knows of what the client has read.
TrackedAt(p) ==
    /\ tracker[p].forgotten => tracker[p].pending = {}
    /\ \A o \in Backlog(tracker[p]) \cup todo[p] : o < pos[p]
    /\ \A o \in Log[p] : o < pos[p] => Settled(p, o) \/ o \in tracker[p].pending
    /\ \A o \in Log[p] : o < committed[p] => Settled(p, o)
    /\ ~stopping => tracker[p].pending \subseteq todo[p]
Tracking == \A p \in Partitions : TrackedAt(p)

\* Everything a finish has handed off is on its way, failed or acknowledged.
Delivery(p, o) ==
    /\ o \in Poison[p] \/ o \in applied[p]
    /\ \E ks \in Issues(p, o) :
          \A k \in ks : <<p, o, k>> \in flying \cup failed \cup landed

\* Only an applied record, or one that never will be, has publications, and
\* the passes under way have them of what they handed off.
Publishing ==
    /\ \A p \in Partitions : \A o \in handed[p] : Delivery(p, o)
    /\ \A x \in flying \cup failed : x[2] \in handed[x[1]]
    /\ \A p \in Partitions : \A o \in Log[p] :
          outcome[p][o] = "applied" => o \in applied[p]
    /\ \A x \in flying \cup failed \cup orphans \cup landed :
          x[2] \in Poison[x[1]] \/ x[2] \in applied[x[1]]

\* The command of r is on the queue, and before place j.
Queued(p, r) == \E i \in DOMAIN queue : queue[i].part = p /\ queue[i].at = r
QueuedBefore(p, r, j) ==
    \E i \in DOMAIN queue : i < j /\ queue[i].part = p /\ queue[i].at = r

\* Until the shutdown the queue is in offset order where that matters: a
\* command is behind every command of its partition that comes before it and
\* has never been applied.
InOrder ==
    ~stopping => \A p \in Partitions :
       /\ \A j \in DOMAIN queue : \A r \in Log[p] \ Poison[p] :
             queue[j].part = p /\ r < queue[j].at =>
                r \in applied[p] \/ QueuedBefore(p, r, j)
       /\ \A r \in prep[p] \ Poison[p] : r \in applied[p] \/ Queued(p, r)

SinkInv == Typed /\ Stages /\ Tracking /\ Publishing /\ InOrder

-----------------------------------------------------------------------------
(* Least and greatest offsets, and what the tracker's methods do.          *)

\* A non-empty set of offsets has a least one.
LEMMA NatMin ==
  ASSUME NEW T, T \subseteq Nat, T # {}
  PROVE  LeastOf(T) # {}
  <1> DEFINE R == {ss \in Nat \X Nat : ss[1] < ss[2]}
  <1>1. IsWellFoundedOn(R, Nat)
    BY NatLessThanWellFounded DEF OpToRel
  <1>2. PICK x \in T : \A y \in T : ~(<<y, x>> \in R)
    BY <1>1, WFMin
  <1>3. ASSUME NEW y \in T PROVE x <= y
    <2>1. x \in Nat /\ y \in Nat
      BY <1>3
    <2>2. ~(y < x)
      <3>1. <<y, x>> \notin R
        BY <1>2
      <3> QED BY <3>1, <2>1
    <2> QED BY <2>1, <2>2
  <1> QED BY <1>3 DEF LeastOf

\* The picks the operators make.
LEMMA ThePick == ASSUME NEW S, S # {} PROVE The(S) \in S
  BY DEF The

\* Tracking a run of records: the state gains them, and a forgotten one
\* starts afresh.
LEMMA TrackAllFields ==
  ASSUME NEW st \in PartitionState, NEW S, S \subseteq Nat,
         S # {}, GreatestOf(S) # {}
  PROVE  /\ TrackAll(st, S) \in PartitionState
         /\ ~TrackAll(st, S).forgotten
         /\ TrackAll(st, S).pending = (IF st.forgotten THEN {} ELSE st.pending) \cup S
         /\ TrackAll(st, S).done \subseteq st.done
  <1> DEFINE rv == Revived(st)
             hi == The(GreatestOf(S \cup {rv.highest}))
             lo == IF rv.lowest < 0 THEN The(LeastOf(S))
                   ELSE The(LeastOf(S \cup {rv.lowest}))
  <1>1. rv \in PartitionState /\ ~rv.forgotten
    BY DEF Revived, Fresh, PartitionState
  <1>2. /\ rv.pending = IF st.forgotten THEN {} ELSE st.pending
        /\ rv.done \subseteq st.done
    BY DEF Revived, Fresh, PartitionState
  <1>3. hi \in Nat
    <2>1. PICK g \in S : \A y \in S : y <= g
      BY DEF GreatestOf
    <2>2. rv.highest \in Nat
      BY <1>1 DEF PartitionState
    <2>3. GreatestOf(S \cup {rv.highest}) # {}
      <3>1. CASE rv.highest <= g
        BY <2>1, <2>2, <3>1 DEF GreatestOf
      <3>2. CASE g <= rv.highest
        <4>1. \A y \in S : y <= rv.highest
          BY <2>1, <2>2, <3>2
        <4> QED BY <2>1, <2>2, <4>1 DEF GreatestOf
      <3> QED BY <2>1, <2>2, <3>1, <3>2
    <2>4. hi \in GreatestOf(S \cup {rv.highest})
      BY <2>3, ThePick
    <2> QED BY <2>2, <2>4 DEF GreatestOf
  <1>4. lo \in Nat
    <2>1. rv.lowest \in Nat \cup {-1}
      BY <1>1 DEF PartitionState
    <2>2. CASE rv.lowest < 0
      <3>1. The(LeastOf(S)) \in LeastOf(S)
        BY NatMin, ThePick
      <3> QED BY <2>2, <3>1 DEF LeastOf
    <2>3. CASE ~(rv.lowest < 0)
      <3>1. S \cup {rv.lowest} \subseteq Nat
        <4> DEFINE l == rv.lowest
        <4>1. l \in Nat \cup {-1} /\ ~(l < 0)
          BY <2>1, <2>3
        <4> HIDE DEF l
        <4>2. l \in Nat
          BY <4>1
        <4> QED BY <4>2 DEF l
      <3>2. The(LeastOf(S \cup {rv.lowest})) \in LeastOf(S \cup {rv.lowest})
        BY <3>1, NatMin, ThePick
      <3> QED BY <2>3, <3>1, <3>2 DEF LeastOf
    <2> QED BY <2>2, <2>3
  <1>5. TrackAll(st, S) = [rv EXCEPT !.pending = @ \cup S, !.highest = hi, !.lowest = lo]
    BY DEF TrackAll
  <1> HIDE DEF rv, hi, lo
  <1> QED BY <1>1, <1>2, <1>3, <1>4, <1>5 DEF PartitionState

\* Done moves a pending record and touches nothing else.
LEMMA DoneFields ==
  ASSUME NEW st \in PartitionState, NEW o \in Nat
  PROVE  /\ Done(st, o) \in PartitionState
         /\ Done(st, o).forgotten = st.forgotten
         /\ Done(st, o).pending = IF st.forgotten THEN st.pending ELSE st.pending \ {o}
         /\ Backlog(Done(st, o)) \subseteq Backlog(st)
  BY DEF Done, PartitionState, Backlog

\* MarkCommitted keeps what is pending.
LEMMA MarkFields ==
  ASSUME NEW st \in PartitionState, NEW w \in Nat
  PROVE  /\ MarkCommitted(st, w) \in PartitionState
         /\ MarkCommitted(st, w).forgotten = st.forgotten
         /\ MarkCommitted(st, w).pending = st.pending
         /\ MarkCommitted(st, w).done \subseteq st.done
  BY DEF MarkCommitted, PartitionState

\* An offset handed out for a commit is an offset, and only settled records
\* lie below it.
LEMMA CommitableSettled ==
  ASSUME SinkInv, NEW p \in Partitions, NEW w \in Commitable(tracker[p])
  PROVE  w \in Nat /\ \A o \in Log[p] : o < w => Settled(p, o)
  <1> DEFINE st == tracker[p]
  <1>1. /\ st.pending \subseteq Nat /\ st.done \subseteq Nat /\ pos[p] \in Nat
        /\ \A o \in st.pending \cup st.done : o < pos[p]
        /\ \A o \in Log[p] : o < pos[p] => Settled(p, o) \/ o \in st.pending
    BY DEF SinkInv, Typed, TypeOK, PartitionState, Tracking, TrackedAt, Backlog
  <1>2. \A o \in Log[p] : o \in Nat
    BY SinkAssumption
  <1>3. w \in Watermark(st)
    BY DEF Commitable
  <1>4. CASE st.pending # {}
    <2>1. w \in st.pending /\ \A y \in st.pending : w <= y
      BY <1>3, <1>4 DEF Watermark, LeastOf
    <2>2. ASSUME NEW o \in Log[p], o < w PROVE Settled(p, o)
      <3>1. o \notin st.pending
        BY <1>1, <1>2, <2>1, <2>2
      <3>2. o < pos[p]
        BY <1>1, <1>2, <2>1, <2>2
      <3> QED BY <1>1, <3>1, <3>2
    <2> QED BY <1>1, <2>1, <2>2
  <1>5. CASE st.pending = {}
    <2>1. PICK g \in st.done : w = g + 1
      BY <1>3, <1>5 DEF Watermark, GreatestOf
    <2>2. ASSUME NEW o \in Log[p], o < w PROVE Settled(p, o)
      <3>1. g \in Nat /\ g < pos[p]
        BY <1>1
      <3>2. o < pos[p]
        BY <1>1, <1>2, <2>1, <2>2, <3>1
      <3> QED BY <1>1, <1>5, <3>2
    <2> QED BY <1>1, <2>1, <2>2
  <1> QED BY <1>4, <1>5

-----------------------------------------------------------------------------
(* What a step that leaves a part of the state alone keeps.                *)

\* Nothing that is applied or acknowledged is ever taken back.
Growing ==
    /\ landed \subseteq landed'
    /\ \A p \in Partitions : applied[p] \subseteq applied'[p]

\* A settled record stays settled.
LEMMA SettledStays ==
  ASSUME Growing, NEW p \in Partitions, NEW o, Settled(p, o)
  PROVE  Settled(p, o)'
  BY DEF Growing, Settled, PoisonSlot

\* Only settling, tracking, reading and committing touch what is tracked.
LEMMA TrackingKept ==
  ASSUME Tracking, Growing, UNCHANGED <<offsets, todo>>, stopping => stopping'
  PROVE  Tracking'
  <1> SUFFICES ASSUME NEW p \in Partitions PROVE TrackedAt(p)'
    BY DEF Tracking
  <1>1. TrackedAt(p)
    BY DEF Tracking
  <1>2. \A o \in Log[p] : Settled(p, o) => Settled(p, o)'
    BY SettledStays
  <1> QED BY <1>1, <1>2 DEF TrackedAt, offsets

\* Publications change hands in the emitter and at hand-off only.
LEMMA PublishingKept ==
  ASSUME Publishing, UNCHANGED <<flying, failed, orphans, landed, handed, outcome, applied>>
  PROVE  Publishing'
  BY DEF Publishing, Delivery

\* The order of the queue is disturbed by submitting and applying only.
LEMMA InOrderKept ==
  ASSUME InOrder, UNCHANGED <<queue, applied>>, stopping => stopping',
         \A p \in Partitions : prep'[p] \subseteq prep[p]
  PROVE  InOrder'
  BY DEF InOrder, QueuedBefore, Queued

\* Steps that move goroutines on and no record.
Quiet ==
    /\ UNCHANGED <<offsets, todo, prep, handed, flying, failed, orphans, landed, batcher>>
    /\ stopping => stopping'

\* A quiet step that keeps to the types and the stages keeps the rest.
LEMMA QuietStep ==
  ASSUME SinkInv, Quiet, Stages',
         pc' \in {"poll", "batch", "post", "commit", "final", "exited"},
         {stopping', expired', leftover'} \subseteq BOOLEAN,
         stage' \in [Partitions -> {"idle", "top", "submit", "parked", "collect",
                                    "confirm", "retry", "left"}],
         failing' \in [Partitions -> BOOLEAN]
  PROVE  SinkInv'
  <1>1. Typed'
    BY DEF SinkInv, Quiet, Typed, TypeOK, offsets, batcher
  <1>2. Tracking'
    BY TrackingKept DEF SinkInv, Quiet, Growing, batcher
  <1>3. Publishing'
    BY PublishingKept DEF SinkInv, Quiet, batcher
  <1>4. InOrder'
    BY InOrderKept DEF SinkInv, Quiet, batcher
  <1> QED BY <1>1, <1>2, <1>3, <1>4 DEF SinkInv

\* Run between batches, and the shutdown's beginning.
LEMMA RunStep ==
  ASSUME SinkInv,
         \/ PollEmpty \/ Expire \/ CommitDue \/ NotYetDue \/ Stop
         \/ NothingToCommit \/ FlushReports \/ FlushCut
  PROVE  SinkInv'
  <1>1. Quiet
    BY DEF Quiet, PollEmpty, Expire, CommitDue, NotYetDue, Stop, NothingToCommit,
       FlushReports, FlushCut, CommitReturns, offsets, worker, emitter, batcher
  <1>2. UNCHANGED <<stage, failing>>
    BY DEF PollEmpty, Expire, CommitDue, NotYetDue, Stop, NothingToCommit,
       FlushReports, FlushCut, CommitReturns, worker
  <1>3. /\ pc' \in {"poll", "batch", "post", "commit", "final", "exited"}
        /\ pc' # "batch" => stage = AllIdle
    BY DEF PollEmpty, Expire, CommitDue, NotYetDue, Stop, NothingToCommit,
       FlushReports, FlushCut, CommitReturns, SinkInv, Stages, Typed, TypeOK
  <1>4. {stopping', expired', leftover'} \subseteq BOOLEAN
    BY DEF PollEmpty, Expire, CommitDue, NotYetDue, Stop, NothingToCommit,
       FlushReports, FlushCut, CommitReturns, SinkInv, Typed, TypeOK, emitter
  <1>5. Stages'
    BY <1>1, <1>2, <1>3 DEF Quiet, SinkInv, Stages, AllIdle
  <1> QED BY <1>1, <1>2, <1>3, <1>4, <1>5, QuietStep DEF SinkInv, Typed, TypeOK

\* The steps of a worker between those that move records.
LEMMA WorkerMovesOn ==
  ASSUME SinkInv, NEW p \in Partitions,
         \/ Finish(p) \/ StartPass(p) \/ SubmitCut(p) \/ AllSubmitted(p)
         \/ OutcomeFails(p) \/ CollectEnds(p) \/ Retry(p) \/ GiveUp(p)
  PROVE  SinkInv'
  <1>1. Quiet /\ UNCHANGED <<pc, stopping, expired, leftover>>
    BY DEF Quiet, Finish, StartPass, SubmitCut, AllSubmitted, OutcomeFails,
       CollectEnds, Retry, GiveUp, run, emitter
  <1>2. PICK s \in {"idle", "top", "submit", "collect", "confirm", "left"} :
           /\ stage' = [stage EXCEPT ![p] = s]
           /\ s = "idle" => todo[p] = {}
           /\ s \notin InPass => stage[p] \notin InPass
    BY DEF Finish, StartPass, SubmitCut, AllSubmitted, OutcomeFails,
       CollectEnds, Retry, GiveUp, InPass
  <1>3. failing' \in [Partitions -> BOOLEAN]
    BY DEF Finish, StartPass, SubmitCut, AllSubmitted, OutcomeFails,
       CollectEnds, Retry, GiveUp, SinkInv, Typed, TypeOK
  <1>4. stage[p] # "idle"
    BY DEF Finish, StartPass, SubmitCut, AllSubmitted, OutcomeFails,
       CollectEnds, Retry, GiveUp
  <1>5. Stages'
    <2>1. pc = "batch"
      BY <1>4 DEF SinkInv, Stages, AllIdle
    <2> QED BY <1>1, <1>2, <2>1 DEF SinkInv, Stages, Quiet, Typed, TypeOK
  <1> QED BY <1>1, <1>2, <1>3, <1>5, QuietStep DEF SinkInv, Typed, TypeOK

-----------------------------------------------------------------------------
(* The batcher and the broker.                                             *)

\* The command the batcher is at, and the queue it leaves.
LEMMA QueueHead ==
  ASSUME SinkInv, queue # <<>>
  PROVE  /\ Len(queue) \in Nat /\ Len(queue) >= 1
         /\ Head(queue) = queue[1]
         /\ queue[1] \in Command
         /\ queue[1].part \in Partitions
         /\ queue[1].at \in Log[queue[1].part]
         /\ Tail(queue) \in Seq(Command)
         /\ Len(Tail(queue)) = Len(queue) - 1
         /\ DOMAIN Tail(queue) = 1..(Len(queue) - 1)
         /\ \A i \in 1..(Len(queue) - 1) :
               i + 1 \in DOMAIN queue /\ Tail(queue)[i] = queue[i + 1]
  <1>1. queue \in Seq(Command) /\ \A j \in DOMAIN queue : queue[j].at \in Log[queue[j].part]
    BY DEF SinkInv, Typed, TypeOK
  <1>2. Len(queue) \in Nat /\ Len(queue) >= 1 /\ DOMAIN queue = 1..Len(queue)
    BY <1>1
  <1>3. Head(queue) = queue[1] /\ queue[1] \in Command
    BY <1>1, <1>2
  <1>4. queue[1].part \in Partitions
    BY <1>3 DEF Command
  <1>5. /\ Tail(queue) \in Seq(Command) /\ Len(Tail(queue)) = Len(queue) - 1
        /\ DOMAIN Tail(queue) = 1..(Len(queue) - 1)
        /\ \A i \in 1..(Len(queue) - 1) : Tail(queue)[i] = queue[i + 1]
    BY <1>1, <1>2
  <1> QED BY <1>1, <1>2, <1>3, <1>4, <1>5

\* What an answer does to the records applied: the head's joins them, or the
\* batcher is shutting down and nothing happens to them.
Answering(c) ==
    /\ queue # <<>> /\ c = Head(queue)
    /\ UNCHANGED <<run, offsets, worker, emitter>>
    /\ \/ ApplyHead
       \/ stopping /\ UNCHANGED applied
    /\ \/ Answer("applied") /\ ApplyHead
       \/ Answer("error")

\* The batcher answers every command in one of these ways.
LEMMA AnswerCases ==
  ASSUME Serve \/ Mismatch \/ CloseCommand
  PROVE  \E c : Answering(c)
  <1>1. Answering(Head(queue))
    BY DEF Serve, Mismatch, CloseCommand, Answering
  <1> QED BY <1>1

\* What an answer does, in terms of the head of the queue.
LEMMA AnswerEffect ==
  ASSUME SinkInv, NEW c, Answering(c)
  PROVE  /\ c = queue[1] /\ c.part \in Partitions /\ c.at \in Log[c.part]
         /\ Growing
         /\ applied' \in [Partitions -> SUBSET Nat]
         /\ \A p \in Partitions : applied'[p] \subseteq Log[p]
         /\ ~stopping => c.at \in applied'[c.part]
         /\ \A p \in Partitions : \A o \in applied'[p] \ applied[p] :
               p = c.part /\ o = c.at
         /\ outcome' = [p \in Partitions |-> outcome'[p]]
         /\ \A p \in Partitions :
               /\ outcome'[p] \in [Log[p] -> {"none", "applied", "error"}]
               /\ \A o \in Log[p] :
                     outcome'[p][o] = "applied" =>
                        outcome[p][o] = "applied" \/ o \in applied'[p]
  <1>1. c = queue[1] /\ c.part \in Partitions /\ c.at \in Log[c.part]
    BY QueueHead DEF Answering
  <1>2. applied' = [applied EXCEPT ![c.part] = @ \cup {c.at}] \/ (stopping /\ applied' = applied)
    BY DEF Answering, ApplyHead
  <1>3. applied \in [Partitions -> SUBSET Nat] /\ \A p \in Partitions : applied[p] \subseteq Log[p]
    BY DEF SinkInv, Typed, TypeOK
  <1>4. c.at \in Nat
    BY <1>1, SinkAssumption
  <1>5. /\ applied' \in [Partitions -> SUBSET Nat]
        /\ \A p \in Partitions : applied'[p] \subseteq Log[p]
        /\ \A p \in Partitions : applied[p] \subseteq applied'[p]
        /\ ~stopping => c.at \in applied'[c.part]
        /\ \A p \in Partitions : \A o \in applied'[p] \ applied[p] : p = c.part /\ o = c.at
    BY <1>1, <1>2, <1>3, <1>4
  <1>6. Growing
    BY <1>5 DEF Growing, Answering, emitter
  <1>7. PICK a \in {"applied", "error"} :
           /\ outcome' = outcome \/ outcome' = [outcome EXCEPT ![c.part][c.at] = a]
           /\ a = "applied" => c.at \in applied'[c.part]
    <2>1. CASE Answer("applied") /\ ApplyHead
      <3>1. c.at \in applied'[c.part]
        BY <1>1, <1>3, <2>1 DEF ApplyHead, Answering
      <3> QED BY <2>1, <3>1 DEF Answer, Answering
    <2>2. CASE Answer("error")
      BY <2>2 DEF Answer, Answering
    <2> QED BY <2>1, <2>2 DEF Answering
  <1>8. /\ outcome = [p \in Partitions |-> outcome[p]]
        /\ \A p \in Partitions : outcome[p] \in [Log[p] -> {"none", "applied", "error"}]
    BY DEF SinkInv, Typed, TypeOK
  <1>9. outcome' = [p \in Partitions |-> outcome'[p]]
    BY <1>7, <1>8
  <1>10. ASSUME NEW p \in Partitions
         PROVE  /\ outcome'[p] \in [Log[p] -> {"none", "applied", "error"}]
                /\ \A o \in Log[p] :
                      outcome'[p][o] = "applied" =>
                         outcome[p][o] = "applied" \/ o \in applied'[p]
    <2>1. outcome'[p] = outcome[p] \/ (p = c.part /\ outcome'[p] = [outcome[p] EXCEPT ![c.at] = a])
      BY <1>7, <1>8
    <2>2. CASE outcome'[p] = outcome[p]
      BY <1>8, <2>2
    <2>3. CASE p = c.part /\ outcome'[p] = [outcome[p] EXCEPT ![c.at] = a]
      <3>1. outcome'[p] \in [Log[p] -> {"none", "applied", "error"}]
        <4>1. outcome[p] \in [Log[p] -> {"none", "applied", "error"}]
          BY <1>8
        <4>2. a \in {"none", "applied", "error"}
          OBVIOUS
        <4> QED BY <2>3, <4>1, <4>2
      <3>2. ASSUME NEW o \in Log[p], outcome'[p][o] = "applied"
            PROVE  outcome[p][o] = "applied" \/ o \in applied'[p]
        <4>1. CASE o = c.at
          BY <1>1, <1>7, <1>8, <2>3, <3>2, <4>1
        <4>2. CASE o # c.at
          BY <1>8, <2>3, <3>2, <4>2
        <4> QED BY <4>1, <4>2
      <3> QED BY <3>1, <3>2
    <2> QED BY <2>1, <2>2, <2>3
  <1> QED BY <1>1, <1>5, <1>6, <1>9, <1>10

\* An answer: the command leaves the head of the queue, where nothing that
\* should have been applied before it is missing.
LEMMA AnswerStep ==
  ASSUME SinkInv, NEW c, Answering(c)
  PROVE  /\ SinkInv'
         /\ ~stopping => \A r \in Log[c.part] \ Poison[c.part] :
                            r < c.at => r \in applied[c.part]
  <1>1. /\ UNCHANGED <<run, offsets, worker, emitter>> /\ queue' = Tail(queue)
        /\ queue # <<>>
    BY DEF Answering, Answer
  <1>2. UNCHANGED <<pc, stopping, expired, stage, todo, prep, handed, failing,
                    flying, failed, orphans, leftover, landed>>
    BY <1>1 DEF run, worker, emitter
  <1> USE AnswerEffect
  <1>3. /\ queue' \in Seq(Command) /\ Len(queue') <= MaxQueue
        /\ \A j \in DOMAIN queue' : queue'[j].at \in Log[queue'[j].part]
    <2>1. Len(queue) <= MaxQueue /\ MaxQueue \in Nat
      BY SinkAssumption DEF SinkInv, Typed, TypeOK
    <2>2. Len(queue') <= MaxQueue
      BY <1>1, <2>1, QueueHead
    <2>3. ASSUME NEW j \in DOMAIN queue' PROVE queue'[j].at \in Log[queue'[j].part]
      <3>1. j + 1 \in DOMAIN queue /\ queue'[j] = queue[j + 1]
        BY <1>1, <2>3, QueueHead
      <3> QED BY <3>1 DEF SinkInv, Typed
    <2> QED BY <1>1, <2>2, <2>3, QueueHead
  <1>4. Typed'
    <2>1. outcome' = [p \in Partitions |-> outcome'[p]]
      OBVIOUS
    <2> QED BY <1>1, <1>2, <1>3, <2>1 DEF SinkInv, Typed, TypeOK, offsets
  <1>5. Stages'
    BY <1>2 DEF SinkInv, Stages
  <1>6. Tracking'
    BY <1>1, <1>2, TrackingKept DEF SinkInv
  <1>7. Publishing'
    <2>1. \A p \in Partitions : \A o \in handed[p] : Delivery(p, o)'
      BY <1>2 DEF SinkInv, Publishing, Delivery, Growing
    <2>2. \A p \in Partitions : \A o \in Log[p] :
             outcome'[p][o] = "applied" => o \in applied'[p]
      BY DEF SinkInv, Publishing, Growing
    <2>3. ASSUME NEW x \in flying \cup failed \cup orphans \cup landed
          PROVE  x[2] \in Poison[x[1]] \/ x[2] \in applied'[x[1]]
      <3>1. x[2] \in Poison[x[1]] \/ x[2] \in applied[x[1]]
        BY DEF SinkInv, Publishing
      <3>2. x[1] \in Partitions
        BY DEF SinkInv, Typed, TypeOK, Publications, PublicationsOf
      <3> QED BY <3>1, <3>2 DEF Growing
    <2> QED BY <1>2, <2>1, <2>2, <2>3 DEF SinkInv, Publishing
  <1>8. ~stopping => \A r \in Log[c.part] \ Poison[c.part] : r < c.at => r \in applied[c.part]
    <2>1. 1 \in DOMAIN queue /\ \A i \in DOMAIN queue : ~(i < 1)
      BY <1>1, QueueHead DEF SinkInv, Typed, TypeOK
    <2>2. \A p, r : ~QueuedBefore(p, r, 1)
      BY <2>1 DEF QueuedBefore
    <2> QED BY <2>1, <2>2 DEF SinkInv, InOrder
  <1>9. InOrder'
    <2> SUFFICES ASSUME ~stopping PROVE InOrder'
      BY <1>2 DEF InOrder
    <2>1. ASSUME NEW p \in Partitions, NEW r, NEW j \in Nat, QueuedBefore(p, r, j + 1)
          PROVE  r \in applied'[p] \/ QueuedBefore(p, r, j)'
      <3>1. PICK i \in DOMAIN queue : i < j + 1 /\ queue[i].part = p /\ queue[i].at = r
        BY <2>1 DEF QueuedBefore
      <3>2. CASE i = 1
        BY <3>1, <3>2
      <3>3. CASE i # 1
        <4> DEFINE m == i - 1
        <4>1. i \in 1..Len(queue)
          BY DEF SinkInv, Typed, TypeOK
        <4>2. m \in 1..(Len(queue) - 1) /\ m < j /\ m + 1 = i
          BY <3>1, <3>3, <4>1, <1>1, QueueHead
        <4> HIDE DEF m
        <4>3. m \in DOMAIN queue' /\ queue'[m] = queue[i]
          BY <4>2, <1>1, QueueHead
        <4> QED BY <3>1, <4>2, <4>3 DEF QueuedBefore
      <3> QED BY <3>2, <3>3
    <2>2. ASSUME NEW p \in Partitions, NEW j \in DOMAIN queue', NEW r \in Log[p] \ Poison[p],
                 queue'[j].part = p, r < queue'[j].at
          PROVE  r \in applied'[p] \/ QueuedBefore(p, r, j)'
      <3>1. j \in Nat /\ j + 1 \in DOMAIN queue /\ queue'[j] = queue[j + 1]
        BY <1>1, QueueHead
      <3>2. r \in applied[p] \/ QueuedBefore(p, r, j + 1)
        BY <2>2, <3>1 DEF SinkInv, InOrder
      <3> QED BY <2>1, <3>1, <3>2 DEF Growing
    <2>3. ASSUME NEW p \in Partitions, NEW r \in prep[p] \ Poison[p]
          PROVE  r \in applied'[p] \/ Queued(p, r)'
      <3>1. CASE r \in applied[p]
        BY <3>1 DEF Growing
      <3>2. CASE Queued(p, r)
        <4>1. PICK i \in DOMAIN queue : queue[i].part = p /\ queue[i].at = r
          BY <3>2 DEF Queued
        <4>2. i \in Nat
          BY DEF SinkInv, Typed, TypeOK
        <4>3. QueuedBefore(p, r, i + 1)
          BY <4>1, <4>2 DEF QueuedBefore
        <4>4. r \in applied'[p] \/ QueuedBefore(p, r, i)'
          BY <2>1, <4>2, <4>3
        <4> QED BY <4>4 DEF QueuedBefore, Queued
      <3> QED BY <3>1, <3>2 DEF SinkInv, InOrder
    <2> QED BY <1>2, <2>2, <2>3 DEF InOrder
  <1> QED BY <1>4, <1>5, <1>6, <1>7, <1>8, <1>9 DEF SinkInv

\* The broker answers: a publication lands or fails, and stays accounted for.
LEMMA BrokerStep ==
  ASSUME SinkInv, NEW x, Acknowledge(x) \/ Refuse(x)
  PROVE  SinkInv'
  <1>1. /\ UNCHANGED <<run, offsets, worker, batcher>>
        /\ x \in flying \cup orphans
        /\ flying' = flying \ {x} /\ orphans' = orphans \ {x}
        /\ \/ landed' = landed \cup {x} /\ UNCHANGED <<failed, leftover>>
           \/ /\ failed' = IF x \in flying THEN failed \cup {x} ELSE failed
              /\ leftover' = (leftover \/ x \in orphans)
              /\ UNCHANGED landed
    BY DEF Acknowledge, Refuse
  <1>2. UNCHANGED <<pc, stopping, expired, tracker, pos, committed, stage, todo, prep,
                    handed, failing, outcome, queue, applied>>
    BY <1>1 DEF run, offsets, worker, batcher
  <1>3. flying \cup failed \cup orphans \cup landed \subseteq Publications /\ flying \cap failed = {}
    BY DEF SinkInv, Typed, TypeOK
  <1>4. /\ flying' \cup failed' \cup orphans' \cup landed' \subseteq Publications
        /\ flying' \cap failed' = {}
    BY <1>1, <1>3
  <1>5. leftover' \in BOOLEAN
    BY <1>1 DEF SinkInv, Typed, TypeOK
  <1>6. Typed'
    BY <1>2, <1>4, <1>5 DEF SinkInv, Typed, TypeOK
  <1>7. Stages'
    BY <1>2 DEF SinkInv, Stages
  <1>8. Tracking'
    BY <1>1, <1>2, TrackingKept DEF SinkInv, Growing
  <1>9. Publishing'
    <2>1. flying \cup failed \cup landed \subseteq flying' \cup failed' \cup landed'
      BY <1>1
    <2>2. flying' \cup failed' \subseteq flying \cup failed
      BY <1>1
    <2>3. flying' \cup failed' \cup orphans' \cup landed'
            \subseteq flying \cup failed \cup orphans \cup landed
      BY <1>1
    <2>4. \A p \in Partitions : \A o \in handed[p] : Delivery(p, o)'
      BY <1>2, <2>1 DEF SinkInv, Publishing, Delivery
    <2> QED BY <1>2, <2>2, <2>3, <2>4 DEF SinkInv, Publishing
  <1>10. InOrder'
    BY <1>2, InOrderKept DEF SinkInv
  <1> QED BY <1>6, <1>7, <1>8, <1>9, <1>10 DEF SinkInv

-----------------------------------------------------------------------------
(* Batches.                                                                *)

\* A poll reads on, and tracks everything it reads.
LEMMA PollStep ==
  ASSUME SinkInv, Poll
  PROVE  SinkInv'
  <1>1. PICK got \in [Partitions -> SUBSET UNION {Log[p] : p \in Partitions}] :
          /\ \A p \in Partitions :
                /\ got[p] \subseteq {o \in Log[p] : o >= pos[p]}
                /\ \A o \in got[p], r \in Log[p] : pos[p] <= r /\ r < o => r \in got[p]
                /\ got[p] # {} => GreatestOf(got[p]) # {}
          /\ tracker' = [p \in Partitions |-> TrackAll(tracker[p], got[p])]
          /\ pos' = [p \in Partitions |->
                       IF got[p] = {} THEN pos[p] ELSE The(GreatestOf(got[p])) + 1]
          /\ todo' = got
          /\ stage' = [p \in Partitions |-> IF got[p] = {} THEN "idle" ELSE "top"]
    BY DEF Poll
  <1>2. /\ pc = "poll" /\ pc' = "batch"
        /\ UNCHANGED <<stopping, expired, committed, prep, handed, failing, flying, failed,
                       orphans, leftover, landed, outcome, queue, applied>>
    BY DEF Poll, emitter, batcher
  <1>3. \A p \in Partitions : todo[p] = {} /\ prep[p] = {}
    BY <1>2 DEF SinkInv, Stages, AllIdle, InPass
  <1>4. \A p \in Partitions : Log[p] \subseteq Nat
    BY SinkAssumption
  <1>5. \A p \in Partitions : tracker[p] \in PartitionState /\ pos[p] \in Nat
    BY DEF SinkInv, Typed, TypeOK
  <1>6. ASSUME NEW p \in Partitions, got[p] # {}
        PROVE  LET g == The(GreatestOf(got[p])) IN
               /\ g \in Nat /\ pos[p] <= g /\ pos'[p] = g + 1
               /\ g \in got[p] /\ \A o \in got[p] : o <= g
    <2>1. The(GreatestOf(got[p])) \in GreatestOf(got[p])
      BY <1>1, <1>6, ThePick
    <2> QED BY <1>1, <1>4, <1>5, <1>6, <2>1 DEF GreatestOf
  <1>7. ASSUME NEW p \in Partitions
        PROVE  tracker'[p] \in PartitionState /\ pos'[p] \in Nat /\ pos[p] <= pos'[p]
    <2>1. CASE got[p] = {}
      <3>1. tracker'[p] = tracker[p] /\ pos'[p] = pos[p]
        BY <1>1, <2>1 DEF TrackAll
      <3> QED BY <1>5, <3>1
    <2>2. CASE got[p] # {}
      <3>1. tracker'[p] \in PartitionState
        BY <1>1, <1>4, <1>5, <2>2, TrackAllFields
      <3> QED BY <1>5, <1>6, <2>2, <3>1
    <2> QED BY <2>1, <2>2
  <1>8. Typed'
    <2>1. tracker' \in [Partitions -> PartitionState] /\ pos' \in [Partitions -> Nat]
      BY <1>1, <1>7
    <2>2. todo' \in [Partitions -> SUBSET Nat] /\ \A p \in Partitions : todo'[p] \subseteq Log[p]
      BY <1>1, <1>4
    <2>3. stage' \in [Partitions -> {"idle", "top", "submit", "parked", "collect",
                                     "confirm", "retry", "left"}]
      BY <1>1
    <2>4. \A p \in Partitions : prep'[p] \subseteq todo'[p]
      BY <1>2, <1>3
    <2> QED BY <1>2, <2>1, <2>2, <2>3, <2>4 DEF SinkInv, Typed, TypeOK
  <1>9. Stages'
    BY <1>1, <1>2, <1>3 DEF Stages
  <1>10. Tracking'
    <2> SUFFICES ASSUME NEW p \in Partitions PROVE TrackedAt(p)'
      BY DEF Tracking
    <2>1. TrackedAt(p)
      BY DEF SinkInv, Tracking
    <2>2. \A o \in Log[p] : Settled(p, o)' <=> Settled(p, o)
      BY <1>2 DEF Settled
    <2>3. CASE got[p] = {}
      BY <1>1, <1>2, <1>3, <2>1, <2>2, <2>3 DEF TrackedAt, TrackAll
    <2>4. CASE got[p] # {}
      <3> DEFINE st == tracker[p]
                 new == TrackAll(st, got[p])
      <3>1. /\ tracker'[p] = new /\ ~new.forgotten
            /\ new.pending = (IF st.forgotten THEN {} ELSE st.pending) \cup got[p]
            /\ new.done \subseteq st.done
        BY <1>1, <1>4, <1>5, <2>4, TrackAllFields
      <3>2. new.pending = st.pending \cup got[p]
        BY <2>1, <3>1 DEF TrackedAt
      <3> DEFINE g == The(GreatestOf(got[p]))
      <3>3. /\ g \in Nat /\ pos[p] <= g /\ pos'[p] = g + 1
            /\ g \in got[p] /\ \A o \in got[p] : o <= g
        BY <1>6, <2>4
      <3> HIDE DEF g
      <3>4. ASSUME NEW o \in Backlog(new) \cup got[p] PROVE o < pos'[p]
        <4>1. CASE o \in got[p]
          BY <1>1, <1>4, <3>3, <4>1
        <4>2. CASE o \in Backlog(st)
          <5>1. o < pos[p] /\ o \in Nat
            BY <1>5, <2>1, <4>2 DEF TrackedAt, Backlog, PartitionState
          <5> QED BY <1>5, <3>3, <5>1
        <4> QED BY <3>1, <3>2, <4>1, <4>2 DEF Backlog
      <3>5. ASSUME NEW o \in Log[p], o < pos'[p] PROVE Settled(p, o) \/ o \in new.pending
        <4>1. CASE o < pos[p]
          BY <2>1, <3>2, <4>1 DEF TrackedAt
        <4>2. CASE pos[p] <= o
          <5>1. o \in Nat
            BY <1>4
          <5>2. o = g \/ o < g
            BY <3>3, <3>5, <5>1
          <5>3. o \in got[p]
            BY <1>1, <3>3, <4>2, <5>2
          <5> QED BY <3>2, <5>3
        <4> QED BY <1>4, <1>5, <4>1, <4>2
      <3>6. ~stopping => new.pending \subseteq got[p]
        BY <1>3, <2>1, <3>2 DEF TrackedAt
      <3> QED BY <1>1, <1>2, <2>1, <2>2, <3>1, <3>4, <3>5, <3>6 DEF TrackedAt
    <2> QED BY <2>3, <2>4
  <1>11. Publishing'
    BY <1>2, PublishingKept DEF SinkInv
  <1>12. InOrder'
    BY <1>2, InOrderKept DEF SinkInv
  <1> QED BY <1>8, <1>9, <1>10, <1>11, <1>12 DEF SinkInv

\* The end of a batch: what is abandoned will be read again from its first
\* unfinished record on.
LEMMA BatchEndStep ==
  ASSUME SinkInv, JoinWorkers \/ AbandonBatch
  PROVE  SinkInv'
  <1>1. WorkersDone /\ BatchOver
    BY DEF JoinWorkers, AbandonBatch
  <1>2. /\ pc' = "post" /\ expired' = FALSE /\ stage' = AllIdle /\ todo' = NoRecords
        /\ UNCHANGED <<stopping, committed, prep, handed, failing, flying, failed,
                       orphans, leftover, landed, outcome, queue, applied>>
    BY <1>1 DEF BatchOver, emitter, batcher
  <1>3. \A p \in Partitions : stage[p] \in {"idle", "left"} /\ prep[p] = {}
    BY <1>1 DEF WorkersDone, SinkInv, Stages, InPass
  <1>4. ASSUME NEW p \in Partitions
        PROVE  \/ /\ tracker'[p] = tracker[p] /\ pos'[p] = pos[p]
                  /\ ~stopping => tracker[p].pending = {}
               \/ /\ tracker'[p] = Tombstone /\ pos'[p] \in LeastOf(tracker[p].pending)
    <2>0. /\ TrackedAt(p) /\ tracker[p].pending \subseteq Nat
          /\ tracker \in [Partitions -> PartitionState] /\ pos \in [Partitions -> Nat]
      BY DEF SinkInv, Tracking, Typed, TypeOK, PartitionState
    <2>1. CASE JoinWorkers
      <3>1. ~stopping => todo[p] = {}
        BY <2>1 DEF JoinWorkers, SinkInv, Stages
      <3> QED BY <2>0, <2>1, <3>1 DEF JoinWorkers, TrackedAt
    <2>2. CASE AbandonBatch /\ p \in Unfinished
      <3>1. RewindPoint(tracker[p]) # {}
        BY <2>2 DEF Unfinished
      <3>2. The(RewindPoint(tracker[p])) \in RewindPoint(tracker[p])
        BY <3>1, ThePick
      <3>3. pos'[p] = The(RewindPoint(tracker[p])) /\ tracker'[p] = Tombstone
        BY <2>2 DEF AbandonBatch, Forget
      <3> QED BY <3>2, <3>3 DEF RewindPoint
    <2>3. CASE AbandonBatch /\ p \notin Unfinished
      <3>1. RewindPoint(tracker[p]) = {}
        BY <2>3 DEF Unfinished
      <3>2. tracker[p].pending = {}
        <4>1. CASE tracker[p].forgotten
          BY <2>0, <4>1 DEF TrackedAt
        <4>2. CASE ~tracker[p].forgotten
          BY <2>0, <3>1, <4>2, NatMin DEF RewindPoint
        <4> QED BY <4>1, <4>2
      <3> QED BY <2>3, <3>2 DEF AbandonBatch
    <2> QED BY <2>1, <2>2, <2>3
  <1>5. Typed'
    <2>1. DOMAIN tracker' = Partitions /\ DOMAIN pos' = Partitions
      BY DEF JoinWorkers, AbandonBatch, SinkInv, Typed, TypeOK
    <2>2. tracker' = [p \in Partitions |-> tracker'[p]] /\ pos' = [p \in Partitions |-> pos'[p]]
      BY DEF JoinWorkers, AbandonBatch, SinkInv, Typed, TypeOK
    <2>3. Tombstone \in PartitionState
      BY DEF Tombstone, PartitionState
    <2>4. ASSUME NEW p \in Partitions PROVE tracker'[p] \in PartitionState /\ pos'[p] \in Nat
      <3>1. tracker[p] \in PartitionState /\ pos[p] \in Nat /\ tracker[p].pending \subseteq Nat
        BY DEF SinkInv, Typed, TypeOK, PartitionState
      <3> QED BY <1>4, <2>3, <3>1 DEF LeastOf
    <2>5. tracker' \in [Partitions -> PartitionState] /\ pos' \in [Partitions -> Nat]
      BY <2>2, <2>4
    <2>6. stage' \in [Partitions -> {"idle", "top", "submit", "parked", "collect",
                                     "confirm", "retry", "left"}]
      BY <1>2 DEF AllIdle
    <2>7. todo' \in [Partitions -> SUBSET Nat] /\ \A p \in Partitions : todo'[p] = {}
      BY <1>2 DEF NoRecords
    <2>8. \A p \in Partitions : /\ handed'[p] \subseteq prep'[p]
                                /\ prep'[p] \subseteq todo'[p]
                                /\ todo'[p] \subseteq Log[p]
      BY <1>2, <1>3, <2>7 DEF SinkInv, Typed, TypeOK
    <2>9. {stopping', expired', leftover'} \subseteq BOOLEAN
      BY <1>2 DEF SinkInv, Typed, TypeOK
    <2>10. TypeOK'
      BY <1>2, <2>5, <2>6, <2>8, <2>9 DEF SinkInv, Typed, TypeOK
    <2> QED BY <1>2, <2>7, <2>10 DEF SinkInv, Typed
  <1>6. Stages'
    BY <1>2, <1>3 DEF Stages, AllIdle, NoRecords
  <1>7. Tracking'
    <2> SUFFICES ASSUME NEW p \in Partitions PROVE TrackedAt(p)'
      BY DEF Tracking
    <2>1. TrackedAt(p) /\ tracker[p].pending \subseteq Nat /\ Log[p] \subseteq Nat /\ pos[p] \in Nat
      BY SinkAssumption DEF SinkInv, Tracking, Typed, TypeOK, PartitionState
    <2>2. \A o \in Log[p] : Settled(p, o)' <=> Settled(p, o)
      BY <1>2 DEF Settled
    <2>3. todo'[p] = {}
      BY <1>2 DEF NoRecords
    <2>4. CASE /\ tracker'[p] = tracker[p] /\ pos'[p] = pos[p]
               /\ ~stopping => tracker[p].pending = {}
      BY <1>2, <2>1, <2>2, <2>3, <2>4 DEF TrackedAt
    <2>5. CASE tracker'[p] = Tombstone /\ pos'[p] \in LeastOf(tracker[p].pending)
      <3>1. /\ pos'[p] \in tracker[p].pending
            /\ \A y \in tracker[p].pending : pos'[p] <= y
        BY <2>5 DEF LeastOf
      <3>2. pos'[p] < pos[p] /\ pos'[p] \in Nat
        BY <2>1, <3>1 DEF TrackedAt, Backlog
      <3>3. ASSUME NEW o \in Log[p], o < pos'[p] PROVE Settled(p, o)
        <4>1. o \in Nat
          BY <2>1
        <4>2. o < pos[p] /\ o \notin tracker[p].pending
          BY <2>1, <3>1, <3>2, <3>3, <4>1
        <4> QED BY <2>1, <4>2 DEF TrackedAt
      <3>4. Tombstone.pending = {} /\ Backlog(Tombstone) = {}
        BY DEF Tombstone, Backlog
      <3> QED BY <1>2, <2>1, <2>2, <2>3, <2>5, <3>3, <3>4 DEF TrackedAt
    <2> QED BY <1>4, <2>4, <2>5
  <1>8. Publishing'
    BY <1>2, PublishingKept DEF SinkInv
  <1>9. InOrder'
    BY <1>2, InOrderKept DEF SinkInv
  <1> QED BY <1>5, <1>6, <1>7, <1>8, <1>9 DEF SinkInv

-----------------------------------------------------------------------------
(* A pass.                                                                 *)

\* One more record prepared keeps the limit of the pass.
LEMMA OneMorePrepared ==
  ASSUME SinkInv, NEW p \in Partitions, NEW o \in NextToPrepare(p),
         prep' = [prep EXCEPT ![p] = @ \cup {o}]
  PROVE  /\ prep' \in [Partitions -> SUBSET Nat]
         /\ \A q \in Partitions : /\ IsFiniteSet(prep'[q])
                                  /\ Cardinality(prep'[q]) <= MaxInFlight
                                  /\ prep[q] \subseteq prep'[q]
                                  /\ prep'[q] \subseteq todo[q]
         /\ o \in todo[p] \ prep[p]
         /\ \A r \in todo[p] : r < o => r \in prep[p]
         /\ o \in Nat
  <1>1. /\ prep \in [Partitions -> SUBSET Nat] /\ todo[p] \subseteq Nat
        /\ \A q \in Partitions : /\ IsFiniteSet(prep[q])
                                 /\ Cardinality(prep[q]) <= MaxInFlight
                                 /\ prep[q] \subseteq todo[q]
    BY DEF SinkInv, Typed, TypeOK
  <1>2. Cardinality(prep[p]) < MaxInFlight /\ o \in LeastOf(todo[p] \ prep[p])
    BY DEF NextToPrepare
  <1>3. o \in todo[p] \ prep[p] /\ \A y \in todo[p] \ prep[p] : o <= y
    BY <1>2 DEF LeastOf
  <1>4. o \in Nat
    BY <1>1, <1>3
  <1>5. \A r \in todo[p] : r < o => r \in prep[p]
    BY <1>1, <1>3, <1>4
  <1>6. Cardinality(prep[p]) \in Nat /\ MaxInFlight \in Nat
    BY <1>1, FS_CardinalityType, SinkAssumption
  <1>7. /\ IsFiniteSet(prep[p] \cup {o})
        /\ Cardinality(prep[p] \cup {o}) = Cardinality(prep[p]) + 1
    BY <1>1, <1>3, FS_AddElement
  <1>8. Cardinality(prep[p] \cup {o}) <= MaxInFlight
    <2> DEFINE n == Cardinality(prep[p])
               m == Cardinality(prep[p] \cup {o})
    <2>1. n \in Nat /\ n < MaxInFlight /\ m = n + 1 /\ MaxInFlight \in Nat
      BY <1>2, <1>6, <1>7
    <2> HIDE DEF n, m
    <2>2. m <= MaxInFlight
      BY <2>1
    <2> QED BY <2>2 DEF m
  <1>9. prep' \in [Partitions -> SUBSET Nat]
    BY <1>1, <1>4
  <1>10. ASSUME NEW q \in Partitions
         PROVE  /\ IsFiniteSet(prep'[q])
                /\ Cardinality(prep'[q]) <= MaxInFlight
                /\ prep[q] \subseteq prep'[q]
                /\ prep'[q] \subseteq todo[q]
    <2>1. CASE q = p
      <3>1. prep'[q] = prep[p] \cup {o}
        BY <1>1, <2>1
      <3> QED BY <1>1, <1>3, <1>7, <1>8, <2>1, <3>1
    <2>2. CASE q # p
      <3>1. prep'[q] = prep[q]
        BY <1>1, <2>2
      <3> QED BY <1>1, <3>1
    <2> QED BY <2>1, <2>2
  <1> QED BY <1>3, <1>4, <1>5, <1>9, <1>10

\* A worker past the top of its loop has a batch under way.
LEMMA BatchUnderWay ==
  ASSUME SinkInv, NEW p \in Partitions, stage[p] # "idle"
  PROVE  pc = "batch"
  BY DEF SinkInv, Stages, AllIdle

\* A poison record is prepared at once, any other waits for the queue.
LEMMA PrepareStep ==
  ASSUME SinkInv, NEW p \in Partitions, Prepare(p)
  PROVE  SinkInv'
  <1>1. PICK o \in NextToPrepare(p) :
           IF o \in Poison[p]
           THEN prep' = [prep EXCEPT ![p] = @ \cup {o}] /\ UNCHANGED stage
           ELSE stage' = [stage EXCEPT ![p] = "parked"] /\ UNCHANGED prep
    BY DEF Prepare
  <1>2. /\ stage[p] = "submit"
        /\ UNCHANGED <<pc, stopping, expired, tracker, pos, committed, todo, handed, failing,
                       flying, failed, orphans, leftover, landed, outcome, queue, applied>>
    BY DEF Prepare, run, offsets, emitter, batcher
  <1>3. pc = "batch"
    BY <1>2, BatchUnderWay
  <1>4. CASE o \in Poison[p]
    <2>1. prep' = [prep EXCEPT ![p] = @ \cup {o}] /\ stage' = stage
      BY <1>1, <1>4
    <2>2. /\ prep' \in [Partitions -> SUBSET Nat]
          /\ \A q \in Partitions : /\ IsFiniteSet(prep'[q])
                                   /\ Cardinality(prep'[q]) <= MaxInFlight
                                   /\ prep[q] \subseteq prep'[q]
                                   /\ prep'[q] \subseteq todo[q]
      BY <2>1, OneMorePrepared
    <2>3. Typed'
      <3>1. stage' = stage
        BY <2>1
      <3>2. \A q \in Partitions : handed'[q] \subseteq prep'[q]
        BY <1>2, <2>2 DEF SinkInv, Typed, TypeOK
      <3>3. TypeOK'
        BY <1>2, <2>2, <3>1, <3>2 DEF SinkInv, Typed, TypeOK
      <3> QED BY <1>2, <2>2, <3>3 DEF SinkInv, Typed
    <2>4. Stages'
      BY <1>2, <1>3, <2>1 DEF SinkInv, Stages, InPass, Typed, TypeOK
    <2>5. Tracking'
      BY <1>2, TrackingKept DEF SinkInv, Growing, offsets
    <2>6. Publishing'
      BY <1>2, PublishingKept DEF SinkInv
    <2>7. \A q \in Partitions : prep'[q] \ Poison[q] \subseteq prep[q] \ Poison[q]
      BY <1>4, <2>1 DEF SinkInv, Typed
    <2>8. InOrder'
      BY <1>2, <2>7 DEF SinkInv, InOrder, QueuedBefore, Queued
    <2> QED BY <2>3, <2>4, <2>5, <2>6, <2>8 DEF SinkInv
  <1>5. CASE o \notin Poison[p]
    <2>1. prep' = prep /\ stage' = [stage EXCEPT ![p] = "parked"]
      BY <1>1, <1>5
    <2>2. Stages'
      BY <1>2, <1>3, <2>1 DEF SinkInv, Stages, InPass, Typed, TypeOK
    <2>3. Quiet
      BY <1>2, <2>1 DEF Quiet, offsets, batcher
    <2>4. stage' \in [Partitions -> {"idle", "top", "submit", "parked", "collect",
                                     "confirm", "retry", "left"}]
      BY <2>1 DEF SinkInv, Typed, TypeOK
    <2> QED BY <1>2, <2>2, <2>3, <2>4, QuietStep DEF SinkInv, Typed, TypeOK
  <1> QED BY <1>4, <1>5

\* A command gets on the queue behind those of the records before it.
LEMMA SubmitStep ==
  ASSUME SinkInv, NEW p \in Partitions, Submit(p)
  PROVE  SinkInv'
  <1>1. PICK o \in NextToPrepare(p) :
           /\ queue' = Append(queue, [part |-> p, at |-> o, live |-> TRUE])
           /\ prep' = [prep EXCEPT ![p] = @ \cup {o}]
    BY DEF Submit
  <1>2. /\ stage[p] = "parked" /\ Len(queue) < MaxQueue
        /\ stage' = [stage EXCEPT ![p] = "submit"]
        /\ UNCHANGED <<pc, stopping, expired, tracker, pos, committed, todo, handed, failing,
                       flying, failed, orphans, leftover, landed, outcome, applied>>
    BY DEF Submit, run, offsets, emitter
  <1>3. pc = "batch"
    BY <1>2, BatchUnderWay
  <1>4. /\ prep' \in [Partitions -> SUBSET Nat]
        /\ \A q \in Partitions : /\ IsFiniteSet(prep'[q])
                                 /\ Cardinality(prep'[q]) <= MaxInFlight
                                 /\ prep[q] \subseteq prep'[q]
                                 /\ prep'[q] \subseteq todo[q]
    BY <1>1, OneMorePrepared
  <1>5. /\ o \in todo[p] \ prep[p] /\ o \in Nat
        /\ \A r \in todo[p] : r < o => r \in prep[p]
    BY <1>1, OneMorePrepared
  <1> DEFINE cmd == [part |-> p, at |-> o, live |-> TRUE]
             n == Len(queue)
  <1>6. o \in Log[p]
    BY <1>5 DEF SinkInv, Typed, TypeOK
  <1>7. cmd \in Command
    BY <1>6 DEF Command
  <1>8. queue \in Seq(Command) /\ n \in Nat /\ DOMAIN queue = 1..n
    BY DEF SinkInv, Typed, TypeOK
  <1>9. /\ queue' \in Seq(Command) /\ Len(queue') = n + 1 /\ DOMAIN queue' = 1..(n + 1)
        /\ \A i \in 1..n : queue'[i] = queue[i]
        /\ queue'[n + 1] = cmd
    BY <1>1, <1>7, <1>8
  <1>10. Len(queue') <= MaxQueue
    BY <1>2, <1>8, <1>9, SinkAssumption
  <1>11. \A j \in DOMAIN queue' : queue'[j].at \in Log[queue'[j].part]
    <2> SUFFICES ASSUME NEW j \in 1..(n + 1) PROVE queue'[j].at \in Log[queue'[j].part]
      BY <1>9
    <2>1. CASE j = n + 1
      BY <1>6, <1>9, <2>1
    <2>2. CASE j \in 1..n
      BY <1>8, <1>9, <2>2 DEF SinkInv, Typed
    <2> QED BY <1>8, <2>1, <2>2
  <1>12. stage' \in [Partitions -> {"idle", "top", "submit", "parked", "collect",
                                    "confirm", "retry", "left"}]
    BY <1>2 DEF SinkInv, Typed, TypeOK
  <1>13. Typed'
    BY <1>2, <1>4, <1>9, <1>10, <1>11, <1>12 DEF SinkInv, Typed, TypeOK
  <1>14. Stages'
    BY <1>1, <1>2, <1>3 DEF SinkInv, Stages, InPass, Typed, TypeOK
  <1>15. Tracking'
    BY <1>2, TrackingKept DEF SinkInv, Growing, offsets
  <1>16. Publishing'
    BY <1>2, PublishingKept DEF SinkInv
  <1>17. InOrder'
    <2> SUFFICES ASSUME ~stopping PROVE InOrder'
      BY <1>2 DEF InOrder
    <2>1. ASSUME NEW q \in Partitions, NEW r, NEW j, j = n + 1, Queued(q, r)
          PROVE  Queued(q, r)' /\ QueuedBefore(q, r, j)'
      <3>1. PICK i \in 1..n : queue[i].part = q /\ queue[i].at = r
        BY <1>8, <2>1 DEF Queued
      <3>2. i \in DOMAIN queue' /\ i < j /\ queue'[i] = queue[i]
        BY <1>8, <1>9, <2>1
      <3> QED BY <3>1, <3>2 DEF Queued, QueuedBefore
    <2>2. ASSUME NEW q \in Partitions, NEW r, NEW j \in 1..n, QueuedBefore(q, r, j)
          PROVE  QueuedBefore(q, r, j)'
      <3>1. PICK i \in 1..n : i < j /\ queue[i].part = q /\ queue[i].at = r
        BY <1>8, <2>2 DEF QueuedBefore
      <3>2. i \in DOMAIN queue' /\ queue'[i] = queue[i]
        BY <1>8, <1>9
      <3> QED BY <3>1, <3>2 DEF QueuedBefore
    <2>3. ASSUME NEW r \in Log[p] \ Poison[p], r < o
          PROVE  r \in applied[p] \/ Queued(p, r)
      <3>1. CASE r \in todo[p]
        BY <1>5, <2>3, <3>1 DEF SinkInv, InOrder
      <3>2. CASE r \notin todo[p]
        <4>1. TrackedAt(p)
          BY DEF SinkInv, Tracking
        <4>2. r \in Nat /\ pos[p] \in Nat
          BY SinkAssumption DEF SinkInv, Typed, TypeOK
        <4>3. o < pos[p]
          BY <1>5, <4>1 DEF TrackedAt
        <4>4. r < pos[p]
          BY <1>5, <2>3, <4>2, <4>3
        <4>5. Settled(p, r)
          BY <3>2, <4>1, <4>4 DEF TrackedAt
        <4>6. CASE <<p, r, PoisonSlot(p, r)>> \in landed
          BY <4>6 DEF SinkInv, Publishing
        <4>7. CASE r \in applied[p]
          BY <4>7
        <4> QED BY <4>5, <4>6, <4>7 DEF Settled
      <3> QED BY <3>1, <3>2
    <2>4. ASSUME NEW q \in Partitions, NEW j \in DOMAIN queue', NEW r \in Log[q] \ Poison[q],
                 queue'[j].part = q, r < queue'[j].at
          PROVE  r \in applied[q] \/ QueuedBefore(q, r, j)'
      <3>1. CASE j = n + 1
        <4>1. q = p /\ queue'[j].at = o
          BY <1>9, <2>4, <3>1
        <4> QED BY <2>1, <2>3, <2>4, <3>1, <4>1
      <3>2. CASE j \in 1..n
        <4>1. queue'[j] = queue[j] /\ j \in DOMAIN queue
          BY <1>8, <1>9, <3>2
        <4>2. r \in applied[q] \/ QueuedBefore(q, r, j)
          BY <2>4, <4>1 DEF SinkInv, InOrder
        <4> QED BY <2>2, <3>2, <4>2
      <3> QED BY <1>8, <1>9, <3>1, <3>2
    <2>5. ASSUME NEW q \in Partitions, NEW r \in prep'[q] \ Poison[q]
          PROVE  r \in applied[q] \/ Queued(q, r)'
      <3>1. CASE r \in prep[q]
        BY <2>1, <2>5, <3>1 DEF SinkInv, InOrder
      <3>2. CASE r \notin prep[q]
        <4>1. q = p /\ r = o
          BY <1>1, <2>5, <3>2 DEF SinkInv, Typed
        <4>2. n + 1 \in DOMAIN queue' /\ queue'[n + 1].part = p /\ queue'[n + 1].at = o
          BY <1>8, <1>9
        <4> QED BY <4>1, <4>2 DEF Queued
      <3> QED BY <3>1, <3>2
    <2> QED BY <1>2, <2>4, <2>5 DEF InOrder
  <1> QED BY <1>13, <1>14, <1>15, <1>16, <1>17 DEF SinkInv

\* The slots a finish fills are slots of its record.
LEMMA IssuesAreSlots ==
  ASSUME NEW p \in Partitions, NEW o \in Log[p], NEW ks \in Issues(p, o)
  PROVE  ks \subseteq Slots(p, o)
  <1>1. Outputs[p][o] \in Nat
    BY SinkAssumption
  <1> DEFINE n == Outputs[p][o]
  <1>2. \/ ks = {n + 1} \/ ks = 1..n
        \/ \E k \in 0..n : ks = 1..k \cup {n + 1}
    BY DEF Issues, PoisonSlot
  <1>3. n \in Nat /\ Slots(p, o) = 1..(n + 1)
    BY <1>1 DEF Slots, PoisonSlot
  <1> HIDE DEF n
  <1> QED BY <1>2, <1>3

\* The publications of an outcome are handed off, all under way.
LEMMA HandOffStep ==
  ASSUME SinkInv, NEW p \in Partitions, HandOff(p)
  PROVE  SinkInv'
  <1>1. PICK o \in NextToCollect(p) :
          /\ o \in Poison[p] \/ outcome[p][o] = "applied"
          /\ \E ks \in Issues(p, o) :
                LET xs == {<<p, o, k>> : k \in ks} IN
                /\ xs \cap orphans = {}
                /\ flying' = flying \cup xs
          /\ handed' = [handed EXCEPT ![p] = @ \cup {o}]
    BY DEF HandOff
  <1>2. /\ UNCHANGED <<pc, stopping, expired, tracker, pos, committed, stage, todo, prep,
                       failing, failed, orphans, leftover, landed, outcome, queue, applied>>
        /\ UNCHANGED offsets
    BY DEF HandOff, run, offsets, batcher
  <1>3. PICK ks \in Issues(p, o) : flying' = flying \cup {<<p, o, k>> : k \in ks}
    BY <1>1
  <1>4. o \in prep[p] /\ o \notin handed[p]
    BY DEF NextToCollect, LeastOf
  <1>5. /\ o \in Log[p] /\ o \in Nat /\ handed \in [Partitions -> SUBSET Nat]
    BY <1>4, SinkAssumption DEF SinkInv, Typed, TypeOK
  <1>6. /\ handed' \in [Partitions -> SUBSET Nat]
        /\ handed'[p] = handed[p] \cup {o}
        /\ \A q \in Partitions : q # p => handed'[q] = handed[q]
    BY <1>1, <1>5
  <1>7. \A k \in ks : <<p, o, k>> \in Publications
    BY <1>5, IssuesAreSlots DEF Publications, PublicationsOf
  <1>8. \A x \in flying' : x \in flying \/ (x[1] = p /\ x[2] = o)
    BY <1>3
  <1>9. Typed'
    <2>1. \A q \in Partitions : handed'[q] \subseteq prep[q]
      BY <1>4, <1>6 DEF SinkInv, Typed, TypeOK
    <2>2. flying' \cup failed \cup orphans \cup landed \subseteq Publications
      BY <1>3, <1>7 DEF SinkInv, Typed, TypeOK
    <2>3. flying' \cap failed = {}
      <3> SUFFICES ASSUME NEW x \in flying', x \in failed PROVE FALSE
        OBVIOUS
      <3>1. x \notin flying
        BY DEF SinkInv, Typed, TypeOK
      <3>2. x[2] \in handed[x[1]]
        BY DEF SinkInv, Publishing
      <3> QED BY <1>4, <1>8, <3>1, <3>2
    <2>4. TypeOK'
      BY <1>2, <2>1, <2>2, <2>3 DEF SinkInv, Typed, TypeOK
    <2> QED BY <1>2, <1>6, <2>4 DEF SinkInv, Typed
  <1>10. Stages'
    BY <1>2 DEF SinkInv, Stages
  <1>11. Tracking'
    BY <1>2, TrackingKept DEF SinkInv, Growing
  <1>12. Publishing'
    <2>1. o \in Poison[p] \/ o \in applied[p]
      BY <1>1, <1>5 DEF SinkInv, Publishing
    <2>2. ASSUME NEW q \in Partitions, NEW r \in handed'[q] PROVE Delivery(q, r)'
      <3>1. CASE q = p /\ r = o
        <4>1. \A k \in ks : <<q, r, k>> \in flying' \cup failed' \cup landed'
          BY <1>3, <3>1
        <4>2. ks \in Issues(q, r)
          BY <3>1
        <4>3. r \in Poison[q] \/ r \in applied'[q]
          BY <1>2, <2>1, <3>1
        <4> QED BY <4>1, <4>2, <4>3 DEF Delivery
      <3>2. CASE r \in handed[q]
        BY <1>2, <1>3, <3>2 DEF SinkInv, Publishing, Delivery
      <3> QED BY <1>6, <2>2, <3>1, <3>2
    <2>3. ASSUME NEW x \in flying' \cup failed PROVE x[2] \in handed'[x[1]]
      <3>1. CASE x \in flying \cup failed
        <4>1. x[2] \in handed[x[1]] /\ x[1] \in Partitions
          BY <3>1 DEF SinkInv, Publishing, Typed, TypeOK, Publications, PublicationsOf
        <4> QED BY <1>6, <4>1
      <3>2. CASE x[1] = p /\ x[2] = o
        BY <1>6, <3>2
      <3> QED BY <1>8, <2>3, <3>1, <3>2
    <2>4. ASSUME NEW x \in flying' \cup failed \cup orphans \cup landed
          PROVE  x[2] \in Poison[x[1]] \/ x[2] \in applied[x[1]]
      BY <1>8, <2>1, <2>4 DEF SinkInv, Publishing
    <2> QED BY <1>2, <2>2, <2>3, <2>4 DEF SinkInv, Publishing
  <1>13. InOrder'
    BY <1>2, InOrderKept DEF SinkInv
  <1> QED BY <1>9, <1>10, <1>11, <1>12, <1>13 DEF SinkInv

\* A record none of whose publications is awaited any more is settled.
LEMMA NothingAwaited ==
  ASSUME SinkInv, NEW p \in Partitions, NEW o \in handed[p], Awaited(p, o) = {}
  PROVE  /\ Settled(p, o)
         /\ \A x \in flying \cup failed : ~(x[1] = p /\ x[2] = o)
  <1>1. o \in Log[p] /\ Outputs[p][o] \in Nat
    BY SinkAssumption DEF SinkInv, Typed, TypeOK
  <1>2. \A x \in flying \cup failed : ~(x[1] = p /\ x[2] = o)
    <2> SUFFICES ASSUME NEW z \in flying \cup failed, z[1] = p, z[2] = o PROVE FALSE
      OBVIOUS
    <2> DEFINE T == {x[3] : x \in {y \in flying \cup failed : y[1] = p /\ y[2] = o}}
    <2>1. \A x \in flying \cup failed : x[3] \in Nat
      <3> SUFFICES ASSUME NEW x \in flying \cup failed PROVE x[3] \in Nat
        OBVIOUS
      <3>1. PICK q \in Partitions : x \in PublicationsOf(q)
        BY DEF SinkInv, Typed, TypeOK, Publications
      <3>2. PICK r \in Log[q] : \E k \in Slots(q, r) : x = <<q, r, k>>
        BY <3>1 DEF PublicationsOf
      <3>3. Outputs[q][r] \in Nat
        BY SinkAssumption
      <3> QED BY <3>2, <3>3 DEF Slots, PoisonSlot
    <2>2. T \subseteq Nat /\ T # {}
      BY <2>1
    <2>3. PICK k \in T : \A m \in T : k <= m
      BY <2>2, NatMin DEF LeastOf
    <2>4. PICK x \in flying \cup failed : x[1] = p /\ x[2] = o /\ x[3] = k
      BY <2>3
    <2>5. \A y \in flying \cup failed : y[1] = p /\ y[2] = o => x[3] <= y[3]
      BY <2>3, <2>4
    <2> QED BY <2>4, <2>5 DEF Awaited
  <1>3. Delivery(p, o)
    BY DEF SinkInv, Publishing
  <1>4. PICK ks \in Issues(p, o) : \A k \in ks : <<p, o, k>> \in flying \cup failed \cup landed
    BY <1>3 DEF Delivery
  <1>5. \A k \in ks : <<p, o, k>> \in landed
    BY <1>2, <1>4
  <1>6. CASE PoisonSlot(p, o) \in ks
    BY <1>2, <1>5, <1>6 DEF Settled
  <1>7. CASE o \notin Poison[p] /\ ks = 1..Outputs[p][o]
    BY <1>2, <1>3, <1>5, <1>7 DEF Settled, Delivery
  <1>8. \/ PoisonSlot(p, o) \in ks \/ (o \notin Poison[p] /\ ks = 1..Outputs[p][o])
    BY DEF Issues
  <1> QED BY <1>2, <1>6, <1>7, <1>8

\* What is marked done is settled.
LEMMA ConfirmStep ==
  ASSUME SinkInv, NEW p \in Partitions, Confirm(p)
  PROVE  SinkInv'
  <1>1. PICK o \in NextToConfirm(p) : Awaited(p, o) = {} /\ MarkDone(p, o)
    BY DEF Confirm
  <1>2. o \in handed[p]
    BY DEF NextToConfirm, LeastOf
  <1>3. Settled(p, o) /\ \A x \in flying \cup failed : ~(x[1] = p /\ x[2] = o)
    BY <1>1, <1>2, NothingAwaited
  <1>4. /\ UNCHANGED <<pc, stopping, expired, pos, committed, stage, failing, flying, failed,
                       orphans, leftover, landed, queue, applied>>
        /\ tracker' = [tracker EXCEPT ![p] = Done(@, o)]
        /\ todo' = [todo EXCEPT ![p] = @ \ {o}]
        /\ prep' = [prep EXCEPT ![p] = @ \ {o}]
        /\ handed' = [handed EXCEPT ![p] = @ \ {o}]
        /\ outcome' = [outcome EXCEPT ![p][o] = "none"]
    BY <1>1 DEF MarkDone, run, emitter
  <1>5. o \in Log[p] /\ o \in Nat
    BY <1>2, SinkAssumption DEF SinkInv, Typed, TypeOK
  <1>6. /\ tracker \in [Partitions -> PartitionState]
        /\ todo \in [Partitions -> SUBSET Nat] /\ prep \in [Partitions -> SUBSET Nat]
        /\ handed \in [Partitions -> SUBSET Nat]
        /\ outcome = [q \in Partitions |-> outcome[q]]
        /\ \A q \in Partitions : outcome[q] \in [Log[q] -> {"none", "applied", "error"}]
    BY DEF SinkInv, Typed, TypeOK
  <1>7. /\ todo' \in [Partitions -> SUBSET Nat] /\ prep' \in [Partitions -> SUBSET Nat]
        /\ handed' \in [Partitions -> SUBSET Nat]
        /\ todo'[p] = todo[p] \ {o} /\ prep'[p] = prep[p] \ {o} /\ handed'[p] = handed[p] \ {o}
        /\ \A q \in Partitions : q # p => /\ todo'[q] = todo[q] /\ prep'[q] = prep[q]
                                          /\ handed'[q] = handed[q]
    BY <1>4, <1>6
  <1>8. ASSUME NEW q \in Partitions
        PROVE  /\ outcome'[q] \in [Log[q] -> {"none", "applied", "error"}]
               /\ \A r \in Log[q] : outcome'[q][r] = "applied" => outcome[q][r] = "applied"
    <2>0. outcome[q] \in [Log[q] -> {"none", "applied", "error"}]
      BY <1>6
    <2>1. CASE q = p
      <3>1. outcome'[q] = [outcome[q] EXCEPT ![o] = "none"]
        BY <1>4, <1>6, <2>1
      <3> QED BY <2>0, <3>1
    <2>2. CASE q # p
      <3>1. outcome'[q] = outcome[q]
        BY <1>4, <1>6, <2>2
      <3> QED BY <2>0, <3>1
    <2> QED BY <2>1, <2>2
  <1>9. outcome' = [q \in Partitions |-> outcome'[q]]
    BY <1>4, <1>6
  <1>10. tracker' \in [Partitions -> PartitionState]
    BY <1>4, <1>5, <1>6, DoneFields
  <1>11. \A q \in Partitions : /\ IsFiniteSet(prep'[q])
                               /\ Cardinality(prep'[q]) <= MaxInFlight
    <2> SUFFICES ASSUME NEW q \in Partitions
                 PROVE  IsFiniteSet(prep'[q]) /\ Cardinality(prep'[q]) <= MaxInFlight
      OBVIOUS
    <2>1. /\ IsFiniteSet(prep[q]) /\ Cardinality(prep[q]) <= MaxInFlight
          /\ prep'[q] \in SUBSET prep[q] /\ MaxInFlight \in Nat
      BY <1>7, SinkAssumption DEF SinkInv, Typed, TypeOK
    <2>2. IsFiniteSet(prep'[q]) /\ Cardinality(prep'[q]) <= Cardinality(prep[q])
      BY <2>1, FS_Subset
    <2>3. Cardinality(prep'[q]) \in Nat /\ Cardinality(prep[q]) \in Nat
      BY <2>1, <2>2, FS_CardinalityType
    <2> QED BY <2>1, <2>2, <2>3
  <1>12. Typed'
    <2>1. \A q \in Partitions : /\ handed'[q] \subseteq prep'[q]
                                /\ prep'[q] \subseteq todo'[q]
                                /\ todo'[q] \subseteq Log[q]
      <3> SUFFICES ASSUME NEW q \in Partitions
                   PROVE  /\ handed'[q] \subseteq prep'[q]
                          /\ prep'[q] \subseteq todo'[q]
                          /\ todo'[q] \subseteq Log[q]
        OBVIOUS
      <3>1. handed[q] \subseteq prep[q] /\ prep[q] \subseteq todo[q] /\ todo[q] \subseteq Log[q]
        BY DEF SinkInv, Typed, TypeOK
      <3>2. CASE q = p
        BY <1>7, <3>1, <3>2
      <3>3. CASE q # p
        BY <1>7, <3>1, <3>3
      <3> QED BY <3>2, <3>3
    <2>2. UNCHANGED <<pc, stopping, expired, pos, committed, stage, failing, flying, failed,
                      orphans, leftover, landed, queue, applied>>
      BY <1>4
    <2>3. TypeOK'
      BY <1>8, <1>10, <1>11, <2>1, <2>2 DEF SinkInv, Typed, TypeOK
    <2> QED BY <1>7, <1>9, <1>11, <2>2, <2>3 DEF SinkInv, Typed
  <1>13. Stages'
    <2>1. UNCHANGED <<pc, stage>>
      BY <1>4
    <2>2. \A q \in Partitions : todo'[q] \subseteq todo[q] /\ prep'[q] \subseteq prep[q]
      BY <1>7
    <2> QED BY <2>1, <2>2 DEF SinkInv, Stages
  <1>14. Tracking'
    <2> SUFFICES ASSUME NEW q \in Partitions PROVE TrackedAt(q)'
      BY DEF Tracking
    <2>1. TrackedAt(q)
      BY DEF SinkInv, Tracking
    <2>2. \A r \in Log[q] : Settled(q, r)' <=> Settled(q, r)
      BY <1>4 DEF Settled
    <2>3. UNCHANGED <<pos, committed, stopping>>
      BY <1>4
    <2>4. CASE q # p
      <3>1. tracker'[q] = tracker[q] /\ todo'[q] = todo[q]
        BY <1>4, <1>6, <2>4
      <3> QED BY <2>1, <2>2, <2>3, <3>1 DEF TrackedAt
    <2>5. CASE q = p
      <3> DEFINE st == tracker[q]
                 new == tracker'[q]
      <3>1. new = Done(st, o) /\ st \in PartitionState
        BY <1>4, <1>6, <2>5
      <3>2. /\ new.forgotten = st.forgotten
            /\ new.pending = IF st.forgotten THEN st.pending ELSE st.pending \ {o}
            /\ Backlog(new) \subseteq Backlog(st)
        BY <1>5, <3>1, DoneFields
      <3>3. todo'[q] = todo[q] \ {o}
        BY <1>7, <2>5
      <3>4. st.forgotten => st.pending = {}
        BY <2>1 DEF TrackedAt
      <3>5. new.pending = st.pending \ {o}
        BY <3>2, <3>4
      <3> HIDE DEF st, new
      <3>6. /\ new.forgotten => new.pending = {}
            /\ \A r \in Backlog(new) \cup todo'[q] : r < pos[q]
            /\ \A r \in Log[q] : r < pos[q] => Settled(q, r) \/ r \in new.pending
            /\ ~stopping => new.pending \subseteq todo'[q]
        BY <1>3, <2>1, <2>5, <3>2, <3>3, <3>4, <3>5 DEF TrackedAt, st
      <3> QED BY <2>1, <2>2, <2>3, <3>6 DEF TrackedAt, new
    <2> QED BY <2>4, <2>5
  <1>15. Publishing'
    <2>1. UNCHANGED <<flying, failed, orphans, landed, applied>>
      BY <1>4
    <2>2. \A q \in Partitions : \A r \in handed'[q] : Delivery(q, r)'
      BY <1>7, <2>1 DEF SinkInv, Publishing, Delivery
    <2>3. ASSUME NEW x \in flying \cup failed PROVE x[2] \in handed'[x[1]]
      <3>1. x[2] \in handed[x[1]] /\ x[1] \in Partitions
        BY DEF SinkInv, Publishing, Typed, TypeOK, Publications, PublicationsOf
      <3>2. CASE x[1] = p
        BY <1>3, <1>7, <3>1, <3>2
      <3>3. CASE x[1] # p
        BY <1>7, <3>1, <3>3
      <3> QED BY <3>2, <3>3
    <2> QED BY <1>8, <2>1, <2>2, <2>3 DEF SinkInv, Publishing
  <1>16. InOrder'
    <2>1. \A q \in Partitions : prep'[q] \subseteq prep[q]
      BY <1>7
    <2> QED BY <1>4, <2>1, InOrderKept DEF SinkInv
  <1> QED BY <1>12, <1>13, <1>14, <1>15, <1>16 DEF SinkInv

\* The end of a pass orphans what is under way and forgets what it prepared;
\* its commands keep their places in the queue.
LEMMA EndPassStep ==
  ASSUME SinkInv, NEW p \in Partitions, NEW taken, NEW next \in {"top", "retry"},
         stage[p] = "confirm", EndPass(p, taken, next)
  PROVE  SinkInv'
  <1>1. /\ stage' = [stage EXCEPT ![p] = next]
        /\ prep' = [prep EXCEPT ![p] = {}]
        /\ handed' = [handed EXCEPT ![p] = {}]
        /\ failing' = [failing EXCEPT ![p] = FALSE]
        /\ outcome' = [outcome EXCEPT ![p] = [o \in Log[p] |-> "none"]]
        /\ queue' = [j \in DOMAIN queue |->
                       [queue[j] EXCEPT !.live = @ /\ queue[j].part # p]]
        /\ flying' = flying \ Mine(p)
        /\ orphans' = orphans \cup (flying \cap Mine(p))
        /\ failed' = failed \ Mine(p)
        /\ leftover' = (leftover \/ (failed \cap Mine(p)) \ taken # {})
    BY DEF EndPass
  <1>2. UNCHANGED <<pc, stopping, expired, tracker, pos, committed, todo, landed, applied>>
    BY DEF EndPass, run, offsets
  <1>3. /\ stage \in [Partitions -> {"idle", "top", "submit", "parked", "collect",
                                     "confirm", "retry", "left"}]
        /\ failing \in [Partitions -> BOOLEAN]
        /\ prep \in [Partitions -> SUBSET Nat] /\ handed \in [Partitions -> SUBSET Nat]
        /\ outcome = [q \in Partitions |-> outcome[q]]
        /\ \A q \in Partitions : outcome[q] \in [Log[q] -> {"none", "applied", "error"}]
        /\ queue \in Seq(Command) /\ Len(queue) <= MaxQueue
        /\ flying \cup failed \cup orphans \cup landed \subseteq Publications
        /\ flying \cap failed = {}
    BY DEF SinkInv, Typed, TypeOK
  <1>4. /\ stage' \in [Partitions -> {"idle", "top", "submit", "parked", "collect",
                                      "confirm", "retry", "left"}]
        /\ failing' \in [Partitions -> BOOLEAN]
        /\ prep' \in [Partitions -> SUBSET Nat] /\ handed' \in [Partitions -> SUBSET Nat]
        /\ stage'[p] = next /\ prep'[p] = {} /\ handed'[p] = {}
        /\ \A q \in Partitions : q # p => /\ stage'[q] = stage[q] /\ prep'[q] = prep[q]
                                          /\ handed'[q] = handed[q]
    BY <1>1, <1>3
  <1>5. /\ outcome' = [q \in Partitions |-> outcome'[q]]
        /\ outcome'[p] = [o \in Log[p] |-> "none"]
        /\ \A q \in Partitions : q # p => outcome'[q] = outcome[q]
    BY <1>1, <1>3
  <1>6. DOMAIN queue' = DOMAIN queue /\ DOMAIN queue = 1..Len(queue) /\ Len(queue) \in Nat
    BY <1>1, <1>3
  <1>7. ASSUME NEW j \in DOMAIN queue
        PROVE  /\ queue'[j] \in Command
               /\ queue'[j].part = queue[j].part /\ queue'[j].at = queue[j].at
    <2>1. queue[j] \in Command
      BY <1>3
    <2>2. queue'[j] = [queue[j] EXCEPT !.live = @ /\ queue[j].part # p]
      BY <1>1
    <2>3. (queue[j].live /\ queue[j].part # p) \in BOOLEAN
      OBVIOUS
    <2> QED BY <2>1, <2>2, <2>3 DEF Command
  <1>8. queue' \in Seq(Command) /\ Len(queue') = Len(queue)
    <2>1. queue' = [j \in 1..Len(queue) |-> queue'[j]]
      BY <1>1, <1>6
    <2>2. \A j \in 1..Len(queue) : queue'[j] \in Command
      BY <1>6, <1>7
    <2>3. queue' \in [1..Len(queue) -> Command]
      BY <2>1, <2>2
    <2> QED BY <1>6, <2>3
  <1>9. /\ flying' \cup failed' \cup orphans' \cup landed \subseteq Publications
        /\ flying' \cap failed' = {}
        /\ flying' \cup failed' \cup orphans' \cup landed
             \subseteq flying \cup failed \cup orphans \cup landed
        /\ \A x \in flying' \cup failed' : x \in flying \cup failed /\ x[1] # p
        /\ \A x \in flying \cup failed : x[1] # p => x \in flying' \cup failed'
    BY <1>1, <1>3 DEF Mine
  <1>10. leftover' \in BOOLEAN
    BY <1>1 DEF SinkInv, Typed, TypeOK
  <1>11. Typed'
    <2>1. ASSUME NEW q \in Partitions
          PROVE  /\ handed'[q] \subseteq prep'[q]
                 /\ prep'[q] \subseteq todo[q]
                 /\ IsFiniteSet(prep'[q])
                 /\ Cardinality(prep'[q]) <= MaxInFlight
                 /\ outcome'[q] \in [Log[q] -> {"none", "applied", "error"}]
      <3>1. CASE q = p
        <4>1. IsFiniteSet(prep'[q]) /\ Cardinality(prep'[q]) = 0
          BY <1>4, <3>1, FS_EmptySet
        <4>2. 0 <= MaxInFlight
          BY SinkAssumption
        <4> QED BY <1>4, <1>5, <3>1, <4>1, <4>2
      <3>2. CASE q # p
        BY <1>4, <1>5, <3>2 DEF SinkInv, Typed, TypeOK
      <3> QED BY <3>1, <3>2
    <2>2. \A j \in DOMAIN queue' : queue'[j].at \in Log[queue'[j].part]
      BY <1>6, <1>7 DEF SinkInv, Typed
    <2>3. {stopping', expired', leftover'} \subseteq BOOLEAN
      BY <1>2, <1>10 DEF SinkInv, Typed, TypeOK
    <2>4. Len(queue') <= MaxQueue
      BY <1>3, <1>8
    <2>5. TypeOK'
      BY <1>2, <1>4, <1>8, <1>9, <2>1, <2>3, <2>4 DEF SinkInv, Typed, TypeOK
    <2> QED BY <1>2, <1>4, <1>5, <2>1, <2>2, <2>5 DEF SinkInv, Typed
  <1>12. Stages'
    <2>1. pc = "batch"
      BY BatchUnderWay
    <2> QED BY <1>2, <1>4, <2>1 DEF SinkInv, Stages
  <1>13. Tracking'
    BY <1>2, TrackingKept DEF SinkInv, Growing, offsets
  <1>14. Publishing'
    <2>1. ASSUME NEW q \in Partitions, NEW r \in handed'[q] PROVE Delivery(q, r)'
      <3>1. q # p /\ r \in handed[q]
        BY <1>4, <2>1
      <3>2. Delivery(q, r)
        BY <3>1 DEF SinkInv, Publishing
      <3>3. PICK ks \in Issues(q, r) :
               \A k \in ks : <<q, r, k>> \in flying \cup failed \cup landed
        BY <3>2 DEF Delivery
      <3>4. \A k \in ks : <<q, r, k>> \in flying' \cup failed' \cup landed'
        BY <1>2, <1>9, <3>1, <3>3
      <3> QED BY <1>2, <3>2, <3>4 DEF Delivery
    <2>2. ASSUME NEW x \in flying' \cup failed' PROVE x[2] \in handed'[x[1]]
      <3>1. /\ x[2] \in handed[x[1]] /\ x[1] \in Partitions /\ x[1] # p
        BY <1>9, <2>2 DEF SinkInv, Publishing, Typed, TypeOK, Publications, PublicationsOf
      <3> QED BY <1>4, <3>1
    <2>3. ASSUME NEW q \in Partitions, NEW o \in Log[q], outcome'[q][o] = "applied"
          PROVE  o \in applied[q]
      <3>1. CASE q = p
        BY <1>5, <2>3, <3>1
      <3>2. CASE q # p
        BY <1>5, <2>3, <3>2 DEF SinkInv, Publishing
      <3> QED BY <3>1, <3>2
    <2>4. \A x \in flying' \cup failed' \cup orphans' \cup landed :
             x[2] \in Poison[x[1]] \/ x[2] \in applied[x[1]]
      BY <1>9 DEF SinkInv, Publishing
    <2> QED BY <1>2, <2>1, <2>2, <2>3, <2>4 DEF Publishing
  <1>15. InOrder'
    <2> SUFFICES ASSUME ~stopping PROVE InOrder'
      BY <1>2 DEF InOrder
    <2>1. \A q \in Partitions : prep'[q] \subseteq prep[q]
      BY <1>4
    <2>2. \A q, r : Queued(q, r) => Queued(q, r)'
      BY <1>6, <1>7 DEF Queued
    <2>3. \A q, r, j : QueuedBefore(q, r, j) => QueuedBefore(q, r, j)'
      BY <1>6, <1>7 DEF QueuedBefore
    <2> QED BY <1>2, <1>6, <1>7, <2>1, <2>2, <2>3 DEF SinkInv, InOrder
  <1> QED BY <1>11, <1>12, <1>13, <1>14, <1>15 DEF SinkInv

-----------------------------------------------------------------------------
(* Commits, and the end of a process.                                      *)

\* What a commit stores, whole or in part, lies above settled records only.
LEMMA StoreSafe ==
  ASSUME SinkInv, NEW A \in SUBSET Requested, Store(A)
  PROVE  /\ committed' \in [Partitions -> Nat]
         /\ \A p \in Partitions : \A o \in Log[p] : o < committed'[p] => Settled(p, o)
  <1>1. ASSUME NEW p \in Partitions
        PROVE  committed'[p] \in Nat /\ \A o \in Log[p] : o < committed'[p] => Settled(p, o)
    <2>1. CASE p \in A
      <3>1. Commitable(tracker[p]) # {}
        BY <2>1 DEF Requested
      <3>2. committed'[p] \in Commitable(tracker[p])
        BY <2>1, <3>1, ThePick DEF Store
      <3> QED BY <3>2, CommitableSettled
    <2>2. CASE p \notin A
      <3>1. committed'[p] = committed[p]
        BY <2>2 DEF Store
      <3> QED BY <3>1 DEF SinkInv, Typed, TypeOK, Tracking, TrackedAt
    <2> QED BY <2>1, <2>2
  <1>2. committed' = [p \in Partitions |-> committed'[p]]
    BY DEF Store
  <1>3. committed' \in [Partitions -> Nat]
    BY <1>1, <1>2
  <1> QED BY <1>1, <1>3

\* A commit that went through, or of which the broker took a part.
LEMMA CommitStep ==
  ASSUME SinkInv, Commit \/ CommitFails
  PROVE  SinkInv'
  <1>1. /\ CommitReturns /\ UNCHANGED leftover
        /\ \E A \in SUBSET Requested : Store(A)
    BY DEF Commit, CommitFails
  <1>2. /\ pc \in {"commit", "final"} /\ pc' \in {"exited", "poll"}
        /\ UNCHANGED <<stopping, expired, pos, stage, todo, prep, handed, failing, outcome,
                       queue, applied, flying, failed, orphans, landed>>
    BY <1>1 DEF CommitReturns, worker, batcher
  <1>3. /\ committed' \in [Partitions -> Nat]
        /\ \A p \in Partitions : \A o \in Log[p] : o < committed'[p] => Settled(p, o)
    BY <1>1, StoreSafe
  <1>4. ASSUME NEW p \in Partitions
        PROVE  /\ tracker'[p] \in PartitionState
               /\ tracker'[p].forgotten = tracker[p].forgotten
               /\ tracker'[p].pending = tracker[p].pending
               /\ tracker'[p].done \subseteq tracker[p].done
    <2>0. tracker[p] \in PartitionState
      BY DEF SinkInv, Typed, TypeOK
    <2>1. CASE tracker'[p] = tracker[p]
      BY <2>0, <2>1
    <2>2. CASE Commit /\ p \in Requested
      <3>1. Commitable(tracker[p]) # {}
        BY <2>2 DEF Requested
      <3> DEFINE w == The(Commitable(tracker[p]))
      <3>2. w \in Nat
        BY <3>1, ThePick, CommitableSettled
      <3>3. tracker'[p] = MarkCommitted(tracker[p], w)
        BY <2>2 DEF Commit
      <3> HIDE DEF w
      <3> QED BY <2>0, <3>2, <3>3, MarkFields
    <2>3. CASE CommitFails \/ (Commit /\ p \notin Requested)
      <3>1. tracker'[p] = tracker[p]
        BY <2>3 DEF CommitFails, Commit
      <3> QED BY <2>1, <3>1
    <2> QED BY <2>2, <2>3
  <1>5. tracker' \in [Partitions -> PartitionState]
    <2>1. tracker' = [p \in Partitions |-> tracker'[p]]
      BY DEF Commit, CommitFails, SinkInv, Typed, TypeOK
    <2> QED BY <1>4, <2>1
  <1>6. Typed'
    BY <1>1, <1>2, <1>3, <1>5 DEF SinkInv, Typed, TypeOK
  <1>7. Stages'
    BY <1>2 DEF SinkInv, Stages
  <1>8. Tracking'
    <2> SUFFICES ASSUME NEW p \in Partitions PROVE TrackedAt(p)'
      BY DEF Tracking
    <2>1. TrackedAt(p)
      BY DEF SinkInv, Tracking
    <2>2. \A o \in Log[p] : Settled(p, o)' <=> Settled(p, o)
      BY <1>2 DEF Settled
    <2> QED BY <1>2, <1>3, <1>4, <2>1, <2>2 DEF TrackedAt, Backlog
  <1>9. Publishing'
    BY <1>2, PublishingKept DEF SinkInv
  <1>10. InOrder'
    BY <1>2, InOrderKept DEF SinkInv
  <1> QED BY <1>6, <1>7, <1>8, <1>9, <1>10 DEF SinkInv

\* A process that begins has nothing in hand.
Fresher ==
    /\ pc = "poll" /\ stopping = FALSE /\ expired = FALSE
    /\ tracker = [p \in Partitions |-> Tombstone]
    /\ stage = AllIdle
    /\ todo = NoRecords /\ prep = NoRecords /\ handed = NoRecords
    /\ failing = [p \in Partitions |-> FALSE]
    /\ outcome = NoOutcome /\ queue = <<>>
    /\ flying = {} /\ failed = {} /\ orphans = {} /\ leftover = FALSE
    /\ pos = committed

\* So it has the invariant if everything below its position is settled.
LEMMA FreshInv ==
  ASSUME Fresher, committed \in [Partitions -> Nat],
         applied \in [Partitions -> SUBSET Nat],
         \A p \in Partitions : applied[p] \subseteq Log[p],
         landed \subseteq Publications,
         \A x \in landed : x[2] \in Poison[x[1]] \/ x[2] \in applied[x[1]],
         \A p \in Partitions : \A o \in Log[p] : o < committed[p] => Settled(p, o)
  PROVE  SinkInv
  <1>1. \A p \in Partitions : /\ stage[p] = "idle" /\ tracker[p] = Tombstone
                              /\ todo[p] = {} /\ prep[p] = {} /\ handed[p] = {}
                              /\ outcome[p] = [o \in Log[p] |-> "none"]
    BY DEF Fresher, AllIdle, NoRecords, NoOutcome
  <1>2. Tombstone \in PartitionState /\ Tombstone.pending = {} /\ Backlog(Tombstone) = {}
    BY DEF Tombstone, PartitionState, Backlog
  <1>3. Typed
    <2>1. \A p \in Partitions : IsFiniteSet(prep[p]) /\ Cardinality(prep[p]) <= MaxInFlight
      <3>1. 0 <= MaxInFlight
        BY SinkAssumption
      <3> QED BY <1>1, <3>1, FS_EmptySet
    <2>2. queue \in Seq(Command) /\ Len(queue) <= MaxQueue /\ DOMAIN queue = {}
      <3>1. queue = <<>> /\ MaxQueue \in Nat
        BY SinkAssumption DEF Fresher
      <3> QED BY <3>1
    <2>3. /\ tracker \in [Partitions -> PartitionState]
          /\ stage \in [Partitions -> {"idle", "top", "submit", "parked", "collect",
                                       "confirm", "retry", "left"}]
          /\ failing \in [Partitions -> BOOLEAN]
          /\ todo \in [Partitions -> SUBSET Nat] /\ prep \in [Partitions -> SUBSET Nat]
          /\ handed \in [Partitions -> SUBSET Nat]
          /\ outcome = [p \in Partitions |-> outcome[p]]
      BY <1>2 DEF Fresher, AllIdle, NoRecords, NoOutcome
    <2>4. /\ pc \in {"poll", "batch", "post", "commit", "final", "exited"}
          /\ {stopping, expired, leftover} \subseteq BOOLEAN
          /\ pos \in [Partitions -> Nat]
          /\ flying \cup failed \cup orphans \cup landed \subseteq Publications
          /\ flying \cap failed = {}
      BY DEF Fresher
    <2>5. TypeOK
      BY <1>1, <2>1, <2>2, <2>3, <2>4 DEF TypeOK
    <2> QED BY <2>1, <2>2, <2>3, <2>5 DEF Typed
  <1>4. Stages
    BY <1>1 DEF Stages, Fresher
  <1>5. Tracking
    BY <1>1, <1>2 DEF Tracking, TrackedAt, Fresher
  <1>6. Publishing
    BY <1>1 DEF Publishing, Fresher
  <1>7. InOrder
    <2>1. DOMAIN queue = {}
      BY DEF Fresher
    <2> QED BY <1>1, <2>1 DEF InOrder
  <1> QED BY <1>3, <1>4, <1>5, <1>6, <1>7 DEF SinkInv

\* The first process begins before anything was committed.
LEMMA InitInv == Init => SinkInv
  <1> SUFFICES ASSUME Init PROVE SinkInv
    OBVIOUS
  <1>1. Fresher
    BY DEF Init, Fresher
  <1>2. /\ committed \in [Partitions -> Nat] /\ applied \in [Partitions -> SUBSET Nat]
        /\ \A p \in Partitions : applied[p] = {} /\ committed[p] = 0
        /\ landed = {}
    BY DEF Init, NoRecords
  <1>3. \A p \in Partitions : \A o \in Log[p] : ~(o < committed[p])
    BY <1>2, SinkAssumption
  <1> QED BY <1>1, <1>2, <1>3, FreshInv

\* Another begins where the last commit stands, which is safe.
LEMMA RestartStep ==
  ASSUME SinkInv, Exit \/ Crash
  PROVE  SinkInv'
  <1>1. Restart
    BY DEF Exit, Crash
  <1>2. Fresher' /\ UNCHANGED <<committed, landed, applied>>
    BY <1>1 DEF Restart, Fresher
  <1>3. /\ committed \in [Partitions -> Nat] /\ applied \in [Partitions -> SUBSET Nat]
        /\ \A p \in Partitions : applied[p] \subseteq Log[p]
        /\ landed \subseteq Publications
        /\ \A x \in landed : x[2] \in Poison[x[1]] \/ x[2] \in applied[x[1]]
        /\ \A p \in Partitions : \A o \in Log[p] : o < committed[p] => Settled(p, o)
    BY DEF SinkInv, Typed, TypeOK, Publishing, Tracking, TrackedAt
  <1>4. \A p \in Partitions : \A o \in Log[p] : o < committed'[p] => Settled(p, o)'
    BY <1>2, <1>3 DEF Settled
  <1>5. /\ committed' \in [Partitions -> Nat] /\ applied' \in [Partitions -> SUBSET Nat]
        /\ \A p \in Partitions : applied'[p] \subseteq Log[p]
        /\ landed' \subseteq Publications
        /\ \A x \in landed' : x[2] \in Poison[x[1]] \/ x[2] \in applied'[x[1]]
    BY <1>2, <1>3
  <1>6. (Fresher /\ committed \in [Partitions -> Nat]
          /\ applied \in [Partitions -> SUBSET Nat]
          /\ (\A p \in Partitions : applied[p] \subseteq Log[p])
          /\ landed \subseteq Publications
          /\ (\A x \in landed : x[2] \in Poison[x[1]] \/ x[2] \in applied[x[1]])
          /\ (\A p \in Partitions : \A o \in Log[p] : o < committed[p] => Settled(p, o))
            => SinkInv)'
    BY FreshInv, PTL
  <1> QED BY <1>2, <1>4, <1>5, <1>6

-----------------------------------------------------------------------------
(* The promises.                                                           *)

\* A step of a worker, whichever.
LEMMA WorkerStep ==
  ASSUME SinkInv, NEW p \in Partitions, Worker(p)
  PROVE  SinkInv'
  <1>1. CASE \/ Finish(p) \/ StartPass(p) \/ SubmitCut(p) \/ AllSubmitted(p)
             \/ OutcomeFails(p) \/ CollectEnds(p) \/ Retry(p) \/ GiveUp(p)
    BY <1>1, WorkerMovesOn
  <1>2. CASE Prepare(p)
    BY <1>2, PrepareStep
  <1>3. CASE Submit(p)
    BY <1>3, SubmitStep
  <1>4. CASE HandOff(p)
    BY <1>4, HandOffStep
  <1>5. CASE Confirm(p)
    BY <1>5, ConfirmStep
  <1>6. CASE WaitFails(p)
    <2>1. PICK taken : EndPass(p, taken, "retry")
      BY <1>6 DEF WaitFails
    <2>2. stage[p] = "confirm"
      BY <1>6 DEF WaitFails
    <2> QED BY <2>1, <2>2, EndPassStep
  <1>7. CASE WaitCut(p)
    <2>1. stage[p] = "confirm" /\ EndPass(p, {}, "top")
      BY <1>7 DEF WaitCut
    <2> QED BY <2>1, EndPassStep
  <1>8. CASE PassEnds(p)
    <2> DEFINE next == IF failing[p] THEN "retry" ELSE "top"
    <2>1. stage[p] = "confirm" /\ EndPass(p, {}, next) /\ next \in {"top", "retry"}
      BY <1>8 DEF PassEnds
    <2> QED BY <2>1, EndPassStep
  <1> QED BY <1>1, <1>2, <1>3, <1>4, <1>5, <1>6, <1>7, <1>8 DEF Worker

\* Every step keeps the invariant.
LEMMA NextInv ==
  ASSUME SinkInv, [Next]_vars
  PROVE  SinkInv'
  <1>1. CASE UNCHANGED vars
    <2>1. Quiet /\ UNCHANGED <<pc, stopping, expired, stage, failing, leftover>>
      BY <1>1 DEF vars, run, offsets, worker, emitter, batcher, Quiet
    <2>2. Stages'
      BY <2>1 DEF Quiet, SinkInv, Stages
    <2> QED BY <2>1, <2>2, QuietStep DEF SinkInv, Typed, TypeOK
  <1>2. CASE Serve \/ Mismatch \/ CloseCommand
    BY <1>2, AnswerCases, AnswerStep
  <1>3. CASE \E x : Acknowledge(x) \/ Refuse(x)
    BY <1>3, BrokerStep
  <1>4. CASE \/ PollEmpty \/ Expire \/ CommitDue \/ NotYetDue \/ Stop
             \/ NothingToCommit \/ FlushReports \/ FlushCut
    BY <1>4, RunStep
  <1>5. CASE Poll
    BY <1>5, PollStep
  <1>6. CASE JoinWorkers \/ AbandonBatch
    BY <1>6, BatchEndStep
  <1>7. CASE Commit \/ CommitFails
    BY <1>7, CommitStep
  <1>8. CASE Exit \/ Crash
    BY <1>8, RestartStep
  <1>9. CASE \E p \in Partitions : Worker(p)
    BY <1>9, WorkerStep
  <1> QED BY <1>1, <1>2, <1>3, <1>4, <1>5, <1>6, <1>7, <1>8, <1>9
          DEF Next, Fault, Run, Outside

\* Every reachable state of the sink satisfies the invariant.
LEMMA SinkInvariant == Spec => []SinkInv
  BY InitInv, NextInv, PTL DEF Spec

\* The workers, the tracker and the emitter keep to their types; in particular
\* a pass never prepares more than sink.max_in_flight_per_partition records,
\* and a publication is never both awaited and failed.
THEOREM SinkTypeCorrect == Spec => []TypeOK
  <1>1. SinkInv => TypeOK
    BY DEF SinkInv, Typed
  <1> QED BY <1>1, SinkInvariant, PTL

\* A record read past is settled or still pending, whatever was retried, cut
\* short, abandoned or given up: runPartition and abandonBatch lose nothing.
THEOREM NothingForgotten == Spec => []ReadIsSettledOrPending
  <1>1. SinkInv => ReadIsSettledOrPending
    BY DEF SinkInv, Tracking, TrackedAt, ReadIsSettledOrPending, settled
  <1> QED BY <1>1, SinkInvariant, PTL

\* While the process is not shutting down, commands of a partition are
\* applied for the first time in offset order: pass keeps the submissions in
\* order, and neither retries nor rewinds ever leave a gap behind them.
THEOREM AppliedInOrder == Spec => FirstApplicationInOrder
  <1> DEFINE InTurn == ~stopping =>
                \A p \in Partitions : \A o \in applied'[p] \ applied[p] :
                   \A r \in Log[p] \ Poison[p] : r < o => r \in applied'[p]
  <1>1. ASSUME SinkInv, [Next]_vars PROVE [InTurn]_vars
    <2>1. CASE applied' = applied
      BY <2>1
    <2>2. CASE Serve \/ Mismatch \/ CloseCommand
      <3>1. PICK c : Answering(c)
        BY <2>2, AnswerCases
      <3>2. /\ ~stopping => \A r \in Log[c.part] \ Poison[c.part] :
                               r < c.at => r \in applied[c.part]
            /\ \A p \in Partitions : \A o \in applied'[p] \ applied[p] :
                  p = c.part /\ o = c.at
            /\ Growing
        BY <1>1, <3>1, AnswerStep, AnswerEffect
      <3>3. InTurn
        BY <3>2 DEF Growing
      <3> QED BY <3>3
    <2>3. applied' = applied \/ Serve \/ Mismatch \/ CloseCommand
      <3>1. CASE UNCHANGED vars
        BY <3>1 DEF vars, batcher
      <3>2. CASE \E x : Acknowledge(x) \/ Refuse(x)
        BY <3>2 DEF Acknowledge, Refuse, batcher
      <3>3. CASE \/ PollEmpty \/ Expire \/ CommitDue \/ NotYetDue \/ Stop
                 \/ NothingToCommit \/ FlushReports \/ FlushCut \/ Poll
                 \/ JoinWorkers \/ AbandonBatch \/ Commit \/ CommitFails \/ Exit \/ Crash
        BY <3>3 DEF PollEmpty, Expire, CommitDue, NotYetDue, Stop, NothingToCommit,
           FlushReports, FlushCut, Poll, JoinWorkers, AbandonBatch, Commit, CommitFails,
           Exit, Crash, Restart, CommitReturns, BatchOver, batcher
      <3>4. CASE \E p \in Partitions : Worker(p)
        BY <3>4 DEF Worker, Finish, StartPass, Prepare, Submit, SubmitCut, AllSubmitted,
           HandOff, OutcomeFails, CollectEnds, Confirm, MarkDone, WaitFails, WaitCut,
           PassEnds, EndPass, Retry, GiveUp, batcher
      <3> QED BY <1>1, <3>1, <3>2, <3>3, <3>4 DEF Next, Fault, Run, Outside
    <2> QED BY <2>1, <2>2, <2>3
  <1> QED BY <1>1, SinkInvariant, PTL DEF Spec, FirstApplicationInOrder

-----------------------------------------------------------------------------
(* The sink implements AtLeastOnce.                                        *)

\* A step that can settle one record only settles it or settles nothing.
LEMMA SettlesOne ==
  ASSUME NEW p \in Partitions, NEW o \in Log[p], Growing,
         \A q \in Partitions : \A r \in Log[q] :
            Settled(q, r)' => Settled(q, r) \/ (q = p /\ r = o)
  PROVE  settled' = settled \/ settled' = [settled EXCEPT ![p] = @ \cup {o}]
  <1>1. \A q \in Partitions : \A r \in Log[q] : Settled(q, r) => Settled(q, r)'
    BY SettledStays
  <1>2. \A q \in Partitions : settled[q] = {r \in Log[q] : Settled(q, r)}
    BY DEF settled
  <1>3. \A q \in Partitions : settled'[q] = {r \in Log[q] : Settled(q, r)'}
    BY DEF settled
  <1>4. \A q \in Partitions : q # p => settled'[q] = settled[q]
    BY <1>1, <1>2, <1>3
  <1>5. settled'[p] = settled[p] \/ settled'[p] = settled[p] \cup {o}
    <2>1. \A r : r \in settled[p] => r \in settled'[p]
      BY <1>1, <1>2, <1>3
    <2>2. \A r : r \in settled'[p] => r \in settled[p] \/ r = o
      BY <1>2, <1>3
    <2> HIDE DEF settled
    <2>3. CASE o \in settled'[p]
      BY <2>1, <2>2, <2>3
    <2>4. CASE o \notin settled'[p]
      BY <2>1, <2>2, <2>4
    <2> QED BY <2>3, <2>4
  <1>6. settled = [q \in Partitions |-> settled[q]] /\ settled' = [q \in Partitions |-> settled'[q]]
    BY DEF settled
  <1> HIDE DEF settled
  <1> QED BY <1>4, <1>5, <1>6

\* Where nothing is applied or acknowledged nothing is settled.
LEMMA SettlesNone ==
  ASSUME UNCHANGED <<applied, landed>>
  PROVE  settled' = settled
  BY DEF settled, Settled

\* Every step settles a record, commits safe offsets or stutters.
LEMMA StepSimulation ==
  ASSUME SinkInv, [Next]_vars
  PROVE  [ALO!Next]_(ALO!vars)
  <1>1. CASE Serve \/ Mismatch \/ CloseCommand
    <2>1. PICK c : Answering(c)
      BY <1>1, AnswerCases
    <2>2. /\ c.part \in Partitions /\ c.at \in Log[c.part] /\ Growing
          /\ \A p \in Partitions : \A o \in applied'[p] \ applied[p] : p = c.part /\ o = c.at
      BY <2>1, AnswerEffect
    <2>3. UNCHANGED <<committed, landed>>
      BY <2>1 DEF Answering, offsets, emitter
    <2>4. \A q \in Partitions : \A r \in Log[q] :
             Settled(q, r)' => Settled(q, r) \/ (q = c.part /\ r = c.at)
      BY <2>2, <2>3 DEF Settled
    <2>5. settled' = settled \/ settled' = [settled EXCEPT ![c.part] = @ \cup {c.at}]
      BY <2>2, <2>4, SettlesOne
    <2> QED BY <2>2, <2>3, <2>5 DEF ALO!Next, ALO!Settle, ALO!vars
  <1>2. CASE \E x \in Publications : Acknowledge(x)
    <2>1. PICK x \in Publications : Acknowledge(x)
      BY <1>2
    <2>2. PICK p \in Partitions : x \in PublicationsOf(p)
      BY DEF Publications
    <2>3. PICK o \in Log[p] : \E k \in Slots(p, o) : x = <<p, o, k>>
      BY <2>2 DEF PublicationsOf
    <2>4. UNCHANGED <<committed, applied>> /\ landed' = landed \cup {x}
      BY <2>1 DEF Acknowledge, offsets, batcher
    <2>5. Growing
      BY <2>4 DEF Growing
    <2>6. ASSUME NEW q \in Partitions, NEW r \in Log[q], Settled(q, r)',
                 ~(q = p /\ r = o)
          PROVE  Settled(q, r)
      <3>1. \A k : <<q, r, k>> \in landed' => <<q, r, k>> \in landed
        BY <2>3, <2>4, <2>6
      <3> QED BY <2>4, <2>6, <3>1 DEF Settled, PoisonSlot
    <2>7. settled' = settled \/ settled' = [settled EXCEPT ![p] = @ \cup {o}]
      BY <2>5, <2>6, SettlesOne
    <2> QED BY <2>4, <2>7 DEF ALO!Next, ALO!Settle, ALO!vars
  <1>3. CASE Commit \/ CommitFails
    <2>1. UNCHANGED <<applied, landed>> /\ \E A \in SUBSET Requested : Store(A)
      BY <1>3 DEF Commit, CommitFails, CommitReturns, batcher
    <2>2. settled' = settled
      BY <2>1, SettlesNone
    <2>3. /\ committed' \in [Partitions -> Nat]
          /\ \A p \in Partitions : \A o \in Log[p] : o < committed'[p] => Settled(p, o)
      BY <2>1, StoreSafe
    <2>4. \A p \in Partitions : ALO!SafeAt(p, committed'[p])
      BY <2>3 DEF ALO!SafeAt, settled
    <2> QED BY <2>2, <2>3, <2>4 DEF ALO!Next, ALO!Commit
  <1>4. CASE UNCHANGED <<applied, landed, committed>>
    BY <1>4, SettlesNone DEF ALO!vars
  <1>5. CASE \E x : Refuse(x)
    <2>1. UNCHANGED <<applied, landed, committed>>
      BY <1>5 DEF Refuse, offsets, batcher
    <2> QED BY <1>4, <2>1
  <1>6. CASE \/ PollEmpty \/ Expire \/ CommitDue \/ NotYetDue \/ Stop
             \/ NothingToCommit \/ FlushReports \/ FlushCut \/ Poll
             \/ JoinWorkers \/ AbandonBatch \/ Exit \/ Crash
    <2>1. UNCHANGED <<applied, landed, committed>>
      BY <1>6 DEF PollEmpty, Expire, CommitDue, NotYetDue, Stop, NothingToCommit,
         FlushReports, FlushCut, Poll, JoinWorkers, AbandonBatch, Exit, Crash, Restart,
         CommitReturns, BatchOver, offsets, emitter, batcher
    <2> QED BY <1>4, <2>1
  <1>7. CASE \E p \in Partitions : Worker(p)
    <2>1. UNCHANGED <<applied, landed, committed>>
      BY <1>7 DEF Worker, Finish, StartPass, Prepare, Submit, SubmitCut, AllSubmitted,
         HandOff, OutcomeFails, CollectEnds, Confirm, MarkDone, WaitFails, WaitCut,
         PassEnds, EndPass, Retry, GiveUp, offsets, emitter, batcher
    <2> QED BY <1>4, <2>1
  <1>8. CASE UNCHANGED vars
    BY <1>4, <1>8 DEF vars, offsets, emitter, batcher
  <1> QED BY <1>1, <1>2, <1>3, <1>5, <1>6, <1>7, <1>8 DEF Next, Fault, Run, Outside

\* The sink consumes at least once: an offset is committed only above records
\* whose results and dead letters have all been acknowledged, whatever fails
\* in the batcher, at the broker, in finish or with the process itself.
THEOREM SinkRefinement == Spec => ImplementsAtLeastOnce
  <1>1. Init => ALO!Init
    <2> SUFFICES ASSUME Init PROVE ALO!Init
      OBVIOUS
    <2>1. \A p \in Partitions : applied[p] = {}
      BY DEF Init, NoRecords
    <2>2. \A p \in Partitions : \A o \in Log[p] : ~Settled(p, o)
      BY <2>1 DEF Init, Settled
    <2>3. settled = [p \in Partitions |-> {}]
      BY <2>2 DEF settled
    <2> QED BY <2>3 DEF Init, ALO!Init
  <1>2. SinkInv /\ [Next]_vars => [ALO!Next]_(ALO!vars)
    BY StepSimulation
  <1> QED BY <1>1, <1>2, SinkInvariant, PTL DEF Spec, ImplementsAtLeastOnce, ALO!Spec
=============================================================================
