----------------------------- MODULE CdcProofs -----------------------------
(***************************************************************************)
(* Proofs about module Cdc: as long as GetChangeEvents answers without     *)
(* leaving events out, the output topic never claims an event it does not  *)
(* hold, for any number of instances, events, partitions and ghosts.       *)
(***************************************************************************)
EXTENDS Cdc, FiniteSetTheorems, TLAPS

\* The initial states satisfy the inductive invariant: nothing is claimed
\* and no job runs.
LEMMA InitCdcInv == Init => CdcInv
  <1> SUFFICES ASSUME Init PROVE CdcInv
    OBVIOUS
  <1> USE CdcAssumption DEF Init
  <1>1. TypeOK
    BY DEF TypeOK, Timestamps, Claim
  <1>2. NoGap
    BY DEF NoGap, Complete
  <1>3. GhostsTruthful
    BY DEF GhostsTruthful
  <1>4. WindowWhole
    BY DEF WindowWhole
  <1>5. QED
    BY <1>1, <1>2, <1>3, <1>4 DEF CdcInv

\* What Query may accept: a sequence of events in which every event after
\* the cursor and up to its last one occurs (GetChangeEvents, ascending).
LEMMA AcceptedWindow ==
    ASSUME TypeOK, NEW i \in Instances,
           NEW s \in Answers(Next64(cursor[i])), s # <<>>, Ascending(s)
    PROVE  /\ s \in Seq(Events)
           /\ Last(s) \in Range(s)
           /\ Range(s) \subseteq Events
           /\ \A e \in Events :
                 cursor[i] < e /\ e <= Last(s) => e \in Range(s)
  <1> DEFINE from == Next64(cursor[i])
  <1>1. PICK n \in 0..BatchSize : s \in [1..n -> Following(from)]
    BY DEF Answers
  <1>2. n \in Nat /\ Len(s) = n /\ s \in Seq(Events)
    BY <1>1, CdcAssumption DEF Following
  <1>3. n # 0
    BY <1>1, <1>2
  <1>4. Last(s) \in Range(s) /\ Last(s) \in Following(from)
    BY <1>1, <1>2, <1>3 DEF Last, Range
  <1>5. Range(s) \subseteq Events
    BY <1>1 DEF Range, Following
  <1>6. ASSUME NEW e \in Events, cursor[i] < e, e <= Last(s)
        PROVE  e \in Range(s)
    <2>0. e \in Nat /\ Last(s) \in Nat
      BY <1>4, CdcAssumption DEF Following
    <2>1. e \in Nat /\ Last(s) \in Nat /\ clock \in Nat /\ cursor[i] \in Nat
      BY <2>0 DEF TypeOK, Timestamps
    <2>2. from <= e
      BY <1>6, <2>1, CdcAssumption DEF Next64, TypeOK, Timestamps
    <2>3. e <= clock
      BY <1>4, <1>6, <2>1 DEF Following
    <2>4. CASE e = Last(s)
      BY <1>4, <2>4
    <2>5. CASE e < Last(s)
      <3>1. e \in Following(from)
        BY <2>2, <2>3 DEF Following
      <3>2. SkipsNone(Range(s), from)
        BY DEF Answers
      <3>3. QED
        BY <1>4, <2>5, <3>1, <3>2 DEF SkipsNone
    <2>6. QED
      BY <1>6, <2>1, <2>4, <2>5
  <1>7. QED
    BY <1>2, <1>4, <1>5, <1>6

\* The last element of a nonempty window is one of its events.
LEMMA LastOfWindow ==
    ASSUME TypeOK, NEW i \in Instances, window[i] # <<>>
    PROVE  Last(window[i]) \in Range(window[i]) /\ Last(window[i]) \in Events
           /\ Range(window[i]) \subseteq Events
  <1>1. window[i] \in Seq(Events)
    BY DEF TypeOK
  <1>2. Len(window[i]) \in 1..Len(window[i])
    BY <1>1
  <1>3. QED
    BY <1>1, <1>2 DEF Last, Range

\* What a record claims when it is written in the state CdcInv describes.
\* Nothing else is missing below its checkpoint.
LEMMA ClaimTruthful ==
    ASSUME CdcInv, NEW i \in Instances, pc[i] \in {"rest", "closing"},
           NEW x \in inflight[i]
    PROVE  /\ x \in Events
           /\ Claims(i) \in Timestamps
           /\ \A e \in Events : e <= Claims(i) =>
                 e \in published \/ e <= waived \/ e = x
  <1> USE CdcAssumption
  <1>0. TypeOK /\ NoGap /\ WindowWhole
    BY DEF CdcInv
  <1>1. x \in Events /\ cursor[i] \in Timestamps /\ cursor[i] \in Nat
    BY <1>0 DEF TypeOK, Timestamps
  <1>2. window[i] # <<>>
    BY <1>0 DEF WindowWhole
  <1>3. Last(window[i]) \in Events /\ Last(window[i]) \in Timestamps
    BY <1>0, <1>2, LastOfWindow DEF Timestamps
  <1>4. CASE pc[i] = "rest"
    BY <1>0, <1>1, <1>4 DEF NoGap, Complete, Claims
  <1>5. CASE pc[i] = "closing"
    <2>1. Claims(i) = Last(window[i])
      BY <1>5 DEF Claims
    <2>2. x = Last(window[i])
      BY <1>0, <1>5 DEF WindowWhole
    <2>3. ASSUME NEW e \in Events, e <= Last(window[i])
          PROVE  e \in published \/ e <= waived \/ e = x
      <3>1. e \in Nat
        OBVIOUS
      <3>2. CASE e <= cursor[i]
        BY <1>0, <3>2 DEF NoGap, Complete
      <3>3. CASE cursor[i] < e
        <4>1. e \in Range(window[i])
          BY <1>0, <1>5, <2>3, <3>3 DEF WindowWhole
        <4>2. e \in published \cup inflight[i]
          BY <1>0, <1>5, <4>1 DEF WindowWhole
        <4>3. inflight[i] \subseteq {x}
          BY <1>0, <1>5, <2>2 DEF WindowWhole
        <4>4. QED
          BY <4>2, <4>3
      <3>4. QED
        BY <1>1, <3>1, <3>2, <3>3
    <2>4. QED
      BY <1>1, <1>3, <2>1, <2>3
  <1>6. QED
    BY <1>4, <1>5

\* Writing a record whose claim lacks nothing but its own event keeps every
\* claim in the topic and every cursor true.
LEMMA WriteKeepsNoGap ==
    ASSUME TypeOK, NoGap, NEW x \in Events, NEW cp \in Timestamps, Write(x, cp),
           \A e \in Events : e <= cp => e \in published \/ e <= waived \/ e = x,
           UNCHANGED <<waived, cursor, found>>
    PROVE  NoGap' /\ published \subseteq published' /\ published' \subseteq Events
           /\ tail' \in [Parts -> SUBSET Timestamps]
  <1> USE CdcAssumption
  <1>1. published' = published \cup {x}
    BY DEF Write
  <1>2. \A t : Complete(t) => Complete(t)'
    BY <1>1 DEF Complete
  <1>3. Complete(cp)'
    BY <1>1 DEF Complete
  <1>4. tail' = [tail EXCEPT ![Route[x]] = {cp}] /\ Route[x] \in Parts
    BY DEF Write
  <1>5. tail' \in [Parts -> SUBSET Timestamps]
    BY <1>4 DEF TypeOK
  <1>6. ASSUME NEW p \in Parts, NEW t \in tail'[p]
        PROVE  Complete(t)'
    <2>1. CASE p = Route[x]
      BY <1>3, <1>4, <1>6, <2>1 DEF TypeOK
    <2>2. CASE p # Route[x]
      BY <1>2, <1>4, <1>6, <2>2 DEF TypeOK, NoGap
    <2>3. QED
      BY <2>1, <2>2
  <1>7. \A i \in Instances : Complete(cursor[i])' /\ Complete(found[i])'
    BY <1>2 DEF NoGap, Complete
  <1>8. QED
    BY <1>1, <1>5, <1>6, <1>7 DEF NoGap, TypeOK

\* Steps of the source and the topic: an event happens, a ghost lands, a
\* tail is obscured.
LEMMA OutsideStep ==
    ASSUME CdcInv,
           \/ \E e \in Events : Happen(e)
           \/ \E g \in ghosts : GhostLands(g)
           \/ \E p \in Obscurable : Obscure(p)
    PROVE  CdcInv'
  <1> USE CdcAssumption
  <1>0. TypeOK /\ NoGap /\ GhostsTruthful /\ WindowWhole
    BY DEF CdcInv
  <1>1. CASE \E e \in Events : Happen(e)
    <2>1. UNCHANGED <<topic, waived, job>> /\ clock' \in Timestamps
      BY <1>1 DEF Happen, Timestamps
    <2>2. TypeOK'
      BY <1>0, <2>1 DEF TypeOK, topic, job
    <2>3. NoGap' /\ GhostsTruthful'
      BY <1>0, <2>1 DEF NoGap, GhostsTruthful, Complete, topic, job
    <2>4. WindowWhole'
      BY <1>0, <2>1 DEF WindowWhole, Body, topic, job
    <2>5. QED
      BY <2>2, <2>3, <2>4 DEF CdcInv
  <1>2. ASSUME NEW g \in ghosts, GhostLands(g)
        PROVE  CdcInv'
    <2>1. g.event \in Events /\ g.checkpoint \in Timestamps
      BY <1>0 DEF TypeOK, Claim
    <2>2. Write(g.event, g.checkpoint) /\ ghosts' = ghosts \ {g}
          /\ UNCHANGED <<clock, waived, job>>
      BY <1>2 DEF GhostLands
    <2>3. NoGap' /\ published \subseteq published' /\ published' \subseteq Events
          /\ tail' \in [Parts -> SUBSET Timestamps]
      <3>1. \A e \in Events : e <= g.checkpoint =>
               e \in published \/ e <= waived \/ e = g.event
        BY <1>0 DEF GhostsTruthful
      <3>2. QED
        BY <1>0, <2>1, <2>2, <3>1, WriteKeepsNoGap DEF job
    <2>4. TypeOK'
      BY <1>0, <2>2, <2>3 DEF TypeOK, job
    <2>5. GhostsTruthful'
      BY <1>0, <2>2, <2>3 DEF GhostsTruthful
    <2>6. WindowWhole'
      BY <1>0, <2>2, <2>3 DEF WindowWhole, Body, job
    <2>7. QED
      BY <2>3, <2>4, <2>5, <2>6 DEF CdcInv
  <1>3. ASSUME NEW p \in Obscurable, Obscure(p)
        PROVE  CdcInv'
    <2>1. tail' = [tail EXCEPT ![p] = {}]
          /\ UNCHANGED <<clock, published, ghosts, waived, job>>
      BY <1>3 DEF Obscure
    <2>2. TypeOK'
      BY <1>0, <2>1 DEF TypeOK, job
    <2>3. NoGap' /\ GhostsTruthful'
      BY <1>0, <2>1 DEF NoGap, GhostsTruthful, Complete, TypeOK, job
    <2>4. WindowWhole'
      BY <1>0, <2>1 DEF WindowWhole, Body, job
    <2>5. QED
      BY <2>2, <2>3, <2>4 DEF CdcInv
  <1>4. QED
    BY <1>1, <1>2, <1>3

\* Steps of the start of a job: Resume reads the tails, or the operator
\* overrides the cursor.
LEMMA StartStep ==
    ASSUME CdcInv, NEW i \in Instances,
           \/ Start(i) \/ Resumed(i)
           \/ \E p \in Parts : Scan(i, p)
           \/ \E t \in Overrides : StartAt(i, t)
    PROVE  CdcInv'
  <1> USE CdcAssumption
  <1>0. TypeOK /\ NoGap /\ GhostsTruthful /\ WindowWhole
    BY DEF CdcInv
  <1>1. CASE Start(i)
    <2>1. TypeOK'
      BY <1>0, <1>1 DEF Start, TypeOK, topic
    <2>2. NoGap' /\ GhostsTruthful'
      BY <1>0, <1>1 DEF Start, NoGap, GhostsTruthful, Complete, topic
    <2>3. WindowWhole'
      BY <1>0, <1>1 DEF Start, WindowWhole, Body, TypeOK, topic
    <2>4. QED
      BY <2>1, <2>2, <2>3 DEF CdcInv
  <1>2. CASE Resumed(i)
    <2>1. TypeOK'
      BY <1>0, <1>2 DEF Resumed, TypeOK, Timestamps, topic
    <2>2. Complete(0)'
      BY DEF Complete
    <2>3. NoGap'
      BY <1>0, <1>2, <2>2 DEF Resumed, NoGap, Complete, TypeOK, topic
    <2>4. GhostsTruthful'
      BY <1>0, <1>2 DEF Resumed, GhostsTruthful, topic
    <2>5. WindowWhole'
      BY <1>0, <1>2 DEF Resumed, WindowWhole, Body, TypeOK, topic
    <2>6. QED
      BY <2>1, <2>3, <2>4, <2>5 DEF CdcInv
  <1>3. ASSUME NEW p \in Parts, Scan(i, p)
        PROVE  CdcInv'
    <2>1. PICK c \in tail[p] \cup {found[i]} :
             found' = [found EXCEPT ![i] = c]
      BY <1>3 DEF Scan
    <2>2. c \in Timestamps /\ Complete(c)
      BY <1>0, <2>1 DEF TypeOK, NoGap
    <2>3. TypeOK'
      BY <1>0, <1>3, <2>1, <2>2 DEF Scan, TypeOK, topic
    <2>4. NoGap' /\ GhostsTruthful'
      BY <1>0, <1>3, <2>1, <2>2
         DEF Scan, NoGap, GhostsTruthful, Complete, TypeOK, topic
    <2>5. WindowWhole'
      BY <1>0, <1>3 DEF Scan, WindowWhole, Body, topic
    <2>6. QED
      BY <2>3, <2>4, <2>5 DEF CdcInv
  <1>4. ASSUME NEW t \in Overrides, StartAt(i, t)
        PROVE  CdcInv'
    <2>1. waived' \in Timestamps /\ t \in Timestamps /\ waived <= waived'
          /\ t <= waived'
      BY <1>0, <1>4 DEF StartAt, TypeOK, Timestamps
    <2>2. TypeOK'
      BY <1>0, <1>4, <2>1 DEF StartAt, TypeOK, topic
    <2>3. \A e \in Events : e \in Nat /\ waived \in Nat /\ waived' \in Nat
                            /\ t \in Nat
      BY <1>0, <2>1 DEF TypeOK, Timestamps
    <2>4. \A u : Complete(u) => Complete(u)'
      BY <1>4, <2>1, <2>3 DEF StartAt, Complete, topic
    <2>5. Complete(t)'
      BY <2>1, <2>3 DEF Complete
    <2>6. NoGap'
      BY <1>0, <1>4, <2>4, <2>5 DEF StartAt, NoGap, Complete, TypeOK, topic
    <2>7. GhostsTruthful'
      BY <1>0, <1>4, <2>1, <2>3 DEF StartAt, GhostsTruthful, topic
    <2>8. WindowWhole'
      BY <1>0, <1>4 DEF StartAt, WindowWhole, Body, TypeOK, topic
    <2>9. QED
      BY <2>2, <2>6, <2>7, <2>8 DEF CdcInv
  <1>5. QED
    BY <1>1, <1>2, <1>3, <1>4

\* Steps of a window that goes well: the query, the records' arrival, the
\* closing record and the advance of the cursor.
LEMMA WindowStep ==
    ASSUME CdcInv, NEW i \in Instances,
           Query(i) \/ Close(i) \/ Advance(i) \/ \E e \in Events : Land(i, e)
    PROVE  CdcInv'
  <1> USE CdcAssumption
  <1>0. TypeOK /\ NoGap /\ GhostsTruthful /\ WindowWhole
    BY DEF CdcInv
  <1>1. CASE Query(i)
    <2>1. PICK s \in Answers(Next64(cursor[i])) :
             /\ s # <<>> /\ Ascending(s)
             /\ window' = [window EXCEPT ![i] = s]
             /\ inflight' = [inflight EXCEPT ![i] = Range(s) \ {Last(s)}]
      BY <1>1 DEF Query
    <2>2. /\ s \in Seq(Events) /\ Last(s) \in Range(s) /\ Range(s) \subseteq Events
          /\ \A e \in Events : cursor[i] < e /\ e <= Last(s) => e \in Range(s)
      BY <1>0, <2>1, AcceptedWindow
    <2>3. /\ pc' = [pc EXCEPT ![i] = "rest"]
          /\ UNCHANGED <<clock, topic, waived, cursor, toscan, found>>
      BY <1>1 DEF Query
    <2>4. TypeOK'
      BY <1>0, <2>1, <2>2, <2>3 DEF TypeOK, topic
    <2>5. NoGap' /\ GhostsTruthful'
      BY <1>0, <2>3 DEF NoGap, GhostsTruthful, Complete, topic
    <2>6. WindowWhole'
      <3>1. window'[i] = s /\ inflight'[i] = Range(s) \ {Last(s)}
            /\ pc'[i] = "rest"
        BY <1>0, <2>1, <2>3 DEF TypeOK
      <3>2. \A j \in Instances \ {i} : window'[j] = window[j]
               /\ inflight'[j] = inflight[j] /\ pc'[j] = pc[j]
        BY <1>0, <2>1, <2>3 DEF TypeOK
      <3>3. QED
        BY <1>0, <2>1, <2>2, <2>3, <3>1, <3>2 DEF WindowWhole, Body, topic
    <2>7. QED
      BY <2>4, <2>5, <2>6 DEF CdcInv
  <1>2. CASE Close(i)
    <2>1. window[i] # <<>> /\ Last(window[i]) \in Events
          /\ Last(window[i]) \in Range(window[i])
      BY <1>0, <1>2, LastOfWindow DEF Close, WindowWhole
    <2>2. TypeOK'
      BY <1>0, <1>2, <2>1 DEF Close, TypeOK, topic
    <2>3. NoGap' /\ GhostsTruthful'
      BY <1>0, <1>2 DEF Close, NoGap, GhostsTruthful, Complete, topic
    <2>4. Range(window[i]) \subseteq published \cup {Last(window[i])}
      BY <1>0, <1>2 DEF Close, WindowWhole, Body
    <2>5. WindowWhole'
      BY <1>0, <1>2, <2>1, <2>4 DEF Close, WindowWhole, Body, TypeOK, topic
    <2>6. QED
      BY <2>2, <2>3, <2>5 DEF CdcInv
  <1>3. CASE Advance(i)
    <2>0. window[i] # <<>>
      BY <1>0, <1>3 DEF Advance, WindowWhole
    <2>1. Last(window[i]) \in Timestamps
      <3>1. Last(window[i]) \in Events
        BY <1>0, <2>0, LastOfWindow
      <3>2. \A e \in Events : e \in Timestamps
        BY DEF Timestamps
      <3>3. QED
        BY <3>1, <3>2
    <2>2. TypeOK'
      BY <1>0, <1>3, <2>1 DEF Advance, TypeOK, topic
    <2>3. Complete(Last(window[i]))
      <3>1. ASSUME NEW e \in Events, e <= Last(window[i])
            PROVE  e \in published \/ e <= waived
        <4>1. e \in Nat /\ cursor[i] \in Nat
          BY <1>0 DEF TypeOK, Timestamps
        <4>2. CASE e <= cursor[i]
          BY <1>0, <4>2 DEF NoGap, Complete
        <4>3. CASE cursor[i] < e
          BY <1>0, <1>3, <3>1, <4>3 DEF Advance, WindowWhole
        <4>4. QED
          BY <4>1, <4>2, <4>3
      <3>2. QED
        BY <3>1 DEF Complete
    <2>4. NoGap' /\ GhostsTruthful'
      BY <1>0, <1>3, <2>3
         DEF Advance, NoGap, GhostsTruthful, Complete, TypeOK, topic
    <2>5. WindowWhole'
      BY <1>0, <1>3 DEF Advance, WindowWhole, Body, TypeOK, topic
    <2>6. QED
      BY <2>2, <2>4, <2>5 DEF CdcInv
  <1>4. ASSUME NEW x \in Events, Land(i, x)
        PROVE  CdcInv'
    <2>1. /\ Write(x, Claims(i))
          /\ inflight' = [inflight EXCEPT ![i] = @ \ {x}]
          /\ UNCHANGED <<clock, ghosts, waived, pc, cursor, toscan, found, window>>
      BY <1>4 DEF Land
    <2>2. /\ Claims(i) \in Timestamps
          /\ \A e \in Events : e <= Claims(i) =>
                e \in published \/ e <= waived \/ e = x
      BY <1>4, ClaimTruthful DEF Land
    <2>3. NoGap' /\ published \subseteq published' /\ published' \subseteq Events
          /\ tail' \in [Parts -> SUBSET Timestamps]
      BY <1>0, <2>1, <2>2, WriteKeepsNoGap
    <2>4. TypeOK'
      BY <1>0, <2>1, <2>3 DEF TypeOK
    <2>5. GhostsTruthful'
      BY <1>0, <2>1, <2>3 DEF GhostsTruthful
    <2>6. WindowWhole'
      <3>1. published' = published \cup {x}
        BY <2>1 DEF Write
      <3>2. inflight'[i] = inflight[i] \ {x}
            /\ \A j \in Instances \ {i} : inflight'[j] = inflight[j]
        BY <1>0, <2>1 DEF TypeOK
      <3>3. QED
        BY <1>0, <2>1, <3>1, <3>2 DEF WindowWhole, Body
    <2>7. QED
      BY <2>3, <2>4, <2>5, <2>6 DEF CdcInv
  <1>5. QED
    BY <1>1, <1>2, <1>3, <1>4

\* Steps that go wrong: an answer is refused, a window fails, or the process
\* ends.  What was in flight may become a ghost, and ghosts stay truthful.
LEMMA FaultStep ==
    ASSUME CdcInv, NEW i \in Instances, Fault(i)
    PROVE  CdcInv'
  <1> USE CdcAssumption
  <1>0. TypeOK /\ NoGap /\ GhostsTruthful /\ WindowWhole
    BY DEF CdcInv
  <1>1. CASE Refuse(i)
    <2>1. TypeOK'
      BY <1>0, <1>1 DEF Refuse, TypeOK, topic
    <2>2. NoGap' /\ GhostsTruthful'
      BY <1>0, <1>1 DEF Refuse, NoGap, GhostsTruthful, Complete, topic
    <2>3. WindowWhole'
      BY <1>0, <1>1 DEF Refuse, WindowWhole, Body, TypeOK, topic
    <2>4. QED
      BY <2>1, <2>2, <2>3 DEF CdcInv
  <1>2. CASE ProduceFails(i) \/ Halt(i)
    <2>1. PICK G \in SUBSET inflight[i] :
             ghosts' = ghosts \cup
                         {[event |-> e, checkpoint |-> Claims(i)] : e \in G}
      BY <1>2 DEF ProduceFails, Halt, LeaveBehind
    <2>2. /\ inflight' = [inflight EXCEPT ![i] = {}]
          /\ window' = [window EXCEPT ![i] = <<>>]
          /\ UNCHANGED <<clock, published, tail, waived, cursor>>
          /\ pc' \in {[pc EXCEPT ![i] = "query"], [pc EXCEPT ![i] = "down"]}
          /\ toscan' \in {toscan, [toscan EXCEPT ![i] = {}]}
          /\ found' \in {found, [found EXCEPT ![i] = 0]}
      BY <1>2 DEF ProduceFails, Halt, LeaveBehind
    <2>3. G # {} => pc[i] \in {"rest", "closing"}
      BY <1>0, <2>1 DEF WindowWhole
    <2>4. \A x \in G :
             /\ x \in Events /\ Claims(i) \in Timestamps
             /\ \A e \in Events : e <= Claims(i) =>
                   e \in published \/ e <= waived \/ e = x
      BY <2>1, <2>3, ClaimTruthful
    <2>5. \A g \in ghosts' \ ghosts :
             /\ g \in Claim
             /\ \A e \in Events : e <= g.checkpoint =>
                   e \in published \/ e <= waived \/ e = g.event
      <3>1. ASSUME NEW g \in ghosts' \ ghosts
            PROVE  g \in Claim /\ \A e \in Events : e <= g.checkpoint =>
                      e \in published \/ e <= waived \/ e = g.event
        <4>1. PICK x \in G : g = [event |-> x, checkpoint |-> Claims(i)]
          BY <2>1, <3>1
        <4>2. QED
          BY <2>4, <4>1 DEF Claim
      <3>2. QED
        BY <3>1
    <2>6. TypeOK'
      <3>1. ghosts' \subseteq Claim
        BY <1>0, <2>5 DEF TypeOK
      <3>2. 0 \in Timestamps /\ <<>> \in Seq(Events)
        BY DEF Timestamps
      <3>3. found \in [Instances -> Timestamps]
            /\ toscan \in [Instances -> SUBSET Parts]
        BY <1>0 DEF TypeOK
      <3>4. found' \in [Instances -> Timestamps]
        BY <2>2, <3>2, <3>3
      <3>5. toscan' \in [Instances -> SUBSET Parts]
        BY <2>2, <3>3
      <3>6. pc' \in [Instances -> {"down", "scan", "query", "rest", "closing"}]
        BY <1>0, <2>2 DEF TypeOK
      <3>7. window' \in [Instances -> Seq(Events)]
            /\ inflight' \in [Instances -> SUBSET Events]
        BY <1>0, <2>2, <3>2 DEF TypeOK
      <3>8. QED
        BY <1>0, <2>2, <3>1, <3>4, <3>5, <3>6, <3>7 DEF TypeOK
    <2>7. GhostsTruthful'
      BY <1>0, <2>2, <2>5 DEF GhostsTruthful
    <2>8. NoGap'
      <3>1. Complete(0)'
        BY DEF Complete
      <3>2. \A j \in Instances : found'[j] = found[j] \/ found'[j] = 0
        BY <1>0, <2>2 DEF TypeOK
      <3>3. QED
        BY <1>0, <2>2, <3>1, <3>2 DEF NoGap, Complete
    <2>9. WindowWhole'
      <3>1. inflight'[i] = {} /\ pc'[i] \notin {"rest", "closing"}
        BY <1>0, <2>2 DEF TypeOK
      <3>2. \A j \in Instances \ {i} : inflight'[j] = inflight[j]
               /\ window'[j] = window[j] /\ pc'[j] = pc[j]
        BY <1>0, <2>2 DEF TypeOK
      <3>3. QED
        BY <1>0, <2>2, <3>1, <3>2 DEF WindowWhole, Body
    <2>10. QED
      BY <2>6, <2>7, <2>8, <2>9 DEF CdcInv
  <1>3. QED
    BY <1>1, <1>2 DEF Fault

\* The invariant NoGap needs holds in every reachable state, whether
\* GetChangeEvents answers in order or not.
THEOREM CdcInvariant == Spec => []CdcInv
  <1>1. CdcInv /\ [Next]_vars => CdcInv'
    <2> SUFFICES ASSUME CdcInv, [Next]_vars PROVE CdcInv'
      OBVIOUS
    <2>1. CASE Next
      BY <2>1, OutsideStep, StartStep, WindowStep, FaultStep DEF Next, Progress
    <2>2. CASE UNCHANGED vars
      BY <2>2 DEF CdcInv, TypeOK, NoGap, GhostsTruthful, WindowWhole, Complete,
                  Body, vars, topic, job
    <2>3. QED
      BY <2>1, <2>2
  <1>2. QED
    BY InitCdcInv, <1>1, PTL DEF Spec

\* The output topic never lies about what it holds (NoGap).
THEOREM TopicHasNoGap == Spec => []NoGap
  <1>1. CdcInv => NoGap
    BY DEF CdcInv
  <1>2. QED
    BY CdcInvariant, <1>1, PTL

\* The job keeps its types, whatever it reads from the topic and however
\* many instances write to it.
THEOREM CdcTypeCorrect == Spec => []TypeOK
  <1>1. CdcInv => TypeOK
    BY DEF CdcInv
  <1>2. QED
    BY CdcInvariant, <1>1, PTL

-----------------------------------------------------------------------------
(* The topic alone is memory enough for a job that has it to itself.       *)

\* One instance, nobody else in the topic, nothing still on its way from an
\* earlier life, no override, and a clock that does not reach the end of its
\* type, where checkpoint + 1 would wrap around.
Alone ==
    /\ \A i, j \in Instances : i = j
    /\ Overrides = {} /\ Obscurable = {} /\ MaxGhosts = 0
    /\ MaxTimestamp \notin Events

Marks == Events \cup {0}

\* Some partition ends in a record that claims c or more.
InTopic(c) == \E p \in Parts : \E t \in tail[p] : t >= c

\* The topic remembers the cursor, during a scan in what is still to be read
\* or in what was found; and the end of a window, once its closing record
\* has landed.
Remembered(i) ==
    /\ cursor[i] \in Marks /\ found[i] \in Marks
    /\ cursor[i] = 0 \/ InTopic(cursor[i])
    /\ found[i] = 0 \/ (pc[i] = "scan" /\ InTopic(found[i]))
    /\ pc[i] = "scan" =>
          \/ cursor[i] = 0 \/ found[i] >= cursor[i]
          \/ \E p \in toscan[i] : \E t \in tail[p] : t >= cursor[i]
    /\ pc[i] \in {"rest", "closing"} => cursor[i] < Last(window[i])
    /\ pc[i] = "closing" /\ inflight[i] = {} => InTopic(Last(window[i]))

Memory ==
    /\ ghosts = {}
    /\ \A p \in Parts : tail[p] \subseteq Marks
    /\ \A i \in Instances : Remembered(i)

\* What a job alone leaves behind is lost.
LEMMA NoGhosts ==
    ASSUME Alone, CdcInv, Memory, NEW i \in Instances, LeaveBehind(i)
    PROVE  ghosts' = {}
  <1>1. PICK G \in SUBSET inflight[i] :
           /\ ghosts' = ghosts \cup {[event |-> e, checkpoint |-> Claims(i)] : e \in G}
           /\ G # {} => Cardinality(ghosts') <= MaxGhosts
    BY DEF LeaveBehind
  <1>2. ghosts' = {[event |-> e, checkpoint |-> Claims(i)] : e \in G} /\ MaxGhosts = 0
    BY <1>1 DEF Memory, Alone
  <1>3. IsFiniteSet(G)
    <2>1. IsFiniteSet(1..MaxTimestamp)
      <3>1. 1 \in Int /\ MaxTimestamp \in Int
        BY CdcAssumption
      <3> QED
        BY <3>1, FS_Interval, Zenon
    <2>2. G \in SUBSET (1..MaxTimestamp)
      BY CdcAssumption DEF CdcInv, TypeOK
    <2>3. QED
      BY <2>1, <2>2, FS_Subset
  <1>4. IsFiniteSet(ghosts')
    <2> DEFINE f == [e \in G |-> [event |-> e, checkpoint |-> Claims(i)]]
    <2>1. f \in Surjection(G, ghosts')
      BY <1>2 DEF Surjection
    <2>2. QED
      BY <1>3, <2>1, FS_Surjection
  <1>5. CASE G = {}
    BY <1>2, <1>5
  <1>6. CASE G # {}
    <2>1. Cardinality(ghosts') <= 0 /\ Cardinality(ghosts') \in Nat
      BY <1>1, <1>2, <1>4, <1>6, FS_CardinalityType
    <2>2. Cardinality(ghosts') = 0
      BY <2>1
    <2>3. QED
      BY <1>4, <2>2, FS_EmptySet
  <1>7. QED
    BY <1>5, <1>6

\* A query asks for what comes after the cursor.
LEMMA WindowAhead ==
    ASSUME Alone, CdcInv, Memory, NEW i \in Instances,
           NEW s \in Answers(Next64(cursor[i])), s # <<>>
    PROVE  cursor[i] < Last(s)
  <1>1. cursor[i] \in Marks /\ cursor[i] \in Nat
    BY CdcAssumption DEF Memory, Remembered, CdcInv, TypeOK, Timestamps
  <1>2. PICK n \in 0..BatchSize : s \in [1..n -> Following(Next64(cursor[i]))]
    BY DEF Answers
  <1>3. n \in Nat /\ n # 0 /\ Len(s) = n
    BY <1>2, CdcAssumption
  <1>4. Last(s) \in Following(Next64(cursor[i]))
    BY <1>2, <1>3 DEF Last
  <1>5. Last(s) \in Events /\ Next64(cursor[i]) <= Last(s)
    BY <1>4 DEF Following
  <1>6. Last(s) \in Nat /\ MaxTimestamp # 0
    <2>1. Last(s) \in 1..MaxTimestamp /\ MaxTimestamp \in Nat
      BY <1>5, CdcAssumption
    <2> DEFINE l == Last(s)
    <2> HIDE DEF l
    <2>2. l \in 1..MaxTimestamp
      BY <2>1 DEF l
    <2>3. l \in Nat /\ MaxTimestamp # 0
      BY <2>1, <2>2
    <2>4. QED
      BY <2>3 DEF l
  <1>7. Next64(cursor[i]) = cursor[i] + 1
    BY <1>1, <1>6 DEF Next64, Marks, Alone
  <1>8. QED
    BY <1>1, <1>5, <1>6, <1>7

\* A record written by a job alone hides no higher claim than the one it
\* makes itself.
LEMMA WriteRemembers ==
    ASSUME CdcInv, NEW x \in Events, NEW cp \in Nat, Write(x, cp),
           NEW c \in Nat, c <= cp
    PROVE  InTopic(c)'
  <1>1. Route[x] \in Parts /\ tail'[Route[x]] = {cp}
    BY CdcAssumption DEF Write, CdcInv, TypeOK
  <1>2. QED
    BY <1>1 DEF InTopic

\* The steps of a job alone: the cursor never moves back, because the topic
\* remembers it.
LEMMA AloneStep ==
    ASSUME Alone, CdcInv, Memory, [Next]_vars
    PROVE  Memory' /\ \A i \in Instances : cursor'[i] >= cursor[i]
  <1> USE CdcAssumption
  <1>0. TypeOK /\ WindowWhole
    BY DEF CdcInv
  <1>1. \A i \in Instances : cursor[i] \in Nat /\ found[i] \in Nat /\ cursor[i] >= cursor[i]
    BY <1>0 DEF TypeOK, Timestamps
  <1>2. CASE UNCHANGED vars \/ \E e \in Events : Happen(e)
    <2>1. UNCHANGED <<topic, job>>
      BY <1>2 DEF vars, Happen
    <2>2. Memory'
      BY <2>1 DEF Memory, Remembered, InTopic, topic, job
    <2>3. QED
      BY <1>1, <2>1, <2>2 DEF job
  <1>3. CASE \E g \in ghosts : GhostLands(g)
    BY <1>3 DEF Memory
  <1>4. CASE \E p \in Obscurable : Obscure(p)
    BY <1>4 DEF Alone
  <1>5. ASSUME NEW i \in Instances, Fault(i) \/ Progress(i)
        PROVE  Memory' /\ \A j \in Instances : cursor'[j] >= cursor[j]
    <2>0. \A j \in Instances : j = i
      BY DEF Alone
    <2>1. Remembered(i) /\ ghosts = {} /\ \A p \in Parts : tail[p] \subseteq Marks
      BY DEF Memory
    <2>2. SUFFICES /\ ghosts' = {} /\ \A p \in Parts : tail'[p] \subseteq Marks
                   /\ Remembered(i)' /\ cursor'[i] >= cursor[i]
      BY <2>0 DEF Memory
    <2>3. CASE Start(i)
      <3>1. /\ pc[i] = "down" /\ pc'[i] = "scan" /\ toscan'[i] = Parts
            /\ UNCHANGED <<topic, cursor, found, window, inflight>>
        BY <1>0, <2>3 DEF Start, TypeOK
      <3>2. QED
        BY <1>1, <2>1, <3>1 DEF Remembered, InTopic, topic
    <2>4. ASSUME NEW p \in Parts, Scan(i, p)
          PROVE  /\ ghosts' = {} /\ \A q \in Parts : tail'[q] \subseteq Marks
                 /\ Remembered(i)' /\ cursor'[i] >= cursor[i]
      <3>1. PICK c \in tail[p] \cup {found[i]} :
               /\ \A t \in tail[p] \cup {found[i]} : t <= c
               /\ found' = [found EXCEPT ![i] = c]
        BY <2>4 DEF Scan
      <3>2. /\ pc[i] = "scan" /\ found'[i] = c /\ toscan'[i] = toscan[i] \ {p}
            /\ UNCHANGED <<topic, pc, cursor, window, inflight>>
        BY <1>0, <2>4, <3>1 DEF Scan, TypeOK
      <3>3. c \in Marks /\ c \in Nat /\ \A q \in Parts : \A t \in tail[q] : t \in Nat
        BY <1>0, <2>1, <3>1 DEF Remembered, Marks, TypeOK, Timestamps
      <3>4. cursor[i] = 0 \/ c >= cursor[i]
              \/ \E q \in toscan[i] \ {p} : \E t \in tail[q] : t >= cursor[i]
        <4>1. CASE found[i] >= cursor[i]
          BY <1>1, <3>1, <3>3, <4>1
        <4>2. ASSUME NEW q \in toscan[i], NEW t \in tail[q], t >= cursor[i]
              PROVE  \/ c >= cursor[i]
                     \/ \E r \in toscan[i] \ {p} : \E u \in tail[r] : u >= cursor[i]
          <5>1. CASE q = p
            BY <1>1, <3>1, <3>3, <4>2, <5>1
          <5>2. CASE q # p
            BY <4>2, <5>2
          <5>3. QED
            BY <5>1, <5>2
        <4>3. QED
          BY <2>1, <3>2, <4>1, <4>2 DEF Remembered
      <3>5. QED
        <4>1. c = 0 \/ InTopic(c)
          <5>1. CASE c = found[i]
            BY <2>1, <3>2, <5>1 DEF Remembered
          <5>2. CASE c \in tail[p]
            BY <3>2, <3>3, <5>2 DEF InTopic
          <5>3. QED
            BY <3>1, <5>1, <5>2
        <4>2. QED
          BY <1>1, <2>1, <3>2, <3>3, <3>4, <4>1 DEF Remembered, InTopic, topic
    <2>5. CASE Resumed(i)
      <3>1. /\ pc[i] = "scan" /\ toscan[i] = {} /\ pc'[i] = "query"
            /\ cursor'[i] = found[i] /\ found'[i] = 0
            /\ UNCHANGED <<topic, window, inflight>>
        BY <1>0, <2>5 DEF Resumed, TypeOK
      <3>2. cursor[i] = 0 \/ found[i] >= cursor[i]
        BY <2>1, <3>1 DEF Remembered
      <3>3. found[i] >= cursor[i]
        BY <1>1, <3>2
      <3>4. QED
        BY <2>1, <3>1, <3>3 DEF Remembered, InTopic, Marks, topic
    <2>6. CASE Refuse(i)
      <3>1. pc[i] = "query" /\ pc'[i] = "down" /\ UNCHANGED <<topic, cursor, toscan, found, window, inflight>>
        BY <1>0, <2>6 DEF Refuse, TypeOK
      <3>2. QED
        BY <1>1, <2>1, <3>1 DEF Remembered, InTopic, topic
    <2>7. CASE Query(i)
      <3>1. PICK s \in Answers(Next64(cursor[i])) :
               s # <<>> /\ window' = [window EXCEPT ![i] = s]
        BY <2>7 DEF Query
      <3>2. /\ pc'[i] = "rest" /\ window'[i] = s
            /\ pc[i] = "query" /\ UNCHANGED <<topic, cursor, toscan, found>>
        BY <1>0, <2>7, <3>1 DEF Query, TypeOK
      <3>3. cursor[i] < Last(s)
        BY <3>1, WindowAhead
      <3>4. QED
        BY <1>1, <2>1, <3>2, <3>3 DEF Remembered, InTopic, topic
    <2>8. CASE Close(i)
      <3>1. /\ pc[i] = "rest" /\ pc'[i] = "closing" /\ inflight'[i] = {Last(window[i])}
            /\ UNCHANGED <<topic, cursor, toscan, found, window>>
        BY <1>0, <2>8 DEF Close, TypeOK
      <3>2. QED
        BY <1>1, <2>1, <3>1 DEF Remembered, InTopic, topic
    <2>9. ASSUME NEW x \in Events, Land(i, x)
          PROVE  /\ ghosts' = {} /\ \A q \in Parts : tail'[q] \subseteq Marks
                 /\ Remembered(i)' /\ cursor'[i] >= cursor[i]
      <3>1. /\ pc[i] \in {"rest", "closing"} /\ Write(x, Claims(i)) /\ x \in inflight[i]
            /\ UNCHANGED <<ghosts, pc, cursor, toscan, found, window>>
        BY <2>9 DEF Land
      <3>2. window[i] # <<>>
        BY <1>0, <3>1 DEF WindowWhole
      <3>3. Last(window[i]) \in Events /\ Last(window[i]) \in Nat
        BY <1>0, <3>2, LastOfWindow
      <3>4. Claims(i) \in Marks /\ Claims(i) \in Nat /\ cursor[i] <= Claims(i)
        BY <1>1, <2>1, <3>1, <3>3 DEF Claims, Remembered, Marks
      <3>5. tail' = [tail EXCEPT ![Route[x]] = {Claims(i)}]
        BY <3>1 DEF Write
      <3>6. \A q \in Parts : tail'[q] \subseteq Marks
        BY <1>0, <2>1, <3>4, <3>5 DEF TypeOK
      <3>7. InTopic(cursor[i])'
        <4>1. \E q \in Parts : \E t \in tail'[q] : t >= cursor[i]
          BY <1>1, <3>1, <3>4, WriteRemembers DEF InTopic
        <4>2. QED
          BY <3>1, <4>1 DEF InTopic
      <3>8. pc[i] = "closing" => \E q \in Parts : \E t \in tail'[q] : t >= Last(window[i])
        <4>1. pc[i] = "closing" => Claims(i) = Last(window[i])
          BY DEF Claims
        <4>2. QED
          BY <3>1, <3>3, <3>4, <4>1, WriteRemembers DEF InTopic
      <3>9. QED
        BY <1>1, <2>1, <3>1, <3>6, <3>7, <3>8 DEF Remembered, InTopic
    <2>10. CASE Advance(i)
      <3>1. /\ pc[i] = "closing" /\ inflight[i] = {} /\ pc'[i] = "query"
            /\ cursor'[i] = Last(window[i])
            /\ UNCHANGED <<topic, toscan, found, inflight>>
        BY <1>0, <2>10 DEF Advance, TypeOK
      <3>2. window[i] # <<>>
        BY <1>0, <3>1 DEF WindowWhole
      <3>3. Last(window[i]) \in Events /\ Last(window[i]) \in Nat
        BY <1>0, <3>2, LastOfWindow
      <3>4. cursor[i] < Last(window[i])
        BY <2>1, <3>1 DEF Remembered
      <3>5. \E p \in Parts : \E t \in tail[p] : t >= Last(window[i])
        BY <2>1, <3>1 DEF Remembered, InTopic
      <3>6. QED
        BY <1>1, <2>1, <3>1, <3>3, <3>4, <3>5 DEF Remembered, InTopic, Marks, topic
    <2>11. CASE ProduceFails(i) \/ Halt(i)
      <3>1. ghosts' = {}
        BY <2>11, NoGhosts DEF ProduceFails, Halt
      <3>2. /\ pc'[i] \in {"query", "down"} /\ found'[i] \in {found[i], 0}
            /\ UNCHANGED <<tail, cursor>>
            /\ pc[i] # "scan" \/ found'[i] = 0
        BY <1>0, <2>11 DEF ProduceFails, Halt, TypeOK
      <3>3. QED
        BY <1>1, <2>1, <3>1, <3>2 DEF Remembered, InTopic, Marks
    <2>12. QED
      BY <1>5, <2>3, <2>4, <2>5, <2>6, <2>7, <2>8, <2>9, <2>10, <2>11 DEF Fault, Progress
  <1>6. ~\E i \in Instances : \E t \in Overrides : StartAt(i, t)
    BY DEF Alone
  <1>7. QED
    BY <1>2, <1>3, <1>4, <1>5, <1>6 DEF Next

\* A job that has the topic to itself never publishes a completed window
\* again, through any number of crashes: Resume finds a claim at least as
\* high as the cursor of the life before.
THEOREM CursorMonotone ==
    ASSUME Alone
    PROVE  Spec => CursorNeverRegresses
  <1>1. Init => Memory
    BY DEF Init, Memory, Remembered, Marks
  <1>2. Memory /\ CdcInv /\ [Next]_vars => Memory'
    BY AloneStep
  <1>3. Memory /\ CdcInv /\ [Next]_vars =>
           [\A i \in Instances : cursor'[i] >= cursor[i]]_vars
    BY AloneStep
  <1>4. QED
    BY CdcInvariant, <1>1, <1>2, <1>3, PTL DEF Spec, CursorNeverRegresses
=============================================================================
