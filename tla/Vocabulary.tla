----------------------------- MODULE Vocabulary -----------------------------
(***************************************************************************)
(* What the two pipelines say and understand: a configuration is loaded, a *)
(* payload is decoded, TigerBeetle applies the command, and the CDC job    *)
(* renders and publishes the change events, its own and other people's, a  *)
(* window at a time (Job.publish).                                         *)
(*                                                                         *)
(* Encoder.marshal is here in full, with the memory it reuses: the scratch *)
(* chunk, the chunks easyjson chains behind it, and the pool of chunks the *)
(* sink's emitter, which runs beside it in the same process, draws from    *)
(* too.  Memory is counted in pieces of a message.                         *)
(***************************************************************************)
EXTENDS Encoder

CONSTANTS Configs,      \* configuration files, each tried with ...
          Samples,      \* ... these payloads
          Usual,        \* the configuration everything else is tried with
          Payloads,     \* payloads
          Windows,      \* change events of other clients, a window at a time
          Buffers,      \* names of allocations, a set of numbers
          ScratchSize,  \* scratchSize, in pieces
          MaxPool       \* bound: chunks the pool remembers

ASSUME BufferAssumption ==
    Buffers \subseteq Nat /\ 1 \in Buffers /\ ScratchSize \in Nat \ {0} /\ MaxPool \in Nat \ {0}

ASSUME InputAssumption ==
    /\ \A c \in Configs \cup {Usual} : IsConfig(c)
    /\ \A p \in Samples \cup Payloads : IsPayload(p)
    /\ \A w \in Windows : IsWindow(w)

VARIABLES
    raw,        \* the configuration file
    cfg,        \* the configuration in use, if any
    payload,    \* the payload to decode, if any
    cmd,        \* the command decoded from it, if any
    stage,      \* how far this process has come
    window,     \* the change events to publish
    next,       \* the event Record is called with
    busy,       \* marshal is between the rendering and the copy
    warned,     \* Encoder.warned
    scratch,    \* Encoder.scratch: the allocation ...
    cap,        \* ... and its capacity
    chunks,     \* the chunks Encoder.w holds, in order
    pool,       \* easyjson's pool of chunks
    other,      \* the chunk another goroutine writes to, if any
    mem,        \* mem[b]: what allocation b holds
    sent        \* records built and not yet acknowledged

input == <<raw, cfg, payload, cmd, stage, window>>
encoder == <<next, busy, warned, scratch, cap, chunks>>
vars == <<input, encoder, pool, other, mem, sent>>

Init ==
    /\ \/ raw \in Configs /\ payload \in {{p} : p \in Samples} /\ window = <<>>
       \/ raw = Usual /\ payload \in {{p} : p \in Payloads} /\ window = <<>>
       \/ raw = Usual /\ payload = {} /\ window \in Windows
    /\ cfg = {} /\ cmd = {} /\ stage = "start"
    /\ next = 1 /\ busy = FALSE /\ warned = {}
    /\ scratch = 1 /\ cap = ScratchSize /\ chunks = <<>>
    /\ pool = {} /\ other = {} /\ sent = {}
    /\ mem = [b \in Buffers |-> <<>>]

TypeOK ==
    /\ Cardinality(cfg) <= 1 /\ Cardinality(cmd) <= 1
    /\ stage \in {"start", "refused", "loaded", "decoded", "publish"}
    /\ next \in 1..(Len(window) + 1) /\ busy \in BOOLEAN
    /\ warned \subseteq {"ledger", "code", "event_type"} \X Nat
    /\ scratch \in Buffers /\ cap \in Nat \ {0} /\ chunks \in Seq(Buffers)
    /\ pool \subseteq Buffers /\ other \subseteq Buffers \ pool
    /\ \A r \in sent : r.n \in DOMAIN window /\ r.buf \in Buffers \ {scratch}

-----------------------------------------------------------------------------
(* From the file to the change events.                                     *)

LoadConfig ==
    /\ stage = "start"
    /\ cfg' = Load(raw)
    /\ stage' = IF Load(raw) = {} THEN "refused"
                ELSE IF payload = {} THEN "publish" ELSE "loaded"
    /\ UNCHANGED <<raw, payload, cmd, window, encoder, pool, other, mem, sent>>

Receive ==
    /\ stage = "loaded"
    /\ \E c \in cfg, p \in payload : cmd' = Decode(c, p)
    /\ stage' = "decoded"
    /\ UNCHANGED <<raw, cfg, payload, window, encoder, pool, other, mem, sent>>

\* The change event of a transfer (external).  Where the command left the
\* accounts out, they are the pending transfer's.
EventOf(t) ==
    LET party(id, b) == [id |-> IF id = 0 THEN 1 ELSE id, balances |-> b, user |-> 0,
                         code |-> t.code, flags |-> {}]
    IN [type |-> CASE 2 \in t.flags -> 2 [] 3 \in t.flags -> 3
                   [] 1 \in t.flags -> 1 [] OTHER -> 0,
        id |-> t.id, ledger |-> t.ledger, code |-> t.code, amount |-> t.amount,
        flags |-> t.flags, pending |-> t.pending, user |-> t.user, timeout |-> t.timeout,
        debit |-> party(t.debit, <<0, t.amount, 0, 0>>),
        credit |-> party(t.credit, <<0, 0, 0, t.amount>>)]

Apply ==
    /\ stage = "decoded"
    /\ \E k \in cmd :
          /\ k.op = "create_transfers"
          /\ window' = [i \in DOMAIN k.events |-> EventOf(k.events[i])]
    /\ stage' = "publish"
    /\ UNCHANGED <<raw, cfg, payload, cmd, encoder, pool, other, mem, sent>>

-----------------------------------------------------------------------------
(* Encoder.Record, in the two steps of marshal.                            *)

Size(ev) == 1 + Cardinality(ev.flags)
Pieces(n) == [i \in 1..Size(window[n]) |-> <<n, i>>]

Used == {scratch} \cup pool \cup other \cup ToSet(chunks) \cup {r.buf : r \in sent}

\* A new allocation; none when the names have run out.
Fresh(used) == {b \in Buffers \ used : \A x \in Buffers \ used : b <= x}

\* publish renders all but the last event and waits for their
\* acknowledgements before it renders the last.
Due == next < Len(window) \/ (next = Len(window) /\ sent = {})

\* The message and MarshalEasyJSON, which chains a chunk behind the scratch
\* when that is full: from the pool, or a new one.
MarshalBegin ==
    /\ stage = "publish" /\ ~busy /\ Due
    /\ LET p == Pieces(next)
       IN \/ /\ Len(p) <= cap
             /\ mem' = [mem EXCEPT ![scratch] = p]
             /\ chunks' = Append(chunks, scratch)
             /\ UNCHANGED pool
          \/ /\ Len(p) > cap
             /\ \E b \in pool \cup Fresh(Used) :
                   /\ mem' = [mem EXCEPT ![scratch] = SubSeq(p, 1, cap),
                                         ![b] = SubSeq(p, cap + 1, Len(p))]
                   /\ chunks' = chunks \o <<scratch, b>>
                   /\ pool' = pool \ {b}
    /\ busy' = TRUE
    /\ \E c \in cfg : warned' = warned \cup Gaps(c, window[next])
    /\ UNCHANGED <<input, next, scratch, cap, other, sent>>

\* The pool may let go of what it holds at any garbage collection.
Pooled(S) == IF Cardinality(pool \cup S) <= MaxPool THEN pool \cup S ELSE S

Body == FlattenSeq([i \in DOMAIN chunks |-> mem[chunks[i]]])

Keep(b) ==
    \E c \in cfg : sent' = sent \cup {[n |-> next, buf |-> b,
                                      key |-> key(c, Message(c, window[next]))]}

\* Mutant of CopyOut: the scratch itself becomes the record's body.
HandOutScratch ==
    /\ busy /\ Len(chunks) = 1
    /\ Keep(scratch)
    /\ next' = next + 1 /\ busy' = FALSE /\ chunks' = <<>>
    /\ UNCHANGED <<input, warned, scratch, cap, pool, other, mem>>

\* The message fit: a fresh body, and the scratch is kept.
CopyOut ==
    /\ busy /\ Len(chunks) = 1
    /\ \E b \in Fresh(Used) : Keep(b) /\ mem' = [mem EXCEPT ![b] = Body]
    /\ next' = next + 1 /\ busy' = FALSE /\ chunks' = <<>>
    /\ UNCHANGED <<input, warned, scratch, cap, pool, other>>

\* Mutant of BuildBytes: the scratch is kept although the pool has it.
BuildBytesKeepsScratch ==
    /\ busy /\ Len(chunks) > 1
    /\ \E b \in Fresh(Used) : Keep(b) /\ mem' = [mem EXCEPT ![b] = Body]
    /\ pool' = Pooled(ToSet(chunks))
    /\ next' = next + 1 /\ busy' = FALSE /\ chunks' = <<>>
    /\ UNCHANGED <<input, warned, scratch, cap, other>>

\* It did not: every chunk, the scratch included, goes to the pool.
BuildBytes ==
    /\ busy /\ Len(chunks) > 1
    /\ \E b \in Fresh(Used) :
          /\ Keep(b) /\ mem' = [mem EXCEPT ![b] = Body]
          /\ scratch' \in Fresh(Used \cup {b}) /\ cap' = 2 * Len(Body)
    /\ pool' = Pooled(ToSet(chunks))
    /\ next' = next + 1 /\ busy' = FALSE /\ chunks' = <<>>
    /\ UNCHANGED <<input, warned, other>>

\* Mutant of MarshalFails: the writer keeps its chunks.
MarshalFailsKeepsChunks ==
    /\ busy
    /\ scratch' \in Fresh(Used) /\ cap' = ScratchSize
    /\ next' = 1 /\ busy' = FALSE /\ sent' = {}
    /\ UNCHANGED <<input, warned, chunks, pool, other, mem>>

\* An error: the writer and the scratch are dropped, and the job renders the
\* whole window again.
MarshalFails ==
    /\ busy
    /\ scratch' \in Fresh(Used) /\ cap' = ScratchSize /\ chunks' = <<>>
    /\ next' = 1 /\ busy' = FALSE /\ sent' = {}
    /\ mem' = [b \in Buffers |-> IF b \in pool \cup other THEN mem[b] ELSE <<>>]
    /\ UNCHANGED <<input, warned, pool, other>>

\* The broker acknowledges a record, and its body is let go.
Ack(r) ==
    /\ ~busy /\ next >= Len(window)
    /\ sent' = sent \ {r}
    /\ mem' = [mem EXCEPT ![r.buf] = <<>>]
    /\ UNCHANGED <<input, encoder, pool, other>>

-----------------------------------------------------------------------------
(* Another goroutine's easyjson.Marshal (the emitter's Results).           *)

OtherTakes ==
    /\ other = {}
    /\ \E b \in pool : /\ other' = {b} /\ pool' = pool \ {b}
                       /\ mem' = [mem EXCEPT ![b] = <<<<0, 0>>>>]
    /\ UNCHANGED <<input, encoder, sent>>

OtherGives ==
    /\ other # {}
    /\ pool' = Pooled(other) /\ other' = {}
    /\ UNCHANGED <<input, encoder, mem, sent>>

Next ==
    \/ LoadConfig \/ Receive \/ Apply
    \/ MarshalBegin \/ CopyOut \/ BuildBytes \/ MarshalFails
    \/ \E r \in sent : Ack(r)
    \/ OtherTakes \/ OtherGives

Spec == Init /\ [][Next]_vars

-----------------------------------------------------------------------------
(* Correctness.                                                            *)

\* A configuration that leaves max_in_flight_per_partition out loads if any
\* value for it would ("it must not fail to load over a value it never
\* specified").
OldConfigLoads ==
    stage = "refused" /\ raw.maxInFlight = 0
       => \A n \in 1..(raw.maxQueue + raw.maxBatch) :
             Load([raw EXCEPT !.maxInFlight = n]) = {}

\* Every command the decoder admits is one the batcher accepts, under every
\* configuration that loads: within max_batch_size, not empty, and without a
\* chain left open ("A message the decoder admits must be one the batcher can
\* accept whole").
CommandFits ==
    \A c \in cfg, k \in cmd :
       /\ Len(k.events) \in 1..c.maxBatch
       /\ LinkedBit \notin k.events[Len(k.events)].flags

Objects(p) == UNION {ToSet(p.fields[i].val) :
                       i \in {i \in DOMAIN p.fields : p.fields[i].key = "transfers"}}

\* ParseAmount gives the value a text denotes at the ledger's scale, for all
\* the values an amount can have, and refuses the texts that denote none.
\* The fast path never wraps around.
AmountExact ==
    stage = "decoded" => \A c \in cfg, p \in payload : \A o \in Objects(p) :
       {"ledger", "amount"} \subseteq DOMAIN o /\ Ledger(c, o.ledger).ok
          => LET scale == Ledger(c, o.ledger).v.scale
             IN ParseAmount(o.amount, scale) = Denotes(o.amount, scale)

\* The depth scanner refuses exactly the texts that nest deeper than the
\* limit: brackets inside strings do not count, however they are escaped.
DepthExact ==
    stage = "decoded" => \A c \in cfg, p \in payload :
       checkDepth(p.text, c.maxDepth) <=> p.nesting <= c.maxDepth

\* "One vocabulary covers what the sink accepts and what this job produces":
\* a published event whose names and flags the sink knows decodes to the same
\* transfer, and any other is refused rather than misread.
Speakable(c, ev) ==
    /\ LedgerName(c, ev.ledger).ok /\ CodeName(c, ev.code).ok
    /\ ev.flags \subseteq 0..7

OneVocabulary ==
    busy => \A c \in cfg :
       LET ev == window[next]
           t == transfer(c, AsTransfer(Message(c, ev)))
       IN (t.ok <=> Speakable(c, ev)) /\ (t.ok => t.v = Original(ev))

\* A record on its way to the broker holds the rendering of its own event,
\* whole and nothing else, whatever is rendered meanwhile and whoever else
\* uses the pool ("it cannot be a buffer the next event overwrites").
BodiesIntact == \A r \in sent : mem[r.buf] = Pieces(r.n)
=============================================================================
