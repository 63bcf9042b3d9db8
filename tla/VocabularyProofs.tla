-------------------------- MODULE VocabularyProofs --------------------------
(***************************************************************************)
(* What is proved of Vocabulary for every configuration, payload, window   *)
(* and stock of buffers: that a configuration is not refused over a value  *)
(* it left out, that what the decoder admits the batcher accepts, that no  *)
(* record's body is overwritten, that amounts and depths are read exactly, *)
(* and that a rendered event decodes to the transfer it is about.          *)
(***************************************************************************)
EXTENDS Vocabulary, AmountsProofs

-----------------------------------------------------------------------------
(* Configurations.                                                         *)

\* What loads is valid, and there is one of it at most.
LEMMA LoadedIsValid ==
  ASSUME NEW file, NEW c \in Load(file)
  PROVE  Valid(c) /\ Load(file) = {c}
  BY DEF Load

\* A value for max_in_flight_per_partition can be refused; leaving it out
\* adds no reason to refuse.
LEMMA OmissionLoads ==
  ASSUME NEW file, IsConfig(file), file.maxInFlight = 0, Load(file) = {},
         NEW n \in 1..(file.maxQueue + file.maxBatch)
  PROVE  Load([file EXCEPT !.maxInFlight = n]) = {}
  <1> DEFINE given == [file EXCEPT !.maxInFlight = n]
             c == Defaults(file)
             d == Defaults(given)
  <1> SUFFICES ASSUME Load(given) # {}
               PROVE  FALSE
    OBVIOUS
  <1>1. ~given.unknownKey /\ Valid(d)
    BY DEF Load
  <1>2. file.maxBatch \in Int /\ file.maxQueue \in Int
    BY DEF IsConfig
  <1>3. /\ given.maxBatch = file.maxBatch /\ given.maxQueue = file.maxQueue
        /\ given.maxEvents = file.maxEvents /\ given.maxBytes = file.maxBytes
        /\ given.maxDepth = file.maxDepth /\ given.ledgers = file.ledgers
        /\ given.codes = file.codes /\ given.setting = file.setting
        /\ given.cdcBatch = file.cdcBatch /\ given.partitionKey = file.partitionKey
        /\ given.unknownKey = file.unknownKey
    BY DEF IsConfig
  <1>4. /\ \A x \in {"maxBatch", "maxQueue", "maxEvents", "maxBytes", "maxDepth",
                      "ledgers", "codes"} : c[x] = file[x] /\ d[x] = file[x]
        /\ c.cdcBatch = d.cdcBatch /\ c.partitionKey = d.partitionKey
        /\ c.setting = d.setting
        /\ c.maxInFlight = InFlight(file)
    <2>1. DOMAIN given = DOMAIN file
      OBVIOUS
    <2>2. [s \in Setting |-> IF Accepted(file, s) THEN "good" ELSE "bad"]
            = [s \in Setting |-> IF Accepted(given, s) THEN "good" ELSE "bad"]
      BY <1>3 DEF Accepted
    <2> HIDE DEF given
    <2> QED
      BY <1>3, <2>1, <2>2 DEF Defaults, IsConfig
  <1> HIDE DEF c, d
  <1>5. c.maxInFlight \in 1..(c.maxQueue + c.maxBatch)
    <2>1. file.maxBatch >= 1 /\ file.maxQueue > 0
      BY <1>1, <1>2, <1>4, LimitAssumption DEF Valid
    <2>2. InFlight(file) \in 1..(file.maxQueue + file.maxBatch)
      BY <1>2, <2>1, LimitAssumption DEF InFlight
    <2> QED
      BY <1>4, <2>2
  <1>6. Valid(c)
    <2>1. LedgersValid(c) /\ CodesValid(c) /\ LimitsValid(c)
      BY <1>1, <1>4 DEF Valid, LedgersValid, CodesValid, LimitsValid
    <2> QED
      BY <1>1, <1>4, <1>5, <2>1 DEF Valid
  <1> QED
    BY <1>1, <1>3, <1>6 DEF Load, c

-----------------------------------------------------------------------------
(* Decoding.                                                               *)

\* A bounded set of naturals has a greatest element.
LEMMA BoundedMax ==
  ASSUME NEW n \in Nat, NEW T, T \subseteq 1..n, T # {}
  PROVE  Max(T) \in T
  <1> DEFINE R == {ss \in Nat \X Nat : ss[1] < ss[2]}
             D == {n - x : x \in T}
  <1>1. IsWellFoundedOn(R, Nat)
    BY NatLessThanWellFounded DEF OpToRel
  <1>2. D \subseteq Nat /\ D # {}
    <2>1. \A x \in T : n - x \in Nat
      OBVIOUS
    <2> QED
      BY <2>1
  <1>3. PICK d \in D : \A e \in D : ~(<<e, d>> \in R)
    BY <1>1, <1>2, WFMin
  <1>4. PICK x \in T : d = n - x
    BY <1>3
  <1>5. ASSUME NEW y \in T PROVE x >= y
    <2>1. n - y \in D /\ n - y \in Nat /\ n - x \in Nat
      BY <1>4
    <2>2. <<n - y, n - x>> \notin R
      BY <1>3, <1>4, <2>1
    <2>3. ~(n - y < n - x)
      BY <2>1, <2>2
    <2> QED
      BY <2>3
  <1> QED
    BY <1>5 DEF Max

\* A list that is read whole is a list of the same length.
LEMMA ListsRead ==
  ASSUME NEW objects, IsList(objects)
  PROVE  /\ ReadAll(objects, ReadTransfer).ok =>
               IsList(ReadAll(objects, ReadTransfer).v)
         /\ ReadAll(objects, ReadAccount).ok =>
               IsList(ReadAll(objects, ReadAccount).v)
  BY DEF ReadAll, IsList, Ok, Error

\* The amount of a transfer that is read is a text.
LEMMA AmountRead ==
  ASSUME NEW objects, IsList(objects),
         \A o \in ToSet(objects) : "amount" \in DOMAIN o => o.amount \in Seq(Char),
         ReadAll(objects, ReadTransfer).ok
  PROVE  LET r == ReadAll(objects, ReadTransfer).v IN \A i \in DOMAIN r : r[i].amount \in Seq(Char)
  <1> DEFINE q == [i \in DOMAIN objects |-> ReadTransfer(objects[i])]
             r == [i \in DOMAIN q |-> q[i].v]
  <1>1. ReadAll(objects, ReadTransfer).v = r /\ \A i \in DOMAIN objects : q[i].ok
    BY DEF ReadAll, Ok, Error
  <1>2. ASSUME NEW i \in DOMAIN objects PROVE r[i].amount \in Seq(Char)
    <2> DEFINE o == objects[i]
               f == [k \in DOMAIN ZeroTransfer |-> IF k \in DOMAIN o THEN o[k] ELSE ZeroTransfer[k]]
    <2>1. o \in ToSet(objects)
      BY <1>2 DEF ToSet, IsList
    <2>2. "amount" \in DOMAIN ZeroTransfer /\ ZeroTransfer["amount"] = <<>>
      BY DEF ZeroTransfer
    <2>3. ReadTransfer(o).ok
      BY <1>1, <1>2
    <2>4. ReadTransfer(o).v = f
      BY <2>3 DEF ReadTransfer, Fill, Ok, Error
    <2>5. r[i] = f
      BY <1>2, <2>4
    <2> HIDE DEF o, r
    <2>6. f["amount"] = IF "amount" \in DOMAIN o THEN o["amount"] ELSE <<>>
      BY <2>2
    <2> HIDE DEF f
    <2>7. f["amount"] \in Seq(Char)
      <3>1. CASE "amount" \in DOMAIN o
        <4>1. o.amount \in Seq(Char)
          BY <2>1, <3>1
        <4> QED BY <2>6, <3>1, <4>1
      <3>2. CASE "amount" \notin DOMAIN o
        BY <2>6, <3>2
      <3> QED BY <3>1, <3>2
    <2> QED BY <2>5, <2>7
  <1>3. DOMAIN r = DOMAIN objects
    OBVIOUS
  <1> HIDE DEF r
  <1> QED BY <1>1, <1>2, <1>3

\* The lists the parser leaves behind are lists, and the amounts among them
\* are texts.
LEMMA UnmarshalsLists ==
  ASSUME NEW fields, IsPayload([fields |-> fields]), Unmarshal(fields).ok,
         NEW name \in {"transfers", "accounts"}
  PROVE  LET list == LastSet(fields, name, <<>>) IN
         /\ IsList(list)
         /\ name = "transfers" => \A i \in DOMAIN list : list[i].amount \in Seq(Char)
  <1> DEFINE at == {i \in DOMAIN fields : /\ fields[i].key = name
                                          /\ name = "operation" => fields[i].val # Null}
  <1>1. CASE at = {}
    BY <1>1 DEF LastSet, IsList
  <1>2. CASE at # {}
    <2>1. Max(at) \in at
      <3>1. Len(fields) \in Nat /\ at \subseteq 1..Len(fields)
        BY DEF IsPayload, IsList
      <3> QED
        BY <1>2, <3>1, BoundedMax
    <2> DEFINE f == fields[Max(at)]
    <2>2. f.key = name /\ IsList(f.val) /\ Parsed(f).ok
      BY <2>1 DEF IsPayload, Unmarshal
    <2>3. IsList(Parsed(f).v)
      BY <2>2, ListsRead DEF Parsed
    <2>4. ASSUME name = "transfers"
          PROVE  \A i \in DOMAIN Parsed(f).v : Parsed(f).v[i].amount \in Seq(Char)
      <3> DEFINE objects == f.val
      <3>1. \A o \in ToSet(objects) : "amount" \in DOMAIN o => o.amount \in Seq(Char)
        BY <2>1, <2>4 DEF IsPayload
      <3>2. Parsed(f) = ReadAll(objects, ReadTransfer)
        BY <2>2, <2>4 DEF Parsed
      <3>3. IsList(objects) /\ ReadAll(objects, ReadTransfer).ok
        BY <2>2, <3>2
      <3> HIDE DEF objects, f
      <3> QED
        BY <3>1, <3>2, <3>3, AmountRead
    <2>5. LastSet(fields, name, <<>>) = Parsed(f).v
      BY <1>2 DEF LastSet
    <2> HIDE DEF f
    <2> QED
      BY <2>3, <2>4, <2>5
  <1> QED
    BY <1>1, <1>2

\* The names and numbers a configuration in use has.
LEMMA DefaultsKeepNames ==
  ASSUME NEW file, IsConfig(file), NEW c \in Load(file)
  PROVE  /\ \A n \in DOMAIN c.ledgers : c.ledgers[n].id \in Nat /\ c.ledgers[n].scale \in 0..MaxScale
         /\ \A n \in DOMAIN c.codes : c.codes[n] \in Nat
         /\ c.ledgers = file.ledgers /\ c.codes = file.codes
  <1>1. c = Defaults(file)
    BY DEF Load
  <1>2. c.ledgers = file.ledgers /\ c.codes = file.codes
    BY <1>1 DEF Defaults, IsConfig
  <1>3. \A n \in DOMAIN c.ledgers : c.ledgers[n].scale \in 0..TopScale
    BY LoadedIsValid DEF Valid, LedgersValid
  <1>4. 0..TopScale \subseteq 0..MaxScale
    BY ScaleAssumption, LimitAssumption, WidthAssumption
  <1> QED
    BY <1>2, <1>3, <1>4 DEF IsConfig

\* Flags are read into the bits of a word.
LEMMA FlagBitsType ==
  ASSUME NEW names, NEW table, FlagBits(names, table).ok
  PROVE  FlagBits(names, table).v \subseteq Bits
  BY DEF FlagBits, Ok, Error

\* A text is a sequence of numbers, as the characters are.
LEMMA TextIsNumbers ==
  ASSUME NEW a \in Seq(Char)
  PROVE  a \in Seq(Nat)
  <1>1. Len(a) \in Nat /\ a = [j \in 1..Len(a) |-> a[j]] /\ \A j \in 1..Len(a) : a[j] \in Char
    OBVIOUS
  <1>2. \A j \in 1..Len(a) : a[j] \in Nat
    BY <1>1 DEF Char, Digit, Dot, Junk
  <1> QED
    BY <1>1, <1>2

\* An amount that is parsed fits TigerBeetle's.
LEMMA AmountFits ==
  ASSUME NEW s \in Seq(Nat), NEW scale \in 0..MaxScale, ParseAmount(s, scale).ok
  PROVE  ParseAmount(s, scale).v \in 0..MaxBig
  <1> DEFINE n == Worth(IntPart(s), FracPart(s), scale)
  <1>1. scale \in Nat /\ Len(FracPart(s)) \in Nat /\ MaxBig \in Nat
    BY PartsOfText, LenProperties, WidthAssumption
  <1>2. Readable(s, scale)
    BY <1>1 DEF ParseAmount, Readable, Error
  <1>3. n \in Nat
    BY <1>1, <1>2, ReadableParts, WorthTerms
  <1>4. ParseAmount(s, scale) = IF n > MaxBig THEN Error ELSE Ok(n)
    BY <1>2, ParseWorth
  <1> HIDE DEF n
  <1> QED BY <1>1, <1>3, <1>4 DEF Ok, Error

\* A transfer as the decoder hands it on.
IsTransfer(t) ==
    /\ DOMAIN t = {"id", "flags", "pending", "debit", "credit", "ledger", "code", "amount",
                   "user", "timeout"}
    /\ t.flags \subseteq Bits /\ t.ledger \in Nat /\ t.code \in Nat /\ t.id # 0
    /\ t.amount \in 0..MaxBig /\ t.timeout \in 0..MaxTimeout
    /\ t.flags \cap {2, 3} # {} <=> t.pending # 0

\* A transfer that is read is one.
LEMMA TransferRead ==
  ASSUME NEW file, IsConfig(file), NEW c \in Load(file), NEW jt, jt.amount \in Seq(Char),
         transfer(c, jt).ok
  PROVE  IsTransfer(transfer(c, jt).v)
  <1> DEFINE flags == FlagBits(jt.flags, transferFlagNames)
             postOrVoid == flags.ok /\ flags.v \cap {2, 3} # {}
             l == Ledger(c, jt.ledger)
             parts == [id |-> ParseID(jt.id), flags |-> flags,
                pending |-> IF postOrVoid THEN ParseID(jt.pending)
                            ELSE IF jt.pending = NoText THEN Ok(0) ELSE Error,
                debit |-> IF postOrVoid THEN Optional(jt.debit) ELSE ParseID(jt.debit),
                credit |-> IF postOrVoid THEN Optional(jt.credit) ELSE ParseID(jt.credit),
                ledger |-> IF l.ok THEN Ok(l.v.id) ELSE Error,
                code |-> Code(c, jt.code),
                amount |-> IF l.ok THEN ParseAmount(jt.amount, l.v.scale) ELSE Error,
                user |-> Optional(jt.user),
                timeout |-> IF jt.timeout = NoTimeout THEN Ok(0)
                            ELSE parseTimeoutSeconds(jt.timeout)]
  <1>1. transfer(c, jt) = Whole(parts)
    BY DEF transfer
  <1>2. /\ DOMAIN parts = {"id", "flags", "pending", "debit", "credit", "ledger", "code",
                           "amount", "user", "timeout"}
        /\ parts.flags = flags /\ parts.code = Code(c, jt.code) /\ parts.id = ParseID(jt.id)
        /\ parts.ledger = (IF l.ok THEN Ok(l.v.id) ELSE Error)
        /\ parts.amount = (IF l.ok THEN ParseAmount(jt.amount, l.v.scale) ELSE Error)
        /\ parts.pending = (IF postOrVoid THEN ParseID(jt.pending)
                            ELSE IF jt.pending = NoText THEN Ok(0) ELSE Error)
        /\ parts.timeout = (IF jt.timeout = NoTimeout THEN Ok(0)
                            ELSE parseTimeoutSeconds(jt.timeout))
    OBVIOUS
  <1> HIDE DEF parts
  <1>3. /\ \A k \in DOMAIN parts : parts[k].ok
        /\ transfer(c, jt).v = [k \in DOMAIN parts |-> parts[k].v]
    BY <1>1 DEF Whole, Ok, Error
  <1>4. flags.ok /\ flags.v \subseteq Bits
    BY <1>2, <1>3, FlagBitsType
  <1>5. l.ok /\ parts.ledger.v \in Nat
    BY <1>2, <1>3, DefaultsKeepNames DEF Ledger, Ok, Error
  <1>6. parts.code.v \in Nat
    BY <1>2, <1>3, DefaultsKeepNames DEF Code, Ok, Error
  <1>7. parts.id.v # 0
    BY <1>2, <1>3 DEF ParseID, Ok, Error
  <1>8. parts.amount.v \in 0..MaxBig
    <2> DEFINE a == jt.amount
               scale == l.v.scale
    <2>1. a \in Seq(Nat)
      BY TextIsNumbers
    <2>2. scale \in 0..MaxScale
      BY <1>5, DefaultsKeepNames DEF Ledger, Ok, Error
    <2>3. parts.amount = ParseAmount(a, scale) /\ ParseAmount(a, scale).ok
      BY <1>2, <1>3, <1>5
    <2> HIDE DEF a, scale
    <2> QED BY <2>1, <2>2, <2>3, AmountFits
  <1>9. parts.timeout.v \in 0..MaxTimeout
    <2>1. CASE jt.timeout = NoTimeout
      BY <1>2, <2>1, TimeoutAssumption DEF Ok
    <2>2. CASE jt.timeout # NoTimeout
      <3> DEFINE n == jt.timeout.halves \div 2
      <3> HIDE DEF n
      <3>1. parts.timeout.v = n /\ n \in 1..MaxTimeout
        BY <1>2, <1>3, <2>2 DEF parseTimeoutSeconds, Ok, Error, n
      <3> QED BY <3>1, TimeoutAssumption
    <2> QED BY <2>1, <2>2
  <1>10. flags.v \cap {2, 3} # {} <=> parts.pending.v # 0
    <2>1. CASE flags.v \cap {2, 3} # {}
      <3>1. parts.pending = ParseID(jt.pending) /\ ParseID(jt.pending).ok
        BY <1>2, <1>3, <1>4, <2>1
      <3>2. parts.pending.v # 0
        BY <3>1 DEF ParseID, Ok, Error
      <3> QED BY <2>1, <3>2
    <2>2. CASE ~(flags.v \cap {2, 3} # {})
      <3>1. parts.pending.v = 0
        BY <1>2, <1>4, <2>2 DEF Ok, Error
      <3> QED BY <2>2, <3>1
    <2> QED BY <2>1, <2>2
  <1> DEFINE t == transfer(c, jt).v
  <1>11. /\ DOMAIN t = DOMAIN parts
         /\ \A k \in DOMAIN parts : t[k] = parts[k].v
    BY <1>3
  <1> HIDE DEF t, flags
  <1>12. /\ t.flags = flags.v /\ t.ledger = parts.ledger.v /\ t.code = parts.code.v
         /\ t.id = parts.id.v /\ t.amount = parts.amount.v /\ t.timeout = parts.timeout.v
         /\ t.pending = parts.pending.v
    BY <1>2, <1>11
  <1>13. IsTransfer(t)
    BY <1>2, <1>4, <1>5, <1>6, <1>7, <1>8, <1>9, <1>10, <1>11, <1>12 DEF IsTransfer
  <1> QED BY <1>13 DEF t

\* An account that is read has its flags.
LEMMA AccountRead ==
  ASSUME NEW c, NEW ja, account(c, ja).ok
  PROVE  "flags" \in DOMAIN account(c, ja).v
  <1> DEFINE l == Ledger(c, ja.ledger)
             parts == [id |-> ParseID(ja.id), flags |-> FlagBits(ja.flags, accountFlagNames),
                       ledger |-> IF l.ok THEN Ok(l.v.id) ELSE Error,
                       code |-> Code(c, ja.code), user |-> Optional(ja.user)]
  <1>1. account(c, ja) = Whole(parts) /\ "flags" \in DOMAIN parts
    BY DEF account
  <1> HIDE DEF parts
  <1> QED
    BY <1>1 DEF Whole, Ok, Error

\* Clearing the last event's linked flag changes nothing else that matters.
LEMMA LinkedCleared ==
  ASSUME NEW events, IsList(events), Len(events) # 0,
         "flags" \in DOMAIN events[Len(events)]
  PROVE  LET out == clearLinked(events) IN
         /\ IsList(out) /\ Len(out) = Len(events)
         /\ LinkedBit \notin out[Len(out)].flags
         /\ \A i \in DOMAIN events :
               /\ DOMAIN out[i] = DOMAIN events[i]
               /\ "flags" \in DOMAIN events[i] =>
                     events[i].flags \ {LinkedBit} \subseteq out[i].flags
                     /\ out[i].flags \subseteq events[i].flags
               /\ \A x \in DOMAIN events[i] \ {"flags"} : out[i][x] = events[i][x]
  <1> DEFINE n == Len(events)
             out == clearLinked(events)
             e == events[n]
             new == [e EXCEPT !.flags = @ \ {LinkedBit}]
  <1>1. n \in Nat /\ n # 0 /\ DOMAIN events = 1..n /\ n \in DOMAIN events
    BY DEF IsList
  <1>2. out = [events EXCEPT ![n] = new]
    BY DEF clearLinked
  <1>3. DOMAIN out = 1..n /\ out[n] = new /\ \A i \in DOMAIN events : i # n => out[i] = events[i]
    BY <1>1, <1>2
  <1>4. Len(out) = n
    BY <1>1, <1>2
  <1>5. /\ DOMAIN new = DOMAIN e /\ new.flags = e.flags \ {LinkedBit}
        /\ \A x \in DOMAIN e \ {"flags"} : new[x] = e[x]
    OBVIOUS
  <1> HIDE DEF new, out
  <1>6. IsList(out) /\ Len(out) = n /\ LinkedBit \notin out[Len(out)].flags
    BY <1>1, <1>3, <1>4, <1>5 DEF IsList
  <1>7. \A i \in DOMAIN events :
               /\ DOMAIN out[i] = DOMAIN events[i]
               /\ "flags" \in DOMAIN events[i] =>
                     events[i].flags \ {LinkedBit} \subseteq out[i].flags
                     /\ out[i].flags \subseteq events[i].flags
               /\ \A x \in DOMAIN events[i] \ {"flags"} : out[i][x] = events[i][x]
    BY <1>3, <1>5
  <1> QED
    BY <1>6, <1>7 DEF out

\* What is made of the elements of a list, one by one, is a list.
LEMMA ListMapped ==
  ASSUME NEW s, IsList(s), s # <<>>, NEW t, t = [i \in DOMAIN s |-> t[i]]
  PROVE  IsList(t) /\ Len(t) = Len(s) /\ DOMAIN t = DOMAIN s /\ Len(s) # 0
  <1> DEFINE n == Len(s)
  <1>1. n \in Nat /\ DOMAIN s = 1..n
    BY DEF IsList
  <1>2. n # 0
    BY <1>1
  <1> HIDE DEF n
  <1>3. t = [i \in 1..n |-> t[i]] /\ DOMAIN t = 1..n /\ Len(t) = n
    BY <1>1
  <1> QED BY <1>1, <1>2, <1>3 DEF n, IsList

\* A command holds at least one event, no more than the decoder's limit, and
\* no chain is left open at its end.  The events of transfers are such as
\* TigerBeetle makes change events from.
LEMMA DecodedCommand ==
  ASSUME NEW file, IsConfig(file), NEW c \in Load(file), NEW p, IsPayload(p),
         NEW k \in Decode(c, p)
  PROVE  /\ Decode(c, p) = {k}
         /\ IsList(k.events) /\ Len(k.events) \in 1..c.maxEvents
         /\ LinkedBit \notin k.events[Len(k.events)].flags
         /\ k.op = "create_transfers" =>
               \A i \in DOMAIN k.events : IsTransfer(k.events[i])
  <1> DEFINE m == Unmarshal(p.fields)
  <1>0. c.maxEvents \in Nat
    BY LoadedIsValid, LimitAssumption DEF Valid, LimitsValid
  <1>1. m.ok
    BY DEF Decode
  <1>2. /\ IsList(m.transfers) /\ IsList(m.accounts)
        /\ \A i \in DOMAIN m.transfers : m.transfers[i].amount \in Seq(Char)
    <2>1. IsPayload([fields |-> p.fields])
      BY DEF IsPayload
    <2> QED
      BY <1>1, <2>1, UnmarshalsLists DEF Unmarshal
  <1>3. CASE m.operation = "create_transfers" /\ m.accounts = <<>>
    <2> DEFINE in == m.transfers
               r == [i \in DOMAIN in |-> transfer(c, in[i])]
               events == [i \in DOMAIN r |-> r[i].v]
    <2>1. /\ in # <<>> /\ ~(Len(in) > c.maxEvents) /\ \A i \in DOMAIN r : r[i].ok
          /\ Decode(c, p) = {[op |-> "create_transfers", events |-> clearLinked(events)]}
      BY <1>3 DEF Decode, DecodeEvents, ReadAll, Ok, Error
    <2>2. \A i \in DOMAIN in : /\ r[i].ok /\ events[i] = transfer(c, in[i]).v
                               /\ transfer(c, in[i]).ok
      BY <2>1
    <2>3. IsList(events) /\ Len(events) = Len(in) /\ DOMAIN events = DOMAIN in /\ Len(in) # 0
      <3>1. IsList(in) /\ in # <<>>
        BY <1>2, <2>1
      <3>2. DOMAIN events = DOMAIN in /\ events = [i \in DOMAIN in |-> events[i]]
        OBVIOUS
      <3> HIDE DEF in, events
      <3> QED BY <3>1, <3>2, ListMapped
    <2>4. \A i \in DOMAIN events : IsTransfer(events[i])
      <3> SUFFICES ASSUME NEW i \in DOMAIN events
                   PROVE  IsTransfer(events[i])
        OBVIOUS
      <3> DEFINE jt == in[i]
                 t == transfer(c, jt).v
      <3>1. transfer(c, jt).ok /\ events[i] = t /\ jt.amount \in Seq(Char)
        BY <1>2, <2>2, <2>3
      <3> HIDE DEF jt
      <3>2. IsTransfer(t)
        BY <3>1, TransferRead
      <3> HIDE DEF events, r, in, t
      <3> QED
        BY <3>1, <3>2
    <2> HIDE DEF events, r
    <2>5. Len(events) \in DOMAIN events
      BY <2>3 DEF IsList
    <2> DEFINE out == clearLinked(events)
    <2>6. /\ IsList(out) /\ Len(out) = Len(events)
          /\ LinkedBit \notin out[Len(out)].flags
          /\ \A i \in DOMAIN events :
                /\ DOMAIN out[i] = DOMAIN events[i]
                /\ events[i].flags \ {LinkedBit} \subseteq out[i].flags
                /\ out[i].flags \subseteq events[i].flags
                /\ \A x \in DOMAIN events[i] \ {"flags"} : out[i][x] = events[i][x]
      <3>1. \A i \in DOMAIN events : "flags" \in DOMAIN events[i]
        BY <2>4 DEF IsTransfer
      <3> QED
        BY <2>3, <2>5, <3>1, LinkedCleared
    <2>7. k.op = "create_transfers" /\ k.events = out /\ Decode(c, p) = {k}
      BY <2>1
    <2> HIDE DEF out
    <2>8. DOMAIN out = DOMAIN events
      BY <2>3, <2>6 DEF IsList
    <2>9. Len(out) \in 1..c.maxEvents
      BY <1>0, <1>2, <2>1, <2>3, <2>6 DEF IsList
    <2>10. ASSUME NEW i \in DOMAIN out PROVE IsTransfer(out[i])
      <3> DEFINE t == events[i]
                 u == out[i]
      <3>1. /\ IsTransfer(t) /\ DOMAIN u = DOMAIN t
            /\ t.flags \ {LinkedBit} \subseteq u.flags /\ u.flags \subseteq t.flags
            /\ \A x \in DOMAIN t \ {"flags"} : u[x] = t[x]
        BY <2>4, <2>6, <2>8
      <3> HIDE DEF t, u
      <3>2. /\ u.ledger = t.ledger /\ u.code = t.code /\ u.id = t.id /\ u.amount = t.amount
            /\ u.timeout = t.timeout /\ u.pending = t.pending
        BY <3>1 DEF IsTransfer
      <3>3. u.flags \subseteq Bits /\ (u.flags \cap {2, 3} # {} <=> t.flags \cap {2, 3} # {})
        BY <3>1 DEF IsTransfer, LinkedBit
      <3>4. IsTransfer(u)
        BY <3>1, <3>2, <3>3 DEF IsTransfer
      <3> QED
        BY <3>4 DEF u
    <2> QED
      BY <2>6, <2>7, <2>9, <2>10
  <1>4. CASE ~(m.operation = "create_transfers" /\ m.accounts = <<>>)
    <2> DEFINE in == m.accounts
               r == [i \in DOMAIN in |-> account(c, in[i])]
               events == [i \in DOMAIN r |-> r[i].v]
    <2>0. m.operation = "create_accounts" /\ m.transfers = <<>>
      BY <1>4 DEF Decode
    <2>1. /\ in # <<>> /\ ~(Len(in) > c.maxEvents) /\ \A i \in DOMAIN r : r[i].ok
          /\ Decode(c, p) = {[op |-> "create_accounts", events |-> clearLinked(events)]}
      BY <1>4, <2>0 DEF Decode, DecodeEvents, ReadAll, Ok, Error
    <2>2. \A i \in DOMAIN in : events[i] = account(c, in[i]).v /\ account(c, in[i]).ok
      BY <2>1
    <2>3. IsList(events) /\ Len(events) = Len(in) /\ DOMAIN events = DOMAIN in /\ Len(in) # 0
      <3>1. IsList(in) /\ in # <<>>
        BY <1>2, <2>1
      <3>2. DOMAIN events = DOMAIN in /\ events = [i \in DOMAIN in |-> events[i]]
        OBVIOUS
      <3> HIDE DEF in, events
      <3> QED BY <3>1, <3>2, ListMapped
    <2>4. \A i \in DOMAIN events : "flags" \in DOMAIN events[i]
      BY <2>2, <2>3, AccountRead
    <2> HIDE DEF events, r
    <2>5. Len(events) \in DOMAIN events
      BY <2>3 DEF IsList
    <2> DEFINE out == clearLinked(events)
    <2>6. IsList(out) /\ Len(out) = Len(events) /\ LinkedBit \notin out[Len(out)].flags
      BY <2>3, <2>4, <2>5, LinkedCleared
    <2>7. k.op = "create_accounts" /\ k.events = out /\ Decode(c, p) = {k}
      BY <2>1
    <2> HIDE DEF out
    <2>8. Len(out) \in 1..c.maxEvents
      BY <1>0, <1>2, <2>1, <2>3, <2>6 DEF IsList
    <2> QED
      BY <2>6, <2>7, <2>8
  <1> QED
    BY <1>3, <1>4

-----------------------------------------------------------------------------
(* Change events and their rendering.                                      *)

\* What TigerBeetle makes of a command's transfers is a window of change
\* events.
LEMMA EventsOfTransfers ==
  ASSUME NEW events, IsList(events), \A i \in DOMAIN events : IsTransfer(events[i])
  PROVE  IsWindow([i \in DOMAIN events |-> EventOf(events[i])])
  <1>1. ASSUME NEW t, IsTransfer(t)
        PROVE  IsEvent(EventOf(t))
    <2> DEFINE ev == EventOf(t)
    <2>1. /\ ev.flags = t.flags /\ ev.ledger = t.ledger /\ ev.code = t.code
          /\ ev.debit.code = t.code /\ ev.credit.code = t.code
          /\ ev.type \in 0..3 /\ ev.id = t.id /\ ev.amount = t.amount
          /\ ev.timeout = t.timeout /\ ev.pending = t.pending
          /\ ev.debit.id = (IF t.debit = 0 THEN 1 ELSE t.debit)
          /\ ev.credit.id = (IF t.credit = 0 THEN 1 ELSE t.credit)
      BY DEF EventOf
    <2> HIDE DEF ev
    <2>2. 0 \notin {ev.id, ev.debit.id, ev.credit.id}
      BY <1>1, <2>1 DEF IsTransfer
    <2>3. {ev.ledger, ev.code, ev.debit.code, ev.credit.code, ev.type} \subseteq Nat
      BY <1>1, <2>1 DEF IsTransfer
    <2>4. IsEvent(ev)
      BY <1>1, <2>1, <2>2, <2>3 DEF IsEvent, IsTransfer
    <2> QED
      BY <2>4 DEF ev
  <1> DEFINE w == [i \in DOMAIN events |-> EventOf(events[i])]
  <1>2. IsList(w)
    BY DEF IsList
  <1>3. DOMAIN w = DOMAIN events /\ \A i \in DOMAIN w : w[i] = EventOf(events[i])
    OBVIOUS
  <1> HIDE DEF w
  <1>4. IsWindow(w)
    BY <1>1, <1>2, <1>3 DEF IsWindow
  <1> QED
    BY <1>4 DEF w

\* Gaps are reported by kind and number.
LEMMA GapsType ==
  ASSUME NEW c, NEW w, IsWindow(w), NEW n \in DOMAIN w
  PROVE  Gaps(c, w[n]) \subseteq {"ledger", "code", "event_type"} \X Nat
  <1> DEFINE ev == w[n]
  <1>1. {ev.ledger, ev.code, ev.debit.code, ev.credit.code, ev.type} \subseteq Nat
    BY DEF IsWindow, IsEvent
  <1> HIDE DEF ev
  <1>2. Gaps(c, ev) \subseteq {"ledger", "code", "event_type"} \X Nat
    BY <1>1 DEF Gaps
  <1> QED
    BY <1>2 DEF ev

\* FlattenSeq of one sequence is that sequence.
LEMMA FlattenOne ==
  ASSUME NEW a
  PROVE  FlattenSeq(<<a>>) = a
  <1> DEFINE s == <<a>>
             f == CHOOSE f : f = [i \in 1..Len(s) |-> IF i = 1 THEN s[i] ELSE f[i - 1] \o s[i]]
  <1>1. \E g : g = [i \in 1..Len(s) |-> IF i = 1 THEN s[i] ELSE g[i - 1] \o s[i]]
    <2> DEFINE g == [i \in 1..1 |-> a]
    <2>1. g = [i \in 1..Len(s) |-> IF i = 1 THEN s[i] ELSE g[i - 1] \o s[i]]
      OBVIOUS
    <2> QED BY <2>1
  <1>2. f = [i \in 1..Len(s) |-> IF i = 1 THEN s[i] ELSE f[i - 1] \o s[i]]
    BY <1>1
  <1>3. Len(s) = 1 /\ FlattenSeq(s) = f[Len(s)]
    BY DEF FlattenSeq
  <1> HIDE DEF f
  <1>4. f[1] = a
    BY <1>2
  <1> QED BY <1>3, <1>4

\* FlattenSeq of two joins them.
LEMMA FlattenTwo ==
  ASSUME NEW a, NEW b
  PROVE  FlattenSeq(<<a, b>>) = a \o b
  <1> DEFINE s == <<a, b>>
             f == CHOOSE f : f = [i \in 1..Len(s) |-> IF i = 1 THEN s[i] ELSE f[i - 1] \o s[i]]
  <1>1. \E g : g = [i \in 1..Len(s) |-> IF i = 1 THEN s[i] ELSE g[i - 1] \o s[i]]
    <2> DEFINE ab == a \o b
    <2> HIDE DEF ab
    <2> DEFINE g == [i \in 1..2 |-> IF i = 1 THEN a ELSE ab]
               h == [i \in 1..Len(s) |-> IF i = 1 THEN s[i] ELSE g[i - 1] \o s[i]]
    <2>1. g[1] = a /\ g[2] = ab
      OBVIOUS
    <2>2. Len(s) = 2 /\ s[1] = a /\ s[2] = b
      OBVIOUS
    <2>3. h[1] = a /\ h[2] = ab
      BY <2>1, <2>2 DEF ab
    <2>4. DOMAIN g = 1..2 /\ DOMAIN h = 1..2
      BY <2>2
    <2>5. g = h
      BY <2>1, <2>3, <2>4
    <2> QED BY <2>5
  <1>2. f = [i \in 1..Len(s) |-> IF i = 1 THEN s[i] ELSE f[i - 1] \o s[i]]
    BY <1>1
  <1>3. Len(s) = 2 /\ FlattenSeq(s) = f[Len(s)]
    BY DEF FlattenSeq
  <1> HIDE DEF f
  <1>4. f[1] = a
    BY <1>2
  <1>5. f[2] = f[1] \o b
    <2>1. s[2] = b
      OBVIOUS
    <2>2. \A i \in 1..2 : i # 1 => f[i] = f[i - 1] \o s[i]
      BY <1>2, <1>3
    <2> HIDE DEF s
    <2>3. 2 \in 1..2 /\ 2 # 1 /\ 2 - 1 = 1
      OBVIOUS
    <2>4. f[2] = f[2 - 1] \o s[2]
      BY <2>2, <2>3
    <2> QED BY <2>1, <2>3, <2>4
  <1> QED BY <1>3, <1>4, <1>5

-----------------------------------------------------------------------------
(* The depth of a text.                                                    *)

\* What may stand inside a string: no quote, unless it is escaped.
BodySet(B) ==
    /\ <<>> \in B
    /\ \A s \in B : /\ \A b \in {"open", "close", "other"} : s \o <<b>> \in B
                    /\ \A b \in Byte : s \o <<"backslash", b>> \in B

\* Texts with their nesting: the rest of JSON between strings and brackets,
\* strings, brackets around a text, and one text after another.
TextSet(X) ==
    /\ [text |-> <<>>, nesting |-> 0] \in X /\ [text |-> <<"other">>, nesting |-> 0] \in X
    /\ \A s : (\A B : BodySet(B) => s \in B) => Quoted(s) \in X
    /\ \A v \in X : Bracket(v) \in X
    /\ \A v, u \in X : Joined(v, u) \in X

\* The least such sets.
IsText(v) == \A X : TextSet(X) => v \in X

\* The scanner's state.
At(d, m, i, e) == [depth |-> d, seen |-> m, inStr |-> i, esc |-> e]
Scanner == [depth : Int, seen : Int, inStr : BOOLEAN, esc : BOOLEAN]
scan == [x \in Scanner \X Byte |-> scanByte(x[1], x[2])]

\* Every state of the scanner is of that form.
LEMMA ScannerForm ==
  /\ \A d, m \in Int, i, e \in BOOLEAN : At(d, m, i, e) \in Scanner
  /\ \A s \in Scanner : \E d, m \in Int, i, e \in BOOLEAN : s = At(d, m, i, e)
  <1>1. \A d, m \in Int, i, e \in BOOLEAN : At(d, m, i, e) \in Scanner
    BY DEF At, Scanner
  <1>2. ASSUME NEW s \in Scanner
        PROVE  \E d, m \in Int, i, e \in BOOLEAN : s = At(d, m, i, e)
    <2>1. /\ s.depth \in Int /\ s.seen \in Int /\ s.inStr \in BOOLEAN /\ s.esc \in BOOLEAN
          /\ s = At(s.depth, s.seen, s.inStr, s.esc)
      BY DEF At, Scanner
    <2> QED BY <2>1
  <1> QED BY <1>1, <1>2

\* A state inside one bracket more, and one less.
LEMMA StateMoves ==
  ASSUME NEW d \in Int, NEW m \in Int, NEW i, NEW e
  PROVE  /\ Opened(At(d, m, i, e)) = At(d + 1, IF d + 1 > m THEN d + 1 ELSE m, i, e)
         /\ Closed(At(d, m, i, e)) = At(d - 1, m, i, e)
  <1>1. Opened(At(d, m, i, e)) = At(d + 1, IF d + 1 > m THEN d + 1 ELSE m, i, e)
    BY DEF At, Opened
  <1>2. Closed(At(d, m, i, e)) = At(d - 1, m, i, e)
    BY DEF At, Closed
  <1> QED BY <1>1, <1>2

\* What one byte does to the scanner.
LEMMA ByteScanned ==
  ASSUME NEW d \in Int, NEW m \in Int, NEW b \in Byte
  PROVE  /\ \A i \in BOOLEAN : scanByte(At(d, m, i, TRUE), b) = At(d, m, i, FALSE)
         /\ scanByte(At(d, m, TRUE, FALSE), b) =
               IF b = "backslash" THEN At(d, m, TRUE, TRUE)
               ELSE IF b = "quote" THEN At(d, m, FALSE, FALSE) ELSE At(d, m, TRUE, FALSE)
         /\ scanByte(At(d, m, FALSE, FALSE), b) =
               IF b = "quote" THEN At(d, m, TRUE, FALSE)
               ELSE IF b = "open" THEN At(d + 1, IF d + 1 > m THEN d + 1 ELSE m, FALSE, FALSE)
               ELSE IF b = "close" THEN At(d - 1, m, FALSE, FALSE)
               ELSE At(d, m, FALSE, FALSE)
  <1>0. PICK f, t : f = FALSE /\ t = TRUE
    OBVIOUS
  <1>1. ASSUME NEW i \in BOOLEAN PROVE scanByte(At(d, m, i, TRUE), b) = At(d, m, i, FALSE)
    <2> DEFINE s == At(d, m, i, t)
    <2>1. s.esc = t
      BY DEF At
    <2>2. [s EXCEPT !.esc = f] = At(d, m, i, f)
      BY DEF At
    <2> HIDE DEF s
    <2>3. scanByte(s, b) = [s EXCEPT !.esc = f]
      BY <1>0, <2>1 DEF scanByte
    <2> QED BY <1>0, <2>2, <2>3 DEF s
  <1>2. scanByte(At(d, m, TRUE, FALSE), b) =
               IF b = "backslash" THEN At(d, m, TRUE, TRUE)
               ELSE IF b = "quote" THEN At(d, m, FALSE, FALSE) ELSE At(d, m, TRUE, FALSE)
    <2> DEFINE s == At(d, m, t, f)
    <2>1. s.esc = FALSE /\ s.inStr = TRUE
      BY <1>0 DEF At
    <2>2. [s EXCEPT !.esc = TRUE] = At(d, m, TRUE, TRUE)
      <3>1. [s EXCEPT !.esc = t] = At(d, m, t, t)
        BY DEF At
      <3> HIDE DEF s
      <3> QED BY <1>0, <3>1
    <2>3. [s EXCEPT !.inStr = ~s.inStr] = At(d, m, FALSE, FALSE)
      <3>1. [s EXCEPT !.inStr = f] = At(d, m, f, f)
        BY DEF At
      <3>2. (~s.inStr) = f
        BY <1>0, <2>1
      <3> HIDE DEF s
      <3> QED BY <1>0, <3>1, <3>2
    <2> HIDE DEF s
    <2>4. b = "backslash" => scanByte(s, b) = [s EXCEPT !.esc = TRUE]
      BY <2>1 DEF scanByte
    <2>5. b = "quote" => scanByte(s, b) = [s EXCEPT !.inStr = ~s.inStr]
      BY <2>1 DEF scanByte
    <2>6. b \in {"open", "close", "other"} => scanByte(s, b) = s
      BY <2>1 DEF scanByte
    <2> QED BY <2>2, <2>3, <2>4, <2>5, <2>6, <1>0 DEF Byte, s
  <1>3. scanByte(At(d, m, FALSE, FALSE), b) =
               IF b = "quote" THEN At(d, m, TRUE, FALSE)
               ELSE IF b = "open" THEN At(d + 1, IF d + 1 > m THEN d + 1 ELSE m, FALSE, FALSE)
               ELSE IF b = "close" THEN At(d - 1, m, FALSE, FALSE)
               ELSE At(d, m, FALSE, FALSE)
    <2> DEFINE n == IF d + 1 > m THEN d + 1 ELSE m
    <2> DEFINE s == At(d, m, f, f)
    <2>1. s.esc = FALSE /\ s.inStr = FALSE
      BY <1>0 DEF At
    <2>2. [s EXCEPT !.inStr = ~s.inStr] = At(d, m, TRUE, FALSE)
      <3>1. [s EXCEPT !.inStr = t] = At(d, m, t, f)
        BY DEF At
      <3>2. (~s.inStr) = t
        BY <1>0, <2>1
      <3> HIDE DEF s
      <3> QED BY <1>0, <3>1, <3>2
    <2>3. Opened(s) = At(d + 1, n, f, f) /\ Closed(s) = At(d - 1, m, f, f)
      BY StateMoves
    <2> HIDE DEF s, n
    <2>4. b = "quote" => scanByte(s, b) = [s EXCEPT !.inStr = ~s.inStr]
      BY <2>1 DEF scanByte
    <2>5. b = "open" => scanByte(s, b) = Opened(s)
      BY <2>1 DEF scanByte
    <2>6. b = "close" => scanByte(s, b) = Closed(s)
      BY <2>1 DEF scanByte
    <2>7. b \in {"backslash", "other"} => scanByte(s, b) = s
      BY <2>1 DEF scanByte
    <2> QED BY <2>2, <2>3, <2>4, <2>5, <2>6, <2>7, <1>0 DEF Byte, s, n
  <1> QED BY <1>1, <1>2, <1>3

\* The scanner reads a text from left to right.
LEMMA ScannerReads ==
  /\ \A s \in Scanner : Reader(Scanner, Byte, s, scan)
  /\ \A s \in Scanner, b \in Byte : scan[<<s, b>>] = scanByte(s, b)
  <1>1. ASSUME NEW s \in Scanner, NEW b \in Byte PROVE scanByte(s, b) \in Scanner
    <2>1. PICK d, m \in Int, i, e \in BOOLEAN : s = At(d, m, i, e)
      BY ScannerForm
    <2>2. CASE e = TRUE
      <3>1. scanByte(s, b) = At(d, m, i, FALSE)
        BY <2>1, <2>2, ByteScanned, ZenonT(30)
      <3>2. At(d, m, i, FALSE) \in Scanner
        <4>1. FALSE \in BOOLEAN
          OBVIOUS
        <4> QED BY <4>1, ScannerForm, Zenon
      <3> QED BY <3>1, <3>2
    <2>3. CASE e = FALSE /\ i = TRUE
      <3>1. scanByte(s, b) \in {At(d, m, TRUE, TRUE), At(d, m, FALSE, FALSE), At(d, m, TRUE, FALSE)}
        <4>1. s = At(d, m, TRUE, FALSE)
          BY <2>1, <2>3
        <4> QED BY <4>1, ByteScanned
      <3>2. \A i1, e1 \in BOOLEAN : At(d, m, i1, e1) \in Scanner
        BY DEF At, Scanner
      <3> QED BY <3>1, <3>2, Zenon
    <2>4. CASE e = FALSE /\ i = FALSE
      <3> DEFINE n == IF d + 1 > m THEN d + 1 ELSE m
      <3>1. scanByte(s, b) \in {At(d, m, TRUE, FALSE), At(d + 1, n, FALSE, FALSE),
                                At(d - 1, m, FALSE, FALSE), At(d, m, FALSE, FALSE)}
        <4>1. s = At(d, m, FALSE, FALSE)
          BY <2>1, <2>4
        <4> QED BY <4>1, ByteScanned
      <3>2. d + 1 \in Int /\ d - 1 \in Int /\ n \in Int
        OBVIOUS
      <3> HIDE DEF n
      <3>3. /\ At(d, m, TRUE, FALSE) \in Scanner /\ At(d + 1, n, FALSE, FALSE) \in Scanner
            /\ At(d - 1, m, FALSE, FALSE) \in Scanner /\ At(d, m, FALSE, FALSE) \in Scanner
        BY <3>2 DEF At, Scanner
      <3> QED BY <3>1, <3>3, Zenon
    <2>5. (e = TRUE \/ e = FALSE) /\ (i = TRUE \/ i = FALSE)
      OBVIOUS
    <2> QED BY <2>2, <2>3, <2>4, <2>5
  <1>2. \A s \in Scanner, b \in Byte : scan[<<s, b>>] = scanByte(s, b)
    BY DEF scan
  <1>3. scan \in [Scanner \X Byte -> Scanner]
    BY <1>1 DEF scan
  <1> QED BY <1>2, <1>3 DEF Reader

\* The scanner outside strings, inside one, and after a backslash.
Outside(d, m) == At(d, m, FALSE, FALSE)
Inside(d, m) == At(d, m, TRUE, FALSE)
Escaped(d, m) == At(d, m, TRUE, TRUE)
Top(a, b) == IF a > b THEN a ELSE b

\* checkDepth compares what the scanner has seen in the end.
LEMMA DepthFold ==
  ASSUME NEW text \in Seq(Byte), NEW max
  PROVE  checkDepth(text, max) <=> Fold(Outside(0, 0), scan, text).seen <= max
  <1> DEFINE a == Outside(0, 0)
  <1>1. a = [depth |-> 0, seen |-> 0, inStr |-> FALSE, esc |-> FALSE]
    BY DEF Outside, At
  <1>2. a \in Scanner
    BY DEF Outside, At, Scanner
  <1> HIDE DEF a
  <1>3. Reader(Scanner, Byte, a, scan) /\ Len(text) \in Nat /\ \A k \in 1..Len(text) : text[k] \in Byte
    BY <1>2, ScannerReads, ElementOfSeq, LenProperties
  <1>4. PICK v \in [0..Len(text) -> Scanner] : Scan(v, a, scan, text)
    BY <1>3, ScanDefined
  <1>5. v[0] = a /\ \A k \in 1..Len(text) : v[k] = scanByte(v[k - 1], text[k])
    <2>1. \A k \in 1..Len(text) : v[k - 1] \in Scanner
      BY <1>3
    <2> QED BY <1>3, <1>4, <2>1, ScannerReads DEF Scan
  <1>6. v = [k \in 0..Len(text) |-> IF k = 0 THEN a ELSE scanByte(v[k - 1], text[k])]
    <2> DEFINE u == [k \in 0..Len(text) |-> IF k = 0 THEN a ELSE scanByte(v[k - 1], text[k])]
    <2>1. \A k \in 0..Len(text) : k = 0 \/ k \in 1..Len(text)
      BY <1>3
    <2>2. \A k \in 0..Len(text) : v[k] = u[k]
      BY <1>5, <2>1
    <2>3. v = [k \in 0..Len(text) |-> v[k]] /\ u = [k \in 0..Len(text) |-> u[k]]
      OBVIOUS
    <2> HIDE DEF u
    <2>4. v = u
      BY <2>2, <2>3
    <2> QED BY <2>4 DEF u
  <1> DEFINE w == CHOOSE w : w = [k \in 0..Len(text) |->
                                    IF k = 0 THEN a ELSE scanByte(w[k - 1], text[k])]
  <1>7. w = [k \in 0..Len(text) |-> IF k = 0 THEN a ELSE scanByte(w[k - 1], text[k])]
    BY <1>6
  <1>8. checkDepth(text, max) <=> w[Len(text)].seen <= max
    BY <1>1 DEF checkDepth
  <1> HIDE DEF w
  <1>9. w[0] = a /\ \A k \in 1..Len(text) : w[k] = scanByte(w[k - 1], text[k])
    <2>1. 0 \in 0..Len(text) /\ \A k \in 1..Len(text) : k \in 0..Len(text) /\ k # 0
      BY <1>3
    <2> QED BY <1>7, <2>1
  <1> DEFINE D == {n \in Nat : n <= Len(text) => w[n] = v[n]}
  <1>10. 0 \in D
    BY <1>5, <1>9
  <1>11. ASSUME NEW n \in Nat, n \in D PROVE n + 1 \in D
    <2>1. SUFFICES ASSUME n + 1 <= Len(text) PROVE w[n + 1] = v[n + 1]
      OBVIOUS
    <2> DEFINE k == n + 1
    <2>2. k \in 1..Len(text) /\ k - 1 = n /\ n <= Len(text)
      BY <1>3, <2>1
    <2> HIDE DEF k
    <2>3. w[k] = v[k]
      BY <1>5, <1>9, <1>11, <2>2
    <2> QED BY <2>3 DEF k
  <1> HIDE DEF D
  <1>12. Len(text) \in D
    BY <1>3, <1>10, <1>11, SetInduction
  <1>13. Fold(a, scan, text) = v[Len(text)]
    BY <1>3, <1>4, FoldOfScan
  <1> QED BY <1>3, <1>8, <1>12, <1>13 DEF D, a

\* One byte.
LEMMA ScanOne ==
  ASSUME NEW s \in Scanner, NEW b \in Byte
  PROVE  Fold(s, scan, <<b>>) = scanByte(s, b)
  <1>1. Reader(Scanner, Byte, s, scan)
    BY ScannerReads
  <1> DEFINE e == <<>>
  <1>2. e \in Seq(Byte)
    OBVIOUS
  <1>5. Append(e, b) = <<b>>
    OBVIOUS
  <1>3. Fold(s, scan, e) = s
    BY <1>1, FoldEmpty
  <1> HIDE DEF e
  <1>4. Fold(s, scan, Append(e, b)) = scan[<<Fold(s, scan, e), b>>]
    BY <1>1, <1>2, FoldStep
  <1> QED BY <1>3, <1>4, <1>5, ScannerReads

\* One text after another.
LEMMA ScanJoined ==
  ASSUME NEW s \in Scanner, NEW x \in Seq(Byte), NEW y \in Seq(Byte)
  PROVE  Fold(s, scan, x \o y) = Fold(Fold(s, scan, x), scan, y)
  BY ScannerReads, FoldConcat

\* Single bytes, by where the scanner is.
LEMMA ScanCases ==
  ASSUME NEW d \in Int, NEW m \in Int
  PROVE  /\ Outside(d, m) \in Scanner /\ Inside(d, m) \in Scanner /\ Escaped(d, m) \in Scanner
         /\ Fold(Outside(d, m), scan, <<"open">>) = Outside(d + 1, Top(d + 1, m))
         /\ Fold(Outside(d, m), scan, <<"close">>) = Outside(d - 1, m)
         /\ Fold(Outside(d, m), scan, <<"other">>) = Outside(d, m)
         /\ Fold(Outside(d, m), scan, <<"quote">>) = Inside(d, m)
         /\ Fold(Inside(d, m), scan, <<"quote">>) = Outside(d, m)
         /\ Fold(Inside(d, m), scan, <<"backslash">>) = Escaped(d, m)
         /\ \A b \in {"open", "close", "other"} : Fold(Inside(d, m), scan, <<b>>) = Inside(d, m)
         /\ \A b \in Byte : Fold(Escaped(d, m), scan, <<b>>) = Inside(d, m)
  <1>1. Outside(d, m) \in Scanner /\ Inside(d, m) \in Scanner /\ Escaped(d, m) \in Scanner
    BY DEF Outside, Inside, Escaped, At, Scanner
  <1>2. \A b \in Byte : scanByte(Outside(d, m), b) =
               IF b = "quote" THEN Inside(d, m)
               ELSE IF b = "open" THEN Outside(d + 1, Top(d + 1, m))
               ELSE IF b = "close" THEN Outside(d - 1, m) ELSE Outside(d, m)
    BY ByteScanned DEF Outside, Inside, Top
  <1>3. \A b \in Byte : scanByte(Inside(d, m), b) =
               IF b = "backslash" THEN Escaped(d, m)
               ELSE IF b = "quote" THEN Outside(d, m) ELSE Inside(d, m)
    BY ByteScanned DEF Outside, Inside, Escaped
  <1>4. \A b \in Byte : scanByte(Escaped(d, m), b) = Inside(d, m)
    BY ByteScanned, Zenon DEF Inside, Escaped
  <1>5. \A s \in Scanner, b \in Byte : Fold(s, scan, <<b>>) = scanByte(s, b)
    BY ScanOne
  <1>6. {"open", "close", "quote", "backslash", "other"} = Byte
    BY DEF Byte
  <1>7. /\ Fold(Outside(d, m), scan, <<"open">>) = Outside(d + 1, Top(d + 1, m))
        /\ Fold(Outside(d, m), scan, <<"close">>) = Outside(d - 1, m)
        /\ Fold(Outside(d, m), scan, <<"other">>) = Outside(d, m)
        /\ Fold(Outside(d, m), scan, <<"quote">>) = Inside(d, m)
    BY <1>1, <1>2, <1>5, <1>6
  <1>8. /\ Fold(Inside(d, m), scan, <<"quote">>) = Outside(d, m)
        /\ Fold(Inside(d, m), scan, <<"backslash">>) = Escaped(d, m)
        /\ \A b \in {"open", "close", "other"} : Fold(Inside(d, m), scan, <<b>>) = Inside(d, m)
    BY <1>1, <1>3, <1>5, <1>6
  <1>9. \A b \in Byte : Fold(Escaped(d, m), scan, <<b>>) = Inside(d, m)
    BY <1>1, <1>4, <1>5
  <1> QED BY <1>1, <1>7, <1>8, <1>9

\* Texts the scanner leaves where it was inside a string.
Unnoticed == {x \in Seq(Byte) : \A d, m \in Int : Fold(Inside(d, m), scan, x) = Inside(d, m)}

\* Nothing that may stand inside a string is noticed.
LEMMA BodiesUnnoticed == BodySet(Unnoticed)
  <1>1. <<>> \in Unnoticed
    <2> DEFINE e == <<>>
    <2>1. e \in Seq(Byte)
      OBVIOUS
    <2>2. ASSUME NEW d \in Int, NEW m \in Int PROVE Fold(Inside(d, m), scan, e) = Inside(d, m)
      <3>1. Reader(Scanner, Byte, Inside(d, m), scan)
        BY ScanCases, ScannerReads
      <3> QED BY <3>1, FoldEmpty
    <2> HIDE DEF e
    <2>3. e \in Unnoticed
      BY <2>1, <2>2 DEF Unnoticed
    <2> QED BY <2>3 DEF e
  <1>2. ASSUME NEW s \in Unnoticed, NEW b \in {"open", "close", "other"}
        PROVE  s \o <<b>> \in Unnoticed
    <2> DEFINE t == <<b>>
    <2>1. s \in Seq(Byte) /\ t \in Seq(Byte)
      BY DEF Unnoticed, Byte
    <2>2. ASSUME NEW d \in Int, NEW m \in Int
          PROVE  Fold(Inside(d, m), scan, s \o t) = Inside(d, m)
      <3>1. Fold(Inside(d, m), scan, t) = Inside(d, m) /\ Inside(d, m) \in Scanner
        BY ScanCases
      <3>2. Fold(Inside(d, m), scan, s) = Inside(d, m)
        BY DEF Unnoticed
      <3> HIDE DEF t
      <3> QED BY <2>1, <3>1, <3>2, ScanJoined
    <2> HIDE DEF t
    <2>3. s \o t \in Seq(Byte)
      BY <2>1, ConcatProperties
    <2>4. s \o t \in Unnoticed
      BY <2>2, <2>3 DEF Unnoticed
    <2> QED BY <2>4 DEF t
  <1>3. ASSUME NEW s \in Unnoticed, NEW b \in Byte
        PROVE  s \o <<"backslash", b>> \in Unnoticed
    <2> DEFINE t == <<"backslash">>
               u == <<b>>
               r == <<"backslash", b>>
    <2>1. s \in Seq(Byte) /\ t \in Seq(Byte) /\ u \in Seq(Byte) /\ r \in Seq(Byte)
      BY DEF Unnoticed, Byte
    <2>0. r = t \o u
      OBVIOUS
    <2>2. ASSUME NEW d \in Int, NEW m \in Int
          PROVE  Fold(Inside(d, m), scan, s \o r) = Inside(d, m)
      <3>1. Fold(Inside(d, m), scan, t) = Escaped(d, m) /\ Inside(d, m) \in Scanner
        BY ScanCases
      <3>2. Fold(Escaped(d, m), scan, u) = Inside(d, m)
        BY ScanCases
      <3>3. Fold(Inside(d, m), scan, s) = Inside(d, m)
        BY DEF Unnoticed
      <3> HIDE DEF t, u, r
      <3>4. Fold(Inside(d, m), scan, r) = Inside(d, m)
        BY <2>0, <2>1, <3>1, <3>2, ScanJoined
      <3> QED BY <2>1, <3>1, <3>3, <3>4, ScanJoined
    <2> HIDE DEF t, u, r
    <2>3. s \o r \in Seq(Byte)
      BY <2>1, ConcatProperties
    <2>4. s \o r \in Unnoticed
      BY <2>2, <2>3 DEF Unnoticed
    <2> QED BY <2>4 DEF r
  <1> QED BY <1>1, <1>2, <1>3 DEF BodySet

\* The scanner comes out of a text at the depth it entered it, and has seen
\* the text's nesting below that.
Measured(text, n) ==
    \A d, m \in Nat : m >= d => Fold(Outside(d, m), scan, text) = Outside(d, Top(d + n, m))
Measurable == {v \in [text : Seq(Byte), nesting : Nat] : Measured(v.text, v.nesting)}

\* A text with its nesting is measurable if the scanner measures it.
LEMMA MeasurableForm ==
  ASSUME NEW x \in Seq(Byte), NEW n \in Nat
  PROVE  [text |-> x, nesting |-> n] \in Measurable <=> Measured(x, n)
  <1> DEFINE v == [text |-> x, nesting |-> n]
  <1>1. v \in [text : Seq(Byte), nesting : Nat] /\ v.text = x /\ v.nesting = n
    OBVIOUS
  <1> HIDE DEF v
  <1>2. v \in Measurable <=> Measured(x, n)
    BY <1>1 DEF Measurable
  <1> QED BY <1>2 DEF v

\* A string is measured as nothing.
LEMMA QuotedMeasured ==
  ASSUME NEW s \in Unnoticed
  PROVE  Quoted(s) \in Measurable
  <1> DEFINE q == <<"quote">>
             x == q \o s \o q
  <1>1. s \in Seq(Byte) /\ q \in Seq(Byte)
    BY DEF Unnoticed, Byte
  <1>q. \A d, m \in Nat : /\ Fold(Outside(d, m), scan, q) = Inside(d, m)
                          /\ Fold(Inside(d, m), scan, q) = Outside(d, m)
                          /\ Fold(Inside(d, m), scan, s) = Inside(d, m)
                          /\ Outside(d, m) \in Scanner /\ Inside(d, m) \in Scanner
    <2> SUFFICES ASSUME NEW d \in Int, NEW m \in Int
                 PROVE  /\ Fold(Outside(d, m), scan, q) = Inside(d, m)
                        /\ Fold(Inside(d, m), scan, q) = Outside(d, m)
                        /\ Fold(Inside(d, m), scan, s) = Inside(d, m)
                        /\ Outside(d, m) \in Scanner /\ Inside(d, m) \in Scanner
      OBVIOUS
    <2>1. Fold(Inside(d, m), scan, s) = Inside(d, m)
      BY DEF Unnoticed
    <2> QED BY <2>1, ScanCases
  <1>2. Quoted(s) = [text |-> x, nesting |-> 0]
    BY DEF Quoted
  <1> HIDE DEF q
  <1>3. q \o s \in Seq(Byte) /\ x \in Seq(Byte)
    BY <1>1, ConcatProperties
  <1>4. ASSUME NEW d \in Nat, NEW m \in Nat, m >= d
        PROVE  Fold(Outside(d, m), scan, x) = Outside(d, Top(d + 0, m))
    <2>1. Top(d + 0, m) = m
      BY <1>4 DEF Top
    <2> DEFINE y == q \o s
    <2>2. y \in Seq(Byte)
      BY <1>3
    <2>3. Fold(Outside(d, m), scan, y) = Inside(d, m)
      BY <1>1, <1>q, ScanJoined
    <2> HIDE DEF y
    <2>4. Fold(Outside(d, m), scan, y \o q) = Outside(d, m)
      BY <1>1, <1>q, <2>2, <2>3, ScanJoined
    <2> QED BY <2>1, <2>4 DEF y
  <1> HIDE DEF x
  <1>5. Measured(x, 0)
    BY <1>4 DEF Measured
  <1> QED BY <1>2, <1>3, <1>5, MeasurableForm

\* A bracket adds one.
LEMMA BracketMeasured ==
  ASSUME NEW v \in Measurable
  PROVE  Bracket(v) \in Measurable
  <1> DEFINE o == <<"open">>
             c == <<"close">>
             t == v.text
             n == v.nesting
             x == o \o t \o c
  <1>1. t \in Seq(Byte) /\ o \in Seq(Byte) /\ c \in Seq(Byte) /\ n \in Nat /\ Measured(t, n)
    BY DEF Measurable, Byte
  <1>2. Bracket(v) = [text |-> x, nesting |-> n + 1]
    BY DEF Bracket
  <1>q. \A d, m \in Int : /\ Fold(Outside(d, m), scan, o) = Outside(d + 1, Top(d + 1, m))
                          /\ Fold(Outside(d, m), scan, c) = Outside(d - 1, m)
                          /\ Outside(d, m) \in Scanner
    BY ScanCases
  <1> HIDE DEF o, c, t, n
  <1>3. o \o t \in Seq(Byte) /\ x \in Seq(Byte)
    BY <1>1, ConcatProperties
  <1>4. ASSUME NEW d \in Nat, NEW m \in Nat, m >= d
        PROVE  Fold(Outside(d, m), scan, x) = Outside(d, Top(d + (n + 1), m))
    <2> DEFINE e == d + 1
               k == Top(e, m)
               l == Top(e + n, k)
               y == o \o t
    <2>1. /\ e \in Nat /\ k \in Nat /\ k >= e /\ l \in Nat /\ l = Top(d + (n + 1), m)
          /\ e - 1 = d
      BY <1>1, <1>4 DEF Top
    <2>2. y \in Seq(Byte)
      BY <1>3
    <2>3. Fold(Outside(d, m), scan, o) = Outside(e, k)
      BY <1>q
    <2> HIDE DEF e, k, l
    <2>4. Fold(Outside(e, k), scan, t) = Outside(e, l)
      BY <1>1, <2>1 DEF Measured, l
    <2>5. Outside(d, m) \in Scanner
      BY <1>q
    <2>6. Fold(Outside(d, m), scan, y) = Outside(e, l)
      BY <1>1, <2>3, <2>4, <2>5, ScanJoined
    <2> HIDE DEF y
    <2>7. Fold(Outside(e, l), scan, c) = Outside(d, l)
      BY <1>q, <2>1
    <2>8. Fold(Outside(d, m), scan, y \o c) = Outside(d, l)
      BY <1>1, <2>2, <2>5, <2>6, <2>7, ScanJoined
    <2> QED BY <2>1, <2>8 DEF y
  <1>5. n + 1 \in Nat
    BY <1>1
  <1> HIDE DEF x
  <1>6. Measured(x, n + 1)
    BY <1>4 DEF Measured
  <1> QED BY <1>2, <1>3, <1>5, <1>6, MeasurableForm

\* Of two texts the deeper one counts.
LEMMA JoinedMeasured ==
  ASSUME NEW v \in Measurable, NEW u \in Measurable
  PROVE  Joined(v, u) \in Measurable
  <1> DEFINE s == v.text
             t == u.text
             n == v.nesting
             p == u.nesting
             q == IF n > p THEN n ELSE p
             x == s \o t
  <1>1. /\ s \in Seq(Byte) /\ t \in Seq(Byte) /\ n \in Nat /\ p \in Nat
        /\ Measured(s, n) /\ Measured(t, p)
    BY DEF Measurable
  <1>2. Joined(v, u) = [text |-> x, nesting |-> q]
    BY DEF Joined
  <1> HIDE DEF s, t, n, p
  <1>3. x \in Seq(Byte) /\ q \in Nat
    BY <1>1, ConcatProperties
  <1>4. ASSUME NEW d \in Nat, NEW m \in Nat, m >= d
        PROVE  Fold(Outside(d, m), scan, x) = Outside(d, Top(d + q, m))
    <2> DEFINE k == Top(d + n, m)
               l == Top(d + p, k)
    <2>1. k \in Nat /\ k >= d /\ l = Top(d + q, m)
      BY <1>1, <1>4 DEF Top
    <2>2. Fold(Outside(d, m), scan, s) = Outside(d, k) /\ Outside(d, m) \in Scanner
      <3>1. Outside(d, m) \in Scanner
        BY ScanCases
      <3> QED BY <1>1, <1>4, <3>1 DEF Measured
    <2> HIDE DEF k, l
    <2>3. Fold(Outside(d, k), scan, t) = Outside(d, l)
      BY <1>1, <2>1 DEF Measured, l
    <2>4. Fold(Outside(d, m), scan, s \o t) = Outside(d, l)
      BY <1>1, <2>2, <2>3, ScanJoined
    <2> QED BY <2>1, <2>4
  <1> HIDE DEF x, q
  <1>5. Measured(x, q)
    BY <1>4 DEF Measured
  <1> QED BY <1>2, <1>3, <1>5, MeasurableForm

\* Every JSON text is measurable.
LEMMA TextsMeasurable ==
  ASSUME NEW v, IsText(v)
  PROVE  v \in Measurable
  <1>1. [text |-> <<>>, nesting |-> 0] \in Measurable
    <2> DEFINE e == <<>>
    <2>1. e \in Seq(Byte)
      OBVIOUS
    <2>2. ASSUME NEW d \in Nat, NEW m \in Nat, m >= d
          PROVE  Fold(Outside(d, m), scan, e) = Outside(d, Top(d + 0, m))
      <3>1. Reader(Scanner, Byte, Outside(d, m), scan)
        BY ScanCases, ScannerReads
      <3>2. Fold(Outside(d, m), scan, e) = Outside(d, m)
        BY <3>1, FoldEmpty
      <3>3. Top(d + 0, m) = m
        BY <2>2 DEF Top
      <3> QED BY <3>2, <3>3
    <2> HIDE DEF e
    <2>3. Measured(e, 0)
      BY <2>2 DEF Measured
    <2>4. [text |-> e, nesting |-> 0] \in Measurable
      BY <2>1, <2>3, MeasurableForm
    <2> QED BY <2>4 DEF e
  <1>2. [text |-> <<"other">>, nesting |-> 0] \in Measurable
    <2> DEFINE e == <<"other">>
    <2>1. e \in Seq(Byte)
      BY DEF Byte
    <2>2. ASSUME NEW d \in Nat, NEW m \in Nat, m >= d
          PROVE  Fold(Outside(d, m), scan, e) = Outside(d, Top(d + 0, m))
      <3>1. Fold(Outside(d, m), scan, e) = Outside(d, m)
        BY ScanCases
      <3>2. Top(d + 0, m) = m
        BY <2>2 DEF Top
      <3> QED BY <3>1, <3>2
    <2> HIDE DEF e
    <2>3. Measured(e, 0)
      BY <2>2 DEF Measured
    <2>4. [text |-> e, nesting |-> 0] \in Measurable
      BY <2>1, <2>3, MeasurableForm
    <2> QED BY <2>4 DEF e
  <1>3. ASSUME NEW s, \A B : BodySet(B) => s \in B
        PROVE  Quoted(s) \in Measurable
    <2>1. s \in Unnoticed
      BY <1>3, BodiesUnnoticed
    <2> QED BY <2>1, QuotedMeasured
  <1>4. TextSet(Measurable)
    BY <1>1, <1>2, <1>3, BracketMeasured, JoinedMeasured DEF TextSet
  <1> QED BY <1>4 DEF IsText

\* The scanner refuses a JSON text exactly if it nests deeper than the limit.
LEMMA DepthMeasured ==
  ASSUME NEW text, NEW nesting, IsText([text |-> text, nesting |-> nesting]), NEW max
  PROVE  checkDepth(text, max) <=> nesting <= max
  <1> DEFINE v == [text |-> text, nesting |-> nesting]
  <1>1. v \in Measurable /\ v.text = text /\ v.nesting = nesting
    BY TextsMeasurable
  <1> HIDE DEF v
  <1>2. text \in Seq(Byte) /\ nesting \in Nat /\ Measured(text, nesting)
    BY <1>1 DEF Measurable
  <1>3. Fold(Outside(0, 0), scan, text) = Outside(0, Top(0 + nesting, 0))
    BY <1>2 DEF Measured
  <1>4. Top(0 + nesting, 0) = nesting
    BY <1>2 DEF Top
  <1>5. Outside(0, nesting).seen = nesting
    BY DEF Outside, At
  <1> QED BY <1>2, <1>3, <1>4, <1>5, DepthFold

\* Such texts exist: a bracket around a string that holds an escaped quote.
LEMMA SomeText == IsText(Bracket(Quoted(<<"backslash", "quote">>)))
  <1> SUFFICES ASSUME NEW X, TextSet(X)
               PROVE  Bracket(Quoted(<<"backslash", "quote">>)) \in X
    BY DEF IsText
  <1> DEFINE s == <<"backslash", "quote">>
  <1>1. ASSUME NEW B, BodySet(B) PROVE s \in B
    <2> DEFINE e == <<>>
    <2>1. e \o s = s
      <3>1. s \in Seq(Byte)
        BY DEF Byte
      <3> QED BY <3>1, ConcatEmptySeq
    <2>2. e \o s \in B
      BY <1>1 DEF BodySet, Byte
    <2> QED BY <2>1, <2>2
  <1> HIDE DEF s
  <1>2. Quoted(s) \in X
    BY <1>1 DEF TextSet
  <1>3. Bracket(Quoted(s)) \in X
    BY <1>2 DEF TextSet
  <1> QED BY <1>3 DEF s

-----------------------------------------------------------------------------
(* Flags by name.                                                          *)

\* What flagNames writes for a bit.
BitName(b, table) == IF b < Len(table) THEN table[b + 1] ELSE bitNames[b + 1]

\* The elements of a sequence, one at a time.
LEMMA ToSetAppend ==
  ASSUME NEW S, NEW s \in Seq(S), NEW x \in S
  PROVE  Append(s, x) \in Seq(S) /\ ToSet(Append(s, x)) = ToSet(s) \cup {x}
  <1> DEFINE t == Append(s, x)
  <1>1. /\ t \in Seq(S) /\ Len(t) = Len(s) + 1 /\ Len(s) \in Nat /\ t[Len(s) + 1] = x
        /\ \A i \in 1..Len(s) : t[i] = s[i]
    BY AppendProperties
  <1>2. DOMAIN t = 1..(Len(s) + 1) /\ DOMAIN s = 1..Len(s)
    BY <1>1, LenProperties
  <1> HIDE DEF t
  <1>3. \A i \in DOMAIN t : i \in DOMAIN s \/ i = Len(s) + 1
    BY <1>1, <1>2
  <1>4. Len(s) + 1 \in DOMAIN t /\ DOMAIN s \subseteq DOMAIN t
    BY <1>1, <1>2
  <1>5. ToSet(t) = ToSet(s) \cup {x}
    BY <1>1, <1>2, <1>3, <1>4 DEF ToSet
  <1> QED BY <1>1, <1>5 DEF t

\* flagNames writes the name of every bit that is set, and of no other.
LEMMA NamesOfBits ==
  ASSUME NEW flags, flags \subseteq Bits, NEW table
  PROVE  LET names == flagNames(flags, table) IN
         /\ DOMAIN names = 1..Len(names)
         /\ ToSet(names) = {BitName(b, table) : b \in flags}
  <1> DEFINE S == {BitName(b, table) : b \in Bits}
             T == Seq(S)
             e == <<>>
             Name(b) == BitName(b, table)
             g == [x \in T \X Nat |-> IF x[2] - 1 \in flags THEN Append(x[1], Name(x[2] - 1)) ELSE x[1]]
  <1>1. e \in T
    OBVIOUS
  <1>2. ASSUME NEW s \in T, NEW b \in flags PROVE Name(b) \in S /\ Append(s, Name(b)) \in T
    <2>1. Name(b) \in S
      BY <1>2
    <2> HIDE DEF S, Name
    <2> QED BY <1>2, <2>1, AppendProperties
  <1> HIDE DEF T, Name
  <1>3. g \in [T \X Nat -> T]
    BY <1>2
  <1>4. \A s \in T, n \in Nat : g[<<s, n>>] = IF n - 1 \in flags THEN Append(s, Name(n - 1)) ELSE s
    OBVIOUS
  <1> HIDE DEF g, e
  <1>5. PICK f \in [0..16 -> T] : Loop(f, e, g, 16)
    BY <1>1, <1>3, LoopDefined
  <1>6. f = [n \in 0..16 |-> IF n = 0 THEN e
                             ELSE IF n - 1 \in flags THEN Append(f[n - 1], Name(n - 1)) ELSE f[n - 1]]
    <2> DEFINE u == [n \in 0..16 |-> IF n = 0 THEN e
                             ELSE IF n - 1 \in flags THEN Append(f[n - 1], Name(n - 1)) ELSE f[n - 1]]
    <2>1. f[0] = e
      BY <1>5 DEF Loop
    <2>2. ASSUME NEW n \in 1..16
          PROVE  f[n] = IF n - 1 \in flags THEN Append(f[n - 1], Name(n - 1)) ELSE f[n - 1]
      <3>1. n - 1 \in 0..16 /\ n \in Nat
        OBVIOUS
      <3>2. f[n] = g[<<f[n - 1], n>>] /\ f[n - 1] \in T
        BY <1>5, <3>1 DEF Loop
      <3> DEFINE s == f[n - 1]
      <3> HIDE DEF s
      <3>3. f[n] = g[<<s, n>>] /\ s \in T
        BY <3>2 DEF s
      <3>4. f[n] = IF n - 1 \in flags THEN Append(s, Name(n - 1)) ELSE s
        BY <1>4, <3>1, <3>3
      <3> QED BY <3>4 DEF s
    <2>3. \A n \in 0..16 : n = 0 \/ n \in 1..16
      OBVIOUS
    <2>4. \A n \in 0..16 : f[n] = u[n]
      BY <2>1, <2>2, <2>3
    <2>5. f = [n \in 0..16 |-> f[n]] /\ u = [n \in 0..16 |-> u[n]]
      OBVIOUS
    <2> HIDE DEF u
    <2>6. f = u
      BY <2>4, <2>5
    <2> QED BY <2>6 DEF u
  <1> DEFINE out == CHOOSE out : out = [n \in 0..16 |->
                IF n = 0 THEN e
                ELSE IF n - 1 \in flags THEN Append(out[n - 1], Name(n - 1)) ELSE out[n - 1]]
  <1>7. out = [n \in 0..16 |->
                IF n = 0 THEN e
                ELSE IF n - 1 \in flags THEN Append(out[n - 1], Name(n - 1)) ELSE out[n - 1]]
    BY <1>6
  <1>8. flagNames(flags, table) = out[16]
    BY DEF flagNames, nameBit, BitName, Name, e
  <1> HIDE DEF out
  <1>9. out[0] = e
    <2>1. 0 \in 0..16
      OBVIOUS
    <2> QED BY <1>7, <2>1
  <1>10. \A n \in 1..16 : out[n] = IF n - 1 \in flags THEN Append(out[n - 1], Name(n - 1)) ELSE out[n - 1]
    <2>1. \A n \in 1..16 : n \in 0..16 /\ n # 0
      OBVIOUS
    <2> QED BY <1>7, <2>1
  <1> DEFINE N(n) == {Name(b) : b \in {b \in flags : b < n}}
             D == {n \in Nat : n <= 16 => out[n] \in T /\ ToSet(out[n]) = N(n)}
  <1>b. \A b \in flags : b \in Nat /\ b < 16
    BY DEF Bits
  <1>11. 0 \in D
    <2>1. {b \in flags : b < 0} = {}
      <3>1. \A b \in flags : ~(b < 0)
        BY <1>b
      <3> QED BY <3>1, Zenon
    <2>2. ToSet(e) = {}
      BY DEF ToSet, e
    <2> QED BY <1>1, <1>9, <2>1, <2>2
  <1>12. ASSUME NEW n \in Nat, n \in D PROVE n + 1 \in D
    <2>1. SUFFICES ASSUME n + 1 <= 16 PROVE out[n + 1] \in T /\ ToSet(out[n + 1]) = N(n + 1)
      OBVIOUS
    <2>2. n + 1 \in 1..16 /\ (n + 1) - 1 = n /\ n <= 16
      BY <2>1
    <2> DEFINE s == out[n]
    <2>3. s \in T /\ ToSet(s) = N(n)
      BY <1>12, <2>2
    <2>4. out[n + 1] = IF n \in flags THEN Append(s, Name(n)) ELSE s
      <3> DEFINE k == n + 1
      <3>1. k \in 1..16 /\ k - 1 = n
        BY <2>2
      <3> HIDE DEF k
      <3>2. out[k] = IF n \in flags THEN Append(s, Name(n)) ELSE s
        BY <1>10, <3>1
      <3> QED BY <3>2 DEF k
    <2>5. CASE n \notin flags
      <3>1. {b \in flags : b < n + 1} = {b \in flags : b < n}
        <4>1. \A b \in flags : b < n + 1 <=> b < n
          BY <1>b, <2>5
        <4> QED BY <4>1, Zenon
      <3> HIDE DEF s
      <3> QED BY <2>3, <2>4, <2>5, <3>1
    <2>6. CASE n \in flags
      <3>1. {b \in flags : b < n + 1} = {b \in flags : b < n} \cup {n}
        <4>1. \A b \in flags : b < n + 1 <=> b < n \/ b = n
          BY <1>b
        <4> QED BY <2>6, <4>1, Zenon
      <3>2. N(n + 1) = N(n) \cup {Name(n)}
        BY <3>1
      <3>3. Name(n) \in S
        BY <1>2, <2>3, <2>6
      <3> DEFINE y == Name(n)
      <3> HIDE DEF s, S, y, N
      <3>4. Append(s, y) \in T /\ ToSet(Append(s, y)) = ToSet(s) \cup {y}
        <4>1. s \in Seq(S) /\ y \in S
          BY <2>3, <3>3 DEF T, y
        <4>2. Append(s, y) \in T
          BY <1>2, <2>3, <2>6 DEF y
        <4> QED BY <4>1, <4>2, ToSetAppend
      <3> QED BY <2>3, <2>4, <2>6, <3>2, <3>4 DEF y
    <2> QED BY <2>5, <2>6
  <1> HIDE DEF D
  <1>13. 16 \in D
    BY <1>11, <1>12, SetInduction
  <1>14. out[16] \in T /\ ToSet(out[16]) = N(16)
    BY <1>13 DEF D
  <1>15. {b \in flags : b < 16} = flags
    BY <1>b, Zenon
  <1>16. ToSet(out[16]) = {Name(b) : b \in flags}
    BY <1>14, <1>15
  <1> DEFINE names == out[16]
  <1>17. DOMAIN names = 1..Len(names)
    BY <1>14, LenProperties DEF T
  <1> QED BY <1>8, <1>16, <1>17 DEF Name

\* The names read back as the same bits if the decoder accepts them all: it
\* has no name for the bits above 8, and refuses that of bit 8.
LEMMA FlagsSpoken ==
  ASSUME NEW flags, flags \subseteq Bits
  PROVE  LET r == FlagBits(flagNames(flags, transferFlagNames), transferFlagNames) IN
         /\ r.ok <=> flags \subseteq 0..7
         /\ r.ok => r.v = flags
  <1> DEFINE table == transferFlagNames
             names == flagNames(flags, table)
             N(b) == BitName(b, table)
             good == ToSet(table) \ {"imported"}
             r == FlagBits(names, table)
  <1>1. DOMAIN names = 1..Len(names) /\ ToSet(names) = {N(b) : b \in flags}
    BY NamesOfBits
  <1>2. (\A i \in DOMAIN names : names[i] \in good) <=> \A b \in flags : N(b) \in good
    <2> HIDE DEF N, good, names
    <2>1. (\A i \in DOMAIN names : names[i] \in good) <=> \A x \in ToSet(names) : x \in good
      BY DEF ToSet
    <2> QED BY <1>1, <2>1
  <1>3. Len(table) = 9 /\ DOMAIN table = 1..9
    BY DEF transferFlagNames
  <1>4. ToSet(table) = {"linked", "pending", "post_pending_transfer", "void_pending_transfer",
      "balancing_debit", "balancing_credit", "closing_debit", "closing_credit", "imported"}
    BY DEF transferFlagNames, ToSet
  <1>5. /\ N(0) = "linked" /\ N(1) = "pending" /\ N(2) = "post_pending_transfer"
        /\ N(3) = "void_pending_transfer" /\ N(4) = "balancing_debit"
        /\ N(5) = "balancing_credit" /\ N(6) = "closing_debit" /\ N(7) = "closing_credit"
        /\ N(8) = "imported" /\ N(9) = "bit_9" /\ N(10) = "bit_10" /\ N(11) = "bit_11"
        /\ N(12) = "bit_12" /\ N(13) = "bit_13" /\ N(14) = "bit_14" /\ N(15) = "bit_15"
    BY DEF BitName, transferFlagNames, bitNames
  <1> DEFINE Low == {0, 1, 2, 3, 4, 5, 6, 7}
             High == {8, 9, 10, 11, 12, 13, 14, 15}
  <1>6. Bits = Low \cup High /\ 0..7 = Low /\ Low \cap High = {}
    BY DEF Bits
  <1>7. \A b \in Low : N(b) \in good
    BY <1>4, <1>5
  <1>8. \A b \in High : N(b) \notin good
    BY <1>4, <1>5
  <1>9. \A a, b \in Low : N(a) = N(b) => a = b
    BY <1>5
  <1>10. \A b \in Bits : b < Len(table) => table[b + 1] = N(b)
    BY <1>3 DEF BitName
  <1>11. r.ok <=> \A i \in DOMAIN names : names[i] \in good
    BY DEF FlagBits, Ok, Error
  <1>12. r.ok => r.v = {b \in Bits : b < Len(table) /\ table[b + 1] \in ToSet(names)}
    BY DEF FlagBits, Ok, Error
  <1> HIDE DEF names, N, good, r, table
  <1>13. r.ok <=> flags \subseteq 0..7
    <2> HIDE DEF Low, High
    <2> QED BY <1>2, <1>6, <1>7, <1>8, <1>11
  <1>14. ASSUME r.ok PROVE r.v = flags
    <2>1. flags \subseteq Low
      BY <1>6, <1>13, <1>14
    <2>2. \A b \in Low : b < Len(table) /\ b \in Bits
      BY <1>3, <1>6
    <2>3. \A b \in High : N(b) \notin ToSet(names)
      <3> HIDE DEF Low, High
      <3> QED BY <1>1, <1>7, <1>8, <2>1
    <2>4. \A b \in Low : N(b) \in ToSet(names) <=> b \in flags
      <3> HIDE DEF Low, High
      <3> QED BY <1>1, <1>9, <2>1
    <2> HIDE DEF Low, High
    <2>5. \A b \in Bits : (b < Len(table) /\ table[b + 1] \in ToSet(names)) <=> b \in flags
      BY <1>6, <1>10, <2>1, <2>2, <2>3, <2>4
    <2> QED BY <1>12, <1>14, <2>5
  <1> QED BY <1>13, <1>14 DEF r, names, table

-----------------------------------------------------------------------------
(* A rendered transfer read back.                                          *)

\* An id that is not 0 reads back, in either position.
LEMMA IdSpoken ==
  ASSUME NEW u, u # 0
  PROVE  ParseID(FormatID(u)) = Ok(u) /\ Optional(FormatID(u)) = Ok(u)
  BY DEF ParseID, FormatID, Optional, NoText, Ok, Error

\* The id 0 is left out, and read as 0 where it may be left out.
LEMMA OptionalSpoken ==
  ASSUME NEW u
  PROVE  /\ Optional(optionalID(u)) = Ok(u)
         /\ optionalID(u) = NoText <=> u = 0
  <1>1. FormatID(u) # NoText
    BY DEF FormatID, NoText
  <1>2. CASE u = 0
    BY <1>2 DEF optionalID, Optional
  <1>3. CASE u # 0
    BY <1>1, <1>3, IdSpoken DEF optionalID
  <1> QED BY <1>2, <1>3

\* A timeout of whole seconds is not truncated.
LEMMA TimeoutSpoken ==
  ASSUME NEW secs \in 0..MaxTimeout
  PROVE  (IF timeout(secs) = NoTimeout THEN Ok(0) ELSE parseTimeoutSeconds(timeout(secs))) = Ok(secs)
  <1>1. CASE secs = 0
    BY <1>1 DEF timeout
  <1>2. CASE secs # 0
    <2>1. timeout(secs) = [form |-> "duration", halves |-> 2 * secs]
      BY <1>2 DEF timeout
    <2> DEFINE t == timeout(secs)
               h == 2 * secs
    <2>2. h \div 2 = secs /\ ~(h <= 0) /\ secs \in 1..MaxTimeout
      BY <1>2, TimeoutAssumption
    <2> HIDE DEF h, t
    <2>3. t.form = "duration" /\ t.halves = h /\ t # NoTimeout
      BY <2>1 DEF t, h, NoTimeout
    <2>4. parseTimeoutSeconds(t) = Ok(secs)
      BY <2>2, <2>3 DEF parseTimeoutSeconds
    <2> QED BY <2>3, <2>4 DEF t
  <1> QED BY <1>1, <1>2

\* A ledger the registry names reads back with its scale, and the number that
\* stands for any other is not understood.
LEMMA LedgerSpoken ==
  ASSUME NEW c, NEW id, ToString(id) \notin DOMAIN c.ledgers
  PROVE  LET l == ledger(c, id)
             r == Ledger(c, l.name)
         IN /\ r.ok <=> LedgerName(c, id).ok
            /\ r.ok => /\ r.v.id = id /\ r.v.scale = l.scale
                       /\ \E n \in DOMAIN c.ledgers : l.scale = c.ledgers[n].scale
  <1> DEFINE names == {n \in DOMAIN c.ledgers : c.ledgers[n].id = id}
             l == ledger(c, id)
             r == Ledger(c, l.name)
  <1>1. CASE names = {}
    <2>1. LedgerName(c, id) = Error
      BY <1>1 DEF LedgerName
    <2>2. ~LedgerName(c, id).ok
      BY <2>1 DEF Error
    <2>3. l.name = ToString(id)
      BY <2>2 DEF ledger
    <2> HIDE DEF l
    <2>4. ~r.ok
      BY <2>3 DEF Ledger, Error
    <2> QED BY <2>2, <2>4 DEF l
  <1>2. CASE names # {}
    <2> DEFINE n == CHOOSE n \in names : TRUE
    <2>1. n \in names
      BY <1>2
    <2>2. LedgerName(c, id) = Ok(n)
      BY <1>2 DEF LedgerName
    <2> HIDE DEF n
    <2>3. LedgerName(c, id).ok /\ LedgerName(c, id).v = n
      BY <2>2 DEF Ok
    <2>4. l.name = n /\ l.scale = c.ledgers[n].scale
      BY <2>3 DEF ledger
    <2>5. n \in DOMAIN c.ledgers /\ c.ledgers[n].id = id
      BY <2>1
    <2> HIDE DEF l, names
    <2>6. r = Ok(c.ledgers[n])
      BY <2>4, <2>5 DEF Ledger
    <2>7. r.ok /\ r.v = c.ledgers[n]
      BY <2>6 DEF Ok
    <2> HIDE DEF r
    <2> QED BY <2>3, <2>4, <2>5, <2>7 DEF l, r
  <1> QED BY <1>1, <1>2

\* The same for a code.
LEMMA CodeSpoken ==
  ASSUME NEW c, NEW v, ToString(v) \notin DOMAIN c.codes
  PROVE  LET r == Code(c, code(c, v))
         IN /\ r.ok <=> CodeName(c, v).ok
            /\ r.ok => r = Ok(v)
  <1> DEFINE names == {n \in DOMAIN c.codes : c.codes[n] = v}
             k == code(c, v)
             r == Code(c, k)
  <1>1. CASE names = {}
    <2>1. CodeName(c, v) = Error
      BY <1>1 DEF CodeName
    <2>2. ~CodeName(c, v).ok
      BY <2>1 DEF Error
    <2>3. k = ToString(v)
      BY <2>2 DEF code
    <2> HIDE DEF k
    <2>4. ~r.ok
      BY <2>3 DEF Code, Error
    <2> QED BY <2>2, <2>4 DEF k
  <1>2. CASE names # {}
    <2> DEFINE n == CHOOSE n \in names : TRUE
    <2>1. n \in names
      BY <1>2
    <2>2. CodeName(c, v) = Ok(n)
      BY <1>2 DEF CodeName
    <2> HIDE DEF n
    <2>3. CodeName(c, v).ok /\ CodeName(c, v).v = n
      BY <2>2 DEF Ok
    <2>4. k = n
      BY <2>3 DEF code
    <2>5. n \in DOMAIN c.codes /\ c.codes[n] = v
      BY <2>1
    <2> HIDE DEF k, names
    <2>6. r = Ok(v)
      BY <2>4, <2>5 DEF Code
    <2>7. r.ok
      BY <2>6 DEF Ok
    <2> HIDE DEF r
    <2> QED BY <2>3, <2>6, <2>7 DEF k, r
  <1> QED BY <1>1, <1>2

\* The record of an event, read as a command, is accepted if and only if the
\* decoder has a word for everything in it, and then means the same transfer.
LEMMA TransferSpoken ==
  ASSUME NEW file, IsConfig(file), NEW c \in Load(file), NEW ev, IsEvent(ev),
         ToString(ev.ledger) \notin DOMAIN c.ledgers, ToString(ev.code) \notin DOMAIN c.codes
  PROVE  LET t == transfer(c, AsTransfer(Message(c, ev)))
         IN (t.ok <=> Speakable(c, ev)) /\ (t.ok => t.v = Original(ev))
  <1> DEFINE jt == AsTransfer(Message(c, ev))
             lg == ledger(c, ev.ledger)
             flags == FlagBits(jt.flags, transferFlagNames)
             postOrVoid == flags.ok /\ flags.v \cap {2, 3} # {}
             l == Ledger(c, jt.ledger)
             parts == [id |-> ParseID(jt.id), flags |-> flags,
                pending |-> IF postOrVoid THEN ParseID(jt.pending)
                            ELSE IF jt.pending = NoText THEN Ok(0) ELSE Error,
                debit |-> IF postOrVoid THEN Optional(jt.debit) ELSE ParseID(jt.debit),
                credit |-> IF postOrVoid THEN Optional(jt.credit) ELSE ParseID(jt.credit),
                ledger |-> IF l.ok THEN Ok(l.v.id) ELSE Error,
                code |-> Code(c, jt.code),
                amount |-> IF l.ok THEN ParseAmount(jt.amount, l.v.scale) ELSE Error,
                user |-> Optional(jt.user),
                timeout |-> IF jt.timeout = NoTimeout THEN Ok(0)
                            ELSE parseTimeoutSeconds(jt.timeout)]
             t == transfer(c, jt)
             o == Original(ev)
             Keys == {"id", "flags", "pending", "debit", "credit", "ledger", "code",
                      "amount", "user", "timeout"}
  <1>1. t = Whole(parts)
    BY DEF transfer
  <1>2. /\ jt.id = FormatID(ev.id) /\ jt.debit = FormatID(ev.debit.id)
        /\ jt.credit = FormatID(ev.credit.id) /\ jt.pending = optionalID(ev.pending)
        /\ jt.amount = FormatAmount(ev.amount, lg.scale) /\ jt.ledger = lg.name
        /\ jt.code = code(c, ev.code) /\ jt.flags = flagNames(ev.flags, transferFlagNames)
        /\ jt.user = optionalID(ev.user) /\ jt.timeout = timeout(ev.timeout)
    BY DEF AsTransfer, Message, Snapshot
  <1>3. /\ o.id = ev.id /\ o.debit = ev.debit.id /\ o.credit = ev.credit.id
        /\ o.pending = ev.pending /\ o.amount = ev.amount /\ o.ledger = ev.ledger
        /\ o.code = ev.code /\ o.flags = ev.flags /\ o.user = ev.user /\ o.timeout = ev.timeout
        /\ o = [k \in Keys |-> o[k]]
    BY DEF Original
  <1>4. /\ DOMAIN parts = Keys
        /\ parts.id = ParseID(jt.id) /\ parts.flags = flags /\ parts.code = Code(c, jt.code)
        /\ parts.pending = (IF postOrVoid THEN ParseID(jt.pending)
                            ELSE IF jt.pending = NoText THEN Ok(0) ELSE Error)
        /\ parts.debit = (IF postOrVoid THEN Optional(jt.debit) ELSE ParseID(jt.debit))
        /\ parts.credit = (IF postOrVoid THEN Optional(jt.credit) ELSE ParseID(jt.credit))
        /\ parts.ledger = (IF l.ok THEN Ok(l.v.id) ELSE Error)
        /\ parts.amount = (IF l.ok THEN ParseAmount(jt.amount, l.v.scale) ELSE Error)
        /\ parts.user = Optional(jt.user)
        /\ parts.timeout = (IF jt.timeout = NoTimeout THEN Ok(0)
                            ELSE parseTimeoutSeconds(jt.timeout))
    OBVIOUS
  <1> HIDE DEF parts, jt, o, t
  <1>5. /\ flags.ok <=> ev.flags \subseteq 0..7
        /\ flags.ok => flags.v = ev.flags
    BY <1>2, FlagsSpoken DEF IsEvent
  <1>6. /\ l.ok <=> LedgerName(c, ev.ledger).ok
        /\ l.ok => l.v.id = ev.ledger /\ l.v.scale = lg.scale
        /\ l.ok => \E n \in DOMAIN c.ledgers : lg.scale = c.ledgers[n].scale
    BY <1>2, LedgerSpoken
  <1>7. /\ parts.code.ok <=> CodeName(c, ev.code).ok
        /\ parts.code.ok => parts.code = Ok(ev.code)
    BY <1>2, <1>4, CodeSpoken
  <1>8. t.ok <=> \A k \in Keys : parts[k].ok
    BY <1>1, <1>4 DEF Whole, Ok, Error
  <1>9. t.ok => t.v = [k \in Keys |-> parts[k].v]
    BY <1>1, <1>4 DEF Whole, Ok, Error
  <1>10. ASSUME t.ok PROVE Speakable(c, ev)
    <2>1. parts.flags.ok /\ parts.ledger.ok /\ parts.code.ok
      BY <1>8, <1>10
    <2>2. l.ok
      BY <1>4, <2>1 DEF Error
    <2> QED
      BY <1>4, <1>5, <1>6, <1>7, <2>1, <2>2 DEF Speakable
  <1>11. ASSUME Speakable(c, ev) PROVE \A k \in Keys : parts[k] = Ok(o[k])
    <2>1. flags.ok /\ flags.v = ev.flags /\ l.ok /\ CodeName(c, ev.code).ok
      BY <1>5, <1>6, <1>11 DEF Speakable
    <2>2. postOrVoid <=> ev.pending # 0
      BY <2>1 DEF IsEvent
    <2>3. ev.id # 0 /\ ev.debit.id # 0 /\ ev.credit.id # 0
      BY DEF IsEvent
    <2>4. parts.id = Ok(ev.id)
      BY <1>2, <1>4, <2>3, IdSpoken
    <2>5. parts.flags = Ok(ev.flags)
      <3>1. flags = Ok(flags.v)
        BY <2>1 DEF FlagBits, Ok, Error
      <3> QED BY <1>4, <2>1, <3>1
    <2>6. parts.debit = Ok(ev.debit.id)
      BY <1>2, <1>4, <2>3, IdSpoken
    <2>7. parts.credit = Ok(ev.credit.id)
      BY <1>2, <1>4, <2>3, IdSpoken
    <2>8. parts.pending = Ok(ev.pending)
      <3>1. CASE ev.pending = 0
        BY <1>2, <1>4, <2>2, <3>1, OptionalSpoken
      <3>2. CASE ev.pending # 0
        <4>1. jt.pending = FormatID(ev.pending)
          BY <1>2, <3>2 DEF optionalID
        <4> QED BY <1>4, <2>2, <3>2, <4>1, IdSpoken
      <3> QED BY <3>1, <3>2
    <2>9. parts.ledger = Ok(ev.ledger)
      BY <1>4, <1>6, <2>1
    <2>10. parts.code = Ok(ev.code)
      BY <1>7, <1>11 DEF Speakable
    <2>11. parts.amount = Ok(ev.amount)
      <3> DEFINE scale == lg.scale
                 a == ev.amount
      <3>1. scale \in 0..MaxScale
        BY <1>6, <2>1, DefaultsKeepNames
      <3>2. a \in 0..MaxBig
        BY DEF IsEvent
      <3>3. parts.amount = ParseAmount(FormatAmount(a, scale), scale)
        BY <1>2, <1>4, <1>6, <2>1
      <3> HIDE DEF a, scale
      <3>4. parts.amount = Ok(a)
        BY <3>1, <3>2, <3>3, RoundTrip
      <3> QED BY <3>4 DEF a
    <2>12. parts.user = Ok(ev.user)
      BY <1>2, <1>4, OptionalSpoken
    <2>13. parts.timeout = Ok(ev.timeout)
      <3>1. ev.timeout \in 0..MaxTimeout
        BY DEF IsEvent
      <3> QED BY <1>2, <1>4, <3>1, TimeoutSpoken
    <2> QED
      BY <1>3, <2>4, <2>5, <2>6, <2>7, <2>8, <2>9, <2>10, <2>11, <2>12, <2>13
  <1>12. ASSUME Speakable(c, ev) PROVE t.ok /\ t.v = o
    <2>1. \A k \in Keys : parts[k].ok /\ parts[k].v = o[k]
      BY <1>11, <1>12 DEF Ok
    <2> HIDE DEF Keys
    <2>2. t.ok /\ t.v = [k \in Keys |-> parts[k].v]
      BY <1>8, <1>9, <2>1
    <2>3. [k \in Keys |-> parts[k].v] = [k \in Keys |-> o[k]]
      BY <2>1
    <2> QED BY <1>3, <2>2, <2>3
  <1> QED
    BY <1>10, <1>12 DEF t, o, jt

-----------------------------------------------------------------------------
(* The inductive invariant.                                                *)

\* What this process knows comes from its file and its payload.
Understood ==
    /\ raw \in Configs \cup {Usual}
    /\ payload = {} \/ \E p \in Samples \cup Payloads : payload = {p}
    /\ cfg = {} \/ cfg = Load(raw)
    /\ cmd = {} \/ \E c \in cfg, p \in payload : cmd = Decode(c, p)
    /\ stage = "refused" => Load(raw) = {}

\* How far it is through the window.
Progressing ==
    /\ stage \in {"start", "refused", "loaded", "decoded", "publish"}
    /\ IsWindow(window) /\ next \in 1..(Len(window) + 1) /\ busy \in BOOLEAN
    /\ busy => next <= Len(window)
    /\ stage # "publish" => sent = {} /\ ~busy /\ next = 1
    /\ warned \subseteq {"ledger", "code", "event_type"} \X Nat

Held == {r.buf : r \in sent}

\* Every allocation has one owner: the encoder, the pool, the other goroutine
\* or a single record.
OneOwner ==
    /\ scratch \in Buffers /\ cap \in Nat \ {0} /\ chunks \in Seq(Buffers)
    /\ pool \subseteq Buffers /\ other \subseteq Buffers /\ Held \subseteq Buffers
    /\ DOMAIN mem = Buffers
    /\ pool \cap other = {}
    /\ ({scratch} \cup ToSet(chunks)) \cap (pool \cup other \cup Held) = {}
    /\ Held \cap (pool \cup other) = {}
    /\ \A r, s \in sent : r.buf = s.buf => r = s

\* What the chunks hold is the event being rendered, and they hold nothing
\* between two events.
Rendering == /\ ~busy => chunks = <<>>
             /\ busy => chunks # <<>> /\ Body = Pieces(next)

VocabularyInv ==
    /\ Understood /\ Progressing /\ OneOwner /\ Rendering
    /\ \A r \in sent : r.n \in DOMAIN window
    /\ BodiesIntact

-----------------------------------------------------------------------------
(* Facts the steps share.                                                  *)

\* A new allocation is nobody's.
LEMMA FreshIsNew ==
  ASSUME NEW used, NEW b \in Fresh(used)
  PROVE  b \in Buffers /\ b \notin used
  BY DEF Fresh

\* A message has at least one piece.
LEMMA PiecesType ==
  ASSUME IsWindow(window), NEW n \in DOMAIN window
  PROVE  /\ Pieces(n) \in Seq((DOMAIN window) \X Nat)
         /\ Len(Pieces(n)) \in Nat \ {0}
  <1>1. IsFiniteSet(window[n].flags)
    <2>1. IsFiniteSet(Bits)
      <3>1. 0 \in Int /\ 15 \in Int
        OBVIOUS
      <3>2. IsFiniteSet(0..15)
        BY <3>1, FS_Interval, Zenon
      <3> QED
        BY <3>2 DEF Bits
    <2>2. window[n].flags \subseteq Bits
      BY DEF IsWindow, IsEvent
    <2> QED
      BY <2>1, <2>2, FS_Subset
  <1>2. Cardinality(window[n].flags) \in Nat
    BY <1>1, FS_CardinalityType
  <1> DEFINE m == Size(window[n])
  <1>3. m \in Nat \ {0}
    BY <1>2 DEF Size
  <1> HIDE DEF m
  <1>4. Pieces(n) = [i \in 1..m |-> <<n, i>>]
    BY DEF Pieces, m
  <1>5. \A i \in 1..m : <<n, i>> \in (DOMAIN window) \X Nat
    BY <1>3
  <1> QED
    BY <1>3, <1>4, <1>5

\* What the chunks hold changes only by writing to one of them.
LEMMA BodyKept ==
  ASSUME chunks' = chunks, \A b \in ToSet(chunks) : mem'[b] = mem[b]
  PROVE  Body' = Body
  <1>1. \A i \in DOMAIN chunks : mem'[chunks[i]] = mem[chunks[i]]
    BY DEF ToSet
  <1>2. [i \in DOMAIN chunks |-> mem'[chunks[i]]] = [i \in DOMAIN chunks |-> mem[chunks[i]]]
    BY <1>1
  <1> QED
    BY <1>2 DEF Body

\* The pool gains nothing but what it is given.
LEMMA PooledType ==
  ASSUME NEW S
  PROVE  Pooled(S) \subseteq pool \cup S
  BY DEF Pooled

-----------------------------------------------------------------------------
(* The steps.                                                              *)

\* A process starts with nothing read, nothing rendered and one allocation.
LEMMA VocabularyInit == Init => VocabularyInv
  <1> SUFFICES ASSUME Init PROVE VocabularyInv
    OBVIOUS
  <1>1. Understood
    BY DEF Init, Understood
  <1>2. Progressing
    <2>1. IsWindow(window)
      <3>1. IsWindow(<<>>)
        BY DEF IsWindow, IsList
      <3> QED
        BY <3>1, InputAssumption DEF Init
    <2>2. Len(window) \in Nat
      BY <2>1 DEF IsWindow, IsList
    <2>3. next \in 1..(Len(window) + 1)
      BY <2>2 DEF Init
    <2> QED
      BY <2>1, <2>3 DEF Init, Progressing
  <1>3. OneOwner
    BY BufferAssumption DEF Init, OneOwner, Held, ToSet
  <1>4. Rendering /\ BodiesIntact /\ \A r \in sent : r.n \in DOMAIN window
    BY DEF Init, Rendering, BodiesIntact
  <1> QED
    BY <1>1, <1>2, <1>3, <1>4 DEF VocabularyInv

\* Loading, decoding and applying: nothing is being rendered yet.
LEMMA InputStep ==
  ASSUME VocabularyInv, LoadConfig \/ Receive \/ Apply
  PROVE  VocabularyInv'
  <1> USE DEF VocabularyInv
  <1>1. sent = {} /\ ~busy /\ next = 1 /\ stage # "publish"
    BY DEF LoadConfig, Receive, Apply, Progressing
  <1>2. UNCHANGED <<raw, payload, next, busy, warned, scratch, cap, chunks, pool, other, mem, sent>>
    BY DEF LoadConfig, Receive, Apply, encoder
  <1>3. Understood'
    <2>1. CASE LoadConfig
      <3>1. cfg \subseteq cfg' /\ cfg' = Load(raw)
        BY <2>1 DEF LoadConfig, Understood
      <3>2. UNCHANGED <<raw, payload, cmd>> /\ (stage' = "refused" => Load(raw) = {})
        BY <2>1 DEF LoadConfig
      <3>3. cmd' = {} \/ \E c \in cfg', p \in payload' : cmd' = Decode(c, p)
        BY <3>1, <3>2 DEF Understood
      <3> QED
        BY <3>1, <3>2, <3>3 DEF Understood
    <2>2. CASE Receive
      BY <2>2 DEF Receive, Understood
    <2>3. CASE Apply
      BY <2>3 DEF Apply, Understood
    <2> QED
      BY <2>1, <2>2, <2>3
  <1>4. IsWindow(window')
    <2>1. CASE LoadConfig \/ Receive
      BY <2>1 DEF LoadConfig, Receive, Progressing
    <2>2. CASE Apply
      <3>1. PICK k \in cmd : /\ k.op = "create_transfers"
                             /\ window' = [i \in DOMAIN k.events |-> EventOf(k.events[i])]
        BY <2>2 DEF Apply
      <3>2. PICK c \in cfg, p \in payload : cmd = Decode(c, p)
        BY <3>1 DEF Understood
      <3>3. IsConfig(raw) /\ c \in Load(raw) /\ IsPayload(p) /\ k \in Decode(c, p)
        BY <3>1, <3>2, InputAssumption DEF Understood
      <3>4. IsList(k.events) /\ \A i \in DOMAIN k.events : IsTransfer(k.events[i])
        BY <3>1, <3>3, DecodedCommand
      <3> DEFINE events == k.events
      <3> HIDE DEF events
      <3>5. IsWindow([i \in DOMAIN events |-> EventOf(events[i])])
        BY <3>4, EventsOfTransfers DEF events
      <3> QED
        BY <3>1, <3>5 DEF events
    <2> QED
      BY <2>1, <2>2
  <1>5. Progressing'
    <2>1. Len(window') \in Nat
      BY <1>4 DEF IsWindow, IsList
    <2>2. stage' \in {"start", "refused", "loaded", "decoded", "publish"}
      BY DEF LoadConfig, Receive, Apply
    <2> QED
      BY <1>1, <1>2, <1>4, <2>1, <2>2 DEF Progressing
  <1>6. OneOwner'
    BY <1>2 DEF OneOwner, Held
  <1>7. Rendering' /\ BodiesIntact' /\ \A r \in sent' : r.n \in DOMAIN window'
    BY <1>1, <1>2 DEF Rendering, BodiesIntact
  <1> QED
    BY <1>3, <1>5, <1>6, <1>7

\* Rendering writes to chunks of the encoder, and to no record's body.
LEMMA RenderStep ==
  ASSUME VocabularyInv, MarshalBegin
  PROVE  VocabularyInv'
  <1> USE DEF VocabularyInv
  <1> DEFINE p == Pieces(next)
  <1>1. /\ UNCHANGED <<raw, cfg, payload, cmd, stage, window, next, scratch, cap, other, sent>>
        /\ stage = "publish" /\ ~busy /\ busy' = TRUE /\ Due
    BY DEF MarshalBegin, input
  <1>2. IsWindow(window) /\ next \in DOMAIN window /\ next <= Len(window)
    <2>0. IsWindow(window)
      BY DEF Progressing
    <2>1. next \in 1..(Len(window) + 1)
      BY DEF Progressing
    <2>2. Len(window) \in Nat /\ DOMAIN window = 1..Len(window)
      BY <2>0 DEF IsWindow, IsList
    <2>3. next < Len(window) \/ next = Len(window)
      BY <1>1 DEF Due
    <2>4. next \in DOMAIN window /\ next <= Len(window)
      <3> DEFINE n == Len(window)
      <3> HIDE DEF VocabularyInv, n
      <3>1. n \in Nat /\ next \in 1..(n + 1) /\ (next < n \/ next = n)
        BY <2>1, <2>2, <2>3 DEF n
      <3>2. next \in 1..n /\ next <= n
        BY <3>1
      <3> QED
        BY <2>2, <3>2 DEF n
    <2> QED
      BY <2>0, <2>4
  <1>3. p \in Seq((DOMAIN window) \X Nat) /\ Len(p) \in Nat \ {0}
    BY <1>2, PiecesType
  <1>4. p = Pieces(next)'
    BY <1>1 DEF Pieces, Size
  <1>5. chunks = <<>> /\ scratch \in Buffers /\ cap \in Nat \ {0}
    BY <1>1 DEF Rendering, OneOwner
  <1> HIDE DEF p
  <1>6. Understood'
    BY <1>1 DEF Understood
  <1>7. Progressing'
    <2>1. PICK c \in cfg : warned' = warned \cup Gaps(c, window[next])
      BY DEF MarshalBegin
    <2>2. warned' \subseteq {"ledger", "code", "event_type"} \X Nat
      BY <1>2, <2>1, GapsType DEF Progressing
    <2> QED
      BY <1>1, <1>2, <2>2 DEF Progressing
  <1>8. /\ OneOwner' /\ Rendering'
        /\ \A b \in Held : mem'[b] = mem[b]
    <2>1. CASE /\ Len(p) <= cap
               /\ mem' = [mem EXCEPT ![scratch] = p]
               /\ chunks' = Append(chunks, scratch)
               /\ UNCHANGED pool
      <3>1. chunks' = <<scratch>> /\ mem'[scratch] = p /\ ToSet(chunks') = {scratch}
        BY <1>5, <2>1 DEF OneOwner, ToSet
      <3>2. OneOwner'
        BY <1>1, <2>1, <3>1 DEF OneOwner, Held
      <3>3. Body' = p
        <4>1. [i \in DOMAIN chunks' |-> mem'[chunks'[i]]] = <<p>>
          BY <3>1
        <4> QED
          BY <4>1, FlattenOne DEF Body
      <3>4. \A b \in Held : mem'[b] = mem[b]
        BY <2>1 DEF OneOwner
      <3> QED
        BY <1>1, <1>4, <3>1, <3>2, <3>3, <3>4 DEF Rendering
    <2>2. CASE /\ Len(p) > cap
               /\ \E b \in pool \cup Fresh(Used) :
                     /\ mem' = [mem EXCEPT ![scratch] = SubSeq(p, 1, cap),
                                           ![b] = SubSeq(p, cap + 1, Len(p))]
                     /\ chunks' = chunks \o <<scratch, b>>
                     /\ pool' = pool \ {b}
      <3>1. PICK b \in pool \cup Fresh(Used) :
                     /\ mem' = [mem EXCEPT ![scratch] = SubSeq(p, 1, cap),
                                           ![b] = SubSeq(p, cap + 1, Len(p))]
                     /\ chunks' = chunks \o <<scratch, b>>
                     /\ pool' = pool \ {b}
        BY <2>2
      <3>2. b \in Buffers /\ b # scratch /\ b \notin Held /\ b \notin other
        BY <3>1, FreshIsNew DEF OneOwner, Used, Held
      <3> DEFINE front == SubSeq(p, 1, cap)
                 back == SubSeq(p, cap + 1, Len(p))
      <3>3. chunks' = <<scratch, b>>
        BY <1>5, <3>1
      <3>4. front \o back = p
        <4>1. front \o back = SubSeq(p, 1, Len(p))
          <5>1. 1 \in 1..(Len(p) + 1) /\ cap \in 1-1 .. Len(p) /\ Len(p) \in cap .. Len(p)
            BY <1>3, <1>5, <2>2
          <5> QED
            BY <1>3, <5>1, ConcatAdjacentSubSeq DEF front, back
        <4> QED
          BY <1>3, <4>1, SubSeqFull
      <3> HIDE DEF front, back
      <3>5. /\ mem'[scratch] = front /\ mem'[b] = back /\ DOMAIN mem' = Buffers
            /\ \A x \in Buffers \ {scratch, b} : mem'[x] = mem[x]
        BY <3>1, <3>2 DEF OneOwner, front, back
      <3>6. ToSet(chunks') = {scratch, b} /\ chunks' \in Seq(Buffers) /\ chunks' # <<>>
        BY <1>5, <3>2, <3>3 DEF ToSet
      <3>7. OneOwner'
        <4>1. Held' = Held /\ pool' = pool \ {b} /\ UNCHANGED <<scratch, cap, other, sent>>
          BY <1>1, <3>1 DEF Held
        <4> QED
          BY <3>2, <3>5, <3>6, <4>1 DEF OneOwner
      <3>8. Body' = p
        <4>1. [i \in DOMAIN chunks' |-> mem'[chunks'[i]]] = <<front, back>>
          BY <3>3, <3>5
        <4> QED
          BY <3>4, <4>1, FlattenTwo DEF Body
      <3>9. \A x \in Held : mem'[x] = mem[x]
        BY <3>2, <3>5 DEF OneOwner
      <3> QED
        BY <1>1, <1>4, <3>6, <3>7, <3>8, <3>9 DEF Rendering
    <2> QED
      BY <2>1, <2>2 DEF MarshalBegin, p
  <1>9. BodiesIntact' /\ \A r \in sent' : r.n \in DOMAIN window'
    <2>1. \A n : Pieces(n)' = Pieces(n)
      BY <1>1 DEF Pieces, Size
    <2> QED
      BY <1>1, <1>8, <2>1 DEF BodiesIntact, Held
  <1> QED
    BY <1>6, <1>7, <1>8, <1>9

\* A record that is built owns a new allocation, which holds its event.
LEMMA BuiltStep ==
  ASSUME VocabularyInv, CopyOut \/ BuildBytes
  PROVE  VocabularyInv'
  <1> USE DEF VocabularyInv
  <1>1. /\ UNCHANGED <<raw, cfg, payload, cmd, stage, window, warned, other>>
        /\ busy /\ busy' = FALSE /\ next' = next + 1 /\ chunks' = <<>>
    BY DEF CopyOut, BuildBytes, input
  <1>2. PICK b \in Fresh(Used) : Keep(b) /\ mem' = [mem EXCEPT ![b] = Body]
                /\ (BuildBytes => scratch' \in Fresh(Used \cup {b}) /\ cap' = 2 * Len(Body))
    BY DEF CopyOut, BuildBytes
  <1>3. b \in Buffers /\ b \notin Used
    BY <1>2, FreshIsNew
  <1>4. PICK c \in cfg : sent' = sent \cup {[n |-> next, buf |-> b,
                                            key |-> key(c, Message(c, window[next]))]}
    BY <1>2 DEF Keep
  <1> DEFINE k == key(c, Message(c, window[next]))
             new == [n |-> next, buf |-> b, key |-> k]
  <1>5. sent' = sent \cup {new} /\ new.n = next /\ new.buf = b
    BY <1>4
  <1> HIDE DEF new
  <1>6. /\ IsWindow(window) /\ next \in DOMAIN window
        /\ Body = Pieces(next) /\ Len(Body) \in Nat \ {0}
    <2>1. IsWindow(window) /\ next \in DOMAIN window /\ Body = Pieces(next)
      BY <1>1 DEF Progressing, IsWindow, IsList, Rendering
    <2> QED
      BY <2>1, PiecesType
  <1>7. Understood'
    BY <1>1 DEF Understood
  <1>8. Progressing'
    <2>1. stage = "publish"
      BY <1>1 DEF Progressing
    <2>2. Len(window) \in Nat /\ next \in 1..Len(window)
      BY <1>6 DEF IsWindow, IsList
    <2>3. next' \in 1..(Len(window') + 1)
      BY <1>1, <2>2
    <2> QED
      BY <1>1, <2>1, <2>3 DEF Progressing
  <1>9. Held' = Held \cup {b}
    BY <1>5 DEF Held
  <1>10. ToSet(chunks') = {} /\ chunks' \in Seq(Buffers)
    BY <1>1 DEF ToSet
  <1>11. DOMAIN mem' = Buffers /\ mem'[b] = Body /\ \A x \in Buffers \ {b} : mem'[x] = mem[x]
    BY <1>2, <1>3 DEF OneOwner
  <1>12. /\ scratch' \in Buffers /\ scratch' \notin pool' \cup other \cup Held'
         /\ cap' \in Nat \ {0}
         /\ pool' \subseteq pool \cup ToSet(chunks)
    <2>1. CASE CopyOut
      <3>1. UNCHANGED <<scratch, cap, pool>>
        BY <2>1 DEF CopyOut
      <3> QED
        BY <1>3, <1>9, <3>1 DEF OneOwner, Used
    <2>2. CASE BuildBytes
      <3>1. scratch' \in Buffers /\ scratch' \notin Used /\ scratch' # b
        BY <1>2, <2>2, FreshIsNew
      <3>2. pool' \subseteq pool \cup ToSet(chunks)
        BY <2>2, PooledType DEF BuildBytes
      <3>3. cap' \in Nat \ {0}
        BY <1>2, <1>6, <2>2
      <3> QED
        BY <1>9, <3>1, <3>2, <3>3 DEF Used, Held
    <2> QED
      BY <2>1, <2>2
  <1>13. \A r, s \in sent' : r.buf = s.buf => r = s
    BY <1>3, <1>5 DEF OneOwner, Used
  <1>14. OneOwner'
    <2>1. ToSet(chunks) \subseteq Buffers
      BY DEF OneOwner, ToSet
    <2>2. b \notin pool \cup other \cup ToSet(chunks)
      BY <1>3 DEF Used
    <2> QED
      BY <1>1, <1>3, <1>9, <1>10, <1>11, <1>12, <1>13, <2>1, <2>2 DEF OneOwner
  <1>15. BodiesIntact' /\ \A r \in sent' : r.n \in DOMAIN window'
    <2>1. \A n : Pieces(n)' = Pieces(n)
      BY <1>1 DEF Pieces, Size
    <2>2. \A r \in sent : r.buf \in Buffers \ {b}
      BY <1>3 DEF OneOwner, Held, Used
    <2> QED
      BY <1>1, <1>5, <1>6, <1>11, <2>1, <2>2 DEF BodiesIntact
  <1>16. Rendering'
    BY <1>1 DEF Rendering
  <1> QED
    BY <1>7, <1>8, <1>14, <1>15, <1>16

\* An error drops the encoder's chunks, and every record with them.
LEMMA FailStep ==
  ASSUME VocabularyInv, MarshalFails
  PROVE  VocabularyInv'
  <1> USE DEF VocabularyInv
  <1>1. /\ UNCHANGED <<raw, cfg, payload, cmd, stage, window, warned, pool, other>>
        /\ busy /\ busy' = FALSE /\ next' = 1 /\ chunks' = <<>> /\ sent' = {}
        /\ scratch' \in Fresh(Used) /\ cap' = ScratchSize /\ DOMAIN mem' = Buffers
    BY DEF MarshalFails, input
  <1>2. Understood'
    BY <1>1 DEF Understood
  <1>3. Progressing'
    <2>1. Len(window) \in Nat
      BY DEF Progressing, IsWindow, IsList
    <2>2. next' \in 1..(Len(window') + 1)
      BY <1>1, <2>1
    <2> QED
      BY <1>1, <2>2 DEF Progressing
  <1>4. OneOwner'
    <2>1. scratch' \in Buffers /\ scratch' \notin Used
      BY <1>1, FreshIsNew
    <2>2. Held' = {} /\ ToSet(chunks') = {} /\ chunks' \in Seq(Buffers)
      BY <1>1 DEF Held, ToSet
    <2>3. cap' \in Nat \ {0}
      BY <1>1, BufferAssumption
    <2> QED
      BY <1>1, <2>1, <2>2, <2>3 DEF OneOwner, Used
  <1>5. Rendering' /\ BodiesIntact' /\ \A r \in sent' : r.n \in DOMAIN window'
    BY <1>1 DEF Rendering, BodiesIntact
  <1> QED
    BY <1>2, <1>3, <1>4, <1>5

\* An acknowledgement lets one record go, and its body with it.
LEMMA AckStep ==
  ASSUME VocabularyInv, NEW r \in sent, Ack(r)
  PROVE  VocabularyInv'
  <1> USE DEF VocabularyInv
  <1>1. /\ UNCHANGED <<raw, cfg, payload, cmd, stage, window, next, busy, warned,
                       scratch, cap, chunks, pool, other>>
        /\ ~busy /\ sent' = sent \ {r} /\ mem' = [mem EXCEPT ![r.buf] = <<>>]
    BY DEF Ack, input, encoder
  <1>2. Understood' /\ Progressing'
    BY <1>1 DEF Understood, Progressing
  <1>3. Held' \subseteq Held
    BY <1>1 DEF Held
  <1>4. DOMAIN mem' = Buffers /\ \A x \in Buffers \ {r.buf} : mem'[x] = mem[x]
    BY <1>1 DEF OneOwner
  <1>5. OneOwner'
    BY <1>1, <1>3, <1>4 DEF OneOwner
  <1>6. BodiesIntact' /\ \A s \in sent' : s.n \in DOMAIN window'
    <2>1. \A n : Pieces(n)' = Pieces(n)
      BY <1>1 DEF Pieces, Size
    <2>2. \A s \in sent' : s \in sent /\ s.buf \in Buffers \ {r.buf}
      BY <1>1 DEF OneOwner, Held
    <2> QED
      BY <1>1, <1>4, <2>1, <2>2 DEF BodiesIntact
  <1>7. Rendering'
    BY <1>1 DEF Rendering
  <1> QED
    BY <1>2, <1>5, <1>6, <1>7

\* The other goroutine writes only to what it took from the pool.
LEMMA OtherStep ==
  ASSUME VocabularyInv, OtherTakes \/ OtherGives
  PROVE  VocabularyInv'
  <1> USE DEF VocabularyInv
  <1>1. UNCHANGED <<raw, cfg, payload, cmd, stage, window, next, busy, warned,
                    scratch, cap, chunks, sent>>
    BY DEF OtherTakes, OtherGives, input, encoder
  <1>2. Understood' /\ Progressing'
    BY <1>1 DEF Understood, Progressing
  <1>3. /\ pool' \subseteq Buffers /\ other' \subseteq Buffers /\ pool' \cap other' = {}
        /\ pool' \cup other' \subseteq pool \cup other
        /\ DOMAIN mem' = Buffers
        /\ \A x \in Buffers \ pool : mem'[x] = mem[x]
    <2>1. CASE OtherTakes
      BY <2>1 DEF OtherTakes, OneOwner
    <2>2. CASE OtherGives
      <3>1. pool' \subseteq pool \cup other
        BY <2>2, PooledType DEF OtherGives
      <3> QED
        BY <2>2, <3>1 DEF OtherGives, OneOwner
    <2> QED
      BY <2>1, <2>2
  <1>4. Held' = Held
    BY <1>1 DEF Held
  <1>5. OneOwner'
    BY <1>1, <1>3, <1>4 DEF OneOwner
  <1>6. \A n : Pieces(n)' = Pieces(n)
    BY <1>1 DEF Pieces, Size
  <1>7. BodiesIntact' /\ \A s \in sent' : s.n \in DOMAIN window'
    <2>1. \A s \in sent : s.buf \in Buffers \ pool
      BY DEF OneOwner, Held
    <2> QED
      BY <1>1, <1>3, <1>6, <2>1 DEF BodiesIntact
  <1>8. Rendering'
    <2>1. ToSet(chunks) \subseteq Buffers
      BY DEF OneOwner, ToSet
    <2>2. \A x \in ToSet(chunks) : mem'[x] = mem[x]
      BY <1>3, <2>1 DEF OneOwner
    <2>3. Body' = Body
      BY <1>1, <2>2, BodyKept
    <2>4. Pieces(next)' = Pieces(next)
      BY <1>1 DEF Pieces, Size
    <2> QED
      BY <1>1, <2>3, <2>4 DEF Rendering
  <1> QED
    BY <1>2, <1>5, <1>7, <1>8

-----------------------------------------------------------------------------
(* The theorems.                                                           *)

\* Every state satisfies the invariant.
THEOREM VocabularyInvariant == Spec => []VocabularyInv
  <1>1. VocabularyInv /\ [Next]_vars => VocabularyInv'
    <2> SUFFICES ASSUME VocabularyInv, [Next]_vars
                 PROVE  VocabularyInv'
      OBVIOUS
    <2>1. CASE LoadConfig \/ Receive \/ Apply
      BY <2>1, InputStep
    <2>2. CASE MarshalBegin
      BY <2>2, RenderStep
    <2>3. CASE CopyOut \/ BuildBytes
      BY <2>3, BuiltStep
    <2>4. CASE MarshalFails
      BY <2>4, FailStep
    <2>5. CASE \E r \in sent : Ack(r)
      BY <2>5, AckStep
    <2>6. CASE OtherTakes \/ OtherGives
      BY <2>6, OtherStep
    <2>7. CASE UNCHANGED vars
      <3>1. UNCHANGED <<raw, cfg, payload, cmd, stage, window, next, busy, warned,
                        scratch, cap, chunks, pool, other, mem, sent>>
        BY <2>7 DEF vars, input, encoder
      <3>2. Understood' /\ Progressing' /\ OneOwner'
        BY <3>1 DEF VocabularyInv, Understood, Progressing, OneOwner, Held
      <3>3. Body' = Body /\ \A n : Pieces(n)' = Pieces(n)
        BY <3>1 DEF Body, Pieces, Size
      <3>4. Pieces(next)' = Pieces(next)
        BY <3>1 DEF Pieces, Size
      <3> QED
        BY <3>1, <3>2, <3>3, <3>4 DEF VocabularyInv, Rendering, BodiesIntact
    <2> QED
      BY <2>1, <2>2, <2>3, <2>4, <2>5, <2>6, <2>7 DEF Next
  <1> QED
    BY <1>1, VocabularyInit, PTL DEF Spec

\* The variables keep their types: at most one configuration and one command
\* are in use, and gaps are reported by kind and number.
THEOREM VocabularyTypeCorrect == Spec => []TypeOK
  <1>1. VocabularyInv => TypeOK
    <2> SUFFICES ASSUME VocabularyInv PROVE TypeOK
      OBVIOUS
    <2> USE DEF VocabularyInv
    <2>1. \A x : Cardinality({}) <= 1 /\ Cardinality({x}) <= 1
      <3>1. Cardinality({}) = 0 /\ \A x : Cardinality({x}) = 1
        BY FS_EmptySet, FS_Singleton, Zenon
      <3> QED BY <3>1
    <2>2. Cardinality(cfg) <= 1
      <3>1. cfg = {} \/ \E c : cfg = {c}
        BY LoadedIsValid DEF Understood
      <3> QED BY <2>1, <3>1
    <2>3. Cardinality(cmd) <= 1
      <3>1. cmd = {} \/ \E k : cmd = {k}
        <4>1. CASE cmd # {}
          <5>1. PICK c \in cfg, p \in payload : cmd = Decode(c, p)
            BY <4>1 DEF Understood
          <5>2. IsConfig(raw) /\ c \in Load(raw) /\ IsPayload(p)
            BY <5>1, InputAssumption DEF Understood
          <5>3. PICK k : k \in Decode(c, p)
            BY <4>1, <5>1
          <5>4. Decode(c, p) = {k}
            BY <5>2, <5>3, DecodedCommand
          <5> QED BY <5>1, <5>4
        <4> QED BY <4>1
      <3> QED BY <2>1, <3>1
    <2>4. \A r \in sent : r.n \in DOMAIN window /\ r.buf \in Buffers \ {scratch}
      BY DEF OneOwner, Held
    <2>5. other \subseteq Buffers \ pool
      BY DEF OneOwner
    <2> QED
      BY <2>2, <2>3, <2>4, <2>5 DEF TypeOK, Progressing, OneOwner
  <1> QED
    BY <1>1, VocabularyInvariant, PTL

\* A configuration file is never refused over max_in_flight_per_partition
\* when it left that out, whatever else is in the file (config.Load clamps
\* the default to what the batcher can hold).
THEOREM OmissionIsSafe == Spec => []OldConfigLoads
  <1>1. VocabularyInv => OldConfigLoads
    <2> SUFFICES ASSUME VocabularyInv, stage = "refused", raw.maxInFlight = 0,
                        NEW n \in 1..(raw.maxQueue + raw.maxBatch)
                 PROVE  Load([raw EXCEPT !.maxInFlight = n]) = {}
      BY DEF OldConfigLoads
    <2>1. IsConfig(raw) /\ Load(raw) = {}
      BY InputAssumption DEF VocabularyInv, Understood
    <2> QED
      BY <2>1, OmissionLoads
  <1> QED
    BY <1>1, VocabularyInvariant, PTL

\* Whatever the payload, what the decoder makes of it is a command the
\* batcher accepts: not empty, within max_batch_size, and with no chain left
\* open at its end.
THEOREM DecodedFits == Spec => []CommandFits
  <1>1. VocabularyInv => CommandFits
    <2> SUFFICES ASSUME VocabularyInv, NEW c \in cfg, NEW k \in cmd
                 PROVE  /\ Len(k.events) \in 1..c.maxBatch
                        /\ LinkedBit \notin k.events[Len(k.events)].flags
      BY DEF CommandFits
    <2>1. PICK d \in cfg, p \in payload : cmd = Decode(d, p)
      BY DEF VocabularyInv, Understood
    <2>2. IsConfig(raw) /\ c \in Load(raw) /\ d \in Load(raw) /\ IsPayload(p)
      BY <2>1, InputAssumption DEF VocabularyInv, Understood
    <2>3. c = d /\ Valid(c)
      BY <2>2, LoadedIsValid
    <2>4. /\ Len(k.events) \in 1..c.maxEvents
          /\ LinkedBit \notin k.events[Len(k.events)].flags
      BY <2>1, <2>2, <2>3, DecodedCommand
    <2>5. /\ c.maxEvents \in 1..TBMaxBatch /\ c.maxBatch \in 1..TBMaxBatch
          /\ c.maxEvents <= c.maxBatch
      BY <2>3 DEF Valid, LimitsValid
    <2>6. Len(k.events) \in 1..c.maxBatch
      BY <2>4, <2>5, LimitAssumption
    <2> QED
      BY <2>4, <2>6
  <1> QED
    BY <1>1, VocabularyInvariant, PTL

\* Whatever the text of an amount and the scale of its ledger, ParseAmount
\* gives the value the text denotes or refuses it: neither path of it wraps,
\* and the choice between them is not to be seen.
THEOREM AmountsAreExact == Spec => []AmountExact
  <1>1. VocabularyInv => AmountExact
    <2> SUFFICES ASSUME VocabularyInv, NEW c \in cfg, NEW p \in payload, NEW o \in Objects(p),
                        {"ledger", "amount"} \subseteq DOMAIN o, Ledger(c, o.ledger).ok
                 PROVE  LET scale == Ledger(c, o.ledger).v.scale
                        IN ParseAmount(o.amount, scale) = Denotes(o.amount, scale)
      BY DEF AmountExact
    <2> DEFINE scale == Ledger(c, o.ledger).v.scale
    <2>1. IsPayload(p) /\ c \in Load(raw)
      BY InputAssumption DEF VocabularyInv, Understood
    <2>2. o.amount \in Seq(Nat)
      <3>1. PICK i \in DOMAIN p.fields : p.fields[i].key = "transfers" /\ o \in ToSet(p.fields[i].val)
        BY DEF Objects
      <3>2. o.amount \in Seq(Char)
        BY <2>1, <3>1 DEF IsPayload
      <3> QED
        BY <3>2, TextIsNumbers
    <2>3. scale \in 0..MaxScale
      <3>1. LedgersValid(c) /\ o.ledger \in DOMAIN c.ledgers /\ scale = c.ledgers[o.ledger].scale
        BY <2>1, LoadedIsValid DEF Valid, Ledger, Ok, Error
      <3>2. scale \in 0..TopScale
        BY <3>1 DEF LedgersValid
      <3> QED
        BY <3>2, ScaleAssumption, LimitAssumption, WidthAssumption
    <2> HIDE DEF scale
    <2>4. ParseAmount(o.amount, scale) = Denotes(o.amount, scale)
      BY <2>2, <2>3, ParseExact
    <2> QED
      BY <2>4 DEF scale
  <1> QED
    BY <1>1, VocabularyInvariant, PTL

\* Payloads are JSON, and "nesting" is how deep they nest.
TextsAreJSON ==
    \A p \in Samples \cup Payloads : IsText([text |-> p.text, nesting |-> p.nesting])

\* Of the payloads that are JSON the depth scanner refuses exactly those that
\* nest deeper than max_depth: brackets inside strings do not count, however
\* long the text and however its quotes are escaped.
THEOREM DepthsAreExact == ASSUME TextsAreJSON PROVE Spec => []DepthExact
  <1>1. VocabularyInv => DepthExact
    <2> SUFFICES ASSUME VocabularyInv, NEW c \in cfg, NEW p \in payload
                 PROVE  checkDepth(p.text, c.maxDepth) <=> p.nesting <= c.maxDepth
      BY DEF DepthExact
    <2>1. p \in Samples \cup Payloads
      BY DEF VocabularyInv, Understood
    <2> DEFINE text == p.text
               nesting == p.nesting
               max == c.maxDepth
    <2>2. IsText([text |-> text, nesting |-> nesting])
      BY <2>1 DEF TextsAreJSON
    <2> HIDE DEF text, nesting, max
    <2>3. checkDepth(text, max) <=> nesting <= max
      BY <2>2, DepthMeasured
    <2> QED
      BY <2>3 DEF text, nesting, max
  <1> QED
    BY <1>1, VocabularyInvariant, PTL

\* No ledger and no code has a number for a name.
NamesAreNotNumbers ==
    \A f \in Configs \cup {Usual}, n \in Nat :
       ToString(n) \notin DOMAIN f.ledgers /\ ToString(n) \notin DOMAIN f.codes

\* The change events speak the language the commands are written in, where
\* no name of the configuration can be taken for a number: a record read as
\* a command is accepted if and only if the registry names its ledger and its
\* code and the decoder takes its flags, and then it repeats the transfer it
\* is about, to the last digit of its amount.
THEOREM VocabularyIsShared == ASSUME NamesAreNotNumbers PROVE Spec => []OneVocabulary
  <1>1. VocabularyInv => OneVocabulary
    <2> SUFFICES ASSUME VocabularyInv, busy, NEW c \in cfg
                 PROVE  LET t == transfer(c, AsTransfer(Message(c, window[next])))
                        IN /\ t.ok <=> Speakable(c, window[next])
                           /\ t.ok => t.v = Original(window[next])
      BY DEF OneVocabulary
    <2> DEFINE ev == window[next]
    <2>1. raw \in Configs \cup {Usual} /\ c \in Load(raw)
      BY DEF VocabularyInv, Understood
    <2>2. IsConfig(raw)
      BY <2>1, InputAssumption
    <2>3. IsWindow(window) /\ next \in DOMAIN window
      BY DEF VocabularyInv, Understood, Progressing, Rendering
    <2>4. IsEvent(ev)
      BY <2>3 DEF IsWindow
    <2>5. ev.ledger \in Nat /\ ev.code \in Nat
      BY <2>4 DEF IsEvent
    <2>6. c.ledgers = raw.ledgers /\ c.codes = raw.codes
      BY <2>1, <2>2, DefaultsKeepNames
    <2>7. ToString(ev.ledger) \notin DOMAIN c.ledgers /\ ToString(ev.code) \notin DOMAIN c.codes
      BY <2>1, <2>5, <2>6 DEF NamesAreNotNumbers
    <2> HIDE DEF ev
    <2>8. LET t == transfer(c, AsTransfer(Message(c, ev)))
          IN (t.ok <=> Speakable(c, ev)) /\ (t.ok => t.v = Original(ev))
      BY <2>1, <2>2, <2>4, <2>7, TransferSpoken
    <2> QED
      BY <2>8 DEF ev
  <1> QED
    BY <1>1, VocabularyInvariant, PTL

\* A record waiting for the broker holds its own event's rendering: marshal
\* hands out copies, drops the scratch chunk when the pool has got it, and
\* the pool lends a chunk to one goroutine at a time.
THEOREM BodiesNeverOverwritten == Spec => []BodiesIntact
  <1>1. VocabularyInv => BodiesIntact
    BY DEF VocabularyInv
  <1> QED
    BY <1>1, VocabularyInvariant, PTL
=============================================================================
