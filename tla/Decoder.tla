------------------------------ MODULE Decoder ------------------------------
(***************************************************************************)
(* From a payload to a command (internal/codec/jsonc).  A payload has a    *)
(* length, a text as the depth scanner reads it, and the fields of its     *)
(* top-level object in order; an object is a function from the keys it     *)
(* has to their values.  The two numeric user data fields are carried      *)
(* through unchanged and left out.                                         *)
(***************************************************************************)
EXTENDS Registry

CONSTANT MaxTimeout     \* the largest timeout in seconds, 2^32-1 in the code

ASSUME TimeoutAssumption == MaxTimeout \in Nat

-----------------------------------------------------------------------------
(* The scanner before the parser.  It tells five classes of bytes apart.   *)

Byte == {"open", "close", "quote", "backslash", "other"}

Opened(s) ==
    [depth |-> s.depth + 1, seen |-> IF s.depth + 1 > s.seen THEN s.depth + 1 ELSE s.seen,
     inStr |-> s.inStr, esc |-> s.esc]
Closed(s) == [s EXCEPT !.depth = @ - 1]

\* Mutant of scanByte: a backslash means nothing to the scanner.
scanByteNoEscapes(s, b) ==
    CASE b = "quote" -> [s EXCEPT !.inStr = ~@]
      [] b = "open" /\ ~s.inStr -> Opened(s)
      [] b = "close" /\ ~s.inStr -> Closed(s)
      [] OTHER -> s

\* Only brackets outside strings count.
scanByte(s, b) ==
    CASE s.esc -> [s EXCEPT !.esc = FALSE]
      [] ~s.esc /\ s.inStr /\ b = "backslash" -> [s EXCEPT !.esc = TRUE]
      [] ~s.esc /\ b = "quote" -> [s EXCEPT !.inStr = ~@]
      [] ~s.esc /\ ~s.inStr /\ b = "open" -> Opened(s)
      [] ~s.esc /\ ~s.inStr /\ b = "close" -> Closed(s)
      [] OTHER -> s

checkDepth(text, max) ==
    LET v[k \in 0..Len(text)] ==
          IF k = 0 THEN [depth |-> 0, seen |-> 0, inStr |-> FALSE, esc |-> FALSE]
          ELSE scanByte(v[k - 1], text[k])
    IN v[Len(text)].seen <= max

\* How JSON texts are made, and how deep they nest: the reference.
Quoted(body) == [text |-> <<"quote">> \o body \o <<"quote">>, nesting |-> 0]
Bracket(v) == [text |-> <<"open">> \o v.text \o <<"close">>, nesting |-> v.nesting + 1]
Joined(v, u) == [text |-> v.text \o u.text,
                 nesting |-> IF v.nesting > u.nesting THEN v.nesting ELSE u.nesting]

-----------------------------------------------------------------------------
(* The generated parser.                                                   *)

NoTimeout == [form |-> "empty", halves |-> 0]
ZeroAccount == [id |-> NoText, ledger |-> "", code |-> "", flags |-> <<>>, user |-> NoText]
ZeroTransfer ==
    [id |-> NoText, ledger |-> "", code |-> "", flags |-> <<>>, user |-> NoText,
     debit |-> NoText, credit |-> NoText, pending |-> NoText,
     amount |-> <<>>, timeout |-> NoTimeout]

IsList(s) == Len(s) \in Nat /\ DOMAIN s = 1..Len(s)

\* JSON as the parser meets it.
IsPayload(p) ==
    /\ IsList(p.fields)
    /\ \A i \in DOMAIN p.fields :
          /\ p.fields[i].key \in {"transfers", "accounts"} => IsList(p.fields[i].val)
          /\ p.fields[i].key = "transfers" =>
                \A o \in ToSet(p.fields[i].val) : "amount" \in DOMAIN o => o.amount \in Seq(Char)

\* A missing key leaves Go's zero value, an unknown one is an error.
Fill(o, zero) ==
    IF DOMAIN o \subseteq DOMAIN zero
    THEN Ok([k \in DOMAIN zero |-> IF k \in DOMAIN o THEN o[k] ELSE zero[k]])
    ELSE Error

ReadTransfer(o) == Fill(o, ZeroTransfer)
ReadAccount(o) == Fill(o, ZeroAccount)

\* A list of objects, one after the other.  A null among them reads as the
\* empty object does, and a null list as the empty list.
ReadAll(objects, Read(_)) ==
    LET r == [i \in DOMAIN objects |-> Read(objects[i])]
    IN IF \A i \in DOMAIN r : r[i].ok THEN Ok([i \in DOMAIN r |-> r[i].v]) ELSE Error

Null == "null"

Parsed(f) ==
    CASE f.key = "operation" -> Ok(f.val)
      [] f.key = "transfers" -> ReadAll(f.val, ReadTransfer)
      [] f.key = "accounts" -> ReadAll(f.val, ReadAccount)
      [] OTHER -> Error

\* A repeated key replaces what it set before, and a null operation is
\* passed over.
LastSet(fields, key, default) ==
    LET at == {i \in DOMAIN fields : /\ fields[i].key = key
                                     /\ key = "operation" => fields[i].val # Null}
    IN IF at = {} THEN default ELSE Parsed(fields[Max(at)]).v

\* The top-level object: every field is read or is the reason to refuse.
Unmarshal(fields) ==
    [operation |-> LastSet(fields, "operation", ""),
     transfers |-> LastSet(fields, "transfers", <<>>),
     accounts |-> LastSet(fields, "accounts", <<>>),
     ok |-> \A i \in DOMAIN fields : Parsed(fields[i]).ok]

-----------------------------------------------------------------------------
(* From objects to events.  Every part is read or is the reason to refuse. *)

Whole(parts) ==
    IF \A k \in DOMAIN parts : parts[k].ok THEN Ok([k \in DOMAIN parts |-> parts[k].v])
    ELSE Error

Optional(t) == IF t = NoText THEN Ok(0) ELSE ParseID(t)

\* Durations come in half seconds here; the division truncates.
parseTimeoutSeconds(t) ==
    IF t.form # "duration" \/ t.halves <= 0 \/ t.halves \div 2 \notin 1..MaxTimeout THEN Error
    ELSE Ok(t.halves \div 2)

\* post_pending_transfer and void_pending_transfer need the pending id and may
\* leave the accounts out; every other transfer the other way round.
transfer(c, jt) ==
    LET flags == FlagBits(jt.flags, transferFlagNames)
        postOrVoid == flags.ok /\ flags.v \cap {2, 3} # {}
        ledger == Ledger(c, jt.ledger)
    IN Whole([id |-> ParseID(jt.id), flags |-> flags,
              pending |-> IF postOrVoid THEN ParseID(jt.pending)
                          ELSE IF jt.pending = NoText THEN Ok(0) ELSE Error,
              debit |-> IF postOrVoid THEN Optional(jt.debit) ELSE ParseID(jt.debit),
              credit |-> IF postOrVoid THEN Optional(jt.credit) ELSE ParseID(jt.credit),
              ledger |-> IF ledger.ok THEN Ok(ledger.v.id) ELSE Error,
              code |-> Code(c, jt.code),
              amount |-> IF ledger.ok THEN ParseAmount(jt.amount, ledger.v.scale) ELSE Error,
              user |-> Optional(jt.user),
              timeout |-> IF jt.timeout = NoTimeout THEN Ok(0)
                          ELSE parseTimeoutSeconds(jt.timeout)])

account(c, ja) ==
    LET ledger == Ledger(c, ja.ledger)
    IN Whole([id |-> ParseID(ja.id), flags |-> FlagBits(ja.flags, accountFlagNames),
              ledger |-> IF ledger.ok THEN Ok(ledger.v.id) ELSE Error,
              code |-> Code(c, ja.code), user |-> Optional(ja.user)])

\* Mutant of clearLinked: a chain may stay open.
keepLinked(events) == events

\* A chain cannot be left open at a batch boundary.
clearLinked(events) == [events EXCEPT ![Len(events)].flags = @ \ {LinkedBit}]

\* decodeTransfers and decodeAccounts.
DecodeEvents(c, op, in, One(_)) ==
    LET r == ReadAll(in, One)
    IN IF in = <<>> \/ Len(in) > c.maxEvents \/ ~r.ok THEN {}
       ELSE {[op |-> op, events |-> clearLinked(r.v)]}

Admitted(c, p) == p.bytes <= c.maxBytes /\ checkDepth(p.text, c.maxDepth)

\* The command of a payload: none if it is poison.
Decode(c, p) ==
    LET m == Unmarshal(p.fields) IN
    IF ~Admitted(c, p) \/ ~m.ok THEN {}
    ELSE IF m.operation = "create_transfers" /\ m.accounts = <<>>
    THEN DecodeEvents(c, m.operation, m.transfers, LAMBDA jt : transfer(c, jt))
    ELSE IF m.operation = "create_accounts" /\ m.transfers = <<>>
    THEN DecodeEvents(c, m.operation, m.accounts, LAMBDA ja : account(c, ja))
    ELSE {}
=============================================================================
