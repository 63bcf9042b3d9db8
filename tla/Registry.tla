------------------------------ MODULE Registry ------------------------------
(***************************************************************************)
(* The names both directions share (internal/model/registry.go, id.go):    *)
(* ledgers and codes from the configuration, flags from fixed tables, ids  *)
(* as UUIDs.  Flags are sets of bits.                                      *)
(***************************************************************************)
EXTENDS Amounts, Config, TLC

\* A ledger's scale is an index into the tables of powers.
ASSUME ScaleAssumption == TopScale <= MaxScale

Ledger(c, name) == IF name \in DOMAIN c.ledgers THEN Ok(c.ledgers[name]) ELSE Error
Code(c, name) == IF name \in DOMAIN c.codes THEN Ok(c.codes[name]) ELSE Error

\* The reverse maps.  If names shared an id, the last one the loop over the
\* map met would stay, and Go's maps have no order.
LedgerName(c, id) ==
    LET names == {n \in DOMAIN c.ledgers : c.ledgers[n].id = id}
    IN IF names = {} THEN Error ELSE Ok(CHOOSE n \in names : TRUE)

CodeName(c, v) ==
    LET names == {n \in DOMAIN c.codes : c.codes[n] = v}
    IN IF names = {} THEN Error ELSE Ok(CHOOSE n \in names : TRUE)

-----------------------------------------------------------------------------
(* Flags.  The tables start at bit 0.                                      *)

LinkedBit == 0
Bits == 0..15

transferFlagNames ==
    <<"linked", "pending", "post_pending_transfer", "void_pending_transfer",
      "balancing_debit", "balancing_credit", "closing_debit", "closing_credit", "imported">>

accountFlagNames ==
    <<"linked", "debits_must_not_exceed_credits", "credits_must_not_exceed_debits",
      "history", "imported", "closed">>

bitNames ==
    <<"bit_0", "bit_1", "bit_2", "bit_3", "bit_4", "bit_5", "bit_6", "bit_7", "bit_8",
      "bit_9", "bit_10", "bit_11", "bit_12", "bit_13", "bit_14", "bit_15">>

\* Mutant of nameBit: a bit without a name vanishes.
nameBitKnown(out, bit, table) == IF bit < Len(table) THEN Append(out, table[bit + 1]) ELSE out

\* A bit this build has no name for is still written down.
nameBit(out, bit, table) ==
    Append(out, IF bit < Len(table) THEN table[bit + 1] ELSE bitNames[bit + 1])

\* In bit order.
flagNames(flags, table) ==
    LET out[n \in 0..16] ==
          IF n = 0 THEN <<>>
          ELSE IF n - 1 \in flags THEN nameBit(out[n - 1], n - 1, table) ELSE out[n - 1]
    IN out[16]

\* TransferFlags and AccountFlags: "imported" has a name and is refused.
FlagBits(names, table) ==
    IF \A i \in DOMAIN names : names[i] \in ToSet(table) \ {"imported"}
    THEN Ok({b \in Bits : b < Len(table) /\ table[b + 1] \in ToSet(names)})
    ELSE Error

-----------------------------------------------------------------------------
(* Ids: the text is empty, a UUID or neither, and 0 is the nil UUID.       *)

NoText == [form |-> "empty", id |-> 0]
FormatID(u) == [form |-> "uuid", id |-> u]
ParseID(t) == IF t.form = "uuid" /\ t.id # 0 THEN Ok(t.id) ELSE Error
=============================================================================
