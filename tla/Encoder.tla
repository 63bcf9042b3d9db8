------------------------------ MODULE Encoder ------------------------------
(***************************************************************************)
(* From a change event to a record (internal/cdc/message.go, all but the   *)
(* serialization itself, which module Vocabulary has).  A name the         *)
(* registry lacks is written as a number, and its gap reported once.  The  *)
(* headers repeat fields of the message and are left out.                  *)
(***************************************************************************)
EXTENDS Decoder

eventTypeNames == <<"single_phase", "two_phase_pending", "two_phase_posted",
                    "two_phase_voided", "two_phase_expired">>

\* Change events as TigerBeetle hands them out: ids are not 0, and a transfer
\* names a pending one if it posts or voids it, and only then.
IsEvent(ev) ==
    /\ ev.flags \subseteq Bits
    /\ {ev.ledger, ev.code, ev.debit.code, ev.credit.code, ev.type} \subseteq Nat
    /\ 0 \notin {ev.id, ev.debit.id, ev.credit.id}
    /\ ev.amount \in 0..MaxBig /\ ev.timeout \in 0..MaxTimeout
    /\ ev.flags \cap {2, 3} # {} <=> ev.pending # 0

IsWindow(w) == IsList(w) /\ \A i \in DOMAIN w : IsEvent(w[i])

\* The ledger's name and the scale of its amounts.
ledger(c, id) ==
    LET name == LedgerName(c, id)
    IN IF name.ok THEN [name |-> name.v, scale |-> c.ledgers[name.v].scale]
       ELSE [name |-> ToString(id), scale |-> 0]

code(c, v) == IF CodeName(c, v).ok THEN CodeName(c, v).v ELSE ToString(v)

eventType(n) == IF n + 1 \in DOMAIN eventTypeNames THEN eventTypeNames[n + 1] ELSE ToString(n)

optionalID(u) == IF u = 0 THEN NoText ELSE FormatID(u)
timeout(secs) == IF secs = 0 THEN NoTimeout ELSE [form |-> "duration", halves |-> 2 * secs]

Snapshot(c, a, scale) ==
    [id |-> FormatID(a.id), balances |-> [b \in DOMAIN a.balances |->
                                            FormatAmount(a.balances[b], scale)],
     user |-> optionalID(a.user), code |-> code(c, a.code),
     flags |-> flagNames(a.flags, accountFlagNames)]

Message(c, ev) ==
    LET l == ledger(c, ev.ledger) IN
    [type |-> eventType(ev.type), ledger |-> l.name,
     transfer |-> [id |-> FormatID(ev.id), amount |-> FormatAmount(ev.amount, l.scale),
                   pending |-> optionalID(ev.pending), user |-> optionalID(ev.user),
                   timeout |-> timeout(ev.timeout), code |-> code(c, ev.code),
                   flags |-> flagNames(ev.flags, transferFlagNames)],
     debit |-> Snapshot(c, ev.debit, l.scale), credit |-> Snapshot(c, ev.credit, l.scale)]

\* The gaps of an event: what ledger, code and eventType have no name for.
Gaps(c, ev) ==
    {<<"ledger", id>> : id \in {i \in {ev.ledger} : ~LedgerName(c, i).ok}}
      \cup {<<"code", v>> : v \in {v \in {ev.code, ev.debit.code, ev.credit.code} :
                                     ~CodeName(c, v).ok}}
      \cup {<<"event_type", n>> : n \in {n \in {ev.type} : n + 1 \notin DOMAIN eventTypeNames}}

\* The record key decides which events a consumer sees in order.
key(c, msg) ==
    CASE c.partitionKey = "credit_account_id" -> msg.credit.id
      [] c.partitionKey = "ledger" -> [form |-> "ledger", id |-> msg.ledger]
      [] c.partitionKey = "transfer_id" -> msg.transfer.id
      [] OTHER -> msg.debit.id

-----------------------------------------------------------------------------
\* The message read as the command that would repeat it.
AsTransfer(msg) ==
    [id |-> msg.transfer.id, debit |-> msg.debit.id, credit |-> msg.credit.id,
     pending |-> msg.transfer.pending, amount |-> msg.transfer.amount,
     ledger |-> msg.ledger, code |-> msg.transfer.code, flags |-> msg.transfer.flags,
     user |-> msg.transfer.user, timeout |-> msg.transfer.timeout]

\* The transfer of an event, as decoded from such a command.
Original(ev) ==
    [id |-> ev.id, debit |-> ev.debit.id, credit |-> ev.credit.id, pending |-> ev.pending,
     amount |-> ev.amount, ledger |-> ev.ledger, code |-> ev.code, flags |-> ev.flags,
     user |-> ev.user, timeout |-> ev.timeout]
=============================================================================
