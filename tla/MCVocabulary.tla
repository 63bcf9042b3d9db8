---------------------------- MODULE MCVocabulary ----------------------------
(* The inputs TLC explores Vocabulary with.                                *)
EXTENDS Vocabulary

-----------------------------------------------------------------------------
(* Configurations.                                                         *)

GoodLedgers == "yen" :> [id |-> 1, scale |-> 0] @@ "usd" :> [id |-> 2, scale |-> 2]
                 @@ "dime" :> [id |-> 3, scale |-> 1]

Good == [unknownKey |-> FALSE, setting |-> [s \in Setting |-> "good"],
         maxBatch |-> 3, maxQueue |-> 1, maxInFlight |-> 2, cdcBatch |-> 2,
         partitionKey |-> "ledger", maxEvents |-> 2, maxBytes |-> 2, maxDepth |-> 2,
         ledgers |-> GoodLedgers, codes |-> "sale" :> 1 @@ "refund" :> 2]

Sized == {[Good EXCEPT !.maxBatch = b, !.maxQueue = q, !.maxInFlight = f, !.maxEvents = e] :
            b \in 0..(TBMaxBatch + 1), q \in 0..2, f \in {0, 1, 4, 9}, e \in 0..4}

Odd ==
    {[Good EXCEPT !.setting[s] = v] : s \in Setting, v \in {"absent", "bad"}}
    \cup {[Good EXCEPT !.partitionKey = k] : k \in PartitionKeys \cup {"absent", "other"}}
    \cup {[Good EXCEPT !.cdcBatch = n] : n \in -1..(TBMaxEvents + 1)}
    \cup {[Good EXCEPT !.ledgers = l] :
            l \in {<<>>, "yen" :> [id |-> 0, scale |-> 0], "usd" :> [id |-> 2, scale |-> 3],
                   "yen" :> [id |-> 2, scale |-> 0] @@ "usd" :> [id |-> 2, scale |-> 2]}}
    \cup {[Good EXCEPT !.codes = l] :
            l \in {<<>>, "sale" :> 0, "sale" :> 1 @@ "refund" :> 1}}
    \cup {[Good EXCEPT !.unknownKey = TRUE], [Good EXCEPT !.maxDepth = 0],
          [Good EXCEPT !.maxBytes = 0]}

-----------------------------------------------------------------------------
(* Payloads.                                                               *)

Plain == [id |-> FormatID(7), debit |-> FormatID(1), credit |-> FormatID(2),
          ledger |-> "usd", code |-> "sale", amount |-> <<1, Dot, 5>>, flags |-> <<"linked">>]

Payload(fields) == [bytes |-> 1, text |-> <<"open", "close">>, nesting |-> 1, fields |-> fields]
Transfers(list) == <<[key |-> "operation", val |-> "create_transfers"],
                     [key |-> "transfers", val |-> list]>>
Accounts(list) == <<[key |-> "operation", val |-> "create_accounts"],
                    [key |-> "accounts", val |-> list]>>

\* A number written with a dot before each of its digits or nowhere, and a
\* zero in front of it; values around every limit of both widths.
Numbers == 0..(3 * MaxSmall) \cup (10 * MaxSmall - 20)..(10 * MaxSmall + 30)
             \cup (MaxBig - 5)..(MaxBig + 5) \cup (10 * MaxBig - 5)..(10 * MaxBig + 15)
WithDots(s) == {s, <<0>> \o s} \cup {SubSeq(s, 1, i) \o <<Dot>> \o SubSeq(s, i + 1, Len(s)) :
                                       i \in 0..Len(s)}
AmountTexts == UNION {WithDots(Decimal(n)) : n \in Numbers}
                 \cup UNION {[1..n -> {0, 1, Dot, Junk}] : n \in 0..3}

AmountPayloads ==
    {Payload(Transfers(<<[Plain EXCEPT !.amount = a, !.ledger = l]>>)) :
       a \in AmountTexts, l \in DOMAIN GoodLedgers}

IdTexts == {NoText, FormatID(0), FormatID(3), [form |-> "junk", id |-> 0]}
Timeouts == {[form |-> "duration", halves |-> h] : h \in {-2, 0, 1, 2, 5, 2 * MaxTimeout + 1,
                                                         2 * MaxTimeout + 2}}
              \cup {[form |-> "junk", halves |-> 0]}
FlagLists == {<<>>, <<"pending">>, <<"post_pending_transfer">>, <<"void_pending_transfer">>,
              <<"closing_credit", "balancing_debit">>, <<"imported">>, <<"bit_9">>}

TransferObjects ==
    {[Plain EXCEPT !.flags = f] @@ [pending |-> p] : f \in FlagLists, p \in IdTexts}
    \cup {[Plain EXCEPT !.flags = f, !.debit = d] @@ [pending |-> FormatID(4)] :
            f \in FlagLists, d \in IdTexts}
    \cup {[Plain EXCEPT !.id = d] : d \in IdTexts} \cup {[Plain EXCEPT !.credit = d] : d \in IdTexts}
    \cup {Plain @@ [timeout |-> t] : t \in Timeouts} \cup {Plain @@ [user |-> t] : t \in IdTexts}
    \cup {[Plain EXCEPT !.ledger = "chf"], [Plain EXCEPT !.code = "gift"],
          Plain @@ [amout |-> <<1>>], [id |-> FormatID(7)], <<>>}

AccountObjects ==
    {[id |-> i, ledger |-> l, code |-> "sale", flags |-> f, user |-> u] :
       i \in IdTexts, l \in {"usd", "chf"}, u \in IdTexts,
       f \in {<<>>, <<"linked", "history">>, <<"imported">>}}
    \cup {[id |-> FormatID(1), ledger |-> "usd", code |-> "gift"], [nick |-> "x"]}

OneTransfer == Transfers(<<Plain>>)
Lists == {Transfers([i \in 1..n |-> [Plain EXCEPT !.id = FormatID(i)]]) : n \in 0..4}
           \cup {Accounts([i \in 1..n |-> [id |-> FormatID(i), ledger |-> "usd", code |-> "sale",
                                           flags |-> <<"linked">>]]) : n \in 0..4}

\* Repeated and unknown keys, a null operation, both lists.
Shapes ==
    {OneTransfer \o <<f>> :
       f \in {[key |-> "operation", val |-> Null], [key |-> "operation", val |-> "drop"],
              [key |-> "transfers", val |-> <<>>], [key |-> "transfers", val |-> <<Plain, Plain>>],
              [key |-> "accounts", val |-> <<>>], [key |-> "accounts", val |-> <<<<>>>>],
              [key |-> "operation", val |-> "create_accounts"], [key |-> "typo", val |-> ""]}}
    \cup {<<>>}

\* Texts with their nesting: strings of brackets and escapes, in lists.
Strings ==
    {Quoted(FlattenSeq(s)) :
       s \in UNION {[1..n -> {<<"open">>, <<"close">>, <<"other">>, <<"backslash", "quote">>,
                              <<"backslash", "backslash">>}] : n \in 0..2}}
Other == [text |-> <<"other">>, nesting |-> 0]
Leaves == Strings \cup {Other}
Pair(v, u) == Joined(v, Joined(Other, u))
Flat == {Bracket(Pair(v, u)) : v, u \in Leaves} \cup {Bracket([text |-> <<>>, nesting |-> 0])}
Nested == {Bracket(v) : v \in Flat} \cup {Bracket(Bracket(v)) : v \in Flat}
            \cup {Bracket(Pair(Bracket(v), Bracket(Bracket(u)))) : v, u \in Leaves}
DepthPayloads == {[bytes |-> 1, text |-> t.text, nesting |-> t.nesting, fields |-> <<>>] :
                    t \in Leaves \cup Flat \cup Nested}

-----------------------------------------------------------------------------
(* Change events of other clients.                                         *)

Party(n, k) == [id |-> n, balances |-> <<0, 5, MaxSmall, MaxBig>>, user |-> n - 1, code |-> k,
                flags |-> {1, 9}]
Event(l, k, a, f) ==
    [type |-> 0, id |-> 5, ledger |-> l, code |-> k, amount |-> a, flags |-> f, pending |-> 0,
     user |-> 6, timeout |-> 0, debit |-> Party(1, k), credit |-> Party(2, 9)]

Foreign ==
    {Event(l, k, a, f) : l \in 1..4, k \in {1, 9}, a \in {0, 5, 10, MaxSmall, MaxSmall + 1, MaxBig},
                         f \in {{}, {0}, {4, 7}, {8}, {9}}}
    \cup {[Event(2, 1, 5, {1}) EXCEPT !.timeout = t, !.type = n] :
            t \in {0, 1, MaxTimeout}, n \in {1, 4, 5}}
    \cup {[Event(2, 1, 5, {f}) EXCEPT !.pending = 3] : f \in {2, 3}}

\* Windows of small and large messages; the scratch holds two pieces.
Empty(ev) == [ev EXCEPT !.debit.balances = <<0, 0, 0, 0>>,
                          !.credit.balances = <<0, 0, 0, 0>>]
Small == Empty(Event(1, 1, 1, {}))
Large == Empty(Event(1, 1, 2, {4, 5, 6}))
Sizes == [1..3 -> {Small, Large}] \cup {<<Large, Small, Small, Large>>}

-----------------------------------------------------------------------------
AllConfigs == Sized \cup Odd
FewPayloads == {Payload(f) : f \in Lists}
AllPayloads ==
    {Payload(f) : f \in Shapes}
    \cup {Payload(Transfers(<<o>>)) : o \in TransferObjects}
    \cup {Payload(Accounts(<<o>>)) : o \in AccountObjects}
    \cup {[Payload(OneTransfer) EXCEPT !.bytes = 3]}
    \cup AmountPayloads \cup DepthPayloads
AllWindows == Sizes \cup {<<e>> : e \in Foreign}
=============================================================================
