------------------------------ MODULE Amounts ------------------------------
(***************************************************************************)
(* Amounts as text (internal/model/amount.go).  Each direction has a fast  *)
(* path in machine words and a path in big integers.  The word is MaxSmall *)
(* wide where the code has 2^64-1 and the amount MaxBig where TigerBeetle  *)
(* has 2^128-1; every operation of the fast path wraps as the code's does. *)
(*                                                                         *)
(* A text is a sequence of characters: the digits 0..9, Dot and Junk.      *)
(***************************************************************************)
EXTENDS Integers, Sequences, SequencesExt, FiniteSetsExt

CONSTANTS MaxSmall, MaxBig, MaxScale

\* The tables pow10 and pow10u64, each entry ten times the one before.
pow10[k \in Nat] == IF k = 0 THEN 1 ELSE 10 * pow10[k - 1]

\* The tables of powers are exact in the narrow width, as 10^18 < 2^64 is.
ASSUME WidthAssumption ==
    /\ {MaxSmall, MaxBig, MaxScale} \subseteq Nat
    /\ pow10[MaxScale] <= MaxSmall /\ MaxSmall < MaxBig

Digit == 0..9
Dot == 10
Junk == 11
Char == Digit \cup {Dot, Junk}

\* What a Go function returns beside a nil or a non-nil error.
Ok(x) == [ok |-> TRUE, v |-> x]
Error == [ok |-> FALSE, v |-> 0]

Wrap(n) == n % (MaxSmall + 1)
Zeros(n) == [i \in 1..n |-> 0]

-----------------------------------------------------------------------------
(* Parsing.                                                                *)

\* strings.Cut at the first dot.
DotAt(s) == SelectInSeq(s, LAMBDA c : c = Dot)
IntPart(s) == IF DotAt(s) = 0 THEN s ELSE SubSeq(s, 1, DotAt(s) - 1)
FracPart(s) == IF DotAt(s) = 0 THEN <<>> ELSE SubSeq(s, DotAt(s) + 1, Len(s))

isDigits(s) == s # <<>> /\ \A i \in DOMAIN s : s[i] \in Digit

atoiUint64(s) ==
    LET v[k \in 0..Len(s)] ==
          IF k = 0 THEN Ok(0)
          ELSE LET r == v[k - 1]
               IN IF ~r.ok \/ r.v > (MaxSmall - s[k]) \div 10 THEN Error
                  ELSE Ok(Wrap(r.v * 10 + s[k]))
    IN v[Len(s)]

\* Mutant of parseUint64: the product of the integer part is not guarded.
parseUint64Unguarded(i, f, scale) ==
    LET v == atoiUint64(i)
        g == atoiUint64(f)
        high == Wrap(v.v * pow10[scale])
        low == Wrap(g.v * pow10[scale - Len(f)])
    IN IF ~v.ok \/ ~g.ok \/ high > MaxSmall - low THEN Error ELSE Ok(Wrap(high + low))

\* The fast path: an error means "too large for me".
parseUint64(i, f, scale) ==
    LET v == atoiUint64(i)
        g == atoiUint64(f)
        high == Wrap(v.v * pow10[scale])
        low == Wrap(g.v * pow10[scale - Len(f)])
    IN IF \/ ~v.ok \/ v.v > MaxSmall \div pow10[scale]
          \/ f # <<>> /\ (~g.ok \/ high > MaxSmall - low)
       THEN Error
       ELSE Ok(IF f = <<>> THEN high ELSE Wrap(high + low))

\* The number a string of digits is read as, digit by digit.
SetString(s) ==
    LET v[k \in 0..Len(s)] == IF k = 0 THEN 0 ELSE 10 * v[k - 1] + s[k]
    IN v[Len(s)]

parseAmountBig(i, f, scale) ==
    LET n == SetString(i \o f \o Zeros(scale - Len(f)))
    IN IF n > MaxBig THEN Error ELSE Ok(n)

ParseAmount(s, scale) ==
    LET i == IntPart(s)
        f == FracPart(s)
        hasDot == DotAt(s) # 0
    IN IF \/ scale \notin 0..MaxScale
          \/ ~isDigits(i) \/ (hasDot /\ ~isDigits(f))
          \/ Len(f) > scale
       THEN Error
       ELSE IF parseUint64(i, f, scale).ok THEN parseUint64(i, f, scale)
       ELSE parseAmountBig(i, f, scale)

-----------------------------------------------------------------------------
(* Formatting.                                                             *)

\* A number's digits, without leading zeros.
DigitCount(n) ==
    CHOOSE k \in 1..(n + 1) : n \div pow10[k - 1] \in 1..9 \/ (n = 0 /\ k = 1)
Decimal(n) ==
    LET count == DigitCount(n) IN [i \in 1..count |-> (n \div pow10[count - i]) % 10]

Fraction(r, pad) == <<Dot>> \o Zeros(pad) \o Decimal(r)

\* Mutant of formatUint64: the zeros after the dot are not written.
formatUint64Unpadded(v, scale) ==
    IF scale = 0 THEN Decimal(v)
    ELSE Decimal(v \div pow10[scale]) \o Fraction(v % pow10[scale], 0)

\* The loop that counts the remainder's digits divides until one is left.
formatUint64(v, scale) ==
    LET r == v % pow10[scale]
        digits == 1 + Cardinality({k \in 1..MaxScale : r >= pow10[k]})
    IN IF scale = 0 THEN Decimal(v)
       ELSE Decimal(v \div pow10[scale]) \o Fraction(r, scale - digits)

formatAmountBig(u, scale) ==
    LET r == u % pow10[scale]
    IN IF scale = 0 THEN Decimal(u)
       ELSE Decimal(u \div pow10[scale]) \o Fraction(r, scale - Len(Decimal(r)))

FormatAmount(u, scale) ==
    IF u <= MaxSmall THEN formatUint64(u, scale) ELSE formatAmountBig(u, scale)

-----------------------------------------------------------------------------
(* What a text means, by the place of each digit: the reference.           *)

\* The digits before the first dot, and those after it.
Decimals(s) == IF DotAt(s) = 0 THEN 0 ELSE Len(s) - DotAt(s)
Place(s, i, scale) ==
    IF DotAt(s) = 0 \/ i > DotAt(s) THEN scale - Decimals(s) + Len(s) - i
    ELSE scale + DotAt(s) - 1 - i

Denotes(s, scale) ==
    IF /\ \A i \in DOMAIN s : s[i] \in Digit \cup {Dot}
       /\ Cardinality({i \in DOMAIN s : s[i] = Dot}) <= 1
       /\ s # <<>> /\ s[1] # Dot /\ s[Len(s)] # Dot
       /\ Decimals(s) <= scale
    THEN LET sum[i \in 0..Len(s)] ==
               IF i = 0 THEN 0
               ELSE IF s[i] = Dot THEN sum[i - 1]
               ELSE sum[i - 1] + s[i] * pow10[Place(s, i, scale)]
         IN IF sum[Len(s)] > MaxBig THEN Error ELSE Ok(sum[Len(s)])
    ELSE Error
=============================================================================
